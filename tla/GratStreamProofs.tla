-------------------------- MODULE GratStreamProofs --------------------------
(***************************************************************************)
(* The buffered GRAT proof implements the log, for all entries, any        *)
(* capacity of the buffer and any numbers of clauses and items.            *)
(*                                                                         *)
(* At any time the auxiliary files and the buffer are consecutive segments *)
(* of the log; what has been written is the rest of it, backwards.         *)
(***************************************************************************)
EXTENDS GratStream, SequenceTheorems, TLAPS

Items == [tag : {1, 3, 5, 6}, lemma : Int, units : Seq(Int), conflict : Int]

Written == {InFile(item) : item \in Items}

\* cut[i] items of the log come before the i-th auxiliary file; the last cut is
\* where the buffer begins.
IsCut(cut, n) ==
    /\ cut \in [1..(Len(aux_files) + 1) -> Nat]
    /\ cut[1] = 0
    /\ \A i, k \in 1..(Len(aux_files) + 1) : i <= k => cut[i] <= cut[k]
    /\ \A i \in 1..Len(aux_files) :
            /\ cut[i + 1] = cut[i] + Len(aux_files[i])
            /\ \A j \in 1..Len(aux_files[i]) : aux_files[i][j] = emitted[cut[i] + j]
    /\ n = cut[Len(aux_files) + 1] + Len(grat_proof)
    /\ \A j \in 1..Len(grat_proof) :
            grat_proof[j] = emitted[cut[Len(aux_files) + 1] + j]

StreamTypes ==
    /\ mode \in {"open", "writing", "closed"}
    /\ emitted \in Seq(Items)
    /\ grat_proof \in Seq(Items)
    /\ aux_files \in Seq(Seq(Items))
    /\ grat \in Seq(Written)

StreamInv ==
    /\ StreamTypes
    /\ mode = "open" => grat = <<>>
    /\ mode # "closed" =>
            \E cut \in [1..(Len(aux_files) + 1) -> Nat] : IsCut(cut, Len(emitted) - Len(grat))
    /\ mode = "closed" => Len(grat) = Len(emitted)
    /\ Len(grat) <= Len(emitted)
    /\ \A i \in 1..Len(grat) : grat[i] = InFile(emitted[Len(emitted) + 1 - i])

(* Writing a buffer backwards keeps its length and mirrors the places of its items. *)
LEMMA BackwardsType ==
    ASSUME NEW s \in Seq(Items)
    PROVE  /\ Backwards(s, Total) \in Seq(Written)
           /\ Len(Backwards(s, Total)) = Len(s)
           /\ \A i \in 1..Len(s) : Backwards(s, Total)[i] = InFile(s[Len(s) + 1 - i])
BY DEF Backwards, Written, InFile

(* Nothing is in the log, the buffer or a file when the program starts. *)
LEMMA StreamInit == Init => StreamInv
<1> SUFFICES ASSUME Init PROVE StreamInv
    OBVIOUS
<1>1. IsCut([i \in {1} |-> 0], 0) /\ [i \in {1} |-> 0] \in [1..1 -> Nat]
    BY DEF Init, GratInit, IsCut
<1> QED BY <1>1 DEF Init, GratInit, StreamInv, StreamTypes

(* The elements of a concatenation, each half by its own index. *)
LEMMA PartsOfConcat ==
    ASSUME NEW S, NEW s \in Seq(S), NEW t \in Seq(S)
    PROVE  /\ s \o t \in Seq(S) /\ Len(s \o t) = Len(s) + Len(t)
           /\ \A i \in 1..Len(s) : (s \o t)[i] = s[i]
           /\ \A i \in 1..Len(t) : (s \o t)[Len(s) + i] = t[i]
<1>1. Len(s) \in Nat /\ Len(t) \in Nat
    OBVIOUS
<1>2. ASSUME NEW i \in 1..Len(s) PROVE (s \o t)[i] = s[i]
    BY <1>1, ConcatProperties
<1>3. ASSUME NEW i \in 1..Len(t) PROVE (s \o t)[Len(s) + i] = t[i]
    <2>1. Len(s) + i \in 1..(Len(s) + Len(t)) /\ ~(Len(s) + i <= Len(s)) /\ Len(s) + i - Len(s) = i
        BY <1>1
    <2> QED BY <2>1, ConcatProperties
<1> QED BY <1>2, <1>3, ConcatProperties

(* All but the last files. *)
LEMMA PrefixProperties ==
    ASSUME NEW S, NEW s \in Seq(S), NEW n \in Nat, n <= Len(s)
    PROVE  /\ SubSeq(s, 1, n) \in Seq(S) /\ Len(SubSeq(s, 1, n)) = n
           /\ \A i \in 1..n : SubSeq(s, 1, n)[i] = s[i]
<1>1. \A i \in 1..n : s[i] \in S
    OBVIOUS
<1>2. n \in Int /\ 1 \in Int /\ n - 1 + 1 = n /\ (~(1 <= n) => n = 0)
    OBVIOUS
<1>3. /\ SubSeq(s, 1, n) \in Seq(S)
      /\ Len(SubSeq(s, 1, n)) = (IF 1 <= n THEN n - 1 + 1 ELSE 0)
      /\ \A i \in 1..(n - 1 + 1) : SubSeq(s, 1, n)[i] = s[1 + i - 1]
    BY <1>1, <1>2, SubSeqProperties
<1>4. \A i \in 1..n : 1 + i - 1 = i
    OBVIOUS
<1> QED BY <1>2, <1>3, <1>4

(* The buffer is the end of the unwritten log; the newest auxiliary file is what
   comes before it. *)
LEMMA WriteOneBufferKeepsInv ==
    ASSUME StreamInv, WriteOneBuffer
    PROVE  StreamInv'
<1> DEFINE last == Len(aux_files) + 1
           total == Len(emitted)
<1>1. /\ mode = "writing" /\ emitted' = emitted
      /\ grat' = grat \o Backwards(grat_proof, Total)
    BY DEF WriteOneBuffer, WriteBuffer
<1>2. /\ Len(aux_files) \in Nat /\ last \in Nat \ {0} /\ Len(grat_proof) \in Nat
      /\ Len(grat) \in Nat /\ total \in Nat /\ grat_proof \in Seq(Items)
    BY DEF StreamInv, StreamTypes
<1>3. PICK cut \in [1..last -> Nat] : IsCut(cut, total - Len(grat))
    BY <1>1 DEF StreamInv
<1>4. /\ total - Len(grat) = cut[last] + Len(grat_proof) /\ cut[last] \in Nat
      /\ cut[1] = 0 /\ \A i, k \in 1..last : i <= k => cut[i] <= cut[k]
    BY <1>2, <1>3 DEF IsCut
<1>5. /\ grat' \in Seq(Written) /\ Len(grat') = Len(grat) + Len(grat_proof)
      /\ \A i \in 1..Len(grat) : grat'[i] = grat[i]
      /\ \A i \in 1..Len(grat_proof) :
            grat'[Len(grat) + i] = InFile(grat_proof[Len(grat_proof) + 1 - i])
    <2>0. PICK back : back = Backwards(grat_proof, Total)
        OBVIOUS
    <2>1. /\ back \in Seq(Written) /\ Len(back) = Len(grat_proof)
          /\ \A i \in 1..Len(grat_proof) : back[i] = InFile(grat_proof[Len(grat_proof) + 1 - i])
        BY <1>2, <2>0, BackwardsType
    <2>2. grat \in Seq(Written)
        BY DEF StreamInv, StreamTypes
    <2>3. /\ grat \o back \in Seq(Written) /\ Len(grat \o back) = Len(grat) + Len(back)
          /\ \A i \in 1..Len(grat) : (grat \o back)[i] = grat[i]
          /\ \A i \in 1..Len(back) : (grat \o back)[Len(grat) + i] = back[i]
        <3>1. back \in Seq(Written) /\ grat \in Seq(Written)
            BY <2>1, <2>2
        <3>2. grat \o back \in Seq(Written)
            BY <3>1, PartsOfConcat
        <3>3. Len(grat \o back) = Len(grat) + Len(back)
            BY <3>1, PartsOfConcat
        <3>4. \A i \in 1..Len(grat) : (grat \o back)[i] = grat[i]
            BY <3>1, PartsOfConcat
        <3>5. \A i \in 1..Len(back) : (grat \o back)[Len(grat) + i] = back[i]
            BY <3>1, PartsOfConcat
        <3> QED BY <3>2, <3>3, <3>4, <3>5
    <2>4. grat' = grat \o back
        BY <1>1, <2>0
    <2> QED BY <2>1, <2>3, <2>4
<1>6. Len(grat') <= total /\ Len(grat') \in Nat /\ total - Len(grat') = cut[last]
    BY <1>2, <1>4, <1>5
<1>7. ASSUME NEW i \in 1..Len(grat') PROVE grat'[i] = InFile(emitted[total + 1 - i])
    <2>1. CASE i <= Len(grat)
        BY <1>2, <1>5, <2>1 DEF StreamInv
    <2>2. CASE i > Len(grat)
        <3> DEFINE k == i - Len(grat)
                   j == Len(grat_proof) + 1 - k
        <3>1. k \in 1..Len(grat_proof) /\ j \in 1..Len(grat_proof) /\ i = Len(grat) + k
            BY <1>2, <1>5, <2>2
        <3>2. cut[last] + j = total + 1 - i
            <4>1. i \in Nat /\ Len(grat) \in Nat /\ total \in Nat /\ cut[last] \in Nat
                BY <1>2, <1>4, <1>6
            <4>2. total - Len(grat) = cut[last] + Len(grat_proof) /\ Len(grat_proof) \in Nat
                BY <1>2, <1>4
            <4> HIDE DEF total, last
            <4>3. cut[last] = (total - Len(grat)) - Len(grat_proof)
                BY <4>1, <4>2
            <4> QED BY <4>1, <4>2, <4>3
        <3>3. grat_proof[j] = emitted[cut[last] + j]
            BY <1>3, <3>1 DEF IsCut
        <3>4. grat'[Len(grat) + k] = InFile(grat_proof[j])
            BY <1>5, <3>1
        <3> QED BY <3>1, <3>2, <3>3, <3>4
    <2> QED BY <1>2, <1>6, <2>1, <2>2
<1>8. CASE aux_files = <<>>
    <2>1. /\ mode' = "closed" /\ grat_proof' = grat_proof /\ aux_files' = aux_files
        BY <1>8 DEF WriteOneBuffer, WriteBuffer
    <2>2. Len(grat') = total
        BY <1>2, <1>4, <1>6, <1>8
    <2>3. StreamTypes'
        BY <1>1, <1>5, <2>1 DEF StreamInv, StreamTypes
    <2> QED BY <1>1, <1>6, <1>7, <2>1, <2>2, <2>3 DEF StreamInv
<1>9. CASE aux_files # <<>>
    <2> DEFINE k == Len(aux_files)
    <2>1. /\ mode' = "writing" /\ grat_proof' = aux_files[k]
          /\ aux_files' = SubSeq(aux_files, 1, k - 1)
        BY <1>1, <1>9 DEF WriteOneBuffer, WriteBuffer, Last, Front
    <2>2. k \in Nat \ {0} /\ aux_files \in Seq(Seq(Items))
        BY <1>9, EmptySeq DEF StreamInv, StreamTypes
    <2>3. /\ aux_files' \in Seq(Seq(Items)) /\ Len(aux_files') = k - 1
          /\ \A i \in 1..(k - 1) : aux_files'[i] = aux_files[i]
        <3>1. k - 1 \in Nat /\ k - 1 <= Len(aux_files)
            BY <2>2
        <3>2. /\ SubSeq(aux_files, 1, k - 1) \in Seq(Seq(Items))
              /\ Len(SubSeq(aux_files, 1, k - 1)) = k - 1
              /\ \A i \in 1..(k - 1) : SubSeq(aux_files, 1, k - 1)[i] = aux_files[i]
            BY <2>2, <3>1, PrefixProperties
        <3> QED BY <2>1, <3>2
    <2>4. StreamTypes'
        BY <1>1, <1>5, <2>1, <2>2, <2>3 DEF StreamInv, StreamTypes
    <2>5. PICK shorter \in [1..k -> Nat] : \A i \in 1..k : shorter[i] = cut[i]
        <3>1. [i \in 1..k |-> cut[i]] \in [1..k -> Nat]
            BY <1>3, <2>2
        <3> QED BY <3>1
    <2>6. cut[last] = cut[k] + Len(aux_files[k])
        BY <1>3, <2>2 DEF IsCut
    <2>7. IsCut(shorter, total - Len(grat))'
        <3>1. shorter \in [1..(Len(aux_files') + 1) -> Nat] /\ shorter[1] = 0
            BY <1>4, <2>2, <2>3, <2>5
        <3>2. \A i, j \in 1..(Len(aux_files') + 1) : i <= j => shorter[i] <= shorter[j]
            BY <1>4, <2>2, <2>3, <2>5
        <3>3. ASSUME NEW i \in 1..Len(aux_files')
              PROVE  /\ shorter[i + 1] = shorter[i] + Len(aux_files'[i])
                     /\ \A j \in 1..Len(aux_files'[i]) :
                            aux_files'[i][j] = emitted'[shorter[i] + j]
            <4>1. i \in 1..Len(aux_files) /\ i \in 1..(k - 1) /\ i + 1 \in 1..k
                BY <2>2, <2>3
            <4>2. /\ cut[i + 1] = cut[i] + Len(aux_files[i])
                  /\ \A j \in 1..Len(aux_files[i]) : aux_files[i][j] = emitted[cut[i] + j]
                BY <1>3, <4>1 DEF IsCut
            <4>3. shorter[i] = cut[i] /\ shorter[i + 1] = cut[i + 1]
                BY <2>5, <4>1
            <4> QED BY <1>1, <2>3, <4>1, <4>2, <4>3
        <3>4. /\ Len(aux_files') + 1 = k
              /\ Len(emitted') - Len(grat') = shorter[k] + Len(grat_proof')
            <4>1. Len(aux_files') + 1 = k
                BY <2>2, <2>3
            <4>2. Len(emitted') - Len(grat') = cut[last]
                BY <1>1, <1>6
            <4>3. shorter[k] = cut[k]
                BY <2>2, <2>5
            <4>4. Len(grat_proof') = Len(aux_files[k])
                BY <2>1
            <4> QED BY <2>6, <4>1, <4>2, <4>3, <4>4
        <3>5. \A j \in 1..Len(grat_proof') : grat_proof'[j] = emitted'[shorter[k] + j]
            BY <1>1, <1>3, <2>1, <2>2, <2>5 DEF IsCut
        <3> QED BY <3>1, <3>2, <3>3, <3>4, <3>5 DEF IsCut
    <2>8. \E c \in [1..(Len(aux_files') + 1) -> Nat] : IsCut(c, Len(emitted) - Len(grat))'
        BY <2>2, <2>3, <2>5, <2>7
    <2> QED BY <1>1, <1>6, <1>7, <2>1, <2>4, <2>8 DEF StreamInv
<1> QED BY <1>8, <1>9

(* Producing items, dumping the buffer and writing it keep the segments in place. *)
LEMMA StreamNext == StreamInv /\ [Next]_streamVars => StreamInv'
<1> SUFFICES ASSUME StreamInv, [Next]_streamVars PROVE StreamInv'
    OBVIOUS
<1>1. CASE UNCHANGED streamVars
    BY <1>1 DEF streamVars, gratVars, StreamInv, StreamTypes, IsCut
<1>2. ASSUME NEW items \in Entries, Produce(items) PROVE StreamInv'
    <2>1. items \in Seq(Items)
        BY StreamAssumption DEF Items
    <2>2. /\ mode = "open" /\ mode' = "open" /\ grat = <<>> /\ grat' = <<>>
          /\ aux_files' = aux_files
          /\ grat_proof' = grat_proof \o items /\ emitted' = emitted \o items
        BY <1>2 DEF Produce, Emit, StreamInv
    <2>3. StreamTypes'
        BY <2>1, <2>2, EmptySeq DEF StreamInv, StreamTypes
    <2>4. PICK cut \in [1..(Len(aux_files) + 1) -> Nat] : IsCut(cut, Len(emitted))
        BY <2>2 DEF StreamInv
    <2> DEFINE last == Len(aux_files) + 1
    <2>5. /\ Len(aux_files) \in Nat /\ last \in Nat \ {0} /\ Len(emitted) \in Nat
          /\ Len(grat_proof) \in Nat /\ Len(items) \in Nat
        BY <2>1 DEF StreamInv, StreamTypes
    <2>6. /\ Len(emitted') = Len(emitted) + Len(items)
          /\ Len(grat_proof') = Len(grat_proof) + Len(items)
          /\ \A i \in 1..Len(emitted) : emitted'[i] = emitted[i]
          /\ \A i \in 1..Len(items) : emitted'[Len(emitted) + i] = items[i]
          /\ \A i \in 1..Len(grat_proof) : grat_proof'[i] = grat_proof[i]
          /\ \A i \in 1..Len(items) : grat_proof'[Len(grat_proof) + i] = items[i]
        BY <2>1, <2>2, ConcatProperties DEF StreamInv, StreamTypes
    <2>7. ASSUME NEW i \in 1..Len(aux_files), NEW j \in 1..Len(aux_files[i])
          PROVE  aux_files[i][j] = emitted'[cut[i] + j]
        <3>1. Len(aux_files[i]) \in Nat /\ i + 1 \in 1..last
            BY <2>5 DEF StreamInv, StreamTypes
        <3>2. cut[i] + j \in 1..Len(emitted)
            <4>1. cut[i + 1] = cut[i] + Len(aux_files[i])
                BY <2>4 DEF IsCut
            <4>2. cut[i + 1] <= cut[last]
                BY <2>4, <2>5, <3>1 DEF IsCut
            <4>3. Len(emitted) = cut[last] + Len(grat_proof)
                BY <2>4 DEF IsCut
            <4>4. cut[i] \in Nat /\ cut[i + 1] \in Nat /\ cut[last] \in Nat
                BY <2>5, <3>1
            <4> QED BY <2>5, <3>1, <4>1, <4>2, <4>3, <4>4
        <3> QED BY <2>4, <2>6, <3>2 DEF IsCut
    <2>8. ASSUME NEW j \in 1..Len(grat_proof')
          PROVE  grat_proof'[j] = emitted'[cut[last] + j]
        <3>1. cut[last] \in Nat /\ Len(emitted) = cut[last] + Len(grat_proof)
            BY <2>4, <2>5 DEF IsCut
        <3>2. CASE j <= Len(grat_proof)
            <4>1. j \in 1..Len(grat_proof) /\ cut[last] + j \in 1..Len(emitted)
                BY <2>5, <2>6, <3>1, <3>2
            <4>2. grat_proof[j] = emitted[cut[last] + j]
                BY <2>4, <4>1 DEF IsCut
            <4> QED BY <2>6, <4>1, <4>2
        <3>3. CASE j > Len(grat_proof)
            <4>1. j - Len(grat_proof) \in 1..Len(items)
                BY <2>5, <2>6, <3>3
            <4>2. grat_proof'[j] = items[j - Len(grat_proof)]
                BY <2>5, <2>6, <4>1
            <4>3. cut[last] + j = Len(emitted) + (j - Len(grat_proof))
                BY <2>5, <3>1
            <4> QED BY <2>6, <4>1, <4>2, <4>3
        <3> QED BY <2>5, <2>6, <3>2, <3>3
    <2>9. IsCut(cut, Len(emitted))'
        <3>1. Len(emitted') = cut[last] + Len(grat_proof')
            <4>1. cut[last] \in Nat /\ Len(emitted) = cut[last] + Len(grat_proof)
                BY <2>4, <2>5 DEF IsCut
            <4> QED BY <2>5, <2>6, <4>1
        <3>2. /\ cut[1] = 0
              /\ \A i, k \in 1..last : i <= k => cut[i] <= cut[k]
              /\ \A i \in 1..Len(aux_files) : cut[i + 1] = cut[i] + Len(aux_files[i])
            BY <2>4 DEF IsCut
        <3> QED BY <2>2, <2>7, <2>8, <3>1, <3>2 DEF IsCut
    <2>10. IsCut(cut, Len(emitted) - Len(grat))' /\ Len(grat') = 0
        BY <2>2, <2>5, <2>6, <2>9
    <2> QED BY <2>2, <2>3, <2>4, <2>5, <2>6, <2>10 DEF StreamInv
<1>3. CASE EndOfLine
    <2>1. /\ mode = "open" /\ mode' = "open" /\ grat = <<>> /\ grat' = <<>>
          /\ emitted' = emitted
        BY <1>3 DEF EndOfLine, EmitAndDump, StreamInv
    <2>2. grat_proof \o <<>> = grat_proof
        BY ConcatEmptySeq DEF StreamInv, StreamTypes
    <2>3. CASE aux_files' = aux_files /\ grat_proof' = grat_proof
        BY <2>1, <2>3 DEF StreamInv, StreamTypes, IsCut
    <2>4. CASE aux_files' = Append(aux_files, grat_proof) /\ grat_proof' = <<>>
        <3> DEFINE last == Len(aux_files) + 1
        <3>1. StreamTypes'
            BY <2>1, <2>4 DEF StreamInv, StreamTypes
        <3>2. PICK cut \in [1..last -> Nat] : IsCut(cut, Len(emitted))
            BY <2>1 DEF StreamInv
        <3>3. /\ Len(aux_files) \in Nat /\ last \in Nat \ {0}
              /\ Len(emitted) \in Nat /\ Len(grat_proof) \in Nat
            BY DEF StreamInv, StreamTypes
        <3>4. /\ Len(aux_files') = last
              /\ \A i \in 1..Len(aux_files) : aux_files'[i] = aux_files[i]
              /\ aux_files'[last] = grat_proof
            BY <2>4, AppendProperties DEF StreamInv, StreamTypes
        <3>5. PICK new \in [1..(last + 1) -> Nat] :
                    (\A i \in 1..last : new[i] = cut[i]) /\ new[last + 1] = Len(emitted)
            <4> DEFINE longer == [i \in 1..(last + 1) |-> IF i <= last THEN cut[i] ELSE Len(emitted)]
            <4>1. longer \in [1..(last + 1) -> Nat]
                BY <3>2, <3>3
            <4>2. (\A i \in 1..last : longer[i] = cut[i]) /\ longer[last + 1] = Len(emitted)
                BY <3>3
            <4> QED BY <4>1, <4>2
        <3>6. /\ cut[1] = 0 /\ Len(emitted) = cut[last] + Len(grat_proof) /\ cut[last] \in Nat
              /\ \A i, k \in 1..last : i <= k => cut[i] <= cut[k]
            BY <3>2, <3>3 DEF IsCut
        <3>7. /\ new[1] = 0 /\ 1..(last + 1) = 1..last \cup {last + 1}
              /\ \A i \in 1..last : cut[i] \in Nat /\ cut[i] <= Len(emitted)
            BY <3>2, <3>3, <3>5, <3>6
        <3>8. \A i, k \in 1..(last + 1) : i <= k => new[i] <= new[k]
            BY <3>3, <3>5, <3>6, <3>7
        <3>9. ASSUME NEW i \in 1..last
              PROVE  /\ new[i + 1] = new[i] + Len(aux_files'[i])
                     /\ \A j \in 1..Len(aux_files'[i]) : aux_files'[i][j] = emitted'[new[i] + j]
            <4>1. CASE i = last
                BY <2>1, <3>2, <3>3, <3>4, <3>5, <4>1 DEF IsCut
            <4>2. CASE i # last
                <5>1. i \in 1..Len(aux_files) /\ i + 1 \in 1..last
                    BY <3>3, <4>2
                <5>2. /\ cut[i + 1] = cut[i] + Len(aux_files[i])
                      /\ \A j \in 1..Len(aux_files[i]) : aux_files[i][j] = emitted[cut[i] + j]
                    BY <3>2, <5>1 DEF IsCut
                <5> QED BY <2>1, <3>4, <3>5, <5>1, <5>2
            <4> QED BY <4>1, <4>2
        <3>10. /\ Len(aux_files') + 1 = last + 1 /\ Len(grat_proof') = 0
               /\ Len(emitted') = new[last + 1] + Len(grat_proof')
               /\ Len(emitted') - Len(grat') = Len(emitted') /\ Len(grat') = 0
            BY <2>1, <2>4, <3>3, <3>4, <3>5
        <3>11. IsCut(new, Len(emitted))'
            <4>1. new \in [1..(Len(aux_files') + 1) -> Nat] /\ new[1] = 0
                BY <3>5, <3>7, <3>10
            <4>2. \A i, k \in 1..(Len(aux_files') + 1) : i <= k => new[i] <= new[k]
                BY <3>8, <3>10
            <4>3. \A i \in 1..Len(aux_files') :
                     /\ new[i + 1] = new[i] + Len(aux_files'[i])
                     /\ \A j \in 1..Len(aux_files'[i]) : aux_files'[i][j] = emitted'[new[i] + j]
                BY <3>4, <3>9
            <4>4. Len(emitted') = new[Len(aux_files') + 1] + Len(grat_proof')
                BY <3>10
            <4>5. \A j \in 1..Len(grat_proof') :
                     grat_proof'[j] = emitted'[new[Len(aux_files') + 1] + j]
                BY <3>10
            <4> QED BY <4>1, <4>2, <4>3, <4>4, <4>5 DEF IsCut
        <3>12. IsCut(new, Len(emitted) - Len(grat))'
            BY <3>10, <3>11
        <3>13. new \in [1..(Len(aux_files') + 1) -> Nat]
            BY <3>5, <3>10
        <3>14. \E c \in [1..(Len(aux_files') + 1) -> Nat] : IsCut(c, Len(emitted) - Len(grat))'
            BY <3>12, <3>13
        <3>15. /\ Len(grat') <= Len(emitted')
               /\ \A i \in 1..Len(grat') : grat'[i] = InFile(emitted'[Len(emitted') + 1 - i])
            BY <2>1, <3>3, <3>10
        <3> QED BY <2>1, <3>1, <3>14, <3>15 DEF StreamInv
    <2> QED BY <1>3, <2>2, <2>3, <2>4 DEF EndOfLine, EmitAndDump
<1>4. CASE BeginWriting
    BY <1>4 DEF BeginWriting, gratVars, StreamInv, StreamTypes, IsCut
<1>5. CASE WriteOneBuffer
    BY <1>5, WriteOneBufferKeepsInv
<1>6. CASE Closed
    BY <1>6 DEF Closed, streamVars, gratVars, StreamInv, StreamTypes, IsCut
<1> QED BY <1>1, <1>2, <1>3, <1>4, <1>5, <1>6 DEF Next

-----------------------------------------------------------------------------
(* Every step of the buffered proof is a step of the log or changes nothing that
   can be seen. *)
LEMMA StepImplementsLog ==
    StreamInv /\ [Next]_streamVars
        => [Log!Next]_<<emitted, mode = "closed", IF mode = "closed" THEN grat ELSE <<>>>>
<1> DEFINE seen == <<emitted, mode = "closed", IF mode = "closed" THEN grat ELSE <<>>>>
<1> SUFFICES ASSUME StreamInv, [Next]_streamVars
             PROVE  Log!Next \/ UNCHANGED seen
    OBVIOUS
<1>1. CASE UNCHANGED streamVars
    BY <1>1 DEF streamVars, gratVars
<1>2. ASSUME NEW items \in Entries, Produce(items) PROVE Log!Next
    <2>1. mode = "open" /\ mode' = "open" /\ emitted' = emitted \o items
        BY <1>2 DEF Produce
    <2>2. Log!Write(items)
        BY <2>1 DEF Log!Write
    <2> QED BY <2>2 DEF Log!Next
<1>3. CASE EndOfLine
    BY <1>3 DEF EndOfLine
<1>4. CASE BeginWriting
    BY <1>4 DEF BeginWriting, gratVars
<1>5. CASE WriteOneBuffer
    <2>1. mode = "writing" /\ emitted' = emitted
        BY <1>5 DEF WriteOneBuffer
    <2>2. CASE aux_files # <<>>
        BY <1>5, <2>1, <2>2 DEF WriteOneBuffer
    <2>3. CASE aux_files = <<>>
        <3>1. mode' = "closed"
            BY <1>5, <2>3 DEF WriteOneBuffer
        <3>2. StreamInv'
            BY <1>5, WriteOneBufferKeepsInv
        <3>3. /\ grat' \in Seq(Written) /\ Len(grat') = Len(emitted)
              /\ \A i \in 1..Len(grat') : grat'[i] = InFile(emitted[Len(emitted) + 1 - i])
            BY <2>1, <3>1, <3>2 DEF StreamInv, StreamTypes
        <3>4. grat' = [i \in 1..Len(emitted) |-> InFile(emitted[Len(emitted) + 1 - i])]
            BY <3>3
        <3>5. Log!Close
            BY <2>1, <3>1, <3>4 DEF Log!Close
        <3> QED BY <3>5 DEF Log!Next
    <2> QED BY <2>2, <2>3
<1>6. CASE Closed
    BY <1>6 DEF Closed, streamVars, gratVars
<1> QED BY <1>1, <1>2, <1>3, <1>4, <1>5, <1>6 DEF Next

(* Wherever the buffer is dumped, the GRAT file is the log of the hints read
   from its end, and nothing is lost, repeated or reordered. *)
THEOREM StreamImplementsLog == Spec => ImplementsLog
<1>1. Init => Log!Init
    BY DEF Init, GratInit, Log!Init
<1> QED BY <1>1, StreamInit, StreamNext, StepImplementsLog, PTL DEF Spec, ImplementsLog, Log!Spec
=============================================================================
