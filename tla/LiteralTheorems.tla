--------------------------- MODULE LiteralTheorems ---------------------------
(***************************************************************************)
(* The sorted vector of a finite clause: the places that SortedClause      *)
(* describes by counting smaller literals are all taken.  What is taken    *)
(* from a sequence at some of its places.                                  *)
(***************************************************************************)
EXTENDS Literals, FiniteSetTheorems, WellFoundedInduction, TLAPS

\* A number for every literal that orders them as CompareLits does.
Rank(lit) == 2 * VarOf(lit) + (IF lit > 0 THEN 1 ELSE 0)

(* compare_lits orders literals as numbers that tell them apart. *)
LEMMA CompareByRank ==
    ASSUME NEW x \in Int, NEW y \in Int
    PROVE  /\ Rank(x) \in Nat
           /\ CompareLits(x, y) <=> Rank(x) < Rank(y)
           /\ Rank(x) = Rank(y) => x = y
BY DEF Rank, VarOf, CompareLits

(* A set of natural numbers has a least element. *)
LEMMA LeastNumber ==
    ASSUME NEW T, T \subseteq Nat, T # {}
    PROVE  \E n \in T : \A m \in T : n <= m
<1> DEFINE R == StrictSubsetOrdering(Nat)
           segments == {1..n : n \in T}
<1>1. segments \subseteq FiniteSubsetsOf(Nat) /\ segments # {}
    <2>1. ASSUME NEW n \in T PROVE 1..n \in FiniteSubsetsOf(Nat)
        <3>1. n \in Int /\ 1..n \in SUBSET Nat
            OBVIOUS
        <3>2. IsFiniteSet(1..n)
            BY <3>1, FS_Interval
        <3> QED BY <3>1, <3>2 DEF FiniteSubsetsOf
    <2> QED BY <2>1
<1>2. PICK s \in segments : \A t \in segments : ~ (<<t, s>> \in R)
    <2> HIDE DEF R, segments
    <2>1. IsWellFoundedOn(R, FiniteSubsetsOf(Nat))
        BY FS_StrictSubsetOrderingWellFounded DEF R
    <2> QED BY <1>1, <2>1, WFMin
<1>3. PICK n \in T : s = 1..n
    OBVIOUS
<1>4. ASSUME NEW m \in T, m < n PROVE FALSE
    <2>1. 1..m \in SUBSET Nat /\ 1..n \in SUBSET Nat /\ 1..m \subseteq 1..n
        BY <1>4
    <2>2. n \in 1..n /\ n \notin 1..m
        BY <1>4
    <2>3. <<1..m, s>> \in R
        BY <1>3, <2>1, <2>2 DEF StrictSubsetOrdering
    <2> QED BY <1>2, <2>3
<1> QED BY <1>4

(* A nonempty clause has a first literal. *)
LEMMA FirstLiteral ==
    ASSUME NEW T, T \subseteq Int, T # {}
    PROVE  \E x \in T : \A y \in T : y = x \/ CompareLits(x, y)
<1> DEFINE ranks == {Rank(l) : l \in T}
<1>1. ranks \subseteq Nat /\ ranks # {}
    <2>1. \A l \in T : Rank(l) \in Nat
        BY CompareByRank
    <2> QED BY <2>1
<1>2. PICK n \in ranks : \A m \in ranks : n <= m
    <2> HIDE DEF ranks
    <2> QED BY <1>1, LeastNumber
<1>3. PICK x \in T : n = Rank(x)
    OBVIOUS
<1>4. ASSUME NEW y \in T PROVE y = x \/ CompareLits(x, y)
    <2>1. x \in Int /\ y \in Int /\ Rank(x) \in Nat /\ Rank(y) \in Nat
        BY CompareByRank
    <2>2. Rank(x) <= Rank(y)
        BY <1>2, <1>3
    <2>3. Rank(x) = Rank(y) \/ Rank(x) < Rank(y)
        BY <2>1, <2>2
    <2> QED BY <2>1, <2>3, CompareByRank
<1> QED BY <1>4

(* Every place of the sorted vector is taken by a literal of the clause. *)
LEMMA PlaceTaken ==
    ASSUME NEW S, IsFiniteSet(S), S \subseteq Int, NEW n \in 0..(Cardinality(S) - 1)
    PROVE  \E x \in S : Cardinality({l \in S : CompareLits(l, x)}) = n
<1> DEFINE below(x) == {l \in S : CompareLits(l, x)}
           free == {k \in 0..(Cardinality(S) - 1) : \A x \in S : Cardinality(below(x)) # k}
<1>0. Cardinality(S) \in Nat
    BY FS_CardinalityType
<1>1. SUFFICES ASSUME free # {} PROVE FALSE
    OBVIOUS
<1>2. PICK k \in free : \A m \in free : k <= m
    <2>1. free \subseteq Nat
        BY <1>0
    <2> HIDE DEF free
    <2> QED BY <1>1, <2>1, LeastNumber
<1>3. k \in Nat /\ k < Cardinality(S)
    BY <1>0
<1>4. CASE k = 0
    <2>1. S # {}
        BY <1>3, FS_EmptySet
    <2>2. PICK x \in S : \A y \in S : y = x \/ CompareLits(x, y)
        BY <2>1, FirstLiteral
    <2>3. ASSUME NEW y \in S, CompareLits(y, x) PROVE FALSE
        <3>1. Rank(x) \in Nat /\ Rank(y) \in Nat /\ Rank(y) < Rank(x)
            BY <2>3, CompareByRank
        <3>2. ~ CompareLits(x, y) /\ y # x
            BY <3>1, CompareByRank
        <3> QED BY <2>2, <3>2
    <2>4. below(x) = {}
        BY <2>3
    <2> QED BY <1>2, <1>4, <2>4, FS_EmptySet
<1>5. CASE k > 0
    <2>1. k - 1 \notin free /\ k - 1 \in 0..(Cardinality(S) - 1)
        BY <1>0, <1>2, <1>3, <1>5
    <2>2. PICK x \in S : Cardinality(below(x)) = k - 1
        BY <2>1
    <2> DEFINE upto == below(x) \cup {x}
    <2>3. x \notin below(x)
        BY CompareByRank
    <2>4. IsFiniteSet(below(x))
        BY FS_Subset
    <2>5. Cardinality(upto) = k
        <3>1. Cardinality(upto) = Cardinality(below(x)) + 1
            <4> HIDE DEF below
            <4> QED BY <2>3, <2>4, FS_AddElement
        <3> QED BY <1>3, <2>2, <3>1
    <2>6. S \ upto # {}
        BY <1>3, <2>5
    <2>7. PICK z \in S \ upto : \A y \in S \ upto : y = z \/ CompareLits(z, y)
        BY <2>6, FirstLiteral
    <2>8. ASSUME NEW l \in S PROVE CompareLits(l, z) <=> l \in upto
        BY <2>7, CompareByRank
    <2>9. below(z) = upto
        BY <2>8
    <2> QED BY <1>2, <2>5, <2>9
<1> QED BY <1>3, <1>4, <1>5

(* The sorted vector of a finite clause is a sequence of its literals. *)
THEOREM SortedClauseType ==
    ASSUME NEW S, IsFiniteSet(S), S \subseteq Int
    PROVE  SortedClause(S) \in Seq(S) /\ Len(SortedClause(S)) = Cardinality(S)
<1>1. Cardinality(S) \in Nat
    BY FS_CardinalityType
<1>2. ASSUME NEW i \in 1..Cardinality(S)
      PROVE  (CHOOSE x \in S : Cardinality({l \in S : CompareLits(l, x)}) = i - 1) \in S
    <2>1. i - 1 \in 0..(Cardinality(S) - 1)
        BY <1>1, <1>2
    <2>2. \E x \in S : Cardinality({l \in S : CompareLits(l, x)}) = i - 1
        BY <2>1, PlaceTaken
    <2> QED BY <2>2
<1> DEFINE lits == [i \in 1..Cardinality(S) |->
                       CHOOSE x \in S : Cardinality({l \in S : CompareLits(l, x)}) = i - 1]
<1>3. lits \in [1..Cardinality(S) -> S]
    BY <1>2
<1>4. lits \in Seq(S) /\ Len(lits) = Cardinality(S)
    <2> HIDE DEF lits
    <2> QED BY <1>1, <1>3
<1> QED BY <1>4 DEF SortedClause

(* A smaller literal has an earlier place. *)
LEMMA PlacesAscend ==
    ASSUME NEW S, IsFiniteSet(S), S \subseteq Int, NEW x \in S, NEW y \in S,
           CompareLits(x, y)
    PROVE  Cardinality({l \in S : CompareLits(l, x)}) < Cardinality({l \in S : CompareLits(l, y)})
<1> DEFINE below(z) == {l \in S : CompareLits(l, z)}
<1>1. below(x) \subseteq below(y) /\ x \in below(y) /\ x \notin below(x)
    <2>1. ASSUME NEW l \in S, CompareLits(l, x) PROVE CompareLits(l, y)
        <3>1. l \in Int /\ x \in Int /\ y \in Int
            OBVIOUS
        <3>2. Rank(l) \in Nat /\ Rank(x) \in Nat /\ Rank(y) \in Nat
              /\ Rank(l) < Rank(x) /\ Rank(x) < Rank(y)
            BY <2>1, <3>1, CompareByRank
        <3>3. Rank(l) < Rank(y)
            BY <3>2
        <3> QED BY <3>1, <3>3, CompareByRank
    <2>2. ~ CompareLits(x, x)
        BY DEF CompareLits, VarOf
    <2> QED BY <2>1, <2>2
<1>2. IsFiniteSet(below(x)) /\ IsFiniteSet(below(y))
    BY FS_Subset
<1> HIDE DEF below
<1>3. Cardinality(below(x)) <= Cardinality(below(y)) /\ Cardinality(below(x)) # Cardinality(below(y))
    BY <1>1, <1>2, FS_Subset
<1>4. Cardinality(below(x)) \in Nat /\ Cardinality(below(y)) \in Nat
    BY <1>2, FS_CardinalityType
<1>5. Cardinality(below(x)) < Cardinality(below(y))
    BY <1>3, <1>4
<1> QED BY <1>5 DEF below

(* The sorted vector of a finite clause has all of its literals. *)
THEOREM SortedClauseRange ==
    ASSUME NEW S, IsFiniteSet(S), S \subseteq Int
    PROVE  {SortedClause(S)[i] : i \in DOMAIN SortedClause(S)} = S
<1> DEFINE place(x) == Cardinality({l \in S : CompareLits(l, x)})
           sorted == SortedClause(S)
           n == Cardinality(S)
<1>1. n \in Nat /\ sorted \in Seq(S) /\ DOMAIN sorted = 1..n
    <2>1. n \in Nat
        BY FS_CardinalityType
    <2>2. sorted \in Seq(S) /\ Len(sorted) = n
        BY SortedClauseType
    <2> HIDE DEF sorted, n
    <2> QED BY <2>1, <2>2
<1>2. \A i \in 1..n : sorted[i] = CHOOSE x \in S : place(x) = i - 1
    BY DEF SortedClause
<1>3. ASSUME NEW x \in S PROVE place(x) \in 0..(n - 1)
    <2> DEFINE B == {l \in S : CompareLits(l, x)}
    <2>1. B \subseteq S \ {x}
        BY CompareByRank
    <2>2. IsFiniteSet(B) /\ IsFiniteSet(S \ {x})
        BY FS_Subset
    <2>3. Cardinality(S \ {x}) = n - 1
        BY FS_RemoveElement
    <2>4. Cardinality(B) <= Cardinality(S \ {x}) /\ Cardinality(B) \in Nat
        <3> HIDE DEF B
        <3> QED BY <2>1, <2>2, FS_Subset, FS_CardinalityType
    <2> QED BY <1>1, <2>3, <2>4
<1>4. ASSUME NEW x \in S, NEW y \in S, place(x) = place(y) PROVE x = y
    <2>1. place(x) \in Int /\ place(y) \in Int
        BY <1>1, <1>3
    <2>2. ~ CompareLits(x, y) /\ ~ CompareLits(y, x)
        <3>1. ASSUME CompareLits(x, y) \/ CompareLits(y, x) PROVE place(x) # place(y)
            <4>1. place(x) < place(y) \/ place(y) < place(x)
                BY <3>1, PlacesAscend
            <4> HIDE DEF place
            <4> QED BY <2>1, <4>1
        <3> QED BY <1>4, <3>1
    <2>3. x \in Int /\ y \in Int
        OBVIOUS
    <2>4. Rank(x) \in Nat /\ Rank(y) \in Nat /\ ~(Rank(x) < Rank(y)) /\ ~(Rank(y) < Rank(x))
        BY <2>2, <2>3, CompareByRank
    <2>5. Rank(x) = Rank(y)
        BY <2>4
    <2> QED BY <2>3, <2>5, CompareByRank
<1> HIDE DEF place, sorted, n
<1>5. ASSUME NEW x \in S PROVE \E i \in 1..n : sorted[i] = x
    <2> DEFINE i == place(x) + 1
    <2>1. i \in 1..n /\ i - 1 = place(x)
        BY <1>1, <1>3
    <2>2. sorted[i] = CHOOSE y \in S : place(y) = place(x)
        BY <1>2, <2>1
    <2>3. (CHOOSE y \in S : place(y) = place(x)) = x
        BY <1>4
    <2> QED BY <2>1, <2>2, <2>3
<1>6. \A i \in DOMAIN sorted : sorted[i] \in S
    BY <1>1
<1>7. {sorted[i] : i \in DOMAIN sorted} = S
    BY <1>1, <1>5, <1>6
<1> QED BY <1>7 DEF sorted

(* The sorted vector of a finite clause ascends. *)
LEMMA SortedClauseAscends ==
    ASSUME NEW S, IsFiniteSet(S), S \subseteq Int,
           NEW i \in DOMAIN SortedClause(S), NEW j \in DOMAIN SortedClause(S), i < j
    PROVE  CompareLits(SortedClause(S)[i], SortedClause(S)[j])
<1> DEFINE place(x) == Cardinality({l \in S : CompareLits(l, x)})
           sorted == SortedClause(S)
           n == Cardinality(S)
<1>1. n \in Nat /\ DOMAIN sorted = 1..n /\ i \in 1..n /\ j \in 1..n
    BY FS_CardinalityType DEF SortedClause
<1>2. ASSUME NEW k \in 1..n PROVE sorted[k] \in S /\ place(sorted[k]) = k - 1
    <2>1. \E x \in S : place(x) = k - 1
        <3>1. k - 1 \in 0..(Cardinality(S) - 1)
            BY <1>1
        <3> QED BY <3>1, PlaceTaken
    <2>2. sorted[k] = CHOOSE x \in S : place(x) = k - 1
        BY DEF SortedClause
    <2> HIDE DEF place, sorted
    <2> QED BY <2>1, <2>2
<1>3. sorted[i] \in S /\ sorted[j] \in S /\ place(sorted[i]) = i - 1 /\ place(sorted[j]) = j - 1
    BY <1>1, <1>2
<1> SUFFICES ASSUME ~CompareLits(sorted[i], sorted[j]) PROVE FALSE
    OBVIOUS
<1>4. CASE sorted[i] = sorted[j]
    <2> HIDE DEF place, sorted
    <2> QED BY <1>1, <1>3, <1>4
<1>5. CASE sorted[i] # sorted[j]
    <2>1. CompareLits(sorted[j], sorted[i])
        <3> DEFINE x == sorted[i]
                   y == sorted[j]
        <3>1. x \in Int /\ y \in Int /\ x # y /\ ~CompareLits(x, y)
            BY <1>3, <1>5
        <3> HIDE DEF x, y
        <3>2. Rank(x) \in Nat /\ Rank(y) \in Nat /\ Rank(x) # Rank(y) /\ ~(Rank(x) < Rank(y))
            BY <3>1, CompareByRank
        <3>3. Rank(y) < Rank(x)
            BY <3>2
        <3>4. CompareLits(y, x)
            BY <3>1, <3>3, CompareByRank
        <3> QED BY <3>4 DEF x, y
    <2>2. place(sorted[j]) < place(sorted[i])
        <3> HIDE DEF sorted
        <3> QED BY <1>3, <2>1, PlacesAscend
    <2> HIDE DEF place, sorted
    <2> QED BY <1>1, <1>3, <2>2
<1> QED BY <1>4, <1>5

(* What AtPlaces takes from a sequence: the members at these places and no other,
   each once, in the order of the sequence. *)
THEOREM AtPlacesType ==
    ASSUME NEW T, NEW seq \in Seq(T), NEW places \in SUBSET DOMAIN seq
    PROVE  LET part == AtPlaces(seq, places)
               place == SortedClause(places)
           IN  /\ part \in Seq(T) /\ DOMAIN part = DOMAIN place
               /\ \A n \in DOMAIN part : place[n] \in places /\ part[n] = seq[place[n]]
               /\ \A m, n \in DOMAIN part : m < n => place[m] < place[n]
               /\ \A p \in places : \E n \in DOMAIN part : place[n] = p
<1> DEFINE place == SortedClause(places)
           part == AtPlaces(seq, places)
<1>1. IsFiniteSet(places) /\ places \subseteq Nat \ {0}
    <2>1. Len(seq) \in Nat /\ DOMAIN seq = 1..Len(seq)
        OBVIOUS
    <2>2. IsFiniteSet(DOMAIN seq)
        BY <2>1, FS_Interval
    <2> QED BY <2>1, <2>2, FS_Subset
<1>2. place \in Seq(places) /\ {place[n] : n \in DOMAIN place} = places
    BY <1>1, SortedClauseType, SortedClauseRange
<1>3. ASSUME NEW m \in DOMAIN place, NEW n \in DOMAIN place, m < n PROVE place[m] < place[n]
    <2>1. CompareLits(place[m], place[n])
        BY <1>1, <1>3, SortedClauseAscends
    <2>2. place[m] \in Nat /\ place[n] \in Nat
        BY <1>1, <1>2
    <2> HIDE DEF place
    <2> QED BY <2>1, <2>2 DEF CompareLits, VarOf
<1>4. part = [n \in DOMAIN place |-> seq[place[n]]]
    BY DEF AtPlaces
<1> HIDE DEF place, part
<1>5. Len(place) \in Nat /\ DOMAIN place = 1..Len(place)
      /\ \A n \in DOMAIN place : place[n] \in places /\ seq[place[n]] \in T
    BY <1>1, <1>2
<1>6. part \in Seq(T) /\ DOMAIN part = DOMAIN place
    BY <1>4, <1>5
<1>7. \A p \in places : \E n \in DOMAIN part : place[n] = p
    BY <1>2, <1>6
<1> QED BY <1>3, <1>4, <1>5, <1>6, <1>7 DEF place, part
=============================================================================
