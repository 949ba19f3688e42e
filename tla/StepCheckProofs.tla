--------------------------- MODULE StepCheckProofs ---------------------------
(***************************************************************************)
(* The step checks are sound and complete with respect to long-distance    *)
(* Q-resolution, for every prefix and for clauses of any size.             *)
(***************************************************************************)
EXTENDS StepChecks, LiteralTheorems, SequenceTheorems

(* The depth of an unknown variable is a number. *)
LEMMA UnknownDepth == UINT_MAX \in Nat
BY SMT DEF UINT_MAX

(* A literal of the prefix is a nonzero number, and so is its negation; its depth
   and its type are those of its variable. *)
LEMMA LiteralType ==
    ASSUME NEW p, IsVarData(p), NEW l \in LiteralsOf(p), NEW ptype
    PROVE  /\ l \in Int /\ l # 0 /\ l # -l /\ -(-l) = l /\ (l < 0 <=> ~(-l < 0))
           /\ VarOf(l) \in DOMAIN p
           /\ -l \in LiteralsOf(p) /\ VarOf(-l) = VarOf(l)
           /\ Depth(p, VarOf(l)) = Q!Level(p, l)
           /\ Q!Level(p, l) \in 1..(UINT_MAX - 1)
           /\ IsPrimary(p, VarOf(l), ptype) <=> Q!Primary(p, ptype, l)
           /\ Q!Level(p, -l) = Q!Level(p, l)
           /\ Q!Primary(p, ptype, -l) <=> Q!Primary(p, ptype, l)
<1>1. PICK v \in DOMAIN p : l \in {v, -v}
    BY DEF LiteralsOf
<1>2. v \in Nat \ {0}
    BY DEF IsVarData
<1>3. l \in Int /\ l # 0 /\ VarOf(l) = v /\ VarOf(-l) = v /\ -l \in {v, -v}
    BY <1>1, <1>2 DEF VarOf
<1>4. -l \in LiteralsOf(p)
    BY <1>3 DEF LiteralsOf
<1>5. Depth(p, v) = p[v].depth /\ p[v].depth \in 1..(UINT_MAX - 1)
    BY DEF Depth, IsVarData
<1> QED BY <1>3, <1>4, <1>5 DEF IsPrimary, Q!Level, Q!Primary, Q!VarOf, VarOf

(* Two literals at the same level have variables of the same type. *)
LEMMA SameLevel ==
    ASSUME NEW p, IsVarData(p), NEW l \in LiteralsOf(p), NEW m \in LiteralsOf(p), NEW ptype,
           Q!Level(p, l) = Q!Level(p, m)
    PROVE  Q!Primary(p, ptype, l) <=> Q!Primary(p, ptype, m)
<1>1. VarOf(l) \in DOMAIN p /\ VarOf(m) \in DOMAIN p
    BY LiteralType
<1> QED BY <1>1 DEF IsVarData, Q!Level, Q!Primary, Q!VarOf, VarOf

(* The literals of a prefix are finitely many. *)
LEMMA LiteralsFinite ==
    ASSUME NEW p, IsVarData(p), NEW c \in SUBSET LiteralsOf(p)
    PROVE  IsFiniteSet(c) /\ c \subseteq Int
<1> DEFINE pairs == {{v, -v} : v \in DOMAIN p}
<1>1. IsFiniteSet(pairs)
    <2> DEFINE f == [v \in DOMAIN p |-> {v, -v}]
    <2>1. f \in Surjection(DOMAIN p, pairs)
        BY DEF Surjection
    <2> HIDE DEF f, pairs
    <2> QED BY <2>1, FS_Surjection DEF IsVarData
<1>2. \A pair \in pairs : IsFiniteSet(pair)
    <2>1. ASSUME NEW v \in DOMAIN p PROVE IsFiniteSet({v, -v})
        <3>1. {v, -v} = {v} \cup {-v}
            OBVIOUS
        <3>2. IsFiniteSet({v}) /\ IsFiniteSet({-v})
            BY FS_Singleton
        <3>3. IsFiniteSet({v} \cup {-v})
            BY <3>2, FS_Union
        <3> QED BY <3>1, <3>3
    <2> QED BY <2>1
<1>3. IsFiniteSet(LiteralsOf(p))
    <2> HIDE DEF pairs
    <2>1. IsFiniteSet(UNION pairs)
        BY <1>1, <1>2, FS_UNION
    <2> QED BY <2>1 DEF LiteralsOf, pairs
<1> QED BY <1>3, FS_Subset, LiteralType

(* max_depth: the depth of the deepest literal, 0 of an empty clause. *)
LEMMA MaxDepthType ==
    ASSUME NEW p, IsVarData(p), NEW c \in SUBSET LiteralsOf(p)
    PROVE  /\ MaxDepth(p, c) \in Nat
           /\ \A l \in c : Q!Level(p, l) <= MaxDepth(p, c)
           /\ MaxDepth(p, c) = 0 \/ \E l \in c : MaxDepth(p, c) = Q!Level(p, l)
<1> DEFINE D == {0} \cup {Depth(p, VarOf(l)) : l \in c}
           above == {n \in Nat : \A d \in D : d <= n}
<1>0. \A l \in c : Depth(p, VarOf(l)) = Q!Level(p, l)
    BY LiteralType
<1>1. \A d \in D : d \in Nat /\ d <= UINT_MAX
    <2>1. ASSUME NEW l \in c PROVE Depth(p, VarOf(l)) \in Nat /\ Depth(p, VarOf(l)) <= UINT_MAX
        BY LiteralType, UnknownDepth
    <2> QED BY <2>1, UnknownDepth
<1>2. PICK n \in above : \A m \in above : n <= m
    <2>1. UINT_MAX \in above
        BY <1>1, UnknownDepth
    <2> HIDE DEF above
    <2>2. above \subseteq Nat
        BY DEF above
    <2> QED BY <2>1, <2>2, LeastNumber
<1>3. n \in D
    <2> HIDE DEF D
    <2>1. SUFFICES ASSUME n \notin D PROVE FALSE
        OBVIOUS
    <2>2. 0 \in D
        BY DEF D
    <2>3. n \in Nat /\ n > 0
        BY <1>2, <2>1, <2>2
    <2>4. ASSUME NEW d \in D PROVE d <= n - 1
        <3>1. d \in Nat /\ d <= n /\ d # n
            BY <1>1, <1>2, <2>1
        <3> QED BY <2>3, <3>1
    <2>5. n - 1 \in above
        BY <2>3, <2>4
    <2> QED BY <1>2, <2>3, <2>5
<1>4. MaxDepth(p, c) \in D /\ \A d \in D : MaxDepth(p, c) >= d
    <2>1. \A d \in D : n >= d
        BY <1>1, <1>2
    <2>2. MaxDepth(p, c) = CHOOSE x \in D : \A y \in D : x >= y
        BY Zenon DEF MaxDepth, Max
    <2> HIDE DEF D
    <2> QED BY <1>3, <2>1, <2>2
<1> HIDE DEF above
<1> QED BY <1>0, <1>1, <1>4

-----------------------------------------------------------------------------
(* The arguments of a call *)

ArgsInv ==
    /\ IsVarData(vd)
    /\ c1 \in SUBSET LiteralsOf(vd) /\ IsClause(c1)
    /\ c2 \in SUBSET LiteralsOf(vd) /\ IsClause(c2)
    /\ res \in SUBSET LiteralsOf(vd)

P(l) == Q!Primary(vd, PrimaryType, l)
L(l) == Q!Level(vd, l)

(* A clause has at most one literal of a primary variable. *)
LEMMA OnePrimary ==
    ASSUME ArgsInv
    PROVE  /\ \A l \in c1 : P(l) => -l \notin c1
           /\ \A l \in c2 : P(l) => -l \notin c2
<1>1. ASSUME NEW c \in SUBSET LiteralsOf(vd), IsClause(c), NEW l \in c, P(l), -l \in c
      PROVE  FALSE
    <2>1. VarOf(l) \in DOMAIN vd /\ VarOf(l) \in {l, -l} /\ -VarOf(l) \in {l, -l}
        <3>1. l \in Int /\ -(-l) = l /\ VarOf(l) \in DOMAIN vd
            BY <1>1, LiteralType DEF ArgsInv
        <3> QED BY <3>1 DEF VarOf
    <2>2. VarOf(l) \in PrimaryVars
        BY <1>1, <2>1 DEF PrimaryVars, P, Q!Primary, Q!VarOf, VarOf
    <2>3. {VarOf(l), -VarOf(l)} \subseteq c
        BY <1>1, <2>1
    <2> QED BY <1>1, <2>2, <2>3 DEF IsClause
<1> QED BY <1>1 DEF ArgsInv

(* What is said of the arguments' literals once and for all. *)
LEMMA ArgsType ==
    ASSUME ArgsInv, NEW l \in LiteralsOf(vd)
    PROVE  /\ l \in Int /\ l # 0 /\ l # -l /\ -(-l) = l /\ (l < 0 <=> ~(-l < 0))
           /\ -l \in LiteralsOf(vd) /\ VarOf(-l) = VarOf(l)
           /\ Depth(vd, VarOf(l)) = L(l) /\ L(-l) = L(l) /\ L(l) \in Nat \ {0}
           /\ (IsPrimary(vd, VarOf(l), PrimaryType) <=> P(l)) /\ (P(-l) <=> P(l))
           /\ \A m \in LiteralsOf(vd) : L(l) = L(m) => (P(l) <=> P(m))
<1>1. \A k : k \in 1..(UINT_MAX - 1) => k \in Nat \ {0}
    BY UnknownDepth
<1> QED BY <1>1, LiteralType, SameLevel DEF ArgsInv, P, L

deepest == MaxDepth(vd, Primaries(vd, res, PrimaryType))

(* deepest bounds the levels of the primary literals of the conclusion, and is one
   of them or 0. *)
LEMMA DeepestType ==
    ASSUME ArgsInv
    PROVE  /\ deepest \in Nat
           /\ \A l \in res : P(l) => L(l) <= deepest
           /\ deepest = 0 \/ \E l \in res : P(l) /\ deepest = L(l)
<1>1. Primaries(vd, res, PrimaryType) = {l \in res : P(l)}
    BY ArgsType DEF Primaries, ArgsInv
<1>2. Primaries(vd, res, PrimaryType) \in SUBSET LiteralsOf(vd)
    BY <1>1 DEF ArgsInv
<1> QED BY <1>1, <1>2, MaxDepthType DEF ArgsInv, deepest, L

(* A secondary literal is deeper than deepest exactly when it is not less deep. *)
LEMMA DeeperThanDeepest ==
    ASSUME ArgsInv, NEW l \in LiteralsOf(vd), ~P(l)
    PROVE  /\ L(l) >= deepest <=> L(l) > deepest
           /\ L(l) > deepest <=> \A m \in res : P(m) => L(m) < L(l)
<1>1. L(l) \in Nat \ {0} /\ deepest \in Nat /\ L(l) # deepest
    <2>1. L(l) \in Nat \ {0} /\ \A m \in res : P(m) => L(m) # L(l)
        BY ArgsType DEF ArgsInv
    <2> QED BY <2>1, DeepestType
<1>2. \A m \in res : L(m) \in Nat
    BY ArgsType DEF ArgsInv
<1> QED BY <1>1, <1>2, DeepestType

-----------------------------------------------------------------------------
(* check_resolution *)

Clashing == {l \in c1 : -l \in c2}
PivotsFound == {l \in Clashing : P(l)}
Pivot == CHOOSE l \in PivotsFound : TRUE
MergedSet == {l \in Clashing \ PivotsFound : -l \in Clashing => l < 0}
Reduced1 == {l \in c1 \ res : ~P(l)}
Rest2 == c2 \ (res \cup Reduced1)
Reduced2 == {l \in Rest2 : ~P(l)}

Legal ==
    /\ Cardinality(PivotsFound) = 1
    /\ \A l \in c1 \ res : P(l) => l = Pivot
    /\ \A l \in Reduced1 : L(l) > deepest
    /\ \A l \in MergedSet : L(l) >= L(Pivot)
    /\ \A l \in Rest2 : P(l) => l = -Pivot
    /\ \A l \in Reduced2 : L(l) >= deepest
    /\ res \subseteq c1 \cup c2

Checked == CheckResolution(vd, c1, c2, res, PrimaryType)

(* The check in terms of levels and types instead of depths and var_data. *)
LEMMA CheckedType ==
    ASSUME ArgsInv
    PROVE  /\ Checked.pivot = IF Legal THEN Pivot ELSE 0
           /\ Checked.merged = SortedClause(MergedSet)
           /\ Checked.reduced = SortedClause(Reduced1) \o SortedClause(Reduced2)
<1> DEFINE depth(l) == Depth(vd, VarOf(l))
           primary(l) == IsPrimary(vd, VarOf(l), PrimaryType)
           clashing == {l \in c1 : -l \in c2}
           pivots == {l \in clashing : primary(l)}
           pivot == CHOOSE l \in pivots : TRUE
           merged == {l \in clashing \ pivots : -l \in clashing => l < 0}
           reduced1 == {l \in c1 \ res : ~primary(l)}
           rest2 == c2 \ (res \cup reduced1)
           reduced2 == {l \in rest2 : ~primary(l)}
           legal ==
               /\ Cardinality(pivots) = 1
               /\ \A l \in c1 \ res : primary(l) => l = pivot
               /\ \A l \in reduced1 : depth(l) > deepest
               /\ \A l \in merged : depth(l) >= depth(pivot)
               /\ \A l \in rest2 : primary(l) => l = -pivot
               /\ \A l \in reduced2 : depth(l) >= deepest
               /\ res \subseteq c1 \cup c2
<1>1. /\ Checked.pivot = IF legal THEN pivot ELSE 0
      /\ Checked.merged = SortedClause(merged)
      /\ Checked.reduced = SortedClause(reduced1) \o SortedClause(reduced2)
    BY DEF Checked, CheckResolution, deepest
<1>2. \A l \in c1 \cup c2 : depth(l) = L(l) /\ (primary(l) <=> P(l))
    BY ArgsType DEF ArgsInv
<1>3. clashing = Clashing
    BY DEF Clashing
<1>4. pivots = PivotsFound
    BY <1>2 DEF Clashing, PivotsFound
<1> HIDE DEF clashing, pivots
<1>5. pivot = Pivot /\ merged = MergedSet
    BY <1>3, <1>4 DEF Pivot, MergedSet
<1> HIDE DEF merged
<1>6. reduced1 = Reduced1
    BY <1>2 DEF Reduced1
<1> HIDE DEF reduced1
<1>7. rest2 = Rest2
    BY <1>6 DEF Rest2
<1>8. reduced2 = Reduced2
    BY <1>2, <1>7 DEF Reduced2, Rest2
<1>9. Cardinality(pivots) = 1 => depth(pivot) = L(pivot)
    <2>1. ASSUME Cardinality(pivots) = 1 PROVE pivot \in c1
        <3>1. pivots # {}
            BY <2>1, FS_EmptySet
        <3> QED BY <3>1, <1>3, <1>4 DEF PivotsFound, Clashing
    <2> HIDE DEF pivot
    <2> QED BY <1>2, <2>1
<1> HIDE DEF reduced2, rest2, pivot
<1>10. /\ \A l \in c1 \ res : (primary(l) <=> P(l))
       /\ \A l \in Reduced1 : depth(l) = L(l)
       /\ \A l \in MergedSet : depth(l) = L(l)
       /\ \A l \in Rest2 : (primary(l) <=> P(l)) /\ depth(l) = L(l)
       /\ \A l \in Reduced2 : depth(l) = L(l)
    BY <1>2 DEF Reduced1, MergedSet, Clashing, Rest2, Reduced2
<1> HIDE DEF depth, primary
<1>11. legal <=> Legal
    BY <1>4, <1>5, <1>6, <1>7, <1>8, <1>9, <1>10 DEF Legal
<1> HIDE DEF legal
<1> QED BY <1>1, <1>5, <1>6, <1>8, <1>11

(* The literals of a vector that two sorted ones were put together to. *)
LEMMA ConcatRange ==
    ASSUME NEW A, NEW B, IsFiniteSet(A), A \subseteq Int, IsFiniteSet(B), B \subseteq Int
    PROVE  LET s == SortedClause(A) \o SortedClause(B)
           IN  {s[i] : i \in DOMAIN s} = A \cup B
<1> DEFINE s == SortedClause(A)
           t == SortedClause(B)
<1>1. s \in Seq(A \cup B) /\ t \in Seq(A \cup B)
    <2>1. s \in Seq(A) /\ t \in Seq(B)
        BY SortedClauseType
    <2> HIDE DEF s, t
    <2> QED BY <2>1, SeqMonotonic
<1>2. {s[i] : i \in DOMAIN s} = A /\ {t[i] : i \in DOMAIN t} = B
    BY SortedClauseRange
<1> HIDE DEF s, t
<1>3. /\ s \o t \in Seq(A \cup B) /\ Len(s \o t) = Len(s) + Len(t)
      /\ \A i \in 1 .. Len(s) + Len(t) :
            (s \o t)[i] = IF i <= Len(s) THEN s[i] ELSE t[i - Len(s)]
    BY <1>1, ConcatProperties
<1>4. Len(s) \in Nat /\ Len(t) \in Nat /\ DOMAIN s = 1..Len(s) /\ DOMAIN t = 1..Len(t)
      /\ DOMAIN (s \o t) = 1..(Len(s) + Len(t))
    BY <1>1, <1>3
<1>5. ASSUME NEW x \in A \cup B PROVE \E i \in DOMAIN (s \o t) : (s \o t)[i] = x
    <2>1. CASE x \in A
        <3>1. PICK i \in 1..Len(s) : s[i] = x
            BY <1>2, <1>4, <2>1
        <3>2. i \in 1..(Len(s) + Len(t)) /\ i <= Len(s)
            BY <1>4
        <3> QED BY <1>3, <1>4, <3>1, <3>2
    <2>2. CASE x \in B
        <3>1. PICK i \in 1..Len(t) : t[i] = x
            BY <1>2, <1>4, <2>2
        <3>2. /\ Len(s) + i \in 1..(Len(s) + Len(t))
              /\ ~(Len(s) + i <= Len(s)) /\ Len(s) + i - Len(s) = i
            BY <1>4
        <3> QED BY <1>3, <1>4, <3>1, <3>2
    <2> QED BY <2>1, <2>2
<1>6. \A i \in DOMAIN (s \o t) : (s \o t)[i] \in A \cup B
    BY <1>3
<1>7. {(s \o t)[i] : i \in DOMAIN (s \o t)} = A \cup B
    BY <1>5, <1>6
<1> QED BY <1>7 DEF s, t

(* The pivot of a legal step is the only primary literal that clashes, and every
   other one that does is deeper. *)
LEMMA LegalPivot ==
    ASSUME ArgsInv, Legal
    PROVE  PivotsFound = {Pivot} /\ Pivot \in Pivots
<1>1. IsFiniteSet(PivotsFound)
    <2>1. PivotsFound \in SUBSET LiteralsOf(vd)
        BY DEF PivotsFound, Clashing, ArgsInv
    <2> QED BY <2>1, LiteralsFinite DEF ArgsInv
<1>2. PICK x : PivotsFound = {x}
    BY <1>1, FS_Singleton DEF Legal
<1>3. Pivot = x
    BY <1>2 DEF Pivot
<1>4. Pivot \in c1 /\ -Pivot \in c2 /\ P(Pivot)
    BY <1>2, <1>3 DEF PivotsFound, Clashing
<1>5. ASSUME NEW l \in c1, -l \in c2, l # Pivot PROVE ~P(l) /\ L(l) > L(Pivot)
    <2>1. l \in Clashing /\ l \notin PivotsFound /\ ~P(l)
        BY <1>2, <1>3, <1>5 DEF Clashing, PivotsFound
    <2>2. /\ l \in Int /\ -(-l) = l /\ (l < 0 <=> ~(-l < 0)) /\ L(l) \in Nat /\ L(-l) = L(l)
          /\ (P(-l) <=> P(l)) /\ L(Pivot) \in Nat /\ L(l) # L(Pivot)
        BY <1>4, <1>5, <2>1, ArgsType DEF ArgsInv
    <2>3. L(l) >= L(Pivot)
        <3>1. CASE l \in MergedSet
            BY <3>1 DEF Legal
        <3>2. CASE l \notin MergedSet
            <4>1. -l \in Clashing /\ ~(l < 0)
                BY <2>1, <3>2 DEF MergedSet
            <4>2. -l \in MergedSet
                BY <2>1, <2>2, <4>1 DEF MergedSet, PivotsFound
            <4> QED BY <2>2, <4>2 DEF Legal
        <3> QED BY <3>1, <3>2
    <2> QED BY <2>1, <2>2, <2>3
<1>6. Q!Resolvable(vd, PrimaryType, c1, c2, Pivot)
    BY <1>4, <1>5 DEF Q!Resolvable, P, L
<1> QED BY <1>2, <1>3, <1>4, <1>6 DEF Pivots

(* Neither literal of the pivot is in the resolvent. *)
LEMMA ResolventType ==
    ASSUME ArgsInv, NEW p \in Pivots
    PROVE  /\ p \in c1 /\ -p \in c2 /\ P(p) /\ P(-p) /\ -(-p) = p /\ p # -p
           /\ Q!Resolvent(c1, c2, p) = (c1 \cup c2) \ {p, -p}
           /\ \A l \in c1 : -l \in c2 /\ l # p => ~P(l) /\ L(l) > L(p)
<1>1. p \in c1 /\ -p \in c2 /\ P(p)
    BY DEF Pivots, Q!Resolvable, P
<1>2. -(-p) = p /\ P(-p) /\ p # -p
    BY <1>1, ArgsType DEF ArgsInv
<1>3. -p \notin c1 /\ p \notin c2
    BY <1>1, <1>2, OnePrimary
<1>4. \A l \in c1 : -l \in c2 /\ l # p => ~P(l) /\ L(l) > L(p)
    BY DEF Pivots, Q!Resolvable, P, L
<1> QED BY <1>1, <1>2, <1>3, <1>4 DEF Q!Resolvent

(* Soundness: what is accepted is a resolvent, reduced legally. *)
LEMMA CheckIsSound ==
    ASSUME ArgsInv, Checked.pivot # 0
    PROVE  LET p == Checked.pivot
               full == Q!Resolvent(c1, c2, p)
           IN  /\ p \in Pivots
               /\ res \ {p, -p} \in Q!Reducts(vd, PrimaryType, full)
               /\ {Checked.reduced[i] : i \in DOMAIN Checked.reduced} = full \ res
<1> DEFINE p == Pivot
           full == Q!Resolvent(c1, c2, p)
<1>1. Legal /\ Checked.pivot = p
    BY CheckedType
<1>2. p \in Pivots
    BY <1>1, LegalPivot
<1>3. /\ p \in c1 /\ -p \in c2 /\ P(p) /\ P(-p) /\ full = (c1 \cup c2) \ {p, -p}
    BY <1>2, ResolventType
<1> HIDE DEF full
<1>4. Reduced1 \cup Reduced2 = full \ res
    BY <1>1, <1>3 DEF Reduced1, Reduced2, Rest2, Legal
<1>5. \A m \in full : P(m) => m \in res
    BY <1>1, <1>3, <1>4 DEF Reduced1, Reduced2
<1>6. ASSUME NEW l \in full \ res PROVE l \in Q!Reducible(vd, PrimaryType, full)
    <2>1. ~P(l) /\ l \in LiteralsOf(vd)
        BY <1>3, <1>5, <1>6 DEF ArgsInv
    <2>2. L(l) > deepest
        <3>1. l \in Reduced1 \/ l \in Reduced2
            BY <1>4, <1>6
        <3> QED BY <1>1, <2>1, <3>1, DeeperThanDeepest DEF Legal
    <2>3. \A m \in full : P(m) => L(m) < L(l)
        BY <1>5, <2>1, <2>2, DeeperThanDeepest
    <2> QED BY <1>6, <2>1, <2>3 DEF Q!Reducible, P, L
<1>7. res \ {p, -p} = full \ (full \ res)
    BY <1>1, <1>3 DEF Legal
<1>8. res \ {p, -p} \in Q!Reducts(vd, PrimaryType, full)
    BY <1>6, <1>7 DEF Q!Reducts
<1>9. {Checked.reduced[i] : i \in DOMAIN Checked.reduced} = full \ res
    <2>1. Reduced1 \in SUBSET LiteralsOf(vd) /\ Reduced2 \in SUBSET LiteralsOf(vd)
        BY DEF Reduced1, Reduced2, Rest2, ArgsInv
    <2>2. IsFiniteSet(Reduced1) /\ Reduced1 \subseteq Int
          /\ IsFiniteSet(Reduced2) /\ Reduced2 \subseteq Int
        BY <2>1, LiteralsFinite DEF ArgsInv
    <2>3. Checked.reduced = SortedClause(Reduced1) \o SortedClause(Reduced2)
        BY CheckedType
    <2> DEFINE both == SortedClause(Reduced1) \o SortedClause(Reduced2)
    <2>4. {both[i] : i \in DOMAIN both} = Reduced1 \cup Reduced2
        BY <2>2, ConcatRange
    <2> HIDE DEF both
    <2>5. Checked.reduced = both
        BY <2>3 DEF both
    <2> QED BY <1>4, <2>4, <2>5
<1> QED BY <1>1, <1>2, <1>8, <1>9 DEF full

(* Completeness: every resolvent, reduced legally, is accepted. *)
LEMMA CheckIsComplete ==
    ASSUME ArgsInv, NEW p \in Pivots,
           res \in Q!Reducts(vd, PrimaryType, Q!Resolvent(c1, c2, p))
    PROVE  /\ Checked.pivot = p
           /\ {VarOf(Checked.merged[i]) : i \in DOMAIN Checked.merged}
                  = {VarOf(l) : l \in {k \in c1 : -k \in c2}} \ {VarOf(p)}
<1> DEFINE full == Q!Resolvent(c1, c2, p)
<1>1. /\ p \in c1 /\ -p \in c2 /\ P(p) /\ P(-p) /\ full = (c1 \cup c2) \ {p, -p}
      /\ \A l \in c1 : -l \in c2 /\ l # p => ~P(l) /\ L(l) > L(p)
    BY ResolventType
<1>2. PICK s \in SUBSET Q!Reducible(vd, PrimaryType, full) : res = full \ s
    BY DEF Q!Reducts
<1> HIDE DEF full
<1>3. \A l \in s : ~P(l) /\ \A m \in full : P(m) => L(m) < L(l)
    BY <1>2 DEF Q!Reducible, P, L
<1>4. PivotsFound = {p} /\ Pivot = p
    <2>1. PivotsFound = {p}
        BY <1>1 DEF PivotsFound, Clashing
    <2> QED BY <2>1 DEF Pivot
<1>5. ASSUME NEW l \in s PROVE L(l) > deepest
    <2>1. l \in LiteralsOf(vd) /\ ~P(l) /\ \A m \in res : P(m) => L(m) < L(l)
        BY <1>1, <1>2, <1>3 DEF Q!Reducible, ArgsInv
    <2> QED BY <2>1, DeeperThanDeepest
<1>6. Legal
    <2>1. Cardinality(PivotsFound) = 1
        BY <1>4, FS_Singleton
    <2>2. \A l \in c1 \ res : P(l) => l = Pivot
        BY <1>1, <1>2, <1>3, <1>4, OnePrimary
    <2>3. \A l \in Reduced1 : l \in s
        BY <1>1, <1>2 DEF Reduced1
    <2>4. \A l \in Rest2 : P(l) => l = -Pivot
        <3>1. p \notin c2
            BY <1>1, ResolventType, OnePrimary
        <3> QED BY <1>1, <1>2, <1>3, <1>4, <3>1 DEF Rest2
    <2>5. \A l \in Reduced2 : l \in s
        BY <1>1, <1>2 DEF Rest2, Reduced2
    <2>6. \A l \in Reduced2 : L(l) >= deepest
        <3>1. ASSUME NEW l \in Reduced2 PROVE L(l) >= deepest
            <4>1. L(l) > deepest /\ ~P(l) /\ l \in LiteralsOf(vd)
                BY <1>5, <2>5, <3>1 DEF Reduced2, Rest2, ArgsInv
            <4> QED BY <4>1, DeeperThanDeepest
        <3> QED BY <3>1
    <2>7. \A l \in MergedSet : L(l) >= L(Pivot)
        <3>1. ASSUME NEW l \in MergedSet PROVE L(l) >= L(p)
            <4>1. l \in c1 /\ -l \in c2 /\ l # p
                BY <1>4 DEF MergedSet, Clashing
            <4>2. L(l) > L(p) /\ L(l) \in Nat /\ L(p) \in Nat
                BY <1>1, <4>1, ArgsType DEF ArgsInv
            <4> QED BY <4>2
        <3> QED BY <1>4, <3>1
    <2>8. res \subseteq c1 \cup c2
        BY <1>1, <1>2
    <2> QED BY <1>5, <2>1, <2>2, <2>3, <2>4, <2>6, <2>7, <2>8 DEF Legal
<1>7. Checked.pivot = p
    BY <1>4, <1>6, CheckedType
<1>8. {VarOf(Checked.merged[i]) : i \in DOMAIN Checked.merged} = {VarOf(l) : l \in MergedSet}
    <2>1. MergedSet \in SUBSET LiteralsOf(vd)
        BY DEF MergedSet, Clashing, ArgsInv
    <2>2. IsFiniteSet(MergedSet) /\ MergedSet \subseteq Int
        BY <2>1, LiteralsFinite DEF ArgsInv
    <2>3. {SortedClause(MergedSet)[i] : i \in DOMAIN SortedClause(MergedSet)} = MergedSet
        BY <2>2, SortedClauseRange
    <2>4. Checked.merged = SortedClause(MergedSet)
        BY CheckedType
    <2> QED BY <2>3, <2>4
<1>9. ASSUME NEW l \in Clashing
      PROVE  VarOf(l) # VarOf(p) <=> \E m \in MergedSet : VarOf(m) = VarOf(l)
    <2>1. /\ l \in c1 /\ -l \in c2 /\ l \in Int /\ -(-l) = l /\ (l < 0 <=> ~(-l < 0))
          /\ VarOf(-l) = VarOf(l) /\ (P(l) <=> P(-l))
        BY <1>9, ArgsType DEF Clashing, ArgsInv
    <2>2. CASE l = p
        <3>1. ASSUME NEW m \in MergedSet, VarOf(m) = VarOf(p) PROVE FALSE
            <4>1. m \in Int /\ p \in Int /\ (m = p \/ m = -p)
                <5>1. m \in Int /\ p \in Int
                    BY <1>1, <3>1, ArgsType DEF MergedSet, Clashing, ArgsInv
                <5> QED BY <3>1, <5>1 DEF VarOf
            <4> QED BY <1>1, <1>4, <4>1 DEF MergedSet, PivotsFound, Clashing
        <3> QED BY <2>2, <3>1
    <2>3. CASE l # p
        <3>1. ~P(l) /\ l \notin PivotsFound
            BY <1>1, <1>4, <2>1, <2>3
        <3>2. VarOf(l) # VarOf(p)
            <4>1. VarOf(l) = VarOf(p) => l = p \/ l = -p
                <5>1. p \in Int
                    BY <1>1, ArgsType DEF ArgsInv
                <5> QED BY <2>1, <5>1 DEF VarOf
            <4> QED BY <1>1, <2>3, <3>1, <4>1
        <3>3. l \in MergedSet \/ -l \in MergedSet
            BY <2>1, <3>1, <1>9 DEF MergedSet, PivotsFound
        <3> QED BY <2>1, <3>2, <3>3
    <2> QED BY <2>2, <2>3
<1>10. {VarOf(l) : l \in MergedSet} = {VarOf(l) : l \in Clashing} \ {VarOf(p)}
    <2>1. MergedSet \subseteq Clashing
        BY DEF MergedSet
    <2> QED BY <1>9, <2>1
<1> QED BY <1>7, <1>8, <1>10 DEF Clashing

-----------------------------------------------------------------------------
(* resolve *)

(* The least element of a set with one element. *)
LEMMA MinSingleton == \A l \in Int : Min({l}) = l
BY DEF Min

(* The least element of a set of numbers. *)
LEMMA MinType ==
    ASSUME NEW T, T \subseteq Nat, T # {}
    PROVE  Min(T) \in T /\ \A n \in T : Min(T) <= n
<1>1. \E m \in T : \A n \in T : m <= n
    BY LeastNumber
<1> QED BY <1>1 DEF Min

(* Without knowing the pivot, resolve() drops its two literals and reduces what
   the deepest primary literal left lets it reduce. *)
LEMMA ResolveIsReduced ==
    ASSUME ArgsInv, NEW p \in Pivots
    PROVE  Resolve(vd, c1, c2, PrimaryType)
               = Q!Reduced(vd, PrimaryType, Q!Resolvent(c1, c2, p))
<1> DEFINE full == Q!Resolvent(c1, c2, p)
           both == c1 \cup c2
           prim == {l \in both : P(l)}
           kept == UNION {SurvivingPrimaries(c1, c2, v) : v \in VarsOf(prim)}
<1>1. /\ p \in c1 /\ -p \in c2 /\ P(p) /\ P(-p) /\ p # -p /\ -(-p) = p
      /\ full = both \ {p, -p}
      /\ \A l \in c1 : -l \in c2 /\ l # p => ~P(l) /\ L(l) > L(p)
    BY ResolventType
<1> HIDE DEF full
<1>2. \A l \in both : l \in LiteralsOf(vd) /\ l \in Int /\ -(-l) = l
                      /\ Depth(vd, VarOf(l)) = L(l) /\ L(l) \in Nat \ {0}
                      /\ (IsPrimary(vd, VarOf(l), PrimaryType) <=> P(l)) /\ (P(l) <=> P(-l))
    BY ArgsType DEF ArgsInv
<1>3. Primaries(vd, both, PrimaryType) = prim
    BY <1>2 DEF Primaries
<1>4. ASSUME NEW x \in prim
      PROVE  SurvivingPrimaries(c1, c2, VarOf(x))
                 = {l \in both : VarOf(l) = VarOf(x) /\ l \notin {p, -p}}
    <2> DEFINE a == LitsOn(c1, VarOf(x))
               b == LitsOn(c2, VarOf(x))
    <2>1. \A l \in a \cup b : l \in {x, -x} /\ P(l)
        <3>1. \A l \in a \cup b : l \in both /\ VarOf(l) = VarOf(x)
            BY DEF LitsOn
        <3>2. \A l \in a \cup b : l \in {x, -x}
            BY <1>2, <3>1 DEF VarOf
        <3> QED BY <1>2, <3>2
    <2>2. a \subseteq c1 /\ b \subseteq c2
        BY DEF LitsOn
    <2>3. a \cup b = {l \in both : VarOf(l) = VarOf(x)}
        BY DEF LitsOn
    <2>4. \A l, m \in a : l = m
        BY <1>2, <2>1, <2>2, OnePrimary
    <2>5. \A l, m \in b : l = m
        BY <1>2, <2>1, <2>2, OnePrimary
    <2>6. SurvivingPrimaries(c1, c2, VarOf(x))
              = IF a # {} /\ b # {} /\ Min(a) # Min(b)
                THEN (a \ {Min(a)}) \cup (b \ {Min(b)})
                ELSE a \cup b
        BY DEF SurvivingPrimaries
    <2>7. \A l \in a \cup b : l \in {p, -p} => p \in a /\ -p \in b
        <3>1. \A l \in {p, -p} : VarOf(l) = VarOf(p)
            BY <1>1, ArgsType DEF ArgsInv
        <3> QED BY <1>1, <2>3, <3>1 DEF LitsOn
    <2> HIDE DEF a, b
    <2>8. CASE p \in a /\ -p \in b
        <3>1. a = {p} /\ b = {-p}
            BY <2>4, <2>5, <2>8
        <3>2. Min(a) = p /\ Min(b) = -p
            BY <1>1, <1>2, <3>1, MinSingleton
        <3>3. SurvivingPrimaries(c1, c2, VarOf(x)) = {}
            BY <1>1, <2>6, <3>1, <3>2
        <3> QED BY <2>3, <3>1, <3>3
    <2>9. CASE ~(p \in a /\ -p \in b)
        <3>1. ~(a # {} /\ b # {} /\ Min(a) # Min(b))
            <4>1. SUFFICES ASSUME a # {}, b # {}, Min(a) # Min(b) PROVE FALSE
                OBVIOUS
            <4>2. PICK l \in a, m \in b : TRUE
                BY <4>1
            <4>3. a = {l} /\ b = {m} /\ l # m
                BY <2>4, <2>5, <4>1, <4>2
            <4>4. m = -l
                BY <1>2, <2>1, <2>2, <4>2, <4>3
            <4> QED BY <1>1, <2>1, <2>2, <2>9, <4>2, <4>4
        <3> QED BY <2>3, <2>6, <2>7, <2>9, <3>1
    <2> QED BY <2>8, <2>9
<1>5. kept = {l \in full : P(l)}
    <2>1. VarsOf(prim) = {VarOf(l) : l \in prim}
        BY DEF VarsOf
    <2>2. ASSUME NEW l \in kept PROVE l \in full /\ P(l)
        <3>1. PICK x \in prim : l \in SurvivingPrimaries(c1, c2, VarOf(x))
            BY <2>1
        <3>2. l \in both /\ VarOf(l) = VarOf(x) /\ l \notin {p, -p}
            BY <1>4, <3>1
        <3>3. l = x \/ l = -x
            BY <1>2, <3>2 DEF VarOf
        <3> QED BY <1>1, <1>2, <3>2, <3>3
    <2>3. ASSUME NEW l \in full, P(l) PROVE l \in kept
        BY <1>1, <1>4, <2>1, <2>3
    <2> QED BY <2>2, <2>3
<1>6. Resolve(vd, c1, c2, PrimaryType)
          = kept \cup {l \in both \ prim : Depth(vd, VarOf(l)) < MaxDepth(vd, kept)}
    BY <1>3 DEF Resolve
<1> HIDE DEF kept
<1>7. kept \in SUBSET LiteralsOf(vd)
    BY <1>1, <1>2, <1>5
<1>8. /\ MaxDepth(vd, kept) \in Nat
      /\ \A m \in kept : L(m) <= MaxDepth(vd, kept)
      /\ MaxDepth(vd, kept) = 0 \/ \E m \in kept : MaxDepth(vd, kept) = L(m)
    BY <1>7, MaxDepthType DEF ArgsInv, L
<1>9. ASSUME NEW l \in both, ~P(l)
      PROVE  L(l) < MaxDepth(vd, kept) <=> ~ \A m \in kept : L(m) < L(l)
    <2>1. \A m \in kept : L(m) # L(l) /\ L(m) \in Nat
        BY <1>1, <1>2, <1>5, <1>9, ArgsType
    <2> QED BY <1>2, <1>8, <2>1
<1>10. Q!Reducible(vd, PrimaryType, full)
           = {l \in full : ~P(l) /\ \A m \in full : P(m) => L(m) < L(l)}
    BY DEF Q!Reducible, P, L
<1>11. ASSUME NEW l \in both
       PROVE  l \in Resolve(vd, c1, c2, PrimaryType)
                  <=> l \in full /\ l \notin Q!Reducible(vd, PrimaryType, full)
    <2>1. CASE P(l)
        <3>1. l \in Resolve(vd, c1, c2, PrimaryType) <=> l \in kept
            BY <1>6, <1>11, <2>1
        <3> QED BY <1>5, <1>10, <2>1, <3>1
    <2>2. CASE ~P(l)
        <3>1. l \in full
            BY <1>1, <1>11, <2>2
        <3>2. l \notin kept /\ l \in both \ prim /\ Depth(vd, VarOf(l)) = L(l)
            BY <1>2, <1>5, <1>11, <2>2
        <3>3. l \in Resolve(vd, c1, c2, PrimaryType) <=> L(l) < MaxDepth(vd, kept)
            BY <1>6, <3>2
        <3>4. (\A m \in kept : L(m) < L(l)) <=> \A m \in full : P(m) => L(m) < L(l)
            BY <1>5
        <3> QED BY <1>9, <1>10, <2>2, <3>1, <3>3, <3>4
    <2> QED BY <2>1, <2>2
<1>12. Resolve(vd, c1, c2, PrimaryType) \subseteq both /\ full \subseteq both
    BY <1>1, <1>5, <1>6
<1>13. Resolve(vd, c1, c2, PrimaryType) = Q!Reduced(vd, PrimaryType, full)
    BY <1>11, <1>12 DEF Q!Reduced
<1> QED BY <1>13 DEF full

-----------------------------------------------------------------------------
(* check_reduction *)

Gone == SortedClause(c1 \ res)
Offends(l) == P(l) \/ L(l) <= deepest
Bad == {i \in DOMAIN Gone : Offends(Gone[i])}
Reduction == CheckReduction(vd, c1, res, PrimaryType)

(* operator[] creates no entry for a variable of the prefix, and the check is one
   of levels and types. *)
LEMMA ReductionType ==
    ASSUME ArgsInv
    PROVE  /\ Bad # {} => Reduction.code \in {0, 1}
                          /\ (Reduction.code = 0 <=> P(Gone[Min(Bad)]))
           /\ Bad = {} => Reduction.code = IF res \subseteq c1 THEN 1 ELSE -2
           /\ Reduction.reduced
                  = SubSeq(Gone, 1, IF Bad = {} THEN Len(Gone) ELSE Min(Bad) - 1)
<1> DEFINE vd1 == WithDefaults(vd, VarsOf(c1 \cup res))
           deepest1 == MaxDepth(vd1, Primaries(vd1, res, PrimaryType))
           primary(l) == IsPrimary(vd1, VarOf(l), PrimaryType)
           offends(l) == primary(l) \/ Depth(vd1, VarOf(l)) <= deepest1
           bad == {i \in DOMAIN Gone : offends(Gone[i])}
           stop == IF bad = {} THEN Len(Gone) ELSE Min(bad)
<1>1. /\ Reduction.code = IF bad # {} THEN (IF primary(Gone[stop]) THEN 0 ELSE 1)
                          ELSE IF res \subseteq c1 THEN 1 ELSE -2
      /\ Reduction.reduced = SubSeq(Gone, 1, IF bad = {} THEN stop ELSE stop - 1)
    BY DEF Reduction, CheckReduction, Gone
<1>2. vd1 = vd
    <2>1. VarsOf(c1 \cup res) \subseteq DOMAIN vd
        <3>1. \A l \in c1 \cup res : VarOf(l) \in DOMAIN vd
            BY LiteralType DEF ArgsInv
        <3> QED BY <3>1 DEF VarsOf
    <2>2. vd = [v \in DOMAIN vd |-> vd[v]]
        BY DEF ArgsInv, IsVarData
    <2> QED BY <2>1, <2>2 DEF WithDefaults
<1>3. deepest1 = deepest
    BY <1>2 DEF deepest
<1>4. Gone \in Seq(c1 \ res)
    <2>1. c1 \ res \in SUBSET LiteralsOf(vd)
        BY DEF ArgsInv
    <2> QED BY <2>1, LiteralsFinite, SortedClauseType DEF ArgsInv, Gone
<1>5. \A i \in DOMAIN Gone : (primary(Gone[i]) <=> P(Gone[i])) /\ Depth(vd1, VarOf(Gone[i])) = L(Gone[i])
    <2>1. \A i \in DOMAIN Gone : Gone[i] \in LiteralsOf(vd)
        BY <1>4 DEF ArgsInv
    <2> QED BY <1>2, <2>1, ArgsType
<1>6. bad = Bad
    <2> HIDE DEF deepest1, primary, vd1
    <2> QED BY <1>3, <1>5 DEF Bad, Offends
<1>7. Bad # {} => Min(Bad) \in DOMAIN Gone
    <2>1. Bad \subseteq Nat
        BY <1>4 DEF Bad
    <2>2. Bad # {} => Min(Bad) \in Bad
        BY <2>1, MinType
    <2> QED BY <2>2 DEF Bad
<1> HIDE DEF bad, primary
<1> QED BY <1>1, <1>5, <1>6, <1>7

(* The literals that are collected come before the first one that offends. *)
LEMMA CollectedType ==
    ASSUME ArgsInv
    PROVE  LET collected == {Reduction.reduced[i] : i \in DOMAIN Reduction.reduced}
           IN  /\ \A l \in collected : l \in c1 \ res /\ ~Offends(l)
               /\ Bad = {} => collected = c1 \ res
               /\ Bad # {} => \E l \in c1 \ res : Offends(l)
<1>1. c1 \ res \in SUBSET LiteralsOf(vd)
    BY DEF ArgsInv
<1>2. Gone \in Seq(c1 \ res) /\ {Gone[i] : i \in DOMAIN Gone} = c1 \ res
    BY <1>1, LiteralsFinite, SortedClauseType, SortedClauseRange DEF ArgsInv, Gone
<1>3. Len(Gone) \in Nat /\ DOMAIN Gone = 1..Len(Gone)
    BY <1>2
<1>4. Bad \subseteq Nat /\ Bad \subseteq 1..Len(Gone)
    BY <1>3 DEF Bad
<1>5. CASE Bad = {}
    <2>1. Reduction.reduced = SubSeq(Gone, 1, Len(Gone))
        BY <1>5, ReductionType
    <2>2. SubSeq(Gone, 1, Len(Gone)) = Gone
        BY <1>2, SubSeqFull
    <2>3. \A i \in DOMAIN Gone : ~Offends(Gone[i])
        BY <1>5 DEF Bad
    <2> QED BY <1>2, <1>5, <2>1, <2>2, <2>3
<1>6. CASE Bad # {}
    <2> DEFINE n == Min(Bad) - 1
    <2>1. Min(Bad) \in Bad /\ \A i \in Bad : Min(Bad) <= i
        BY <1>4, <1>6, MinType
    <2>8. Min(Bad) \in 1..Len(Gone)
        BY <1>4, <2>1
    <2>2. n \in 0..(Len(Gone) - 1) /\ n < Min(Bad)
        BY <1>3, <2>8
    <2>3. Reduction.reduced = SubSeq(Gone, 1, n)
        BY <1>6, ReductionType
    <2> HIDE DEF n
    <2>4. /\ DOMAIN SubSeq(Gone, 1, n) = 1..n
          /\ \A i \in 1..n : SubSeq(Gone, 1, n)[i] = Gone[i]
        BY <1>2, <1>3, <2>2, SubSeqProperties
    <2>5. \A i \in 1..n : i \in DOMAIN Gone /\ ~Offends(Gone[i])
        <3>1. ASSUME NEW i \in 1..n PROVE i \in DOMAIN Gone /\ i \notin Bad
            <4>1. i \in 1..Len(Gone) /\ i < Min(Bad)
                BY <1>3, <2>2, <2>8
            <4>2. i \in Bad => Min(Bad) <= i
                BY <2>1
            <4> QED BY <1>3, <2>8, <4>1, <4>2
        <3> QED BY <3>1 DEF Bad
    <2>6. \A l \in {SubSeq(Gone, 1, n)[i] : i \in 1..n} : l \in c1 \ res /\ ~Offends(l)
        BY <1>2, <2>4, <2>5
    <2>7. \E l \in c1 \ res : Offends(l)
        BY <1>2, <2>1 DEF Bad
    <2> QED BY <1>6, <2>3, <2>4, <2>6, <2>7
<1> QED BY <1>5, <1>6

(* What is collected is reducible, and all of what was lost is collected and the
   check succeeds exactly if the reduction is legal. *)
LEMMA ReductionIsSound ==
    ASSUME ArgsInv
    PROVE  LET collected == {Reduction.reduced[i] : i \in DOMAIN Reduction.reduced}
           IN  /\ collected \subseteq Q!Reducible(vd, PrimaryType, res \cup collected)
               /\ (Reduction.code = 1 /\ collected = c1 \ res)
                      <=> (res \in Q!Reducts(vd, PrimaryType, c1))
<1> DEFINE collected == {Reduction.reduced[i] : i \in DOMAIN Reduction.reduced}
<1>1. /\ \A l \in collected : l \in c1 \ res /\ ~Offends(l)
      /\ Bad = {} => collected = c1 \ res
      /\ Bad # {} => \E l \in c1 \ res : Offends(l)
    BY CollectedType
<1> HIDE DEF collected
<1>2. ASSUME NEW l \in c1
      PROVE  Offends(l) <=> P(l) \/ \E m \in res : P(m) /\ ~(L(m) < L(l))
    <2>1. l \in LiteralsOf(vd) /\ L(l) \in Nat /\ deepest \in Nat
        BY <1>2, ArgsType, DeepestType DEF ArgsInv
    <2>2. CASE P(l)
        BY <2>2 DEF Offends
    <2>3. CASE ~P(l)
        <3>1. L(l) > deepest <=> \A m \in res : P(m) => L(m) < L(l)
            BY <2>1, <2>3, DeeperThanDeepest
        <3>2. L(l) > deepest <=> ~(L(l) <= deepest)
            BY <2>1
        <3> QED BY <2>3, <3>1, <3>2 DEF Offends
    <2> QED BY <2>2, <2>3
<1>3. \A c : Q!Reducible(vd, PrimaryType, c)
                 = {l \in c : ~P(l) /\ \A m \in c : P(m) => L(m) < L(l)}
    BY DEF Q!Reducible, P, L
<1>4. collected \subseteq Q!Reducible(vd, PrimaryType, res \cup collected)
    <2>1. ASSUME NEW l \in collected
          PROVE  ~P(l) /\ \A m \in res \cup collected : P(m) => L(m) < L(l)
        <3>1. l \in c1 /\ ~P(l) /\ \A m \in res : P(m) => L(m) < L(l)
            BY <1>1, <1>2, <2>1
        <3>2. \A m \in collected : ~P(m)
            BY <1>1, <1>2
        <3> QED BY <3>1, <3>2
    <2> QED BY <1>3, <2>1
<1>5. ASSUME Reduction.code = 1, collected = c1 \ res
      PROVE  res \in Q!Reducts(vd, PrimaryType, c1)
    <2>1. Bad = {}
        BY <1>1, <1>5
    <2>2. res \subseteq c1
        BY <1>5, <2>1, ReductionType
    <2>3. \A m \in c1 : P(m) => m \in res
        BY <1>1, <1>2, <1>5
    <2>4. \A l \in c1 \ res : ~P(l) /\ \A m \in c1 : P(m) => L(m) < L(l)
        BY <1>1, <1>2, <1>5, <2>3
    <2>5. c1 \ res \subseteq Q!Reducible(vd, PrimaryType, c1)
        BY <1>3, <2>4
    <2>6. res = c1 \ (c1 \ res)
        BY <2>2
    <2> QED BY <2>5, <2>6 DEF Q!Reducts
<1>6. ASSUME res \in Q!Reducts(vd, PrimaryType, c1)
      PROVE  Reduction.code = 1 /\ collected = c1 \ res
    <2>1. PICK s \in SUBSET Q!Reducible(vd, PrimaryType, c1) : res = c1 \ s
        BY <1>6 DEF Q!Reducts
    <2>2. \A l \in c1 \ res : ~P(l) /\ \A m \in res : P(m) => L(m) < L(l)
        BY <1>3, <2>1
    <2>3. Bad = {}
        BY <1>1, <1>2, <2>2
    <2>4. res \subseteq c1
        BY <2>1
    <2> QED BY <1>1, <2>3, <2>4, ReductionType
<1>7. (Reduction.code = 1 /\ collected = c1 \ res) <=> (res \in Q!Reducts(vd, PrimaryType, c1))
    BY <1>5, <1>6
<1> QED BY <1>4, <1>7 DEF collected

-----------------------------------------------------------------------------
(* A result is that of its call. *)

CallInv ==
    /\ ArgsInv
    /\ call = "resolve" => result = Resolve(vd, c1, c2, PrimaryType)
    /\ call = "check_resolution" => result = Checked
    /\ call = "check_reduction" => result = Reduction

(* Arguments are only read. *)
LEMMA CallInvHolds == Spec => []CallInv
<1>1. Init => CallInv
    BY PrefixAssumption DEF Init, CallInv, ArgsInv
<1>2. CallInv /\ [Next]_vars => CallInv'
    <2> SUFFICES ASSUME CallInv, [Next]_vars PROVE CallInv'
        OBVIOUS
    <2>1. UNCHANGED <<vd, c1, c2, res>>
        BY DEF Next, vars, CallResolve, CallCheckResolution, CallCheckReduction, MakeOracle,
               AskOracle, Call, Return
    <2>2. ArgsInv'
        BY <2>1 DEF CallInv, ArgsInv, IsVarData, IsClause, PrimaryVars, LiteralsOf
    <2>3. CASE UNCHANGED vars
        BY <2>3 DEF vars, CallInv, ArgsInv, IsVarData, IsClause, PrimaryVars, LiteralsOf,
                    Checked, Reduction
    <2>4. CASE CallResolve
        BY <2>1, <2>2, <2>4 DEF CallInv, CallResolve, Call
    <2>5. CASE CallCheckResolution
        BY <2>1, <2>2, <2>5 DEF CallInv, CallCheckResolution, Call, Checked
    <2>6. CASE CallCheckReduction
        BY <2>1, <2>2, <2>6 DEF CallInv, CallCheckReduction, Call, Reduction
    <2>7. CASE (\E negated \in BOOLEAN : MakeOracle(negated)) \/ AskOracle
        <3>1. call' \in {"oracle", "oracle_negated"}
            BY <2>7 DEF MakeOracle, AskOracle, OracleInUse, Call
        <3> QED BY <2>2, <3>1 DEF CallInv
    <2> QED BY <2>3, <2>4, <2>5, <2>6, <2>7 DEF Next, Return
<1> QED BY <1>1, <1>2, PTL DEF Spec

(* What check_resolution() accepts is a legal resolvent of the parents, reduced
   legally, and what it records as reduced is what the resolvent lost: for every
   prefix, and clauses of any size. *)
THEOREM AcceptedStepsAreSound == Spec => []AcceptedAreResolvents
<1>1. CallInv => AcceptedAreResolvents
    <2>1. ASSUME CallInv, call = "check_resolution", result.pivot # 0
          PROVE  LET p == result.pivot
                     full == Q!Resolvent(c1, c2, p)
                 IN  /\ p \in Pivots
                     /\ res \ {p, -p} \in Q!Reducts(vd, PrimaryType, full)
                     /\ {result.reduced[i] : i \in DOMAIN result.reduced} = full \ res
        <3>1. ArgsInv /\ result = Checked
            BY <2>1 DEF CallInv
        <3>2. Checked.pivot # 0
            BY <2>1, <3>1
        <3> QED BY <3>1, <3>2, CheckIsSound
    <2> QED BY <2>1 DEF AcceptedAreResolvents
<1> QED BY <1>1, CallInvHolds, PTL

(* No legal resolution step is rejected, whatever part of the reducible literals
   the solver has dropped, and its pivot and its merged variables are found. *)
THEOREM LegalStepsAreAccepted == Spec => []ResolventsAccepted
<1>1. CallInv => ResolventsAccepted
    BY CheckIsComplete DEF CallInv, ResolventsAccepted
<1> QED BY <1>1, CallInvHolds, PTL

(* The clauses that the translator itself puts between two parents of a chain are
   the resolvents, reduced as far as possible. *)
THEOREM ResolveIsRight == Spec => []ResolveIsReducedResolvent
<1>1. CallInv => ResolveIsReducedResolvent
    BY ResolveIsReduced DEF CallInv, ResolveIsReducedResolvent
<1> QED BY <1>1, CallInvHolds, PTL

(* The literals for which the strategy gets an entry are reducible, although the
   answer of check_reduction() is not looked at. *)
THEOREM ReductionsAreSound == Spec => []CollectedAreReducible
<1>1. CallInv => CollectedAreReducible
    BY ReductionIsSound DEF CallInv, CollectedAreReducible
<1> QED BY <1>1, CallInvHolds, PTL

-----------------------------------------------------------------------------
(* The oracle *)

\* The vector that an oracle is asked about.
Data == SortedClause(res)

\* The literals in front of the cursor are less than every query still to come.
OracleInv ==
    OracleInUse =>
        /\ result = [next |-> result.next, answers |-> result.answers]
        /\ result.answers \in Seq(BOOLEAN) /\ Len(result.answers) <= Cardinality(c1)
        /\ result.next \in 1..(Len(Data) + 1)
        /\ \A i \in 1..(result.next - 1) : \A k \in 1..Cardinality(c1) :
               k > Len(result.answers) => Less(Data[i], Query(k))
        /\ OracleIsMembership

(* A vector sorted by literals has its variables in ascending order. *)
LEMMA SortedByVariable ==
    ASSUME NEW S, IsFiniteSet(S), S \subseteq Int, NEW vec, vec = SortedClause(S)
    PROVE  /\ Cardinality(S) \in Nat /\ Len(vec) = Cardinality(S) /\ DOMAIN vec = 1..Len(vec)
           /\ \A i \in 1..Len(vec) : vec[i] \in S /\ vec[i] \in Int
           /\ \A l \in S : \E i \in 1..Len(vec) : vec[i] = l
           /\ \A i, j \in 1..Len(vec) : i <= j => VarOf(vec[i]) <= VarOf(vec[j])
<1>1. Cardinality(S) \in Nat
    BY FS_CardinalityType
<1>2. vec \in Seq(S) /\ Len(vec) = Cardinality(S)
    BY SortedClauseType
<1>3. {vec[i] : i \in DOMAIN vec} = S
    BY SortedClauseRange
<1>4. \A i, j \in DOMAIN vec : i < j => CompareLits(vec[i], vec[j])
    BY SortedClauseAscends
<1>5. DOMAIN vec = 1..Len(vec) /\ \A i \in 1..Len(vec) : vec[i] \in S
    BY <1>2
<1>6. \A i \in 1..Len(vec) : vec[i] \in Int
    BY <1>5
<1>7. ASSUME NEW i \in 1..Len(vec), NEW j \in 1..Len(vec), i <= j
      PROVE  VarOf(vec[i]) <= VarOf(vec[j])
    <2>1. CASE i = j
        BY <1>6, <2>1 DEF VarOf
    <2>2. CASE i # j
        <3>1. i < j
            BY <1>1, <1>2, <1>7, <2>2
        <3>2. CompareLits(vec[i], vec[j])
            BY <1>4, <1>5, <3>1
        <3> QED BY <1>6, <3>2 DEF CompareLits, VarOf
    <2> QED BY <2>1, <2>2
<1> QED BY <1>1, <1>2, <1>3, <1>5, <1>6, <1>7

(* The vectors are sorted by their variables, and so are the queries. *)
LEMMA OracleVectors ==
    ASSUME ArgsInv
    PROVE  /\ Len(Data) \in Nat /\ DOMAIN Data = 1..Len(Data)
           /\ \A i \in 1..Len(Data) : Data[i] \in Int
           /\ \A l : l \in res <=> \E i \in 1..Len(Data) : Data[i] = l
           /\ \A i, j \in 1..Len(Data) : i <= j => VarOf(Data[i]) <= VarOf(Data[j])
           /\ Cardinality(c1) \in Nat
           /\ \A i \in 1..Cardinality(c1) : Query(i) \in Int
           /\ \A i, j \in 1..Cardinality(c1) : i <= j => VarOf(Query(i)) <= VarOf(Query(j))
<1>1. IsFiniteSet(res) /\ res \subseteq Int /\ IsFiniteSet(c1) /\ c1 \subseteq Int
    BY LiteralsFinite DEF ArgsInv
<1>2. /\ Len(Data) \in Nat /\ DOMAIN Data = 1..Len(Data)
      /\ \A i \in 1..Len(Data) : Data[i] \in res /\ Data[i] \in Int
      /\ \A l \in res : \E i \in 1..Len(Data) : Data[i] = l
      /\ \A i, j \in 1..Len(Data) : i <= j => VarOf(Data[i]) <= VarOf(Data[j])
    BY <1>1, SortedByVariable DEF Data
<1> DEFINE vec == SortedClause(c1)
<1>3. /\ Cardinality(c1) \in Nat /\ DOMAIN vec = 1..Cardinality(c1)
      /\ \A i \in 1..Cardinality(c1) : vec[i] \in Int
      /\ \A i, j \in 1..Cardinality(c1) : i <= j => VarOf(vec[i]) <= VarOf(vec[j])
    <2>1. vec = SortedClause(c1)
        OBVIOUS
    <2> HIDE DEF vec
    <2>2. /\ Cardinality(c1) \in Nat /\ Len(vec) = Cardinality(c1) /\ DOMAIN vec = 1..Len(vec)
          /\ \A i \in 1..Len(vec) : vec[i] \in Int
          /\ \A i, j \in 1..Len(vec) : i <= j => VarOf(vec[i]) <= VarOf(vec[j])
        BY <1>1, <2>1, SortedByVariable
    <2> QED BY <2>2
<1> HIDE DEF vec
<1>4. ASSUME NEW i \in 1..Cardinality(c1)
      PROVE  Query(i) \in Int /\ VarOf(Query(i)) = VarOf(vec[i])
    <2>1. Query(i) = -vec[i] \/ Query(i) = vec[i]
        BY <1>3 DEF Query, Queries, vec
    <2> QED BY <1>3, <2>1 DEF VarOf
<1> QED BY <1>2, <1>3, <1>4

(* has() moves the cursor past what is less than the query, and no further. *)
LEMMA CursorMoves ==
    ASSUME ArgsInv, NEW start \in 1..(Len(Data) + 1), NEW query \in Int
    PROVE  LET next == Advance(Data, start, query)
           IN  /\ next \in start..(Len(Data) + 1)
               /\ \A i \in start..(next - 1) : Less(Data[i], query)
<1> DEFINE n == Len(Data)
           stops == {i \in start..n : ~Less(Data[i], query)}
<1>1. n \in Nat
    BY OracleVectors
<1>2. CASE stops = {}
    <2>1. Advance(Data, start, query) = n + 1
        BY <1>2 DEF Advance
    <2> QED BY <1>1, <1>2, <2>1
<1>3. CASE stops # {}
    <2>1. stops \subseteq Nat
        BY <1>1
    <2>2. \E i \in stops : \A j \in stops : i <= j
        <3> HIDE DEF stops
        <3> QED BY <1>3, <2>1, LeastNumber
    <2>3. Advance(Data, start, query) = CHOOSE i \in stops : \A j \in stops : i <= j
        BY <1>3 DEF Advance
    <2> DEFINE next == Advance(Data, start, query)
    <2>4. next \in stops /\ \A j \in stops : next <= j
        <3> HIDE DEF stops
        <3> QED BY <2>2, <2>3
    <2> HIDE DEF next
    <2>5. next \in start..(n + 1)
        BY <1>1, <2>4
    <2>6. ASSUME NEW i \in start..(next - 1) PROVE Less(Data[i], query)
        BY <1>1, <2>4, <2>5
    <2> QED BY <2>5, <2>6 DEF next
<1> QED BY <1>2, <1>3

(* has() finds a literal that is not in front of the cursor. *)
LEMMA CursorFinds ==
    ASSUME ArgsInv, NEW next \in 1..(Len(Data) + 1), NEW query \in Int,
           \A i \in 1..(next - 1) : Less(Data[i], query)
    PROVE  Has(Data, next, query) <=> query \in res
<1>1. /\ Len(Data) \in Nat /\ \A i \in 1..Len(Data) : Data[i] \in Int
      /\ \A i, j \in 1..Len(Data) : i <= j => VarOf(Data[i]) <= VarOf(Data[j])
    BY OracleVectors
<1>2. ASSUME Has(Data, next, query) PROVE query \in res
    <2>1. PICK i \in next..Len(Data) : Data[i] = query
        BY <1>2 DEF Has
    <2>2. i \in 1..Len(Data)
        BY <1>1
    <2> QED BY <2>1, <2>2, OracleVectors
<1>3. ASSUME query \in res PROVE Has(Data, next, query)
    <2>1. PICK i \in 1..Len(Data) : Data[i] = query
        BY <1>3, OracleVectors
    <2>2. ~Less(Data[i], query)
        BY <1>1, <2>1 DEF Less, VarOf
    <2>3. i \in next..Len(Data)
        BY <1>1, <2>2
    <2>4. ASSUME NEW j \in next..i PROVE ~Less(query, Data[j])
        <3>1. j \in 1..Len(Data) /\ j <= i
            BY <1>1
        <3>2. VarOf(Data[j]) <= VarOf(query) /\ VarOf(Data[j]) \in Int /\ VarOf(query) \in Int
            BY <1>1, <2>1, <3>1 DEF VarOf
        <3> QED BY <3>2 DEF Less
    <2> QED BY <2>1, <2>3, <2>4 DEF Has
<1> QED BY <1>2, <1>3

(* The cursor has skipped no query to come, since they ascend as well. *)
LEMMA OracleAsked == CallInv /\ OracleInv /\ AskOracle => OracleInv'
<1> SUFFICES ASSUME CallInv, OracleInv, AskOracle PROVE OracleInv'
    OBVIOUS
<1> DEFINE old == result.answers
           n == Len(old) + 1
           query == Query(n)
           next == Advance(Data, result.next, query)
           answer == Has(Data, next, query)
<1>1. ArgsInv /\ OracleInUse /\ UNCHANGED <<vd, c1, c2, res, call>>
    BY DEF CallInv, AskOracle
<1>2. /\ old \in Seq(BOOLEAN) /\ n \in 1..Cardinality(c1) /\ result.next \in 1..(Len(Data) + 1)
      /\ \A i \in 1..(result.next - 1) : \A k \in 1..Cardinality(c1) :
             k >= n => Less(Data[i], Query(k))
      /\ \A i \in DOMAIN old : old[i] <=> Query(i) \in res
    <2>1. /\ old \in Seq(BOOLEAN) /\ result.next \in 1..(Len(Data) + 1)
          /\ \A i \in 1..(result.next - 1) : \A k \in 1..Cardinality(c1) :
                 k > Len(old) => Less(Data[i], Query(k))
          /\ \A i \in DOMAIN old : old[i] <=> Query(i) \in res
        BY <1>1 DEF OracleInv, OracleIsMembership
    <2>2. n <= Cardinality(c1) /\ Cardinality(c1) \in Nat
        BY <1>1, OracleVectors DEF AskOracle
    <2> QED BY <2>1, <2>2
<1>3. result' = [next |-> next, answers |-> Append(old, answer)]
    BY DEF AskOracle, Asked, Data
<1>4. UNCHANGED <<Data, OracleInUse, Cardinality(c1)>> /\ \A k : Query(k)' = Query(k)
    BY <1>1 DEF Data, OracleInUse, Query, Queries
<1>5. query \in Int /\ Len(Data) \in Nat /\ Cardinality(c1) \in Nat
    BY <1>1, <1>2, OracleVectors
<1>6. next \in result.next..(Len(Data) + 1) /\ \A i \in result.next..(next - 1) : Less(Data[i], query)
    BY <1>1, <1>2, <1>5, CursorMoves
<1>7. next \in 1..(Len(Data) + 1)
    BY <1>2, <1>5, <1>6
<1>8. ASSUME NEW i \in 1..(next - 1), NEW k \in 1..Cardinality(c1), k >= n
      PROVE  Less(Data[i], Query(k))
    <2>1. i \in 1..(result.next - 1) \/ i \in result.next..(next - 1)
        BY <1>2, <1>5, <1>6
    <2>2. CASE i \in 1..(result.next - 1)
        BY <1>2, <1>8, <2>2
    <2>3. CASE i \in result.next..(next - 1)
        <3>1. VarOf(Data[i]) < VarOf(query)
            BY <1>6, <2>3 DEF Less
        <3>2. VarOf(query) <= VarOf(Query(k))
            BY <1>1, <1>2, <1>8, OracleVectors
        <3>3. i \in 1..Len(Data)
            BY <1>5, <1>7
        <3>4. Data[i] \in Int /\ Query(k) \in Int
            BY <1>1, <3>3, OracleVectors
        <3> QED BY <1>5, <3>1, <3>2, <3>4 DEF Less, VarOf
    <2> QED BY <2>1, <2>2, <2>3
<1>9. answer <=> query \in res
    BY <1>1, <1>2, <1>5, <1>7, <1>8, CursorFinds
<1>10. answer \in BOOLEAN
    BY DEF Has
<1> HIDE DEF next, answer, query
<1>11. /\ Append(old, answer) \in Seq(BOOLEAN) /\ Len(Append(old, answer)) = n
       /\ \A i \in 1..n : Append(old, answer)[i] = IF i = n THEN answer ELSE old[i]
    BY <1>2, <1>10
<1>12. \A i \in 1..n : Append(old, answer)[i] <=> Query(i) \in res
    BY <1>2, <1>9, <1>11 DEF query
<1>13. /\ result'.next = next /\ result'.answers = Append(old, answer)
    BY <1>3
<1>14. DOMAIN Append(old, answer) = 1..n
    BY <1>11
<1>15. OracleIsMembership'
    BY <1>1, <1>4, <1>12, <1>13, <1>14 DEF OracleIsMembership
<1>16. \A i \in 1..(next - 1) : \A k \in 1..Cardinality(c1) : k > n => Less(Data[i], Query(k))
    BY <1>2, <1>8
<1> HIDE DEF n, old
<1> QED BY <1>2, <1>3, <1>4, <1>5, <1>7, <1>11, <1>13, <1>15, <1>16 DEF OracleInv

(* An oracle answers a query with membership, as long as the queries ascend by
   variable, in whatever order the literals of a variable come: the check may be
   described by sets. *)
THEOREM OracleAnswersRight == Spec => []OracleIsMembership
<1>1. Init => OracleInv
    BY DEF Init, OracleInv, OracleInUse
<1>2. CallInv /\ OracleInv /\ [Next]_vars => OracleInv'
    <2> SUFFICES ASSUME CallInv, OracleInv, [Next]_vars PROVE OracleInv'
        OBVIOUS
    <2>1. CASE UNCHANGED vars
        <3>1. UNCHANGED <<result, OracleInUse, Data, Cardinality(c1), res>>
            BY <2>1 DEF vars, OracleInUse, Data
        <3>2. \A k : Query(k)' = Query(k)
            BY <2>1 DEF vars, Query, Queries
        <3> QED BY <3>1, <3>2 DEF OracleInv, OracleIsMembership
    <2>2. CASE CallResolve \/ CallCheckResolution \/ CallCheckReduction
        BY <2>2 DEF CallResolve, CallCheckResolution, CallCheckReduction, Call, OracleInv, OracleInUse
    <2>3. CASE \E negated \in BOOLEAN : MakeOracle(negated)
        <3>1. result' = NewOracle /\ UNCHANGED <<vd, c1, c2, res>>
            BY <2>3 DEF MakeOracle, Call
        <3>2. ArgsInv /\ Len(Data) \in Nat /\ Cardinality(c1) \in Nat
            BY OracleVectors DEF CallInv
        <3>3. UNCHANGED <<Data, Cardinality(c1)>>
            BY <3>1 DEF Data
        <3>4. result'.next = 1 /\ result'.answers = <<>> /\ result' = [next |-> 1, answers |-> <<>>]
            BY <3>1 DEF NewOracle
        <3>5. OracleIsMembership'
            BY <3>4 DEF OracleIsMembership
        <3> QED BY <3>2, <3>3, <3>4, <3>5 DEF OracleInv
    <2>4. CASE AskOracle
        BY <2>4, OracleAsked
    <2> QED BY <2>1, <2>2, <2>3, <2>4 DEF Next, Return
<1>3. OracleInv => OracleIsMembership
    BY DEF OracleInv, OracleIsMembership
<1> QED BY <1>1, <1>2, <1>3, CallInvHolds, PTL DEF Spec
=============================================================================
