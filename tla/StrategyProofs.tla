---------------------------- MODULE StrategyProofs ----------------------------
(***************************************************************************)
(* The proof that the certificate is a strategy: in every proof that is    *)
(* ordered in the sense of Ordered, the function of a variable of the      *)
(* prefix depends on variables before it only.  Every variable has a rank, *)
(* twice the depth of the last variable of the prefix that its gate may    *)
(* see, and no gate sees a higher rank than its own.                       *)
(***************************************************************************)
EXTENDS LookupProofs, OutputProofs

-----------------------------------------------------------------------------
(* The prefix *)

PrefixDepth(v) == ReadPrefix(input.prefix)[v].depth
PrefixType(v)  == ReadPrefix(input.prefix)[v].type

\* A set of numbers with an upper bound.
IsBounded(S) == \E b \in Nat : \A n \in S : n <= b

(* A finite set of numbers is bounded: take one of its elements away. *)
LEMMA FiniteIsBounded ==
    ASSUME NEW S, IsFiniteSet(S), S \subseteq Nat
    PROVE  IsBounded(S)
<1> DEFINE bad(n) == \E T \in SUBSET Nat : IsFiniteSet(T) /\ Cardinality(T) = n /\ ~IsBounded(T)
           sizes == {n \in Nat : bad(n)}
<1> SUFFICES ASSUME ~IsBounded(S) PROVE FALSE
    OBVIOUS
<1>1. Cardinality(S) \in sizes
    <2>1. Cardinality(S) \in Nat /\ S \in SUBSET Nat
        BY FS_CardinalityType
    <2> QED BY <2>1
<1>2. PICK n \in sizes : \A m \in sizes : n <= m
    <2>1. sizes \subseteq Nat
        OBVIOUS
    <2> HIDE DEF sizes
    <2> QED BY <1>1, <2>1, LeastNumber
<1>3. PICK T \in SUBSET Nat : IsFiniteSet(T) /\ Cardinality(T) = n /\ ~IsBounded(T)
    BY <1>2
<1>4. PICK x \in T : TRUE
    <2>1. 0 \in Nat
        OBVIOUS
    <2> QED BY <1>3, <2>1 DEF IsBounded
<1>5. IsFiniteSet(T \ {x}) /\ Cardinality(T \ {x}) = n - 1
    BY <1>3, <1>4, FS_RemoveElement
<1>6. n - 1 \in Nat
    BY <1>5, FS_CardinalityType
<1>7. IsBounded(T \ {x})
    <2>1. SUFFICES ASSUME ~IsBounded(T \ {x}) PROVE FALSE
        OBVIOUS
    <2>2. T \ {x} \in SUBSET Nat
        BY <1>3
    <2>3. n - 1 \in sizes
        BY <1>5, <1>6, <2>1, <2>2
    <2>4. n <= n - 1 /\ n \in Nat
        BY <1>2, <2>3
    <2> QED BY <2>4
<1>8. PICK b \in Nat : \A m \in T \ {x} : m <= b
    BY <1>7 DEF IsBounded
<1>9. b + x \in Nat /\ \A m \in T : m <= b + x
    <2>1. x \in Nat /\ T \subseteq Nat
        BY <1>3, <1>4
    <2>2. ASSUME NEW m \in T PROVE m <= b + x
        <3>1. m \in Nat /\ (m = x \/ m <= b)
            BY <1>8, <2>1
        <3> QED BY <1>8, <2>1, <3>1
    <2> QED BY <1>8, <2>1, <2>2
<1> QED BY <1>3, <1>9 DEF IsBounded

(* A finite set of numbers has a greatest one. *)
LEMMA FiniteGreatest ==
    ASSUME NEW S, IsFiniteSet(S), S \subseteq Nat, S # {}
    PROVE  \E m \in S : \A n \in S : n <= m
<1> DEFINE above == {n \in Nat : \A m \in S : m <= n}
<1>1. PICK n \in above : \A m \in above : n <= m
    <2>1. above # {}
        BY FiniteIsBounded DEF IsBounded
    <2>2. above \subseteq Nat
        OBVIOUS
    <2> HIDE DEF above
    <2> QED BY <2>1, <2>2, LeastNumber
<1>2. n \in S
    <2>1. SUFFICES ASSUME n \notin S PROVE FALSE
        OBVIOUS
    <2>2. \A m \in S : m \in Nat /\ m <= n /\ m # n
        BY <1>1, <2>1
    <2>3. PICK k \in S : TRUE
        OBVIOUS
    <2>4. n \in Nat /\ n > 0
        BY <1>1, <2>2, <2>3
    <2>5. \A m \in S : m <= n - 1
        BY <2>2, <2>4
    <2>6. n - 1 \in above
        BY <2>4, <2>5
    <2> QED BY <1>1, <2>4, <2>6
<1> QED BY <1>1, <1>2

(* The deepest block only grows along the prefix, and stays where the quantifier does. *)
LEMMA DepthGrows ==
    ASSUME NEW prefix \in Seq([q : {"e", "a"}, vars : SUBSET Nat]),
           NEW i \in DOMAIN prefix, NEW k \in DOMAIN prefix
    PROVE  /\ BlockDepth(prefix, i) \in Nat \ {0}
           /\ BlockDepth(prefix, i) = BlockDepth(prefix, k) => prefix[i].q = prefix[k].q
<1> DEFINE changes(n) == {j \in 1..n : j = 1 \/ prefix[j].q # prefix[j - 1].q}
<1>1. DOMAIN prefix = 1..Len(prefix) /\ Len(prefix) \in Nat
    OBVIOUS
<1>2. \A n \in Nat : IsFiniteSet(changes(n)) /\ BlockDepth(prefix, n) = Cardinality(changes(n))
    <2>1. ASSUME NEW n \in Nat PROVE IsFiniteSet(changes(n))
        <3>1. IsFiniteSet(1..n) /\ changes(n) \subseteq 1..n
            BY FS_Interval
        <3> QED BY <3>1, FS_Subset
    <2> QED BY <2>1 DEF BlockDepth
<1>3. ASSUME NEW n \in DOMAIN prefix, NEW m \in DOMAIN prefix, n < m,
             BlockDepth(prefix, n) = BlockDepth(prefix, m)
      PROVE  prefix[n].q = prefix[m].q
    <2>1. n \in Nat /\ m \in Nat /\ changes(n) \subseteq changes(m)
        BY <1>1, <1>3
    <2>2. changes(n) = changes(m)
        <3> HIDE DEF changes
        <3> QED BY <1>2, <1>3, <2>1, FS_Subset
    <2> DEFINE differ == {j \in (n + 1)..m : prefix[j].q # prefix[n].q}
    <2>3. SUFFICES ASSUME prefix[n].q # prefix[m].q PROVE FALSE
        OBVIOUS
    <2>4. PICK j \in differ : \A h \in differ : j <= h
        <3>1. m \in differ /\ differ \subseteq Nat
            BY <1>3, <2>1, <2>3
        <3> HIDE DEF differ
        <3> QED BY <3>1, LeastNumber
    <2>5. prefix[j - 1].q = prefix[n].q
        <3>1. j - 1 = n \/ j - 1 \in (n + 1)..m
            BY <2>1, <2>4
        <3>2. j - 1 \notin differ
            BY <2>1, <2>4
        <3> QED BY <3>1, <3>2
    <2>6. j \in changes(m) /\ j \notin changes(n)
        BY <2>1, <2>4, <2>5
    <2> QED BY <2>2, <2>6
<1>4. BlockDepth(prefix, i) \in Nat \ {0}
    <2>1. 1 \in changes(i) /\ i \in Nat
        BY <1>1
    <2> HIDE DEF changes
    <2>2. Cardinality(changes(i)) \in Nat /\ Cardinality(changes(i)) # 0
        BY <1>2, <2>1, FS_CardinalityType, FS_EmptySet
    <2> QED BY <1>2, <2>1, <2>2
<1> HIDE DEF changes
<1> QED BY <1>1, <1>3, <1>4

(* Every variable of the prefix has a depth and a type, and those of a depth are of one type. *)
LEMMA PrefixIsTyped ==
    ASSUME input \in Inputs
    PROVE  /\ DOMAIN ReadPrefix(input.prefix) = PrefixVars
           /\ PrefixVars \subseteq Nat \ {0}
           /\ \A v \in PrefixVars :
                  /\ PrefixDepth(v) \in Nat \ {0} /\ PrefixType(v) \in {0, 1}
                  /\ ReadPrefix(input.prefix)[v] = [depth |-> PrefixDepth(v), type |-> PrefixType(v)]
           /\ \A v, w \in PrefixVars : PrefixDepth(v) = PrefixDepth(w) => PrefixType(v) = PrefixType(w)
<1> DEFINE prefix == input.prefix
           block(v) == CHOOSE i \in DOMAIN prefix : v \in prefix[i].vars
<1>1. prefix \in Seq([q : {"e", "a"}, vars : SUBSET Nat])
      /\ \A i \in DOMAIN prefix : prefix[i].vars \subseteq 1..(CONST_TRUE - 1)
    BY InputAssumption
<1>2. DOMAIN ReadPrefix(prefix) = PrefixVars
    BY DEF ReadPrefix, PrefixVars
<1>3. ASSUME NEW v \in PrefixVars
      PROVE  /\ block(v) \in DOMAIN prefix
             /\ ReadPrefix(prefix)[v] = [depth |-> BlockDepth(prefix, block(v)),
                                        type |-> IF prefix[block(v)].q = "a" THEN 1 ELSE 0]
             /\ ReadPrefix(prefix)[v].depth = BlockDepth(prefix, block(v))
             /\ ReadPrefix(prefix)[v].type = IF prefix[block(v)].q = "a" THEN 1 ELSE 0
    BY DEF ReadPrefix, PrefixVars
<1>4. PrefixVars \subseteq Nat \ {0}
    BY <1>1, ConstAssumption DEF PrefixVars
<1> HIDE DEF block, prefix
<1>5. ASSUME NEW v \in PrefixVars
      PROVE  /\ PrefixDepth(v) = BlockDepth(prefix, block(v))
             /\ PrefixType(v) = IF prefix[block(v)].q = "a" THEN 1 ELSE 0
    <2>1. PrefixDepth(v) = ReadPrefix(prefix)[v].depth /\ PrefixType(v) = ReadPrefix(prefix)[v].type
        BY DEF PrefixDepth, PrefixType, prefix
    <2> QED BY <1>3, <2>1
<1>6. \A v \in PrefixVars : PrefixDepth(v) \in Nat \ {0}
    BY <1>1, <1>3, <1>5, DepthGrows
<1>7. ASSUME NEW v \in PrefixVars, NEW w \in PrefixVars, PrefixDepth(v) = PrefixDepth(w)
      PROVE  PrefixType(v) = PrefixType(w)
    <2>1. block(v) \in DOMAIN prefix /\ block(w) \in DOMAIN prefix
          /\ BlockDepth(prefix, block(v)) = BlockDepth(prefix, block(w))
        BY <1>3, <1>5, <1>7
    <2>2. \A i, k \in DOMAIN prefix :
              BlockDepth(prefix, i) = BlockDepth(prefix, k) => prefix[i].q = prefix[k].q
        BY <1>1, DepthGrows
    <2>3. prefix[block(v)].q = prefix[block(w)].q
        BY <2>1, <2>2
    <2> QED BY <1>5, <2>3
<1> QED BY <1>2, <1>3, <1>4, <1>5, <1>6, <1>7 DEF prefix

-----------------------------------------------------------------------------
(* What a variable depends on *)

\* What is reached from v in a step through the gates.
ThroughGates(vs) == vs \cup UNION {gates[i].ins : i \in GatesOf(vs)}

\* The variables reached from v, by the number of steps, up to m of them.
IsReach(reach, v, m) ==
    reach = [n \in 0..m |-> IF n = 0 THEN {v} ELSE ThroughGates(reach[n - 1])]

(* Support() is defined by a function that exists. *)
LEMMA ReachExists ==
    ASSUME NEW v, NEW k \in Nat
    PROVE  \E reach : IsReach(reach, v, k)
<1> DEFINE missing == {m \in Nat : ~ \E reach : IsReach(reach, v, m)}
<1> SUFFICES ASSUME missing # {} PROVE FALSE
    OBVIOUS
<1>1. PICK m \in missing : \A n \in missing : m <= n
    <2>1. missing \subseteq Nat
        OBVIOUS
    <2> HIDE DEF missing
    <2> QED BY <2>1, LeastNumber
<1>2. m # 0
    <2> DEFINE one == [n \in 0..0 |-> {v}]
    <2>1. IsReach(one, v, 0)
        BY DEF IsReach
    <2> QED BY <1>1, <2>1
<1>3. m - 1 \in Nat /\ m - 1 \notin missing
    BY <1>1, <1>2
<1>4. PICK f : IsReach(f, v, m - 1)
    BY <1>3
<1> DEFINE g == [n \in 0..m |-> IF n = m THEN ThroughGates(f[m - 1]) ELSE f[n]]
<1>5. \A n \in 0..(m - 1) : f[n] = IF n = 0 THEN {v} ELSE ThroughGates(f[n - 1])
    BY <1>4 DEF IsReach
<1>6. ASSUME NEW n \in 0..m PROVE g[n] = IF n = 0 THEN {v} ELSE ThroughGates(g[n - 1])
    <2>1. CASE n = m
        <3>1. g[n - 1] = f[m - 1] /\ g[n] = ThroughGates(f[m - 1])
            BY <1>1, <1>2, <2>1
        <3> QED BY <1>2, <2>1, <3>1
    <2>2. CASE n # m
        <3>1. n \in 0..(m - 1) /\ g[n] = f[n] /\ (n # 0 => g[n - 1] = f[n - 1])
            BY <1>1, <2>2
        <3> QED BY <1>5, <3>1
    <2> QED BY <2>1, <2>2
<1>7. IsReach(g, v, m)
    <2>1. g = [n \in 0..m |-> g[n]]
        OBVIOUS
    <2> HIDE DEF g
    <2> QED BY <1>6, <2>1 DEF IsReach
<1> QED BY <1>1, <1>7

(* What a variable depends on is in every set that has the variable and that no gate leads
   out of. *)
LEMMA SupportWithin ==
    ASSUME IsSeq(gates), NEW v, NEW S, v \in S,
           \A i \in DOMAIN gates : gates[i].out \in S => gates[i].ins \subseteq S
    PROVE  Support(v) \subseteq S
<1> DEFINE reach == CHOOSE f : IsReach(f, v, Len(gates))
           outside == {n \in 0..Len(gates) : ~(reach[n] \subseteq S)}
<1>1. Len(gates) \in Nat
    BY LengthType
<1>2. IsReach(reach, v, Len(gates))
    <2>1. \E f : IsReach(f, v, Len(gates))
        BY <1>1, ReachExists
    <2> QED BY <2>1, Zenon
<1>3. Support(v) = reach[Len(gates)] \ {v}
    BY Zenon DEF Support, IsReach, ThroughGates
<1> HIDE DEF reach
<1>4. \A n \in 0..Len(gates) : reach[n] = IF n = 0 THEN {v} ELSE ThroughGates(reach[n - 1])
    BY <1>2 DEF IsReach
<1>5. outside = {}
    <2> SUFFICES ASSUME outside # {} PROVE FALSE
        OBVIOUS
    <2>1. PICK m \in outside : \A n \in outside : m <= n
        <3>1. outside \subseteq Nat
            OBVIOUS
        <3> HIDE DEF outside
        <3> QED BY <3>1, LeastNumber
    <2>2. m # 0 /\ m - 1 \in 0..Len(gates) /\ m - 1 \notin outside
        BY <1>1, <1>4, <2>1
    <2>3. reach[m - 1] \subseteq S /\ reach[m] = ThroughGates(reach[m - 1])
        BY <1>4, <2>1, <2>2
    <2>4. ThroughGates(reach[m - 1]) \subseteq S
        BY <2>3 DEF ThroughGates, GatesOf
    <2> QED BY <2>1, <2>3, <2>4
<1> QED BY <1>1, <1>3, <1>5

-----------------------------------------------------------------------------
(* Depths *)

HasDepths(vd) == \A v \in DOMAIN vd : vd[v].depth \in Nat

(* max_depth: no literal is deeper, and if it is not 0 there is a literal of this depth. *)
LEMMA DeepestLiteral ==
    ASSUME NEW vd, HasDepths(vd), NEW c, IsFiniteSet(c)
    PROVE  /\ MaxDepth(vd, c) \in Nat
           /\ \A l \in c : Depth(vd, VarOf(l)) \in Nat /\ Depth(vd, VarOf(l)) <= MaxDepth(vd, c)
           /\ MaxDepth(vd, c) = 0 \/ \E l \in c : MaxDepth(vd, c) = Depth(vd, VarOf(l))
<1> DEFINE depths == {Depth(vd, VarOf(l)) : l \in c}
           D == {0} \cup depths
<1>1. \A l \in c : Depth(vd, VarOf(l)) \in Nat
    <2>1. UINT_MAX \in Nat
        BY SMT DEF UINT_MAX
    <2> QED BY <2>1 DEF Depth, HasDepths
<1>2. IsFiniteSet(depths)
    <2> DEFINE f == [l \in c |-> Depth(vd, VarOf(l))]
    <2>1. f \in Surjection(c, depths)
        BY DEF Surjection
    <2> HIDE DEF f, depths
    <2> QED BY <2>1, FS_Surjection
<1>3. IsFiniteSet(D) /\ D \subseteq Nat /\ 0 \in D
    <2>1. IsFiniteSet({0})
        BY FS_Singleton
    <2>2. IsFiniteSet(D)
        <3> HIDE DEF depths
        <3> QED BY <1>2, <2>1, FS_Union
    <2> QED BY <1>1, <2>2
<1>4. MaxDepth(vd, c) \in D /\ \A d \in D : d <= MaxDepth(vd, c)
    <2>1. PICK n \in D : \A d \in D : d <= n
        <3> HIDE DEF D
        <3> QED BY <1>3, FiniteGreatest
    <2>2. MaxDepth(vd, c) = CHOOSE x \in D : \A y \in D : x >= y
        BY Zenon DEF MaxDepth, Max
    <2>3. \A y \in D : n >= y
        <3> HIDE DEF D
        <3> QED BY <1>3, <2>1
    <2>4. MaxDepth(vd, c) \in D /\ \A y \in D : MaxDepth(vd, c) >= y
        <3> HIDE DEF D
        <3> QED BY <2>1, <2>2, <2>3
    <2> HIDE DEF D
    <2> QED BY <1>3, <2>4
<1> QED BY <1>1, <1>3, <1>4

(* The merged literals of a legal resolution are secondary and not before the pivot; those it
   reduces are secondary and not before a primary literal of the resolvent. *)
LEMMA CheckedDepths ==
    ASSUME NEW vd, HasDepths(vd), NEW c1, NEW c2, NEW r, NEW ptype,
           IsLiteralSet(c1), IsLiteralSet(c2), IsLiteralSet(r),
           CheckResolution(vd, c1, c2, r, ptype).pivot # 0
    PROVE  LET check == CheckResolution(vd, c1, c2, r, ptype)
           IN  /\ check.pivot \in c1 /\ IsPrimary(vd, VarOf(check.pivot), ptype)
               /\ \A l \in Range(check.merged) :
                      /\ l \in c1 /\ ~IsPrimary(vd, VarOf(l), ptype)
                      /\ Depth(vd, VarOf(check.pivot)) <= Depth(vd, VarOf(l))
               /\ \A l \in Range(check.reduced) :
                      /\ l \in (c1 \cup c2) \ r /\ ~IsPrimary(vd, VarOf(l), ptype)
                      /\ MaxDepth(vd, Primaries(vd, r, ptype)) <= Depth(vd, VarOf(l))
<1> DEFINE check == CheckResolution(vd, c1, c2, r, ptype)
           clashing == {l \in c1 : -l \in c2}
           pivots == {l \in clashing : IsPrimary(vd, VarOf(l), ptype)}
           pivot == CHOOSE l \in pivots : TRUE
           merged == {l \in clashing \ pivots : -l \in clashing => l < 0}
           reduced1 == {l \in c1 \ r : ~IsPrimary(vd, VarOf(l), ptype)}
           rest2 == c2 \ (r \cup reduced1)
           reduced2 == {l \in rest2 : ~IsPrimary(vd, VarOf(l), ptype)}
           deepest == MaxDepth(vd, Primaries(vd, r, ptype))
<1>1. /\ Cardinality(pivots) = 1 /\ check.pivot = pivot
      /\ \A l \in reduced1 : Depth(vd, VarOf(l)) > deepest
      /\ \A l \in merged : Depth(vd, VarOf(l)) >= Depth(vd, VarOf(pivot))
      /\ \A l \in reduced2 : Depth(vd, VarOf(l)) >= deepest
    BY DEF CheckResolution
<1>2. check.merged = SortedClause(merged) /\ check.reduced = SortedClause(reduced1) \o SortedClause(reduced2)
    BY DEF CheckResolution
<1>3. pivot \in pivots
    <2>1. pivots # {}
        BY <1>1, FS_EmptySet
    <2> QED BY <2>1
<1>4. merged \subseteq c1 /\ reduced1 \subseteq c1 /\ reduced2 \subseteq c2
    OBVIOUS
<1>5. \A l \in c1 \cup c2 : Depth(vd, VarOf(l)) \in Nat
    <2>1. UINT_MAX \in Nat
        BY SMT DEF UINT_MAX
    <2> QED BY <2>1 DEF Depth, HasDepths
<1>6. deepest \in Nat
    <2>1. Primaries(vd, r, ptype) \subseteq r
        BY DEF Primaries
    <2>2. IsFiniteSet(Primaries(vd, r, ptype))
        BY <2>1, LiteralSubset DEF IsLiteralSet
    <2> QED BY <2>2, DeepestLiteral
<1>7. \A l \in merged : l \in c1 /\ ~IsPrimary(vd, VarOf(l), ptype)
    OBVIOUS
<1>8. \A l \in reduced1 \cup reduced2 : l \in (c1 \cup c2) \ r /\ ~IsPrimary(vd, VarOf(l), ptype)
    OBVIOUS
<1>9. pivot \in c1 /\ IsPrimary(vd, VarOf(pivot), ptype)
    BY <1>3
<1> HIDE DEF check, merged, reduced1, reduced2, deepest, pivot, pivots, clashing
<1>10. Range(check.merged) \subseteq merged
    <2>1. IsFiniteSet(merged) /\ merged \subseteq Int
        BY <1>4, LiteralSubset DEF IsLiteralSet
    <2>2. SortedClause(merged) \in Seq(merged)
        BY <2>1, SortedClauseType
    <2> QED BY <1>2, <2>2 DEF Range
<1>11. Range(check.reduced) \subseteq reduced1 \cup reduced2
    <2>1. /\ IsFiniteSet(reduced1) /\ reduced1 \subseteq Int
          /\ IsFiniteSet(reduced2) /\ reduced2 \subseteq Int
        BY <1>4, LiteralSubset DEF IsLiteralSet
    <2>2. SortedClause(reduced1) \in Seq(reduced1) /\ SortedClause(reduced2) \in Seq(reduced2)
        BY <2>1, SortedClauseType
    <2>3. SortedClause(reduced1) \in Seq(reduced1 \cup reduced2)
          /\ SortedClause(reduced2) \in Seq(reduced1 \cup reduced2)
        BY <2>2, SeqMonotonic
    <2>4. check.reduced \in Seq(reduced1 \cup reduced2)
        BY <1>2, <2>3, ConcatProperties
    <2> QED BY <2>4 DEF Range
<1>12. \A l \in Range(check.merged) : Depth(vd, VarOf(check.pivot)) <= Depth(vd, VarOf(l))
    BY <1>1, <1>4, <1>5, <1>9, <1>10
<1>13. \A l \in Range(check.reduced) : deepest <= Depth(vd, VarOf(l))
    BY <1>1, <1>4, <1>5, <1>6, <1>11
<1> QED BY <1>1, <1>7, <1>8, <1>9, <1>10, <1>11, <1>12, <1>13 DEF check, deepest

(* The literals that check_reduction() collects are secondary and behind every primary one of
   the conclusion; the entries it makes are those of unknown variables. *)
LEMMA CollectedDepths ==
    ASSUME NEW vd, NEW c, NEW d, NEW ptype, IsLiteralSet(c), IsLiteralSet(d),
           NEW vd1, vd1 = WithDefaults(vd, VarsOf(c \cup d)), HasDepths(vd1)
    PROVE  LET check == CheckReduction(vd, c, d, ptype)
           IN  /\ \E vars1 : check.var_data = WithDefaults(vd, vars1)
               /\ \A l \in Range(check.reduced) :
                      /\ l \in c \ d /\ ~IsPrimary(vd1, VarOf(l), ptype)
                      /\ MaxDepth(vd1, Primaries(vd1, d, ptype)) < Depth(vd1, VarOf(l))
<1> DEFINE check == CheckReduction(vd, c, d, ptype)
           gone == SortedClause(c \ d)
           deepest == MaxDepth(vd1, Primaries(vd1, d, ptype))
           bad == {i \in DOMAIN gone : \/ IsPrimary(vd1, VarOf(gone[i]), ptype)
                                       \/ Depth(vd1, VarOf(gone[i])) <= deepest}
           stop == IF bad = {} THEN Len(gone) ELSE Min(bad)
           last == IF bad = {} THEN stop ELSE stop - 1
<1>1. gone \in Seq(c \ d)
    <2>1. IsFiniteSet(c \ d) /\ c \ d \subseteq Int
        BY LiteralSubset DEF IsLiteralSet
    <2> QED BY <2>1, SortedClauseType
<1>2. /\ check.var_data = WithDefaults(vd, VarsOf(d \cup {gone[i] : i \in 1..stop}))
      /\ check.reduced = SubSeq(gone, 1, last)
    BY DEF CheckReduction
<1>3. deepest \in Nat
    <2>1. Primaries(vd1, d, ptype) \subseteq d
        BY DEF Primaries
    <2>2. IsFiniteSet(Primaries(vd1, d, ptype))
        BY <2>1, LiteralSubset DEF IsLiteralSet
    <2> QED BY <2>2, DeepestLiteral
<1>4. \A l \in c : Depth(vd1, VarOf(l)) \in Nat
    <2>1. UINT_MAX \in Nat
        BY SMT DEF UINT_MAX
    <2> QED BY <2>1 DEF Depth, HasDepths
<1>5. Len(gone) \in Nat /\ DOMAIN gone = 1..Len(gone)
    <2> HIDE DEF gone
    <2> QED BY <1>1
<1>6. bad \subseteq 1..Len(gone)
    BY <1>5
<1> HIDE DEF gone, check, deepest
<1>7. ASSUME NEW i \in DOMAIN gone, i \notin bad
      PROVE  /\ gone[i] \in c \ d /\ ~IsPrimary(vd1, VarOf(gone[i]), ptype)
             /\ deepest < Depth(vd1, VarOf(gone[i]))
    <2>1. gone[i] \in c \ d
        BY <1>1
    <2> QED BY <1>3, <1>4, <1>7, <2>1
<1> HIDE DEF bad
<1>8. last \in 0..Len(gone) /\ \A i \in 1..last : i \in DOMAIN gone /\ i \notin bad
    <2>1. CASE bad = {}
        BY <1>5, <2>1
    <2>2. CASE bad # {}
        <3>0. bad \subseteq Nat
            BY <1>5, <1>6
        <3>1. \E m \in bad : \A n \in bad : m <= n
            BY <2>2, <3>0, LeastNumber
        <3>2. Min(bad) \in bad /\ \A n \in bad : Min(bad) <= n
            BY <3>1 DEF Min
        <3>3. Min(bad) \in 1..Len(gone) /\ last = Min(bad) - 1
            BY <1>6, <2>2, <3>2
        <3> HIDE DEF last
        <3>4. last \in 0..Len(gone) /\ last < Min(bad) /\ Min(bad) \in Nat
            BY <1>5, <3>3
        <3>5. ASSUME NEW i \in 1..last PROVE i \in DOMAIN gone /\ i \notin bad
            <4>1. i \in 1..Len(gone) /\ i < Min(bad)
                BY <1>5, <3>4
            <4>2. i \notin bad
                BY <3>2, <3>4, <4>1
            <4> QED BY <1>5, <4>1, <4>2
        <3> QED BY <3>4, <3>5
    <2> QED BY <2>1, <2>2
<1> HIDE DEF last, stop
<1>9. DOMAIN check.reduced = 1..last /\ \A i \in 1..last : check.reduced[i] = gone[i]
    BY <1>1, <1>2, <1>5, <1>8, SubSeqProperties
<1>10. \A l \in Range(check.reduced) : \E i \in DOMAIN gone : i \notin bad /\ l = gone[i]
    BY <1>8, <1>9 DEF Range
<1> QED BY <1>2, <1>7, <1>10 DEF check, deepest

(* resolve() keeps a secondary literal when a primary literal that it keeps is deeper. *)
LEMMA ResolvedDepths ==
    ASSUME NEW vd, NEW c1, NEW c2, NEW ptype
    PROVE  LET r == Resolve(vd, c1, c2, ptype)
           IN  \A l \in c1 \cup c2 : ~IsPrimary(vd, VarOf(l), ptype) =>
                   (l \in r <=> Depth(vd, VarOf(l)) < MaxDepth(vd, Primaries(vd, r, ptype)))
<1> DEFINE r == Resolve(vd, c1, c2, ptype)
           both == c1 \cup c2
           prim == Primaries(vd, both, ptype)
           kept == UNION {SurvivingPrimaries(c1, c2, v) : v \in VarsOf(prim)}
<1>1. r = kept \cup {l \in both \ prim : Depth(vd, VarOf(l)) < MaxDepth(vd, kept)}
    BY DEF Resolve
<1>2. ASSUME NEW l \in kept PROVE l \in both /\ IsPrimary(vd, VarOf(l), ptype)
    <2>1. PICK v \in VarsOf(prim) : l \in SurvivingPrimaries(c1, c2, v)
        BY <1>2
    <2>2. l \in both /\ VarOf(l) = v
        BY <2>1 DEF SurvivingPrimaries, LitsOn
    <2>3. PICK p \in prim : v = VarOf(p)
        BY <2>1 DEF VarsOf
    <2> QED BY <2>2, <2>3 DEF Primaries
<1> HIDE DEF kept, r
<1>3. \A l \in both : l \in prim <=> IsPrimary(vd, VarOf(l), ptype)
    BY DEF Primaries
<1>4. Primaries(vd, r, ptype) = kept
    BY <1>1, <1>2, <1>3 DEF Primaries
<1> HIDE DEF prim
<1> QED BY <1>1, <1>2, <1>3, <1>4 DEF r

(* Without a second clause it keeps every primary literal. *)
LEMMA PrimariesSurvive ==
    ASSUME NEW vd, NEW c, NEW ptype, NEW l \in c, IsPrimary(vd, VarOf(l), ptype)
    PROVE  l \in Resolve(vd, c, {}, ptype)
<1>1. l \in SurvivingPrimaries(c, {}, VarOf(l))
    BY DEF SurvivingPrimaries, LitsOn
<1>2. VarOf(l) \in VarsOf(Primaries(vd, c \cup {}, ptype))
    BY DEF VarsOf, Primaries
<1> QED BY <1>1, <1>2 DEF Resolve

-----------------------------------------------------------------------------
(* Proofs whose certificate is a strategy.  The check lets more pass than the calculus,
   so two things are assumed of the lines beside those that are assumed already:
   - the literals of a term are variables of the prefix: those of another variable are
     primary for check_reduction(), or secondary of type 0 once it has made an entry for them;
   - what a line loses of its parents it loses from the inside: no literal of the same kind
     that it keeps is behind it, unless a primary one is behind that.
   All of it is about the lines that have been read. *)
TypedAs(id, t) == id \in DOMAIN constraint_type /\ constraint_type[id] = t

TermsOfPrefix ==
    \A i \in DOMAIN input.lines :
        TypedAs(input.lines[i].id, 1) => VarsOf(input.lines[i].lits) \subseteq PrefixVars

OfType(v, t) == v \in PrefixVars /\ PrefixType(v) = t

\* No literal that is kept is behind one that is lost, unless a primary one is behind it.
LostFromInside(lost, kept, t) ==
    \A v \in VarsOf(lost) : \A w \in VarsOf(kept) :
        OfType(v, 1 - t) /\ OfType(w, 1 - t) =>
            \/ PrefixDepth(w) < PrefixDepth(v)
            \/ \E u \in VarsOf(kept) : OfType(u, t) /\ PrefixDepth(w) < PrefixDepth(u)

ReducedFromInside ==
    \A i, j \in DOMAIN input.lines : \A t \in {0, 1} :
        TypedAs(input.lines[i].id, t) /\ input.lines[j].id \in Range(input.lines[i].parents) =>
            LostFromInside(input.lines[j].lits \ input.lines[i].lits, input.lines[i].lits, t)

Ordered == VariablesKnown /\ SpareIdIsFree /\ KindsAgree /\ TermsOfPrefix /\ ReducedFromInside

\* A type is a bit.
BitsInv == \A id \in DOMAIN constraint_type : constraint_type[id] \in {0, 1}

(* Only types that a line has are recorded. *)
LEMMA BitsNext == ControlInv /\ BitsInv /\ [Next]_vars => BitsInv'
<1> SUFFICES ASSUME ControlInv, BitsInv, [Next]_vars PROVE BitsInv'
    OBVIOUS
<1>1. ASSUME ReadingLine PROVE LineTypes \subseteq {0, 1}
    <2>1. line \in Line \cup {ResultLine}
        <3>1. proofLines \in Seq(Line \cup {ResultLine}) /\ next \in Nat /\ next <= Len(proofLines)
              /\ next \in 1..(Len(proofLines) + 1)
            BY <1>1, LinesAreLines, LinesAreCounted DEF ControlInv, ReadingLine
        <3>2. next \in DOMAIN proofLines
            BY <3>1
        <3> QED BY <3>1, <3>2 DEF line
    <2> QED BY <2>1 DEF LineTypes, Line, ResultLine
<1>2. CASE pc \in Before
    BY <1>2, Phases DEF FirstPass, VisitConstraint, NextSink, OpenProof, searchUnchanged,
                        databaseVars, vars, BitsInv
<1>3. CASE pc \notin Before
    BY <1>1, <1>3, TypeStep DEF vars, databaseVars, BitsInv, Put
<1> QED BY <1>2, <1>3

(* What is ordered was so with fewer lines read. *)
LEMMA OrderedBack ==
    ASSUME ControlInv, TypesInv, [Next]_vars, pc \notin Before, Ordered'
    PROVE  Ordered
<1>1. UNCHANGED inputVars /\ UNCHANGED <<input, SpareIdIsFree>>
    BY PremisesStay DEF inputVars
<1>2. VariablesKnown /\ SpareIdIsFree
    BY <1>1, FoundStays DEF Ordered
<1>3. \A id, t : TypedAs(id, t) => TypedAs(id, t)'
    BY TypesStay DEF TypedAs
<1>4. \A v : /\ v \in PrefixVars' <=> v \in PrefixVars
             /\ PrefixDepth(v)' = PrefixDepth(v)
             /\ \A t : OfType(v, t)' <=> OfType(v, t)
    BY <1>1 DEF PrefixVars, PrefixDepth, OfType, PrefixType
<1>5. TermsOfPrefix
    BY <1>1, <1>3, <1>4 DEF Ordered, TermsOfPrefix
<1>6. ReducedFromInside
    <2>1. \A lost, kept, t : LostFromInside(lost, kept, t)' => LostFromInside(lost, kept, t)
        <3> SUFFICES ASSUME NEW lost, NEW kept, NEW t, LostFromInside(lost, kept, t)'
                     PROVE  LostFromInside(lost, kept, t)
            OBVIOUS
        <3> SUFFICES ASSUME NEW v \in VarsOf(lost), NEW w \in VarsOf(kept),
                            OfType(v, 1 - t), OfType(w, 1 - t)
                     PROVE  \/ PrefixDepth(w) < PrefixDepth(v)
                            \/ \E u \in VarsOf(kept) : OfType(u, t) /\ PrefixDepth(w) < PrefixDepth(u)
            BY DEF LostFromInside
        <3>1. OfType(v, 1 - t)' /\ OfType(w, 1 - t)'
            BY <1>4
        <3>2. \/ PrefixDepth(w)' < PrefixDepth(v)'
              \/ \E u \in VarsOf(kept) : OfType(u, t)' /\ PrefixDepth(w)' < PrefixDepth(u)'
            BY <3>1 DEF LostFromInside
        <3>3. PrefixDepth(v)' = PrefixDepth(v) /\ PrefixDepth(w)' = PrefixDepth(w)
            BY <1>4 DEF OfType
        <3>4. \A u : OfType(u, t)' => OfType(u, t) /\ PrefixDepth(u)' = PrefixDepth(u)
            BY <1>4 DEF OfType
        <3> QED BY <3>2, <3>3, <3>4
    <2>2. ReducedFromInside'
        BY DEF Ordered
    <2> QED BY <1>1, <1>3, <2>1, <2>2 DEF ReducedFromInside
<1>7. KindsAgree
    <2>1. ASSUME NEW i \in DOMAIN input.lines, NEW p \in Range(input.lines[i].parents),
                 {input.lines[i].id, p} \subseteq DOMAIN constraint_type
          PROVE  constraint_type[input.lines[i].id] = constraint_type[p]
        <3>1. KindsAgree' /\ i \in DOMAIN input'.lines /\ input'.lines[i] = input.lines[i]
            BY <1>1 DEF Ordered
        <3>2. {input.lines[i].id, p} \subseteq DOMAIN constraint_type'
            BY <2>1, TypesStay
        <3>3. constraint_type'[input.lines[i].id] = constraint_type'[p]
            BY <3>1, <3>2 DEF KindsAgree
        <3> QED BY <2>1, <3>3, TypesStay
    <2> QED BY <2>1 DEF KindsAgree
<1> QED BY <1>2, <1>5, <1>6, <1>7 DEF Ordered

-----------------------------------------------------------------------------
(* What check_reduction() makes of var_data *)

\* The prefix, and entries of variables that are not in it.
IsData(vd) ==
    /\ PrefixVars \subseteq DOMAIN vd
    /\ \A v \in DOMAIN vd : vd[v] = IF v \in PrefixVars THEN ReadPrefix(input.prefix)[v] ELSE DefaultEntry

DataInv == pc # "start" => IsData(var_data)

(* The entries that check_reduction() makes are such entries. *)
LEMMA DataWithDefaults ==
    ASSUME NEW vd, IsData(vd), NEW vs
    PROVE  IsData(WithDefaults(vd, vs))
BY DEF IsData, WithDefaults

(* The prefix is read as it is; an unknown variable is primary for every type, or, once it has
   an entry, for type 0. *)
LEMMA DataType ==
    ASSUME input \in Inputs, NEW vd, IsData(vd)
    PROVE  /\ HasDepths(vd)
           /\ \A v \in PrefixVars : Depth(vd, v) = PrefixDepth(v)
           /\ \A v \in PrefixVars : \A t : IsPrimary(vd, v, t) <=> PrefixType(v) = t
           /\ \A v, t : v \notin PrefixVars /\ ~IsPrimary(vd, v, t) => t # 0
           /\ \A v, t : ~IsPrimary(vd, v, t) => v \in DOMAIN vd
<1>1. \A v \in PrefixVars : /\ v \in DOMAIN vd /\ vd[v] = ReadPrefix(input.prefix)[v]
                            /\ PrefixDepth(v) \in Nat
    BY PrefixIsTyped DEF IsData
<1>2. \A v \in DOMAIN vd : v \notin PrefixVars => vd[v].depth = 0 /\ vd[v].type = 0
    BY DEF IsData, DefaultEntry
<1>3. \A v \in PrefixVars : vd[v].depth = PrefixDepth(v) /\ vd[v].type = PrefixType(v)
    BY <1>1 DEF PrefixDepth, PrefixType
<1>4. HasDepths(vd)
    BY <1>1, <1>2, <1>3 DEF HasDepths
<1>5. \A v \in PrefixVars : Depth(vd, v) = PrefixDepth(v)
    BY <1>1, <1>3 DEF Depth
<1> QED BY <1>1, <1>2, <1>3, <1>4, <1>5 DEF IsPrimary

(* var_data is set by the first pass and extended by check_reduction(), nowhere else. *)
LEMMA DataStep ==
    ASSUME ControlInv, [Next]_vars
    PROVE  /\ UNCHANGED input
           /\ pc' = "start" => pc = "start"
           /\ \/ FirstPass
              \/ pc = "check" /\ CheckReductionStep
              \/ (pc = "start" => pc' = "start") /\ UNCHANGED var_data
<1>1. CASE FirstPass
    <2>1. UNCHANGED input /\ pc = "start"
        BY <1>1 DEF FirstPass
    <2> QED BY <1>1, <2>1
<1>2. CASE VisitConstraint \/ NextSink \/ OpenProof \/ ReadOnAndOn \/ Terminated \/ UNCHANGED vars
    BY <1>2 DEF vars, readVars, inputVars, VisitConstraint, NextSink, OpenProof, SearchDone,
                searchUnchanged, ReadOnAndOn, Terminated
<1> USE DEF readVars, inputVars, stepUnchanged, returnUnchanged
<1>3. CASE ReadingLines
    BY <1>3 DEF ReadingLines, CoreLine, ReadingLine, SkipLine, RecordInternalAxiom,
                RecordInputClause, RecordInitialTerm, ReadReduction, ReadResolution, NextResolution
<1>4. CASE Checking
    <2>1. CASE CheckResolutionStep
        BY <2>1 DEF CheckResolutionStep
    <2>2. CASE CheckReductionStep
        BY <2>2 DEF CheckReductionStep
    <2> QED BY <1>4, <2>1, <2>2 DEF Checking
<1>5. CASE MergingPhases
    BY <1>5 DEF MergingPhases, Merging, SamePhase, CachedPhase, NewPhase, RecordPhase, KnownEflit,
                NewEflit, CopyParentPhases, SplitAndShadow
<1>6. CASE Reducing
    BY <1>6 DEF Reducing, DefineG, AuxGate, ReduceSimple, GLemma, ReduceMerged, PushArrays
<1>7. CASE NotReducing
    BY <1>7 DEF NotReducing, EmitResolvent, Reroute
<1>8. CASE Returning
    BY <1>8 DEF Returning, ReturnReduction, ReturnSafetyReduction, ReturnIntermediate, ReturnFinal,
                ReturnCrash, ReturnFailure
<1>9. CASE Finishing
    BY <1>9 DEF Finishing, EndOfProof, WriteGratProof, CombineFiles
<1> QED BY <1>1, <1>2, <1>3, <1>4, <1>5, <1>6, <1>7, <1>8, <1>9 DEF Next, Translate, Preparing

(* What is read of the prefix stays as it is. *)
LEMMA DataNext == ControlInv /\ DataInv /\ [Next]_vars => DataInv'
<1> SUFFICES ASSUME ControlInv, DataInv, [Next]_vars, pc' # "start" PROVE IsData(var_data)'
    BY DEF DataInv
<1>1. UNCHANGED input
    BY DataStep
<1>2. \A vd : IsData(vd) => IsData(vd)'
    BY <1>1 DEF IsData, PrefixVars
<1>3. CASE FirstPass
    <2>1. var_data' = ReadPrefix(input.prefix) /\ input \in Inputs
        BY <1>3 DEF FirstPass, ControlInv
    <2>2. DOMAIN var_data' = PrefixVars
        BY <2>1, PrefixIsTyped
    <2> QED BY <1>1, <2>1, <2>2 DEF IsData, PrefixVars
<1>4. CASE CheckReductionStep
    <2>1. PICK ctype : var_data' = CheckReduction(var_data, Clause(left), Clause(res), ctype).var_data
        BY <1>4 DEF CheckReductionStep
    <2>2. \E vs : var_data' = WithDefaults(var_data, vs)
        BY <2>1 DEF CheckReduction
    <2>3. IsData(var_data)
        BY <1>4 DEF DataInv, CheckReductionStep
    <2>4. \E vd : vd = var_data' /\ IsData(vd)
        BY <2>2, <2>3, DataWithDefaults
    <2>5. \E vd : vd = var_data' /\ IsData(vd)'
        BY <1>2, <2>4
    <2> QED BY <1>1, <2>4 DEF IsData, PrefixVars
<1>5. CASE pc # "start" /\ UNCHANGED var_data
    BY <1>1, <1>5 DEF DataInv, IsData, PrefixVars
<1> QED BY <1>3, <1>4, <1>5, DataStep

-----------------------------------------------------------------------------
(* The clauses that the translator makes itself, when they are checked *)

MiddleInv ==
    Translating /\ pc = "check" =>
        /\ right # 0 /\ ~LastOfChain =>
               Clause(res) = Resolve(var_data, Clause(left), Clause(right), constraint_type[right])
        /\ right = 0 /\ line.parents = <<>> =>
               Clause(res) = Resolve(var_data, Clause(left), {}, constraint_type[line.id])

(* They are made by resolve() just before the check. *)
LEMMA MiddleNext ==
    ForgetInv /\ RightParent /\ MiddleInv /\ [Next]_vars => MiddleInv'
<1> SUFFICES ASSUME ForgetInv, RightParent, MiddleInv, [Next]_vars, Translating', pc' = "check"
             PROVE  MiddleInv'
    BY DEF MiddleInv
<1>1. /\ Translating /\ pc \notin Before \cup {"end"} /\ ControlInv /\ ClauseInv /\ SinksInv
      /\ UNCHANGED <<input, sinks_of, spare_id, proofLines>> /\ pc' \in InLine
    BY LineCourse DEF ForgetInv, CountedInv, ReadInv, InLine
<1>2. CASE UNCHANGED vars
    <2>1. UNCHANGED <<input, next, pc, chain, call, clause_database, constraint_type, var_data>>
        BY <1>2 DEF vars, readVars, inputVars, databaseVars
    <2>2. UNCHANGED <<line, left, right, res>> /\ (LastOfChain' <=> LastOfChain)
        BY <2>1, LinesStay DEF line, left, right, res, LastOfChain, parents_right
    <2>3. Clause(res)' = Clause(res) /\ Clause(left)' = Clause(left) /\ Clause(right)' = Clause(right)
        BY <2>1, <2>2 DEF Clause
    <2> QED BY <1>1, <2>1, <2>2, <2>3 DEF MiddleInv
<1>3. CASE RecordInitialTerm
    <2>1. PICK ctype :
              /\ constraint_type' = Put(constraint_type, line.id, ctype)
              /\ clause_database' = Put(Put(clause_database, line.id, LineClause(ctype)), spare_id,
                                        Resolve(var_data, LineClause(ctype), {}, ctype))
        BY <1>3 DEF RecordInitialTerm, RecordType
    <2>2. /\ UNCHANGED <<next, line, var_data>> /\ res' = spare_id /\ left' = line.id /\ right' = 0
          /\ ReadingLine
        <3>1. UNCHANGED <<next, var_data>> /\ res' = spare_id /\ left' = line.id /\ right' = 0
              /\ ReadingLine
            BY <1>3 DEF RecordInitialTerm, left, right, res, CoreLine
        <3> QED BY <1>1, <3>1 DEF line
    <2>3. line.id # spare_id
        <3>1. line.id \in DOMAIN last_use_of
            BY <1>3 DEF RecordInitialTerm, CoreLine
        <3>2. line.id \in DOMAIN sinks_of
            BY <1>1, <2>2, <3>1, ReadLineInCore DEF ForgetInv
        <3> QED BY <1>1, <3>2, CoreSpare DEF ForgetInv
    <2>4. Clause(left)' = LineClause(ctype) /\ constraint_type'[line.id] = ctype
        BY <2>1, <2>2, <2>3 DEF Clause, Put
    <2>5. Clause(res)' = Resolve(var_data, LineClause(ctype), {}, ctype)
        BY <2>1, <2>2 DEF Clause, Put
    <2> QED BY <2>2, <2>4, <2>5 DEF MiddleInv
<1>4. CASE ReadReduction
    <2>1. right' = 0 /\ line.parents # <<>> /\ UNCHANGED <<next, line>>
        <3>1. UNCHANGED next /\ Len(line.parents) = 1 /\ right' = 0
            BY <1>4 DEF ReadReduction, CoreLine, right
        <3>2. line.parents # <<>>
            BY <3>1, NoneIsSeq
        <3> QED BY <1>1, <3>1, <3>2 DEF line
    <2> QED BY <2>1 DEF MiddleInv
<1>5. CASE NextResolution
    <2> DEFINE parent == parents_right[chain.i + 1]
    <2>1. /\ pc = "chain" /\ left' = chain.left /\ right' = parent
          /\ res' = IF LastOfChain THEN line.id ELSE spare_id + chain.spare
          /\ UNCHANGED <<phase, get_grat_id, next, var_data, constraint_type>>
          /\ IF LastOfChain THEN UNCHANGED <<clause_database, chain>>
             ELSE clause_database' = Put(clause_database, spare_id + chain.spare,
                      Resolve(var_data, Clause(chain.left), Clause(parent), constraint_type[parent]))
        BY <1>5 DEF NextResolution, left, right, res, phaseVars, phaseMaps, readVars
    <2> HIDE DEF parent
    <2>2. line.parents # <<>> /\ chain.left # spare_id + chain.spare
        BY <1>1, <2>1, ChainLeft
    <2>3. UNCHANGED line /\ UNCHANGED parents_right
        BY <1>1, <2>1 DEF line, parents_right
    <2>4. PICK id : id = chain.left /\ Keeps(id)
        BY <2>1, <2>2, OthersKeep
    <2>5. Clause(id)' = Clause(id)
        BY <2>4 DEF Keeps
    <2>6. Clause(left)' = Clause(chain.left)
        BY <2>1, <2>4, <2>5
    <2>7. \A p \in Range(line.parents) : Clause(p)' = Clause(p)
        BY <1>1, <2>1, <2>3, ParentsStay DEF InLine
    <2>8. ASSUME right' # 0, ~LastOfChain'
          PROVE  Clause(res)' = Resolve(var_data, Clause(left), Clause(right), constraint_type[right])'
        <3>1. ~LastOfChain
            <4> SUFFICES ASSUME LastOfChain PROVE LastOfChain'
                BY <2>8
            <4>1. UNCHANGED chain
                BY <2>1
            <4> QED BY <2>3, <4>1 DEF LastOfChain
        <3>2. right' \in Range(line.parents)'
            BY <1>1, <2>8, RightParentNext DEF RightParent, InLine
        <3>3. \E p : p = parent /\ Clause(p)' = Clause(p)
            BY <2>1, <2>3, <2>7, <3>2
        <3>4. Clause(right)' = Clause(parent)
            BY <2>1, <3>3
        <3>5. Clause(res)' = Resolve(var_data, Clause(chain.left), Clause(parent), constraint_type[parent])
            BY <2>1, <3>1 DEF Clause, Put
        <3> QED BY <2>1, <2>6, <3>4, <3>5
    <2> QED BY <2>2, <2>3, <2>8 DEF MiddleInv
<1>6. CASE ReadResolution \/ ReturnIntermediate
    BY <1>6 DEF ReadResolution, ReturnIntermediate
<1>7. CASE Checking \/ MergingPhases \/ Reducing \/ NotReducing
    BY <1>7, StepFrame
<1> QED BY <1>1, <1>2, <1>3, <1>4, <1>5, <1>6, <1>7, LineCourse

-----------------------------------------------------------------------------
(* The literals of the line in work and of its parents *)

\* They are of the prefix.
InPrefix(lits) == VarsOf(lits) \subseteq PrefixVars

(* A clause and its negation have the same variables. *)
LEMMA NegatedVars ==
    ASSUME NEW c, IsLiteralSet(c)
    PROVE  VarsOf(Negated(c)) = VarsOf(c)
BY DEF VarsOf, Negated, VarOf, IsLiteralSet

(* The clause that is made of a line has the variables of the line. *)
LEMMA LineVars ==
    ASSUME input \in Inputs, NEW j \in DOMAIN proofLines
    PROVE  VarsOf(LineLits(j)) = VarsOf(proofLines[j].lits)
BY LinesAreLines, NegatedVars DEF LineLits

(* The line in work is of the kind of its parents. *)
LEMMA WorkTypes ==
    ASSUME LookupInv, Translating, pc \in InLine, KindsAgree
    PROVE  /\ line.id \in DOMAIN constraint_type
           /\ \A p \in Range(line.parents) :
                  p \in DOMAIN constraint_type /\ constraint_type[p] = constraint_type[line.id]
<1>1. /\ ControlInv /\ ForgetInv /\ TypesInv /\ input \in Inputs /\ pc \notin Before \cup {"end"}
    BY DEF LookupInv, MapInv, ControlInv, Translating
<1>2. next \in DOMAIN proofLines /\ next \in Nat /\ DOMAIN proofLines \subseteq Nat
    BY <1>1, LineInWork
<1>3. line.id \in DOMAIN constraint_type
    <2>1. line.id \in IdsRead
        BY <1>2 DEF IdsRead, ReadCount, line
    <2> QED BY <1>1, <2>1 DEF TypesInv
<1>4. ASSUME NEW p \in Range(line.parents)
      PROVE  p \in DOMAIN constraint_type /\ constraint_type[p] = constraint_type[line.id]
    <2>1. PICK j \in DOMAIN input.lines \cap DOMAIN proofLines :
              j < next /\ proofLines[j] = input.lines[j] /\ proofLines[j].id = p
        BY <1>1, ParentLine
    <2>2. next \in DOMAIN input.lines /\ line = input.lines[next]
        BY <1>1, ParentLine
    <2>3. p \in IdsRead
        BY <1>2, <2>1 DEF IdsRead, ReadCount
    <2>4. p \in DOMAIN constraint_type
        BY <1>1, <2>3 DEF TypesInv
    <2> QED BY <1>3, <2>2, <2>4 DEF KindsAgree
<1> QED BY <1>3, <1>4

(* What is lost of a parent is lost from the literals of the two lines, and what is kept is a
   literal of the line in work. *)
LEMMA WorkLits ==
    ASSUME LookupInv, Translating, pc \in InLine, KindsAgree, line.parents # <<>>,
           NEW l \in ParentLits, NEW c, c \subseteq Clause(line.id), l \notin Clause(line.id)
    PROVE  \E j \in DOMAIN input.lines :
               /\ next \in DOMAIN input.lines /\ input.lines[next].id = line.id
               /\ input.lines[j].id \in Range(input.lines[next].parents)
               /\ VarOf(l) \in VarsOf(input.lines[j].lits \ input.lines[next].lits)
               /\ VarsOf(c) \subseteq VarsOf(input.lines[next].lits)
               /\ VarsOf(Clause(line.id)) = VarsOf(input.lines[next].lits)
<1>1. /\ ControlInv /\ ForgetInv /\ TypesInv /\ StoredInv /\ WorkStored /\ input \in Inputs
      /\ pc \notin Before \cup {"end"}
    BY DEF LookupInv, MapInv, ControlInv, Translating
<1>2. PICK p \in Range(line.parents) : l \in Clause(p)
    BY DEF ParentLits
<1>3. PICK j \in DOMAIN input.lines \cap DOMAIN proofLines :
          j < next /\ proofLines[j] = input.lines[j] /\ proofLines[j].id = p
    BY <1>1, <1>2, ParentLine
<1>4. /\ next \in DOMAIN input.lines /\ next \in DOMAIN proofLines /\ line = input.lines[next]
      /\ p \in DOMAIN sinks_of
    BY <1>1, <1>2, ParentLine
<1>5. p \in DOMAIN sinks_of \cap DOMAIN clause_database
    BY <1>2, <1>4 DEF Clause
<1>6. l \in LineLits(j) /\ Clause(line.id) = LineLits(next)
    BY <1>1, <1>2, <1>3, <1>5 DEF StoredInv, IsStored, WorkStored
<1>7. constraint_type[p] = constraint_type[line.id]
    BY <1>1, <1>2, WorkTypes
<1>8. IsLiteralSet(line.lits) /\ IsLiteralSet(proofLines[j].lits)
    BY <1>1, <1>4, LinesAreLines DEF line
<1>9. VarOf(l) \in VarsOf(proofLines[j].lits \ line.lits)
    <2>1. CASE constraint_type[p] # 1
        <3>1. l \in proofLines[j].lits \ line.lits
            BY <1>3, <1>6, <1>7, <2>1 DEF LineLits, line
        <3> QED BY <3>1 DEF VarsOf
    <2>2. CASE constraint_type[p] = 1
        <3>1. l \in Negated(proofLines[j].lits) /\ l \notin Negated(line.lits)
            BY <1>3, <1>6, <1>7, <2>2 DEF LineLits, line
        <3>2. PICK a \in proofLines[j].lits : l = -a
            BY <3>1 DEF Negated
        <3>3. a \notin line.lits
            BY <3>1, <3>2 DEF Negated
        <3>4. a \in Int /\ VarOf(a) = VarOf(l)
            BY <1>8, <3>2 DEF IsLiteralSet, VarOf
        <3> QED BY <3>2, <3>3, <3>4 DEF VarsOf
    <2> QED BY <2>1, <2>2
<1>10. VarsOf(Clause(line.id)) = VarsOf(line.lits)
    BY <1>1, <1>4, <1>6, LineVars DEF line
<1>11. VarsOf(c) \subseteq VarsOf(line.lits)
    BY <1>10 DEF VarsOf
<1> QED BY <1>2, <1>3, <1>4, <1>9, <1>10, <1>11

(* In the work on a term every literal is one of the prefix. *)
LEMMA WorkVars ==
    ASSUME LookupInv, Translating, pc \in InLine, KindsAgree, TermsOfPrefix,
           constraint_type[line.id] = 1
    PROVE  InPrefix(ParentLits) /\ InPrefix(Clause(line.id))
<1>1. /\ ControlInv /\ ForgetInv /\ TypesInv /\ StoredInv /\ WorkStored /\ input \in Inputs
      /\ pc \notin Before \cup {"end"}
    BY DEF LookupInv, MapInv, ControlInv, Translating
<1>2. next \in DOMAIN proofLines
    BY <1>1, LineInWork
<1>3. line.id \in DOMAIN constraint_type
    BY WorkTypes
<1>4. InPrefix(Clause(line.id))
    <2>1. VarsOf(Clause(line.id)) = VarsOf(proofLines[next].lits)
        BY <1>1, <1>2, LineVars DEF WorkStored
    <2>2. CASE next \in DOMAIN input.lines /\ proofLines[next] = input.lines[next]
        BY <1>3, <2>1, <2>2 DEF TermsOfPrefix, TypedAs, line, InPrefix
    <2>3. CASE proofLines[next] = ResultLine
        BY <2>1, <2>3 DEF ResultLine, VarsOf, InPrefix
    <2> QED BY <1>1, <1>2, <2>2, <2>3, LinesRead
<1>5. ASSUME NEW p \in Range(line.parents) PROVE InPrefix(Clause(p))
    <2>1. PICK j \in DOMAIN input.lines \cap DOMAIN proofLines :
              j < next /\ proofLines[j] = input.lines[j] /\ proofLines[j].id = p
        BY <1>1, <1>5, ParentLine
    <2>2. TypedAs(input.lines[j].id, 1)
        BY <1>5, <2>1, WorkTypes DEF TypedAs
    <2>3. p \in DOMAIN sinks_of
        BY <1>1, <1>5, ParentLine
    <2>4. Clause(p) \subseteq LineLits(j)
        BY <1>1, <2>1, <2>3 DEF StoredInv, IsStored, Clause
    <2>5. VarsOf(LineLits(j)) = VarsOf(input.lines[j].lits)
        BY <1>1, <2>1, LineVars
    <2> QED BY <2>1, <2>2, <2>4, <2>5 DEF TermsOfPrefix, VarsOf, InPrefix
<1> QED BY <1>4, <1>5 DEF ParentLits, VarsOf, InPrefix

-----------------------------------------------------------------------------
(* What is reduced is behind all that is left *)

InFront(v, w) == PrefixDepth(v) < PrefixDepth(w)

\* Every literal of the prefix in c is in front of v.
AllInFront(c, v) == \A m \in c : VarOf(m) \in PrefixVars => InFront(VarOf(m), v)

\* The secondary literals that are not in front of v are in front of a primary one.
Excused(c, v, t, deepest) ==
    \A m \in c : OfType(VarOf(m), 1 - t) => InFront(VarOf(m), v) \/ PrefixDepth(VarOf(m)) < deepest

(* What is not of the one type is of the other. *)
LEMMA TypesAreBits ==
    ASSUME input \in Inputs, NEW v \in PrefixVars, NEW t \in {0, 1}
    PROVE  PrefixType(v) # t <=> OfType(v, 1 - t)
<1>1. PrefixType(v) \in {0, 1}
    BY PrefixIsTyped
<1>2. CASE t = 0
    BY <1>1, <1>2 DEF OfType
<1>3. CASE t = 1
    BY <1>1, <1>3 DEF OfType
<1> QED BY <1>2, <1>3

(* A secondary literal at least as deep as the primary ones is behind them: blocks of one
   depth are of one type. *)
LEMMA BehindPrimaries ==
    ASSUME input \in Inputs, NEW vd, IsData(vd), NEW t \in {0, 1}, NEW c, IsLiteralSet(c),
           NEW v, OfType(v, 1 - t),
           NEW deepest, deepest = MaxDepth(vd, Primaries(vd, c, t)),
           deepest <= PrefixDepth(v), Excused(c, v, t, deepest)
    PROVE  AllInFront(c, v)
<1> SUFFICES ASSUME NEW m \in c, VarOf(m) \in PrefixVars
             PROVE  PrefixDepth(VarOf(m)) < PrefixDepth(v)
    BY DEF AllInFront, InFront
<1> DEFINE w == VarOf(m)
<1>1. v \in PrefixVars /\ PrefixType(v) = 1 - t
    BY DEF OfType
<1>2. /\ PrefixDepth(v) \in Nat /\ PrefixDepth(w) \in Nat
      /\ PrefixDepth(v) = PrefixDepth(w) => PrefixType(v) = PrefixType(w)
    BY <1>1, PrefixIsTyped
<1>3. HasDepths(vd) /\ Depth(vd, w) = PrefixDepth(w) /\ (IsPrimary(vd, w, t) <=> PrefixType(w) = t)
    BY DataType
<1>4. IsFiniteSet(Primaries(vd, c, t))
    BY LiteralSubset DEF Primaries, IsLiteralSet
<1>5. deepest \in Nat
    BY <1>3, <1>4, DeepestLiteral
<1>6. CASE PrefixType(w) = t
    <2>1. m \in Primaries(vd, c, t)
        BY <1>3, <1>6 DEF Primaries
    <2>2. PrefixDepth(w) <= deepest
        BY <1>3, <1>4, <2>1, DeepestLiteral
    <2>3. PrefixDepth(v) # PrefixDepth(w)
        BY <1>1, <1>2, <1>6
    <2> QED BY <1>2, <1>5, <2>2, <2>3
<1>7. CASE PrefixType(w) # t
    <2>1. OfType(w, 1 - t)
        BY <1>7, TypesAreBits
    <2>2. PrefixDepth(w) < PrefixDepth(v) \/ PrefixDepth(w) < deepest
        BY <2>1 DEF Excused, InFront
    <2> QED BY <1>2, <1>5, <2>2
<1> QED BY <1>6, <1>7

(* A secondary literal is one of the prefix, if the clause is. *)
LEMMA SecondaryType ==
    ASSUME input \in Inputs, NEW vd, IsData(vd), NEW t \in {0, 1}, NEW v,
           ~IsPrimary(vd, v, t), t = 1 => v \in PrefixVars
    PROVE  OfType(v, 1 - t) /\ Depth(vd, v) = PrefixDepth(v)
<1>1. v \in PrefixVars
    BY DataType
<1> QED BY <1>1, DataType, TypesAreBits

(* Of what a line has lost of its parents, what it keeps is excused. *)
LEMMA FinalExcused ==
    ASSUME LookupInv, Translating, Ordered, pc \in InLine, line.parents # <<>>,
           NEW t \in {0, 1}, t = constraint_type[line.id], NEW vd, IsData(vd),
           NEW l \in ParentLits, l \notin Clause(line.id), OfType(VarOf(l), 1 - t),
           NEW deepest, deepest = MaxDepth(vd, Primaries(vd, Clause(line.id), t))
    PROVE  Excused(Clause(line.id), VarOf(l), t, deepest)
<1>1. input \in Inputs /\ ClauseInv
    BY DEF LookupInv, MapInv, ControlInv
<1> DEFINE c == Clause(line.id)
           kept == input.lines[next].lits
<1>2. PICK j \in DOMAIN input.lines :
          /\ next \in DOMAIN input.lines /\ input.lines[next].id = line.id
          /\ input.lines[j].id \in Range(input.lines[next].parents)
          /\ VarOf(l) \in VarsOf(input.lines[j].lits \ kept)
          /\ VarsOf(c) = VarsOf(kept)
    BY WorkLits DEF Ordered
<1>3. TypedAs(input.lines[next].id, t)
    BY <1>2, WorkTypes DEF TypedAs, Ordered
<1>4. LostFromInside(input.lines[j].lits \ kept, kept, t)
    BY <1>2, <1>3 DEF Ordered, ReducedFromInside
<1> HIDE DEF kept
<1> SUFFICES ASSUME NEW m \in c, OfType(VarOf(m), 1 - t)
             PROVE  PrefixDepth(VarOf(m)) < PrefixDepth(VarOf(l)) \/ PrefixDepth(VarOf(m)) < deepest
    BY DEF Excused, InFront
<1>5. VarOf(m) \in VarsOf(kept)
    BY <1>2 DEF VarsOf
<1>6. CASE PrefixDepth(VarOf(m)) < PrefixDepth(VarOf(l))
    BY <1>6
<1>7. CASE ~(PrefixDepth(VarOf(m)) < PrefixDepth(VarOf(l)))
    <2>1. PICK u \in VarsOf(kept) : OfType(u, t) /\ PrefixDepth(VarOf(m)) < PrefixDepth(u)
        BY <1>2, <1>4, <1>5, <1>7 DEF LostFromInside
    <2>2. PICK k \in c : u = VarOf(k)
        BY <1>2, <2>1 DEF VarsOf
    <2>3. u \in PrefixVars /\ PrefixType(u) = t /\ VarOf(m) \in PrefixVars
        BY <2>1 DEF OfType
    <2>4. HasDepths(vd) /\ Depth(vd, u) = PrefixDepth(u) /\ IsPrimary(vd, u, t)
        BY <1>1, <2>3, DataType
    <2>5. k \in Primaries(vd, c, t)
        BY <2>2, <2>4 DEF Primaries
    <2>6. IsFiniteSet(Primaries(vd, c, t))
        <3>1. IsLiteralSet(c)
            BY <1>1, ClauseType
        <3> QED BY <3>1, LiteralSubset DEF Primaries, IsLiteralSet
    <2>7. deepest \in Nat /\ PrefixDepth(u) <= deepest
        BY <2>2, <2>4, <2>5, <2>6, DeepestLiteral
    <2>8. PrefixDepth(u) \in Nat /\ PrefixDepth(VarOf(m)) \in Nat
        BY <1>1, <2>3, PrefixIsTyped
    <2> QED BY <2>1, <2>7, <2>8
<1> QED BY <1>6, <1>7

-----------------------------------------------------------------------------
(* What the checks pass on *)

\* A merged literal is behind the pivot.
IsMerged(l, pivot) ==
    /\ VarOf(l) \in PrefixVars
    /\ VarOf(pivot) \in PrefixVars => InFront(VarOf(pivot), VarOf(l))

\* A reduced one is behind all that is left.
IsInside(l) == VarOf(l) \in PrefixVars /\ AllInFront(Clause(res), VarOf(l))

(* The type of the line in work, and what it says of the variables. *)
LEMMA WorkBit ==
    ASSUME LookupInv, BitsInv, Translating, Ordered, pc \in InLine
    PROVE  /\ constraint_type[line.id] \in {0, 1}
           /\ constraint_type[line.id] = 1 => InPrefix(ParentLits) /\ InPrefix(Clause(line.id))
BY WorkTypes, WorkVars DEF BitsInv, Ordered

(* check_resolution() collects merged literals behind the pivot, and reduced ones behind
   all that is left. *)
LEMMA ResolutionInside ==
    ASSUME LookupInv, BitsInv, DataInv, MiddleInv, Translating, Ordered, pc = "check", right # 0,
           NEW check, check = CheckResolution(var_data, Clause(left), Clause(right), Clause(res),
                                              constraint_type[right]),
           check.pivot # 0
    PROVE  /\ \A l \in Range(check.merged) : IsMerged(l, check.pivot)
           /\ \A l \in Range(check.reduced) : IsInside(l)
<1> DEFINE t == constraint_type[line.id]
           c == Clause(res)
           deepest == MaxDepth(var_data, Primaries(var_data, c, t))
<1>1. /\ input \in Inputs /\ ClauseInv /\ ForgetInv /\ CallLits /\ RightParent
      /\ pc \in InLine \ {"chain"} /\ IsData(var_data)
    BY DEF LookupInv, MapInv, ControlInv, InLine, DataInv
<1>2. right \in Range(line.parents) /\ line.parents # <<>>
    BY <1>1 DEF RightParent, ForgetInv, CallShape
<1>3. constraint_type[right] = t /\ t \in {0, 1} /\ (t = 1 => InPrefix(ParentLits))
    BY <1>1, <1>2, WorkTypes, WorkBit DEF Ordered
<1>4. Clause(left) \cup Clause(right) \subseteq ParentLits
    BY <1>1, <1>2 DEF CallLits, ParentLits
<1>5. IsLiteralSet(Clause(left)) /\ IsLiteralSet(Clause(right)) /\ IsLiteralSet(c)
    BY <1>1, ClauseType
<1>6. HasDepths(var_data)
    BY <1>1, DataType
<1> HIDE DEF t, c
<1>7. /\ check.pivot \in Clause(left) /\ IsPrimary(var_data, VarOf(check.pivot), t)
      /\ \A l \in Range(check.merged) :
             /\ l \in Clause(left) /\ ~IsPrimary(var_data, VarOf(l), t)
             /\ Depth(var_data, VarOf(check.pivot)) <= Depth(var_data, VarOf(l))
      /\ \A l \in Range(check.reduced) :
             /\ l \in (Clause(left) \cup Clause(right)) \ c /\ ~IsPrimary(var_data, VarOf(l), t)
             /\ deepest <= Depth(var_data, VarOf(l))
    BY <1>3, <1>5, <1>6, CheckedDepths DEF c
<1>8. ASSUME NEW l \in ParentLits, ~IsPrimary(var_data, VarOf(l), t)
      PROVE  /\ OfType(VarOf(l), 1 - t) /\ Depth(var_data, VarOf(l)) = PrefixDepth(VarOf(l))
             /\ VarOf(l) \in PrefixVars /\ PrefixType(VarOf(l)) # t
    <2>1. t = 1 => VarOf(l) \in PrefixVars
        BY <1>3 DEF InPrefix, VarsOf
    <2>2. OfType(VarOf(l), 1 - t) /\ Depth(var_data, VarOf(l)) = PrefixDepth(VarOf(l))
        BY <1>1, <1>3, <1>8, <2>1, SecondaryType
    <2> QED BY <1>1, <1>3, <2>2, TypesAreBits DEF OfType
<1>9. ASSUME NEW l \in Range(check.merged) PROVE IsMerged(l, check.pivot)
    <2> DEFINE v == VarOf(l)
               w == VarOf(check.pivot)
    <2>1. v \in PrefixVars /\ PrefixType(v) # t /\ Depth(var_data, v) = PrefixDepth(v)
        BY <1>4, <1>7, <1>8
    <2>2. ASSUME w \in PrefixVars PROVE PrefixDepth(w) < PrefixDepth(v)
        <3>1. Depth(var_data, w) = PrefixDepth(w) /\ PrefixType(w) = t
            BY <1>1, <1>7, <2>2, DataType
        <3>2. PrefixDepth(w) <= PrefixDepth(v)
            BY <1>7, <2>1, <3>1
        <3>3. /\ PrefixDepth(v) \in Nat /\ PrefixDepth(w) \in Nat
              /\ PrefixDepth(v) = PrefixDepth(w) => PrefixType(v) = PrefixType(w)
            BY <1>1, <2>1, <2>2, PrefixIsTyped
        <3> HIDE DEF v, w
        <3> QED BY <2>1, <3>1, <3>2, <3>3
    <2> QED BY <2>1, <2>2 DEF IsMerged, InFront
<1>10. ASSUME NEW l \in Range(check.reduced) PROVE IsInside(l)
    <2>1. /\ OfType(VarOf(l), 1 - t) /\ VarOf(l) \in PrefixVars /\ deepest <= PrefixDepth(VarOf(l))
          /\ l \in ParentLits /\ l \notin c
        BY <1>4, <1>7, <1>8
    <2>2. Excused(c, VarOf(l), t, deepest)
        <3>1. CASE LastOfChain
            <4>1. res = line.id
                BY <1>1, <3>1 DEF ForgetInv, CallShape
            <4> QED BY <1>1, <1>2, <1>3, <2>1, <4>1, FinalExcused DEF c, t
        <3>2. CASE ~LastOfChain
            <4>1. c = Resolve(var_data, Clause(left), Clause(right), t)
                BY <1>3, <3>2 DEF MiddleInv, c
            <4>2. \A m \in c : IsPrimary(var_data, VarOf(m), t) \/ Depth(var_data, VarOf(m)) < deepest
                BY <4>1, ResolvedDepths, ResolveSubset
            <4> SUFFICES ASSUME NEW m \in c, OfType(VarOf(m), 1 - t)
                         PROVE  PrefixDepth(VarOf(m)) < deepest
                BY DEF Excused
            <4>3. VarOf(m) \in PrefixVars /\ PrefixType(VarOf(m)) # t
                BY <1>1, <1>3, TypesAreBits DEF OfType
            <4>4. /\ Depth(var_data, VarOf(m)) = PrefixDepth(VarOf(m))
                  /\ ~IsPrimary(var_data, VarOf(m), t)
                BY <1>1, <4>3, DataType
            <4> QED BY <4>2, <4>4
        <3> QED BY <3>1, <3>2
    <2>3. AllInFront(c, VarOf(l))
        BY <1>1, <1>3, <1>5, <2>1, <2>2, BehindPrimaries
    <2> QED BY <2>1, <2>3 DEF IsInside, c
<1> QED BY <1>9, <1>10

(* check_reduction() collects literals behind all that is left, also of an initial term,
   whose type it reads beyond the end of constraint_type. *)
LEMMA ReductionInside ==
    ASSUME LookupInv, BitsInv, DataInv, MiddleInv, Translating, Ordered, pc = "check", right = 0,
           NEW ctype \in StoredTypes(res),
           NEW check, check = CheckReduction(var_data, Clause(left), Clause(res), ctype)
    PROVE  \A l \in Range(check.reduced) : IsInside(l)
<1> DEFINE t == constraint_type[line.id]
           c == Clause(res)
           d == Clause(left)
           vd1 == WithDefaults(var_data, VarsOf(d \cup c))
<1>1. /\ input \in Inputs /\ ClauseInv /\ ForgetInv /\ CallLits /\ WorkStored
      /\ pc \in InLine \ {"chain"} /\ IsData(var_data)
    BY DEF LookupInv, MapInv, ControlInv, InLine, DataInv
<1>2. t \in {0, 1} /\ ctype \in {0, 1} /\ line.id \in DOMAIN constraint_type
    <2>1. t \in {0, 1}
        BY <1>1, WorkBit
    <2>2. line.id \in DOMAIN constraint_type
        BY <1>1, WorkTypes DEF Ordered
    <2>3. ctype \in {0, 1}
        BY InputAssumption DEF StoredTypes, BitsInv
    <2> QED BY <2>1, <2>2, <2>3
<1>3. t = 1 => InPrefix(ParentLits) /\ InPrefix(Clause(line.id))
    BY <1>1, WorkBit
<1>4. IsLiteralSet(c) /\ IsLiteralSet(d)
    BY <1>1, ClauseType
<1>5. IsData(vd1) /\ HasDepths(vd1) /\ HasDepths(var_data)
    BY <1>1, DataWithDefaults, DataType
<1>6. \A l \in Range(check.reduced) :
          /\ l \in d \ c /\ ~IsPrimary(vd1, VarOf(l), ctype)
          /\ MaxDepth(vd1, Primaries(vd1, c, ctype)) < Depth(vd1, VarOf(l))
    BY <1>4, <1>5, CollectedDepths
<1> HIDE DEF t, c, d, vd1
<1> SUFFICES ASSUME NEW l \in Range(check.reduced) PROVE IsInside(l)
    OBVIOUS
<1>7. l \in d \ c /\ ~IsPrimary(vd1, VarOf(l), ctype)
      /\ MaxDepth(vd1, Primaries(vd1, c, ctype)) < Depth(vd1, VarOf(l))
    BY <1>6
<1>8. CASE line.parents # <<>>
    <2>1. res = line.id /\ ctype = t
        BY <1>1, <1>2, <1>8 DEF ForgetInv, CallShape, StoredTypes, t
    <2>2. l \in ParentLits /\ l \notin Clause(line.id)
        BY <1>1, <1>7, <1>8, <2>1 DEF CallLits, c, d
    <2>3. t = 1 => VarOf(l) \in PrefixVars
        BY <1>3, <2>2 DEF InPrefix, VarsOf
    <2>4. OfType(VarOf(l), 1 - t) /\ Depth(vd1, VarOf(l)) = PrefixDepth(VarOf(l))
        BY <1>1, <1>2, <1>5, <1>7, <2>1, <2>3, SecondaryType
    <2> DEFINE deepest == MaxDepth(vd1, Primaries(vd1, c, t))
    <2>5. deepest < PrefixDepth(VarOf(l)) /\ VarOf(l) \in PrefixVars
        BY <1>7, <2>1, <2>4 DEF OfType
    <2>6. deepest <= PrefixDepth(VarOf(l))
        <3>1. IsFiniteSet(Primaries(vd1, c, t))
            BY <1>4, LiteralSubset DEF Primaries, IsLiteralSet
        <3>2. deepest \in Nat /\ PrefixDepth(VarOf(l)) \in Nat
            BY <1>1, <1>5, <2>5, <3>1, DeepestLiteral, PrefixIsTyped
        <3> HIDE DEF deepest
        <3> QED BY <2>5, <3>2
    <2>7. Excused(c, VarOf(l), t, deepest)
        BY <1>1, <1>2, <1>5, <1>8, <2>1, <2>2, <2>4, FinalExcused DEF c, t
    <2>8. AllInFront(c, VarOf(l))
        BY <1>1, <1>2, <1>4, <1>5, <2>4, <2>6, <2>7, BehindPrimaries
    <2> QED BY <2>5, <2>8 DEF IsInside, c
<1>9. CASE line.parents = <<>>
    <2>1. left = line.id
        BY <1>1, <1>9 DEF ForgetInv, CallShape
    <2>2. c = Resolve(var_data, d, {}, t)
        BY <1>9 DEF MiddleInv, c, d, t
    <2>3. ~IsPrimary(var_data, VarOf(l), t)
        BY <1>7, <2>2, PrimariesSurvive
    <2>4. t = 1 => VarOf(l) \in PrefixVars
        BY <1>3, <1>7, <2>1 DEF InPrefix, VarsOf, d
    <2>5. OfType(VarOf(l), 1 - t) /\ Depth(var_data, VarOf(l)) = PrefixDepth(VarOf(l))
        BY <1>1, <1>2, <2>3, <2>4, SecondaryType
    <2> DEFINE deepest == MaxDepth(var_data, Primaries(var_data, c, t))
    <2>6. ~(PrefixDepth(VarOf(l)) < deepest) /\ VarOf(l) \in PrefixVars
        BY <1>7, <2>2, <2>3, <2>5, ResolvedDepths DEF OfType
    <2>7. deepest <= PrefixDepth(VarOf(l))
        <3>1. IsFiniteSet(Primaries(var_data, c, t))
            BY <1>4, LiteralSubset DEF Primaries, IsLiteralSet
        <3>2. deepest \in Nat /\ PrefixDepth(VarOf(l)) \in Nat
            BY <1>1, <1>5, <2>6, <3>1, DeepestLiteral, PrefixIsTyped
        <3> HIDE DEF deepest
        <3> QED BY <2>6, <3>2
    <2>8. Excused(c, VarOf(l), t, deepest)
        <3> SUFFICES ASSUME NEW m \in c, OfType(VarOf(m), 1 - t)
                     PROVE  PrefixDepth(VarOf(m)) < deepest
            BY DEF Excused
        <3>1. VarOf(m) \in PrefixVars /\ PrefixType(VarOf(m)) # t
            BY <1>1, <1>2, TypesAreBits DEF OfType
        <3>2. /\ Depth(var_data, VarOf(m)) = PrefixDepth(VarOf(m))
              /\ ~IsPrimary(var_data, VarOf(m), t)
            BY <1>1, <3>1, DataType
        <3> QED BY <2>2, <3>2, ResolvedDepths, ResolveSubset
    <2>9. AllInFront(c, VarOf(l))
        BY <1>1, <1>2, <1>4, <2>5, <2>7, <2>8, BehindPrimaries
    <2> QED BY <2>6, <2>9 DEF IsInside, c
<1> QED BY <1>8, <1>9

-----------------------------------------------------------------------------
(* The merged literals are behind the pivot, and the reduced ones behind what is left *)

MergedNow ==
    (IF pc \in {"merge", "eflit"} THEN Range(step.merged_lits) ELSE {})
    \cup (IF pc = "eflit" THEN {step.lit} ELSE {})

ReducedNow ==
    IF pc \in {"merge", "eflit", "split"} THEN Range(step.reduced_lits)
    ELSE IF pc \in {"g", "gates", "merged"} THEN Range(step.simple) \cup Range(step.merged)
    ELSE {}

InsideInv ==
    Translating /\ Ordered =>
        /\ \A l \in MergedNow : IsMerged(l, step.pivot)
        /\ \A l \in ReducedNow : IsInside(l)

(* After the check no literal is added. *)
LEMMA NothingAdded ==
    ASSUME StepInv, MergedInv, MergingPhases \/ Reducing \/ NotReducing
    PROVE  MergedNow' \subseteq MergedNow /\ ReducedNow' \subseteq ReducedNow
<1>1. DOMAIN step = DOMAIN NewStep
    BY DEF StepInv
<1> USE <1>1 DEF NewStep, stepUnchanged
<1>2. ASSUME Merging PROVE lit \in Range(step.merged_lits)
    BY <1>2 DEF Merging, StepInv, lit, Range
<1>3. CASE SamePhase
    <2> DEFINE s == step.merged_lits
               t == DropMerged(s, step.idx)
    <2>1. /\ pc = "merge" /\ pc' = "eflit" /\ step'.lit = lit /\ step'.merged_lits = t
          /\ step'.reduced_lits = step.reduced_lits /\ Merging
        BY <1>3 DEF SamePhase, RecordPhase, Merging
    <2>2. s \in Seq(NonZero) /\ step.idx \in 1..Len(s)
        BY <2>1 DEF StepInv, Merging
    <2>3. /\ DOMAIN t = 1..(Len(s) - 1)
          /\ \A j \in DOMAIN t : t[j] = s[IF j = step.idx THEN Len(s) ELSE j]
        BY <2>2, DropMergedType
    <2>4. Len(s) \in Nat /\ DOMAIN s = 1..Len(s)
        BY <2>2
    <2> HIDE DEF s, t
    <2>5. Range(t) \subseteq Range(s)
        BY <2>2, <2>3, <2>4 DEF Range
    <2> QED BY <1>2, <2>1, <2>5 DEF MergedNow, ReducedNow, s
<1>4. CASE CachedPhase \/ NewPhase
    <2>1. /\ pc = "merge" /\ pc' = "eflit" /\ step'.lit = lit /\ step'.merged_lits = step.merged_lits
          /\ step'.reduced_lits = step.reduced_lits /\ Merging
        BY <1>4 DEF CachedPhase, NewPhase, RecordPhase, Merging
    <2> QED BY <1>2, <2>1 DEF MergedNow, ReducedNow
<1>5. CASE KnownEflit \/ NewEflit \/ CopyParentPhases
    BY <1>5 DEF KnownEflit, NewEflit, CopyParentPhases, MergedNow, ReducedNow
<1>6. CASE SplitAndShadow
    <2> DEFINE reduced == step.reduced_lits
               simple == {i \in DOMAIN reduced : IsConst(GetPhase(res, reduced[i]))}
               merged == {i \in DOMAIN reduced \ simple : reduced[i] > 0}
    <2>1. /\ pc = "split" /\ pc' \in {"emit", "g"}
          /\ step'.simple = AtPlaces(reduced, simple)
          /\ step'.merged = AtPlaces(reduced, merged)
        BY <1>6 DEF SplitAndShadow
    <2>2. reduced \in Seq(Int)
        BY <2>1 DEF MergedInv
    <2>3. simple \in SUBSET DOMAIN reduced /\ merged \in SUBSET DOMAIN reduced
        OBVIOUS
    <2> HIDE DEF reduced, simple, merged
    <2>4. ASSUME NEW places \in SUBSET DOMAIN reduced
          PROVE  Range(AtPlaces(reduced, places)) \subseteq Range(reduced)
        <3>1. LET part == AtPlaces(reduced, places)
                  position == SortedClause(places)
              IN  \A n \in DOMAIN part : position[n] \in places /\ part[n] = reduced[position[n]]
            BY <2>2, <2>4, AtPlacesType
        <3> QED BY <2>4, <3>1 DEF Range
    <2>5. Range(step'.simple) \cup Range(step'.merged) \subseteq Range(reduced)
        BY <2>1, <2>3, <2>4
    <2> QED BY <2>1, <2>5 DEF MergedNow, ReducedNow, reduced
<1>7. CASE Reducing
    <2>1. step'.simple = step.simple /\ step'.merged = step.merged
          /\ pc \in {"g", "gates", "merged"} /\ pc' \in {"gates", "merged", "return"}
        BY <1>7 DEF Reducing, DefineG, AuxGate, ReduceSimple, GLemma, ReduceMerged, PushArrays
    <2> QED BY <2>1 DEF MergedNow, ReducedNow
<1>8. CASE NotReducing
    <2>1. pc' = "return"
        BY <1>8 DEF NotReducing, EmitResolvent, Reroute
    <2> QED BY <2>1 DEF MergedNow, ReducedNow
<1> QED BY <1>3, <1>4, <1>5, <1>6, <1>7, <1>8 DEF MergingPhases

(* The check puts such literals into the step, and the loops only take some away. *)
LEMMA InsideNext ==
    LookupInv /\ BitsInv /\ DataInv /\ MiddleInv /\ InsideInv /\ [Next]_vars => InsideInv'
<1> SUFFICES ASSUME LookupInv, BitsInv, DataInv, MiddleInv, InsideInv, [Next]_vars,
                    Translating', Ordered'
             PROVE  /\ \A l \in MergedNow' : IsMerged(l, step.pivot)'
                    /\ \A l \in ReducedNow' : IsInside(l)'
    BY DEF InsideInv
<1>1. ControlInv /\ TypesInv /\ StepInv /\ MergedInv /\ ForgetInv
    BY DEF LookupInv, MapInv
<1>2. CASE pc' \notin InStep
    BY <1>2 DEF MergedNow, ReducedNow, InStep
<1>3. CASE UNCHANGED vars
    <2>1. UNCHANGED <<input, pc, step, call, clause_database, constraint_type>>
        BY <1>3 DEF vars, readVars, inputVars, databaseVars
    <2>2. Translating /\ pc \notin Before
        BY <1>3, PremisesStay, <1>1, <2>1 DEF Translating
    <2>3. Ordered
        BY <1>1, <2>2, OrderedBack
    <2>4. MergedNow' = MergedNow /\ ReducedNow' = ReducedNow /\ step' = step
        BY <2>1 DEF MergedNow, ReducedNow
    <2>5. \A l : (IsMerged(l, step.pivot)' <=> IsMerged(l, step.pivot)) /\ (IsInside(l)' <=> IsInside(l))
        BY <2>1 DEF IsMerged, IsInside, InFront, AllInFront, PrefixVars, PrefixDepth, Clause, res
    <2> QED BY <2>2, <2>3, <2>4, <2>5 DEF InsideInv
<1>4. CASE pc' \in InStep /\ (Checking \/ MergingPhases \/ Reducing \/ NotReducing)
    <2>1. /\ pc \in InLine \ {"chain", "return", "failed"} /\ UNCHANGED <<input, res, clause_database>>
          /\ pc \notin Before
        BY <1>4, StepFrame DEF InLine, Before
    <2>2. Translating /\ Ordered
        <3>1. UNCHANGED SpareIdIsFree
            BY <1>1, <2>1, PremisesStay
        <3> QED BY <1>1, <2>1, <3>1, OrderedBack DEF Translating, InLine, Before
    <2>3. \A l, piv : (IsMerged(l, piv)' <=> IsMerged(l, piv))
        BY <2>1 DEF IsMerged, InFront, PrefixVars, PrefixDepth
    <2>4. \A l : (IsInside(l)' <=> IsInside(l))
        BY <2>1 DEF IsInside, InFront, AllInFront, PrefixVars, PrefixDepth, Clause
    <2>5. CASE MergingPhases \/ Reducing \/ NotReducing
        <3>1. step'.pivot = step.pivot
            BY <1>1, <2>5, StepFields
        <3>2. MergedNow' \subseteq MergedNow /\ ReducedNow' \subseteq ReducedNow
            BY <1>1, <2>5, NothingAdded
        <3>3. \A l : IsMerged(l, step.pivot)' <=> IsMerged(l, step.pivot)
            BY <2>1, <3>1 DEF IsMerged, InFront, PrefixVars, PrefixDepth
        <3> QED BY <2>2, <2>4, <3>2, <3>3 DEF InsideInv
    <2>6. CASE CheckResolutionStep
        <3> DEFINE check == CheckResolution(var_data, Clause(left), Clause(right), Clause(res),
                                            constraint_type[right])
        <3>1. /\ step'.pivot = check.pivot /\ step'.merged_lits = check.merged
              /\ step'.reduced_lits = check.reduced /\ check.pivot # 0 /\ right # 0
              /\ pc = "check" /\ pc' = "merge"
            BY <1>4, <2>6 DEF CheckResolutionStep, NewStep, InStep
        <3>2. /\ \A l \in Range(check.merged) : IsMerged(l, check.pivot)
              /\ \A l \in Range(check.reduced) : IsInside(l)
            BY <2>2, <3>1, ResolutionInside
        <3> HIDE DEF check
        <3>3. MergedNow' = Range(check.merged) /\ ReducedNow' = Range(check.reduced)
            BY <3>1 DEF MergedNow, ReducedNow
        <3>4. \A l : IsMerged(l, step.pivot)' <=> IsMerged(l, check.pivot)
            BY <2>1, <3>1 DEF IsMerged, InFront, PrefixVars, PrefixDepth
        <3> QED BY <2>4, <3>2, <3>3, <3>4
    <2>7. CASE CheckReductionStep
        <3>1. PICK ctype \in StoredTypes(res) :
                  step'.reduced_lits
                      = CheckReduction(var_data, Clause(left), Clause(res), ctype).reduced
            BY <2>7 DEF CheckReductionStep, NewStep
        <3>2. pc = "check" /\ pc' = "split" /\ right = 0
            BY <2>7 DEF CheckReductionStep
        <3>3. \A l \in ReducedNow' : IsInside(l)
            BY <2>2, <3>1, <3>2, ReductionInside DEF ReducedNow
        <3>4. MergedNow' = {}
            BY <3>2 DEF MergedNow
        <3> QED BY <2>4, <3>3, <3>4
    <2> QED BY <1>4, <2>5, <2>6, <2>7 DEF Checking
<1> QED BY <1>2, <1>3, <1>4, StepCourse

-----------------------------------------------------------------------------
(* The rank of a variable: twice the depth of the last variable that its gate may see *)

\* What a phase may be.
Terms(m) == 1..m \cup {CONST_TRUE, CONST_FALSE}

\* A variable of the prefix has twice its depth, another one of the formula depends on none.
BaseRanked(r) ==
    /\ r \in [Int -> Nat]
    /\ \A v \in PrefixVars : r[v] = 2 * PrefixDepth(v)
    /\ \A v \in Found \ PrefixVars : r[v] = 0
    /\ r[CONST_TRUE] = 0 /\ r[CONST_FALSE] = 0

\* A gate sees nothing of a higher rank than its own, and that of a variable of the prefix
\* nothing of the same rank.
Feeds(prefix, r, w, v) == r[w] <= r[v] /\ (v \in prefix => r[w] < r[v])

GatesRanked(prefix, r, defs, m) ==
    \A i \in DOMAIN defs : \A w \in defs[i].ins : w \in 1..m /\ Feeds(prefix, r, w, defs[i].out)

\* The phase of a variable is of lower rank, its effective literals are not of higher rank.
PhasesRanked(prefix, r, map) == \A k \in DOMAIN map : k[2] \in prefix /\ r[map[k]] < r[k[2]]

EflitsRanked(prefix, r, map) == \A k \in DOMAIN map : k[1] \in prefix /\ r[map[k]] <= r[k[1]]

\* A phase is of no higher rank than one of those that it chooses from, or the pivot.
CacheRanked(r, map, m) ==
    \A k \in DOMAIN map : \E p \in {k[1], k[2], k[3]} \cap Terms(m) : r[map[k]] <= r[p]

\* The rest of an array is of the next lower rank.
RestsRanked(prefix, r, map) == \A u \in DOMAIN map : u \in prefix /\ r[map[u]] + 1 = r[u]

Ranked(r) ==
    /\ BaseRanked(r)
    /\ GatesRanked(PrefixVars, r, gates, max_var)
    /\ PhasesRanked(PrefixVars, r, phase)
    /\ EflitsRanked(PrefixVars, r, eflit)
    /\ CacheRanked(r, phase_cache, max_var)
    /\ RestsRanked(PrefixVars, r, countermodel_out_var)

\* Of lower rank than what is reduced.
Below(r, v) == v \in 1..max_var /\ \A l \in ReducedNow : r[v] < r[VarOf(l)]

StepRanked(r) ==
    /\ pc = "eflit" => r[step.phi] < r[VarOf(step.lit)]
    /\ pc = "g" => \A x \in Range(step.shadcls) : Below(r, VarOf(x))
    /\ pc \in {"gates", "merged"} => Below(r, step.g)
    /\ pc = "gates" => step.auxg \in Seq(1..max_var) /\ step.auxg # <<>>

RankInv == Translating /\ Ordered => \E r : Ranked(r) /\ StepRanked(r)

Agrees(r, q, m) == q \in [Int -> Nat] /\ \A t \in Terms(m) : q[t] = r[t]

(* The fresh variables of a step get one rank. *)
LEMMA FreshRanks ==
    ASSUME NEW r \in [Int -> Nat], NEW lo \in Nat, NEW hi \in Nat, hi < CONST_TRUE, NEW n \in Nat
    PROVE  \E q : Agrees(r, q, lo) /\ \A v \in (lo + 1)..hi : q[v] = n
<1> DEFINE q == [v \in Int |-> IF v \in (lo + 1)..hi THEN n ELSE r[v]]
<1>1. q \in [Int -> Nat]
    OBVIOUS
<1>2. \A t \in Terms(lo) : t \in Int /\ t \notin (lo + 1)..hi
    BY ConstAssumption DEF Terms, CONST_FALSE
<1>3. \A t \in Terms(lo) : q[t] = r[t]
    BY <1>2
<1>4. \A v \in (lo + 1)..hi : q[v] = n
    OBVIOUS
<1> HIDE DEF q
<1> QED BY <1>1, <1>3, <1>4 DEF Agrees

(* What is ranked keeps its rank. *)
LEMMA RanksAgree ==
    ASSUME VarInv, CircuitInv, InsideInv, PendingEflit, VariablesKnown, Translating, Ordered,
           pc \in InLine, Found \subseteq 1..max_var,
           NEW r, NEW q, Ranked(r), StepRanked(r), Agrees(r, q, max_var)
    PROVE  Ranked(q) /\ StepRanked(q)
<1>1. /\ max_var \in Nat /\ r \in [Int -> Nat] /\ q \in [Int -> Nat]
      /\ \A v \in 1..max_var : q[v] = r[v]
      /\ q[CONST_TRUE] = r[CONST_TRUE] /\ q[CONST_FALSE] = r[CONST_FALSE]
      /\ \A t \in Terms(max_var) : q[t] = r[t]
    <2>1. r \in [Int -> Nat]
        BY DEF Ranked, BaseRanked
    <2>2. max_var \in Nat
        BY ConstAssumption DEF VarInv
    <2>3. 1..max_var \subseteq Terms(max_var) /\ {CONST_TRUE, CONST_FALSE} \subseteq Terms(max_var)
        BY DEF Terms
    <2> QED BY <2>1, <2>2, <2>3 DEF Agrees
<1>2. PrefixVars \subseteq Found
    BY DEF Found, KnownVars
<1>3. BaseRanked(q)
    BY <1>1, <1>2 DEF Ranked, BaseRanked
<1>4. GatesRanked(PrefixVars, q, gates, max_var)
    <2>1. \A i \in DOMAIN gates : gates[i].out \in 1..max_var
        BY DEF CircuitInv, Outputs
    <2> QED BY <1>1, <2>1 DEF Ranked, GatesRanked, Feeds
<1>5. PhasesRanked(PrefixVars, q, phase)
    BY <1>1, <1>2 DEF Ranked, PhasesRanked, VarInv, ValuesBelow
<1>6. EflitsRanked(PrefixVars, q, eflit)
    BY <1>1, <1>2 DEF Ranked, EflitsRanked, VarInv, ValuesBelow
<1>7. CacheRanked(q, phase_cache, max_var)
    <2>1. \A k \in DOMAIN phase_cache : q[phase_cache[k]] = r[phase_cache[k]]
        BY <1>1 DEF VarInv, ValuesBelow
    <2> QED BY <1>1, <2>1 DEF Ranked, CacheRanked
<1>8. RestsRanked(PrefixVars, q, countermodel_out_var)
    BY <1>1, <1>2 DEF Ranked, RestsRanked, VarInv, ValuesBelow
<1>9. \A l \in ReducedNow : q[VarOf(l)] = r[VarOf(l)]
    BY <1>1, <1>2 DEF InsideInv, IsInside
<1>10. \A v : Below(r, v) => Below(q, v)
    BY <1>1, <1>9 DEF Below
<1>11. pc = "eflit" => q[step.phi] = r[step.phi] /\ q[VarOf(step.lit)] = r[VarOf(step.lit)]
    <2>1. pc = "eflit" => step.phi \in 1..max_var
        BY DEF PendingEflit
    <2>2. pc = "eflit" => VarOf(step.lit) \in PrefixVars
        BY DEF InsideInv, MergedNow, IsMerged
    <2> QED BY <1>1, <1>2, <2>1, <2>2
<1>12. StepRanked(q)
    BY <1>10, <1>11 DEF StepRanked
<1> QED BY <1>3, <1>4, <1>5, <1>6, <1>7, <1>8, <1>12 DEF Ranked

-----------------------------------------------------------------------------
(* What is added to the tables *)

(* Gates are added. *)
LEMMA MoreRanked ==
    ASSUME NEW prefix, NEW r, NEW f, NEW s, IsSeq(f), IsSeq(s), NEW m \in Nat, NEW n \in Nat, m <= n,
           GatesRanked(prefix, r, f, m), GatesRanked(prefix, r, s, n)
    PROVE  GatesRanked(prefix, r, f \o s, n)
<1>1. /\ IsSeq(f \o s) /\ Len(f) \in Nat /\ Len(s) \in Nat /\ Len(f \o s) = Len(f) + Len(s)
      /\ \A i \in 1..Len(f) : (f \o s)[i] = f[i]
      /\ \A i \in 1..Len(s) : (f \o s)[Len(f) + i] = s[i]
    BY ConcatIsSeq
<1>2. DOMAIN f = 1..Len(f) /\ DOMAIN s = 1..Len(s) /\ DOMAIN (f \o s) = 1..(Len(f) + Len(s))
    BY <1>1, LengthType
<1> DEFINE fs == f \o s
           Fine(gate) == \A w \in gate.ins : w \in 1..n /\ Feeds(prefix, r, w, gate.out)
<1>3. \A i \in DOMAIN f : Fine(f[i])
    BY DEF GatesRanked
<1>4. \A i \in DOMAIN s : Fine(s[i])
    BY DEF GatesRanked
<1>5. ASSUME NEW i \in DOMAIN fs PROVE Fine(fs[i])
    <2>1. CASE i \in 1..Len(f)
        BY <1>1, <1>2, <1>3, <2>1
    <2>2. CASE i \notin 1..Len(f)
        <3>1. i - Len(f) \in 1..Len(s) /\ i = Len(f) + (i - Len(f))
            BY <1>1, <1>2, <2>2
        <3>2. fs[i] = s[i - Len(f)]
            BY <1>1, <3>1
        <3> QED BY <1>2, <1>4, <3>1, <3>2
    <2> QED BY <2>1, <2>2
<1> QED BY <1>5 DEF GatesRanked

(* Phases are copied. *)
LEMMA CopyRanked ==
    ASSUME NEW prefix, NEW r, NEW ph, PhasesRanked(prefix, r, ph), NEW clause, NEW src, NEW dest
    PROVE  PhasesRanked(prefix, r, CopyPhases(ph, clause, src, dest))
<1> DEFINE copied == CopiedVars(ph, clause, src, dest)
           keys == {<<dest, v>> : v \in copied}
           copy == CopyPhases(ph, clause, src, dest)
<1>1. DOMAIN copy = DOMAIN ph \cup keys
      /\ \A k \in DOMAIN copy : copy[k] = IF k \in keys THEN ph[<<src, k[2]>>] ELSE ph[k]
    BY DEF CopyPhases
<1> SUFFICES ASSUME NEW k \in DOMAIN copy PROVE k[2] \in prefix /\ r[copy[k]] < r[k[2]]
    BY DEF PhasesRanked
<1>2. CASE k \in keys
    <2>1. PICK v \in copied : k = <<dest, v>>
        BY <1>2
    <2>2. <<src, v>> \in DOMAIN ph /\ copy[k] = ph[<<src, v>>] /\ k[2] = v /\ <<src, v>>[2] = v
        BY <1>1, <1>2, <2>1 DEF CopiedVars
    <2> HIDE DEF copy
    <2> QED BY <2>2 DEF PhasesRanked
<1>3. CASE k \notin keys
    <2>1. k \in DOMAIN ph /\ copy[k] = ph[k]
        BY <1>1, <1>3
    <2> HIDE DEF copy
    <2> QED BY <2>1 DEF PhasesRanked
<1> QED BY <1>2, <1>3

(* Phases are forgotten. *)
LEMMA WithoutRanked ==
    ASSUME NEW prefix, NEW r, NEW ph, PhasesRanked(prefix, r, ph), NEW keys
    PROVE  PhasesRanked(prefix, r, Without(ph, keys))
BY DEF PhasesRanked, Without

(* An entry is made. *)
LEMMA InsertRanked ==
    ASSUME NEW prefix, NEW r, NEW map, NEW k, NEW v
    PROVE  /\ PhasesRanked(prefix, r, map) /\ k[2] \in prefix /\ r[v] < r[k[2]]
                  => PhasesRanked(prefix, r, Insert(map, k, v))
           /\ EflitsRanked(prefix, r, map) /\ k[1] \in prefix /\ r[v] <= r[k[1]]
                  => EflitsRanked(prefix, r, Insert(map, k, v))
           /\ RestsRanked(prefix, r, map) /\ k \in prefix /\ r[v] + 1 = r[k]
                  => RestsRanked(prefix, r, Put(map, k, v))
           /\ \A m : CacheRanked(r, map, m) /\ (\E p \in {k[1], k[2], k[3]} \cap Terms(m) : r[v] <= r[p])
                  => CacheRanked(r, Insert(map, k, v), m)
<1>1. /\ DOMAIN Put(map, k, v) = DOMAIN map \cup {k}
      /\ \A j \in DOMAIN Put(map, k, v) : Put(map, k, v)[j] = IF j = k THEN v ELSE map[j]
    BY DEF Put
<1>2. /\ DOMAIN Insert(map, k, v) = DOMAIN map \cup {k}
      /\ \A j \in DOMAIN Insert(map, k, v) : Insert(map, k, v)[j] = IF j \in DOMAIN map THEN map[j] ELSE v
    BY <1>1 DEF Insert
<1>3. PhasesRanked(prefix, r, map) /\ k[2] \in prefix /\ r[v] < r[k[2]]
          => PhasesRanked(prefix, r, Insert(map, k, v))
    BY <1>2 DEF PhasesRanked
<1>4. EflitsRanked(prefix, r, map) /\ k[1] \in prefix /\ r[v] <= r[k[1]]
          => EflitsRanked(prefix, r, Insert(map, k, v))
    BY <1>2 DEF EflitsRanked
<1>5. RestsRanked(prefix, r, map) /\ k \in prefix /\ r[v] + 1 = r[k]
          => RestsRanked(prefix, r, Put(map, k, v))
    BY <1>1 DEF RestsRanked
<1>6. ASSUME NEW m, CacheRanked(r, map, m), \E p \in {k[1], k[2], k[3]} \cap Terms(m) : r[v] <= r[p]
      PROVE  CacheRanked(r, Insert(map, k, v), m)
    BY <1>2, <1>6 DEF CacheRanked
<1> QED BY <1>3, <1>4, <1>5, <1>6

(* A later variable changes nothing of the terms before. *)
LEMMA CacheStays ==
    ASSUME NEW r, NEW map, NEW m \in Nat, NEW n \in Nat, m <= n, CacheRanked(r, map, m)
    PROVE  CacheRanked(r, map, n)
<1>1. Terms(m) \subseteq Terms(n)
    BY DEF Terms
<1> QED BY <1>1 DEF CacheRanked

-----------------------------------------------------------------------------
(* The ranks, action by action *)

\* All that the ranks rest on.
RankContext == LookupInv /\ DefineInv /\ BitsInv /\ DataInv /\ MiddleInv /\ InsideInv

(* The prefix and the variables of the formula stay. *)
LEMMA PrefixStays ==
    ASSUME UNCHANGED inputVars
    PROVE  /\ UNCHANGED <<PrefixVars, Found, VariablesKnown>>
           /\ \A v : PrefixDepth(v)' = PrefixDepth(v)
           /\ \A r : BaseRanked(r)' <=> BaseRanked(r)
<1>1. UNCHANGED input
    BY DEF inputVars
<1>2. UNCHANGED <<Found, VariablesKnown>>
    BY FoundStays
<1>3. UNCHANGED PrefixVars
    BY <1>1 DEF PrefixVars
<1>4. \A v : PrefixDepth(v)' = PrefixDepth(v)
    BY <1>1 DEF PrefixDepth
<1>5. ASSUME NEW r PROVE BaseRanked(r)' <=> BaseRanked(r)
    BY <1>2, <1>3, <1>4 DEF BaseRanked
<1> QED BY <1>2, <1>3, <1>4, <1>5

(* What is to be shown of the tables after a step. *)
LEMMA RankedNext ==
    ASSUME UNCHANGED inputVars, NEW r, BaseRanked(r),
           GatesRanked(PrefixVars, r, gates', max_var'), PhasesRanked(PrefixVars, r, phase'),
           EflitsRanked(PrefixVars, r, eflit'), CacheRanked(r, phase_cache', max_var'),
           RestsRanked(PrefixVars, r, countermodel_out_var')
    PROVE  Ranked(r)'
BY PrefixStays DEF Ranked

(* A step that leaves the tables alone, or copies phases. *)
LEMMA QuietRanks ==
    ASSUME UNCHANGED inputVars, max_var \in Nat, max_var' \in Nat, max_var <= max_var',
           UNCHANGED <<gates, eflit, phase_cache, countermodel_out_var>>,
           NEW r, Ranked(r), PhasesRanked(PrefixVars, r, phase')
    PROVE  Ranked(r)'
<1>1. GatesRanked(PrefixVars, r, gates, max_var')
    BY DEF Ranked, GatesRanked
<1>2. CacheRanked(r, phase_cache, max_var')
    BY CacheStays DEF Ranked
<1> QED BY <1>1, <1>2, RankedNext DEF Ranked

(* Nothing is in the tables when the second pass begins. *)
LEMMA RanksBegin ==
    ASSUME RankContext, OpenProof
    PROVE  \E r : Ranked(r)' /\ StepRanked(r)'
<1>1. /\ UNCHANGED inputVars /\ pc = "search" /\ pc \in Before /\ pc' = "line"
      /\ UNCHANGED <<gates, eflit, phase_cache, countermodel_out_var, phase, max_var>>
    BY DEF OpenProof, SearchDone, searchUnchanged, searchVars, fileVars, phaseMaps, eflitMaps, arrayVars,
           inputVars, Before
<1>2. /\ DOMAIN gates = {} /\ DOMAIN countermodel_out_var = {} /\ DOMAIN phase = {}
      /\ DOMAIN eflit = {} /\ DOMAIN phase_cache = {}
    <2>1. /\ CircuitInv /\ PhaseInv /\ EflitKeys /\ CacheInv /\ NumberInv
        BY DEF RankContext, LookupInv, DefineInv, MapInv, ForgetInv
    <2>2. gates = <<>> /\ countermodel_out_var = EmptyMap /\ phase = EmptyMap
        BY <1>1, <2>1 DEF CircuitInv, PhaseInv
    <2>3. DOMAIN phase_def = {} /\ DOMAIN eflit_def = {}
        BY <1>1, <2>1 DEF NumberInv
    <2>4. DOMAIN eflit = {} /\ DOMAIN phase_cache = {}
        BY <2>1, <2>3 DEF EflitKeys, CacheInv
    <2>5. DOMAIN gates = {}
        BY <2>2, NoneIsSeq, LengthType
    <2> QED BY <2>2, <2>4, <2>5 DEF EmptyMap
<1>3. input \in Inputs
    BY DEF RankContext, LookupInv, MapInv, ControlInv
<1>4. /\ PrefixVars \subseteq 1..(CONST_TRUE - 1)
      /\ \A v \in PrefixVars : PrefixDepth(v) \in Nat
    <2>1. \A v \in PrefixVars : PrefixDepth(v) \in Nat
        BY <1>3, PrefixIsTyped
    <2>2. \A i \in DOMAIN input.prefix : input.prefix[i].vars \subseteq 1..(CONST_TRUE - 1)
        BY <1>3, InputAssumption
    <2> QED BY <2>1, <2>2 DEF PrefixVars
<1>5. PICK r : r = [v \in Int |-> IF v \in PrefixVars THEN 2 * PrefixDepth(v) ELSE 0]
    OBVIOUS
<1>6. BaseRanked(r)
    <2>1. r \in [Int -> Nat]
        BY <1>4, <1>5
    <2>2. CONST_TRUE \in Int \ PrefixVars /\ CONST_FALSE \in Int \ PrefixVars
        BY <1>4, ConstAssumption DEF CONST_FALSE
    <2>3. Found \subseteq Int
        <3>1. Range(clause_tseitin_variables) \subseteq Int
            <4>1. PrefixInv
                BY DEF RankContext, DefineInv
            <4>2. DOMAIN var_data \cup Range(clause_tseitin_variables) \subseteq 1..max_var
                BY <1>1, <4>1 DEF PrefixInv
            <4> QED BY <4>2
        <3>2. \A j \in DOMAIN proofLines : VarsOf(proofLines[j].lits) \subseteq Int
            BY <1>3, LinesAreLines DEF IsLiteralSet, VarsOf
        <3>3. AxiomsInFront \subseteq DOMAIN proofLines
            BY DEF AxiomsInFront
        <3>4. PrefixVars \subseteq Int
            BY <1>4, ConstAssumption
        <3>5. KnownVars \subseteq Int
            BY <3>2, <3>3, <3>4 DEF KnownVars
        <3> QED BY <3>1, <3>5 DEF Found
    <2> QED BY <1>4, <1>5, <2>1, <2>2, <2>3 DEF BaseRanked
<1>7. Ranked(r)'
    <2>1. /\ GatesRanked(PrefixVars, r, gates', max_var') /\ PhasesRanked(PrefixVars, r, phase')
          /\ EflitsRanked(PrefixVars, r, eflit') /\ CacheRanked(r, phase_cache', max_var')
          /\ RestsRanked(PrefixVars, r, countermodel_out_var')
        BY <1>1, <1>2 DEF GatesRanked, PhasesRanked, EflitsRanked, CacheRanked, RestsRanked
    <2> QED BY <1>1, <1>6, <2>1, RankedNext
<1>8. StepRanked(r)'
    BY <1>1 DEF StepRanked
<1> QED BY <1>7, <1>8

-----------------------------------------------------------------------------
(* The merge loop *)

(* What all the steps of a line rest on. *)
LEMMA RankFacts ==
    ASSUME RankContext, Translating, Ordered, pc \in InLine
    PROVE  /\ max_var \in Nat /\ max_var < CONST_TRUE /\ VariablesKnown
           /\ PrefixVars \subseteq Found /\ Found \subseteq 1..max_var
           /\ \A v \in PrefixVars : PrefixDepth(v) \in Nat \ {0}
           /\ \A r : Ranked(r) => r \in [Int -> Nat]
           /\ pc \notin Before /\ input \in Inputs
<1>1. ControlInv /\ VarInv /\ InTimeInv /\ WorkInv
    BY DEF RankContext, LookupInv, MapInv, DefineInv
<1>2. max_var \in Nat /\ max_var < CONST_TRUE
    BY <1>1, ConstAssumption DEF VarInv
<1>3. Found \subseteq 1..max_var
    BY <1>1, AllInTime
<1>4. \A v \in PrefixVars : PrefixDepth(v) \in Nat \ {0}
    BY <1>1, PrefixIsTyped DEF ControlInv
<1>5. VariablesKnown /\ PrefixVars \subseteq Found
    BY DEF Ordered, Found, KnownVars
<1>6. pc \notin Before /\ input \in Inputs
    BY <1>1 DEF InLine, Before, ControlInv
<1> QED BY <1>2, <1>3, <1>4, <1>5, <1>6 DEF Ranked, BaseRanked

(* A variable in front of one of the prefix, or not of the prefix, is of lower rank, and so
   is a constant phase. *)
LEMMA LowRank ==
    ASSUME RankContext, Translating, Ordered, pc \in InLine, NEW r, BaseRanked(r), NEW w \in PrefixVars
    PROVE  /\ \A v \in Found : (v \in PrefixVars => InFront(v, w)) => r[v] < r[w]
           /\ r[CONST_TRUE] < r[w] /\ r[CONST_FALSE] < r[w]
           /\ r[w] \in Nat \ {0}
<1>1. \A v \in PrefixVars : PrefixDepth(v) \in Nat \ {0} /\ r[v] = 2 * PrefixDepth(v)
    BY RankFacts DEF BaseRanked
<1>2. \A v \in Found \ PrefixVars : r[v] = 0
    BY DEF BaseRanked
<1> QED BY <1>1, <1>2 DEF BaseRanked, InFront

(* A phase is of lower rank than its variable. *)
LEMMA LowPhase ==
    ASSUME RankContext, Translating, Ordered, pc \in InLine, NEW r, Ranked(r), NEW l, VarOf(l) \in PrefixVars,
           NEW id
    PROVE  GetPhase(id, l) \in Terms(max_var) /\ r[GetPhase(id, l)] < r[VarOf(l)]
<1>1. BaseRanked(r) /\ PhasesRanked(PrefixVars, r, phase)
    BY DEF Ranked
<1>2. VarInv
    BY DEF RankContext, LookupInv, MapInv
<1>3. CASE <<id, VarOf(l)>> \in DOMAIN phase
    <2> DEFINE k == <<id, VarOf(l)>>
    <2>1. GetPhase(id, l) = phase[k] /\ phase[k] \in 1..max_var
        BY <1>2, <1>3 DEF GetPhase, VarInv, ValuesBelow
    <2>2. r[phase[k]] < r[k[2]] /\ k[2] = VarOf(l)
        BY <1>1, <1>3 DEF PhasesRanked
    <2> QED BY <2>1, <2>2 DEF Terms
<1>4. CASE <<id, VarOf(l)>> \notin DOMAIN phase
    <2>1. GetPhase(id, l) \in {CONST_TRUE, CONST_FALSE}
        BY <1>4 DEF GetPhase
    <2> QED BY <1>1, <2>1, LowRank DEF Terms
<1> QED BY <1>3, <1>4

(* What a merge looks at is of lower rank than the merged variable. *)
LEMMA LowMerge ==
    ASSUME RankContext, Translating, Ordered, Merging, NEW r, Ranked(r)
    PROVE  /\ lit \in NonZero /\ VarOf(lit) \in PrefixVars
           /\ VarOf(step.pivot) \in 1..max_var
           /\ {PhaseLeft, PhaseRight, VarOf(step.pivot)} \subseteq Terms(max_var)
           /\ \A p \in {PhaseLeft, PhaseRight, VarOf(step.pivot)} : r[p] < r[VarOf(lit)]
           /\ Key[1] = VarOf(step.pivot)
           /\ {Key[2], Key[3]} = {PhaseLeft, PhaseRight}
<1>1. pc = "merge" /\ pc \in InLine
    BY DEF Merging, InLine
<1>2. StepInv /\ PivotInv /\ StepLits /\ ClauseVarsInv /\ InsideInv
    BY DEF RankContext, LookupInv, MapInv, DefineInv
<1>3. lit \in NonZero /\ lit \in Range(step.merged_lits)
    BY <1>1, <1>2 DEF StepInv, Merging, lit, Range
<1>4. IsMerged(lit, step.pivot)
    BY <1>1, <1>2, <1>3 DEF InsideInv, MergedNow
<1>5. VarOf(lit) \in PrefixVars /\ VarOf(-lit) = VarOf(lit)
    BY <1>3, <1>4 DEF IsMerged, NonZero, VarOf
<1>6. step.pivot \in NonZero /\ step.pivot \in Clause(left)
    BY <1>1, <1>2 DEF PivotInv, StepLits, InStep
<1>7. VarOf(step.pivot) \in Found
    <2>1. IsKnown(Clause(left))
        BY <1>1, <1>2, RankFacts, ClauseIsKnown
    <2> QED BY <1>6, <2>1 DEF IsKnown, VarsOf
<1>8. r[VarOf(step.pivot)] < r[VarOf(lit)]
    BY <1>1, <1>4, <1>5, <1>7, LowRank DEF IsMerged, Ranked
<1>9. VarOf(step.pivot) \in 1..max_var
    BY <1>1, <1>7, RankFacts
<1>10. /\ PhaseLeft \in Terms(max_var) /\ r[PhaseLeft] < r[VarOf(lit)]
       /\ PhaseRight \in Terms(max_var) /\ r[PhaseRight] < r[VarOf(lit)]
    BY <1>1, <1>5, LowPhase DEF PhaseLeft, PhaseRight
<1>11. Key[1] = VarOf(step.pivot) /\ {Key[2], Key[3]} = {PhaseLeft, PhaseRight}
    BY <1>6 DEF Key, CacheKey, VarOf, NonZero
<1> QED BY <1>3, <1>5, <1>8, <1>9, <1>10, <1>11 DEF Terms

(* A phase that is recorded is of lower rank than its variable. *)
LEMMA RecordedRank ==
    ASSUME StepInv, NEW phi, NEW lits, NEW idx, RecordPhase(phi, lits, idx),
           NEW r, r[phi] < r[VarOf(lit)]
    PROVE  StepRanked(r)'
<1>1. pc' = "eflit" /\ step'.lit = lit /\ step'.phi = phi
    BY DEF RecordPhase, StepInv, NewStep
<1> QED BY <1>1 DEF StepRanked

(* A phase that is found has the rank of one of those it chooses from. *)
LEMMA FoundPhaseRanks ==
    ASSUME RankContext, Translating, Ordered, NEW r, Ranked(r), SamePhase \/ CachedPhase
    PROVE  Ranked(r)' /\ StepRanked(r)'
<1>1. Merging /\ pc \in InLine
    BY DEF SamePhase, CachedPhase, Merging, InLine
<1>2. /\ UNCHANGED inputVars /\ UNCHANGED <<max_var, gates, eflit, phase_cache, countermodel_out_var>>
    BY DEF SamePhase, CachedPhase, stepUnchanged, readVars, inputVars, fileVars, eflitMaps, arrayVars
<1>3. PICK phi, lits, idx : RecordPhase(phi, lits, idx) /\ r[phi] < r[VarOf(lit)]
    <2>1. CASE SamePhase
        <3>1. r[PhaseLeft] < r[VarOf(lit)]
            BY <1>1, LowMerge
        <3> QED BY <2>1, <3>1 DEF SamePhase
    <2>2. CASE CachedPhase
        <3>1. Key \in DOMAIN phase_cache
              /\ RecordPhase(phase_cache[Key], step.merged_lits, step.idx + 1)
            BY <2>2 DEF CachedPhase
        <3>2. PICK p \in {Key[1], Key[2], Key[3]} : r[phase_cache[Key]] <= r[p]
            BY <3>1 DEF Ranked, CacheRanked
        <3>3. p \in {PhaseLeft, PhaseRight, VarOf(step.pivot)}
            BY <1>1, LowMerge
        <3>4. r[p] < r[VarOf(lit)]
            BY <1>1, <3>3, LowMerge
        <3>5. r[phase_cache[Key]] \in Nat /\ r[p] \in Nat /\ r[VarOf(lit)] \in Nat
            <4>1. r \in [Int -> Nat] /\ max_var \in Nat
                BY <1>1, RankFacts
            <4>2. phase_cache[Key] \in 1..max_var
                BY <3>1 DEF RankContext, LookupInv, MapInv, VarInv, ValuesBelow
            <4>3. p \in Terms(max_var) /\ lit \in NonZero
                BY <1>1, <3>3, LowMerge
            <4> QED BY <4>1, <4>2, <4>3, ConstAssumption DEF Terms, CONST_FALSE, NonZero, VarOf
        <3> QED BY <3>1, <3>2, <3>4, <3>5
    <2> QED BY <2>1, <2>2
<1>4. PhasesRanked(PrefixVars, r, phase')
    <2>1. phase' = Insert(phase, <<res, VarOf(lit)>>, phi)
        BY <1>3 DEF RecordPhase
    <2>2. VarOf(lit) \in PrefixVars /\ <<res, VarOf(lit)>>[2] = VarOf(lit)
        BY <1>1, LowMerge
    <2> QED BY <1>3, <2>1, <2>2, InsertRanked DEF Ranked
<1>5. Ranked(r)'
    BY <1>1, <1>2, <1>4, RankFacts, QuietRanks
<1>6. StepRanked(r)'
    BY <1>3, RecordedRank DEF RankContext, LookupInv, MapInv
<1> QED BY <1>5, <1>6

(* A new phase is ranked like the last of those that it chooses from and the pivot. *)
LEMMA NewPhaseRanks ==
    ASSUME RankContext, Translating, Ordered, NEW r, Ranked(r), StepRanked(r), NewPhase
    PROVE  \E q : Ranked(q)' /\ StepRanked(q)'
<1>1. Merging /\ pc \in InLine
    BY DEF NewPhase, Merging, InLine
<1> DEFINE v == VarOf(lit)
           seen == {PhaseLeft, PhaseRight, VarOf(step.pivot)}
           ins == {VarOf(step.pivot)} \cup ({PhaseLeft, PhaseRight} \ {CONST_TRUE, CONST_FALSE})
           gate == [out |-> max_var', ins |-> ins]
<1>2. /\ UNCHANGED inputVars /\ UNCHANGED <<eflit, countermodel_out_var>>
      /\ max_var' = max_var + 1 /\ max_var' < CONST_TRUE
      /\ gates' = Append(gates, gate)
      /\ phase_cache' = Insert(phase_cache, Key, max_var')
      /\ RecordPhase(max_var', step.merged_lits, step.idx + 1)
      /\ phase' = Insert(phase, <<res, v>>, max_var')
    BY DEF NewPhase, UpdatePhase, FreshAvailable, Fresh, RecordPhase, Key, stepUnchanged, readVars, inputVars,
           arrayVars
<1> HIDE DEF gate
<1>3. /\ max_var \in Nat /\ max_var' \in Nat /\ r \in [Int -> Nat] /\ Found \subseteq 1..max_var
      /\ VarInv /\ CircuitInv /\ InsideInv /\ PendingEflit /\ VariablesKnown /\ StepInv
    <2>1. VarInv /\ CircuitInv /\ InsideInv /\ PendingEflit /\ StepInv
        BY DEF RankContext, LookupInv, MapInv, DefineInv
    <2>2. /\ max_var \in Nat /\ r \in [Int -> Nat] /\ Found \subseteq 1..max_var /\ VariablesKnown
        BY <1>1, RankFacts
    <2>3. max_var' \in Nat
        BY <1>2, <2>2
    <2> QED BY <2>1, <2>2, <2>3
<1>4. /\ v \in PrefixVars /\ seen \subseteq Terms(max_var) /\ VarOf(step.pivot) \in 1..max_var
      /\ \A p \in seen : r[p] < r[v]
      /\ {Key[1], Key[2], Key[3]} = seen
    BY <1>1, LowMerge
<1>5. v \in 1..max_var /\ Terms(max_var) \subseteq Int
    <2>1. PrefixVars \subseteq 1..max_var
        BY <1>1, RankFacts
    <2>2. Terms(max_var) \subseteq Int
        BY <1>3, ConstAssumption DEF Terms, CONST_FALSE
    <2> QED BY <1>4, <2>1, <2>2
<1> HIDE DEF v
<1>6. PICK last \in seen : \A p \in seen : r[p] <= r[last]
    <2>1. \A p \in seen : r[p] \in Nat
        BY <1>3, <1>4, <1>5
    <2> QED BY <2>1
<1>7. r[last] \in Nat /\ r[last] < r[v]
    BY <1>3, <1>4, <1>5, <1>6
<1>8. PICK q : Agrees(r, q, max_var) /\ \A x \in (max_var + 1)..max_var' : q[x] = r[last]
    <2> HIDE DEF seen
    <2>1. max_var' < CONST_TRUE
        BY <1>2
    <2> QED BY <1>3, <1>7, <2>1, FreshRanks
<1>9. Ranked(q) /\ StepRanked(q)
    BY <1>1, <1>3, <1>8, RanksAgree
<1>10. /\ q[max_var'] = r[last] /\ \A p \in Terms(max_var) : q[p] = r[p]
       /\ q[v] = r[v]
    BY <1>2, <1>3, <1>5, <1>8 DEF Agrees, Terms
<1>11. GatesRanked(PrefixVars, q, gates', max_var')
    <2>1. ins \subseteq seen /\ ins \subseteq 1..max_var
        BY <1>4 DEF Terms
    <2>2. \A w \in ins : w \in 1..max_var' /\ q[w] <= q[max_var']
        <3> HIDE DEF ins, seen
        <3>1. \A w \in ins : q[w] = r[w] /\ r[w] <= r[last]
            BY <1>4, <1>6, <1>10, <2>1
        <3>2. 1..max_var \subseteq 1..max_var'
            BY <1>2, <1>3
        <3>3. q[max_var'] = r[last]
            BY <1>10
        <3> QED BY <2>1, <3>1, <3>2, <3>3
    <2>3. max_var' \notin PrefixVars
        BY <1>1, <1>2, <1>3, RankFacts
    <2>4. DOMAIN <<gate>> = {1} /\ <<gate>>[1] = gate /\ gate.out = max_var' /\ gate.ins = ins
        BY DEF gate
    <2> HIDE DEF ins
    <2>5. GatesRanked(PrefixVars, q, <<gate>>, max_var')
        BY <2>2, <2>3, <2>4 DEF GatesRanked, Feeds
    <2>6. IsSeq(gates) /\ IsSeq(<<gate>>) /\ gates' = gates \o <<gate>>
        BY <1>2, <1>3, OneIsSeq, AppendIsSeq DEF CircuitInv
    <2>7. GatesRanked(PrefixVars, q, gates, max_var) /\ max_var <= max_var'
        BY <1>2, <1>3, <1>9 DEF Ranked
    <2> QED BY <1>3, <2>5, <2>6, <2>7, MoreRanked
<1>12. PhasesRanked(PrefixVars, q, phase')
    <2>1. <<res, v>>[2] = v /\ q[max_var'] < q[v]
        BY <1>7, <1>10
    <2> QED BY <1>2, <1>4, <1>9, <2>1, InsertRanked DEF Ranked
<1>13. CacheRanked(q, phase_cache', max_var')
    <2>1. last \in {Key[1], Key[2], Key[3]} \cap Terms(max_var)
        BY <1>4, <1>6
    <2>2. q[max_var'] <= q[last]
        BY <1>7, <1>10, <2>1
    <2>3. CacheRanked(q, phase_cache', max_var)
        BY <1>2, <1>9, <2>1, <2>2, InsertRanked DEF Ranked
    <2>4. max_var <= max_var'
        BY <1>2, <1>3
    <2> QED BY <1>3, <2>3, <2>4, CacheStays
<1>14. Ranked(q)'
    BY <1>2, <1>9, <1>11, <1>12, <1>13, RankedNext DEF Ranked
<1>15. StepRanked(q)'
    <2>1. q[max_var'] < q[VarOf(lit)]
        BY <1>7, <1>10 DEF v
    <2> QED BY <1>2, <1>3, <2>1, RecordedRank
<1> QED BY <1>14, <1>15

-----------------------------------------------------------------------------
(* The gates of a step *)

(* A gate for a fresh variable is ranked like the last variable that it sees. *)
LEMMA GateRanks ==
    ASSUME RankContext, Translating, Ordered, pc \in InLine, NEW r, Ranked(r), StepRanked(r),
           UNCHANGED inputVars, max_var' = max_var + 1, max_var' < CONST_TRUE,
           NEW n \in Nat, NEW ins, ins \subseteq 1..max_var, \A w \in ins : r[w] <= n,
           NEW gate, gate.out = max_var', gate.ins = ins, gates' = gates \o <<gate>>,
           UNCHANGED <<phase, phase_cache, countermodel_out_var>>
    PROVE  \E q :
               /\ Agrees(r, q, max_var) /\ q[max_var'] = n /\ Ranked(q) /\ StepRanked(q)
               /\ EflitsRanked(PrefixVars, q, eflit') => Ranked(q)'
<1>1. /\ max_var \in Nat /\ r \in [Int -> Nat] /\ Found \subseteq 1..max_var /\ VariablesKnown
    BY RankFacts
<1>2. VarInv /\ CircuitInv /\ InsideInv /\ PendingEflit
    BY DEF RankContext, LookupInv, MapInv, DefineInv
<1>3. max_var' \in Nat /\ max_var <= max_var'
    BY <1>1
<1>4. PICK q : Agrees(r, q, max_var) /\ \A x \in (max_var + 1)..max_var' : q[x] = n
    BY <1>1, <1>3, FreshRanks
<1>5. Ranked(q) /\ StepRanked(q)
    BY <1>1, <1>2, <1>4, RanksAgree
<1>6. q[max_var'] = n
    BY <1>1, <1>3, <1>4
<1>7. GatesRanked(PrefixVars, q, gates', max_var')
    <2>1. \A w \in ins : w \in 1..max_var' /\ q[w] <= q[max_var']
        <3>1. \A w \in ins : q[w] = r[w]
            BY <1>4 DEF Agrees, Terms
        <3>2. 1..max_var \subseteq 1..max_var'
            BY <1>1, <1>3
        <3> QED BY <1>6, <3>1, <3>2
    <2>2. max_var' \notin PrefixVars
        BY <1>1, <1>3, RankFacts
    <2>3. DOMAIN <<gate>> = {1} /\ <<gate>>[1] = gate
        OBVIOUS
    <2>4. GatesRanked(PrefixVars, q, <<gate>>, max_var')
        BY <2>1, <2>2, <2>3 DEF GatesRanked, Feeds
    <2>5. IsSeq(gates) /\ IsSeq(<<gate>>)
        BY <1>2, OneIsSeq DEF CircuitInv
    <2>6. GatesRanked(PrefixVars, q, gates, max_var)
        BY <1>5 DEF Ranked
    <2> QED BY <1>1, <1>3, <2>4, <2>5, <2>6, MoreRanked
<1>8. CacheRanked(q, phase_cache', max_var')
    BY <1>1, <1>3, <1>5, CacheStays DEF Ranked
<1>9. ASSUME EflitsRanked(PrefixVars, q, eflit') PROVE Ranked(q)'
    BY <1>5, <1>7, <1>8, <1>9, RankedNext DEF Ranked
<1> QED BY <1>4, <1>5, <1>6, <1>9

(* An effective literal is ranked like its variable. *)
LEMMA NewEflitRanks ==
    ASSUME RankContext, Translating, Ordered, NEW r, Ranked(r), StepRanked(r), NewEflit
    PROVE  \E q : Ranked(q)' /\ StepRanked(q)'
<1> DEFINE v == VarOf(step.lit)
           phi == step.phi
           gate == Gate(max_var', <<v, phi>>)
<1>1. /\ pc = "eflit" /\ pc \in InLine /\ pc' = "merge"
      /\ UNCHANGED inputVars /\ UNCHANGED <<phase, phase_cache, countermodel_out_var>>
      /\ max_var' = max_var + 1 /\ max_var' < CONST_TRUE
      /\ gates' = Append(gates, gate) /\ eflit' = Insert(eflit, <<v, phi>>, max_var')
    BY DEF NewEflit, MakeEflit, FreshAvailable, Fresh, InLine, stepUnchanged, readVars, inputVars, arrayVars,
           phaseMaps
<1>2. /\ max_var \in Nat /\ r \in [Int -> Nat] /\ PrefixVars \subseteq 1..max_var
    BY <1>1, RankFacts
<1>3. v \in PrefixVars /\ phi \in 1..max_var
    BY <1>1 DEF RankContext, LookupInv, PendingEflit, InsideInv, MergedNow, IsMerged
<1>4. r[phi] < r[v]
    BY <1>1 DEF StepRanked
<1> HIDE DEF v, phi
<1>5. gate.out = max_var' /\ gate.ins = {v, phi}
    <2>1. VarOf(v) = v /\ VarOf(phi) = phi
        BY <1>2, <1>3 DEF VarOf
    <2> QED BY <2>1 DEF Gate
<1> HIDE DEF gate
<1>6. gates' = gates \o <<gate>>
    BY <1>1, AppendIsSeq DEF RankContext, DefineInv, CircuitInv
<1> DEFINE n == r[v]
           ins == {v, phi}
<1>7. n \in Nat /\ ins \subseteq 1..max_var /\ \A w \in ins : r[w] <= n
    BY <1>2, <1>3, <1>4
<1>8. gate.ins = ins
    BY <1>5
<1> HIDE DEF n, ins
<1>9. PICK q : /\ Agrees(r, q, max_var) /\ q[max_var'] = n /\ Ranked(q) /\ StepRanked(q)
               /\ EflitsRanked(PrefixVars, q, eflit') => Ranked(q)'
    BY <1>1, <1>5, <1>6, <1>7, <1>8, GateRanks
<1>10. EflitsRanked(PrefixVars, q, eflit')
    <2>1. q[v] = n
        BY <1>2, <1>3, <1>9 DEF Agrees, Terms, n
    <2>2. q[max_var'] <= q[v]
        BY <1>7, <1>9, <2>1
    <2>3. <<v, phi>>[1] = v
        OBVIOUS
    <2> QED BY <1>1, <1>3, <1>9, <2>2, <2>3, InsertRanked DEF Ranked
<1>11. StepRanked(q)'
    BY <1>1 DEF StepRanked
<1> QED BY <1>9, <1>10, <1>11

(* There is a last one among the variables of a sequence of literals. *)
LEMMA LastRank ==
    ASSUME NEW r \in [Int -> Nat], NEW s, IsSeq(s), \A x \in Range(s) : VarOf(x) \in Int
    PROVE  \E n \in Nat :
               /\ \A x \in Range(s) : r[VarOf(x)] <= n
               /\ n = 0 \/ \E x \in Range(s) : n = r[VarOf(x)]
<1> DEFINE f == [i \in 1..Len(s) |-> r[VarOf(s[i])]]
           T == {r[VarOf(x)] : x \in Range(s)}
           S == T \cup {0}
<1>1. Len(s) \in Nat /\ DOMAIN s = 1..Len(s)
    BY LengthType
<1>2. IsFiniteSet(T)
    <2>1. IsFiniteSet(1..Len(s))
        BY <1>1, FS_Interval
    <2>2. f \in Surjection(1..Len(s), T)
        <3>1. f \in [1..Len(s) -> T]
            BY <1>1 DEF Range
        <3>2. \A t \in T : \E i \in 1..Len(s) : f[i] = t
            BY <1>1 DEF Range
        <3> QED BY <3>1, <3>2 DEF Surjection
    <2> HIDE DEF f, T
    <2> QED BY <2>1, <2>2, FS_Surjection
<1>3. IsFiniteSet(S)
    <2> HIDE DEF T
    <2> QED BY <1>2, FS_AddElement
<1>4. S \subseteq Nat /\ S # {}
    OBVIOUS
<1>5. PICK n \in S : \A m \in S : m <= n
    <2> HIDE DEF S
    <2> QED BY <1>3, <1>4, FiniteGreatest
<1> QED BY <1>4, <1>5

(* What is below what is reduced stays there. *)
LEMMA BelowStays ==
    ASSUME ReducedNow' \subseteq ReducedNow, max_var \in Nat, max_var' \in Nat, max_var <= max_var',
           NEW r, NEW v, Below(r, v)
    PROVE  Below(r, v)'
BY DEF Below

(* A reduced literal is one of the prefix. *)
LEMMA ReducedRank ==
    ASSUME RankContext, Translating, Ordered, pc \in InLine, NEW r, Ranked(r), NEW l \in ReducedNow
    PROVE  VarOf(l) \in PrefixVars /\ r[VarOf(l)] \in Nat \ {0}
<1>1. VarOf(l) \in PrefixVars
    BY DEF RankContext, InsideInv, IsInside
<1> QED BY <1>1, LowRank DEF Ranked

(* The gate for what is left is ranked like the last literal of the shadow clause. *)
LEMMA DefineGRanks ==
    ASSUME RankContext, Translating, Ordered, NEW r, Ranked(r), StepRanked(r), DefineG
    PROVE  \E q : Ranked(q)' /\ StepRanked(q)'
<1> DEFINE s == step.shadcls
           gate == Gate(max_var', s)
<1>1. /\ pc = "g" /\ pc \in InLine /\ pc' = "gates"
      /\ UNCHANGED inputVars /\ UNCHANGED <<phase, phase_cache, countermodel_out_var, eflit>>
      /\ max_var' = max_var + 1 /\ max_var' < CONST_TRUE
      /\ gates' = gates \o <<gate>>
    BY DEF DefineG, WriteGates, FreshAvailable, Fresh, InLine, stepUnchanged, readVars, inputVars, arrayVars,
           phaseMaps, eflitMaps
<1>2. StepInv /\ FileInv
    BY DEF RankContext, LookupInv, MapInv
<1>3. /\ step'.g = max_var' /\ step'.auxg = <<max_var'>>
      /\ step'.simple = step.simple /\ step'.merged = step.merged
    BY <1>2 DEF DefineG, StepInv, NewStep, Fresh
<1>4. ReducedNow' = ReducedNow
    BY <1>1, <1>3 DEF ReducedNow
<1>5. max_var \in Nat /\ max_var' \in Nat /\ r \in [Int -> Nat] /\ PrefixVars \subseteq 1..max_var
    <2>1. max_var \in Nat /\ r \in [Int -> Nat] /\ PrefixVars \subseteq 1..max_var
        BY <1>1, RankFacts
    <2>2. max_var' = max_var + 1
        BY <1>1
    <2> QED BY <2>1, <2>2
<1>6. IsSeq(s) /\ \A x \in Range(s) : Below(r, VarOf(x))
    BY <1>1, <1>2 DEF FileInv, StepRanked
<1> HIDE DEF s
<1>7. PICK n \in Nat : /\ \A x \in Range(s) : r[VarOf(x)] <= n
                       /\ n = 0 \/ \E x \in Range(s) : n = r[VarOf(x)]
    BY <1>5, <1>6, LastRank DEF Below
<1> DEFINE ins == {VarOf(x) : x \in Range(s)}
<1>8. gate.out = max_var' /\ gate.ins = ins
    BY DEF Gate, Range
<1> HIDE DEF gate
<1>9. ins \subseteq 1..max_var /\ \A w \in ins : r[w] <= n
    BY <1>6, <1>7 DEF Below
<1> HIDE DEF ins
<1>10. PICK q : /\ Agrees(r, q, max_var) /\ q[max_var'] = n /\ Ranked(q) /\ StepRanked(q)
                /\ EflitsRanked(PrefixVars, q, eflit') => Ranked(q)'
    BY <1>1, <1>8, <1>9, GateRanks
<1>11. Ranked(q)'
    BY <1>1, <1>10 DEF Ranked
<1>12. \A l \in ReducedNow : q[max_var'] < q[VarOf(l)]
    <2> SUFFICES ASSUME NEW l \in ReducedNow PROVE n < q[VarOf(l)]
        BY <1>10
    <2>1. VarOf(l) \in PrefixVars /\ r[VarOf(l)] \in Nat \ {0}
        BY <1>1, ReducedRank
    <2>2. q[VarOf(l)] = r[VarOf(l)]
        BY <1>5, <1>10, <2>1 DEF Agrees, Terms
    <2>3. \A x \in Range(s) : r[VarOf(x)] < r[VarOf(l)]
        BY <1>6 DEF Below
    <2> QED BY <1>7, <2>1, <2>2, <2>3
<1>13. StepRanked(q)'
    <2>1. max_var' \in 1..max_var'
        BY <1>1, <1>5
    <2>2. step'.g \in 1..max_var' /\ \A l \in ReducedNow' : q[step'.g] < q[VarOf(l)]
        BY <1>3, <1>4, <1>12, <2>1
    <2>3. step'.auxg \in Seq(1..max_var') /\ step'.auxg # <<>>
        <3>1. <<max_var'>> \in Seq(1..max_var') /\ <<max_var'>> # <<>>
            BY <2>1
        <3> QED BY <1>3, <3>1
    <2> QED BY <1>1, <2>2, <2>3 DEF StepRanked, Below
<1> QED BY <1>11, <1>13

(* The effective literal of a variable of the formula is one in use. *)
LEMMA EffectiveVar ==
    ASSUME RankContext, Translating, Ordered, pc \in InLine, NEW l, VarOf(l) \in Found
    PROVE  VarOf(EffectiveLit(l)) \in 1..max_var
<1>1. max_var \in Nat /\ Found \subseteq 1..max_var
    BY RankFacts
<1>2. \A k \in DOMAIN eflit : eflit[k] \in 1..max_var
    BY DEF RankContext, LookupInv, MapInv, VarInv, ValuesBelow
<1>3. CASE <<VarOf(l), GetPhase(res, l)>> \in DOMAIN eflit
    <2>1. EffectiveLit(l) \in 1..max_var
        BY <1>2, <1>3 DEF EffectiveLit, GetEflit, EflitIn
    <2> QED BY <1>1, <2>1 DEF VarOf
<1>4. CASE <<VarOf(l), GetPhase(res, l)>> \notin DOMAIN eflit
    <2>1. EffectiveLit(l) = l
        BY <1>4 DEF EffectiveLit, GetEflit, EflitIn
    <2> QED BY <1>1, <2>1
<1> QED BY <1>3, <1>4

(* The gate for what is left and the reduced merged literals up to this one. *)
LEMMA AuxGateRanks ==
    ASSUME RankContext, Translating, Ordered, NEW r, Ranked(r), StepRanked(r), AuxGate
    PROVE  \E q : Ranked(q)' /\ StepRanked(q)'
<1> DEFINE aux == step.auxg
           last == Last(aux)
           ef == EffectiveLit(step.merged[Len(aux)])
           gate == Gate(max_var', <<last, ef>>)
<1>1. /\ pc = "gates" /\ pc \in InLine /\ pc' = "gates" /\ Len(aux) <= Len(step.merged)
      /\ UNCHANGED inputVars /\ UNCHANGED <<phase, phase_cache, countermodel_out_var, eflit>>
      /\ max_var' = max_var + 1 /\ max_var' < CONST_TRUE
      /\ gates' = gates \o <<gate>>
    BY DEF AuxGate, WriteGates, FreshAvailable, Fresh, InLine, stepUnchanged, readVars, inputVars, arrayVars,
           phaseMaps, eflitMaps
<1>2. StepInv /\ StepVarsInv
    BY DEF RankContext, LookupInv, MapInv, DefineInv
<1>3. /\ step'.g = step.g /\ step'.auxg = Append(aux, max_var')
      /\ step'.simple = step.simple /\ step'.merged = step.merged
    BY <1>2 DEF AuxGate, StepInv, NewStep, Fresh
<1> HIDE DEF gate
<1>4. ReducedNow' = ReducedNow
    BY <1>1, <1>3 DEF ReducedNow
<1>5. /\ max_var \in Nat /\ r \in [Int -> Nat] /\ PrefixVars \subseteq 1..max_var
      /\ Found \subseteq 1..max_var /\ VariablesKnown
    BY <1>1, RankFacts
<1>6. max_var' = max_var + 1 /\ max_var' \in Nat /\ max_var <= max_var'
    BY <1>1, <1>5
<1>7. aux \in Seq(1..max_var) /\ aux # <<>> /\ Below(r, step.g)
    BY <1>1 DEF StepRanked
<1> HIDE DEF aux
<1>8. Len(aux) \in Nat \ {0} /\ last \in 1..max_var
    <2> DEFINE S == 1..max_var
    <2>1. aux \in Seq(S) /\ aux # <<>>
        BY <1>7
    <2> HIDE DEF S
    <2>2. Len(aux) \in Nat \ {0} /\ aux[Len(aux)] \in S
        BY <2>1
    <2> QED BY <2>2 DEF Last, S
<1>9. VarOf(ef) \in 1..max_var
    <2>1. step.merged \in Seq({l \in KnownLits : l > 0})
        BY <1>1, <1>2, <1>5 DEF StepVarsInv
    <2>2. step.merged[Len(aux)] \in KnownLits
        BY <1>1, <1>8, <2>1
    <2> QED BY <1>1, <2>2, EffectiveVar DEF KnownLits
<1> HIDE DEF last, ef
<1> DEFINE ins == {last, VarOf(ef)}
           n == r[last] + r[VarOf(ef)]
<1>10. gate.out = max_var' /\ gate.ins = ins
    <2>1. VarOf(last) = last
        BY <1>5, <1>8 DEF VarOf
    <2> QED BY <2>1 DEF Gate, gate
<1>11. n \in Nat /\ ins \subseteq 1..max_var /\ \A w \in ins : r[w] <= n
    <2>1. last \in Int /\ VarOf(ef) \in Int
        BY <1>5, <1>8, <1>9
    <2>2. r[last] \in Nat /\ r[VarOf(ef)] \in Nat
        BY <1>5, <2>1
    <2> QED BY <1>8, <1>9, <2>2
<1> HIDE DEF ins, n
<1>12. PICK q : /\ Agrees(r, q, max_var) /\ q[max_var'] = n /\ Ranked(q) /\ StepRanked(q)
                /\ EflitsRanked(PrefixVars, q, eflit') => Ranked(q)'
    BY <1>1, <1>10, <1>11, GateRanks
<1>13. Ranked(q)'
    BY <1>1, <1>12 DEF Ranked
<1>14. StepRanked(q)'
    <2>1. Below(q, step.g)
        BY <1>1, <1>12 DEF StepRanked
    <2>2. step'.g \in 1..max_var' /\ \A l \in ReducedNow' : q[step'.g] < q[VarOf(l)]
        <3>1. step.g \in 1..max_var /\ \A l \in ReducedNow : q[step.g] < q[VarOf(l)]
            BY <2>1 DEF Below
        <3>2. step.g \in 1..max_var'
            BY <1>5, <1>6, <3>1
        <3> QED BY <1>3, <1>4, <3>1, <3>2
    <2>3. step'.auxg \in Seq(1..max_var') /\ step'.auxg # <<>>
        <3>1. aux \in Seq(1..max_var')
            <4>1. 1..max_var \subseteq 1..max_var'
                BY <1>5, <1>6
            <4>2. \A S, T : S \subseteq T => Seq(S) \subseteq Seq(T)
                OBVIOUS
            <4> QED BY <1>7, <4>1, <4>2
        <3>2. max_var' \in 1..max_var'
            BY <1>5, <1>6
        <3> QED BY <1>3, <3>1, <3>2 DEF aux
    <2> QED BY <1>1, <2>2, <2>3 DEF StepRanked, Below
<1> QED BY <1>13, <1>14

(* What is left of the clause, by its effective literals, is in front of what is reduced. *)
LEMMA ShadowRanks ==
    ASSUME RankContext, Translating, Ordered, NEW r, Ranked(r), StepRanked(r), SplitAndShadow
    PROVE  Ranked(r)' /\ StepRanked(r)'
<1>1. /\ pc = "split" /\ pc \in InLine /\ pc' \in {"emit", "g"}
      /\ UNCHANGED inputVars
      /\ UNCHANGED <<max_var, gates, phase, phase_cache, countermodel_out_var, eflit>>
    BY DEF SplitAndShadow, InLine, stepUnchanged, readVars, inputVars, arrayVars, fileVars, phaseMaps, eflitMaps
<1>2. StepInv /\ MergedInv /\ ClauseInv /\ ClauseVarsInv /\ InsideInv /\ VarInv
    BY DEF RankContext, LookupInv, MapInv, DefineInv
<1>3. step'.shadcls = Shadow
    BY <1>2 DEF SplitAndShadow, StepInv, NewStep
<1>4. ReducedNow' \subseteq ReducedNow
    BY <1>2, NothingAdded DEF MergingPhases
<1>5. /\ max_var \in Nat /\ r \in [Int -> Nat] /\ PrefixVars \subseteq Found
      /\ Found \subseteq 1..max_var /\ VariablesKnown /\ pc \notin Before
    BY <1>1, RankFacts
<1>6. Ranked(r)'
    <2>1. PhasesRanked(PrefixVars, r, phase')
        BY <1>1 DEF Ranked
    <2> QED BY <1>1, <1>5, <2>1, QuietRanks
<1>7. ASSUME NEW x \in Range(Shadow) PROVE Below(r, VarOf(x))
    <2> DEFINE S == {l \in Clause(res) : EffectiveLit(l) = l \/ l > 0}
               kept == SortedClause(S)
    <2>1. IsFiniteSet(S) /\ S \subseteq Int
        <3>1. IsLiteralSet(Clause(res))
            BY <1>2, ClauseType
        <3>2. IsLiteralSet(S)
            BY <3>1, LiteralSubset
        <3> QED BY <3>2 DEF IsLiteralSet
    <2>2. kept \in Seq(S)
        <3> HIDE DEF S
        <3> QED BY <2>1, SortedClauseType
    <2>3. PICK i \in DOMAIN kept : x = EffectiveLit(kept[i])
        BY DEF Shadow, Range
    <2>4. kept[i] \in S
        <3> HIDE DEF S, kept
        <3> QED BY <2>2
    <2>5. PICK l \in Clause(res) : x = EffectiveLit(l)
        BY <2>3, <2>4
    <2> HIDE DEF S, kept
    <2>6. VarOf(l) \in Found
        <3>1. IsKnown(Clause(res))
            BY <1>2, <1>5, ClauseIsKnown
        <3> QED BY <2>5, <3>1 DEF IsKnown, VarsOf
    <2>7. VarOf(x) \in 1..max_var
        BY <1>1, <2>5, <2>6, EffectiveVar
    <2>8. ASSUME NEW m \in ReducedNow PROVE r[VarOf(x)] < r[VarOf(m)]
        <3>1. VarOf(m) \in PrefixVars /\ (VarOf(l) \in PrefixVars => InFront(VarOf(l), VarOf(m)))
            BY <1>2, <2>5, <2>8 DEF InsideInv, IsInside, AllInFront
        <3>2. r[VarOf(l)] < r[VarOf(m)]
            BY <1>1, <2>6, <3>1, LowRank DEF Ranked
        <3> DEFINE k == <<VarOf(l), GetPhase(res, l)>>
        <3>3. CASE k \in DOMAIN eflit
            <4>1. x = eflit[k] /\ eflit[k] \in 1..max_var
                BY <1>2, <2>5, <3>3 DEF EffectiveLit, GetEflit, EflitIn, VarInv, ValuesBelow
            <4>2. VarOf(x) = x
                BY <1>5, <4>1 DEF VarOf
            <4>3. k[1] = VarOf(l) /\ r[eflit[k]] <= r[k[1]]
                BY <3>3 DEF Ranked, EflitsRanked
            <4>4. r[x] \in Nat /\ r[VarOf(l)] \in Nat /\ r[VarOf(m)] \in Nat
                <5>1. VarOf(m) \in Found
                    BY <1>5, <3>1
                <5>3. x \in 1..max_var /\ VarOf(l) \in 1..max_var /\ VarOf(m) \in 1..max_var
                    BY <1>5, <2>6, <4>1, <5>1
                <5> HIDE DEF k
                <5>2. x \in Int /\ VarOf(l) \in Int /\ VarOf(m) \in Int
                    BY <5>3
                <5> QED BY <1>5, <5>2
            <4> HIDE DEF k
            <4> QED BY <3>2, <4>1, <4>2, <4>3, <4>4
        <3>4. CASE k \notin DOMAIN eflit
            <4>1. x = l
                BY <2>5, <3>4 DEF EffectiveLit, GetEflit, EflitIn
            <4> QED BY <3>2, <4>1
        <3> QED BY <3>3, <3>4
    <2> QED BY <2>7, <2>8 DEF Below
<1>8. StepRanked(r)'
    <2>1. \A x \in Range(step'.shadcls) :
              /\ VarOf(x) \in 1..max_var' /\ \A l \in ReducedNow' : r[VarOf(x)] < r[VarOf(l)]
        BY <1>1, <1>3, <1>4, <1>7 DEF Below
    <2> QED BY <1>1, <2>1 DEF StepRanked, Below
<1> QED BY <1>6, <1>8

(* The gates of an array see fresh variables and what is below the variable; the fresh ones
   are ranked next below it. *)
LEMMA ArrayRanks ==
    ASSUME RankContext, Translating, Ordered, pc \in InLine, NEW r, Ranked(r), StepRanked(r),
           UNCHANGED inputVars, UNCHANGED <<phase, phase_cache, eflit>>,
           NEW var \in PrefixVars, max_var' \in Nat, max_var < max_var', max_var' < CONST_TRUE,
           NEW defs, IsSeq(defs),
           \A i \in DOMAIN defs :
               /\ defs[i].out \in {OutVar(var)} \cup (max_var + 1)..max_var'
               /\ \A w \in defs[i].ins :
                      w \in (max_var + 1)..max_var' \/ (w \in 1..max_var /\ r[w] < r[var]),
           gates' = gates \o defs,
           countermodel_out_var' = Put(countermodel_out_var, var, max_var')
    PROVE  \E q : Agrees(r, q, max_var) /\ Ranked(q) /\ StepRanked(q) /\ Ranked(q)'
<1> DEFINE n == r[var] - 1
           fresh == (max_var + 1)..max_var'
<1>1. /\ max_var \in Nat /\ r \in [Int -> Nat] /\ PrefixVars \subseteq Found
      /\ Found \subseteq 1..max_var /\ VariablesKnown
    BY RankFacts
<1>2. VarInv /\ CircuitInv /\ InsideInv /\ PendingEflit
    BY DEF RankContext, LookupInv, MapInv, DefineInv
<1>3. r[var] \in Nat \ {0} /\ n \in Nat
    BY LowRank DEF Ranked
<1>4. PICK q : Agrees(r, q, max_var) /\ \A x \in fresh : q[x] = n
    <2> HIDE DEF n
    <2> QED BY <1>1, <1>3, FreshRanks
<1>5. Ranked(q) /\ StepRanked(q)
    BY <1>1, <1>2, <1>4, RanksAgree
<1>6. /\ q \in [Int -> Nat] /\ \A v \in 1..max_var : q[v] = r[v]
      /\ var \in 1..max_var /\ q[var] = r[var]
    <2>1. var \in 1..max_var
        BY <1>1
    <2> QED BY <1>4, <2>1 DEF Agrees, Terms
<1>7. \A x \in fresh : x \notin PrefixVars /\ x \in 1..max_var'
    BY <1>1
<1>8. q[OutVar(var)] \in Nat /\ q[OutVar(var)] >= n
      /\ (OutVar(var) \in PrefixVars => q[OutVar(var)] > n)
    <2>1. CASE var \in DOMAIN countermodel_out_var
        <3>1. OutVar(var) \in 1..max_var /\ OutVar(var) \notin Found
            BY <1>1, <1>2, <2>1 DEF OutVar, VarInv, ValuesBelow, CircuitInv, RestsAreFresh
        <3>2. r[OutVar(var)] + 1 = r[var]
            BY <2>1 DEF Ranked, RestsRanked, OutVar
        <3>3. OutVar(var) \in Int
            BY <1>1, <3>1
        <3>4. r[OutVar(var)] \in Nat
            BY <1>1, <3>3
        <3> QED BY <1>1, <1>3, <1>6, <3>1, <3>2, <3>4
    <2>2. CASE var \notin DOMAIN countermodel_out_var
        <3>1. OutVar(var) = var
            BY <2>2 DEF OutVar
        <3>2. q[OutVar(var)] = r[var]
            BY <1>6, <3>1
        <3> QED BY <1>3, <3>2
    <2> QED BY <2>1, <2>2
<1>9. GatesRanked(PrefixVars, q, gates', max_var')
    <2>1. ASSUME NEW i \in DOMAIN defs, NEW w \in defs[i].ins
          PROVE  w \in 1..max_var' /\ q[w] <= n /\ q[w] \in Nat
        <3>1. CASE w \in fresh
            BY <1>3, <1>4, <1>7, <3>1
        <3>2. CASE w \in 1..max_var /\ r[w] < r[var]
            <4>1. w \in 1..max_var' /\ w \in Int
                BY <1>1, <3>2
            <4>2. q[w] = r[w] /\ r[w] \in Nat
                BY <1>1, <1>6, <3>2, <4>1
            <4> QED BY <1>3, <3>2, <4>1, <4>2
        <3> QED BY <2>1, <3>1, <3>2
    <2>2. ASSUME NEW i \in DOMAIN defs
          PROVE  LET v == defs[i].out
                 IN  q[v] \in Nat /\ n <= q[v] /\ (v \in PrefixVars => n < q[v])
        <3>1. CASE defs[i].out = OutVar(var)
            BY <1>3, <1>8, <3>1
        <3>2. CASE defs[i].out \in fresh
            BY <1>3, <1>4, <1>7, <3>2
        <3> QED BY <2>2, <3>1, <3>2
    <2>3. ASSUME NEW i \in DOMAIN defs, NEW w \in defs[i].ins
          PROVE  w \in 1..max_var' /\ Feeds(PrefixVars, q, w, defs[i].out)
        <3>1. w \in 1..max_var' /\ q[w] <= n /\ q[w] \in Nat
            BY <2>1, <2>3
        <3>2. /\ q[defs[i].out] \in Nat /\ n <= q[defs[i].out]
              /\ (defs[i].out \in PrefixVars => n < q[defs[i].out])
            BY <2>2, <2>3
        <3> HIDE DEF n
        <3> QED BY <1>3, <3>1, <3>2 DEF Feeds
    <2>4. GatesRanked(PrefixVars, q, defs, max_var')
        BY <2>3 DEF GatesRanked
    <2>5. IsSeq(gates) /\ GatesRanked(PrefixVars, q, gates, max_var)
        BY <1>2, <1>5 DEF CircuitInv, Ranked
    <2>6. max_var <= max_var'
        BY <1>1
    <2> QED BY <1>1, <2>4, <2>5, <2>6, MoreRanked
<1>10. RestsRanked(PrefixVars, q, countermodel_out_var')
    <2>1. q[max_var'] + 1 = q[var]
        <3>1. max_var' \in fresh
            BY <1>1
        <3>2. q[max_var'] = n /\ q[var] = r[var]
            BY <1>4, <1>6, <3>1
        <3> QED BY <1>3, <3>2
    <2> QED BY <1>5, <2>1, InsertRanked DEF Ranked
<1>11. CacheRanked(q, phase_cache', max_var')
    <2>1. max_var <= max_var'
        BY <1>1
    <2> QED BY <1>1, <1>5, <2>1, CacheStays DEF Ranked
<1>12. Ranked(q)'
    BY <1>5, <1>9, <1>10, <1>11, RankedNext DEF Ranked
<1> QED BY <1>4, <1>5, <1>12

(* What a reduction keeps for the next one. *)
LEMMA ReducingRanked ==
    ASSUME max_var \in Nat, max_var' \in Nat, max_var <= max_var', NEW q, StepRanked(q),
           pc \in {"gates", "merged"}, pc' = pc, UNCHANGED <<step.g, step.simple, step.merged>>,
           pc = "gates" => step'.auxg = step.auxg
    PROVE  StepRanked(q)'
<1>1. ReducedNow' = ReducedNow
    BY DEF ReducedNow
<1>2. step.g \in 1..max_var /\ \A l \in ReducedNow : q[step.g] < q[VarOf(l)]
    BY DEF StepRanked, Below
<1>3. step'.g \in 1..max_var' /\ \A l \in ReducedNow' : q[step'.g] < q[VarOf(l)]
    BY <1>1, <1>2
<1>4. pc = "gates" => step'.auxg \in Seq(1..max_var') /\ step'.auxg # <<>>
    <2>1. 1..max_var \subseteq 1..max_var'
        OBVIOUS
    <2>2. \A S, T : S \subseteq T => Seq(S) \subseteq Seq(T)
        OBVIOUS
    <2>3. pc = "gates" => step.auxg \in Seq(1..max_var) /\ step.auxg # <<>>
        BY DEF StepRanked
    <2> QED BY <2>1, <2>2, <2>3
<1> QED BY <1>3, <1>4 DEF StepRanked, Below

(* The entry of a simple reduced literal in its array. *)
LEMMA ReduceSimpleRanks ==
    ASSUME RankContext, Translating, Ordered, NEW r, Ranked(r), StepRanked(r), ReduceSimple
    PROVE  \E q : Ranked(q)' /\ StepRanked(q)'
<1> DEFINE l == step.simple[step.idx]
           var == VarOf(l)
           defs == <<Gate(OutVar(var), <<step.g, max_var'>>)>>
<1>1. /\ pc = "gates" /\ pc \in InLine /\ pc' = "gates" /\ step.idx <= Len(step.simple)
      /\ UNCHANGED inputVars /\ UNCHANGED <<phase, phase_cache, eflit>>
      /\ max_var' = max_var + 1 /\ max_var' < CONST_TRUE
      /\ gates' = gates \o defs /\ countermodel_out_var' = Put(countermodel_out_var, var, max_var')
    BY DEF ReduceSimple, WriteGates, FreshAvailable, Fresh, InLine, stepUnchanged, readVars, inputVars,
           phaseMaps, eflitMaps
<1> HIDE DEF defs
<1>2. StepInv /\ StepVarsInv
    BY DEF RankContext, LookupInv, MapInv, DefineInv
<1>3. UNCHANGED <<step.g, step.auxg, step.simple, step.merged>>
    BY <1>2 DEF ReduceSimple, StepInv, NewStep
<1>4. max_var \in Nat /\ r \in [Int -> Nat] /\ VariablesKnown
    BY <1>1, RankFacts
<1>5. max_var' \in Nat /\ max_var <= max_var' /\ max_var < max_var'
    <2>1. max_var' = max_var + 1
        BY <1>1
    <2> QED BY <1>4, <2>1
<1>6. l \in ReducedNow
    <2>1. step.simple \in Seq(KnownLits) /\ step.idx \in Nat \ {0}
        BY <1>1, <1>2, <1>4 DEF StepVarsInv
    <2>2. step.idx \in DOMAIN step.simple
        BY <1>1, <2>1
    <2> QED BY <1>1, <2>2 DEF ReducedNow, Range
<1>7. var \in PrefixVars
    BY <1>1, <1>6, ReducedRank
<1>8. step.g \in 1..max_var /\ r[step.g] < r[var]
    BY <1>1, <1>6 DEF StepRanked, Below
<1> HIDE DEF var
<1>9. VarOf(step.g) = step.g /\ VarOf(max_var') = max_var'
    <2>1. \A n \in Nat : VarOf(n) = n
        BY DEF VarOf
    <2>2. step.g \in Nat
        BY <1>4, <1>8
    <2> QED BY <1>5, <2>1, <2>2
<1>10. IsSeq(defs) /\ DOMAIN defs = {1} /\ defs[1].out = OutVar(var) /\ defs[1].ins = {step.g, max_var'}
    BY <1>9, OneIsSeq DEF defs, Gate
<1>11. ASSUME NEW i \in DOMAIN defs
       PROVE  /\ defs[i].out \in {OutVar(var)} \cup (max_var + 1)..max_var'
              /\ \A w \in defs[i].ins :
                     w \in (max_var + 1)..max_var' \/ (w \in 1..max_var /\ r[w] < r[var])
    <2>1. max_var' \in (max_var + 1)..max_var'
        BY <1>1, <1>4
    <2> QED BY <1>8, <1>10, <2>1
<1>12. PICK q : Agrees(r, q, max_var) /\ Ranked(q) /\ StepRanked(q) /\ Ranked(q)'
    BY <1>1, <1>5, <1>7, <1>10, <1>11, ArrayRanks
<1>13. StepRanked(q)'
    BY <1>1, <1>3, <1>4, <1>5, <1>12, ReducingRanked
<1> QED BY <1>12, <1>13

(* What a gate of two inputs sees. *)
LEMMA PairGate ==
    ASSUME NEW out, NEW x, NEW y, VarOf(x) = x, VarOf(y) = y
    PROVE  Gate(out, <<x, y>>).out = out /\ Gate(out, <<x, y>>).ins = {x, y}
<1>1. Gate(out, <<x, y>>).out = out /\ Gate(out, <<x, y>>).ins = {VarOf(x), VarOf(y)}
    BY DEF Gate
<1> QED BY <1>1

(* The two entries of a merged one, and the gates for their conditions. *)
LEMMA ReduceMergedRanks ==
    ASSUME RankContext, Translating, Ordered, NEW r, Ranked(r), StepRanked(r), ReduceMerged
    PROVE  \E q : Ranked(q)' /\ StepRanked(q)'
<1> DEFINE var == step.merged[step.idx]
           phi == GetPhase(res, var)
           defs == <<Gate(Fresh(1), <<step.g, phi>>), Gate(Fresh(2), <<step.g, phi>>),
                     Gate(OutVar(var), <<Fresh(1), Fresh(3)>>), Gate(Fresh(3), <<Fresh(2), Fresh(4)>>)>>
<1>1. /\ pc = "merged" /\ pc \in InLine /\ pc' = pc /\ step.idx >= 1
      /\ UNCHANGED inputVars /\ UNCHANGED <<phase, phase_cache, eflit>>
      /\ max_var' = Fresh(4) /\ max_var' < CONST_TRUE
      /\ gates' = gates \o defs /\ countermodel_out_var' = Put(countermodel_out_var, var, max_var')
    BY DEF ReduceMerged, WriteGates, FreshAvailable, Fresh, InLine, stepUnchanged, readVars, inputVars,
           phaseMaps, eflitMaps
<1> HIDE DEF defs
<1>2. StepInv /\ StepVarsInv /\ ReducedInv /\ VarInv
    BY DEF RankContext, LookupInv, MapInv, DefineInv
<1>3. UNCHANGED <<step.g, step.simple, step.merged>>
    BY <1>2 DEF ReduceMerged, StepInv, NewStep
<1>4. max_var \in Nat /\ r \in [Int -> Nat] /\ VariablesKnown
    BY <1>1, RankFacts
<1>5. max_var' = max_var + 4
    BY <1>1 DEF Fresh
<1>6. max_var' \in Nat /\ max_var <= max_var' /\ max_var < max_var'
    BY <1>4, <1>5
<1>7. step.idx \in DOMAIN step.merged /\ var > 0 /\ var \in Int /\ ~IsConst(phi)
    <2>1. step.merged \in Seq({x \in KnownLits : x > 0}) /\ step.idx \in 0..Len(step.merged)
        BY <1>1, <1>2, <1>4 DEF StepVarsInv
    <2>2. step.idx \in DOMAIN step.merged
        BY <1>1, <2>1
    <2>3. var \in KnownLits /\ var > 0
        BY <2>1, <2>2
    <2> QED BY <1>1, <1>2, <2>2, <2>3 DEF ReducedInv, KnownLits, NonZero
<1>8. VarOf(var) = var /\ var \in ReducedNow
    BY <1>1, <1>7 DEF VarOf, ReducedNow, Range
<1>9. var \in PrefixVars
    BY <1>1, <1>8, ReducedRank
<1>10. step.g \in 1..max_var /\ r[step.g] < r[var]
    <2>1. r[step.g] < r[VarOf(var)] /\ step.g \in 1..max_var
        BY <1>1, <1>8 DEF StepRanked, Below
    <2> QED BY <1>8, <2>1
<1>11. phi \in 1..max_var /\ r[phi] < r[var]
    <2>1. GetPhase(res, var) \in Terms(max_var) /\ r[GetPhase(res, var)] < r[VarOf(var)]
        BY <1>1, <1>8, <1>9, LowPhase
    <2> QED BY <1>7, <1>8, <2>1 DEF Terms, IsConst
<1> HIDE DEF var, phi
<1> DEFINE a == max_var + 1
           b == max_var + 2
           c == max_var + 3
           d == max_var + 4
<1>12. /\ VarOf(step.g) = step.g /\ VarOf(phi) = phi
       /\ VarOf(a) = a /\ VarOf(b) = b /\ VarOf(c) = c /\ VarOf(d) = d
    BY <1>4, <1>10, <1>11 DEF VarOf
<1>13. /\ Fresh(1) = a /\ Fresh(2) = b /\ Fresh(3) = c /\ Fresh(4) = d
       /\ {a, b, c, d} \subseteq (max_var + 1)..max_var'
    BY <1>4, <1>5 DEF Fresh
<1> HIDE DEF a, b, c, d
<1>14. IsSeq(defs)
    BY FourIsSeq DEF defs
<1>15. /\ DOMAIN defs = 1..4
       /\ defs[1].out = a /\ defs[1].ins = {step.g, phi}
       /\ defs[2].out = b /\ defs[2].ins = {step.g, phi}
       /\ defs[3].out = OutVar(var) /\ defs[3].ins = {a, c}
       /\ defs[4].out = c /\ defs[4].ins = {b, d}
    <2>1. /\ DOMAIN defs = 1..4
          /\ defs[1] = Gate(a, <<step.g, phi>>) /\ defs[2] = Gate(b, <<step.g, phi>>)
          /\ defs[3] = Gate(OutVar(var), <<a, c>>) /\ defs[4] = Gate(c, <<b, d>>)
        BY <1>13 DEF defs
    <2>2. defs[1].out = a /\ defs[1].ins = {step.g, phi}
        BY <1>12, <2>1, PairGate
    <2>3. defs[2].out = b /\ defs[2].ins = {step.g, phi}
        BY <1>12, <2>1, PairGate
    <2>4. defs[3].out = OutVar(var) /\ defs[3].ins = {a, c}
        BY <1>12, <2>1, PairGate
    <2>5. defs[4].out = c /\ defs[4].ins = {b, d}
        BY <1>12, <2>1, PairGate
    <2> QED BY <2>1, <2>2, <2>3, <2>4, <2>5
<1>16. ASSUME NEW i \in DOMAIN defs
       PROVE  /\ defs[i].out \in {OutVar(var)} \cup (max_var + 1)..max_var'
              /\ \A w \in defs[i].ins :
                     w \in (max_var + 1)..max_var' \/ (w \in 1..max_var /\ r[w] < r[var])
    <2>1. i = 1 \/ i = 2 \/ i = 3 \/ i = 4
        BY <1>15
    <2> QED BY <1>10, <1>11, <1>13, <1>15, <2>1
<1>17. PICK q : Agrees(r, q, max_var) /\ Ranked(q) /\ StepRanked(q) /\ Ranked(q)'
    BY <1>1, <1>6, <1>9, <1>14, <1>16, ArrayRanks
<1>18. StepRanked(q)'
    BY <1>1, <1>3, <1>4, <1>6, <1>17, ReducingRanked
<1> QED BY <1>17, <1>18

\* The table of phases stays ranked.
PhasesStayRanked ==
    \A prefix, r : PhasesRanked(prefix, r, phase) => PhasesRanked(prefix, r, phase')

(* The other steps define nothing; the phases are copied, or forgotten. *)
LEMMA QuietFrame ==
    ASSUME \/ ReadingLines \/ Checking \/ KnownEflit \/ CopyParentPhases \/ GLemma \/ PushArrays
           \/ NotReducing \/ ReturnReduction \/ ReturnSafetyReduction \/ ReturnIntermediate
           \/ ReturnFinal \/ EndOfProof \/ WriteGratProof
    PROVE  /\ UNCHANGED <<gates, eflit, phase_cache, countermodel_out_var>>
           /\ PhasesStayRanked
           /\ ~GLemma => pc' \notin {"eflit", "g", "gates", "merged"}
<1> USE DEF readVars, phaseVars, phaseMaps, eflitMaps, fileVars, arrayVars
<1>1. ASSUME UNCHANGED phase PROVE PhasesStayRanked
    BY <1>1 DEF PhasesStayRanked
<1>2. CASE ReadingLines
    <2>1. /\ UNCHANGED <<gates, eflit, phase_cache, countermodel_out_var, phase>>
          /\ pc' \notin {"eflit", "g", "gates", "merged"}
        BY <1>2 DEF ReadingLines, ReadingLine, CoreLine, SkipLine, RecordInternalAxiom,
                    RecordInputClause, RecordInitialTerm, ReadReduction, ReadResolution, NextResolution
    <2> QED BY <1>1, <2>1
<1>3. CASE Checking
    <2>1. CASE CheckResolutionStep
        BY <1>1, <2>1 DEF CheckResolutionStep
    <2>2. CASE CheckReductionStep
        <3>1. /\ UNCHANGED <<gates, eflit, phase_cache, countermodel_out_var>> /\ pc' = "split"
              /\ phase' = CopyPhases(phase, Clause(left), left, res)
            BY <2>2 DEF CheckReductionStep
        <3> QED BY <3>1, CopyRanked DEF PhasesStayRanked
    <2> QED BY <1>3, <2>1, <2>2 DEF Checking
<1>4. CASE CopyParentPhases
    <2>1. /\ UNCHANGED <<gates, eflit, phase_cache, countermodel_out_var>> /\ pc' = "split"
          /\ phase' = CopyPhases(CopyPhases(phase, Clause(left), left, res), Clause(right), right, res)
        BY <1>4 DEF CopyParentPhases
    <2> QED BY <2>1, CopyRanked DEF PhasesStayRanked
<1>5. CASE KnownEflit \/ PushArrays \/ NotReducing
    <2>1. /\ UNCHANGED <<gates, eflit, phase_cache, countermodel_out_var, phase>>
          /\ pc' \notin {"eflit", "g", "gates", "merged"}
        BY <1>5 DEF KnownEflit, PushArrays, NotReducing, EmitResolvent, Reroute
    <2> QED BY <1>1, <2>1
<1>6. CASE GLemma
    BY <1>1, <1>6 DEF GLemma
<1>7. CASE ReturnReduction \/ ReturnSafetyReduction \/ EndOfProof \/ WriteGratProof
    <2>1. /\ UNCHANGED <<gates, eflit, phase_cache, countermodel_out_var, phase>>
          /\ pc' \notin {"eflit", "g", "gates", "merged"}
        BY <1>7 DEF ReturnReduction, ReturnSafetyReduction, EndOfProof, WriteGratProof, returnUnchanged
    <2> QED BY <1>1, <2>1
<1>8. CASE ReturnIntermediate \/ ReturnFinal
    <2>1. /\ UNCHANGED <<gates, eflit, phase_cache, countermodel_out_var>>
          /\ pc' \notin {"eflit", "g", "gates", "merged"} /\ \E ids : ForgetPhases(ids)
        BY <1>8 DEF ReturnIntermediate, ReturnFinal, Forget, returnUnchanged
    <2>2. \E keys : phase' = Without(phase, keys)
        BY <2>1 DEF ForgetPhases
    <2> QED BY <2>1, <2>2, WithoutRanked DEF PhasesStayRanked
<1> QED BY <1>2, <1>3, <1>4, <1>5, <1>6, <1>7, <1>8

(* The gates have ranks, whatever the proof. *)
LEMMA RankNext == RankContext /\ RankInv /\ [Next]_vars => RankInv'
<1> SUFFICES ASSUME RankContext, RankInv, [Next]_vars, Translating', Ordered'
             PROVE  \E r : Ranked(r)' /\ StepRanked(r)'
    BY DEF RankInv
<1>1. /\ ControlInv /\ TypesInv /\ ClauseInv /\ StepInv /\ VarInv
    BY DEF RankContext, LookupInv, MapInv, DefineInv
<1>2. pc' \notin Before \cup {"end"}
    BY DEF Translating
<1>3. CASE OpenProof
    BY <1>3, RanksBegin
<1>4. CASE ~OpenProof
    <2>1. /\ pc \notin Before \cup {"end"}
          /\ \/ UNCHANGED vars \/ ReadingLines \/ Checking \/ MergingPhases \/ Reducing
             \/ NotReducing \/ ReturnReduction \/ ReturnSafetyReduction
             \/ ReturnIntermediate \/ ReturnFinal \/ EndOfProof \/ WriteGratProof
        BY <1>1, <1>2, <1>4, Course
    <2>2. UNCHANGED inputVars /\ UNCHANGED SpareIdIsFree
        BY <1>1, <2>1, PremisesStay
    <2>3. Translating
        BY <2>1, <2>2 DEF Translating
    <2>4. Ordered
        BY <1>1, <2>1, OrderedBack
    <2>5. max_var \in Nat /\ max_var' \in Nat /\ max_var <= max_var'
        BY <1>1, MaxVarGrows
    <2>6. PICK r : Ranked(r) /\ StepRanked(r)
        BY <2>3, <2>4 DEF RankInv
    <2>7. PhasesRanked(PrefixVars, r, phase)
        BY <2>6 DEF Ranked
    <2>8. CASE UNCHANGED vars
        <3>1. UNCHANGED <<gates, eflit, phase_cache, countermodel_out_var, phase, pc, step, max_var>>
            BY <2>8 DEF vars, phaseVars, phaseMaps, eflitMaps, fileVars, arrayVars
        <3>2. Ranked(r)'
            BY <2>2, <2>5, <2>6, <2>7, <3>1, QuietRanks
        <3>3. ReducedNow' = ReducedNow
            BY <3>1 DEF ReducedNow
        <3>4. \A v : Below(r, v)' <=> Below(r, v)
            BY <3>1, <3>3 DEF Below
        <3>5. StepRanked(r)'
            BY <2>6, <3>1, <3>4 DEF StepRanked, Below
        <3> QED BY <3>2, <3>5
    <2>9. ASSUME \/ ReadingLines \/ Checking \/ KnownEflit \/ CopyParentPhases \/ GLemma \/ PushArrays
                 \/ NotReducing \/ ReturnReduction \/ ReturnSafetyReduction \/ ReturnIntermediate
                 \/ ReturnFinal \/ EndOfProof \/ WriteGratProof
          PROVE  \E q : Ranked(q)' /\ StepRanked(q)'
        <3>1. /\ UNCHANGED <<gates, eflit, phase_cache, countermodel_out_var>> /\ PhasesStayRanked
              /\ ~GLemma => pc' \notin {"eflit", "g", "gates", "merged"}
            BY <2>9, QuietFrame
        <3>2. PhasesRanked(PrefixVars, r, phase')
            BY <2>7, <3>1 DEF PhasesStayRanked
        <3>3. Ranked(r)'
            BY <2>2, <2>5, <2>6, <3>1, <3>2, QuietRanks
        <3>4. CASE GLemma
            <4>1. /\ pc = "gates" /\ pc' = "merged"
                  /\ UNCHANGED <<step.g, step.simple, step.merged>> /\ UNCHANGED max_var
                BY <1>1, <3>4 DEF GLemma, StepInv, NewStep
            <4>2. ReducedNow' = ReducedNow
                BY <4>1 DEF ReducedNow
            <4>3. step.g \in 1..max_var /\ \A l \in ReducedNow : r[step.g] < r[VarOf(l)]
                BY <2>6, <4>1 DEF StepRanked, Below
            <4>4. step'.g \in 1..max_var' /\ \A l \in ReducedNow' : r[step'.g] < r[VarOf(l)]
                BY <4>1, <4>2, <4>3
            <4>5. StepRanked(r)'
                BY <4>1, <4>4 DEF StepRanked, Below
            <4> QED BY <3>3, <4>5
        <3>5. CASE ~GLemma
            <4>1. pc' \notin {"eflit", "g", "gates", "merged"}
                BY <3>1, <3>5
            <4>2. StepRanked(r)'
                BY <4>1 DEF StepRanked
            <4> QED BY <3>3, <4>2
        <3> QED BY <3>4, <3>5
    <2>10. CASE SamePhase \/ CachedPhase
        BY <2>3, <2>4, <2>6, <2>10, FoundPhaseRanks
    <2>11. CASE NewPhase
        BY <2>3, <2>4, <2>6, <2>11, NewPhaseRanks
    <2>12. CASE NewEflit
        BY <2>3, <2>4, <2>6, <2>12, NewEflitRanks
    <2>13. CASE SplitAndShadow
        BY <2>3, <2>4, <2>6, <2>13, ShadowRanks
    <2>14. CASE DefineG
        BY <2>3, <2>4, <2>6, <2>14, DefineGRanks
    <2>15. CASE AuxGate
        BY <2>3, <2>4, <2>6, <2>15, AuxGateRanks
    <2>16. CASE ReduceSimple
        BY <2>3, <2>4, <2>6, <2>16, ReduceSimpleRanks
    <2>17. CASE ReduceMerged
        BY <2>3, <2>4, <2>6, <2>17, ReduceMergedRanks
    <2> QED
        BY <2>1, <2>8, <2>9, <2>10, <2>11, <2>12, <2>13, <2>14, <2>15, <2>16, <2>17
           DEF MergingPhases, Reducing
<1> QED BY <1>3, <1>4

-----------------------------------------------------------------------------
(* The strategy *)

(* With ranks, the function of a variable of the prefix sees what is before it. *)
LEMMA RanksLookLeft ==
    ASSUME RankContext, Translating, Ordered, NEW r, Ranked(r), NEW u \in DOMAIN countermodel_out_var,
           NEW v \in Support(u) \cap DOMAIN var_data
    PROVE  Depth(var_data, v) < Depth(var_data, u)
<1>1. /\ input \in Inputs /\ IsData(var_data) /\ IsSeq(gates)
    BY DEF RankContext, LookupInv, DefineInv, MapInv, ControlInv, CircuitInv, DataInv, Translating, Before
<1>2. /\ r \in [Int -> Nat] /\ GatesRanked(PrefixVars, r, gates, max_var)
      /\ \A w \in PrefixVars : r[w] = 2 * PrefixDepth(w)
      /\ u \in PrefixVars
    BY DEF Ranked, BaseRanked, RestsRanked
<1>3. \A w \in PrefixVars : PrefixDepth(w) \in Nat \ {0} /\ Depth(var_data, w) = PrefixDepth(w)
    BY <1>1, DataType, PrefixIsTyped
<1> DEFINE S == {u} \cup {w \in 1..max_var : r[w] < r[u]}
<1>4. ASSUME NEW i \in DOMAIN gates, gates[i].out \in S
      PROVE  gates[i].ins \subseteq S
    <2> SUFFICES ASSUME NEW w \in gates[i].ins PROVE w \in S
        OBVIOUS
    <2>1. w \in 1..max_var /\ Feeds(PrefixVars, r, w, gates[i].out)
        BY <1>2 DEF GatesRanked
    <2>2. r[w] \in Nat /\ r[u] \in Nat
        <3>1. 1..max_var \subseteq Int
            BY DEF RankContext, LookupInv, MapInv, DefineInv, VarInv
        <3> QED BY <1>2, <1>3, <2>1, <3>1
    <2>3. CASE gates[i].out = u
        BY <1>2, <2>1, <2>3 DEF Feeds
    <2>4. CASE gates[i].out \in 1..max_var /\ r[gates[i].out] < r[u]
        <3>1. r[gates[i].out] \in Nat
            BY <1>2, <2>4
        <3>2. r[w] <= r[gates[i].out]
            BY <2>1 DEF Feeds
        <3> QED BY <2>1, <2>2, <2>4, <3>1, <3>2
    <2> QED BY <1>4, <2>3, <2>4
<1>5. Support(u) \subseteq S
    <2> HIDE DEF S
    <2>1. u \in S
        BY DEF S
    <2> QED BY <1>1, <1>4, <2>1, SupportWithin
<1>6. v # u
    BY DEF Support
<1>7. r[v] < r[u]
    BY <1>5, <1>6
<1>8. CASE v \in PrefixVars
    BY <1>2, <1>3, <1>7, <1>8
<1>9. CASE v \notin PrefixVars
    <2>1. Depth(var_data, v) = 0
        BY <1>1, <1>9 DEF IsData, Depth, DefaultEntry
    <2> QED BY <1>2, <1>3, <2>1
<1> QED BY <1>8, <1>9

StrategyInv == Ordered => DependenciesToTheLeft

(* Only combine() writes the CNF file. *)
LEMMA OtherStepsWriteNothing ==
    ASSUME [Next]_vars, ~UNCHANGED vars, ~CombineFiles
    PROVE  pc # "end" /\ UNCHANGED cnf
<1> USE DEF resultVars, stepUnchanged, returnUnchanged
<1>1. CASE Preparing
    BY <1>1 DEF Preparing, ReadOnAndOn, FirstPass, VisitConstraint, NextSink, OpenProof, SearchDone,
                searchUnchanged
<1>2. CASE ReadingLines
    BY <1>2 DEF ReadingLines, ReadingLine, CoreLine, SkipLine, RecordInternalAxiom, RecordInputClause,
                RecordInitialTerm, ReadReduction, ReadResolution, NextResolution
<1>3. CASE Checking \/ MergingPhases
    BY <1>3 DEF Checking, CheckResolutionStep, CheckReductionStep, MergingPhases, SamePhase, CachedPhase,
                NewPhase, KnownEflit, NewEflit, CopyParentPhases, SplitAndShadow, Merging
<1>4. CASE Reducing \/ NotReducing
    BY <1>4 DEF Reducing, DefineG, AuxGate, ReduceSimple, GLemma, ReduceMerged, PushArrays,
                NotReducing, EmitResolvent, Reroute
<1>5. CASE Returning
    BY <1>5 DEF Returning, ReturnReduction, ReturnSafetyReduction, ReturnIntermediate, ReturnFinal,
                ReturnCrash, ReturnFailure
<1>6. CASE EndOfProof \/ WriteGratProof
    BY <1>6 DEF EndOfProof, WriteGratProof
<1> QED BY <1>1, <1>2, <1>3, <1>4, <1>5, <1>6 DEF Next, Translate, Terminated, Finishing

(* The CNF file is written when everything has its rank. *)
LEMMA StrategyNext == RankContext /\ RankInv /\ EndInv /\ StrategyInv /\ [Next]_vars => StrategyInv'
<1> SUFFICES ASSUME RankContext, RankInv, EndInv, StrategyInv, [Next]_vars, Ordered', pc' = "end", cnf' # <<>>
             PROVE  \A u \in DOMAIN countermodel_out_var' :
                        \A v \in Support(u)' \cap DOMAIN var_data' : Depth(var_data', v) < Depth(var_data', u)
    BY DEF StrategyInv, DependenciesToTheLeft
<1>1. ControlInv /\ TypesInv
    BY DEF RankContext, LookupInv, MapInv
<1>2. CASE UNCHANGED vars
    <2>1. UNCHANGED <<input, spare_id, sinks_of, search, constraint_type, pc, cnf, gates,
                      countermodel_out_var, var_data, clause_tseitin_variables>>
        BY <1>2 DEF vars, readVars, inputVars, resultVars, databaseVars, phaseVars, fileVars, arrayVars
    <2>2. cnf # <<>> /\ pc = "end"
        BY <2>1
    <2>3. Ordered
        BY <1>1, <2>2, OrderedBack DEF Before
    <2>4. \A u \in DOMAIN countermodel_out_var :
              \A v \in Support(u) \cap DOMAIN var_data : Depth(var_data, v) < Depth(var_data, u)
        BY <2>2, <2>3 DEF StrategyInv, DependenciesToTheLeft
    <2>5. \A u : Support(u)' = Support(u)
        BY <2>1 DEF Support, GatesOf
    <2> QED BY <2>1, <2>4, <2>5
<1>3. CASE CombineFiles
    <2>1. /\ pc = "combine" /\ UNCHANGED inputVars
          /\ UNCHANGED <<gates, countermodel_out_var, var_data>>
        BY <1>3 DEF CombineFiles, phaseVars, fileVars, arrayVars, readVars
    <2>2. pc \notin Before \cup {"end"}
        BY <2>1 DEF Before
    <2>3. Ordered
        BY <1>1, <2>2, OrderedBack
    <2>4. Translating
        BY <2>2, <2>3 DEF Translating, Ordered
    <2>5. PICK r : Ranked(r)
        BY <2>3, <2>4 DEF RankInv
    <2>6. \A u \in DOMAIN countermodel_out_var :
              \A v \in Support(u) \cap DOMAIN var_data : Depth(var_data, v) < Depth(var_data, u)
        BY <2>3, <2>4, <2>5, RanksLookLeft
    <2>7. \A u : Support(u)' = Support(u)
        BY <2>1 DEF Support, GatesOf
    <2> QED BY <2>1, <2>6, <2>7
<1>4. CASE ~UNCHANGED vars /\ ~CombineFiles
    <2>1. pc # "end" /\ UNCHANGED cnf
        BY <1>4, OtherStepsWriteNothing
    <2> QED BY <2>1 DEF EndInv
<1> QED BY <1>2, <1>3, <1>4

(* A run begins with nothing read and nothing ranked. *)
LEMMA RankContextInit == Init => RankContext /\ RankInv /\ EndInv /\ StrategyInv
<1> SUFFICES ASSUME Init PROVE RankContext /\ RankInv /\ EndInv /\ StrategyInv
    OBVIOUS
<1>1. pc = "start" /\ cnf = <<>> /\ constraint_type = EmptyMap
    BY DEF Init
<1>2. ~Translating
    BY <1>1 DEF Translating, Before
<1>3. BitsInv /\ DataInv /\ MiddleInv /\ InsideInv /\ RankInv
    BY <1>1, <1>2 DEF BitsInv, DataInv, MiddleInv, InsideInv, RankInv, EmptyMap
<1>4. EndInv /\ StrategyInv
    BY <1>1 DEF EndInv, StrategyInv, DependenciesToTheLeft
<1> QED BY <1>3, <1>4, LookupInit, DefineInit DEF RankContext

(* All of it is inductive. *)
LEMMA RankContextNext ==
    RankContext /\ RankInv /\ EndInv /\ StrategyInv /\ [Next]_vars
    => (RankContext /\ RankInv /\ EndInv /\ StrategyInv)'
<1> SUFFICES ASSUME RankContext, RankInv, EndInv, StrategyInv, [Next]_vars
             PROVE  (RankContext /\ RankInv /\ EndInv /\ StrategyInv)'
    OBVIOUS
<1>1. /\ ControlInv /\ ForgetInv /\ RightParent /\ LookupInv /\ DefineInv
      /\ BitsInv /\ DataInv /\ MiddleInv /\ InsideInv
    BY DEF RankContext, LookupInv, MapInv
<1>2. (LookupInv /\ DefineInv)'
    BY <1>1, LookupNext, DefineNext
<1>3. (BitsInv /\ DataInv /\ MiddleInv /\ InsideInv)'
    BY <1>1, BitsNext, DataNext, MiddleNext, InsideNext
<1>4. RankInv' /\ EndInv' /\ StrategyInv'
    BY <1>1, RankNext, EndNext, StrategyNext
<1> QED BY <1>2, <1>3, <1>4 DEF RankContext

(* In a proof that is ordered, the certificate that goes into the CNF file is a strategy:
   through its gates, the function of a variable of the prefix sees no variable that is
   quantified in the same block or behind it. *)
THEOREM StrategyLooksLeft == Spec => [](Ordered => DependenciesToTheLeft)
<1>1. StrategyInv <=> (Ordered => DependenciesToTheLeft)
    BY DEF StrategyInv
<1> QED BY <1>1, RankContextInit, RankContextNext, PTL DEF Spec
===============================================================================
