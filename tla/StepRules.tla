------------------------------ MODULE StepRules ------------------------------
(***************************************************************************)
(* The pure part of the proof checker: resolve(), check_resolution() and   *)
(* check_reduction() of ProofTranslator, as operators on sets of literals. *)
(*                                                                         *)
(* vd is var_data: it maps a variable of the prefix to its quantifier      *)
(* depth and type.  A variable outside its domain is taken for an          *)
(* auxiliary Tseitin variable, hence primary and infinitely deep.  ptype   *)
(* is the type of the primary variables of the constraint: those resolved  *)
(* upon; the others are secondary, merged and reduced.                     *)
(***************************************************************************)
EXTENDS Literals, FiniteSetsExt

\* The depth of an unknown variable.  A bound: deeper than any prefix here.
UINT_MAX == 1000000

Depth(vd, var) == IF var \in DOMAIN vd THEN vd[var].depth ELSE UINT_MAX

IsPrimary(vd, var, ptype) == var \in DOMAIN vd => vd[var].type = ptype

\* Without a look at the quantifier.
EveryLiteral(vd, clause, ptype) == clause

Primaries(vd, clause, ptype) == {l \in clause : IsPrimary(vd, VarOf(l), ptype)}

\* The maximum is never updated.
ZeroDepth(vd, clause) == 0

MaxDepth(vd, clause) == Max({0} \cup {Depth(vd, VarOf(l)) : l \in clause})

-----------------------------------------------------------------------------
(* resolve(): the clause the translator itself puts between two parents of
   a chain.  Of a primary variable whose first literals differ in the two
   clauses, the pair is dropped; every other literal survives, except the
   secondary ones that no surviving primary literal is deeper than. *)
LitsOn(clause, var) == {l \in clause : VarOf(l) = var}

\* The pivot is not dropped.
AllSurvive(c1, c2, var) == LitsOn(c1, var) \cup LitsOn(c2, var)

SurvivingPrimaries(c1, c2, var) ==
    LET a == LitsOn(c1, var)
        b == LitsOn(c2, var)
    IN  IF a # {} /\ b # {} /\ Min(a) # Min(b)
        THEN (a \ {Min(a)}) \cup (b \ {Min(b)})
        ELSE a \cup b

Resolve(vd, c1, c2, ptype) ==
    LET both == c1 \cup c2
        prim == Primaries(vd, both, ptype)
        kept == UNION {SurvivingPrimaries(c1, c2, v) : v \in VarsOf(prim)}
    IN  kept \cup {l \in both \ prim : Depth(vd, VarOf(l)) < MaxDepth(vd, kept)}

-----------------------------------------------------------------------------
(* check_resolution(): the pivot as it occurs in c1, or 0 when res is not a
   long-distance resolvent of c1 and c2; the merged literals, one for each
   merged variable; and the secondary literals reduced on the way. *)
CheckResolution(vd, c1, c2, res, ptype) ==
    LET depth(l)   == Depth(vd, VarOf(l))
        primary(l) == IsPrimary(vd, VarOf(l), ptype)
        deepest    == MaxDepth(vd, Primaries(vd, res, ptype))
        clashing   == {l \in c1 : -l \in c2}
        pivots     == {l \in clashing : primary(l)}
        pivot      == CHOOSE l \in pivots : TRUE
        merged     == {l \in clashing \ pivots : -l \in clashing => l < 0}
        reduced1   == {l \in c1 \ res : ~primary(l)}
        rest2      == c2 \ (res \cup reduced1)
        reduced2   == {l \in rest2 : ~primary(l)}
        legal ==
            /\ Cardinality(pivots) = 1
            /\ \A l \in c1 \ res : primary(l) => l = pivot
            /\ \A l \in reduced1 : depth(l) > deepest
            /\ \A l \in merged : depth(l) >= depth(pivot)
            /\ \A l \in rest2 : primary(l) => l = -pivot
            /\ \A l \in reduced2 : depth(l) >= deepest
            /\ res \subseteq c1 \cup c2
    IN  [pivot   |-> IF legal THEN pivot ELSE 0,
         merged  |-> SortedClause(merged),
         reduced |-> SortedClause(reduced1) \o SortedClause(reduced2)]

-----------------------------------------------------------------------------
(* check_reduction(): var_data[var] creates a missing entry, with depth 0
   and type 0, for every variable it is asked about. *)
DefaultEntry == [depth |-> 0, type |-> 0]

WithDefaults(vd, vars) ==
    [v \in DOMAIN vd \cup vars |-> IF v \in DOMAIN vd THEN vd[v] ELSE DefaultEntry]

(* The literals of the premise are examined in order and those that are gone
   collected, up to the first one that may not go: a primary literal, or one
   that is not deeper than every primary literal of the conclusion. *)
CheckReduction(vd, premise, conclusion, ptype) ==
    LET vd1     == WithDefaults(vd, VarsOf(premise \cup conclusion))
        deepest == MaxDepth(vd1, Primaries(vd1, conclusion, ptype))
        gone    == SortedClause(premise \ conclusion)
        primary(l)  == IsPrimary(vd1, VarOf(l), ptype)
        offends(l)  == primary(l) \/ Depth(vd1, VarOf(l)) <= deepest
        bad     == {i \in DOMAIN gone : offends(gone[i])}
        stop    == IF bad = {} THEN Len(gone) ELSE Min(bad)
        examined == conclusion \cup {gone[i] : i \in 1..stop}
    IN  [code |-> IF bad # {} THEN (IF primary(gone[stop]) THEN 0 ELSE 1)
                  ELSE IF conclusion \subseteq premise THEN 1 ELSE -2,
         reduced  |-> SubSeq(gone, 1, IF bad = {} THEN stop ELSE stop - 1),
         var_data |-> WithDefaults(vd, VarsOf(examined))]
=============================================================================
