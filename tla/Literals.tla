------------------------------ MODULE Literals ------------------------------
(***************************************************************************)
(* Literals, clauses and the associative containers of the translator.     *)
(*                                                                         *)
(* A literal is a nonzero integer, its variable the absolute value.  A     *)
(* clause of the input proof is the SET of its literals: read_proof_line's *)
(* vector is sorted and freed of duplicates before anything looks at it.   *)
(* A std::unordered_map is a function whose DOMAIN is the set of its keys. *)
(***************************************************************************)
EXTENDS Integers, Sequences, FiniteSets

VarOf(lit) == IF lit < 0 THEN -lit ELSE lit

VarsOf(clause) == {VarOf(lit) : lit \in clause}

\* negate(): Qute writes the terms of a true formula, the translator works on
\* their negations.
Negated(clause) == {-lit : lit \in clause}

\* compare_lits: by variable, the negative literal first.
CompareLits(x, y) ==
    \/ VarOf(x) < VarOf(y)
    \/ VarOf(x) = VarOf(y) /\ x < y

\* The vector that sort_and_remove_duplicate_literals makes of a clause.
SortedClause(clause) ==
    [i \in 1..Cardinality(clause) |->
        CHOOSE lit \in clause :
            Cardinality({l \in clause : CompareLits(l, lit)}) = i - 1]

\* The members of a sequence at some of its places, in the order of the sequence.
AtPlaces(seq, places) ==
    LET sorted == SortedClause(places)
    IN  [n \in DOMAIN sorted |-> seq[sorted[n]]]

-----------------------------------------------------------------------------
EmptyMap == [k \in {} |-> 0]

\* map[key] = val
Put(map, key, val) ==
    [k \in DOMAIN map \cup {key} |-> IF k = key THEN val ELSE map[k]]

\* map.insert({key, val}): an entry that is already there wins.
Insert(map, key, val) == IF key \in DOMAIN map THEN map ELSE Put(map, key, val)

\* map[key] of a map to integers: a missing key is created with the value 0.
Get(map, key) == IF key \in DOMAIN map THEN map[key] ELSE 0

\* map.erase(key) for every key of the set.
Without(map, keys) == [k \in DOMAIN map \ keys |-> map[k]]
=============================================================================
