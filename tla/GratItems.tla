------------------------------ MODULE GratItems ------------------------------
(***************************************************************************)
(* The items of a GRAT proof.  A clause of the CNF file has its number, a  *)
(* clause of the RUP file the negation of its number.                      *)
(***************************************************************************)
EXTENDS Integers

Item(tag, lemma, units, conflict) ==
    [tag |-> tag, lemma |-> lemma, units |-> units, conflict |-> conflict]

ModeItem == Item(6, 0, <<>>, 0)                               \* open_proof
UnitItem(ids) == Item(1, 0, ids, 0)                           \* unit_clauses
LemmaItem(lemma, units, conflict) == Item(3, lemma, units, conflict)
ConflictItem(id) == Item(5, 0, <<>>, id)                      \* conflict_clause
=============================================================================
