------------------------------- MODULE MCHints -------------------------------
(***************************************************************************)
(* Translations of legal proofs, checked to the end: the files are what    *)
(* the checker accepts.  The type bits of spare ids are read as 1.         *)
(***************************************************************************)
EXTENDS CheckedTranslation, MCInputs

MergeProofs ==
    InputsOf(Family(E1A2E3, Merge, <<{1}, {1, 3}, {3}>>, {"chain", "raw", "reduce"}))
    \cup InputsOf(Family(E1A2E3, Merge, <<{1, 3}, {1, 3}, {3}, {1, 3}>>, {"raw", "reduce"}))

SimpleProofs ==
    InputsOf(Family(E1A2E3, Simple, <<{1}, {1}, {1}>>, {"chain", "raw", "reduce", "dummy"}))

NestedProofs ==
    InputsOf(Family(E14A2E3, Nested, <<{1}, {1}, {4}, {3}>>, {}))
    \cup InputsOf(Family(E14A2E3, Nested, <<{1}, {1}, {4, 3}>>, {"chain"}))

PairProofs ==
    InputsOf(Family(E1A24E3, Pair, <<{1}, {1, 3}, {3}>>, {"chain", "raw", "reduce"}))

DualProofs ==
    InputsOf([Family(A1E2A3, Merge, <<{1}, {1, 3}, {3}>>, {"raw", "reduce"}) EXCEPT !.ctype = 1])

\* A refutation with its formula, in which a clause may stand in front.
FormulaProofs ==
    UNION {InputsOf([Family(E1A2E3, Merge, <<{1, 3}, {1, 3}>>, {"reduce"})
                        EXCEPT !.formula = AsFile(f)]) : f \in {Merge, <<{2, 3}>> \o Merge}}

LegalProofs == MergeProofs \cup SimpleProofs \cup NestedProofs \cup PackingProofs
               \cup SharingProofs \cup PairProofs \cup DualProofs \cup SeparateProofs
               \cup FormulaProofs \cup TrueFormulaProofs
=============================================================================
