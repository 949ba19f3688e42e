----------------------------- MODULE MCTranslator -----------------------------
(***************************************************************************)
(* Translations of legal and of illegal proofs, with and without the       *)
(* formula, with lines outside the core, dummy reductions, several merges  *)
(* on one phase, proofs of true formulas, and a parent that occurs twice;  *)
(* proofs in QRP, and proofs with errors.                                  *)
(***************************************************************************)
EXTENDS Correctness, MCInputs

NestedProofs == InputsOf(Family(E14A2E3, Nested, <<{1}, {1}, {4, 3}>>, {"chain"}))

TrailingProofs ==
    InputsOf(Family(E1A2E3A4, Trailing, <<{1}, {1, 3}, {3}>>, {"chain", "raw", "reduce"}))

PairProofs == InputsOf(Family(E1A24E3, Pair, <<{1}, {1, 3}, {3}>>, {"raw", "reduce"}))

WrongProofs ==
    InputsOf(Family(E1A2E3, Merge, <<{1, 3}, {1, 3}, {3}>>, {"raw", "reduce", "wrong"}))

IdleProofs ==
    InputsOf([Family(E1A2E3, Merge, <<{1, 3}, {1, 3}, {3}>>, {"raw", "dummy"}) EXCEPT !.idle = 1])

\* The formula is that of the proof, has another clause in front, or lacks one.
FormulaProofs ==
    UNION {InputsOf([Family(E1A2E3, Merge, <<{1, 3}, {1, 3}>>, {"reduce"}) EXCEPT !.formula = AsFile(f)]) :
             f \in {Merge, <<{2, 3}>> \o Merge, Tail(Merge)}}

DualProofs ==
    InputsOf([Family(A1E2A3, Merge, <<{1, 3}, {1, 3}, {3}>>, {"raw", "reduce"}) EXCEPT !.ctype = 1])

\* No constraint is empty: nothing to translate.
Unfinished == {InputOf(E1A2E3, <<>>, AxiomLines(Family(E1A2E3, Merge, <<>>, {})))}

\* A chain resolves twice with a clause that it is the last to use.
RepeatedParent ==
    LET axiom(id, clause) == ProofLine(0, id, clause, <<>>)
    IN  {InputOf(<<Block("e", {1, 2, 3})>>, <<>>,
            <<axiom(1, {-2, 1}), axiom(2, {-1}), axiom(3, {2, 3}), axiom(4, {-3, 2}),
              ProofLine(0, 5, {-2}, <<1, 2>>), ProofLine(0, 6, {}, <<3, 5, 4, 5>>)>>)}

\* The proofs of two formulas, in QRP: with and without their formula, and with
\* a result line, a wrong one or none.
QrpProofs ==
    LET simple == InputsOf(Family(E1A2E3, Simple, <<{1}, {1}>>, {"raw", "reduce"}))
        given  == InputsOf([Family(E1A2E3, Simple, <<{1}, {1}>>, {"raw", "reduce"})
                               EXCEPT !.formula = AsFile(Simple)])
        true_formula == InputsOf(TrueFamily(A1E2, Unreduced, EquivFormula, <<{1}>>, {}))
    IN  {AsQrp(in, result) : in \in simple \cup given \cup true_formula,
                             result \in {"sat", "unsat", "none"}}

\* Nothing is derived, or the list of literals of a line has no end.
BrokenProofs ==
    LET proof == Derivation(E1A2E3, Simple, <<<<1, 2>>>>)
        broken == {Unterminated(proof, 1), Unterminated(proof, 2),
                   [proof EXCEPT !.lines = SubSeq(@, 1, 2)]}
    IN  broken \cup {AsQrp(in, result) : in \in broken, result \in {"unsat", "none"}}

\* An initial term that hits only one of the clauses.
MissingProofs ==
    InputsOf(TrueFamily(A1E2, <<{-1}, {1}>>, EquivFormula, <<{1}>>, {}))

MixedProofs == NestedProofs \cup SharingProofs \cup PackingProofs \cup TrailingProofs \cup PairProofs \cup WrongProofs
               \cup IdleProofs \cup FormulaProofs \cup DualProofs \cup Unfinished \cup RepeatedParent
               \cup SeparateProofs \cup OverlappingProofs \cup AuxiliaryProofs
               \cup TrueFormulaProofs \cup QrpProofs \cup BrokenProofs \cup MissingProofs
=============================================================================
