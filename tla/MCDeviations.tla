----------------------------- MODULE MCDeviations -----------------------------
(***************************************************************************)
(* Inputs on which the program does not do what its documentation says.    *)
(***************************************************************************)
EXTENDS CheckedTranslation, Correctness, MCInputs

\* A literal is missing from a resolvent.
IllegalProofs ==
    InputsOf(Family(E1A2E3, Merge, <<{1, 3}, {1, 3}>>, {"reduce", "wrong"}))

\* The formula that the proof refutes is given.
FormulaProofs ==
    InputsOf([Family(E1A2E3, Merge, <<{1, 3}, {1, 3}>>, {"reduce"}) EXCEPT !.formula = AsFile(Merge)])

\* The outer of two trailing universal literals is reduced, the inner one kept.
PartialProofs ==
    InputsOf(Family(<<Block("e", {1}), Block("a", {2}), Block("e", {3}), Block("a", {4})>>,
                    <<{1, 2, 4}, {-1, -2, 4}>>, <<{1}, {1}, {1}, {1}>>, {"partial"}))

\* A chain resolves with an axiom and again with a dummy reduction of it.
DummyProof ==
    LET derived(id, clause, parents) == ProofLine(0, id, clause, parents)
        axiom(id, clause) == derived(id, clause, <<>>)
    IN  {InputOf(<<Block("e", {1, 2, 5})>>, <<>>,
            <<axiom(1, {1, 2}), axiom(2, {-1, 5}), axiom(3, {-2, 5}), axiom(4, {-1, -5}),
              axiom(5, {-2}), derived(6, {1, 2}, <<1>>), derived(7, {2}, <<1, 2, 3, 4, 6>>),
              derived(8, {}, <<7, 5>>)>>)}

\* A proof of a false formula in QRP, with the formula.
QrpProofs ==
    {AsQrp(in, "unsat") :
        in \in InputsOf([Family(E1A2E3, Simple, <<{1}>>, {}) EXCEPT !.formula = AsFile(Simple)])}

\* The second axiom with the auxiliary variable 3 comes behind a reduction.
LateAuxiliary ==
    {InputOf(<<Block("e", {1}), Block("a", {2})>>, <<>>,
         <<ProofLine(0, 1, {1, 2}, <<>>), ProofLine(0, 2, {1}, <<1>>),
           ProofLine(0, 3, {-1, 3}, <<>>), ProofLine(0, 4, {-3}, <<>>),
           ProofLine(0, 5, {}, <<2, 3, 4>>)>>)}
=============================================================================
