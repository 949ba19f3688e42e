------------------------------- MODULE MCInputs -------------------------------
(***************************************************************************)
(* Small inputs for TLC: all the proofs that a solver can write for a      *)
(* fixed formula in at most a given number of lines.                       *)
(*                                                                         *)
(* A family of inputs is a record: the prefix; the matrix in the order of  *)
(* the proof's axioms; the type of the constraints; the formula that the   *)
(* program is given, <<>> for none; for every derived line the variables   *)
(* that may be resolved upon (pivots), which also bounds their number; how *)
(* many lines may be derived in vain (idle); and the set of the kinds of   *)
(* lines the solver writes:                                                *)
(*   "chain"    resolvents of three parents                                *)
(*   "raw"      resolvents that are not reduced at once                    *)
(*   "reduce"   reductions to the full extent                              *)
(*   "partial"  reductions that stop early                                 *)
(*   "dummy"    reductions of nothing                                      *)
(*   "wrong"    resolvents that lack or retain a literal, illegally        *)
(***************************************************************************)
EXTENDS QResolution, SequencesExt

Block(q, vars) == [q |-> q, vars |-> vars]

Family(prefix, matrix, pivots, kinds) ==
    [prefix |-> prefix, matrix |-> matrix, pivots |-> pivots, kinds |-> kinds,
     ctype |-> 0, formula |-> <<>>, idle |-> 0]

\* Consecutive blocks of the families' prefixes differ.
VarData(prefix) ==
    LET block(v) == CHOOSE i \in DOMAIN prefix : v \in prefix[i].vars
    IN  [v \in UNION {prefix[i].vars : i \in DOMAIN prefix} |->
            [depth |-> block(v), type |-> IF prefix[block(v)].q = "a" THEN 1 ELSE 0]]

ProofLine(ctype, id, clause, parents) ==
    [id |-> id, ctype |-> ctype, parents |-> parents, terminated |-> TRUE,
     lits |-> IF ctype = 1 THEN Negated(clause) ELSE clause]

ClauseOf(ln) == IF ln.ctype = 1 THEN Negated(ln.lits) ELSE ln.lits

Variants(fam, vd, c) ==
    {Reduced(vd, fam.ctype, c)}
    \cup (IF "raw" \in fam.kinds THEN {c} ELSE {})
    \cup (IF "wrong" \in fam.kinds THEN {c \ {l} : l \in c} ELSE {})

ResolventsOf(fam, vd, n, a, b) ==
    UNION {Variants(fam, vd, Resolvent(a, b, p)) :
             p \in {q \in a : VarOf(q) \in fam.pivots[n] /\ Resolvable(vd, fam.ctype, a, b, q)}}

\* [clause, parents] of everything derivable from the lines in one line.
Derivable(fam, lines) ==
    LET vd  == VarData(fam.prefix)
        n   == Len(lines) + 1 - Len(fam.matrix)
        cl  == [i \in DOMAIN lines |-> ClauseOf(lines[i])]
        idx == DOMAIN lines
        pairs == UNION {{[clause |-> c, parents |-> <<i, j>>] :
                            c \in ResolventsOf(fam, vd, n, cl[i], cl[j])} : i, j \in idx}
        reduced == {[d EXCEPT !.clause = Reduced(vd, fam.ctype, @)] : d \in pairs}
        chains == UNION {{[clause |-> c, parents |-> Append(d.parents, k)] :
                            c \in ResolventsOf(fam, vd, n, d.clause, cl[k])} : d \in reduced, k \in idx}
        full    == {[clause |-> Reduced(vd, fam.ctype, cl[i]), parents |-> <<i>>] : i \in idx}
        partial == UNION {{[clause |-> c, parents |-> <<i>>] : c \in Reducts(vd, fam.ctype, cl[i])} : i \in idx}
        dummies == {[clause |-> cl[i], parents |-> <<i>>] : i \in idx}
        lines_of(kind, set) == IF kind \in fam.kinds THEN set ELSE {}
    IN  pairs \cup lines_of("chain", chains) \cup lines_of("reduce", full)
              \cup lines_of("partial", partial) \cup lines_of("dummy", dummies)

\* A new line repeats no clause, unless it is a dummy reduction of its premise.
Extensions(fam, lines) ==
    {Append(lines, ProofLine(fam.ctype, Len(lines) + 1, d.clause, d.parents)) :
        d \in {e \in Derivable(fam, lines) :
                 \/ \A i \in DOMAIN lines : ClauseOf(lines[i]) # e.clause
                 \/ "dummy" \in fam.kinds /\ Len(e.parents) = 1
                    /\ ClauseOf(lines[e.parents[1]]) = e.clause}}

\* The derived lines no later line uses.
Unused(fam, lines) ==
    {i \in (Len(fam.matrix) + 1)..Len(lines) :
        \A j \in DOMAIN lines : i \notin Range(lines[j].parents)}

AxiomLines(fam) ==
    [i \in DOMAIN fam.matrix |-> ProofLine(fam.ctype, i, fam.matrix[i], <<>>)]

\* At any time two derived lines may be waiting to be used, and a complete
\* proof has at most fam.idle lines that are not.
ProofsOf(fam) ==
    LET grow[n \in 0..Len(fam.pivots)] ==
            IF n = 0 THEN {AxiomLines(fam)}
            ELSE {p \in UNION {Extensions(fam, q) :
                                 q \in {r \in grow[n - 1] : Last(r).lits # {}}} :
                    Cardinality(Unused(fam, p)) <= Max({2, 1 + fam.idle})}
    IN  {p \in UNION {grow[n] : n \in 0..Len(fam.pivots)} :
            Last(p).lits = {} /\ Cardinality(Unused(fam, p)) <= 1 + fam.idle}

\* A proof in Qute's format has no result line.
InputOf(prefix, formula, lines) ==
    [format |-> "qute", result |-> "none", prefix |-> prefix, matrix |-> formula,
     have_formula |-> formula # <<>>, lines |-> lines]

\* The same lines as a QRP proof, and with the literals of the last line not
\* terminated, or those of the i-th.
AsQrp(in, result) == [in EXCEPT !.format = "qrp", !.result = result]

Unterminated(in, i) ==
    [in EXCEPT !.lines[i].terminated = FALSE, !.lines[i].parents = <<>>]

\* A matrix as it stands in a QDIMACS file.
AsFile(matrix) == [i \in DOMAIN matrix |-> SortedClause(matrix[i])]

InputsOf(fam) == {InputOf(fam.prefix, fam.formula, p) : p \in ProofsOf(fam)}

\* The proof whose derived lines are the resolvents, reduced, of these parents.
Derivation(prefix, matrix, parents) ==
    LET vd == VarData(prefix)
        clause(lines, id) == ClauseOf(lines[id])
        resolve(a, b) ==
            Reduced(vd, 0, Resolvent(a, b, CHOOSE p \in a : Resolvable(vd, 0, a, b, p)))
        derived(lines, ids) ==
            FoldLeft(LAMBDA c, id : resolve(c, clause(lines, id)),
                     clause(lines, Head(ids)), Tail(ids))
        axioms == AxiomLines(Family(prefix, matrix, <<>>, {}))
    IN  InputOf(prefix, <<>>,
            FoldLeft(LAMBDA lines, ids :
                        Append(lines, ProofLine(0, Len(lines) + 1, derived(lines, ids), ids)),
                     axioms, parents))

\* A proof may go on behind an empty constraint, to another one.
Enumeration(prefix, axioms, derived) ==
    InputOf(prefix, <<>>,
        [i \in 1..Len(axioms) |-> ProofLine(0, i, axioms[i], <<>>)]
        \o [i \in 1..Len(derived) |->
               ProofLine(0, Len(axioms) + i, derived[i].clause, derived[i].parents)])

Derived(clause, parents) == [clause |-> clause, parents |-> parents]

-----------------------------------------------------------------------------
(* The formulas, all of them false but the one behind the dual prefix. *)
E1A2E3 == <<Block("e", {1}), Block("a", {2}), Block("e", {3})>>
Merge  == <<{1, 2, 3}, {-1, -2, 3}, {-3}>>          \* one merge, reduced at the end
Simple == <<{1, 2}, {-1, -2}>>                      \* reductions without a merge

\* Two pivots in the first block: merges of merged literals.
E14A2E3 == <<Block("e", {1, 4}), Block("a", {2}), Block("e", {3})>>
Nested  == <<{1, 4, 2, 3}, {-1, 4, -2, 3}, {1, -4, -2, 3}, {-1, -4, 2, 3}, {-3}>>

\* The same merge on two pivots, and a merge seen from both sides.
Crossed  == <<{1, 4, 2, 3}, {-1, 4, -2, 3}, {1, -4, -2, 3}, {-1, -4}, {-3}>>
Mirrored == <<{4, 1, 2, 3}, {-1, -2, 3}, {-4, 1, 2, 3}, {-3}>>

\* Two clauses with the same merged variable in the same phase are resolved; of
\* the second universal variable they have different literals.
E14A25E3 == <<Block("e", {1, 4}), Block("a", {2, 5}), Block("e", {3})>>
Aligned  == <<{1, 4, 2, 3}, {-1, 4, -2, 3}, {1, -4, 2, 3}, {-1, -4, -2, 3}, {-3}>>
Aligned2 == <<{1, 4, 2, 5, 3}, {-1, 4, -2, 5, 3}, {1, -4, 2, -5, 3}, {-1, -4, -2, -5, 3}, {-3}>>

SharingProofs ==
    {Derivation(E14A25E3, matrix, <<<<1, 2>>, right, <<6, 7>>, <<8, 5>>>>) :
        matrix \in {Aligned, Aligned2}, right \in {<<3, 4>>, <<4, 3>>}}
    \cup {Derivation(E14A2E3, Crossed, <<<<1, 2, 5>>, <<1, 3, 5>>, <<6, 4, 7>>>>)}
    \cup {Derivation(E14A2E3, Mirrored, <<first, second, <<5, 6>>>>) :
             first \in {<<1, 2, 4>>, <<2, 1, 4>>}, second \in {<<2, 3, 4>>, <<3, 2, 4>>}}

\* Three reductions of the same literal.
E14A2    == <<Block("e", {1, 4}), Block("a", {2})>>
Repeated == <<{1, 2}, {-1, 4, 2}, {-1, -4, 2}>>

\* Two or more reductions of one variable: long hint sequences are packed.
PackingProofs ==
    {Derivation(E14A2, Repeated, <<<<1, 2>>, <<4, 3>>, <<5, 1>>>>),
     Derivation(E14A2, Repeated, <<<<2, 3>>, <<1>>, <<4, 5>>>>),
     Derivation(E14A2E3, Nested, <<<<1, 2, 5>>, <<3, 4, 5>>, <<6, 7>>>>)}

\* Two universal variables, merged and reduced together.
E1A24E3 == <<Block("e", {1}), Block("a", {2, 4}), Block("e", {3})>>
Pair    == <<{1, 2, 4, 3}, {-1, -2, -4, 3}, {-3}>>

\* A universal variable behind the last existential one.
E1A2E3A4 == <<Block("e", {1}), Block("a", {2}), Block("e", {3}), Block("a", {4})>>
Trailing == <<{1, 2, 3, 4}, {-1, -2, 3, -4}, {-3}>>

\* Two refutations in one proof, of different axioms and of the same axioms.
SeparateProofs ==
    {Enumeration(E14A2, <<{1, 2}, {-1, -2}, {4, 2}, {-4, -2}>>,
         <<Derived({}, <<1, 2>>), Derived({}, <<3, 4>>)>>),
     Enumeration(E1A24E3, <<{1, 2, 3}, {-1, -2, 3}, {-3}, {1, 4, 3}, {-1, -4, 3}, {-3}>>,
         <<Derived({2, -2, 3}, <<1, 2>>), Derived({}, <<7, 3>>), Derived({}, <<4, 5, 6>>)>>)}

OverlappingProofs ==
    {Enumeration(<<Block("e", {1, 2})>>, <<{1}, {-1, 2}, {-1, -2}>>,
         <<Derived({-1}, <<2, 3>>), Derived({}, <<1, 4>>), Derived({2}, <<2, 1>>),
           Derived({-2}, <<3, 1>>), Derived({}, <<6, 7>>)>>)}

\* Variables that are not in the prefix, of a formula that was not in CNF.
AuxiliaryProofs ==
    {Enumeration(<<Block("e", {1}), Block("a", {2})>>, <<{1, 4}, {2, -4}, {-1, -2}>>,
         <<Derived({1}, <<1, 2>>), Derived({}, <<4, 3>>)>>),
     Enumeration(<<Block("e", {1}), Block("a", {2})>>, <<{1, 2, 4}, {-1, -2, 5}, {-4}, {-5}>>,
         <<Derived({1}, <<1, 3>>), Derived({}, <<5, 2, 4>>)>>)}

\* Of a true formula the terms, in the dual prefix.
A1E2A3 == <<Block("a", {1}), Block("e", {2}), Block("a", {3})>>
A1E2   == <<Block("a", {1}), Block("e", {2})>>

\* A true formula is given with its matrix.  The initial terms of the second one
\* have a literal to reduce; a tautology has no literal in some of the terms.
MergeFormula   == <<<<1, -2, 3>>, <<1, 2, -1>>, <<-1, 2, 3>>>>
EquivFormula   == <<<<1, -2>>, <<-1, 2>>>>
Unreduced      == <<{-1, -2}, {1, 2}>>

TrueFamily(prefix, negated_terms, formula, pivots, kinds) ==
    [Family(prefix, negated_terms, pivots, kinds) EXCEPT !.ctype = 1, !.formula = formula]

TrueFormulaProofs ==
    InputsOf(TrueFamily(A1E2A3, Merge, MergeFormula, <<{1, 3}, {1, 3}, {3}>>, {"reduce"}))
    \cup InputsOf(TrueFamily(A1E2, Unreduced, EquivFormula, <<{1}, {1}, {1}>>, {"reduce"}))
=============================================================================
