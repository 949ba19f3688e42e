------------------------------- MODULE Matrix -------------------------------
(***************************************************************************)
(* The matrix of a true formula, that of its QDIMACS file.  The proof is   *)
(* one of the falsity of its negation: a Tseitin variable is made          *)
(* equivalent to each clause, and one more clause, the top-level clause,   *)
(* says that one of them is false.  The negation of an initial term is a   *)
(* lemma, because the term has a literal of every clause; but a tautology  *)
(* need not be hit, and gets a lemma of its own.                           *)
(*                                                                         *)
(* The clauses of the matrix are sequences, in the order of the file.      *)
(***************************************************************************)
EXTENDS Literals, FiniteSetsExt, SequencesExt, GratItems, CNFCircuit

\* The place of every literal: clause and position.
Positions(matrix) == UNION {{k} \X DOMAIN matrix[k] : k \in DOMAIN matrix}

\* How many clauses encode the matrix, the top-level clause included.
EncodingSize(matrix) == Len(matrix) + Cardinality(Positions(matrix)) + 1

\* The number of the first clause of the gate for clause k.
FirstNumber(matrix, k) == k + Cardinality({p \in Positions(matrix) : p[1] < k})

\* The clause that says that the i-th literal of clause k implies it.
ImplicationNumber(matrix, k, i) == FirstNumber(matrix, k) + i - 1

Encoding(matrix, tseitin) ==
    FlattenSeq([k \in DOMAIN matrix |-> OrGate(tseitin[k], matrix[k])])
    \o << [k \in DOMAIN matrix |-> -tseitin[k]] >>

-----------------------------------------------------------------------------
IsTautology(clause) == \E l \in Range(clause) : -l \in Range(clause)

\* In ascending order: clause numbers are sorted like positive literals.
Tautologies(matrix) == SortedClause({k \in DOMAIN matrix : IsTautology(matrix[k])})

TautologyClauses(matrix, tseitin) ==
    [n \in DOMAIN Tautologies(matrix) |-> << tseitin[Tautologies(matrix)[n]] >>]

\* A lemma and a unit for each tautology: the first literal whose negation is
\* there too, and then the negation.
TautologyItems(matrix) ==
    LET tauts == Tautologies(matrix)
        items(n) ==
            LET k == tauts[n]
                c == matrix[k]
                i == Min({p \in DOMAIN c : -c[p] \in Range(c)})
                j == Min({p \in DOMAIN c : p > i /\ c[p] = -c[i]})
            IN  <<LemmaItem(-n, <<ImplicationNumber(matrix, k, i)>>,
                                ImplicationNumber(matrix, k, j)),
                  UnitItem(<<-n>>)>>
    IN  [p \in 1..(2 * Len(tauts)) |-> items((p + 1) \div 2)[2 - (p % 2)]]

-----------------------------------------------------------------------------
\* The negated literals of the clause are looked for: those of the term.
Hits(clause, negated_term) == {i \in DOMAIN clause : -clause[i] \in negated_term}

\* For every clause but the tautologies its first literal in the term; that
\* there is none is not an error.
InitialTermHints(matrix, negated_term) ==
    LET hit == SortedClause({k \in DOMAIN matrix :
                    ~IsTautology(matrix[k]) /\ Hits(matrix[k], negated_term) # {}})
    IN  [n \in DOMAIN hit |->
            ImplicationNumber(matrix, hit[n], Min(Hits(matrix[hit[n]], negated_term)))]
=============================================================================
