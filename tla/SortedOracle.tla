---------------------------- MODULE SortedOracle ----------------------------
(***************************************************************************)
(* SortedQueryOracle: whether literals occur in a sorted vector, for       *)
(* queries that come in ascending order.  The cursor only moves forward,   *)
(* past what is less than the query; what is equivalent to the query is    *)
(* then looked through, and left for the queries to come.                  *)
(***************************************************************************)
EXTENDS Literals

\* The order of the clauses: of the literals of a variable the negative first.
\* The queries are not sorted by it.
LessByLiteral(x, y) == CompareLits(x, y)

\* compare_lits_weak
Less(x, y) == VarOf(x) < VarOf(y)

\* The cursor after a query.
Advance(data, next, query) ==
    LET stops == {i \in next..Len(data) : ~Less(data[i], query)}
    IN  IF stops = {} THEN Len(data) + 1 ELSE CHOOSE i \in stops : \A j \in stops : i <= j

Has(data, next, query) ==
    \E i \in next..Len(data) :
        data[i] = query /\ \A j \in next..i : ~Less(query, data[j])

\* The oracle of a vector before the first query.
NewOracle == [next |-> 1, answers |-> <<>>]

\* has(): the oracle when one more query has been answered.
Asked(oracle, data, query) ==
    LET next == Advance(data, oracle.next, query)
    IN  [next |-> next, answers |-> Append(oracle.answers, Has(data, next, query))]
=============================================================================
