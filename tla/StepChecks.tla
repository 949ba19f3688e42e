----------------------------- MODULE StepChecks -----------------------------
(***************************************************************************)
(* One call of resolve(), check_resolution() and check_reduction() on      *)
(* arbitrary clauses, judged by the calculus of module QResolution; and    *)
(* the queries that check_resolution() puts to a SortedQueryOracle.        *)
(***************************************************************************)
EXTENDS StepRules, SortedOracle

Q == INSTANCE QResolution

CONSTANTS
    QuantifierPrefixes,     \* possible values of var_data
    PrimaryType             \* the type of the primary variables

\* What read_prefix makes of a prefix, in prenex form: variables of the same
\* depth are quantified alike.
IsVarData(p) ==
    /\ IsFiniteSet(DOMAIN p) /\ DOMAIN p \subseteq Nat \ {0}
    /\ p \in [DOMAIN p -> [depth : 1..(UINT_MAX - 1), type : {0, 1}]]
    /\ \A u, v \in DOMAIN p : p[u].depth = p[v].depth => p[u].type = p[v].type

ASSUME PrefixAssumption == \A p \in QuantifierPrefixes : IsVarData(p)

VARIABLES
    vd, c1, c2, res,        \* the arguments of a call, ...
    call,                   \* ... which function it is of, ...
    result                  \* ... and what it returns

vars == <<vd, c1, c2, res, call, result>>

PrimaryVars == {v \in DOMAIN vd : vd[v].type = PrimaryType}

\* Clauses as a proof has them: merged literals on secondary variables only.
IsClause(c) == \A v \in PrimaryVars : ~({v, -v} \subseteq c)

LiteralsOf(p) == UNION {{v, -v} : v \in DOMAIN p}

Init ==
    /\ vd \in QuantifierPrefixes
    /\ c1 \in SUBSET LiteralsOf(vd) /\ IsClause(c1)
    /\ c2 \in SUBSET LiteralsOf(vd) /\ IsClause(c2)
    /\ res \in SUBSET LiteralsOf(vd)
    /\ call = "none"
    /\ result = {}

Call(name, value) ==
    /\ call = "none"
    /\ call' = name
    /\ result' = value
    /\ UNCHANGED <<vd, c1, c2, res>>

\* resolve() is called on a clause and the next parent of a chain, ...
CallResolve == res = c1 \cup c2 /\ Call("resolve", Resolve(vd, c1, c2, PrimaryType))

\* ... check_resolution() on its result or on a line of the proof, ...
CallCheckResolution == Call("check_resolution", CheckResolution(vd, c1, c2, res, PrimaryType))

\* ... and check_reduction() on a line with one parent.
CallCheckReduction == c2 = {} /\ Call("check_reduction", CheckReduction(vd, c1, res, PrimaryType))

\* The literals of the first clause, or their negations, are looked for.
Queries(negated) ==
    LET clause == SortedClause(c1)
    IN  IF negated THEN [i \in DOMAIN clause |-> -clause[i]] ELSE clause

OracleInUse == call \in {"oracle", "oracle_negated"}

Query(i) == Queries(call = "oracle_negated")[i]

MakeOracle(negated) ==
    c2 = {} /\ Call(IF negated THEN "oracle_negated" ELSE "oracle", NewOracle)

\* One after the other; the oracle keeps its place between two queries.
AskOracle ==
    LET n == Len(result.answers) + 1
    IN  /\ OracleInUse
        /\ n <= Cardinality(c1)
        /\ result' = Asked(result, SortedClause(res), Query(n))
        /\ UNCHANGED <<vd, c1, c2, res, call>>

Return == call # "none" /\ UNCHANGED vars

Next == CallResolve \/ CallCheckResolution \/ CallCheckReduction
        \/ (\E negated \in BOOLEAN : MakeOracle(negated)) \/ AskOracle \/ Return

Spec == Init /\ [][Next]_vars

-----------------------------------------------------------------------------
Pivots == {p \in c1 : Q!Resolvable(vd, PrimaryType, c1, c2, p)}

(* resolve() does not know the pivot: it drops every clashing pair of primary
   literals and keeps what a pivot would keep.  For a legal resolution it is
   the resolvent, reduced as far as possible. *)
ResolveIsReducedResolvent ==
    call = "resolve" =>
        \A p \in Pivots : result = Q!Reduced(vd, PrimaryType, Q!Resolvent(c1, c2, p))

(* A line that is the resolvent of its parents, reduced to any extent, is
   accepted, on the right pivot and with all of the merged variables. *)
ResolventsAccepted ==
    call = "check_resolution" =>
        \A p \in Pivots :
            res \in Q!Reducts(vd, PrimaryType, Q!Resolvent(c1, c2, p)) =>
                /\ result.pivot = p
                /\ {VarOf(result.merged[i]) : i \in DOMAIN result.merged}
                       = {VarOf(l) : l \in {k \in c1 : -k \in c2}} \ {VarOf(p)}

(* What is accepted is a legal resolvent, reduced legally, in which the pivot
   literals may have stayed; and what is recorded as reduced is what it lost. *)
AcceptedAreResolvents ==
    call = "check_resolution" /\ result.pivot # 0 =>
        LET p == result.pivot
            full == Q!Resolvent(c1, c2, p)
        IN  /\ p \in Pivots
            /\ res \ {p, -p} \in Q!Reducts(vd, PrimaryType, full)
            /\ {result.reduced[i] : i \in DOMAIN result.reduced} = full \ res

(* Whatever check_reduction thinks of a line, the literals that it collects,
   for which the strategy gets an entry, are reducible; and it succeeds with
   all of the lost literals collected only if the reduction is legal. *)
CollectedAreReducible ==
    call = "check_reduction" =>
        LET collected == {result.reduced[i] : i \in DOMAIN result.reduced}
        IN  /\ collected \subseteq Q!Reducible(vd, PrimaryType, res \cup collected)
            /\ (result.code = 1 /\ collected = c1 \ res) <=> (res \in Q!Reducts(vd, PrimaryType, c1))

(* The cursor of the oracle does not skip an answer: it answers every query with
   membership, also when the literals of a variable come in descending order. *)
OracleIsMembership ==
    OracleInUse => \A i \in DOMAIN result.answers : result.answers[i] <=> Query(i) \in res
=============================================================================
