----------------------------- MODULE CoreSearch -----------------------------
(***************************************************************************)
(* find_core: a depth-first search from every empty constraint of the      *)
(* proof through the parents of its lines.  It finds the core, the last    *)
(* constraint of the core that uses each of its members, and the empty     *)
(* constraints that each member is needed for.                             *)
(***************************************************************************)
EXTENDS Literals, SequencesExt

VARIABLES
    last_use_of,            \* constraint -> the last one that uses it
    sinks_of,               \* constraint -> the numbers of the empty constraints
    search                  \* the locals of the search

searchVars == <<last_use_of, sinks_of, search>>

NoSearch == [sinks |-> <<>>, i |-> 0, stack |-> <<>>, visited |-> {}]

SearchInit ==
    /\ last_use_of = EmptyMap
    /\ sinks_of = EmptyMap
    /\ search = NoSearch

-----------------------------------------------------------------------------
LineIds(lines) == {lines[i].id : i \in DOMAIN lines}

\* parents_of[id], which parse_DAG_structure has filled.
ParentsOf(lines, id) ==
    IF id \in LineIds(lines)
    THEN lines[CHOOSE i \in DOMAIN lines : lines[i].id = id].parents
    ELSE <<>>

\* The search from the i-th empty constraint begins.
BeginSearch(sinks, i) ==
    /\ last_use_of' = Put(last_use_of, sinks[i], 0)
    /\ search' = [sinks |-> sinks, i |-> i, stack |-> <<sinks[i]>>, visited |-> {sinks[i]}]

\* The parent that was met last is pushed only.
LastUnvisited(parents, visited) ==
    LET new == SelectSeq(parents, LAMBDA p : p \notin visited)
    IN  IF new = <<>> THEN <<>> ELSE <<Last(new)>>

\* Every parent, also those that were met before.
EveryParent(parents, visited) == parents

\* The parents that were not met before, each once.
Unvisited(parents, visited) ==
    AtPlaces(parents, {k \in DOMAIN parents :
        parents[k] \notin visited /\ \A j \in 1..(k - 1) : parents[j] # parents[k]})

\* The constraint that is popped last is taken for the last use.
LatestVisit(use, id) == id

LaterUse(use, id) == IF id > use THEN id ELSE use

current_id == Last(search.stack)

\* A constraint is popped: it uses its parents.
Visit(lines) ==
    LET parents == ParentsOf(lines, current_id)
        used    == Range(parents)
        pushed  == Unvisited(parents, search.visited)
    IN  /\ search.stack # <<>>
        /\ last_use_of' = [id \in DOMAIN last_use_of \cup used |->
               IF id \in used THEN LaterUse(Get(last_use_of, id), current_id)
               ELSE last_use_of[id]]
        /\ sinks_of' = Put(sinks_of, current_id,
               (IF current_id \in DOMAIN sinks_of THEN sinks_of[current_id] ELSE {})
               \cup {search.i})
        /\ search' = [search EXCEPT !.stack = Front(@) \o pushed,
                                    !.visited = @ \cup used]

\* An axiom has a line, but no parents.
VisitsAxiom(lines) ==
    current_id \in LineIds(lines) /\ ParentsOf(lines, current_id) = <<>>
=============================================================================
