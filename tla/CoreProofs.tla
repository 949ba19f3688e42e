------------------------------ MODULE CoreProofs ------------------------------
(***************************************************************************)
(* Proofs about the first pass, for every proof: what find_core() finds is *)
(* the core, the axioms that it counts are those that the second pass      *)
(* writes, and the core files are proofs.                                  *)
(***************************************************************************)
EXTENDS TranslatorProofs

-----------------------------------------------------------------------------
(* The graph of the proof and the core of one of its sinks *)

Parents(id) == Range(ParentsOf(input.lines, id))

(* Parents are lines, and earlier ones; so ids descend along every path. *)
LEMMA ParentsType ==
    ASSUME input \in Inputs, NEW id
    PROVE  /\ ParentsOf(input.lines, id) \in Seq(Nat \ {0})
           /\ \A p \in Parents(id) :
                  p \in LineIds(input.lines) /\ id \in LineIds(input.lines) /\ p < id
<1> DEFINE lines == input.lines
<1>1. lines \in Seq(Line) /\ WellFormed(lines)
    BY InputAssumption
<1>2. CASE id \notin LineIds(lines)
    <2>1. ParentsOf(lines, id) = <<>>
        BY <1>2 DEF ParentsOf
    <2> QED BY <2>1 DEF Parents, Range
<1>3. CASE id \in LineIds(lines)
    <2> DEFINE k == CHOOSE i \in DOMAIN lines : lines[i].id = id
    <2>1. k \in DOMAIN lines /\ lines[k].id = id
        BY <1>3 DEF LineIds
    <2>2. ParentsOf(lines, id) = lines[k].parents
        BY <1>3 DEF ParentsOf
    <2> HIDE DEF k
    <2>3. lines[k].parents \in Seq(Nat \ {0})
        BY <1>1, <2>1 DEF WellFormed, Line
    <2>4. ASSUME NEW p \in Range(lines[k].parents) PROVE p \in LineIds(lines) /\ p < id
        <3>1. PICK j \in 1..(k - 1) : lines[j].id = p
            BY <1>1, <2>1 DEF WellFormed
        <3>2. j \in DOMAIN lines /\ j < k
            BY <1>1, <2>1
        <3>3. lines[j].id < lines[k].id
            BY <1>1, <2>1, <3>2 DEF WellFormed
        <3> QED BY <2>1, <3>1, <3>2, <3>3 DEF LineIds
    <2> QED BY <1>3, <2>2, <2>3, <2>4 DEF Parents
<1> QED BY <1>2, <1>3

(* The ids of lines are positive. *)
LEMMA LineIdsType == input \in Inputs => LineIds(input.lines) \subseteq Nat \ {0}
<1> SUFFICES ASSUME input \in Inputs, NEW i \in DOMAIN input.lines
             PROVE  input.lines[i].id \in Nat \ {0}
    BY DEF LineIds
<1>1. input.lines[i] \in Line
    BY InputAssumption DEF WellFormed
<1> QED BY <1>1 DEF Line

(* The core has the sink, and has the parents of what it has. *)
LEMMA CoreHasParents ==
    ASSUME input \in Inputs, NEW sink
    PROVE  /\ sink \in Core(sink) /\ HasParents(Core(sink))
           /\ Core(sink) \subseteq LineIds(input.lines) \cup {sink}
<1> DEFINE all == LineIds(input.lines) \cup {sink}
<1>1. sink \in Core(sink) /\ Core(sink) \subseteq all
    BY DEF Core
<1>2. ASSUME NEW id \in Core(sink), NEW p \in Parents(id) PROVE p \in Core(sink)
    <2>1. p \in all
        BY ParentsType
    <2>2. ASSUME NEW ids \in SUBSET all, sink \in ids, HasParents(ids) PROVE p \in ids
        <3>1. id \in ids
            BY <2>2 DEF Core
        <3> QED BY <2>2, <3>1, <1>2 DEF HasParents, Parents
    <2> QED BY <2>1, <2>2 DEF Core
<1> QED BY <1>1, <1>2 DEF HasParents, Parents

(* It is the smallest such set. *)
LEMMA CoreIsLeast ==
    ASSUME NEW sink, NEW ids, ids \subseteq LineIds(input.lines) \cup {sink},
           sink \in ids, HasParents(ids)
    PROVE  Core(sink) \subseteq ids
BY DEF Core

(* The sink is the last line of its core. *)
LEMMA CoreBelow ==
    ASSUME input \in Inputs, NEW sink \in Nat, NEW id \in Core(sink)
    PROVE  id \in Nat /\ id <= sink
<1> DEFINE below == {n \in LineIds(input.lines) \cup {sink} : n \in Nat /\ n <= sink}
<1>1. HasParents(below)
    <2> SUFFICES ASSUME NEW n \in below, NEW p \in Parents(n) PROVE p \in below
        BY DEF HasParents, Parents
    <2>1. p \in LineIds(input.lines) /\ p < n
        BY ParentsType
    <2>2. p \in Nat /\ n \in Nat /\ n <= sink
        BY <2>1, LineIdsType
    <2> QED BY <2>1, <2>2
<1>2. sink \in below /\ below \subseteq LineIds(input.lines) \cup {sink}
    OBVIOUS
<1> HIDE DEF below
<1>3. id \in below
    BY <1>1, <1>2, CoreIsLeast
<1> QED BY <1>3 DEF below

(* Every line of the core but the sink is used in the core. *)
LEMMA CoreUsed ==
    ASSUME input \in Inputs, NEW sink, NEW id \in Core(sink), id # sink
    PROVE  \E c \in Core(sink) : id \in Parents(c)
<1> SUFFICES ASSUME \A c \in Core(sink) : id \notin Parents(c) PROVE FALSE
    OBVIOUS
<1> DEFINE rest == Core(sink) \ {id}
<1>1. HasParents(rest) /\ sink \in rest /\ rest \subseteq LineIds(input.lines) \cup {sink}
    BY CoreHasParents DEF HasParents, Parents
<1> HIDE DEF rest
<1>2. id \in rest
    BY <1>1, CoreIsLeast
<1> QED BY <1>2 DEF rest

-----------------------------------------------------------------------------
(* The sinks *)

(* The sinks that the core is searched from are empty constraints of the proof in
   ascending order, or 0 alone. *)
LEMMA SinksType ==
    ASSUME input \in Inputs
    PROVE  LET sinks == EmptyConstraints(input)
           IN  /\ sinks \in Seq(Nat)
               /\ \A i, j \in DOMAIN sinks : i < j => sinks[i] < sinks[j]
               /\ \A i \in DOMAIN sinks : sinks[i] # 0 => sinks[i] \in LineIds(input.lines)
               /\ (\E i \in DOMAIN sinks : sinks[i] = 0) => sinks = <<0>>
<1> DEFINE lines == input.lines
           places == {i \in DOMAIN lines : lines[i].lits = {}}
           place == SortedClause(places)
           empty == EmptyLines(lines)
           ids == [i \in DOMAIN empty |-> empty[i].id]
<1>1. lines \in Seq(Line) /\ WellFormed(lines)
    BY InputAssumption
<1>2. /\ empty \in Seq(Line) /\ DOMAIN empty = DOMAIN place
      /\ \A n \in DOMAIN empty : place[n] \in places /\ empty[n] = lines[place[n]]
      /\ \A m, n \in DOMAIN empty : m < n => place[m] < place[n]
    <2>1. places \in SUBSET DOMAIN lines
        OBVIOUS
    <2>2. empty = AtPlaces(lines, places)
        BY DEF EmptyLines
    <2> HIDE DEF places, empty
    <2> QED BY <1>1, <2>1, <2>2, AtPlacesType
<1> HIDE DEF place, empty
<1>3. \A n \in DOMAIN empty : empty[n].id \in LineIds(lines) /\ empty[n].id \in Nat \ {0}
    BY <1>2, LineIdsType DEF LineIds
<1>4. ids \in Seq(Nat \ {0}) /\ Len(ids) = Len(empty) /\ DOMAIN ids = DOMAIN empty
    BY <1>2, <1>3
<1>5. ASSUME NEW i \in DOMAIN ids, NEW j \in DOMAIN ids, i < j PROVE ids[i] < ids[j]
    <2>1. place[i] \in DOMAIN lines /\ place[j] \in DOMAIN lines /\ place[i] < place[j]
        BY <1>2, <1>4, <1>5
    <2>2. lines[place[i]].id < lines[place[j]].id
        BY <1>1, <2>1 DEF WellFormed
    <2> QED BY <1>2, <1>4, <2>2
<1>6. \A i \in DOMAIN ids : ids[i] \in LineIds(lines) /\ ids[i] # 0
    BY <1>3, <1>4
<1>7. \/ EmptyConstraints(input) = ids
      \/ EmptyConstraints(input) = <<>>
      \/ EmptyConstraints(input) = <<0>>
      \/ ids # <<>> /\ EmptyConstraints(input) = <<Last(ids)>>
    <2>1. EmptyConstraints(input) =
              IF input.format = "qute" THEN IF SyntaxError(lines) THEN <<>> ELSE ids
              ELSE IF SyntaxError(lines) \/ ids = <<>> THEN <<0>>
              ELSE <<Last(ids)>>
        BY DEF EmptyConstraints, empty
    <2> HIDE DEF ids
    <2> QED BY <2>1
<1> HIDE DEF ids
<1>8. CASE EmptyConstraints(input) = ids
    <2>1. ids \in Seq(Nat)
        BY <1>4
    <2> QED BY <1>5, <1>6, <1>8, <2>1
<1>9. CASE EmptyConstraints(input) = <<>>
    BY <1>9
<1>11. CASE EmptyConstraints(input) = <<0>>
    BY <1>11
<1>10. CASE ids # <<>> /\ EmptyConstraints(input) = <<Last(ids)>>
    <2>1. Last(ids) \in LineIds(lines) /\ Last(ids) \in Nat \ {0}
        BY <1>4, <1>6, <1>10 DEF Last
    <2> QED BY <1>10, <2>1
<1> QED BY <1>7, <1>8, <1>9, <1>10, <1>11

-----------------------------------------------------------------------------
(* The search.  What has been popped has its parents among what has been visited,
   so that nothing is missing when the stack is empty. *)

\* What the search from the present sink has popped.
Popped == search.visited \ Range(search.stack)

\* What the searches have popped up to now.
Explored == Popped \cup UNION {Core(search.sinks[j]) : j \in 1..(search.i - 1)}

IsGreatest(m, S) == m \in S /\ \A n \in S : n <= m

\* 0, and the constraints that use id.
UsersIn(ids, id) == {0} \cup {c \in ids : id \in Parents(c)}

StackInv ==
    /\ DOMAIN search = {"sinks", "i", "stack", "visited"}
    /\ search.sinks = EmptyConstraints(input)
    /\ search.i \in DOMAIN search.sinks
    /\ search.stack \in Seq(search.visited)
    /\ \A m, n \in DOMAIN search.stack : search.stack[m] = search.stack[n] => m = n

VisitedInv ==
    /\ search.sinks[search.i] \in search.visited
    /\ search.visited \subseteq Core(search.sinks[search.i])
    /\ \A id \in Popped : Parents(id) \subseteq search.visited

LastUseInv ==
    /\ DOMAIN last_use_of = Explored \cup search.visited
    /\ \A id \in DOMAIN last_use_of : IsGreatest(last_use_of[id], UsersIn(Explored, id))

SinksOfInv ==
    /\ DOMAIN sinks_of = Explored
    /\ \A id \in DOMAIN sinks_of :
           sinks_of[id] = {j \in 1..(search.i - 1) : id \in Core(search.sinks[j])}
                          \cup (IF id \in Popped THEN {search.i} ELSE {})

SearchInv ==
    /\ pc = "start" => search = NoSearch /\ last_use_of = EmptyMap /\ sinks_of = EmptyMap
    /\ pc = "search" => StackInv /\ VisitedInv /\ LastUseInv /\ SinksOfInv

-----------------------------------------------------------------------------
(* The graph is that of the input, which never changes. *)
LEMMA GraphStays ==
    ASSUME UNCHANGED input
    PROVE  /\ \A id : Parents(id)' = Parents(id)
           /\ \A id : Core(id)' = Core(id)
BY DEF Parents, Core, HasParents

(* A set of numbers has one greatest element. *)
LEMMA GreatestIsMax ==
    ASSUME NEW S, S \subseteq Int, NEW m, IsGreatest(m, S)
    PROVE  Max(S) = m
<1>1. m \in S /\ \A y \in S : m >= y
    BY DEF IsGreatest
<1>2. ASSUME NEW x \in S, \A y \in S : x >= y PROVE x = m
    <2>1. x >= m /\ m >= x /\ x \in Int /\ m \in Int
        BY <1>1, <1>2
    <2> QED BY <2>1
<1> QED BY <1>1, <1>2 DEF Max

(* What is pushed: the parents that have not been visited, each once. *)
LEMMA UnvisitedType ==
    ASSUME NEW T, NEW parents \in Seq(T), NEW visited
    PROVE  LET new == Unvisited(parents, visited)
           IN  /\ new \in Seq(T)
               /\ Range(new) = Range(parents) \ visited
               /\ \A m, n \in DOMAIN new : new[m] = new[n] => m = n
<1> DEFINE places == {k \in DOMAIN parents :
                        parents[k] \notin visited /\ \A j \in 1..(k - 1) : parents[j] # parents[k]}
           place == SortedClause(places)
           new == Unvisited(parents, visited)
<1>1. places \in SUBSET DOMAIN parents
    OBVIOUS
<1>2. new = AtPlaces(parents, places)
    BY DEF Unvisited
<1>3. /\ new \in Seq(T) /\ DOMAIN new = DOMAIN place
      /\ \A n \in DOMAIN new : place[n] \in places /\ new[n] = parents[place[n]]
      /\ \A m, n \in DOMAIN new : m < n => place[m] < place[n]
      /\ \A q \in places : \E n \in DOMAIN new : place[n] = q
    <2> HIDE DEF places, new
    <2> QED BY <1>1, <1>2, AtPlacesType
<1> HIDE DEF place, new
<1>4. ASSUME NEW m \in DOMAIN new, NEW n \in DOMAIN new, m < n PROVE new[m] # new[n]
    <2>1. place[m] \in places /\ place[n] \in places /\ place[m] < place[n]
        BY <1>3, <1>4
    <2>2. place[m] \in 1..(place[n] - 1)
        BY <2>1
    <2> QED BY <1>3, <2>1, <2>2
<1>5. \A m, n \in DOMAIN new : new[m] = new[n] => m = n
    <2> SUFFICES ASSUME NEW m \in DOMAIN new, NEW n \in DOMAIN new, m # n PROVE new[m] # new[n]
        OBVIOUS
    <2>1. m \in Int /\ n \in Int
        BY <1>3
    <2>2. m < n \/ n < m
        BY <2>1
    <2> QED BY <1>4, <2>2
<1>6. ASSUME NEW x \in Range(parents) \ visited PROVE x \in Range(new)
    <2> DEFINE at == {k \in DOMAIN parents : parents[k] = x}
    <2>1. at \subseteq Nat /\ at # {}
        BY <1>6 DEF Range
    <2>2. PICK k \in at : \A j \in at : k <= j
        <3> HIDE DEF at
        <3> QED BY <2>1, LeastNumber
    <2>3. ASSUME NEW j \in 1..(k - 1) PROVE parents[j] # parents[k]
        <3>1. j \in DOMAIN parents /\ j < k /\ k \in Nat
            BY <2>2
        <3>2. j \notin at
            BY <2>2, <3>1
        <3> QED BY <2>2, <3>1, <3>2
    <2>4. k \in places
        BY <1>6, <2>2, <2>3
    <2>5. PICK n \in DOMAIN new : place[n] = k
        BY <1>3, <2>4
    <2>6. new[n] = x
        BY <1>3, <2>2, <2>5
    <2> QED BY <2>6 DEF Range
<1>7. Range(new) \subseteq Range(parents) \ visited
    BY <1>3 DEF Range
<1> QED BY <1>3, <1>5, <1>6, <1>7 DEF new

(* The constraint on top is popped and new ones are pushed: none is there twice. *)
LEMMA PopAndPush ==
    ASSUME NEW V, NEW s \in Seq(V), s # <<>>, \A m, n \in DOMAIN s : s[m] = s[n] => m = n,
           NEW W, NEW t \in Seq(W), \A m, n \in DOMAIN t : t[m] = t[n] => m = n,
           Range(t) \cap V = {}
    PROVE  LET u == Front(s) \o t
           IN  /\ u \in Seq(V \cup W)
               /\ \A m, n \in DOMAIN u : u[m] = u[n] => m = n
               /\ Range(u) = (Range(s) \ {Last(s)}) \cup Range(t)
               /\ Last(s) \in Range(s)
<1> DEFINE k == Len(s) - 1
           front == Front(s)
           u == front \o t
<1>1. k \in Nat /\ k + 1 = Len(s)
    BY EmptySeq
<1>2. front \in Seq(V) /\ Len(front) = k /\ \A n \in 1..k : front[n] = s[n]
    BY <1>1, SubSeqProperties DEF Front
<1> HIDE DEF front
<1>3. front \in Seq(V \cup W) /\ t \in Seq(V \cup W)
    BY <1>2, SeqMonotonic
<1>4. /\ u \in Seq(V \cup W) /\ Len(u) = k + Len(t) /\ Len(t) \in Nat
      /\ \A n \in 1..(k + Len(t)) : u[n] = IF n <= k THEN s[n] ELSE t[n - k]
    <2>1. /\ u \in Seq(V \cup W) /\ Len(u) = Len(front) + Len(t)
          /\ \A n \in 1..(Len(front) + Len(t)) :
                 u[n] = IF n <= Len(front) THEN front[n] ELSE t[n - Len(front)]
        BY <1>3, ConcatProperties
    <2> HIDE DEF u
    <2>2. Len(t) \in Nat
        OBVIOUS
    <2>3. ASSUME NEW n \in 1..(k + Len(t)) PROVE u[n] = IF n <= k THEN s[n] ELSE t[n - k]
        <3>1. u[n] = IF n <= k THEN front[n] ELSE t[n - k]
            BY <1>2, <2>1
        <3>2. n <= k => front[n] = s[n]
            BY <1>1, <1>2, <2>2
        <3> QED BY <3>1, <3>2
    <2> QED BY <1>2, <2>1, <2>2, <2>3
<1> HIDE DEF u
<1>5. ASSUME NEW m \in DOMAIN u, NEW n \in DOMAIN u, u[m] = u[n] PROVE m = n
    <2>1. DOMAIN u = 1..(k + Len(t)) /\ DOMAIN s = 1..(k + 1) /\ DOMAIN t = 1..Len(t)
        BY <1>1, <1>4
    <2>2. m \in 1..(k + Len(t)) /\ n \in 1..(k + Len(t)) /\ Len(t) \in Nat
        BY <2>1
    <2>3. CASE m <= k /\ n <= k
        <3>1. m \in DOMAIN s /\ n \in DOMAIN s
            BY <1>1, <2>1, <2>2, <2>3
        <3> QED BY <1>4, <1>5, <2>2, <2>3, <3>1
    <2>4. CASE ~(m <= k) /\ ~(n <= k)
        <3>1. m - k \in DOMAIN t /\ n - k \in DOMAIN t
            BY <1>1, <2>1, <2>2, <2>4
        <3>2. t[m - k] = t[n - k]
            BY <1>4, <1>5, <2>2, <2>4
        <3>3. m - k = n - k
            BY <3>1, <3>2
        <3> QED BY <1>1, <2>2, <3>3
    <2>5. ASSUME NEW a \in 1..k, NEW b \in DOMAIN t PROVE s[a] # t[b]
        <3>1. s[a] \in V
            BY <1>1, <2>1
        <3> QED BY <3>1 DEF Range
    <2>6. CASE m <= k /\ ~(n <= k)
        <3>1. m \in 1..k /\ n - k \in DOMAIN t
            BY <1>1, <2>1, <2>2, <2>6
        <3> QED BY <1>4, <1>5, <2>2, <2>5, <2>6, <3>1
    <2>7. CASE ~(m <= k) /\ n <= k
        <3>1. n \in 1..k /\ m - k \in DOMAIN t
            BY <1>1, <2>1, <2>2, <2>7
        <3> QED BY <1>4, <1>5, <2>2, <2>5, <2>7, <3>1
    <2> QED BY <2>3, <2>4, <2>6, <2>7
<1>6. Last(s) = s[k + 1] /\ k + 1 \in DOMAIN s
    BY <1>1 DEF Last
<1>7. Range(u) \subseteq (Range(s) \ {Last(s)}) \cup Range(t)
    <2> SUFFICES ASSUME NEW n \in DOMAIN u PROVE u[n] \in (Range(s) \ {Last(s)}) \cup Range(t)
        BY DEF Range
    <2>1. n \in 1..(k + Len(t)) /\ Len(t) \in Nat
        BY <1>4
    <2>2. CASE n <= k
        <3>1. n \in DOMAIN s /\ n # k + 1
            BY <1>1, <2>1, <2>2
        <3>2. u[n] = s[n] /\ s[n] # s[k + 1]
            BY <1>4, <1>6, <2>1, <2>2, <3>1
        <3> QED BY <1>6, <3>1, <3>2 DEF Range
    <2>3. CASE ~(n <= k)
        <3>1. u[n] = t[n - k] /\ n - k \in DOMAIN t
            BY <1>1, <1>4, <2>1, <2>3
        <3> QED BY <3>1 DEF Range
    <2> QED BY <2>2, <2>3
<1>8. (Range(s) \ {Last(s)}) \cup Range(t) \subseteq Range(u)
    <2>1. ASSUME NEW n \in DOMAIN s, s[n] # Last(s) PROVE s[n] \in Range(u)
        <3>1. n \in 1..k
            BY <1>1, <1>6, <2>1
        <3>2. n \in DOMAIN u /\ u[n] = s[n]
            BY <1>1, <1>4, <3>1
        <3> QED BY <3>2 DEF Range
    <2>2. ASSUME NEW n \in DOMAIN t PROVE t[n] \in Range(u)
        <3>1. n \in 1..Len(t)
            OBVIOUS
        <3>2. k + n \in 1..(k + Len(t)) /\ ~(k + n <= k) /\ (k + n) - k = n
            BY <1>1, <1>4, <3>1
        <3>3. DOMAIN u = 1..(k + Len(t)) /\ u[k + n] = t[n]
            BY <1>4, <3>2
        <3> QED BY <3>2, <3>3 DEF Range
    <2> QED BY <2>1, <2>2 DEF Range
<1>9. Last(s) \in Range(s)
    BY <1>6 DEF Range
<1> QED BY <1>4, <1>5, <1>7, <1>8, <1>9 DEF u, front

-----------------------------------------------------------------------------
(* Everything explored is a number, and its parents have been visited. *)
LEMMA ExploredType ==
    ASSUME input \in Inputs, StackInv, VisitedInv
    PROVE  /\ search.i \in Nat \ {0} /\ \A j \in 1..search.i : search.sinks[j] \in Nat
           /\ Explored \cup search.visited \subseteq Nat
           /\ \A c \in Explored : Parents(c) \subseteq Explored \cup search.visited
<1>1. search.sinks \in Seq(Nat) /\ search.i \in DOMAIN search.sinks
    BY SinksType DEF StackInv
<1>2. search.i \in Nat \ {0} /\ \A j \in 1..search.i : search.sinks[j] \in Nat
    BY <1>1
<1>3. \A j \in 1..search.i : Core(search.sinks[j]) \subseteq Nat /\ HasParents(Core(search.sinks[j]))
    BY <1>2, CoreBelow, CoreHasParents
<1>4. search.visited \subseteq Nat /\ Popped \subseteq search.visited
    BY <1>2, <1>3 DEF VisitedInv, Popped
<1>5. \A j \in 1..(search.i - 1) : j \in 1..search.i
    BY <1>2
<1>6. Explored \subseteq Nat
    BY <1>3, <1>4, <1>5 DEF Explored
<1>7. ASSUME NEW c \in Explored PROVE Parents(c) \subseteq Explored \cup search.visited
    <2>1. CASE c \in Popped
        BY <2>1 DEF VisitedInv
    <2>2. CASE c \notin Popped
        <3>1. PICK j \in 1..(search.i - 1) : c \in Core(search.sinks[j])
            BY <2>2 DEF Explored
        <3>2. Parents(c) \subseteq Core(search.sinks[j])
            BY <1>3, <1>5, <3>1 DEF HasParents, Parents
        <3> QED BY <3>1, <3>2 DEF Explored
    <2> QED BY <2>1, <2>2
<1> QED BY <1>2, <1>4, <1>6, <1>7

\* The search goes on with the constraints that this one has added.
LEMMA VisitStep ==
    ASSUME input \in Inputs, SearchInv, VisitConstraint
    PROVE  SearchInv'
<1> DEFINE cur == current_id
           used == Parents(cur)
           parents == ParentsOf(input.lines, cur)
           pushed == Unvisited(parents, search.visited)
<1>1. /\ pc = "search" /\ pc' = "search" /\ UNCHANGED input /\ search.stack # <<>>
      /\ StackInv /\ VisitedInv /\ LastUseInv /\ SinksOfInv
    BY DEF VisitConstraint, searchUnchanged, Visit, SearchInv
<1>2. /\ DOMAIN search' = {"sinks", "i", "stack", "visited"}
      /\ search'.sinks = search.sinks /\ search'.i = search.i
      /\ search'.stack = Front(search.stack) \o pushed
      /\ search'.visited = search.visited \cup used
    <2>1. search' = [search EXCEPT !.stack = Front(@) \o pushed, !.visited = @ \cup used]
        BY DEF VisitConstraint, Visit, Parents
    <2> HIDE DEF pushed, used
    <2> QED BY <1>1, <2>1 DEF StackInv
<1>3. \A id : Parents(id)' = Parents(id) /\ Core(id)' = Core(id)
    BY <1>1, GraphStays
<1>4. /\ pushed \in Seq(used) /\ Range(pushed) = used \ search.visited
      /\ \A m, n \in DOMAIN pushed : pushed[m] = pushed[n] => m = n
    <2>1. parents \in Seq(Nat \ {0})
        BY ParentsType
    <2>2. parents \in Seq(used)
        <3> HIDE DEF parents
        <3> QED BY <2>1 DEF Range, Parents, parents
    <2>3. used = Range(parents)
        BY DEF Parents
    <2> HIDE DEF parents, used, pushed
    <2> QED BY <2>2, <2>3, UnvisitedType DEF pushed
<1> HIDE DEF pushed, parents
<1>5. /\ search'.stack \in Seq(search'.visited)
      /\ \A m, n \in DOMAIN search'.stack : search'.stack[m] = search'.stack[n] => m = n
      /\ Range(search'.stack) = (Range(search.stack) \ {cur}) \cup (used \ search.visited)
      /\ cur \in Range(search.stack)
    <2>1. Range(pushed) \cap search.visited = {}
        BY <1>4
    <2> DEFINE u == Front(search.stack) \o pushed
    <2> HIDE DEF used
    <2>2. /\ u \in Seq(search.visited \cup used)
          /\ \A m, n \in DOMAIN u : u[m] = u[n] => m = n
          /\ Range(u) = (Range(search.stack) \ {Last(search.stack)}) \cup Range(pushed)
          /\ Last(search.stack) \in Range(search.stack)
        BY <1>1, <1>4, <2>1, PopAndPush DEF StackInv
    <2> HIDE DEF u
    <2>3. search'.stack = u
        BY <1>2 DEF u
    <2> QED BY <1>2, <1>4, <2>2, <2>3 DEF current_id
<1>6. Range(search.stack) \subseteq search.visited
    BY <1>1 DEF StackInv, Range
<1>7. /\ Popped' = Popped \cup {cur} /\ cur \notin Popped
      /\ cur \in search.visited
    BY <1>2, <1>5, <1>6 DEF Popped
<1>11. used = Parents(cur)
    OBVIOUS
<1> HIDE DEF cur, used
<1>8. Explored' = Explored \cup {cur}
    BY <1>2, <1>3, <1>7 DEF Explored
<1>9. StackInv'
    BY <1>1, <1>2, <1>5 DEF StackInv
<1>10. VisitedInv'
    <2>1. Core(search.sinks[search.i])' = Core(search.sinks[search.i])
        BY <1>2, <1>3
    <2>2. used \subseteq Core(search.sinks[search.i])
        BY <1>1, <1>7, <1>11, CoreHasParents DEF VisitedInv, HasParents, Parents
    <2>3. search'.visited \subseteq Core(search.sinks[search.i])'
        BY <1>1, <1>2, <2>1, <2>2 DEF VisitedInv
    <2>4. ASSUME NEW id \in Popped' PROVE Parents(id)' \subseteq search'.visited
        BY <1>1, <1>2, <1>3, <1>7, <1>11, <2>4 DEF VisitedInv
    <2>5. search'.sinks[search'.i] \in search'.visited
        BY <1>1, <1>2 DEF VisitedInv
    <2> QED BY <2>3, <2>4, <2>5 DEF VisitedInv
<1>12. LastUseInv'
    <2>1. last_use_of' = [id \in DOMAIN last_use_of \cup used |->
               IF id \in used THEN LaterUse(Get(last_use_of, id), cur)
               ELSE last_use_of[id]]
        BY DEF VisitConstraint, Visit, Parents, used, cur
    <2>2. DOMAIN last_use_of' = Explored' \cup search'.visited
        BY <1>1, <1>2, <1>7, <1>8, <2>1 DEF LastUseInv
    <2>3. cur \in Nat
        BY <1>1, <1>7, ExploredType
    <2>4. ASSUME NEW id \in DOMAIN last_use_of'
          PROVE  IsGreatest(last_use_of'[id], UsersIn(Explored \cup {cur}, id))
        <3> DEFINE old == UsersIn(Explored, id)
                   new == UsersIn(Explored \cup {cur}, id)
        <3>1. old \subseteq Nat /\ 0 \in old
            BY <1>1, ExploredType DEF UsersIn
        <3>2. CASE id \notin used
            <4>1. new = old
                BY <1>11, <3>2 DEF UsersIn
            <4>2. id \in DOMAIN last_use_of /\ last_use_of'[id] = last_use_of[id]
                BY <2>1, <2>4, <3>2
            <4> QED BY <1>1, <4>1, <4>2 DEF LastUseInv
        <3>3. CASE id \in used
            <4>1. new = old \cup {cur}
                BY <1>11, <3>3 DEF UsersIn
            <4>2. last_use_of'[id] = LaterUse(Get(last_use_of, id), cur)
                BY <2>1, <3>3
            <4>3. IsGreatest(Get(last_use_of, id), old)
                <5>1. CASE id \in DOMAIN last_use_of
                    BY <1>1, <5>1 DEF LastUseInv, Get
                <5>2. CASE id \notin DOMAIN last_use_of
                    <6>1. old = {0}
                        BY <1>1, <5>2, ExploredType DEF LastUseInv, UsersIn
                    <6> HIDE DEF old
                    <6> QED BY <5>2, <6>1 DEF Get, IsGreatest
                <5> QED BY <5>1, <5>2
            <4> DEFINE use == Get(last_use_of, id)
            <4>4. use \in old /\ (\A n \in old : n <= use) /\ use \in Nat
                BY <3>1, <4>3 DEF IsGreatest
            <4> HIDE DEF old, new, use
            <4>5. last_use_of'[id] = IF cur > use THEN cur ELSE use
                BY <4>2 DEF LaterUse, use
            <4>6. last_use_of'[id] \in old \cup {cur}
                BY <4>4, <4>5
            <4>7. ASSUME NEW n \in old \cup {cur} PROVE n <= last_use_of'[id]
                BY <2>3, <3>1, <4>4, <4>5
            <4> QED BY <4>1, <4>6, <4>7 DEF IsGreatest, new
        <3> QED BY <3>2, <3>3
    <2>5. ASSUME NEW id \in DOMAIN last_use_of'
          PROVE  UsersIn(Explored, id)' = UsersIn(Explored \cup {cur}, id)
        BY <1>3, <1>8 DEF UsersIn
    <2> QED BY <2>2, <2>4, <2>5 DEF LastUseInv, IsGreatest
<1>13. SinksOfInv'
    <2>1. sinks_of' = Put(sinks_of, cur,
               (IF cur \in DOMAIN sinks_of THEN sinks_of[cur] ELSE {}) \cup {search.i})
        BY DEF VisitConstraint, Visit, cur
    <2>2. DOMAIN sinks_of' = Explored'
        BY <1>1, <1>8, <2>1 DEF SinksOfInv, Put
    <2>3. ASSUME NEW id \in DOMAIN sinks_of'
          PROVE  sinks_of'[id] = {j \in 1..(search.i - 1) : id \in Core(search.sinks[j])}
                                 \cup (IF id \in Popped' THEN {search.i} ELSE {})
        <3>1. CASE id # cur
            <4>1. id \in DOMAIN sinks_of /\ sinks_of'[id] = sinks_of[id]
                BY <2>1, <2>3, <3>1 DEF Put
            <4>2. id \in Popped' <=> id \in Popped
                BY <1>7, <3>1
            <4> QED BY <1>1, <4>1, <4>2 DEF SinksOfInv
        <3>2. CASE id = cur
            <4>1. sinks_of'[id] = (IF cur \in DOMAIN sinks_of THEN sinks_of[cur] ELSE {}) \cup {search.i}
                BY <2>1, <3>2 DEF Put
            <4>2. cur \in Popped' /\ cur \notin Popped
                BY <1>7
            <4>3. CASE cur \in DOMAIN sinks_of
                BY <1>1, <3>2, <4>1, <4>2, <4>3 DEF SinksOfInv
            <4>4. CASE cur \notin DOMAIN sinks_of
                <5>1. \A j \in 1..(search.i - 1) : cur \notin Core(search.sinks[j])
                    BY <1>1, <4>4 DEF SinksOfInv, Explored
                <5> QED BY <3>2, <4>1, <4>2, <4>4, <5>1
            <4> QED BY <4>3, <4>4
        <3> QED BY <3>1, <3>2
    <2> QED BY <1>2, <1>3, <2>2, <2>3 DEF SinksOfInv
<1> QED BY <1>1, <1>9, <1>10, <1>12, <1>13 DEF SearchInv

(* An empty stack: the core of the sink has been popped. *)
LEMMA SearchComplete ==
    ASSUME input \in Inputs, StackInv, VisitedInv, search.stack = <<>>
    PROVE  /\ search.visited = Core(search.sinks[search.i])
           /\ Popped = Core(search.sinks[search.i])
           /\ Explored = UNION {Core(search.sinks[j]) : j \in 1..search.i}
<1> DEFINE sink == search.sinks[search.i]
<1>1. Popped = search.visited
    BY DEF Popped, Range
<1>2. HasParents(search.visited)
    BY <1>1 DEF VisitedInv, HasParents, Parents
<1>3. search.visited \subseteq LineIds(input.lines) \cup {sink}
    BY CoreHasParents DEF VisitedInv
<1>4. Core(sink) \subseteq search.visited
    BY <1>2, <1>3, CoreIsLeast DEF VisitedInv
<1>5. search.visited = Core(sink)
    BY <1>4 DEF VisitedInv
<1>6. search.i \in Nat \ {0}
    BY ExploredType
<1>7. 1..search.i = 1..(search.i - 1) \cup {search.i}
    BY <1>6
<1> HIDE DEF sink
<1>8. Explored = UNION {Core(search.sinks[j]) : j \in 1..search.i}
    BY <1>1, <1>5, <1>7 DEF Explored, sink
<1> QED BY <1>1, <1>5, <1>8 DEF sink

(* The search from the next sink begins: nothing found so far uses it. *)
LEMMA NextSinkStep ==
    ASSUME input \in Inputs, SearchInv, NextSink
    PROVE  SearchInv'
<1> DEFINE k == search.i + 1
           s == search.sinks[k]
<1>1. /\ pc = "search" /\ pc' = "search" /\ UNCHANGED <<input, sinks_of>> /\ search.stack = <<>>
      /\ search.i < Len(search.sinks)
      /\ last_use_of' = Put(last_use_of, s, 0)
      /\ search' = [sinks |-> search.sinks, i |-> k, stack |-> <<s>>, visited |-> {s}]
      /\ StackInv /\ VisitedInv /\ LastUseInv /\ SinksOfInv
    BY DEF NextSink, BeginSearch, searchUnchanged, SearchInv
<1>2. /\ search.sinks \in Seq(Nat)
      /\ \A i, j \in DOMAIN search.sinks : i < j => search.sinks[i] < search.sinks[j]
    BY <1>1, SinksType DEF StackInv
<1>3. k \in DOMAIN search.sinks /\ k \in Nat /\ s \in Nat /\ k - 1 = search.i
    BY <1>1, <1>2, ExploredType
<1>4. \A id : Parents(id)' = Parents(id) /\ Core(id)' = Core(id)
    BY <1>1, GraphStays
<1>5. /\ search'.sinks = search.sinks /\ search'.i = k
      /\ search'.stack = <<s>> /\ search'.visited = {s}
      /\ DOMAIN search' = {"sinks", "i", "stack", "visited"}
    BY <1>1
<1> HIDE DEF s
<1>6. Popped' = {}
    BY <1>5 DEF Popped, Range
<1>7. /\ Explored = UNION {Core(search.sinks[j]) : j \in 1..search.i}
      /\ Popped = Core(search.sinks[search.i])
    BY <1>1, SearchComplete
<1>8. Explored' = Explored
    BY <1>3, <1>4, <1>5, <1>6, <1>7 DEF Explored
<1>9. ASSUME NEW c \in Explored PROVE s \notin Parents(c)
    <2>1. PICK j \in 1..search.i : c \in Core(search.sinks[j])
        BY <1>7
    <2>5. j \in DOMAIN search.sinks /\ j < k
        <3>1. DOMAIN search.sinks = 1..Len(search.sinks) /\ Len(search.sinks) \in Nat
            BY <1>2
        <3> QED BY <1>1, <1>3, <2>1, <3>1
    <2>2. search.sinks[j] \in Nat /\ search.sinks[j] < s
        BY <1>2, <1>3, <2>5 DEF s
    <2>3. c \in Nat /\ c <= search.sinks[j]
        BY <2>1, <2>2, CoreBelow
    <2>4. s \in Parents(c) => s < c
        BY ParentsType
    <2> QED BY <1>3, <2>2, <2>3, <2>4
<1>10. StackInv'
    BY <1>1, <1>3, <1>5 DEF StackInv
<1>11. VisitedInv'
    BY <1>4, <1>5, <1>6, CoreHasParents DEF VisitedInv, s
<1>12. LastUseInv'
    <2>1. DOMAIN last_use_of' = Explored' \cup search'.visited
        <3>1. search.visited \subseteq Explored
            BY <1>1, <1>7, SearchComplete DEF Explored
        <3> QED BY <1>1, <1>5, <1>8, <3>1 DEF LastUseInv, Put
    <2>2. ASSUME NEW id \in DOMAIN last_use_of'
          PROVE  IsGreatest(last_use_of'[id], UsersIn(Explored, id))
        <3>1. CASE id = s
            <4>1. UsersIn(Explored, id) = {0} /\ last_use_of'[id] = 0
                BY <1>1, <1>9, <3>1 DEF UsersIn, Put
            <4> QED BY <4>1 DEF IsGreatest
        <3>2. CASE id # s
            BY <1>1, <2>2, <3>2 DEF LastUseInv, Put
        <3> QED BY <3>1, <3>2
    <2>3. \A id : UsersIn(Explored, id)' = UsersIn(Explored, id)
        BY <1>4, <1>8 DEF UsersIn
    <2> QED BY <2>1, <2>2, <2>3 DEF LastUseInv, IsGreatest
<1>13. SinksOfInv'
    <2>1. 1..search.i = 1..(search.i - 1) \cup {search.i}
        BY <1>1, ExploredType
    <2>2. ASSUME NEW id \in DOMAIN sinks_of
          PROVE  sinks_of[id] = {j \in 1..search.i : id \in Core(search.sinks[j])}
        BY <1>1, <1>7, <2>1 DEF SinksOfInv
    <2>3. ASSUME NEW id \in DOMAIN sinks_of'
          PROVE  sinks_of'[id] = {j \in 1..search.i : id \in Core(search.sinks[j])}
        BY <1>1, <2>2
    <2>4. DOMAIN sinks_of' = Explored'
        BY <1>1, <1>8 DEF SinksOfInv
    <2>5. search'.i - 1 = search.i
        BY <1>3, <1>5
    <2>6. \A j : Core(search.sinks[j])' = Core(search.sinks[j])
        BY <1>4, <1>5
    <2> QED BY <1>6, <2>3, <2>4, <2>5, <2>6 DEF SinksOfInv
<1> QED BY <1>1, <1>10, <1>11, <1>12, <1>13 DEF SearchInv

(* The search from the first sink begins. *)
LEMMA FirstPassStep ==
    ASSUME input \in Inputs, SearchInv, FirstPass
    PROVE  SearchInv'
<1> DEFINE sinks == EmptyConstraints(input)
           s == sinks[1]
<1>1. CASE sinks = <<>>
    BY <1>1 DEF FirstPass, SearchInv
<1>2. CASE sinks # <<>>
    <2>1. /\ pc' = "search" /\ UNCHANGED <<input, sinks_of>>
          /\ last_use_of' = Put(EmptyMap, s, 0) /\ sinks_of = EmptyMap
          /\ search' = [sinks |-> sinks, i |-> 1, stack |-> <<s>>, visited |-> {s}]
        BY <1>2 DEF FirstPass, BeginSearch, SearchInv
    <2>2. sinks \in Seq(Nat) /\ 1 \in DOMAIN sinks
        <3>1. sinks \in Seq(Nat)
            BY SinksType
        <3> HIDE DEF sinks
        <3> QED BY <1>2, <3>1, EmptySeq
    <2>3. \A id : Parents(id)' = Parents(id) /\ Core(id)' = Core(id)
        BY <2>1, GraphStays
    <2>4. sinks = EmptyConstraints(input)'
        BY <2>1
    <2> HIDE DEF s, sinks
    <2>5. /\ search'.sinks = sinks /\ search'.i = 1
          /\ search'.stack = <<s>> /\ search'.visited = {s}
          /\ DOMAIN search' = {"sinks", "i", "stack", "visited"}
        BY <2>1
    <2>6. Popped' = {} /\ Explored' = {}
        BY <2>5 DEF Popped, Explored, Range
    <2>7. StackInv'
        BY <2>2, <2>4, <2>5 DEF StackInv
    <2>8. VisitedInv'
        BY <2>3, <2>5, <2>6, CoreHasParents DEF VisitedInv, s
    <2>9. LastUseInv'
        <3>1. DOMAIN last_use_of' = {s} /\ last_use_of'[s] = 0
            BY <2>1 DEF Put, EmptyMap
        <3>2. ASSUME NEW id PROVE UsersIn(Explored, id)' = {0}
            <4>1. {c \in Explored : id \in Parents(c)}' = {}
                BY <2>6
            <4> QED BY <4>1 DEF UsersIn
        <3>3. DOMAIN last_use_of' = Explored' \cup search'.visited
            BY <2>5, <2>6, <3>1
        <3>4. \A id \in DOMAIN last_use_of' : last_use_of'[id] = 0
            BY <3>1
        <3> QED BY <3>2, <3>3, <3>4 DEF LastUseInv, IsGreatest
    <2>10. SinksOfInv'
        BY <2>1, <2>6 DEF SinksOfInv, EmptyMap
    <2> QED BY <2>1, <2>7, <2>8, <2>9, <2>10 DEF SearchInv
<1> QED BY <1>1, <1>2

(* The search is over when the second pass begins; then only OpenProof changes pc. *)
LEMMA SearchNext == ControlInv /\ SearchInv /\ [Next]_vars => SearchInv'
<1> SUFFICES ASSUME ControlInv, SearchInv, [Next]_vars PROVE SearchInv'
    OBVIOUS
<1>1. input \in Inputs
    BY DEF ControlInv
<1>2. ASSUME pc' \notin {"start", "search"} PROVE SearchInv'
    BY <1>2 DEF SearchInv
<1>3. CASE UNCHANGED vars
    <2>1. UNCHANGED <<input, pc, search, last_use_of, sinks_of>>
        BY <1>3 DEF vars, readVars, inputVars
    <2>2. \A id : Parents(id)' = Parents(id) /\ Core(id)' = Core(id)
        BY <2>1, GraphStays
    <2>3. Popped' = Popped /\ Explored' = Explored
        BY <2>1, <2>2 DEF Popped, Explored
    <2>4. \A id : UsersIn(Explored, id)' = UsersIn(Explored, id)
        BY <2>2, <2>3 DEF UsersIn
    <2>5. StackInv => StackInv'
        BY <2>1 DEF StackInv
    <2>6. VisitedInv => VisitedInv'
        BY <2>1, <2>2, <2>3 DEF VisitedInv
    <2>7. LastUseInv => LastUseInv'
        BY <2>1, <2>3, <2>4 DEF LastUseInv, IsGreatest
    <2>8. SinksOfInv => SinksOfInv'
        BY <2>1, <2>2, <2>3 DEF SinksOfInv
    <2> QED BY <2>1, <2>5, <2>6, <2>7, <2>8 DEF SearchInv
<1>4. CASE ReadOnAndOn
    BY <1>3, <1>4 DEF ReadOnAndOn
<1>5. CASE FirstPass
    BY <1>1, <1>5, FirstPassStep
<1>6. CASE VisitConstraint
    BY <1>1, <1>6, VisitStep
<1>7. CASE NextSink
    BY <1>1, <1>7, NextSinkStep
<1>8. CASE OpenProof
    BY <1>2, <1>8 DEF OpenProof
<1>9. CASE ReadingLines
    <2>1. pc' \notin {"start", "search"}
        BY <1>9 DEF ReadingLines, ReadingLine, CoreLine, SkipLine, RecordInternalAxiom,
                    RecordInputClause, RecordInitialTerm, ReadReduction, ReadResolution,
                    NextResolution
    <2> QED BY <1>2, <2>1
<1>10. CASE Checking \/ MergingPhases
    <2>1. pc' \notin {"start", "search"}
        BY <1>10 DEF Checking, CheckResolutionStep, CheckReductionStep, MergingPhases, SamePhase,
                     CachedPhase, NewPhase, RecordPhase, KnownEflit, NewEflit,
                     CopyParentPhases, SplitAndShadow
    <2> QED BY <1>2, <2>1
<1>11. CASE Reducing \/ NotReducing
    <2>1. pc' \notin {"start", "search"}
        BY <1>11 DEF Reducing, DefineG, AuxGate, ReduceSimple, GLemma, ReduceMerged, PushArrays,
                     NotReducing, EmitResolvent, Reroute, stepUnchanged
    <2> QED BY <1>2, <2>1
<1>12. CASE Returning
    <2>1. pc' \notin {"start", "search"}
        BY <1>12 DEF Returning, ReturnReduction, ReturnSafetyReduction, ReturnIntermediate,
                     ReturnFinal, ReturnCrash, ReturnFailure
    <2> QED BY <1>2, <2>1
<1>13. CASE Finishing
    <2>1. pc' \notin {"start", "search"}
        BY <1>13 DEF Finishing, EndOfProof, WriteGratProof, CombineFiles
    <2> QED BY <1>2, <2>1
<1> QED
    BY <1>3, <1>4, <1>5, <1>6, <1>7, <1>8, <1>9, <1>10, <1>11, <1>12, <1>13
       DEF Next, Translate, Terminated, Preparing

(* Nothing has been searched at the start. *)
LEMMA SearchInitial == Init => SearchInv
BY DEF Init, SearchInit, SearchInv

(* The search finds the core and nothing else, and the last use of each of its
   constraints, for every proof: when the stack is empty, what has been visited has
   its parents there, so that it is all of the core. *)
THEOREM CoreIsFound == Spec => []CoreFound
<1>1. ControlInv /\ SearchInv => CoreFound
    <2> SUFFICES ASSUME ControlInv, SearchInv, SearchDone PROVE CoreFound
        BY DEF CoreFound
    <2> DEFINE core == UNION {Core(search.sinks[i]) : i \in DOMAIN search.sinks}
    <2>1. StackInv /\ VisitedInv /\ LastUseInv /\ input \in Inputs
          /\ search.stack = <<>> /\ search.i = Len(search.sinks)
        BY DEF SearchInv, SearchDone, ControlInv
    <2>2. DOMAIN search.sinks = 1..search.i
        BY <2>1, SinksType DEF StackInv
    <2>3. Explored = core /\ search.visited \subseteq core
        BY <2>1, <2>2, SearchComplete DEF Explored
    <2>4. core \subseteq Nat
        BY <2>1, <2>3, ExploredType
    <2> HIDE DEF core
    <2>5. DOMAIN last_use_of = core
        BY <2>1, <2>3 DEF LastUseInv
    <2>6. ASSUME NEW id \in core
          PROVE  last_use_of[id] = Max({0} \cup {c \in core : id \in Range(ParentsOf(input.lines, c))})
        <3>1. IsGreatest(last_use_of[id], UsersIn(Explored, id))
            BY <2>1, <2>5, <2>6 DEF LastUseInv
        <3>3. IsGreatest(last_use_of[id], UsersIn(core, id))
            BY <2>3, <3>1
        <3>4. UsersIn(core, id) \subseteq Int
            <4>1. 0 \in Int /\ \A c \in core : c \in Int
                BY <2>4
            <4> QED BY <4>1 DEF UsersIn
        <3>2. Max(UsersIn(core, id)) = last_use_of[id]
            BY <3>3, <3>4, GreatestIsMax
        <3> QED BY <3>2 DEF UsersIn, Parents
    <2> QED BY <2>5, <2>6 DEF CoreFound, core
<1>2. Init => ControlInv /\ SearchInv
    BY ControlInit, SearchInitial
<1>3. ControlInv /\ SearchInv /\ [Next]_vars => (ControlInv /\ SearchInv)'
    BY ControlNext, SearchNext
<1> QED BY <1>1, <1>2, <1>3, PTL DEF Spec

-----------------------------------------------------------------------------
(* The lines of the second pass *)

(* They are those of the input and, it may be, the result line. *)
LEMMA LinesRead ==
    ASSUME input \in Inputs, NEW j \in DOMAIN proofLines
    PROVE  \/ j \in DOMAIN input.lines /\ proofLines[j] = input.lines[j]
           \/ j = Len(input.lines) + 1 /\ proofLines[j] = ResultLine
<1>1. input.lines \in Seq(Line)
    BY InputAssumption
<1>2. CASE proofLines = input.lines
    BY <1>2
<1>3. CASE proofLines = Append(input.lines, ResultLine)
    <2> DEFINE n == Len(input.lines)
    <2>1. n \in Nat /\ DOMAIN input.lines = 1..n /\ input.lines \in Seq(Line \cup {ResultLine})
        BY <1>1, SeqMonotonic
    <2>2. /\ proofLines \in Seq(Line \cup {ResultLine}) /\ Len(proofLines) = n + 1
          /\ \A i \in 1..n : proofLines[i] = input.lines[i]
          /\ proofLines[n + 1] = ResultLine
        BY <1>3, <2>1, AppendProperties
    <2>3. j \in 1..(n + 1)
        BY <2>2
    <2>4. CASE j = n + 1
        BY <2>2, <2>4
    <2>5. CASE j # n + 1
        <3>1. j \in 1..n
            BY <2>1, <2>3, <2>5
        <3> QED BY <2>1, <2>2, <3>1
    <2> QED BY <2>4, <2>5
<1> QED BY <1>2, <1>3 DEF proofLines, LinesOf

(* And all of the lines of the input are among them. *)
LEMMA AllLinesRead ==
    ASSUME input \in Inputs, NEW j \in DOMAIN input.lines
    PROVE  j \in DOMAIN proofLines /\ proofLines[j] = input.lines[j]
<1>1. input.lines \in Seq(Line)
    BY InputAssumption
<1>2. CASE proofLines = input.lines
    BY <1>2
<1>3. CASE proofLines = Append(input.lines, ResultLine)
    <2>1. input.lines \in Seq(Line \cup {ResultLine})
        BY <1>1, SeqMonotonic
    <2>2. /\ Len(proofLines) = Len(input.lines) + 1 /\ proofLines \in Seq(Line \cup {ResultLine})
          /\ \A i \in 1..Len(input.lines) : proofLines[i] = input.lines[i]
        BY <1>3, <2>1, AppendProperties
    <2> QED BY <2>1, <2>2
<1> QED BY <1>2, <1>3 DEF proofLines, LinesOf

(* Their ids ascend, but for the result line's, which is 0; a line is behind its
   parents. *)
LEMMA LineType ==
    ASSUME input \in Inputs, NEW j \in DOMAIN proofLines
    PROVE  /\ proofLines[j].id \in LineIds(input.lines) \cup {0}
           /\ proofLines[j].parents \in Seq(Nat \ {0})
           /\ ParentsOf(input.lines, proofLines[j].id) = proofLines[j].parents
           /\ \A k \in DOMAIN proofLines : k < j =>
                  /\ proofLines[k].id # 0
                  /\ proofLines[j].id = 0 \/ proofLines[k].id < proofLines[j].id
           /\ \A p \in Range(proofLines[j].parents) :
                  \E k \in DOMAIN proofLines : k < j /\ proofLines[k].id = p
<1> DEFINE lines == input.lines
<1>1. lines \in Seq(Line) /\ WellFormed(lines)
    BY InputAssumption
<1>2. LineIds(lines) \subseteq Nat \ {0}
    BY LineIdsType
<1>3. ASSUME NEW k \in DOMAIN proofLines, k < j
      PROVE  k \in DOMAIN lines /\ proofLines[k] = lines[k] /\ proofLines[k].id \in LineIds(lines)
    <2>1. proofLines \in Seq(Line \cup {ResultLine})
        BY LinesAreLines
    <2>2. j \in Nat /\ k \in Nat /\ Len(lines) \in Nat
        BY <1>1, <2>1
    <2>3. j <= Len(lines) + 1
        <3>1. CASE j \in DOMAIN lines
            BY <1>1, <2>2, <3>1
        <3> QED BY <2>2, <3>1, LinesRead
    <2>4. k \in DOMAIN lines /\ proofLines[k] = lines[k]
        BY <1>3, <2>2, <2>3, LinesRead
    <2> QED BY <2>4 DEF LineIds
<1>4. CASE j \in DOMAIN lines /\ proofLines[j] = lines[j]
    <2> DEFINE id == lines[j].id
    <2>1. lines[j] \in Line /\ id \in LineIds(lines)
        BY <1>1, <1>4 DEF LineIds
    <2>2. \A i \in DOMAIN lines : lines[i].id = id => i = j
        <3> SUFFICES ASSUME NEW i \in DOMAIN lines, i # j PROVE lines[i].id # id
            OBVIOUS
        <3>1. i < j \/ j < i
            BY <1>1, <1>4
        <3>2. lines[i].id \in Nat /\ lines[j].id \in Nat
            <4>1. lines[i] \in Line /\ lines[j] \in Line
                BY <1>1, <1>4 DEF WellFormed
            <4> QED BY <4>1 DEF Line
        <3> QED BY <1>1, <1>4, <3>1, <3>2 DEF WellFormed
    <2>3. (CHOOSE i \in DOMAIN lines : lines[i].id = id) = j
        BY <1>4, <2>2
    <2>4. ParentsOf(lines, id) = lines[j].parents
        BY <2>1, <2>3 DEF ParentsOf
    <2>5. \A k \in DOMAIN proofLines : k < j =>
              proofLines[k].id # 0 /\ proofLines[k].id < proofLines[j].id
        BY <1>1, <1>2, <1>3, <1>4 DEF WellFormed
    <2>6. ASSUME NEW p \in Range(lines[j].parents)
          PROVE  \E k \in DOMAIN proofLines : k < j /\ proofLines[k].id = p
        <3>1. PICK k \in 1..(j - 1) : lines[k].id = p
            BY <1>1, <1>4 DEF WellFormed
        <3>2. k \in DOMAIN lines /\ k < j
            BY <1>1, <1>4
        <3>3. k \in DOMAIN proofLines /\ proofLines[k] = lines[k]
            BY <3>2, AllLinesRead
        <3> QED BY <3>1, <3>2, <3>3
    <2>7. lines[j].parents \in Seq(Nat \ {0})
        BY <2>1 DEF Line
    <2> QED BY <1>4, <2>1, <2>4, <2>5, <2>6, <2>7
<1>5. CASE proofLines[j] = ResultLine
    <2>1. proofLines[j].id = 0 /\ proofLines[j].parents = <<>>
        BY <1>5 DEF ResultLine
    <2>2. ParentsOf(lines, 0) = <<>>
        BY <1>2 DEF ParentsOf
    <2>3. Range(<<>>) = {}
        BY DEF Range
    <2>4. \A k \in DOMAIN proofLines : k < j => proofLines[k].id # 0
        BY <1>2, <1>3
    <2> QED BY <2>1, <2>2, <2>3, <2>4
<1> QED BY <1>4, <1>5, LinesRead

(* Two lines have different ids. *)
LEMMA IdsDiffer ==
    ASSUME input \in Inputs, NEW j \in DOMAIN proofLines, NEW k \in DOMAIN proofLines, k < j
    PROVE  proofLines[k].id # proofLines[j].id
<1>1. proofLines[k].id \in Nat /\ proofLines[j].id \in Nat
    BY LineType, LineIdsType
<1>2. proofLines[k].id # 0 /\ (proofLines[j].id = 0 \/ proofLines[k].id < proofLines[j].id)
    BY LineType
<1> QED BY <1>1, <1>2

-----------------------------------------------------------------------------
(* What has been read *)

\* How many lines translate() has read, the one in work included.
ReadCount == IF pc \in InLine THEN next ELSE next - 1

IdsRead == {proofLines[j].id : j \in {k \in DOMAIN proofLines : k <= ReadCount}}

\* A line is read, and copied when it is in the core.
TakesLine ==
    /\ ReadingLine /\ ReadCount' = next
    /\ IF line.id \in DOMAIN last_use_of THEN CopyToCores ELSE UNCHANGED cores
    /\ axioms' = IF line.id \in DOMAIN last_use_of /\ line.parents = <<>> /\ ~input.have_formula
                 THEN Append(axioms, line.id) ELSE axioms
    /\ DOMAIN last_use_of' = DOMAIN last_use_of

LineStep ==
    /\ UNCHANGED inputVars /\ pc' \notin Before
    /\ \/ TakesLine
       \/ UNCHANGED <<cores, axioms>> /\ ReadCount' = ReadCount
       \/ pc' = "end" /\ pc # "end" /\ UNCHANGED cnf
    /\ TakesLine \/ Reroute \/ ReturnFinal \/ UNCHANGED last_use_of

(* The second pass reads one line after the other, and a chain begins at the first
   of its parents. *)
LEMMA LineNext ==
    ASSUME ControlInv, pc \notin Before, [Next]_vars
    PROVE  LineStep
<1>1. next \in Nat
    BY LinesAreCounted DEF ControlInv
<1> USE DEF LineStep, ReadCount, InLine, Before
<1>2. CASE UNCHANGED vars
    BY <1>2 DEF vars, readVars, inputVars, databaseVars, resultVars
<1>3. CASE Preparing
    BY <1>3 DEF Preparing, ReadOnAndOn, FirstPass, VisitConstraint, NextSink, OpenProof, SearchDone
<1>4. CASE SkipLine
    <2>1. TakesLine
        BY <1>1, <1>4 DEF SkipLine, TakesLine, ReadingLine
    <2> QED BY <1>4, <2>1 DEF SkipLine, inputVars, ReadingLine
<1>5. CASE RecordInternalAxiom
    <2>3. DOMAIN last_use_of' = DOMAIN last_use_of
        BY <1>5 DEF RecordInternalAxiom, CoreLine, Put
    <2>1. TakesLine
        BY <1>1, <1>5, <2>3 DEF RecordInternalAxiom, TakesLine, CoreLine, ReadingLine
    <2> QED BY <1>5, <2>1 DEF RecordInternalAxiom, inputVars, CoreLine, ReadingLine
<1>6. CASE RecordInputClause
    <2>1. TakesLine
        BY <1>1, <1>6 DEF RecordInputClause, TakesLine, CoreLine, ReadingLine
    <2> QED BY <1>6, <2>1 DEF RecordInputClause, inputVars, CoreLine, ReadingLine
<1>7. CASE RecordInitialTerm
    <2>1. TakesLine
        BY <1>1, <1>7 DEF RecordInitialTerm, TakesLine, CoreLine, ReadingLine, TrueFormula
    <2> QED BY <1>7, <2>1 DEF RecordInitialTerm, inputVars, CoreLine, ReadingLine
<1>8. CASE ReadReduction
    <2>1. line.parents # <<>>
        BY <1>8 DEF ReadReduction
    <2>2. TakesLine
        BY <1>1, <1>8, <2>1 DEF ReadReduction, TakesLine, CoreLine, ReadingLine, StoreLine
    <2> QED BY <1>8, <2>2 DEF ReadReduction, inputVars, CoreLine, ReadingLine
<1>9. CASE ReadResolution
    <2>1. line.parents # <<>>
        BY <1>9 DEF ReadResolution
    <2>2. TakesLine
        BY <1>1, <1>9, <2>1 DEF ReadResolution, TakesLine, CoreLine, ReadingLine, StoreLine
    <2> QED BY <1>9, <2>2 DEF ReadResolution, inputVars, CoreLine, ReadingLine
<1>10. CASE NextResolution \/ Checking
    BY <1>10 DEF NextResolution, Checking, CheckResolutionStep, CheckReductionStep,
                 stepUnchanged, readVars, inputVars, databaseVars
<1>11. CASE MergingPhases
    BY <1>11 DEF MergingPhases, SamePhase, CachedPhase, NewPhase, KnownEflit, NewEflit, RecordPhase,
                 CopyParentPhases, SplitAndShadow, Merging, stepUnchanged, readVars, inputVars
<1>12. CASE Reducing
    BY <1>12 DEF Reducing, DefineG, AuxGate, ReduceSimple, GLemma, ReduceMerged, PushArrays,
                 stepUnchanged, readVars, inputVars
<1>13. CASE NotReducing
    BY <1>13 DEF NotReducing, EmitResolvent, Reroute, stepUnchanged, readVars, inputVars
<1>14. CASE Returning
    BY <1>1, <1>14 DEF Returning, ReturnReduction, ReturnSafetyReduction, ReturnIntermediate,
                 ReturnFinal, ReturnCrash, ReturnFailure, returnUnchanged, readVars, inputVars,
                 databaseVars, resultVars
<1>15. CASE Finishing
    BY <1>15 DEF Finishing, EndOfProof, WriteGratProof, CombineFiles, readVars, inputVars,
                 databaseVars
<1> QED
    BY <1>2, <1>3, <1>4, <1>5, <1>6, <1>7, <1>8, <1>9, <1>10, <1>11, <1>12, <1>13, <1>14, <1>15
       DEF Next, Translate, Terminated, ReadingLines


-----------------------------------------------------------------------------
(* The parents of a line in work *)

(* The loop over the parents is at one of them; a reduction without a formula is
   from and to a line that has been read. *)
CallInv ==
    /\ pc \in InLine /\ (pc = "chain" \/ right # 0) => chain.i + 1 \in DOMAIN parents_right
    /\ pc \in InLine \ {"chain"} /\ right = 0 /\ ~input.have_formula
           => left \in IdsRead /\ res \in IdsRead

(* No line is in work at the start. *)
LEMMA CallInit == Init => CallInv
BY DEF Init, CallInv, InLine

(* The iterations of the loop over the parents. *)
LEMMA CallNext == ControlInv /\ CallInv /\ [Next]_vars => CallInv'
<1> SUFFICES ASSUME ControlInv, CallInv, [Next]_vars PROVE CallInv'
    OBVIOUS
<1>1. ASSUME pc' \notin InLine PROVE CallInv'
    BY <1>1 DEF CallInv, InLine
<1>2. ASSUME pc' \in InLine \ {"chain"}, pc \in InLine \ {"chain"}, UNCHANGED <<call, chain, next, input>>
      PROVE  CallInv'
    <2>1. UNCHANGED <<left, right, res, ReadCount, proofLines, line, parents_right>>
        BY <1>2 DEF left, right, res, ReadCount, proofLines, line, parents_right
    <2>2. UNCHANGED IdsRead
        BY <2>1 DEF IdsRead
    <2> QED BY <1>2, <2>1, <2>2 DEF CallInv
<1>3. /\ next \in DOMAIN proofLines \/ (pc \notin InLine /\ ~ReadingLine)
      /\ input \in Inputs /\ chain.i \in Nat /\ DOMAIN chain = {"i", "spare", "left"}
      /\ next \in Nat
    <2>1. next \in 1..(Len(proofLines) + 1) /\ proofLines \in Seq(Line \cup {ResultLine})
        BY LinesAreLines DEF ControlInv
    <2> QED BY <2>1 DEF ControlInv, ReadingLine
<1>4. ASSUME next \in DOMAIN proofLines
      PROVE  /\ line.parents \in Seq(Nat \ {0})
             /\ Len(line.parents) >= 2 =>
                   /\ parents_right \in Seq(Nat \ {0})
                   /\ Len(parents_right) = Len(line.parents) - 1
    <2>1. line.parents \in Seq(Nat \ {0})
        BY <1>3, <1>4, LineType DEF line
    <2>2. Len(line.parents) >= 2 => line.parents # <<>>
        BY <2>1
    <2> QED BY <2>1, <2>2, HeadTailProperties DEF parents_right
<1>17. ASSUME next \in DOMAIN proofLines, chain.i + 1 \in DOMAIN parents_right
       PROVE  parents_right \in Seq(Nat \ {0})
    <2>1. line.parents # <<>>
        <3> SUFFICES ASSUME line.parents = <<>> PROVE FALSE
            OBVIOUS
        <3>1. Tail(<<>>) = <<>>
            OBVIOUS
        <3> QED BY <1>17, <3>1 DEF parents_right
    <2> QED BY <1>4, <1>17, <2>1, HeadTailProperties DEF parents_right
<1>5. CASE UNCHANGED vars
    <2>1. UNCHANGED <<pc, call, chain, next, input>>
        BY <1>5 DEF vars, readVars, inputVars
    <2>2. UNCHANGED <<left, right, res, ReadCount, proofLines, line, parents_right>>
        BY <2>1 DEF left, right, res, ReadCount, proofLines, line, parents_right
    <2>3. UNCHANGED IdsRead
        BY <2>2 DEF IdsRead
    <2> QED BY <2>1, <2>2, <2>3 DEF CallInv
<1>6. CASE Preparing
    <2>1. pc' \notin InLine \/ UNCHANGED vars
        BY <1>6 DEF Preparing, ReadOnAndOn, FirstPass, VisitConstraint, NextSink, OpenProof, InLine
    <2> QED BY <1>1, <1>5, <2>1
<1>7. CASE SkipLine \/ RecordInternalAxiom \/ RecordInputClause
    <2>1. pc' \notin InLine
        BY <1>7 DEF SkipLine, RecordInternalAxiom, RecordInputClause, CoreLine, ReadingLine, InLine
    <2> QED BY <1>1, <2>1
<1>8. CASE RecordInitialTerm
    <2>1. input'.have_formula /\ right' = 0 /\ pc' = "check"
        BY <1>8 DEF RecordInitialTerm, TrueFormula, right, inputVars
    <2> QED BY <2>1 DEF CallInv
<1>9. CASE ReadReduction
    <2>1. /\ pc' = "check" /\ right' = 0 /\ left' = Head(line.parents) /\ res' = line.id
          /\ UNCHANGED <<next, input, proofLines>> /\ Len(line.parents) = 1 /\ ReadingLine
        BY <1>9 DEF ReadReduction, CoreLine, inputVars, left, right, res, proofLines
    <2>2. next \in DOMAIN proofLines /\ ReadCount' = next
        BY <1>3, <2>1 DEF ReadCount, InLine
    <2>3. line.id \in IdsRead'
        BY <1>3, <2>1, <2>2 DEF IdsRead, line
    <2>4. Head(line.parents) \in Range(line.parents)
        BY <1>4, <2>1, <2>2 DEF Range
    <2>5. PICK k \in DOMAIN proofLines : k < next /\ proofLines[k].id = Head(line.parents)
        BY <1>3, <2>2, <2>4, LineType DEF line
    <2>6. k <= next
        BY <1>3, <2>5, LinesAreLines
    <2>7. Head(line.parents) \in IdsRead'
        BY <2>1, <2>2, <2>5, <2>6 DEF IdsRead
    <2> QED BY <2>1, <2>3, <2>7 DEF CallInv
<1>10. CASE ReadResolution
    <2>1. /\ pc' = "chain" /\ chain'.i = 0 /\ Len(line.parents) >= 2 /\ ReadingLine
          /\ UNCHANGED <<next, input>>
        BY <1>10 DEF ReadResolution, CoreLine, inputVars
    <2>2. UNCHANGED parents_right
        BY <2>1 DEF parents_right, line, proofLines
    <2>3. 1 \in DOMAIN parents_right
        BY <1>3, <1>4, <2>1
    <2> QED BY <2>1, <2>2, <2>3 DEF CallInv
<1>11. CASE NextResolution
    <2>1. /\ pc = "chain" /\ pc' = "check" /\ UNCHANGED <<next, input>> /\ chain'.i = chain.i
          /\ right' = parents_right[chain.i + 1]
        BY <1>3, <1>11 DEF NextResolution, readVars, inputVars, right
    <2>2. UNCHANGED parents_right
        BY <2>1 DEF parents_right, line, proofLines
    <2>3. chain.i + 1 \in DOMAIN parents_right
        BY <2>1 DEF CallInv, InLine
    <2>4. parents_right \in Seq(Nat \ {0})
        BY <1>3, <1>17, <2>1, <2>3 DEF InLine
    <2>7. right' # 0
        BY <2>1, <2>3, <2>4
    <2> QED BY <2>1, <2>2, <2>3, <2>7 DEF CallInv
<1>12. CASE Checking \/ MergingPhases
    <2>1. /\ pc' \in InLine \ {"chain"} /\ pc \in InLine \ {"chain"}
          /\ UNCHANGED <<call, chain, next, input>>
        BY <1>12 DEF Checking, CheckResolutionStep, CheckReductionStep, MergingPhases, SamePhase,
                     CachedPhase, NewPhase, KnownEflit, NewEflit, RecordPhase, CopyParentPhases,
                     SplitAndShadow, Merging, stepUnchanged, readVars, inputVars, InLine
    <2> QED BY <1>2, <2>1
<1>13. CASE Reducing \/ NotReducing
    <2>1. /\ pc' \in InLine \ {"chain"} /\ pc \in InLine \ {"chain"}
          /\ UNCHANGED <<call, chain, next, input>>
        BY <1>13 DEF Reducing, DefineG, AuxGate, ReduceSimple, GLemma, ReduceMerged, PushArrays,
                     NotReducing, EmitResolvent, Reroute, stepUnchanged, readVars, inputVars, InLine
    <2> QED BY <1>2, <2>1
<1>14. CASE ReturnIntermediate
    <2>1. /\ pc = "return" /\ right # 0 /\ ~LastOfChain /\ pc' = "chain" /\ UNCHANGED <<next, input>>
          /\ chain'.i = chain.i + 1
        BY <1>3, <1>14 DEF ReturnIntermediate, returnUnchanged, inputVars
    <2>2. UNCHANGED parents_right
        BY <2>1 DEF parents_right, line, proofLines
    <2>3. chain.i + 1 \in DOMAIN parents_right
        BY <2>1 DEF CallInv, InLine
    <2>4. parents_right \in Seq(Nat \ {0})
        BY <1>3, <1>17, <2>1, <2>3 DEF InLine
    <2>7. chain.i # Len(parents_right) - 1
        BY <2>1 DEF LastOfChain
    <2>8. chain.i + 1 + 1 \in DOMAIN parents_right
        BY <1>3, <2>3, <2>4, <2>7
    <2> QED BY <2>1, <2>2, <2>8 DEF CallInv
<1>15. CASE ReturnReduction \/ ReturnSafetyReduction \/ ReturnFinal \/ ReturnCrash \/ ReturnFailure
    <2>1. pc' \notin InLine
        BY <1>15 DEF ReturnReduction, ReturnSafetyReduction, ReturnFinal, ReturnCrash,
                     ReturnFailure, InLine
    <2> QED BY <1>1, <2>1
<1>16. CASE Finishing
    <2>1. pc' \notin InLine
        BY <1>16 DEF Finishing, EndOfProof, WriteGratProof, CombineFiles, InLine
    <2> QED BY <1>1, <2>1
<1> QED
    BY <1>5, <1>6, <1>7, <1>8, <1>9, <1>10, <1>11, <1>12, <1>13, <1>14, <1>15, <1>16
       DEF Next, Translate, Terminated, ReadingLines, Returning

-----------------------------------------------------------------------------
(* The core, in the second pass *)

SinksInv ==
    pc \notin Before =>
        /\ search.sinks = EmptyConstraints(input)
        /\ DOMAIN sinks_of = UNION {Core(search.sinks[j]) : j \in DOMAIN search.sinks}
        /\ \A id \in DOMAIN sinks_of :
               sinks_of[id] = {j \in DOMAIN search.sinks : id \in Core(search.sinks[j])}

(* What OpenProof finds when the search is over. *)
LEMMA SearchResult ==
    ASSUME ControlInv, SearchInv, SearchDone
    PROVE  /\ search.sinks = EmptyConstraints(input)
           /\ DOMAIN sinks_of = UNION {Core(search.sinks[j]) : j \in DOMAIN search.sinks}
           /\ DOMAIN last_use_of = DOMAIN sinks_of
           /\ \A id \in DOMAIN sinks_of :
                  sinks_of[id] = {j \in DOMAIN search.sinks : id \in Core(search.sinks[j])}
<1>1. StackInv /\ VisitedInv /\ LastUseInv /\ SinksOfInv /\ input \in Inputs
      /\ search.stack = <<>> /\ search.i = Len(search.sinks)
    BY DEF SearchInv, SearchDone, ControlInv
<1>2. search.sinks = EmptyConstraints(input)
    BY <1>1 DEF StackInv
<1>3. DOMAIN search.sinks = 1..search.i
    BY <1>1, SinksType DEF StackInv
<1>4. /\ search.visited = Core(search.sinks[search.i]) /\ Popped = Core(search.sinks[search.i])
      /\ Explored = UNION {Core(search.sinks[j]) : j \in 1..search.i}
    BY <1>1, SearchComplete
<1>5. DOMAIN sinks_of = UNION {Core(search.sinks[j]) : j \in DOMAIN search.sinks}
    BY <1>1, <1>3, <1>4 DEF SinksOfInv
<1>6. 1..search.i = 1..(search.i - 1) \cup {search.i} /\ search.i \in 1..search.i
    BY <1>1, ExploredType
<1>7. DOMAIN last_use_of = DOMAIN sinks_of
    BY <1>1, <1>4, <1>6 DEF SinksOfInv, LastUseInv
<1>8. ASSUME NEW id \in DOMAIN sinks_of
      PROVE  sinks_of[id] = {j \in DOMAIN search.sinks : id \in Core(search.sinks[j])}
    BY <1>1, <1>3, <1>4, <1>6 DEF SinksOfInv
<1> QED BY <1>2, <1>5, <1>7, <1>8

(* Nothing happens behind the end, and the second pass is not begun before the first
   one is over. *)
LEMMA Phases ==
    ASSUME [Next]_vars
    PROVE  \/ UNCHANGED vars
           \/ FirstPass \/ VisitConstraint \/ NextSink \/ OpenProof
           \/ pc \notin Before \cup {"end"}
<1> USE DEF Before
<1>1. CASE UNCHANGED vars \/ Preparing
    BY <1>1 DEF Preparing, ReadOnAndOn
<1>2. CASE ReadingLines
    BY <1>2 DEF ReadingLines, ReadingLine, CoreLine, SkipLine, RecordInternalAxiom,
                RecordInputClause, RecordInitialTerm, ReadReduction, ReadResolution, NextResolution
<1>3. CASE Checking
    BY <1>3 DEF Checking, CheckResolutionStep, CheckReductionStep
<1>4. CASE MergingPhases
    BY <1>4 DEF MergingPhases, SamePhase, CachedPhase, NewPhase, KnownEflit, NewEflit,
                CopyParentPhases, SplitAndShadow, Merging
<1>5. CASE Reducing
    BY <1>5 DEF Reducing, DefineG, AuxGate, ReduceSimple, GLemma, ReduceMerged, PushArrays
<1>6. CASE NotReducing
    BY <1>6 DEF NotReducing, EmitResolvent, Reroute
<1>7. CASE Returning
    BY <1>7 DEF Returning, ReturnReduction, ReturnSafetyReduction, ReturnIntermediate,
                ReturnFinal, ReturnCrash, ReturnFailure
<1>8. CASE Finishing
    BY <1>8 DEF Finishing, EndOfProof, WriteGratProof, CombineFiles
<1> QED
    BY <1>1, <1>2, <1>3, <1>4, <1>5, <1>6, <1>7, <1>8 DEF Next, Translate, Terminated

(* What the first pass has found stays as it is. *)
LEMMA SinksNext == ControlInv /\ SearchInv /\ SinksInv /\ [Next]_vars => SinksInv'
<1> SUFFICES ASSUME ControlInv, SearchInv, SinksInv, [Next]_vars, pc' \notin Before PROVE SinksInv'
    BY DEF SinksInv
<1>1. CASE pc \notin Before
    <2>1. UNCHANGED <<input, search, sinks_of>>
        BY <1>1, LineNext DEF LineStep, inputVars
    <2>2. \A id : Core(id)' = Core(id)
        BY <2>1, GraphStays
    <2> QED BY <1>1, <2>1, <2>2 DEF SinksInv
<1>2. CASE OpenProof
    <2>1. UNCHANGED <<input, search, sinks_of>> /\ SearchDone
        BY <1>2 DEF OpenProof, searchUnchanged, searchVars
    <2>2. \A id : Core(id)' = Core(id)
        BY <2>1, GraphStays
    <2> QED BY <2>1, <2>2, SearchResult DEF SinksInv
<1>3. CASE FirstPass
    <2>1. /\ pc = "start" /\ EmptyConstraints(input) = <<>> /\ UNCHANGED <<input, sinks_of, search>>
        BY <1>3 DEF FirstPass, Before, searchVars
    <2>2. search = NoSearch /\ sinks_of = EmptyMap
        BY <2>1 DEF SearchInv
    <2>3. search'.sinks = <<>> /\ sinks_of' = EmptyMap /\ EmptyConstraints(input)' = <<>>
        BY <2>1, <2>2 DEF NoSearch
    <2>4. DOMAIN sinks_of' = {} /\ DOMAIN search'.sinks = {}
        BY <2>3 DEF EmptyMap
    <2> QED BY <2>3, <2>4 DEF SinksInv
<1>4. CASE VisitConstraint \/ NextSink \/ UNCHANGED vars
    BY <1>1, <1>4 DEF VisitConstraint, NextSink, vars, Before
<1> QED BY <1>1, <1>2, <1>3, <1>4, Phases

-----------------------------------------------------------------------------
(* Core lines are known until they are read *)

UseInv ==
    pc \notin Before \cup {"end"} =>
        \A j \in DOMAIN proofLines : j > ReadCount =>
            /\ proofLines[j].id \in DOMAIN sinks_of => proofLines[j].id \in DOMAIN last_use_of
            /\ proofLines[j].id \in DOMAIN last_use_of /\ ~input.have_formula =>
                   proofLines[j].id \in DOMAIN sinks_of

(* Entries are made for what has been read, and erased for what has been read. *)
LEMMA UseNext == ControlInv /\ SearchInv /\ CallInv /\ UseInv /\ [Next]_vars => UseInv'
<1> SUFFICES ASSUME ControlInv, SearchInv, CallInv, UseInv, [Next]_vars,
                    pc' \notin Before \cup {"end"}, NEW j \in DOMAIN proofLines', j > ReadCount'
             PROVE  LET id == proofLines'[j].id
                    IN  /\ id \in DOMAIN sinks_of' => id \in DOMAIN last_use_of'
                        /\ id \in DOMAIN last_use_of' /\ ~input'.have_formula =>
                               id \in DOMAIN sinks_of'
    BY DEF UseInv
<1> DEFINE id == proofLines[j].id
<1>1. input \in Inputs /\ next \in Nat /\ (pc \in InLine => next \in DOMAIN proofLines)
    <2>1. next \in 1..(Len(proofLines) + 1) /\ proofLines \in Seq(Line \cup {ResultLine})
        BY LinesAreLines DEF ControlInv
    <2> QED BY <2>1 DEF ControlInv
<1>2. CASE pc \notin Before
    <2>1. LineStep /\ pc # "end"
        <3>1. LineStep
            BY <1>2, LineNext
        <3>2. pc = "end" => pc' = "end"
            BY Phases DEF FirstPass, VisitConstraint, NextSink, OpenProof, SearchDone, vars
        <3> QED BY <3>1, <3>2
    <2>2. UNCHANGED <<input, sinks_of, proofLines>> /\ j \in DOMAIN proofLines
        BY <2>1, LinesStay DEF LineStep, inputVars
    <2>3. j > ReadCount
        <3>1. j \in Nat
            BY <1>1, <2>2, LinesAreLines
        <3>2. TakesLine => ReadCount' = next /\ ReadCount = next - 1
            BY DEF TakesLine, ReadingLine, ReadCount, InLine
        <3> QED BY <1>1, <2>1, <3>1, <3>2 DEF LineStep
    <2>4. /\ id \in DOMAIN sinks_of => id \in DOMAIN last_use_of
          /\ id \in DOMAIN last_use_of /\ ~input.have_formula => id \in DOMAIN sinks_of
        BY <1>2, <2>1, <2>2, <2>3 DEF UseInv
    <2>5. id \notin IdsRead
        <3> SUFFICES ASSUME NEW k \in DOMAIN proofLines, k <= ReadCount PROVE proofLines[k].id # id
            BY DEF IdsRead
        <3>1. k < j
            <4>1. k \in Nat /\ j \in Nat /\ ReadCount \in Int
                BY <1>1, <2>2, LinesAreLines DEF ReadCount
            <4> QED BY <2>3, <4>1
        <3> QED BY <1>1, <2>2, <3>1, IdsDiffer
    <2>6. CASE TakesLine \/ UNCHANGED last_use_of
        BY <2>2, <2>4, <2>6 DEF TakesLine
    <2>7. CASE Reroute
        <3>1. DOMAIN last_use_of' = DOMAIN last_use_of \cup {res, left}
            BY <2>7 DEF Reroute, Put
        <3>2. pc = "emit" /\ right = 0
            BY <2>7 DEF Reroute
        <3>3. ~input.have_formula => id # res /\ id # left
            BY <2>5, <3>2 DEF CallInv, InLine
        <3> QED BY <2>2, <2>4, <3>1, <3>3
    <2>8. CASE ReturnFinal
        <3>1. PICK used : DOMAIN last_use_of' = DOMAIN last_use_of \ used /\ used \subseteq Range(line.parents)
            <4> DEFINE used == {p \in Range(line.parents) : last_use_of[p] = line.id}
            <4>1. DOMAIN last_use_of' = DOMAIN last_use_of \ used
                BY <2>8 DEF ReturnFinal, Without
            <4> QED BY <4>1
        <3>2. pc \in InLine /\ ReadCount = next /\ next \in DOMAIN proofLines
            BY <1>1, <2>8 DEF ReturnFinal, InLine, ReadCount
        <3>3. ASSUME NEW p \in used PROVE p # id
            <4>1. PICK k \in DOMAIN proofLines : k < next /\ proofLines[k].id = p
                BY <1>1, <3>1, <3>2, LineType DEF line
            <4>2. k <= ReadCount
                BY <1>1, <3>2, <4>1, LinesAreLines
            <4> QED BY <2>5, <4>1, <4>2 DEF IdsRead
        <3> QED BY <2>2, <2>4, <3>1, <3>3
    <2> QED BY <2>1, <2>6, <2>7, <2>8 DEF LineStep
<1>3. CASE pc \in Before
    <2>1. CASE OpenProof
        <3>1. UNCHANGED <<last_use_of, sinks_of>> /\ SearchDone /\ UNCHANGED input
            BY <2>1 DEF OpenProof, searchUnchanged, searchVars
        <3> QED BY <3>1, SearchResult
    <2>2. CASE FirstPass \/ VisitConstraint \/ NextSink \/ UNCHANGED vars
        <3>1. pc' \in Before \cup {"end"}
            BY <1>3, <2>2 DEF FirstPass, VisitConstraint, NextSink, vars, Before
        <3> QED BY <3>1
    <2> QED BY <1>3, <2>1, <2>2, Phases
<1> QED BY <1>2, <1>3

-----------------------------------------------------------------------------
(* The core files *)

Ascends(s) == \A m, n \in DOMAIN s : m < n => s[m] < s[n]

CoresInv ==
    /\ pc \in Before => next = 1 /\ axioms = <<>>
    /\ pc \notin {"start", "end"} =>
        /\ DOMAIN cores = DOMAIN search.sinks
        /\ \A i \in DOMAIN cores :
               /\ cores[i] \in Seq(Nat) /\ Ascends(cores[i])
               /\ Range(cores[i]) = IdsRead \cap Core(search.sinks[i])

(* A greater number at the end. *)
LEMMA AppendAscends ==
    ASSUME NEW s \in Seq(Nat), Ascends(s), NEW e \in Nat, \A x \in Range(s) : x < e
    PROVE  LET t == Append(s, e)
           IN  t \in Seq(Nat) /\ Ascends(t) /\ Range(t) = Range(s) \cup {e}
<1> DEFINE t == Append(s, e)
<1>1. /\ t \in Seq(Nat) /\ Len(t) = Len(s) + 1 /\ Len(s) \in Nat
      /\ \A i \in 1..Len(s) : t[i] = s[i]
      /\ t[Len(s) + 1] = e
    BY AppendProperties
<1> HIDE DEF t
<1>2. DOMAIN t = 1..(Len(s) + 1) /\ DOMAIN s = 1..Len(s)
    BY <1>1
<1>3. ASSUME NEW m \in DOMAIN t, NEW n \in DOMAIN t, m < n PROVE t[m] < t[n]
    <2>1. m \in DOMAIN s /\ t[m] = s[m]
        BY <1>1, <1>2, <1>3
    <2>2. CASE n = Len(s) + 1
        <3>1. s[m] \in Range(s)
            BY <2>1 DEF Range
        <3> QED BY <1>1, <2>1, <2>2, <3>1
    <2>3. CASE n # Len(s) + 1
        <3>1. n \in DOMAIN s /\ t[n] = s[n]
            BY <1>1, <1>2, <2>3
        <3> QED BY <1>3, <2>1, <3>1 DEF Ascends
    <2> QED BY <2>2, <2>3
<1>4. Range(t) = Range(s) \cup {e}
    <2>1. \A n \in DOMAIN t : t[n] \in Range(s) \cup {e}
        <3> SUFFICES ASSUME NEW n \in DOMAIN t, n # Len(s) + 1 PROVE t[n] \in Range(s)
            BY <1>1
        <3>1. n \in DOMAIN s
            BY <1>1, <1>2
        <3> QED BY <1>1, <1>2, <3>1 DEF Range
    <2>2. \A n \in DOMAIN s : n \in DOMAIN t /\ s[n] = t[n]
        BY <1>1, <1>2
    <2>3. Len(s) + 1 \in DOMAIN t
        BY <1>1, <1>2
    <2> QED BY <1>1, <2>1, <2>2, <2>3 DEF Range
<1> QED BY <1>1, <1>3, <1>4 DEF Ascends, t

(* When a line is taken, its id is one more that has been read; it is greater than
   those before, if it is not the result line's. *)
LEMMA TakenId ==
    ASSUME ControlInv, TakesLine, UNCHANGED input
    PROVE  /\ next \in DOMAIN proofLines /\ line.id \in Nat /\ ReadCount = next - 1
           /\ IdsRead' = IdsRead \cup {line.id} /\ line.id \notin IdsRead
           /\ IdsRead \subseteq Nat \ {0}
           /\ line.id # 0 => \A id \in IdsRead : id < line.id
<1>1. /\ next \in DOMAIN proofLines /\ next \in Nat /\ ReadCount = next - 1 /\ ReadCount' = next
      /\ input \in Inputs /\ UNCHANGED proofLines /\ DOMAIN proofLines \subseteq Nat
    <2>1. next \in 1..(Len(proofLines) + 1) /\ proofLines \in Seq(Line \cup {ResultLine})
        BY LinesAreLines DEF ControlInv
    <2> QED BY <2>1, LinesStay DEF TakesLine, ReadingLine, ReadCount, InLine, ControlInv
<1>2. ASSUME NEW k \in DOMAIN proofLines PROVE k <= next <=> (k <= next - 1 \/ k = next)
    BY <1>1
<1>3. IdsRead' = IdsRead \cup {line.id}
    BY <1>1, <1>2 DEF IdsRead, line
<1>4. ASSUME NEW id \in IdsRead
      PROVE  id \in Nat \ {0} /\ id # line.id /\ (line.id # 0 => id < line.id)
    <2>1. PICK k \in DOMAIN proofLines : k <= next - 1 /\ proofLines[k].id = id
        BY <1>1 DEF IdsRead
    <2>2. k < next
        BY <1>1, <2>1
    <2>3. id # 0 /\ (line.id = 0 \/ id < line.id)
        BY <1>1, <2>1, <2>2, LineType DEF line
    <2>4. id \in Nat
        BY <1>1, <2>1, LineType, LineIdsType
    <2>5. id # line.id
        BY <1>1, <2>1, <2>2, IdsDiffer DEF line
    <2> QED BY <2>3, <2>4, <2>5
<1>5. line.id \in Nat
    BY <1>1, LineType, LineIdsType DEF line
<1> QED BY <1>1, <1>3, <1>4, <1>5

(* The line 0 stands alone in a core. *)
LEMMA CoreOfZero ==
    ASSUME input \in Inputs, NEW sink \in Nat, 0 \in Core(sink)
    PROVE  Core(sink) = {0}
<1>1. sink = 0
    BY CoreHasParents, LineIdsType
<1>2. \A id \in Core(sink) : id = 0
    BY <1>1, CoreBelow
<1> QED BY <1>2

(* A line is copied to the files of the cores that it is in. *)
LEMMA CoresNext ==
    ControlInv /\ SearchInv /\ SinksInv /\ UseInv /\ CoresInv /\ [Next]_vars => CoresInv'
<1> SUFFICES ASSUME ControlInv, SearchInv, SinksInv, UseInv, CoresInv, [Next]_vars
             PROVE  CoresInv'
    OBVIOUS
<1>1. input \in Inputs /\ DOMAIN proofLines \subseteq Nat
    BY LinesAreLines DEF ControlInv
<1>2. ASSUME pc \in Before, pc' \in Before PROVE next' = 1 /\ axioms' = <<>>
    BY <1>2, Phases DEF Before, CoresInv, FirstPass, VisitConstraint, NextSink, OpenProof, vars,
                        databaseVars, searchUnchanged, readVars
<1>3. pc' \in Before => pc \in Before
    BY LineNext DEF LineStep
<1>4. CASE UNCHANGED vars
    <2>1. UNCHANGED <<pc, next, axioms, input, search, cores>>
        BY <1>4 DEF vars, databaseVars, readVars, inputVars
    <2>2. UNCHANGED <<ReadCount, proofLines>>
        BY <2>1, LinesStay DEF ReadCount
    <2>3. UNCHANGED IdsRead
        BY <2>2 DEF IdsRead
    <2>4. \A id : Core(id)' = Core(id)
        BY <2>1, GraphStays
    <2> QED BY <2>1, <2>3, <2>4 DEF CoresInv, Before
<1>5. CASE FirstPass
    <2>1. /\ UNCHANGED input /\ next' = 1 /\ pc = "start"
          /\ cores' = [i \in DOMAIN EmptyConstraints(input) |-> <<>>]
        BY <1>5 DEF FirstPass, CoresInv, Before
    <2>2. CASE EmptyConstraints(input) = <<>>
        <3>1. pc' = "end"
            BY <1>5, <2>2 DEF FirstPass
        <3> QED BY <3>1 DEF CoresInv, Before
    <2>3. CASE EmptyConstraints(input) # <<>>
        <3>1. pc' = "search" /\ search'.sinks = EmptyConstraints(input)
            BY <1>5, <2>3 DEF FirstPass, BeginSearch
        <3>2. ReadCount' = 0
            BY <2>1, <3>1 DEF ReadCount, InLine
        <3>3. IdsRead' = {}
            <4>1. UNCHANGED proofLines
                BY <2>1, LinesStay
            <4>2. \A k \in DOMAIN proofLines : ~(k <= 0)
                BY LinesAreLines DEF ControlInv
            <4> QED BY <3>2, <4>1, <4>2 DEF IdsRead
        <3>4. \A i \in DOMAIN cores' : cores'[i] = <<>>
            BY <2>1
        <3>5. <<>> \in Seq(Nat) /\ Ascends(<<>>) /\ Range(<<>>) = {}
            BY DEF Ascends, Range
        <3>6. DOMAIN cores' = DOMAIN search'.sinks
            BY <2>1, <3>1
        <3>7. ASSUME NEW i \in DOMAIN cores'
              PROVE  /\ cores'[i] \in Seq(Nat) /\ Ascends(cores[i])'
                     /\ Range(cores[i])' = (IdsRead \cap Core(search.sinks[i]))'
            <4>1. cores'[i] = <<>>
                BY <3>4
            <4>2. Range(cores[i])' = {} /\ Ascends(cores[i])'
                BY <4>1 DEF Ascends, Range
            <4> QED BY <3>3, <3>5, <4>1, <4>2
        <3> QED BY <1>2, <2>1, <3>1, <3>6, <3>7 DEF CoresInv, Before
    <2> QED BY <2>2, <2>3
<1>6. CASE VisitConstraint \/ NextSink \/ OpenProof
    <2>1. /\ UNCHANGED <<input, next, cores>> /\ search'.sinks = search.sinks
          /\ pc = "search" /\ pc' \in {"search", "line"}
        <3>1. CASE VisitConstraint
            <4>1. StackInv
                BY <3>1 DEF VisitConstraint, SearchInv
            <4> QED BY <3>1, <4>1 DEF VisitConstraint, Visit, searchUnchanged, StackInv
        <3>2. CASE NextSink \/ OpenProof
            BY <3>2 DEF NextSink, BeginSearch, OpenProof, SearchDone, searchUnchanged, searchVars
        <3> QED BY <1>6, <3>1, <3>2
    <2>2. UNCHANGED <<ReadCount, proofLines>>
        BY <2>1, LinesStay DEF ReadCount, InLine
    <2>3. UNCHANGED IdsRead
        BY <2>2 DEF IdsRead
    <2>4. \A id : Core(id)' = Core(id)
        BY <2>1, GraphStays
    <2> QED BY <1>2, <2>1, <2>3, <2>4 DEF CoresInv, Before, Ascends
<1>7. CASE pc \notin Before \cup {"end"} /\ pc' # "end"
    <2>1. LineStep
        BY <1>7, LineNext
    <2>2. UNCHANGED <<input, search, sinks_of>> /\ pc' \notin Before
        BY <2>1 DEF LineStep, inputVars
    <2>3. \A id : Core(id)' = Core(id)
        BY <2>2, GraphStays
    <2>4. CASE UNCHANGED cores /\ ReadCount' = ReadCount
        <3>1. UNCHANGED IdsRead
            BY <2>2, <2>4, LinesStay DEF IdsRead
        <3> QED BY <1>7, <2>2, <2>3, <2>4, <3>1 DEF CoresInv, Before, Ascends
    <2>5. CASE TakesLine
        <3> DEFINE id == line.id
        <3>1. /\ next \in DOMAIN proofLines /\ id \in Nat /\ ReadCount = next - 1
              /\ IdsRead' = IdsRead \cup {id} /\ id \notin IdsRead
              /\ IdsRead \subseteq Nat \ {0}
              /\ id # 0 => \A x \in IdsRead : x < id
            BY <2>2, <2>5, TakenId
        <3>2. id \in DOMAIN sinks_of => id \in DOMAIN last_use_of
            <4>1. next > ReadCount
                BY <1>1, <3>1
            <4> QED BY <1>7, <3>1, <4>1 DEF UseInv, line
        <3>3. /\ DOMAIN cores = DOMAIN search.sinks
              /\ \A i \in DOMAIN cores :
                    /\ cores[i] \in Seq(Nat) /\ Ascends(cores[i])
                    /\ Range(cores[i]) = IdsRead \cap Core(search.sinks[i])
            BY <1>7 DEF CoresInv, Before
        <3>4. search.sinks \in Seq(Nat)
            BY <1>1, <1>7, SinksType DEF SinksInv
        <3>5. ASSUME NEW i \in DOMAIN search.sinks
              PROVE  id \in Core(search.sinks[i])
                         <=> id \in DOMAIN sinks_of /\ i \in sinks_of[id]
            BY <1>7, <3>5 DEF SinksInv
        <3> HIDE DEF id
        <3>6. /\ DOMAIN cores' = DOMAIN cores
              /\ \A i \in DOMAIN cores :
                    cores'[i] = IF id \in Core(search.sinks[i]) THEN Append(cores[i], id)
                                ELSE cores[i]
            <4>1. CASE id \in DOMAIN last_use_of
                BY <2>5, <3>3, <3>5, <4>1 DEF TakesLine, CopyToCores, id
            <4>2. CASE id \notin DOMAIN last_use_of
                BY <2>5, <3>2, <3>3, <3>5, <4>2 DEF TakesLine, id
            <4> QED BY <4>1, <4>2
        <3>7. ASSUME NEW i \in DOMAIN cores
              PROVE  /\ cores'[i] \in Seq(Nat) /\ Ascends(cores'[i])
                     /\ Range(cores'[i]) = IdsRead' \cap Core(search.sinks[i])
            <4>1. CASE id \notin Core(search.sinks[i])
                BY <3>1, <3>3, <3>6, <4>1
            <4>2. CASE id \in Core(search.sinks[i])
                <5>1. \A x \in Range(cores[i]) : x < id
                    <6>1. CASE id = 0
                        <7>1. search.sinks[i] \in Nat
                            BY <3>3, <3>4
                        <7>2. Core(search.sinks[i]) = {0}
                            BY <1>1, <4>2, <6>1, <7>1, CoreOfZero
                        <7> QED BY <3>1, <3>3, <7>2
                    <6>2. CASE id # 0
                        BY <3>1, <3>3, <6>2
                    <6> QED BY <6>1, <6>2
                <5>2. cores'[i] = Append(cores[i], id)
                    BY <3>6, <4>2
                <5>3. /\ cores'[i] \in Seq(Nat) /\ Ascends(cores'[i])
                      /\ Range(cores'[i]) = Range(cores[i]) \cup {id}
                    <6> DEFINE old == cores[i]
                    <6>1. old \in Seq(Nat) /\ Ascends(old) /\ \A x \in Range(old) : x < id
                        BY <3>3, <5>1
                    <6> HIDE DEF old
                    <6>2. LET t == Append(old, id)
                          IN  t \in Seq(Nat) /\ Ascends(t) /\ Range(t) = Range(old) \cup {id}
                        BY <3>1, <6>1, AppendAscends DEF id
                    <6> QED BY <5>2, <6>2 DEF old
                <5> QED BY <3>1, <3>3, <4>2, <5>3
            <4> QED BY <4>1, <4>2
        <3>8. DOMAIN cores' = DOMAIN search'.sinks
            BY <2>2, <3>3, <3>6
        <3>9. \A i \in DOMAIN cores' :
                 /\ cores'[i] \in Seq(Nat) /\ Ascends(cores'[i])
                 /\ Range(cores'[i]) = IdsRead' \cap Core(search.sinks[i])'
            BY <2>2, <2>3, <3>6, <3>7
        <3> QED BY <2>2, <3>8, <3>9 DEF CoresInv, Ascends, Range
    <2> QED BY <1>7, <2>1, <2>4, <2>5 DEF LineStep
<1>8. CASE pc' = "end"
    BY <1>8 DEF CoresInv, Before
<1> QED
    BY <1>4, <1>5, <1>6, <1>7, <1>8, Phases

-----------------------------------------------------------------------------
(* The end of the proof *)

EndInv ==
    /\ pc \in {"grat", "combine"} => next = Len(proofLines) + 1
    /\ pc # "end" => cnf = <<>>
    /\ pc = "end" /\ cnf # <<>> => next = Len(proofLines) + 1 /\ cnf = FormulaClauses \o cert

(* The CNF file is written last, from what is there then. *)
LEMMA EndNext == ControlInv /\ EndInv /\ [Next]_vars => EndInv'
<1> SUFFICES ASSUME ControlInv, EndInv, [Next]_vars PROVE EndInv'
    OBVIOUS
<1> USE DEF Before, resultVars
<1>1. ASSUME pc # "end", pc' \notin {"grat", "combine"}, UNCHANGED cnf PROVE EndInv'
    BY <1>1 DEF EndInv
<1>2. CASE UNCHANGED vars
    <2>1. UNCHANGED <<pc, next, cnf, input, cert, axioms, clause_database, clause_tseitin_variables>>
        BY <1>2 DEF vars, readVars, inputVars, resultVars, databaseVars, phaseVars, fileVars
    <2>2. UNCHANGED <<proofLines, FormulaClauses>>
        BY <2>1 DEF proofLines, FormulaClauses, TrueFormula, Clause
    <2> QED BY <2>1, <2>2 DEF EndInv
<1>3. CASE Preparing
    <2>1. \/ UNCHANGED vars
          \/ pc # "end" /\ pc' \notin {"grat", "combine"} /\ UNCHANGED cnf
        BY <1>3 DEF Preparing, ReadOnAndOn, FirstPass, VisitConstraint, NextSink, OpenProof, SearchDone,
                    searchUnchanged
    <2> QED BY <1>1, <1>2, <2>1
<1>4. CASE ReadingLines
    <2>1. pc # "end" /\ pc' \notin {"grat", "combine"} /\ UNCHANGED cnf
        BY <1>4 DEF ReadingLines, ReadingLine, CoreLine, SkipLine, RecordInternalAxiom, RecordInputClause,
                    RecordInitialTerm, ReadReduction, ReadResolution, NextResolution
    <2> QED BY <1>1, <2>1
<1>5. CASE Checking \/ MergingPhases
    <2>1. pc # "end" /\ pc' \notin {"grat", "combine"} /\ UNCHANGED cnf
        BY <1>5 DEF Checking, CheckResolutionStep, CheckReductionStep, MergingPhases, SamePhase,
                    CachedPhase, NewPhase, KnownEflit, NewEflit, RecordPhase, CopyParentPhases,
                    SplitAndShadow, Merging, stepUnchanged
    <2> QED BY <1>1, <2>1
<1>6. CASE Reducing \/ NotReducing
    <2>1. pc # "end" /\ pc' \notin {"grat", "combine"} /\ UNCHANGED cnf
        BY <1>6 DEF Reducing, DefineG, AuxGate, ReduceSimple, GLemma, ReduceMerged, PushArrays,
                    NotReducing, EmitResolvent, Reroute, stepUnchanged
    <2> QED BY <1>1, <2>1
<1>7. CASE Returning
    <2>1. pc # "end" /\ pc' \notin {"grat", "combine"} /\ UNCHANGED cnf
        BY <1>7 DEF Returning, ReturnReduction, ReturnSafetyReduction, ReturnIntermediate,
                    ReturnFinal, ReturnCrash, ReturnFailure, returnUnchanged
    <2> QED BY <1>1, <2>1
<1>8. CASE EndOfProof
    <2>1. /\ pc = "line" /\ pc' = "grat" /\ next > Len(proofLines) /\ UNCHANGED <<cnf, next, input>>
        BY <1>8 DEF EndOfProof, readVars, inputVars
    <2>2. UNCHANGED proofLines /\ Len(proofLines) \in Nat /\ next \in 1..(Len(proofLines) + 1)
        BY <2>1, LinesStay, LinesAreCounted DEF ControlInv
    <2> QED BY <2>1, <2>2 DEF EndInv
<1>9. CASE WriteGratProof
    <2>1. pc = "grat" /\ pc' \in {"grat", "combine"} /\ UNCHANGED <<cnf, next, input>>
        BY <1>9 DEF WriteGratProof, readVars, inputVars
    <2> QED BY <2>1, LinesStay DEF EndInv
<1>10. CASE CombineFiles
    <2>1. /\ pc = "combine" /\ pc' = "end" /\ cnf' = FormulaClauses \o cert
          /\ UNCHANGED <<next, input, cert, axioms, clause_database, clause_tseitin_variables>>
        BY <1>10 DEF CombineFiles, readVars, inputVars, databaseVars, phaseVars, fileVars
    <2>2. UNCHANGED <<proofLines, FormulaClauses>>
        BY <2>1 DEF proofLines, FormulaClauses, TrueFormula, Clause
    <2> QED BY <2>1, <2>2 DEF EndInv
<1> QED
    BY <1>2, <1>3, <1>4, <1>5, <1>6, <1>7, <1>8, <1>9, <1>10
       DEF Next, Translate, Terminated, Finishing

\* What is known of the first pass while the second one runs.
ReadInv == ControlInv /\ SearchInv /\ CallInv /\ SinksInv /\ UseInv /\ CoresInv /\ EndInv

(* Nothing has been read at the start. *)
LEMMA ReadInit == Init => ReadInv
BY ControlInit, SearchInitial, CallInit
   DEF Init, ReadInv, SinksInv, UseInv, CoresInv, EndInv, Before

(* A step of the program keeps it. *)
LEMMA ReadNext == ReadInv /\ [Next]_vars => ReadInv'
BY ControlNext, SearchNext, CallNext, SinksNext, UseNext, CoresNext, EndNext DEF ReadInv

(* A core file is a proof of its empty constraint, for every proof: every line comes
   behind its parents, every line but the last is used, and the last one is the empty
   constraint. *)
THEOREM CoreFilesProve == Spec => []CoreFilesAreProofs
<1>1. ReadInv => CoreFilesAreProofs
    <2> SUFFICES ASSUME ReadInv, pc \in {"grat", "combine"}, NEW i \in DOMAIN cores,
                        search.sinks[i] # 0
                 PROVE  LET core == cores[i]
                            parents(k) == Range(ParentsOf(input.lines, core[k]))
                        IN  /\ core # <<>>
                            /\ Last(core) = search.sinks[i]
                            /\ \A k \in DOMAIN core : parents(k) \subseteq {core[j] : j \in 1..(k - 1)}
                            /\ \A k \in 1..(Len(core) - 1) :
                                   \E j \in DOMAIN core : core[k] \in parents(j)
        BY DEF CoreFilesAreProofs
    <2> DEFINE core == cores[i]
               sink == search.sinks[i]
    <2>1. /\ input \in Inputs /\ search.sinks = EmptyConstraints(input)
          /\ i \in DOMAIN search.sinks /\ core \in Seq(Nat) /\ Ascends(core)
          /\ Range(core) = IdsRead \cap Core(sink)
        BY DEF ReadInv, ControlInv, SinksInv, CoresInv, Before
    <2>2. sink \in Nat /\ sink \in LineIds(input.lines)
        BY <2>1, SinksType
    <2>3. ReadCount = Len(proofLines)
        BY LinesAreCounted DEF ReadInv, ControlInv, EndInv, ReadCount, InLine
    <2>4. LineIds(input.lines) \subseteq IdsRead
        <3> SUFFICES ASSUME NEW j \in DOMAIN input.lines PROVE input.lines[j].id \in IdsRead
            BY DEF LineIds
        <3>1. j \in DOMAIN proofLines /\ proofLines[j] = input.lines[j]
            BY <2>1, AllLinesRead
        <3>2. j <= ReadCount
            BY <2>1, <2>3, <3>1, LinesAreLines
        <3> QED BY <3>1, <3>2 DEF IdsRead
    <2>5. Range(core) = Core(sink) /\ sink \in Core(sink) /\ HasParents(Core(sink))
        BY <2>1, <2>2, <2>4, CoreHasParents
    <2> DEFINE n == Len(core)
    <2> HIDE DEF core, sink
    <2>6. core # <<>> /\ n \in Nat \ {0} /\ DOMAIN core = 1..n
        <3>1. core # <<>>
            BY <2>5 DEF Range
        <3> QED BY <2>1, <3>1, EmptySeq
    <2>7. \A k \in DOMAIN core : core[k] \in Core(sink) /\ core[k] \in Nat /\ core[k] <= sink
        BY <2>1, <2>2, <2>5, CoreBelow DEF Range
    <2>8. PICK m \in DOMAIN core : core[m] = sink
        BY <2>5 DEF Range
    <2>9. m = n
        <3> SUFFICES ASSUME m < n PROVE FALSE
            BY <2>6
        <3>1. core[m] < core[n] /\ core[n] <= sink /\ core[n] \in Nat
            BY <2>1, <2>6, <2>7 DEF Ascends
        <3> QED BY <2>2, <2>8, <3>1
    <2>10. Last(core) = sink
        BY <2>6, <2>8, <2>9 DEF Last
    <2>11. ASSUME NEW k \in DOMAIN core
           PROVE  Parents(core[k]) \subseteq {core[j] : j \in 1..(k - 1)}
        <3> SUFFICES ASSUME NEW p \in Parents(core[k]) PROVE \E j \in 1..(k - 1) : core[j] = p
            OBVIOUS
        <3>1. p \in Core(sink)
            BY <2>5, <2>7 DEF HasParents, Parents
        <3>2. PICK j \in DOMAIN core : core[j] = p
            BY <2>5, <3>1 DEF Range
        <3>3. core[j] < core[k] /\ core[j] \in Nat /\ core[k] \in Nat
            BY <2>1, <2>7, <3>2, ParentsType
        <3>4. ~(k < j) /\ k # j
            BY <2>1, <2>7, <3>3 DEF Ascends
        <3>5. j \in 1..(k - 1)
            BY <2>6, <3>4
        <3> QED BY <3>2, <3>5
    <2>12. ASSUME NEW k \in 1..(n - 1)
           PROVE  \E j \in DOMAIN core : core[k] \in Parents(core[j])
        <3>1. k \in DOMAIN core /\ n \in DOMAIN core /\ k < n
            BY <2>6
        <3>2. core[k] # sink
            <4>1. core[k] < core[n] /\ core[n] = sink
                BY <2>1, <2>8, <2>9, <3>1 DEF Ascends
            <4> QED BY <2>2, <2>7, <3>1, <4>1
        <3>3. PICK c \in Core(sink) : core[k] \in Parents(c)
            BY <2>1, <2>7, <3>1, <3>2, CoreUsed
        <3>4. PICK j \in DOMAIN core : core[j] = c
            BY <2>5 DEF Range
        <3> QED BY <3>3, <3>4
    <2> QED BY <2>6, <2>10, <2>11, <2>12 DEF Parents, core, sink
<1> QED BY <1>1, ReadInit, ReadNext, PTL DEF Spec

-----------------------------------------------------------------------------
(* The axioms, without a formula *)

AxiomsRead ==
    {proofLines[j].id : j \in {k \in DOMAIN proofLines :
                                 k <= ReadCount /\ proofLines[k].parents = <<>>}}

\* What the first pass has counted: an axiom, once for every sink that it is met from.
AxiomVisits ==
    {v \in (DOMAIN search.sinks) \X LineIds(input.lines) :
        /\ v[2] \in DOMAIN sinks_of /\ v[1] \in sinks_of[v[2]]
        /\ ParentsOf(input.lines, v[2]) = <<>>}

AxiomsInv ==
    pc \notin Before /\ (pc = "end" => cnf # <<>>) /\ ~input.have_formula =>
        /\ axioms \in Seq(Nat)
        /\ \A m, n \in DOMAIN axioms : axioms[m] = axioms[n] => m = n
        /\ Range(axioms) = AxiomsRead \cap DOMAIN sinks_of

CountInv ==
    ~input.have_formula =>
        /\ pc = "start" => num_cnf_clauses = 0
        /\ num_cnf_clauses = Cardinality(AxiomVisits)

(* The second pass counts no more of them. *)
LEMMA CountStays ==
    ASSUME pc \notin Before, [Next]_vars
    PROVE  UNCHANGED num_cnf_clauses
<1> USE DEF stepUnchanged, returnUnchanged, phaseVars
<1>1. CASE UNCHANGED vars
    BY <1>1 DEF vars
<1>2. CASE Preparing
    BY <1>2 DEF Preparing, ReadOnAndOn, FirstPass, VisitConstraint, NextSink, OpenProof, SearchDone,
                Before
<1>3. CASE ReadingLines
    BY <1>3 DEF ReadingLines, SkipLine, RecordInternalAxiom, RecordInputClause,
                RecordInitialTerm, ReadReduction, ReadResolution, NextResolution
<1>4. CASE Checking
    BY <1>4 DEF Checking, CheckResolutionStep, CheckReductionStep
<1>5. CASE MergingPhases
    BY <1>5 DEF MergingPhases, SamePhase, CachedPhase, NewPhase, KnownEflit, NewEflit,
                CopyParentPhases, SplitAndShadow
<1>6. CASE Reducing
    BY <1>6 DEF Reducing, DefineG, AuxGate, ReduceSimple, GLemma, ReduceMerged, PushArrays
<1>7. CASE NotReducing
    BY <1>7 DEF NotReducing, EmitResolvent, Reroute
<1>8. CASE Returning
    BY <1>8 DEF Returning, ReturnReduction, ReturnSafetyReduction, ReturnIntermediate,
                ReturnFinal, ReturnCrash, ReturnFailure
<1>9. CASE Finishing
    BY <1>9 DEF Finishing, EndOfProof, WriteGratProof, CombineFiles
<1> QED
    BY <1>1, <1>2, <1>3, <1>4, <1>5, <1>6, <1>7, <1>8, <1>9 DEF Next, Translate, Terminated

(* There are finitely many visits. *)
LEMMA VisitsAreFinite ==
    ASSUME input \in Inputs, SearchInv, SinksInv
    PROVE  IsFiniteSet(AxiomVisits) /\ IsFiniteSet(DOMAIN search.sinks)
<1>1. search.sinks = EmptyConstraints(input) \/ search.sinks = <<>>
    BY DEF SearchInv, SinksInv, Before, StackInv, NoSearch
<1>2. search.sinks \in Seq(Nat)
    <2>1. EmptyConstraints(input) \in Seq(Nat)
        BY SinksType
    <2>2. <<>> \in Seq(Nat)
        OBVIOUS
    <2>3. CASE search.sinks = <<>>
        BY <2>2, <2>3
    <2>4. CASE search.sinks = EmptyConstraints(input)
        BY <2>1, <2>4
    <2> QED BY <1>1, <2>3, <2>4
<1>3. IsFiniteSet(DOMAIN search.sinks)
    <2>1. DOMAIN search.sinks = 1..Len(search.sinks) /\ Len(search.sinks) \in Nat
        BY <1>2
    <2> QED BY <2>1, FS_Interval
<1>4. input.lines \in Seq(Line)
    BY InputAssumption
<1>5. IsFiniteSet(DOMAIN input.lines)
    BY <1>4, FS_Interval
<1>6. IsFiniteSet(LineIds(input.lines))
    <2> DEFINE f == [i \in DOMAIN input.lines |-> input.lines[i].id]
    <2>1. f \in Surjection(DOMAIN input.lines, LineIds(input.lines))
        BY DEF Surjection, LineIds
    <2> QED BY <1>5, <2>1, FS_Surjection
<1>7. IsFiniteSet((DOMAIN search.sinks) \X LineIds(input.lines))
    BY <1>3, <1>6, FS_Product
<1> QED BY <1>3, <1>7, FS_Subset DEF AxiomVisits

(* One axiom more is counted when one is popped. *)
LEMMA CountNext ==
    ControlInv /\ SearchInv /\ SinksInv /\ CountInv /\ [Next]_vars => CountInv'
<1> SUFFICES ASSUME ControlInv, SearchInv, SinksInv, CountInv, [Next]_vars, ~input'.have_formula
             PROVE  /\ pc' = "start" => num_cnf_clauses' = 0
                    /\ num_cnf_clauses' = Cardinality(AxiomVisits')
    BY DEF CountInv
<1>1. input \in Inputs
    BY DEF ControlInv
<1>2. ASSUME UNCHANGED <<input, num_cnf_clauses, sinks_of>>, search'.sinks = search.sinks,
             pc' = "start" => pc = "start"
      PROVE  CountInv'
    <2>1. UNCHANGED AxiomVisits
        BY <1>2 DEF AxiomVisits
    <2> QED BY <1>2, <2>1 DEF CountInv
<1>3. CASE UNCHANGED vars
    <2>1. UNCHANGED <<pc, input, num_cnf_clauses, sinks_of, search>>
        BY <1>3 DEF vars, readVars, inputVars, phaseVars
    <2> QED BY <1>2, <2>1 DEF CountInv
<1>4. CASE FirstPass
    <2>1. /\ pc = "start" /\ pc' # "start" /\ sinks_of' = sinks_of /\ UNCHANGED input
          /\ num_cnf_clauses' \in {0, num_cnf_clauses}
        BY <1>4 DEF FirstPass, searchVars, TrueFormula
    <2>2. num_cnf_clauses' = 0
        BY <2>1 DEF CountInv
    <2>3. sinks_of' = EmptyMap
        BY <2>1 DEF SearchInv
    <2>4. AxiomVisits' = {}
        BY <2>3 DEF AxiomVisits, EmptyMap
    <2> QED BY <2>1, <2>2, <2>4, FS_EmptySet
<1>5. CASE VisitConstraint
    <2> DEFINE cur == current_id
               visit == <<search.i, cur>>
    <2>1. /\ pc' = "search" /\ UNCHANGED input /\ search.stack # <<>>
          /\ StackInv /\ VisitedInv /\ SinksOfInv
          /\ sinks_of' = Put(sinks_of, cur,
               (IF cur \in DOMAIN sinks_of THEN sinks_of[cur] ELSE {}) \cup {search.i})
          /\ num_cnf_clauses' = num_cnf_clauses + (IF VisitsAxiom(input.lines) THEN 1 ELSE 0)
        BY <1>5 DEF VisitConstraint, searchUnchanged, Visit, SearchInv
    <2>2. search'.sinks = search.sinks
        BY <1>5, <2>1 DEF VisitConstraint, Visit, StackInv
    <2>3. search.i \in Nat /\ search.i \in DOMAIN search.sinks
        BY <1>1, <2>1, ExploredType DEF StackInv
    <2>4. cur \notin Popped
        <3>1. search.stack \in Seq(search.visited)
            BY <2>1 DEF StackInv
        <3>2. Last(search.stack) \in Range(search.stack)
            BY <2>1, <3>1, EmptySeq DEF Last, Range
        <3> QED BY <3>2 DEF Popped, current_id
    <2>5. cur \in DOMAIN sinks_of => search.i \notin sinks_of[cur]
        BY <2>1, <2>3, <2>4 DEF SinksOfInv
    <2> HIDE DEF cur
    <2>6. /\ DOMAIN sinks_of' = DOMAIN sinks_of \cup {cur}
          /\ \A id \in DOMAIN sinks_of : id # cur => sinks_of'[id] = sinks_of[id]
          /\ sinks_of'[cur] = (IF cur \in DOMAIN sinks_of THEN sinks_of[cur] ELSE {}) \cup {search.i}
        BY <2>1 DEF Put
    <2>7. IsFiniteSet(AxiomVisits) /\ num_cnf_clauses = Cardinality(AxiomVisits)
        BY <1>1, <2>1, VisitsAreFinite DEF CountInv
    <2>8. visit \notin AxiomVisits
        BY <2>5 DEF AxiomVisits
    <2>9. AxiomVisits' = IF VisitsAxiom(input.lines) THEN AxiomVisits \cup {visit} ELSE AxiomVisits
        <3> DEFINE all == (DOMAIN search.sinks) \X LineIds(input.lines)
                   axiom(v) == ParentsOf(input.lines, v[2]) = <<>>
        <3>1. AxiomVisits' = {v \in all : v[2] \in DOMAIN sinks_of' /\ v[1] \in sinks_of'[v[2]] /\ axiom(v)}
            BY <2>1, <2>2 DEF AxiomVisits
        <3>2. ASSUME NEW v \in all
              PROVE  v[2] \in DOMAIN sinks_of' /\ v[1] \in sinks_of'[v[2]]
                         <=> (v[2] \in DOMAIN sinks_of /\ v[1] \in sinks_of[v[2]]) \/ v = visit
            <4>1. v = <<v[1], v[2]>>
                OBVIOUS
            <4>2. CASE v[2] = cur
                BY <2>6, <4>1, <4>2
            <4>3. CASE v[2] # cur
                BY <2>6, <4>1, <4>3
            <4> QED BY <4>2, <4>3
        <3>3. VisitsAxiom(input.lines) <=> visit \in all /\ axiom(visit)
            BY <2>3 DEF VisitsAxiom, cur
        <3> HIDE DEF visit, axiom, all
        <3>4. AxiomVisits = {v \in all : v[2] \in DOMAIN sinks_of /\ v[1] \in sinks_of[v[2]] /\ axiom(v)}
            BY DEF AxiomVisits, all, axiom
        <3> QED BY <3>1, <3>2, <3>3, <3>4
    <2>10. CASE VisitsAxiom(input.lines)
        BY <2>1, <2>7, <2>8, <2>9, <2>10, FS_AddElement, FS_CardinalityType
    <2>11. CASE ~VisitsAxiom(input.lines)
        BY <2>1, <2>7, <2>9, <2>11, FS_CardinalityType
    <2> QED BY <2>1, <2>10, <2>11
<1>6. CASE NextSink \/ OpenProof
    <2>1. /\ UNCHANGED <<input, num_cnf_clauses, sinks_of>> /\ search'.sinks = search.sinks
          /\ pc' # "start"
        BY <1>6 DEF NextSink, BeginSearch, OpenProof, SearchDone, searchUnchanged, searchVars, phaseVars
    <2> QED BY <1>2, <2>1 DEF CountInv
<1>7. CASE pc \notin Before
    <2>1. LineStep /\ UNCHANGED num_cnf_clauses
        BY <1>7, LineNext, CountStays
    <2> QED BY <1>2, <2>1 DEF LineStep, inputVars, Before, CountInv
<1> QED BY <1>3, <1>4, <1>5, <1>6, <1>7, Phases

(* The axioms that are kept are those of the core that have been read. *)
LEMMA AxiomsNext ==
    ControlInv /\ SearchInv /\ UseInv /\ CoresInv /\ EndInv /\ AxiomsInv /\ [Next]_vars
        => AxiomsInv'
<1> SUFFICES ASSUME ControlInv, SearchInv, UseInv, CoresInv, EndInv, AxiomsInv, [Next]_vars,
                    pc' \notin Before, pc' = "end" => cnf' # <<>>, ~input'.have_formula
             PROVE  /\ axioms' \in Seq(Nat)
                    /\ \A m, n \in DOMAIN axioms' : axioms'[m] = axioms'[n] => m = n
                    /\ Range(axioms') = AxiomsRead' \cap DOMAIN sinks_of'
    BY DEF AxiomsInv
<1>1. input \in Inputs /\ DOMAIN proofLines \subseteq Nat
    BY LinesAreLines DEF ControlInv
<1>2. CASE pc \in Before
    <2>1. CASE OpenProof
        <3>1. /\ pc = "search" /\ pc' = "line" /\ UNCHANGED <<input, next, axioms>>
              /\ next = 1 /\ axioms = <<>>
            BY <1>2, <2>1 DEF OpenProof, SearchDone, searchUnchanged, CoresInv, databaseVars
        <3>2. ReadCount' = 0 /\ UNCHANGED proofLines
            BY <3>1, LinesStay DEF ReadCount, InLine
        <3>3. \A k \in DOMAIN proofLines : ~(k <= 0)
            BY LinesAreLines DEF ControlInv
        <3>4. AxiomsRead' = {}
            BY <3>2, <3>3 DEF AxiomsRead
        <3>5. axioms' = <<>>
            BY <3>1
        <3>6. Range(axioms') = {} /\ axioms' \in Seq(Nat)
            BY <3>5 DEF Range
        <3> QED BY <3>4, <3>5, <3>6
    <2>2. CASE FirstPass \/ VisitConstraint \/ NextSink \/ UNCHANGED vars
        <3>1. pc' \in Before \/ (pc' = "end" /\ UNCHANGED cnf /\ pc # "end")
            BY <1>2, <2>2 DEF FirstPass, VisitConstraint, NextSink, vars, Before
        <3> QED BY <3>1 DEF EndInv
    <2> QED BY <1>2, <2>1, <2>2, Phases
<1>3. CASE pc \notin Before
    <2>1. LineStep
        BY <1>3, LineNext
    <2>2. UNCHANGED <<input, sinks_of, proofLines>>
        BY <2>1, LinesStay DEF LineStep, inputVars
    <2>3. CASE pc' = "end" /\ pc # "end" /\ UNCHANGED cnf
        BY <2>3 DEF EndInv
    <2>4. CASE UNCHANGED axioms /\ ReadCount' = ReadCount
        <3>1. UNCHANGED AxiomsRead
            BY <2>2, <2>4 DEF AxiomsRead
        <3>2. pc = "end" => cnf # <<>>
            <4>1. CASE pc = "end"
                <5>1. UNCHANGED vars
                    BY <4>1, Phases DEF FirstPass, VisitConstraint, NextSink, OpenProof, SearchDone
                <5> QED BY <4>1, <5>1 DEF vars, resultVars
            <4> QED BY <4>1
        <3> QED BY <1>3, <2>2, <2>4, <3>1, <3>2 DEF AxiomsInv
    <2>5. CASE TakesLine
        <3> DEFINE id == line.id
                   axiom == id \in DOMAIN last_use_of /\ line.parents = <<>>
        <3>1. /\ next \in DOMAIN proofLines /\ id \in Nat /\ ReadCount = next - 1
              /\ id \notin IdsRead
            BY <2>2, <2>5, TakenId
        <3>2. next \in Nat /\ ReadCount' = next /\ pc = "line"
            BY <1>1, <2>5, <3>1 DEF TakesLine, ReadingLine
        <3>3. AxiomsRead' = AxiomsRead \cup (IF line.parents = <<>> THEN {id} ELSE {})
            <4>1. \A k \in DOMAIN proofLines : k <= next <=> (k <= next - 1 \/ k = next)
                BY <1>1, <3>2
            <4> QED BY <2>2, <3>1, <3>2, <4>1 DEF AxiomsRead, line
        <3>4. id \in DOMAIN last_use_of <=> id \in DOMAIN sinks_of
            <4>1. next > ReadCount
                BY <3>1, <3>2
            <4> QED BY <2>2, <3>1, <3>2, <4>1 DEF UseInv, Before, line
        <3>5. /\ axioms \in Seq(Nat)
              /\ \A m, n \in DOMAIN axioms : axioms[m] = axioms[n] => m = n
              /\ Range(axioms) = AxiomsRead \cap DOMAIN sinks_of
            BY <2>2, <3>2 DEF AxiomsInv, Before
        <3>6. axioms' = IF axiom THEN Append(axioms, id) ELSE axioms
            BY <2>2, <2>5 DEF TakesLine
        <3>7. id \notin AxiomsRead
            BY <3>1 DEF AxiomsRead, IdsRead
        <3>8. CASE ~axiom
            BY <2>2, <3>3, <3>4, <3>5, <3>6, <3>8
        <3>9. CASE axiom
            <4> HIDE DEF id
            <4> DEFINE t == axioms'
            <4>1. t = Append(axioms, id) /\ id \notin Range(axioms)
                BY <3>5, <3>6, <3>7, <3>9
            <4>2. /\ t \in Seq(Nat) /\ Len(t) = Len(axioms) + 1 /\ Len(axioms) \in Nat
                  /\ \A i \in 1..Len(axioms) : t[i] = axioms[i]
                  /\ t[Len(axioms) + 1] = id
                BY <3>1, <3>5, <4>1, AppendProperties DEF id
            <4>3. DOMAIN t = DOMAIN axioms \cup {Len(axioms) + 1} /\ DOMAIN axioms = 1..Len(axioms)
                BY <3>5, <4>2
            <4> HIDE DEF t
            <4>4. \A m \in DOMAIN axioms : t[m] = axioms[m] /\ t[m] # id
                BY <4>1, <4>2, <4>3 DEF Range
            <4>5. \A m, n \in DOMAIN t : t[m] = t[n] => m = n
                BY <3>5, <4>2, <4>3, <4>4
            <4>6. Range(t) = Range(axioms) \cup {id}
                BY <4>2, <4>3, <4>4 DEF Range
            <4>7. Range(t) = AxiomsRead' \cap DOMAIN sinks_of'
                BY <2>2, <3>3, <3>4, <3>5, <3>9, <4>6 DEF id
            <4> QED BY <4>2, <4>5, <4>7 DEF t
        <3> QED BY <3>8, <3>9
    <2> QED BY <2>1, <2>3, <2>4, <2>5 DEF LineStep
<1> QED BY <1>2, <1>3

\* And what is known of the axioms.
CountedInv == ReadInv /\ CountInv /\ AxiomsInv /\ ClauseInv /\ StepInv /\ FileInv

(* There is no axiom yet at the start. *)
LEMMA CountedInit == Init => CountedInv
<1> SUFFICES ASSUME Init PROVE CountedInv
    OBVIOUS
<1>1. ReadInv /\ ClauseInv /\ StepInv /\ FileInv
    BY ReadInit, ClauseInit, StepInit, FileInit
<1>2. AxiomVisits = {}
    BY DEF Init, SearchInit, EmptyMap, AxiomVisits
<1> QED BY <1>1, <1>2, FS_EmptySet DEF Init, PhaseInit, CountedInv, CountInv, AxiomsInv, Before

(* A step of the program keeps it. *)
LEMMA CountedNext == CountedInv /\ [Next]_vars => CountedInv'
BY ReadNext, CountNext, AxiomsNext, ClauseNext, StepNext, FileNext DEF CountedInv, ReadInv

(* The visits that were counted and the places of the axioms correspond one to
   one, if no axiom is met from two empty constraints. *)
LEMMA VisitsAreAxioms == CountedInv => AxiomsCounted
<1> SUFFICES ASSUME CountedInv, pc = "end", cnf # <<>>, ~input.have_formula,
                    0 \notin Range(search.sinks),
                    \A i \in DOMAIN axioms : Cardinality(sinks_of[axioms[i]]) = 1
             PROVE  num_cnf_clauses + Len(cert) = Len(cnf)
    BY DEF AxiomsCounted
<1>1. /\ input \in Inputs /\ search.sinks = EmptyConstraints(input)
      /\ DOMAIN sinks_of = UNION {Core(search.sinks[j]) : j \in DOMAIN search.sinks}
      /\ \A id \in DOMAIN sinks_of :
             sinks_of[id] = {j \in DOMAIN search.sinks : id \in Core(search.sinks[j])}
      /\ cnf = FormulaClauses \o cert /\ next = Len(proofLines) + 1
      /\ IsFiniteSet(AxiomVisits) /\ IsFiniteSet(DOMAIN search.sinks)
    BY VisitsAreFinite DEF CountedInv, ReadInv, ControlInv, SinksInv, EndInv, Before
<1>2. /\ axioms \in Seq(Nat)
      /\ \A m, n \in DOMAIN axioms : axioms[m] = axioms[n] => m = n
      /\ Range(axioms) = AxiomsRead \cap DOMAIN sinks_of
    BY DEF CountedInv, AxiomsInv, Before
<1>3. num_cnf_clauses = Cardinality(AxiomVisits)
    BY DEF CountedInv, CountInv
<1>4. 0 \notin DOMAIN sinks_of
    <2> SUFFICES ASSUME NEW j \in DOMAIN search.sinks, 0 \in Core(search.sinks[j]) PROVE FALSE
        BY <1>1
    <2>1. search.sinks[j] = 0
        BY <1>1, CoreHasParents, LineIdsType
    <2> QED BY <2>1 DEF Range
<1>5. /\ DOMAIN proofLines \subseteq Nat /\ ReadCount = Len(proofLines)
      /\ \A k \in DOMAIN proofLines : k <= ReadCount
    BY <1>1, LinesAreLines DEF ReadCount, InLine
<1>6. ASSUME NEW id
      PROVE  id \in Range(axioms) <=> /\ id \in LineIds(input.lines) /\ id \in DOMAIN sinks_of
                                      /\ ParentsOf(input.lines, id) = <<>>
    <2>1. ASSUME id \in Range(axioms)
          PROVE  /\ id \in LineIds(input.lines) /\ id \in DOMAIN sinks_of
                 /\ ParentsOf(input.lines, id) = <<>>
        <3>1. PICK k \in DOMAIN proofLines : proofLines[k].id = id /\ proofLines[k].parents = <<>>
            BY <1>2, <2>1 DEF AxiomsRead
        <3> QED BY <1>1, <1>2, <1>4, <2>1, <3>1, LineType
    <2>2. ASSUME id \in LineIds(input.lines), id \in DOMAIN sinks_of,
                 ParentsOf(input.lines, id) = <<>>
          PROVE  id \in Range(axioms)
        <3>1. PICK k \in DOMAIN input.lines : input.lines[k].id = id
            BY <2>2 DEF LineIds
        <3>2. k \in DOMAIN proofLines /\ proofLines[k].id = id
            BY <1>1, <3>1, AllLinesRead
        <3>3. proofLines[k].parents = <<>>
            BY <1>1, <2>2, <3>2, LineType
        <3> QED BY <1>2, <1>5, <2>2, <3>2, <3>3 DEF AxiomsRead
    <2> QED BY <2>1, <2>2
<1> DEFINE n == Len(axioms)
           f == [v \in AxiomVisits |-> v[2]]
<1>7. \A v \in AxiomVisits : /\ v = <<v[1], v[2]>> /\ v[2] \in Range(axioms)
                             /\ v[1] \in sinks_of[v[2]]
    BY <1>6 DEF AxiomVisits
<1>8. ASSUME NEW id \in Range(axioms) PROVE \E j : sinks_of[id] = {j}
    <2>1. Cardinality(sinks_of[id]) = 1
        BY DEF Range
    <2>2. sinks_of[id] \in SUBSET DOMAIN search.sinks
        BY <1>1, <1>6
    <2>3. IsFiniteSet(sinks_of[id])
        BY <1>1, <2>2, FS_Subset
    <2> QED BY <2>1, <2>3, FS_Singleton
<1>9. f \in Bijection(AxiomVisits, Range(axioms))
    <2>1. f \in [AxiomVisits -> Range(axioms)]
        BY <1>7
    <2>2. ASSUME NEW v \in AxiomVisits, NEW w \in AxiomVisits, f[v] = f[w] PROVE v = w
        <3>1. v[2] = w[2]
            BY <2>2
        <3>2. v[1] = w[1]
            BY <1>7, <1>8, <3>1
        <3> QED BY <1>7, <3>1, <3>2
    <2>3. ASSUME NEW id \in Range(axioms) PROVE \E v \in AxiomVisits : f[v] = id
        <3>1. PICK j : sinks_of[id] = {j}
            BY <1>8
        <3>2. j \in DOMAIN search.sinks
            BY <1>1, <1>6, <3>1
        <3>3. <<j, id>> \in AxiomVisits
            BY <1>6, <3>1, <3>2 DEF AxiomVisits
        <3> QED BY <3>3
    <2> QED BY <2>1, <2>2, <2>3 DEF Bijection, Injection, Surjection, IsInjective
<1>10. Cardinality(Range(axioms)) = num_cnf_clauses /\ IsFiniteSet(Range(axioms))
    BY <1>1, <1>3, <1>9, FS_Bijection DEF ExistsBijection
<1>11. Cardinality(Range(axioms)) = n
    <2>1. n \in Nat /\ DOMAIN axioms = 1..n
        BY <1>2
    <2>2. axioms \in Bijection(1..n, Range(axioms))
        BY <1>2, <2>1 DEF Bijection, Injection, Surjection, IsInjective, Range
    <2> HIDE DEF n
    <2>3. IsFiniteSet(1..n) /\ Cardinality(1..n) = n
        <3>1. IsFiniteSet(1..n) /\ Cardinality(1..n) = IF 1 > n THEN 0 ELSE n - 1 + 1
            BY <2>1, FS_Interval
        <3> QED BY <2>1, <3>1
    <2> QED BY <2>2, <2>3, FS_Bijection DEF ExistsBijection
<1>12. IsSeq(FormulaClauses) /\ Len(FormulaClauses) = n
    <2>1. FormulaClauses = [i \in DOMAIN axioms |-> SortedClause(Clause(axioms[i]))]
        BY DEF FormulaClauses, TrueFormula
    <2> DEFINE g == FormulaClauses
    <2>2. DOMAIN g = 1..n /\ n \in Nat
        BY <1>2, <2>1
    <2>3. g = [i \in 1..n |-> g[i]]
        BY <2>1, <2>2
    <2> HIDE DEF g
    <2>4. g \in Seq(Range(g)) /\ Len(g) = n
        BY <2>2, <2>3, SeqDef DEF Range
    <2> QED BY <2>4 DEF IsSeq, g
<1>13. Len(cnf) = n + Len(cert) /\ n \in Nat /\ Len(cert) \in Nat
    <2>1. IsSeq(cert)
        BY DEF CountedInv, FileInv
    <2>2. /\ Len(FormulaClauses) \in Nat /\ Len(cert) \in Nat
          /\ Len(FormulaClauses \o cert) = Len(FormulaClauses) + Len(cert)
        BY <1>12, <2>1, ConcatIsSeq
    <2> QED BY <1>1, <1>12, <2>2
<1> QED BY <1>10, <1>11, <1>13

(* The axioms of the CNF file are as many as the first pass has counted, for every
   proof, if none is met from two empty constraints. *)
THEOREM AxiomsAreCounted == Spec => []AxiomsCounted
BY VisitsAreAxioms, CountedInit, CountedNext, PTL DEF Spec
=============================================================================
