----------------------------- MODULE LookupProofs -----------------------------
(***************************************************************************)
(* Proofs about what the second pass forgets and about the maps that hints *)
(* are looked up in.  For every proof, the clauses and GRAT ids that later *)
(* steps need are kept, and the phases of the intermediate resolvents are  *)
(* gone when their ids are used again.  For every proof that is regular in *)
(* the sense of NoDefaultInserted, operator[] never creates an entry: the  *)
(* clauses and GRAT ids of the parents are there because nothing forgets   *)
(* them too early and because a clause that is not empty has a shadow      *)
(* clause that is not; the definitions and shortcuts are there because a   *)
(* phase is never used before its effective literal.                       *)
(***************************************************************************)
EXTENDS CoreProofs

Translating == pc \notin Before \cup {"end"} /\ SpareIdIsFree

(* A step of the second pass: the proof is opened, or something is done with a line. *)
LEMMA Course ==
    ASSUME ControlInv, [Next]_vars, pc' \notin Before \cup {"end"}
    PROVE  \/ OpenProof
           \/ /\ pc \notin Before \cup {"end"}
              /\ \/ UNCHANGED vars \/ ReadingLines \/ Checking \/ MergingPhases \/ Reducing
                 \/ NotReducing \/ ReturnReduction \/ ReturnSafetyReduction
                 \/ ReturnIntermediate \/ ReturnFinal \/ EndOfProof \/ WriteGratProof
<1>1. CASE UNCHANGED vars
    BY <1>1 DEF vars
<1>2. CASE FirstPass \/ VisitConstraint \/ NextSink
    BY <1>2 DEF FirstPass, VisitConstraint, NextSink, Before
<1>3. CASE pc \notin Before \cup {"end"} /\ ~UNCHANGED vars
    <2>1. ~Preparing
        BY <1>3 DEF Preparing, ReadOnAndOn, FirstPass, VisitConstraint, NextSink, OpenProof,
                    SearchDone, Before
    <2>2. ~ReturnCrash /\ ~ReturnFailure /\ ~CombineFiles
        BY DEF ReturnCrash, ReturnFailure, CombineFiles
    <2> QED BY <1>3, <2>1, <2>2 DEF Next, Translate, Terminated, Returning, Finishing
<1> QED BY <1>1, <1>2, <1>3, Phases

(* What is assumed of the proof does not change while it is translated. *)
LEMMA PremisesStay ==
    ASSUME ControlInv, [Next]_vars, pc \notin Before \/ OpenProof
    PROVE  /\ UNCHANGED inputVars /\ UNCHANGED <<proofLines, TrueFormula, SpareIdIsFree, UsesAreSeparate>>
           /\ \A id : Parents(id)' = Parents(id)
<1>1. UNCHANGED inputVars
    BY LineNext DEF LineStep, OpenProof, searchUnchanged, searchVars, inputVars
<1>2. UNCHANGED <<proofLines, TrueFormula, UsesAreSeparate>>
    BY <1>1, LinesStay DEF inputVars, TrueFormula, UsesAreSeparate
<1>3. UNCHANGED SpareIdIsFree
    BY <1>1, <1>2 DEF inputVars, SpareIdIsFree
<1> QED BY <1>1, <1>2, <1>3, GraphStays DEF inputVars

(* The pieces of translate_resolution_step leave the line, the loop over its parents, the
   arguments and the clauses alone. *)
LEMMA StepFrame ==
    ASSUME Checking \/ MergingPhases \/ Reducing \/ NotReducing
    PROVE  /\ pc \in InLine \ {"chain", "return", "failed"} /\ pc' \in InLine \ {"chain", "check"}
           /\ UNCHANGED <<next, input, spare_id, search, sinks_of, chain, call, clause_database,
                          last_orig_clause_seen>>
           /\ UNCHANGED <<proofLines, line, left, right, res, parents_right, LastOfChain, ReadIds,
                          AxiomsFound>>
<1>1. /\ pc \in InLine \ {"chain", "return", "failed"} /\ pc' \in InLine \ {"chain", "check"}
      /\ UNCHANGED <<next, input, spare_id, search, sinks_of, chain, call, clause_database,
                     last_orig_clause_seen>>
    <2>1. CASE Checking
        BY <2>1 DEF Checking, CheckResolutionStep, CheckReductionStep, stepUnchanged, readVars,
                    inputVars, databaseVars, InLine
    <2>2. CASE MergingPhases
        BY <2>2 DEF MergingPhases, SamePhase, CachedPhase, NewPhase, KnownEflit, NewEflit,
                    RecordPhase, CopyParentPhases, SplitAndShadow, Merging, stepUnchanged,
                    readVars, inputVars, InLine
    <2>3. CASE Reducing \/ NotReducing
        BY <2>3 DEF Reducing, DefineG, AuxGate, ReduceSimple, GLemma, ReduceMerged, PushArrays,
                    NotReducing, EmitResolvent, Reroute, stepUnchanged, readVars, inputVars, InLine
    <2> QED BY <2>1, <2>2, <2>3
<1>2. UNCHANGED <<proofLines, line, left, right, res, parents_right>>
    BY <1>1 DEF proofLines, line, left, right, res, parents_right
<1> QED BY <1>1, <1>2 DEF LastOfChain, ReadIds, AxiomsFound

-----------------------------------------------------------------------------
(* The ids in a step *)

SpareInv == pc \notin {"start", "end"} => search.sinks # <<>> /\ spare_id = Last(search.sinks) + 1

(* The spare ids are chosen when the empty constraints are known. *)
LEMMA SpareNext == ControlInv /\ SearchInv /\ SpareInv /\ [Next]_vars => SpareInv'
<1> SUFFICES ASSUME ControlInv, SearchInv, SpareInv, [Next]_vars, pc' \notin {"start", "end"}
             PROVE  SpareInv'
    BY DEF SpareInv
<1>1. CASE FirstPass
    <2>1. EmptyConstraints(input) # <<>> /\ spare_id' = Last(EmptyConstraints(input)) + 1
          /\ BeginSearch(EmptyConstraints(input), 1)
        BY <1>1 DEF FirstPass
    <2>2. search'.sinks = EmptyConstraints(input)
        BY <2>1 DEF BeginSearch
    <2> QED BY <2>1, <2>2 DEF SpareInv
<1>2. CASE VisitConstraint \/ NextSink
    <2>1. pc = "search" /\ UNCHANGED spare_id
        BY <1>2 DEF VisitConstraint, NextSink, searchUnchanged
    <2>2. DOMAIN search = {"sinks", "i", "stack", "visited"}
        BY <2>1 DEF SearchInv, StackInv
    <2>3. CASE VisitConstraint
        <3>1. \E s, v : search' = [search EXCEPT !.stack = s, !.visited = v]
            BY <2>3 DEF VisitConstraint, Visit
        <3> QED BY <2>1, <2>2, <3>1 DEF SpareInv
    <2>4. CASE NextSink
        BY <2>1, <2>4 DEF NextSink, BeginSearch, SpareInv
    <2> QED BY <1>2, <2>3, <2>4
<1>3. CASE UNCHANGED vars \/ OpenProof \/ pc \notin Before \cup {"end"}
    <2>1. pc \notin {"start", "end"} /\ UNCHANGED <<search, spare_id>>
        BY <1>3, LineNext DEF LineStep, OpenProof, SearchDone, searchUnchanged, searchVars,
                              inputVars, readVars, vars, Before
    <2> QED BY <2>1 DEF SpareInv
<1> QED BY <1>1, <1>2, <1>3, Phases

(* Every id of the core is smaller than the spare ids, and its parents are in the core. *)
LEMMA CoreSpare ==
    ASSUME ControlInv, SinksInv, SpareInv, pc \notin Before \cup {"end"}
    PROVE  /\ spare_id \in Nat \ {0}
           /\ \A id \in DOMAIN sinks_of :
                  /\ id \in Nat /\ id < spare_id
                  /\ Parents(id) \subseteq DOMAIN sinks_of
<1> DEFINE sinks == search.sinks
<1>1. /\ sinks = EmptyConstraints(input) /\ sinks # <<>> /\ spare_id = Last(sinks) + 1
      /\ DOMAIN sinks_of = UNION {Core(sinks[j]) : j \in DOMAIN sinks} /\ input \in Inputs
    BY DEF SinksInv, SpareInv, ControlInv, Before
<1> HIDE DEF sinks
<1>2. /\ sinks \in Seq(Nat) /\ \A i, j \in DOMAIN sinks : i < j => sinks[i] < sinks[j]
    BY <1>1, SinksType
<1>3. /\ Len(sinks) \in DOMAIN sinks /\ Last(sinks) = sinks[Len(sinks)] /\ Last(sinks) \in Nat
      /\ \A j \in DOMAIN sinks : sinks[j] \in Nat /\ sinks[j] <= Last(sinks)
    BY <1>1, <1>2 DEF Last
<1>4. ASSUME NEW id \in DOMAIN sinks_of
      PROVE  id \in Nat /\ id < spare_id /\ Parents(id) \subseteq DOMAIN sinks_of
    <2>1. PICK j \in DOMAIN sinks : id \in Core(sinks[j])
        BY <1>1
    <2>2. id \in Nat /\ id <= sinks[j]
        BY <1>1, <1>3, <2>1, CoreBelow
    <2>3. Parents(id) \subseteq Core(sinks[j])
        BY <1>1, <2>1, CoreHasParents DEF HasParents, Parents
    <2> QED BY <1>1, <1>3, <2>2, <2>3
<1> QED BY <1>1, <1>3, <1>4

\* An id that only the translator uses.
IsSpare(id) == id \in {spare_id, spare_id + 1}

CallShape ==
    /\ pc = "chain" =>
        /\ line.parents # <<>>
        /\ chain.left = Head(line.parents) \/ chain.left = spare_id + (1 - chain.spare)
    /\ pc \in InLine \ {"chain"} /\ right # 0 =>
        /\ line.parents # <<>>
        /\ left = Head(line.parents) \/ (IsSpare(left) /\ (LastOfChain \/ left # res))
        /\ res = IF LastOfChain THEN line.id ELSE spare_id + (1 - chain.spare)
    /\ pc \in InLine \ {"chain"} /\ right = 0 =>
        IF line.parents = <<>> THEN TrueFormula /\ left = line.id /\ res = spare_id
        ELSE line.parents = <<left>> /\ res = line.id

(* The line in work, and its parents. *)
LEMMA LineInWork ==
    ASSUME ControlInv, pc \in InLine \/ ReadingLine
    PROVE  /\ next \in DOMAIN proofLines /\ next \in Nat /\ DOMAIN proofLines \subseteq Nat
           /\ line.id \in Nat /\ line.parents \in Seq(Nat \ {0})
           /\ Range(line.parents) = Parents(line.id)
<1>1. next \in 1..(Len(proofLines) + 1) /\ proofLines \in Seq(Line \cup {ResultLine})
    BY LinesAreLines DEF ControlInv
<1>2. next \in DOMAIN proofLines /\ next \in Nat /\ DOMAIN proofLines \subseteq Nat
    BY <1>1 DEF ControlInv, ReadingLine
<1>3. input \in Inputs
    BY DEF ControlInv
<1> QED BY <1>2, <1>3, LineType, LineIdsType DEF line, Parents

(* The parents that the loop goes over have ids other than 0, which says that there is
   none. *)
LEMMA ParentInChain ==
    ASSUME ControlInv, CallInv, pc = "chain", line.parents # <<>>
    PROVE  parents_right[chain.i + 1] \in Nat \ {0}
<1>1. line.parents \in Seq(Nat \ {0})
    BY LineInWork DEF InLine
<1>2. parents_right \in Seq(Nat \ {0})
    BY <1>1, HeadTailProperties DEF parents_right
<1>3. chain.i + 1 \in DOMAIN parents_right
    BY DEF CallInv, InLine
<1> QED BY <1>2, <1>3

(* A resolvent in the middle of a chain is stored under the spare id that its left parent
   does not have. *)
LEMMA CallShapeNext ==
    ControlInv /\ CallInv /\ SearchInv /\ SinksInv /\ SpareInv /\ CallShape /\ [Next]_vars => CallShape'
<1> SUFFICES ASSUME ControlInv, CallInv, SearchInv, SinksInv, SpareInv, CallShape, [Next]_vars,
                    pc' \in InLine
             PROVE  CallShape'
    BY DEF CallShape, InLine
<1>1. pc' \notin Before \cup {"end"}
    BY DEF InLine, Before
<1>2. CASE OpenProof \/ EndOfProof \/ WriteGratProof
    BY <1>2 DEF OpenProof, EndOfProof, WriteGratProof, InLine
<1>3. ASSUME UNCHANGED <<next, input>> PROVE UNCHANGED <<proofLines, line, parents_right, TrueFormula>>
    BY <1>3 DEF proofLines, line, parents_right, TrueFormula
<1>4. DOMAIN chain = {"i", "spare", "left"} /\ chain.spare \in {0, 1}
    BY DEF ControlInv
<1>5. CASE UNCHANGED vars
    <2>1. UNCHANGED <<next, input, spare_id, chain, call, pc>>
        BY <1>5 DEF vars, readVars, inputVars
    <2> QED BY <1>3, <2>1 DEF CallShape, left, right, res, LastOfChain, IsSpare
<1>6. CASE Checking \/ MergingPhases \/ Reducing \/ NotReducing
    <2>1. pc \in InLine \ {"chain"} /\ UNCHANGED <<line, left, right, res, LastOfChain, spare_id, chain>>
        BY <1>6, StepFrame
    <2>2. UNCHANGED TrueFormula /\ pc' \in InLine \ {"chain"}
        BY <1>3, <1>6, StepFrame
    <2> QED BY <2>1, <2>2 DEF CallShape, IsSpare
<1>7. CASE SkipLine \/ RecordInternalAxiom \/ RecordInputClause
    BY <1>7 DEF SkipLine, RecordInternalAxiom, RecordInputClause, CoreLine, ReadingLine, InLine
<1>8. CASE RecordInitialTerm
    <2>1. /\ pc' = "check" /\ call' = [left |-> line.id, right |-> 0, resolvent |-> spare_id]
          /\ line.parents = <<>> /\ TrueFormula /\ UNCHANGED <<next, input, spare_id>>
        BY <1>8 DEF RecordInitialTerm, inputVars
    <2> QED BY <1>3, <2>1 DEF CallShape, left, right, res
<1>9. CASE ReadReduction
    <2>1. /\ pc' = "check" /\ Len(line.parents) = 1 /\ UNCHANGED <<next, input>> /\ ReadingLine
          /\ call' = [left |-> Head(line.parents), right |-> 0, resolvent |-> line.id]
        BY <1>9 DEF ReadReduction, inputVars, CoreLine
    <2>2. line.parents = <<Head(line.parents)>> /\ line.parents # <<>>
        BY <2>1, LineInWork
    <2> QED BY <1>3, <2>1, <2>2 DEF CallShape, left, right, res
<1>10. CASE ReadResolution
    <2>1. /\ pc' = "chain" /\ Len(line.parents) >= 2 /\ UNCHANGED <<next, input>> /\ ReadingLine
          /\ chain'.left = Head(line.parents)
        BY <1>10 DEF ReadResolution, inputVars, CoreLine
    <2>2. line.parents # <<>>
        BY <2>1, LineInWork
    <2> QED BY <1>3, <2>1, <2>2 DEF CallShape
<1>11. CASE NextResolution
    <2> DEFINE parent == parents_right[chain.i + 1]
    <2>1. /\ pc = "chain" /\ pc' = "check" /\ UNCHANGED <<next, input, spare_id>>
          /\ call' = [left |-> chain.left, right |-> parent,
                      resolvent |-> IF LastOfChain THEN line.id ELSE spare_id + chain.spare]
          /\ chain' = IF LastOfChain THEN chain ELSE [chain EXCEPT !.spare = 1 - @]
        BY <1>11 DEF NextResolution, readVars, inputVars
    <2>2. line.parents # <<>> /\ parent # 0
        BY <2>1, ParentInChain DEF CallShape
    <2>3. UNCHANGED LastOfChain
        BY <1>3, <1>4, <2>1 DEF LastOfChain
    <2>4. chain.left = Head(line.parents) \/ chain.left = spare_id + (1 - chain.spare)
        BY <2>1 DEF CallShape
    <2>5. spare_id \in Nat \ {0}
        BY <2>1, CoreSpare DEF Before
    <2>6. left' = chain.left /\ right' = parent
          /\ res' = IF LastOfChain THEN line.id ELSE spare_id + chain.spare
        BY <2>1 DEF left, right, res
    <2>7. chain.left # Head(line.parents) => IsSpare(left)' /\ (LastOfChain \/ left' # res')
        BY <1>4, <2>1, <2>4, <2>5, <2>6 DEF IsSpare
    <2>8. ~LastOfChain => res' = spare_id + (1 - chain'.spare)
        BY <1>4, <2>1, <2>5, <2>6
    <2> QED BY <1>3, <2>1, <2>2, <2>3, <2>6, <2>7, <2>8 DEF CallShape
<1>12. CASE ReturnIntermediate
    <2>1. /\ pc = "return" /\ right # 0 /\ ~LastOfChain /\ pc' = "chain"
          /\ UNCHANGED <<next, input, spare_id>> /\ chain'.left = res /\ chain'.spare = chain.spare
        BY <1>4, <1>12 DEF ReturnIntermediate, returnUnchanged, inputVars
    <2>2. line.parents # <<>> /\ res = spare_id + (1 - chain.spare)
        BY <2>1 DEF CallShape, InLine
    <2> QED BY <1>3, <2>1, <2>2 DEF CallShape
<1>13. CASE ReturnReduction \/ ReturnSafetyReduction \/ ReturnFinal
    BY <1>13 DEF ReturnReduction, ReturnSafetyReduction, ReturnFinal, InLine
<1> QED
    BY <1>1, <1>2, <1>5, <1>6, <1>7, <1>8, <1>9, <1>10, <1>11, <1>12, <1>13, Course DEF ReadingLines

-----------------------------------------------------------------------------
(* The last uses *)

\* No constraint of the core behind u has the parent id.
BoundsUses(id, u) == \A c \in DOMAIN sinks_of : id \in Parents(c) => c <= u

\* 0 stands for no use, or for one that never comes.
IsLastUse(id, u) == u = 0 \/ (id \in Parents(u) /\ BoundsUses(id, u))

\* The last use of a reduct of nothing.
MovedUse(id, u) ==
    \E d \in LineIds(input.lines) : ParentsOf(input.lines, d) = <<id>> /\ d \in Parents(u)

LastUsesInv ==
    Translating =>
        /\ DOMAIN last_use_of \subseteq DOMAIN sinks_of \cup (IF TrueFormula THEN {spare_id} ELSE {})
        /\ \A id \in DOMAIN last_use_of :
               \/ IsLastUse(id, last_use_of[id])
               \/ id \in ReadIds /\ MovedUse(id, last_use_of[id])
        /\ pc \in InLine => line.id \in DOMAIN sinks_of

(* The lines before a line are still before it when another one is read. *)
LEMMA ReadIdsGrow ==
    ASSUME ControlInv, UNCHANGED input, next' = next \/ next' = next + 1
    PROVE  ReadIds \subseteq ReadIds'
<1>1. UNCHANGED proofLines /\ next \in Nat /\ DOMAIN proofLines \subseteq Nat
    <2>1. next \in 1..(Len(proofLines) + 1) /\ proofLines \in Seq(Line \cup {ResultLine})
        BY LinesAreLines DEF ControlInv
    <2> QED BY <2>1, LinesStay
<1>2. \A j \in DOMAIN proofLines : j < next => j < next'
    BY <1>1
<1> QED BY <1>1, <1>2 DEF ReadIds

(* The line in work is not before itself, and its parents are. *)
LEMMA ReadBefore ==
    ASSUME ControlInv, pc \in InLine \/ ReadingLine
    PROVE  line.id \notin ReadIds /\ Range(line.parents) \subseteq ReadIds
<1>1. input \in Inputs /\ next \in DOMAIN proofLines
    BY LineInWork DEF ControlInv
<1>2. line.id \notin ReadIds
    BY <1>1, IdsDiffer DEF line, ReadIds
<1>3. ASSUME NEW p \in Range(line.parents) PROVE p \in ReadIds
    <2>1. PICK k \in DOMAIN proofLines : k < next /\ proofLines[k].id = p
        BY <1>1, <1>3, LineType DEF line
    <2> QED BY <2>1 DEF ReadIds
<1> QED BY <1>2, <1>3

(* A line with an entry in last_use_of is in the core. *)
LEMMA ReadLineInCore ==
    ASSUME ControlInv, SinksInv, SpareInv, LastUsesInv, Translating, ReadingLine,
           line.id \in DOMAIN last_use_of
    PROVE  line.id \in DOMAIN sinks_of
<1>1. line.id \in LineIds(input.lines) \cup {0}
    BY LineInWork, LineType DEF ControlInv, line
<1>2. TrueFormula => line.id # spare_id
    BY <1>1, CoreSpare DEF Translating, SpareIdIsFree
<1> QED BY <1>2 DEF LastUsesInv

(* A use of a spare id never comes. *)
LEMMA SpareUnused ==
    ASSUME input \in Inputs, SpareIdIsFree, TrueFormula
    PROVE  \A c : spare_id \notin Parents(c)
BY ParentsType DEF SpareIdIsFree

(* Entries are made or changed by a reduction of nothing only, or set to 0. *)
LEMMA LastUsesNext ==
    /\ ControlInv /\ SearchInv /\ SinksInv /\ SpareInv /\ CallShape /\ LastUsesInv
    /\ [Next]_vars
    => LastUsesInv'
<1> SUFFICES ASSUME ControlInv, SearchInv, SinksInv, SpareInv, CallShape, LastUsesInv,
                    [Next]_vars, Translating'
             PROVE  LastUsesInv'
    BY DEF LastUsesInv
<1>1. pc' \notin Before \cup {"end"} /\ SpareIdIsFree'
    BY DEF Translating
<1>2. input \in Inputs
    BY DEF ControlInv
<1>3. CASE OpenProof
    <2>1. /\ SearchDone /\ pc' = "line" /\ UNCHANGED <<input, sinks_of, last_use_of>>
        BY <1>3 DEF OpenProof, searchUnchanged, searchVars
    <2>2. DOMAIN last_use_of = DOMAIN sinks_of
        BY <2>1, SearchResult
    <2>3. Explored = DOMAIN sinks_of
          /\ \A id \in DOMAIN last_use_of : IsGreatest(last_use_of[id], UsersIn(Explored, id))
        BY <2>1 DEF SearchDone, SearchInv, LastUseInv, SinksOfInv
    <2>4. ASSUME NEW id \in DOMAIN last_use_of PROVE IsLastUse(id, last_use_of[id])
        BY <2>3 DEF IsGreatest, UsersIn, IsLastUse, BoundsUses
    <2>5. \A id, u : IsLastUse(id, u)' <=> IsLastUse(id, u)
        BY <2>1, GraphStays DEF IsLastUse, BoundsUses
    <2> QED BY <2>1, <2>2, <2>4, <2>5 DEF LastUsesInv, InLine
<1>4. CASE pc \notin Before \cup {"end"}
    <2>1. /\ UNCHANGED <<input, sinks_of, spare_id, TrueFormula, proofLines>> /\ Translating
          /\ \A id : Parents(id)' = Parents(id)
        BY <1>1, <1>4, PremisesStay DEF Translating, inputVars
    <2>15. \A id, u : BoundsUses(id, u)' <=> BoundsUses(id, u)
        BY <2>1 DEF BoundsUses
    <2>16. \A id, u : IsLastUse(id, u)' <=> IsLastUse(id, u)
        BY <2>1, <2>15 DEF IsLastUse
    <2>2. ASSUME NEW id, NEW u PROVE MovedUse(id, u)' <=> MovedUse(id, u)
        BY <2>1 DEF MovedUse
    <2>3. /\ DOMAIN last_use_of \subseteq DOMAIN sinks_of \cup (IF TrueFormula THEN {spare_id} ELSE {})
          /\ \A id \in DOMAIN last_use_of :
                 \/ IsLastUse(id, last_use_of[id])
                 \/ id \in ReadIds /\ MovedUse(id, last_use_of[id])
          /\ pc \in InLine => line.id \in DOMAIN sinks_of
        BY <2>1 DEF LastUsesInv
    \* The entries, the line and what has been read.
    <2>4. ASSUME DOMAIN last_use_of' \subseteq
                     DOMAIN sinks_of \cup (IF TrueFormula THEN {spare_id} ELSE {}),
                 \A id \in DOMAIN last_use_of' :
                     \/ IsLastUse(id, last_use_of'[id])
                     \/ id \in ReadIds /\ MovedUse(id, last_use_of'[id]),
                 next' = next \/ next' = next + 1,
                 pc' \in InLine => next' = next /\ line.id \in DOMAIN sinks_of
          PROVE  LastUsesInv'
        <3>1. ReadIds \subseteq ReadIds'
            BY <2>1, <2>4, ReadIdsGrow
        <3>2. pc' \in InLine => line' = line
            BY <2>1, <2>4 DEF line
        <3>3. DOMAIN last_use_of' \subseteq
                  DOMAIN sinks_of' \cup (IF TrueFormula' THEN {spare_id'} ELSE {})
            BY <2>1, <2>4
        <3>4. ASSUME NEW id \in DOMAIN last_use_of'
              PROVE  \/ IsLastUse(id, last_use_of[id])'
                     \/ id \in ReadIds' /\ MovedUse(id, last_use_of[id])'
            <4>1. PICK u : u = last_use_of'[id]
                OBVIOUS
            <4>2. IsLastUse(id, u) \/ (id \in ReadIds /\ MovedUse(id, u))
                BY <2>4, <4>1
            <4>3. IsLastUse(id, u)' \/ (id \in ReadIds' /\ MovedUse(id, u)')
                <5>1. IsLastUse(id, u)' <=> IsLastUse(id, u)
                    BY <2>16
                <5>2. MovedUse(id, u)' <=> MovedUse(id, u)
                    BY <2>2
                <5> QED BY <3>1, <4>2, <5>1, <5>2
            <4> QED BY <4>1, <4>3 DEF IsLastUse, BoundsUses, MovedUse
        <3> QED BY <2>1, <2>4, <3>2, <3>3, <3>4 DEF LastUsesInv
    <2>5. CASE UNCHANGED vars
        BY <2>3, <2>4, <2>5 DEF vars, readVars
    <2>6. CASE RecordInternalAxiom
        <3>1. line.id \in DOMAIN last_use_of /\ last_use_of' = Put(last_use_of, line.id, 0)
              /\ next' = next + 1 /\ pc' = "line"
            BY <2>6 DEF RecordInternalAxiom, CoreLine, ReadingLine
        <3> QED BY <2>3, <2>4, <3>1 DEF Put, IsLastUse, InLine
    <2>7. CASE SkipLine \/ RecordInputClause
        BY <2>3, <2>4, <2>7 DEF SkipLine, RecordInputClause, CoreLine, ReadingLine, InLine
    <2>8. CASE RecordInitialTerm \/ ReadReduction \/ ReadResolution
        <3>1. UNCHANGED <<next, last_use_of>> /\ CoreLine
            BY <2>8 DEF RecordInitialTerm, ReadReduction, ReadResolution
        <3>2. line.id \in DOMAIN sinks_of
            BY <2>1, <3>1, ReadLineInCore DEF CoreLine
        <3> QED BY <2>3, <2>4, <3>1, <3>2
    <2>9. CASE NextResolution
        BY <2>3, <2>4, <2>9 DEF NextResolution, readVars, InLine
    <2>10. CASE (Checking \/ MergingPhases \/ Reducing \/ NotReducing) /\ ~Reroute
        <3>1. UNCHANGED last_use_of
            BY <1>4, <2>10, LineNext, StepFrame
               DEF LineStep, TakesLine, ReadingLine, ReturnFinal, InLine
        <3>2. UNCHANGED next /\ pc \in InLine
            BY <2>10, StepFrame
        <3> QED BY <2>3, <2>4, <3>1, <3>2
    <2>11. CASE Reroute
        <3> DEFINE u == Get(last_use_of, res)
        <3>1. /\ last_use_of' = Put(Put(last_use_of, res, u), left, u) /\ UNCHANGED next
              /\ pc \in InLine \ {"chain"} /\ right = 0
            BY <2>11 DEF Reroute, InLine
        <3>2. line.id \in DOMAIN sinks_of /\ Parents(line.id) \subseteq DOMAIN sinks_of
            BY <1>4, <2>3, <3>1, CoreSpare
        <3>3. CASE line.parents = <<>>
            <4>1. TrueFormula /\ left = line.id /\ res = spare_id
                BY <3>1, <3>3 DEF CallShape
            <4>2. \A c : spare_id \notin Parents(c)
                BY <1>2, <2>1, <4>1, SpareUnused DEF Translating
            <4>3. ASSUME NEW v PROVE ~MovedUse(spare_id, v) /\ (IsLastUse(spare_id, v) => v = 0)
                <5>1. ~MovedUse(spare_id, v)
                    <6> SUFFICES ASSUME NEW d, ParentsOf(input.lines, d) = <<spare_id>> PROVE FALSE
                        BY DEF MovedUse
                    <6>1. spare_id \in Parents(d)
                        BY DEF Parents, Range
                    <6> QED BY <4>2, <6>1
                <5> QED BY <4>2, <5>1 DEF IsLastUse
            <4>4. u = 0
                BY <2>3, <4>1, <4>3 DEF Get
            <4> HIDE DEF u
            <4> QED BY <2>3, <2>4, <3>1, <3>2, <4>1, <4>4 DEF Put, IsLastUse
        <3>4. CASE line.parents # <<>>
            <4>1. line.parents = <<left>> /\ res = line.id
                BY <3>1, <3>4 DEF CallShape
            <4>2. left \in Range(line.parents)
                BY <4>1 DEF Range
            <4>3. /\ res \notin ReadIds /\ left \in ReadIds /\ left \in Parents(res)
                  /\ ParentsOf(input.lines, res) = <<left>>
                BY <1>2, <3>1, <4>1, <4>2, ReadBefore, LineInWork, LineType DEF line
            <4>4. res \in LineIds(input.lines)
                BY <1>2, <4>3, ParentsType
            <4>5. IsLastUse(res, u)
                BY <2>3, <4>3 DEF Get, IsLastUse
            <4>6. IsLastUse(left, u) \/ MovedUse(left, u)
                BY <4>3, <4>4, <4>5 DEF IsLastUse, MovedUse
            <4>7. left \in DOMAIN sinks_of /\ res \in DOMAIN sinks_of
                BY <3>2, <4>1, <4>3
            <4> HIDE DEF u
            <4>8. DOMAIN last_use_of' = DOMAIN last_use_of \cup {res, left}
                  /\ \A id \in DOMAIN last_use_of' :
                         last_use_of'[id] = IF id \in {res, left} THEN u ELSE last_use_of[id]
                BY <3>1 DEF Put
            <4> QED BY <2>3, <2>4, <3>1, <3>2, <4>3, <4>5, <4>6, <4>7, <4>8
        <3> QED BY <3>3, <3>4
    <2>12. CASE ReturnFinal
        <3>1. PICK used : last_use_of' = Without(last_use_of, used)
            BY <2>12 DEF ReturnFinal
        <3>2. next' = next + 1 /\ pc' = "line"
            BY <2>12 DEF ReturnFinal
        <3> QED BY <2>3, <2>4, <3>1, <3>2 DEF Without, InLine
    <2>13. CASE ReturnReduction \/ ReturnSafetyReduction \/ ReturnIntermediate
        BY <2>3, <2>4, <2>13 DEF ReturnReduction, ReturnSafetyReduction, ReturnIntermediate, InLine
    <2>14. CASE EndOfProof \/ WriteGratProof
        BY <2>3, <2>4, <2>14 DEF EndOfProof, WriteGratProof, readVars, InLine
    <2> QED
        BY <1>1, <1>3, <2>5, <2>6, <2>7, <2>8, <2>9, <2>10, <2>11, <2>12, <2>13, <2>14, Course
           DEF ReadingLines
<1> QED BY <1>1, <1>3, <1>4, Course

-----------------------------------------------------------------------------
(* The phases *)

\* The ids with phases besides those of lines that have been read.
StepIds ==
    CASE pc = "chain" -> {chain.left}
      [] pc = "check" /\ line.parents # <<>> -> {left}
      [] pc \in InLine \ {"chain", "check"} /\ line.parents # <<>> -> {left, res}
      [] OTHER -> {}

\* Only these ids have phases, and merged_vars_in knows of all of them.
PhasesOf(ids) == \A k \in DOMAIN phase : k[1] \in ids /\ k[2] \in VarsIn(k[1])

PhaseInv ==
    /\ pc \in Before => phase = EmptyMap
    /\ Translating => PhasesOf((ReadIds \cap DOMAIN sinks_of) \cup StepIds)
    /\ pc \in {"merge", "eflit"} => right # 0

(* A line that is finished is one of those read. *)
LEMMA LineFinished ==
    ASSUME ControlInv, pc \in InLine \/ ReadingLine, UNCHANGED input, next' = next + 1
    PROVE  ReadIds' = ReadIds \cup {line.id}
<1>1. next \in DOMAIN proofLines /\ next \in Nat /\ DOMAIN proofLines \subseteq Nat
    BY LineInWork
<1>2. UNCHANGED proofLines
    BY LinesStay
<1>3. \A j \in DOMAIN proofLines : j < next' <=> j < next \/ j = next
    BY <1>1
<1> QED BY <1>1, <1>2, <1>3 DEF ReadIds, line

(* The clause that a step makes is not one of the lines read, and not its left parent. *)
LEMMA ResIsNew ==
    ASSUME ControlInv, SinksInv, SpareInv, CallShape, LastUsesInv, Translating,
           pc \in InLine \ {"chain"}
    PROVE  /\ line.id \notin ReadIds /\ line.id \in DOMAIN sinks_of
           /\ Range(line.parents) \subseteq ReadIds \cap DOMAIN sinks_of
           /\ res \notin ReadIds \cap DOMAIN sinks_of
           /\ left # res
           /\ line.parents # <<>> =>
                  /\ Head(line.parents) \in ReadIds \cap DOMAIN sinks_of
                  /\ right = 0 => left \in ReadIds \cap DOMAIN sinks_of /\ res = line.id
<1>1. pc \notin Before \cup {"end"} /\ pc \in InLine
    BY DEF InLine, Before
<1>2. line.id \in DOMAIN sinks_of /\ line.id \notin ReadIds /\ Range(line.parents) \subseteq ReadIds
    BY <1>1, ReadBefore DEF LastUsesInv
<1>3. Range(line.parents) \subseteq DOMAIN sinks_of
    BY <1>1, <1>2, CoreSpare, LineInWork
<1>4. ASSUME line.parents # <<>> PROVE Head(line.parents) \in Range(line.parents)
    <2>1. line.parents \in Seq(Nat \ {0})
        BY <1>1, LineInWork
    <2>2. 1 \in DOMAIN line.parents /\ Head(line.parents) = line.parents[1]
        BY <1>4, <2>1
    <2> QED BY <2>2 DEF Range
<1>5. \A id \in DOMAIN sinks_of : id \in Nat /\ id < spare_id /\ ~IsSpare(id)
    BY <1>1, CoreSpare DEF IsSpare
<1>6. spare_id \in Nat \ {0} /\ chain.spare \in {0, 1}
    BY <1>1, CoreSpare DEF ControlInv
<1>7. CASE right # 0
    <2>1. /\ line.parents # <<>>
          /\ left = Head(line.parents) \/ (IsSpare(left) /\ (LastOfChain \/ left # res))
          /\ res = IF LastOfChain THEN line.id ELSE spare_id + (1 - chain.spare)
        BY <1>7 DEF CallShape
    <2>2. LastOfChain \/ IsSpare(res)
        BY <1>6, <2>1 DEF IsSpare
    <2> QED BY <1>2, <1>3, <1>4, <1>5, <1>7, <2>1, <2>2
<1>8. CASE right = 0 /\ line.parents = <<>>
    <2>1. left = line.id /\ res = spare_id
        BY <1>8 DEF CallShape
    <2> QED BY <1>2, <1>3, <1>5, <1>8, <2>1 DEF IsSpare
<1>9. CASE right = 0 /\ line.parents # <<>>
    <2>1. line.parents = <<left>> /\ res = line.id
        BY <1>9 DEF CallShape
    <2>2. left = Head(line.parents)
        BY <2>1
    <2> QED BY <1>2, <1>3, <1>4, <1>9, <2>1, <2>2
<1> QED BY <1>7, <1>8, <1>9

(* What copy_phases adds. *)
LEMMA CopiedKeys ==
    ASSUME NEW ph, NEW clause, NEW src, NEW dest, NEW k \in DOMAIN CopyPhases(ph, clause, src, dest)
    PROVE  \/ k \in DOMAIN ph
           \/ /\ k[1] = dest /\ k[2] \in CopiedVars(ph, clause, src, dest)
              /\ \E j \in DOMAIN ph : j[1] = src
<1>1. CASE k \notin DOMAIN ph
    <2>1. PICK v \in CopiedVars(ph, clause, src, dest) : k = <<dest, v>>
        BY <1>1 DEF CopyPhases
    <2>2. <<src, v>> \in DOMAIN ph
        BY <2>1 DEF CopiedVars
    <2> QED BY <2>1, <2>2
<1> QED BY <1>1

(* The phases of a spare id are forgotten before the id is used again: they are those
   of the left parent, which is forgotten when its only use is over. *)
LEMMA PhaseNext ==
    /\ ControlInv /\ SearchInv /\ SinksInv /\ SpareInv /\ CallShape /\ LastUsesInv /\ PhaseInv
    /\ [Next]_vars
    => PhaseInv'
<1> SUFFICES ASSUME ControlInv, SearchInv, SinksInv, SpareInv, CallShape, LastUsesInv, PhaseInv,
                    [Next]_vars
             PROVE  PhaseInv'
    OBVIOUS
<1>1. pc' \in Before => phase' = EmptyMap
    <2> SUFFICES ASSUME pc' \in Before PROVE phase' = EmptyMap
        OBVIOUS
    <2>1. pc \in Before
        BY LineNext DEF LineStep
    <2>2. UNCHANGED phase
        BY <2>1, Phases DEF FirstPass, VisitConstraint, NextSink, OpenProof, phaseMaps, phaseVars,
                            vars, Before
    <2> QED BY <2>1, <2>2 DEF PhaseInv
<1>2. pc' \in {"merge", "eflit"} => right' # 0
    <2> SUFFICES ASSUME pc' \in {"merge", "eflit"} PROVE right' # 0
        OBVIOUS
    <2>1. CASE UNCHANGED vars
        BY <2>1 DEF vars, PhaseInv, right
    <2>2. CASE Checking
        BY <2>2 DEF Checking, CheckResolutionStep, CheckReductionStep, stepUnchanged, right
    <2>3. CASE MergingPhases
        <3>1. pc \in {"merge", "eflit"} /\ UNCHANGED right
            BY <2>3, StepFrame DEF MergingPhases, SamePhase, CachedPhase, NewPhase, KnownEflit,
                                   NewEflit, Merging, CopyParentPhases, SplitAndShadow
        <3> QED BY <3>1 DEF PhaseInv
    <2>4. CASE Reducing \/ NotReducing
        BY <2>4 DEF Reducing, DefineG, AuxGate, ReduceSimple, GLemma, ReduceMerged, PushArrays,
                    NotReducing, EmitResolvent, Reroute, stepUnchanged
    <2>5. CASE OpenProof \/ ReadingLines
        BY <2>5 DEF OpenProof, ReadingLines, SkipLine, RecordInternalAxiom, RecordInputClause,
                    RecordInitialTerm, ReadReduction, ReadResolution, NextResolution, ReadingLine,
                    CoreLine
    <2>6. CASE ReturnReduction \/ ReturnSafetyReduction \/ ReturnIntermediate \/ ReturnFinal
               \/ EndOfProof \/ WriteGratProof
        BY <2>6 DEF ReturnReduction, ReturnSafetyReduction, ReturnIntermediate, ReturnFinal,
                    EndOfProof, WriteGratProof
    <2>7. pc' \notin Before \cup {"end"}
        BY DEF Before
    <2> QED BY <2>1, <2>2, <2>3, <2>4, <2>5, <2>6, <2>7, Course
<1> DEFINE known == (ReadIds \cap DOMAIN sinks_of) \cup StepIds
<1> SUFFICES ASSUME Translating' PROVE PhasesOf(known)'
    BY <1>1, <1>2 DEF PhaseInv
<1>3. pc' \notin Before \cup {"end"} /\ SpareIdIsFree'
    BY DEF Translating
<1>4. CASE OpenProof
    <2>1. UNCHANGED phase /\ phase = EmptyMap
        BY <1>4 DEF OpenProof, SearchDone, phaseMaps, PhaseInv, Before
    <2> QED BY <2>1 DEF EmptyMap, PhasesOf
<1>5. CASE pc \notin Before \cup {"end"}
    <2>1. UNCHANGED <<input, sinks_of, spare_id, proofLines>> /\ Translating
        BY <1>3, <1>5, PremisesStay DEF Translating, inputVars
    <2>2. PhasesOf(known)
        BY <2>1 DEF PhaseInv
    <2>3. next' = next \/ next' = next + 1 => ReadIds \subseteq ReadIds'
        BY <2>1, ReadIdsGrow
    \* The phases stay, and so do the ids that may have some.
    <2>4. ASSUME UNCHANGED phaseMaps, known \subseteq known'
          PROVE  PhasesOf(known)'
        <3>1. \A id : VarsIn(id)' = VarsIn(id)
            BY <2>4 DEF phaseMaps, VarsIn
        <3> QED BY <2>2, <2>4, <3>1 DEF PhasesOf, phaseMaps
    <2>5. pc \notin InLine => StepIds = {}
        BY DEF StepIds, InLine
    <2>6. CASE UNCHANGED vars
        <3>1. UNCHANGED <<next, pc, chain, call, phaseMaps, line>>
            BY <2>1, <2>6 DEF vars, readVars, phaseVars, line
        <3>2. UNCHANGED StepIds
            BY <3>1 DEF StepIds, left, res
        <3> QED BY <2>1, <2>3, <2>4, <3>1, <3>2
    <2>7. CASE SkipLine \/ RecordInternalAxiom \/ RecordInputClause \/ RecordInitialTerm
               \/ ReadReduction \/ ReadResolution
        <3>1. pc = "line" /\ UNCHANGED phaseMaps /\ (next' = next \/ next' = next + 1)
            BY <2>7 DEF SkipLine, RecordInternalAxiom, RecordInputClause, RecordInitialTerm,
                        ReadReduction, ReadResolution, CoreLine, ReadingLine, phaseVars, inputVars
        <3> QED BY <2>1, <2>3, <2>4, <2>5, <3>1 DEF InLine
    <2>8. CASE EndOfProof \/ WriteGratProof
        <3>1. pc \notin InLine /\ UNCHANGED <<next, phaseMaps>>
            BY <2>8 DEF EndOfProof, WriteGratProof, readVars, InLine
        <3> QED BY <2>1, <2>3, <2>4, <2>5, <3>1
    <2>9. CASE NextResolution
        <3>1. pc = "chain" /\ pc' = "check" /\ left' = chain.left /\ UNCHANGED <<next, phaseMaps>>
            BY <2>9 DEF NextResolution, left, readVars, phaseVars
        <3>2. line' = line /\ line.parents # <<>>
            BY <2>1, <3>1 DEF line, CallShape
        <3>3. StepIds = {chain.left} /\ StepIds' = {chain.left}
            BY <3>1, <3>2 DEF StepIds
        <3> QED BY <2>1, <2>3, <2>4, <3>1, <3>3
    <2>10. CASE Checking \/ MergingPhases \/ Reducing \/ NotReducing
        <3>1. /\ pc \in InLine \ {"chain"} /\ pc' \in InLine \ {"chain", "check"}
              /\ UNCHANGED <<next, line, left, right, res, ReadIds>>
            BY <2>10, StepFrame
        <3>2. /\ StepIds \subseteq StepIds'
              /\ line.parents # <<>> => StepIds' = {left, res}
            BY <3>1 DEF StepIds, InLine
        <3>3. known \subseteq known'
            BY <2>1, <3>1, <3>2
        <3>4. ASSUME UNCHANGED phaseMaps PROVE PhasesOf(known)'
            BY <2>4, <3>3, <3>4
        <3>5. CASE CheckResolutionStep
            <4>1. /\ UNCHANGED phase /\ merged_vars_in' = Put(merged_vars_in, res, {}) /\ right # 0
                  /\ pc = "check"
                BY <3>5 DEF CheckResolutionStep
            <4>2. \A k \in DOMAIN phase : k[1] # res
                <5>1. line.parents # <<>> /\ StepIds = {left}
                    BY <4>1 DEF CallShape, StepIds, InLine
                <5>2. res \notin known
                    BY <2>1, <3>1, <5>1, ResIsNew
                <5> QED BY <2>2, <5>2 DEF PhasesOf
            <4>3. \A k \in DOMAIN phase : VarsIn(k[1])' = VarsIn(k[1])
                BY <4>1, <4>2 DEF VarsIn, Put
            <4> QED BY <2>2, <3>3, <4>1, <4>3 DEF PhasesOf
        <3>6. CASE CheckReductionStep
            <4>1. /\ phase' = CopyPhases(phase, Clause(left), left, res)
                  /\ merged_vars_in' = Put(merged_vars_in, res,
                                           CopiedVars(phase, Clause(left), left, res))
                  /\ right = 0 /\ pc = "check"
                BY <3>6 DEF CheckReductionStep
            <4>2. StepIds = IF line.parents = <<>> THEN {} ELSE {left}
                BY <4>1 DEF StepIds, InLine
            <4>3. res \notin known /\ (line.parents = <<>> => left \notin known)
                BY <2>1, <3>1, <4>1, <4>2, ResIsNew DEF CallShape
            <4>4. ASSUME NEW k \in DOMAIN phase' PROVE k[1] \in known' /\ k[2] \in VarsIn(k[1])'
                <5>1. CASE k \in DOMAIN phase
                    <6>1. k[1] \in known /\ k[1] # res /\ k[2] \in VarsIn(k[1])
                        BY <2>2, <4>3, <5>1 DEF PhasesOf
                    <6>2. VarsIn(k[1])' = VarsIn(k[1])
                        BY <4>1, <6>1 DEF VarsIn, Put
                    <6> QED BY <3>3, <6>1, <6>2
                <5>2. CASE k \notin DOMAIN phase
                    <6>1. k[1] = res /\ k[2] \in CopiedVars(phase, Clause(left), left, res)
                          /\ \E j \in DOMAIN phase : j[1] = left
                        BY <4>1, <5>2, CopiedKeys
                    <6>2. left \in known
                        BY <2>2, <6>1 DEF PhasesOf
                    <6>3. res \in StepIds'
                        BY <3>2, <4>3, <6>2
                    <6>4. VarsIn(k[1])' = CopiedVars(phase, Clause(left), left, res)
                        BY <4>1, <6>1 DEF VarsIn, Put
                    <6> QED BY <3>3, <6>1, <6>3, <6>4
                <5> QED BY <5>1, <5>2
            <4> QED BY <4>4 DEF PhasesOf
        <3>7. CASE SamePhase \/ CachedPhase \/ NewPhase
            <4>1. PICK l, phi :
                      /\ phase' = Insert(phase, <<res, VarOf(l)>>, phi)
                      /\ merged_vars_in' = Put(merged_vars_in, res, VarsIn(res) \cup {VarOf(l)})
                BY <3>7 DEF SamePhase, CachedPhase, NewPhase, RecordPhase
            <4>2. res \in StepIds'
                <5>1. pc = "merge"
                    BY <3>7 DEF SamePhase, CachedPhase, NewPhase, Merging
                <5>2. right # 0
                    BY <5>1 DEF PhaseInv
                <5>3. line.parents # <<>>
                    BY <3>1, <5>2 DEF CallShape
                <5> QED BY <3>2, <5>3
            <4>3. \A id : VarsIn(id) \subseteq VarsIn(id)' /\ (id = res => VarOf(l) \in VarsIn(id)')
                BY <4>1 DEF VarsIn, Put
            <4>4. ASSUME NEW k \in DOMAIN phase'
                  PROVE  k \in DOMAIN phase \/ (k[1] = res /\ k[2] = VarOf(l))
                BY <4>1 DEF Insert, Put
            <4>5. ASSUME NEW k \in DOMAIN phase' PROVE k[1] \in known' /\ k[2] \in VarsIn(k[1])'
                <5>1. CASE k \in DOMAIN phase
                    BY <2>2, <3>3, <4>3, <5>1 DEF PhasesOf
                <5>2. CASE k[1] = res /\ k[2] = VarOf(l)
                    BY <4>2, <4>3, <5>2
                <5> QED BY <4>4, <5>1, <5>2
            <4> QED BY <4>5 DEF PhasesOf
        <3>8. CASE CopyParentPhases
            <4> DEFINE ph1 == CopyPhases(phase, Clause(left), left, res)
                       copied1 == CopiedVars(phase, Clause(left), left, res)
                       copied2 == CopiedVars(ph1, Clause(right), right, res)
            <4>1. /\ phase' = CopyPhases(ph1, Clause(right), right, res)
                  /\ merged_vars_in' = Put(merged_vars_in, res, VarsIn(res) \cup copied1 \cup copied2)
                  /\ pc = "merge"
                BY <3>8 DEF CopyParentPhases
            <4>2. res \in StepIds'
                <5>1. right # 0
                    BY <4>1 DEF PhaseInv
                <5>2. line.parents # <<>>
                    BY <3>1, <5>1 DEF CallShape
                <5> QED BY <3>2, <5>2
            <4>3. \A id : /\ VarsIn(id) \subseteq VarsIn(id)'
                          /\ id = res => copied1 \cup copied2 \subseteq VarsIn(id)'
                <5> HIDE DEF ph1, copied1, copied2
                <5> QED BY <4>1 DEF VarsIn, Put
            <4>4. ASSUME NEW k \in DOMAIN phase'
                  PROVE  k \in DOMAIN phase \/ (k[1] = res /\ k[2] \in copied1 \cup copied2)
                <5>1. k \in DOMAIN ph1 \/ (k[1] = res /\ k[2] \in copied2)
                    BY <4>1, CopiedKeys
                <5>2. k \in DOMAIN ph1 => k \in DOMAIN phase \/ (k[1] = res /\ k[2] \in copied1)
                    BY CopiedKeys
                <5> QED BY <5>1, <5>2
            <4> HIDE DEF ph1, copied1, copied2
            <4>5. ASSUME NEW k \in DOMAIN phase' PROVE k[1] \in known' /\ k[2] \in VarsIn(k[1])'
                <5>1. CASE k \in DOMAIN phase
                    BY <2>2, <3>3, <4>3, <5>1 DEF PhasesOf
                <5>2. CASE k[1] = res /\ k[2] \in copied1 \cup copied2
                    BY <4>2, <4>3, <5>2
                <5> QED BY <4>4, <5>1, <5>2
            <4> QED BY <4>5 DEF PhasesOf
        <3>9. CASE KnownEflit \/ NewEflit \/ SplitAndShadow \/ Reducing \/ NotReducing
            <4>1. UNCHANGED phaseMaps
                <5>1. CASE KnownEflit \/ NewEflit \/ SplitAndShadow
                    BY <5>1 DEF KnownEflit, NewEflit, SplitAndShadow
                <5>2. CASE Reducing
                    BY <5>2 DEF Reducing, DefineG, AuxGate, ReduceSimple, GLemma, ReduceMerged,
                                PushArrays
                <5>3. CASE NotReducing
                    BY <5>3 DEF NotReducing, EmitResolvent, Reroute
                <5> QED BY <3>9, <5>1, <5>2, <5>3
            <4> QED BY <3>4, <4>1
        <3> QED BY <2>10, <3>5, <3>6, <3>7, <3>8, <3>9 DEF Checking, MergingPhases
    <2>11. CASE ReturnReduction \/ ReturnSafetyReduction
        <3>1. /\ pc = "return" /\ right = 0 /\ next' = next + 1 /\ UNCHANGED phaseMaps
              /\ line.parents = <<>> \/ line.parents # <<>>
            BY <2>11 DEF ReturnReduction, ReturnSafetyReduction
        <3>2. ReadIds' = ReadIds \cup {line.id}
            BY <2>1, <3>1, LineFinished DEF InLine
        <3>3. StepIds \subseteq {left, res} /\ (line.parents = <<>> => StepIds = {})
            BY <3>1 DEF StepIds, InLine
        <3>4. StepIds \subseteq ReadIds' \cap DOMAIN sinks_of
            BY <2>1, <3>1, <3>2, <3>3, ResIsNew DEF InLine
        <3> QED BY <2>1, <2>4, <3>1, <3>2, <3>4
    <2>12. ASSUME NEW ids, ForgetPhases(ids), known \subseteq known' \cup ids
           PROVE  PhasesOf(known)'
        <3>1. \A k \in DOMAIN phase' : k \in DOMAIN phase /\ k[1] \notin ids
            BY <2>2, <2>12 DEF ForgetPhases, Without, PhasesOf
        <3>2. ASSUME NEW k \in DOMAIN phase' PROVE VarsIn(k[1])' = VarsIn(k[1])
            BY <2>12, <3>1 DEF ForgetPhases, Without, VarsIn
        <3> QED BY <2>2, <2>12, <3>1, <3>2 DEF PhasesOf
    <2>13. CASE ReturnIntermediate
        <3>1. /\ pc = "return" /\ pc' = "chain" /\ UNCHANGED next /\ ForgetPhases(Temporary)
              /\ right # 0 /\ chain'.left = res
            BY <2>13 DEF ReturnIntermediate, Forget, ControlInv
        <3>2. StepIds' = {res} /\ StepIds \subseteq {left, res}
            BY <3>1 DEF StepIds, InLine
        <3>3. left \in ReadIds \cap DOMAIN sinks_of \/ left \in Temporary
            BY <2>1, <3>1, ResIsNew DEF Temporary, CallShape, InLine
        <3>4. known \subseteq known' \cup Temporary
            BY <2>1, <2>3, <3>1, <3>2, <3>3
        <3> QED BY <2>12, <3>1, <3>4
    <2>14. CASE ReturnFinal
        <3>1. PICK used : ForgetPhases(Temporary \cup used)
            BY <2>14 DEF ReturnFinal, Forget
        <3>2. pc = "return" /\ right # 0 /\ LastOfChain /\ next' = next + 1
            BY <2>14 DEF ReturnFinal
        <3>3. StepIds \subseteq {left, res} /\ res = line.id
            BY <3>2 DEF StepIds, CallShape, InLine
        <3>4. ReadIds' = ReadIds \cup {line.id}
            BY <2>1, <3>2, LineFinished DEF InLine
        <3>5. /\ left \in ReadIds \cap DOMAIN sinks_of \/ left \in Temporary
              /\ line.id \in DOMAIN sinks_of
            BY <2>1, <3>2, ResIsNew DEF Temporary, CallShape, InLine
        <3>6. known \subseteq known' \cup (Temporary \cup used)
            BY <2>1, <3>3, <3>4, <3>5
        <3> QED BY <2>12, <3>1, <3>6
    <2> QED
        BY <1>3, <1>5, <2>6, <2>7, <2>8, <2>9, <2>10, <2>11, <2>13, <2>14, Course DEF ReadingLines, OpenProof, SearchDone, Before
<1> QED BY <1>3, <1>4, <1>5, Course

-----------------------------------------------------------------------------
(* What is kept *)

HasGratId(id) == id \in DOMAIN get_grat_id \/ EmptyShadow(id)

Kept(id) == id \in DOMAIN clause_database /\ (AxiomsFound => HasGratId(id))

\* A line from here on needs the clause.
IsNeeded(id) ==
    \E i \in DOMAIN proofLines :
        i >= next /\ proofLines[i].id \in DOMAIN sinks_of /\ id \in Range(proofLines[i].parents)

LinesKept == UsesAreSeparate => \A id \in ReadIds : IsNeeded(id) => Kept(id)

\* The line in work has its clause, and will have its GRAT id.
StepKept ==
    /\ pc \in InLine => line.id \in DOMAIN clause_database
    /\ pc \in {"gates", "merged"} => res \in DOMAIN get_grat_id
    /\ pc = "emit" /\ step.shadcls = <<>> => EmptyShadow(res)
    /\ pc = "return" => HasGratId(res)

KeptInv ==
    /\ last_orig_clause_seen \in Nat
    /\ Translating => LinesKept /\ StepKept

PhasesStay(id) ==
    \A v : /\ <<id, v>> \in DOMAIN phase' <=> <<id, v>> \in DOMAIN phase
           /\ <<id, v>> \in DOMAIN phase => phase'[<<id, v>>] = phase[<<id, v>>]

\* A step that forgets nothing of a clause.
Keeps(id) ==
    /\ Clause(id)' = Clause(id)
    /\ id \in DOMAIN clause_database <=> id \in DOMAIN clause_database'
    /\ id \in DOMAIN get_grat_id => id \in DOMAIN get_grat_id'
    /\ PhasesStay(id)

EflitsStay == \A e \in DOMAIN eflit : e \in DOMAIN eflit' /\ eflit'[e] = eflit[e]

(* Effective literals are made once. *)
LEMMA EflitsExtend == CountedInv /\ [Next]_vars => EflitsStay
<1> SUFFICES ASSUME CountedInv, [Next]_vars PROVE EflitsStay
    OBVIOUS
<1>1. NewPhase \/ NewEflit \/ UNCHANGED eflitMaps
    BY StageNext DEF StageStep, CountedInv
<1>2. CASE NewEflit
    <2>1. \E k, e : eflit' = Insert(eflit, k, e)
        BY <1>2 DEF NewEflit, MakeEflit
    <2> QED BY <2>1 DEF Insert, Put, EflitsStay
<1> QED BY <1>1, <1>2 DEF NewPhase, eflitMaps, EflitsStay

(* What is kept of a clause is enough for its GRAT id, or for its shadow clause to stay
   empty. *)
LEMMA GratIdStays ==
    ASSUME EflitsStay, NEW id, Keeps(id)
    PROVE  /\ EmptyShadow(id) => EmptyShadow(id)'
           /\ HasGratId(id) => HasGratId(id)'
<1>1. ASSUME NEW l PROVE GetPhase(id, l)' = GetPhase(id, l)
    BY DEF GetPhase, Keeps, PhasesStay
<1>2. ASSUME NEW l, NEW phi, GetEflit(l, phi) # l PROVE GetEflit(l, phi)' = GetEflit(l, phi)
    BY <1>2 DEF GetEflit, EflitIn, EflitsStay
<1>3. ASSUME EmptyShadow(id) PROVE EmptyShadow(id)'
    <2>1. ASSUME NEW l \in Clause(id)' PROVE l < 0 /\ (GetEflit(l, GetPhase(id, l)) # l)'
        <3>1. PICK phi : phi = GetPhase(id, l)
            OBVIOUS
        <3>2. l < 0 /\ GetEflit(l, phi) # l
            BY <1>3, <2>1, <3>1 DEF EmptyShadow, Keeps
        <3>3. GetEflit(l, phi)' # l
            BY <1>2, <3>2
        <3>4. phi = GetPhase(id, l)'
            BY <1>1, <3>1
        <3> QED BY <3>2, <3>3, <3>4 DEF GetEflit
    <2> QED BY <2>1 DEF EmptyShadow
<1> QED BY <1>3 DEF HasGratId, Keeps

(* The place of the axiom found last is a number, and an axiom that was not found is
   never found. *)
LEMMA AxiomsSeen ==
    ASSUME ControlInv, last_orig_clause_seen \in Nat, [Next]_vars
    PROVE  /\ last_orig_clause_seen' \in Nat
           /\ RecordInputClause \/ UNCHANGED last_orig_clause_seen
           /\ pc \notin Before /\ AxiomsFound' => AxiomsFound
<1>1. RecordInputClause \/ UNCHANGED last_orig_clause_seen
    <2>1. CASE UNCHANGED vars \/ Preparing
        BY <2>1 DEF Preparing, ReadOnAndOn, FirstPass, VisitConstraint, NextSink, OpenProof,
                    searchUnchanged, vars, databaseVars
    <2>2. CASE ReadingLines
        BY <2>2 DEF ReadingLines, SkipLine, RecordInternalAxiom, RecordInitialTerm, ReadReduction,
                    ReadResolution, NextResolution
    <2>3. CASE Checking \/ MergingPhases \/ Reducing \/ NotReducing
        BY <2>3, StepFrame
    <2>4. CASE Returning \/ Finishing
        BY <2>4 DEF Returning, ReturnReduction, ReturnSafetyReduction, ReturnIntermediate,
                    ReturnFinal, ReturnCrash, ReturnFailure, Finishing, EndOfProof, WriteGratProof,
                    CombineFiles, returnUnchanged, databaseVars
    <2>5. CASE Terminated
        BY <2>5 DEF Terminated, vars, databaseVars
    <2> QED BY <2>1, <2>2, <2>3, <2>4, <2>5 DEF Next, Translate
<1>2. CASE RecordInputClause
    <2> DEFINE n == Len(input.matrix)
    <2>1. n \in Nat /\ DOMAIN input.matrix = 1..n
        <3>1. input.matrix \in Seq(Seq(Int))
            BY InputAssumption DEF ControlInv
        <3> QED BY <3>1
    <2>2. PICK later \in SUBSET {i \in DOMAIN input.matrix : i > last_orig_clause_seen} :
              last_orig_clause_seen' = IF later = {} THEN Max({n, last_orig_clause_seen}) + 1
                                       ELSE Min(later)
        BY <1>2 DEF RecordInputClause
    <2>3. UNCHANGED input
        BY <1>2 DEF RecordInputClause, inputVars
    <2>4. CASE later = {}
        <3> DEFINE two == {n, last_orig_clause_seen}
        <3>1. \E m \in two : \A k \in two : m >= k
            BY <2>1
        <3>2. Max(two) \in two /\ \A k \in two : Max(two) >= k
            BY <3>1 DEF Max
        <3>3. last_orig_clause_seen' \in Nat /\ last_orig_clause_seen' > n
            BY <2>1, <2>2, <2>4, <3>2
        <3> QED BY <1>1, <2>1, <2>3, <3>3 DEF AxiomsFound
    <2>5. CASE later # {}
        <3>1. later \subseteq Nat /\ \E m \in later : \A k \in later : m <= k
            BY <2>1, <2>5, LeastNumber
        <3>2. Min(later) \in later
            BY <3>1 DEF Min
        <3>3. /\ last_orig_clause_seen' \in Nat /\ last_orig_clause_seen' <= n
              /\ last_orig_clause_seen' > last_orig_clause_seen
            BY <2>1, <2>2, <2>5, <3>2
        <3> QED BY <1>1, <2>1, <2>3, <3>3 DEF AxiomsFound
    <2> QED BY <2>4, <2>5
<1>3. CASE UNCHANGED last_orig_clause_seen
    <2>1. pc \notin Before => UNCHANGED input
        BY LineNext DEF LineStep, inputVars
    <2> QED BY <1>1, <1>3, <2>1 DEF AxiomsFound
<1> QED BY <1>1, <1>2, <1>3

SameBut(ph1, ph2, dest) ==
    \A id, v : id # dest =>
        /\ <<id, v>> \in DOMAIN ph1 <=> <<id, v>> \in DOMAIN ph2
        /\ <<id, v>> \in DOMAIN ph2 => ph1[<<id, v>>] = ph2[<<id, v>>]

(* copy_phases has phases for the copy only. *)
LEMMA CopyElsewhere ==
    \A ph, clause, src, dest : SameBut(CopyPhases(ph, clause, src, dest), ph, dest)
<1> SUFFICES ASSUME NEW ph, NEW clause, NEW src, NEW dest
             PROVE  SameBut(CopyPhases(ph, clause, src, dest), ph, dest)
    OBVIOUS
<1> DEFINE copy == CopyPhases(ph, clause, src, dest)
<1>1. ASSUME NEW id, id # dest, NEW v
      PROVE  /\ <<id, v>> \in DOMAIN copy <=> <<id, v>> \in DOMAIN ph
             /\ <<id, v>> \in DOMAIN ph => copy[<<id, v>>] = ph[<<id, v>>]
    <2>1. <<id, v>> \notin {<<dest, w>> : w \in CopiedVars(ph, clause, src, dest)}
        BY <1>1
    <2> QED BY <2>1 DEF CopyPhases
<1> HIDE DEF copy
<1>2. SameBut(copy, ph, dest)
    BY <1>1 DEF SameBut
<1> QED BY <1>2 DEF copy

(* A step writes to its resolvent only. *)
LEMMA StepKeeps ==
    ASSUME Checking \/ MergingPhases \/ Reducing \/ NotReducing
    PROVE  /\ DOMAIN get_grat_id \subseteq DOMAIN get_grat_id'
           /\ \A id : id # res => Keeps(id)
<1>1. DOMAIN get_grat_id \subseteq DOMAIN get_grat_id'
    <2>1. \/ UNCHANGED get_grat_id
          \/ \E g : get_grat_id' = Put(get_grat_id, res, g)
        <3>1. CASE Checking \/ MergingPhases
            BY <3>1 DEF Checking, CheckResolutionStep, CheckReductionStep, databaseVars,
                        MergingPhases, SamePhase, CachedPhase, NewPhase, KnownEflit, NewEflit,
                        CopyParentPhases, SplitAndShadow
        <3>2. CASE Reducing
            BY <3>2 DEF Reducing, DefineG, AuxGate, ReduceSimple, GLemma, ReduceMerged, PushArrays
        <3>3. CASE NotReducing
            BY <3>3 DEF NotReducing, EmitResolvent, Reroute
        <3> QED BY <3>1, <3>2, <3>3
    <2> QED BY <2>1 DEF Put
<1>2. ASSUME NEW id, id # res PROVE PhasesStay(id)
    <2>1. CASE UNCHANGED phase
        BY <2>1 DEF PhasesStay
    <2>2. CASE CheckReductionStep
        <3>1. SameBut(phase', phase, res)
            BY <2>2, CopyElsewhere DEF CheckReductionStep
        <3> QED BY <1>2, <3>1 DEF SameBut, PhasesStay
    <2>3. CASE SamePhase \/ CachedPhase \/ NewPhase
        <3>1. \E l, phi : phase' = Insert(phase, <<res, l>>, phi)
            BY <2>3 DEF SamePhase, CachedPhase, NewPhase, RecordPhase
        <3> QED BY <1>2, <3>1 DEF Insert, Put, PhasesStay
    <2>4. CASE CopyParentPhases
        <3>1. PICK ph1 : /\ ph1 = CopyPhases(phase, Clause(left), left, res)
                         /\ phase' = CopyPhases(ph1, Clause(right), right, res)
            BY <2>4 DEF CopyParentPhases
        <3>2. SameBut(ph1, phase, res) /\ SameBut(phase', ph1, res)
            BY <3>1, CopyElsewhere
        <3> QED BY <1>2, <3>2 DEF SameBut, PhasesStay
    <2>5. CASE CheckResolutionStep \/ KnownEflit \/ NewEflit \/ SplitAndShadow
        BY <2>1, <2>5 DEF CheckResolutionStep, KnownEflit, NewEflit, SplitAndShadow, phaseMaps
    <2>6. CASE Reducing
        BY <2>1, <2>6 DEF Reducing, DefineG, AuxGate, ReduceSimple, GLemma, ReduceMerged,
                          PushArrays, phaseMaps
    <2>7. CASE NotReducing
        BY <2>1, <2>7 DEF NotReducing, EmitResolvent, Reroute, phaseMaps
    <2> QED BY <2>2, <2>3, <2>4, <2>5, <2>6, <2>7 DEF Checking, MergingPhases
<1>3. UNCHANGED clause_database
    BY StepFrame
<1> QED BY <1>1, <1>2, <1>3 DEF Keeps, Clause

(* What is stored or erased for another id leaves a clause alone. *)
LEMMA OthersKeep ==
    ASSUME UNCHANGED phase, NEW id,
           \/ UNCHANGED clause_database
           \/ \E a, c : id # a /\ clause_database' = Put(clause_database, a, c)
           \/ \E a, b, c, d :
                  id # a /\ id # b /\ clause_database' = Put(Put(clause_database, a, c), b, d)
           \/ \E a, b, c :
                  id # a /\ id # b /\ clause_database' = Without(Put(clause_database, a, c), {b})
           \/ \E a : id # a /\ clause_database' = Without(clause_database, {a}),
           \/ UNCHANGED get_grat_id
           \/ \E a, g : get_grat_id' = Put(get_grat_id, a, g)
           \/ \E a, b, g : id # b /\ get_grat_id' = Without(Put(get_grat_id, a, g), {b})
    PROVE  Keeps(id)
<1>1. id \in DOMAIN clause_database' <=> id \in DOMAIN clause_database
    BY DEF Put, Without
<1>2. id \in DOMAIN clause_database => clause_database'[id] = clause_database[id]
    BY DEF Put, Without
<1>3. Clause(id)' = Clause(id)
    BY <1>1, <1>2 DEF Clause
<1>4. id \in DOMAIN get_grat_id => id \in DOMAIN get_grat_id'
    BY DEF Put, Without
<1> QED BY <1>1, <1>3, <1>4 DEF Keeps, PhasesStay

(* And so does what is forgotten. *)
LEMMA ForgetKeeps ==
    ASSUME NEW ids, Forget(ids), NEW id, id \notin ids
    PROVE  Keeps(id)
<1>1. PhasesStay(id)
    BY DEF Forget, ForgetPhases, Without, PhasesStay
<1>2. id \in DOMAIN clause_database' <=> id \in DOMAIN clause_database
    BY DEF Forget, Without
<1>3. id \in DOMAIN clause_database => clause_database'[id] = clause_database[id]
    BY DEF Forget, Without
<1>4. id \in DOMAIN get_grat_id => id \in DOMAIN get_grat_id'
    BY DEF Forget, Without
<1> QED BY <1>1, <1>2, <1>3, <1>4 DEF Keeps, Clause

(* An axiom that was found in the formula has a GRAT id. *)
LEMMA InputClauseFound ==
    ASSUME ControlInv, last_orig_clause_seen \in Nat, RecordInputClause, AxiomsFound'
    PROVE  \E g : get_grat_id' = Put(get_grat_id, line.id, g)
<1> DEFINE n == Len(input.matrix)
           two == {n, last_orig_clause_seen}
<1>1. n \in Nat
    <2>1. input.matrix \in Seq(Seq(Int))
        BY InputAssumption DEF ControlInv
    <2> QED BY <2>1
<1>2. \/ \E g : get_grat_id' = Put(get_grat_id, line.id, g)
      \/ last_orig_clause_seen' = Max(two) + 1
    BY DEF RecordInputClause
<1>3. input.have_formula /\ UNCHANGED input
    BY DEF RecordInputClause, inputVars
<1>4. \E m \in two : \A k \in two : m >= k
    BY <1>1
<1>5. Max(two) \in two /\ \A k \in two : Max(two) >= k
    BY <1>4 DEF Max
<1>6. ~(Max(two) + 1 <= n)
    <2> DEFINE m == Max(two)
    <2>1. m \in Nat /\ m >= n
        BY <1>1, <1>5
    <2> HIDE DEF m
    <2> QED BY <1>1, <2>1 DEF m
<1> HIDE DEF two
<1> QED BY <1>2, <1>3, <1>6 DEF AxiomsFound

(* Nothing that a later line of the core needs is forgotten: the last use that is known
   for a clause is the last one, if no reduct of nothing is used together with its
   premise. *)
LEMMA LinesKeptNext ==
    ASSUME CountedInv, SpareInv, CallShape, LastUsesInv, KeptInv, [Next]_vars, Translating'
    PROVE  LinesKept'
<1>1. pc' \notin Before \cup {"end"} /\ SpareIdIsFree'
    BY DEF Translating
<1>2. ControlInv /\ SearchInv /\ SinksInv /\ UseInv /\ CoresInv /\ ClauseInv /\ input \in Inputs
    BY DEF CountedInv, ReadInv, ControlInv
<1>3. CASE OpenProof
    <2>1. next = 1 /\ UNCHANGED <<input, next>>
        BY <1>2, <1>3 DEF OpenProof, SearchDone, searchUnchanged, CoresInv, Before
    <2>2. UNCHANGED proofLines /\ DOMAIN proofLines = 1..Len(proofLines) /\ Len(proofLines) \in Nat
        BY <1>2, <2>1, LinesAreLines, LinesStay
    <2>3. ReadIds' = {}
        BY <2>1, <2>2 DEF ReadIds
    <2> QED BY <2>3 DEF LinesKept
<1>4. CASE pc \notin Before \cup {"end"}
    <2>1. /\ UNCHANGED <<input, sinks_of, spare_id, proofLines, UsesAreSeparate>> /\ Translating
        BY <1>1, <1>2, <1>4, PremisesStay DEF Translating, inputVars
    <2>2. /\ LinesKept /\ StepKept /\ EflitsStay
          /\ AxiomsFound' => AxiomsFound
        BY <1>2, <1>4, <2>1, EflitsExtend, AxiomsSeen DEF KeptInv
    <2>3. \A id \in DOMAIN sinks_of : /\ id \in Nat /\ id < spare_id /\ ~IsSpare(id)
                                      /\ Parents(id) \subseteq DOMAIN sinks_of
        BY <1>2, <1>4, CoreSpare DEF IsSpare
    <2>4. next \in Nat /\ spare_id \in Nat /\ DOMAIN proofLines \subseteq Nat /\ chain.spare \in {0, 1}
        BY <1>2, <1>4, LinesAreLines, CoreSpare DEF ControlInv
    <2>5. ASSUME next' = next \/ (next' = next + 1 /\ (pc \in InLine \/ ReadingLine)
                                  /\ \A id \in DOMAIN sinks_of : id = line.id => Kept(id)'),
                 \A id \in ReadIds \cap DOMAIN sinks_of :
                     UsesAreSeparate /\ IsNeeded(id)' => Keeps(id)
          PROVE  LinesKept'
        <3> SUFFICES ASSUME UsesAreSeparate', NEW id \in ReadIds', IsNeeded(id)' PROVE Kept(id)'
            BY DEF LinesKept
        <3>1. PICK i \in DOMAIN proofLines :
                  /\ i >= next' /\ proofLines[i].id \in DOMAIN sinks_of
                  /\ id \in Range(proofLines[i].parents)
            BY <2>1 DEF IsNeeded
        <3>2. id \in DOMAIN sinks_of
            <4>1. id \in Parents(proofLines[i].id)
                BY <1>2, <3>1, LineType DEF Parents
            <4> QED BY <2>3, <3>1, <4>1
        <3>3. IsNeeded(id)
            BY <2>4, <2>5, <3>1 DEF IsNeeded
        <3>4. CASE id \in ReadIds
            <4>1. Kept(id) /\ Keeps(id)
                BY <2>1, <2>2, <2>5, <3>2, <3>3, <3>4 DEF LinesKept
            <4>2. HasGratId(id) => HasGratId(id)'
                BY <2>2, <4>1, GratIdStays
            <4> QED BY <2>2, <4>1, <4>2 DEF Kept, Keeps
        <3>5. CASE id \notin ReadIds
            <4>1. next' = next + 1 /\ (pc \in InLine \/ ReadingLine)
                BY <2>1, <2>5, <3>5 DEF ReadIds
            <4>2. id = line.id
                BY <1>2, <2>1, <3>5, <4>1, LineFinished
            <4> QED BY <2>4, <2>5, <3>2, <4>1, <4>2
        <3> QED BY <3>4, <3>5
    <2>6. CASE UNCHANGED vars
        <3>1. UNCHANGED <<next, phase, clause_database, get_grat_id>>
            BY <2>6 DEF vars, readVars, phaseVars, phaseMaps, databaseVars
        <3> QED BY <2>5, <3>1, OthersKeep
    <2>7. CASE ReadingLines /\ ~NextResolution
        <3>1. ReadingLine /\ pc = "line" /\ UNCHANGED phase
            BY <2>7 DEF ReadingLines, SkipLine, RecordInternalAxiom, RecordInputClause,
                        RecordInitialTerm, ReadReduction, ReadResolution, CoreLine, ReadingLine,
                        phaseVars, phaseMaps
        <3>2. line.id \notin ReadIds
            BY <1>2, <3>1, ReadBefore
        <3>3. CASE SkipLine
            <4>1. /\ line.id \notin DOMAIN last_use_of /\ next' = next + 1 /\ UNCHANGED get_grat_id
                  /\ clause_database' = Without(clause_database, {line.id})
                BY <3>3 DEF SkipLine
            <4>2. line.id \notin DOMAIN sinks_of
                <5>1. next > ReadCount /\ next \in DOMAIN proofLines
                    BY <1>2, <2>4, <3>1, LineInWork DEF ReadCount, InLine
                <5> QED BY <1>2, <1>4, <4>1, <5>1 DEF UseInv, line
            <4>3. \A id \in ReadIds : Keeps(id)
                BY <3>1, <3>2, <4>1, OthersKeep
            <4> QED BY <2>5, <3>1, <4>1, <4>2, <4>3
        <3>4. CASE RecordInternalAxiom \/ RecordInputClause
            <4>1. PICK c, g :
                      /\ clause_database' = Put(clause_database, line.id, c)
                      /\ get_grat_id' = Put(get_grat_id, line.id, g) \/ UNCHANGED get_grat_id
                BY <3>4 DEF RecordInternalAxiom, RecordInputClause, StoreLine
            <4>2. next' = next + 1
                BY <3>4 DEF RecordInternalAxiom, RecordInputClause
            <4>3. \A id \in ReadIds : Keeps(id)
                BY <3>1, <3>2, <4>1, OthersKeep
            <4>4. AxiomsFound' => \E h : get_grat_id' = Put(get_grat_id, line.id, h)
                <5>1. CASE RecordInternalAxiom
                    BY <5>1 DEF RecordInternalAxiom
                <5>2. CASE RecordInputClause
                    BY <1>2, <5>2, InputClauseFound DEF KeptInv
                <5> QED BY <3>4, <5>1, <5>2
            <4>5. ASSUME NEW id \in DOMAIN sinks_of, id = line.id PROVE Kept(id)'
                BY <4>1, <4>4, <4>5 DEF Kept, HasGratId, Put
            <4> QED BY <2>5, <3>1, <4>2, <4>3, <4>5
        <3>5. CASE RecordInitialTerm
            <4>1. PICK c, d, g :
                      /\ clause_database' = Put(Put(clause_database, line.id, c), spare_id, d)
                      /\ get_grat_id' = Put(get_grat_id, line.id, g) /\ UNCHANGED next
                BY <3>5 DEF RecordInitialTerm
            <4>2. \A id \in ReadIds \cap DOMAIN sinks_of : id # line.id /\ id # spare_id
                BY <2>3, <3>2 DEF IsSpare
            <4>3. \A id \in ReadIds \cap DOMAIN sinks_of : Keeps(id)
                BY <3>1, <4>1, <4>2, OthersKeep
            <4> QED BY <2>5, <4>1, <4>3
        <3>6. CASE ReadReduction \/ ReadResolution
            <4>1. PICK c : /\ clause_database' = Put(clause_database, line.id, c)
                           /\ UNCHANGED <<get_grat_id, next>>
                BY <3>6 DEF ReadReduction, ReadResolution, StoreLine
            <4>2. \A id \in ReadIds : Keeps(id)
                BY <3>1, <3>2, <4>1, OthersKeep
            <4> QED BY <2>5, <4>1, <4>2
        <3> QED BY <2>7, <3>3, <3>4, <3>5, <3>6 DEF ReadingLines
    <2>8. CASE NextResolution
        <3>1. PICK c : \/ UNCHANGED clause_database
                       \/ clause_database' = Put(clause_database, spare_id + chain.spare, c)
            BY <2>8 DEF NextResolution
        <3>2. UNCHANGED <<phase, get_grat_id, next>>
            BY <2>8 DEF NextResolution, phaseVars, phaseMaps, readVars
        <3>3. IsSpare(spare_id + chain.spare)
            BY <2>4 DEF IsSpare
        <3>4. ASSUME NEW id \in DOMAIN sinks_of PROVE Keeps(id)
            <4>1. id # spare_id + chain.spare
                BY <2>3, <3>3
            <4> QED BY <3>1, <3>2, <4>1, OthersKeep
        <3> QED BY <2>5, <3>2, <3>4
    <2>9. CASE Checking \/ MergingPhases \/ Reducing \/ NotReducing
        <3>1. pc \in InLine \ {"chain"} /\ UNCHANGED next
            BY <2>9, StepFrame
        <3>2. res \notin ReadIds \cap DOMAIN sinks_of
            BY <1>2, <2>1, <3>1, ResIsNew
        <3> QED BY <2>5, <2>9, <3>1, <3>2, StepKeeps
    <2>10. CASE ReturnReduction
        <3>1. /\ pc = "return" /\ right = 0 /\ line.parents # <<>> /\ next' = next + 1
              /\ UNCHANGED <<phase, clause_database, get_grat_id>>
            BY <2>10 DEF ReturnReduction, phaseMaps
        <3>2. res = line.id
            BY <1>2, <2>1, <3>1, ResIsNew DEF InLine
        <3>3. line.id \in DOMAIN clause_database /\ HasGratId(line.id)
            BY <2>2, <3>1, <3>2 DEF StepKept, InLine
        <3>4. \A id : Keeps(id)
            BY <3>1, OthersKeep
        <3>5. ASSUME NEW id \in DOMAIN sinks_of, id = line.id PROVE Kept(id)'
            <4>1. HasGratId(id)'
                BY <2>2, <3>3, <3>4, <3>5, GratIdStays
            <4> QED BY <3>1, <3>3, <3>5, <4>1 DEF Kept
        <3> QED BY <2>5, <3>1, <3>4, <3>5 DEF InLine
    <2>11. CASE ReturnSafetyReduction
        <3>1. /\ pc = "return" /\ right = 0 /\ line.parents = <<>> /\ next' = next + 1
              /\ UNCHANGED phase
              /\ clause_database' = Without(Put(clause_database, line.id, Clause(res)), {res})
              /\ get_grat_id' = Without(Put(get_grat_id, line.id, GratIdOf(res)), {res})
            BY <2>11 DEF ReturnSafetyReduction, phaseMaps
        <3>2. res = spare_id
            BY <3>1 DEF CallShape, InLine
        <3>3. line.id \notin ReadIds
            BY <1>2, <3>1, ReadBefore DEF InLine
        <3>4. \A id \in ReadIds \cap DOMAIN sinks_of : id # line.id /\ id # res
            BY <2>3, <3>2, <3>3 DEF IsSpare
        <3>5. \A id \in ReadIds \cap DOMAIN sinks_of : Keeps(id)
            BY <3>1, <3>4, OthersKeep
        <3>6. ASSUME NEW id \in DOMAIN sinks_of, id = line.id PROVE Kept(id)'
            <4>1. id # res
                BY <2>3, <3>2 DEF IsSpare
            <4> QED BY <3>1, <3>6, <4>1 DEF Kept, HasGratId, Put, Without
        <3> QED BY <2>5, <3>1, <3>5, <3>6 DEF InLine
    <2>12. ASSUME pc = "return", right # 0, NEW id \in DOMAIN sinks_of
           PROVE  id \notin Temporary
        <3>1. left = Head(line.parents) \/ IsSpare(left)
            BY <2>12 DEF CallShape, InLine
        <3> QED BY <2>3, <3>1 DEF Temporary
    <2>13. CASE ReturnIntermediate
        <3>1. pc = "return" /\ right # 0 /\ UNCHANGED next /\ Forget(Temporary)
            BY <2>13 DEF ReturnIntermediate
        <3>2. \A id \in DOMAIN sinks_of : Keeps(id)
            BY <2>12, <3>1, ForgetKeeps
        <3> QED BY <2>5, <3>1, <3>2
    <2>14. CASE ReturnFinal
        <3> DEFINE used == {p \in Range(line.parents) : last_use_of[p] = line.id}
        <3>1. /\ pc = "return" /\ right # 0 /\ LastOfChain /\ ~UnknownParent
              /\ Forget(Temporary \cup used) /\ next' = next + 1
            BY <2>14 DEF ReturnFinal
        <3>2. /\ line.id \notin ReadIds /\ line.id \in DOMAIN sinks_of /\ res = line.id
              /\ Range(line.parents) \subseteq ReadIds \cap DOMAIN sinks_of
            BY <1>2, <2>1, <3>1, ResIsNew DEF CallShape, InLine
        <3>3. ASSUME UsesAreSeparate, NEW id \in ReadIds \cap DOMAIN sinks_of, IsNeeded(id)'
              PROVE  id \notin used
            <4> SUFFICES ASSUME id \in Range(line.parents), last_use_of[id] = line.id PROVE FALSE
                OBVIOUS
            <4>1. id \in DOMAIN last_use_of
                BY <3>1 DEF UnknownParent, Range
            <4>2. PICK i \in DOMAIN proofLines :
                      /\ i >= next + 1 /\ proofLines[i].id \in DOMAIN sinks_of
                      /\ id \in Range(proofLines[i].parents)
                BY <2>1, <3>1, <3>3 DEF IsNeeded
            <4>3. next \in DOMAIN proofLines /\ next < i
                BY <1>2, <2>4, <3>1, <4>2, LineInWork DEF InLine
            <4>4. /\ id \in Parents(line.id) /\ id \in Parents(proofLines[i].id)
                  /\ line.id \in Nat /\ proofLines[i].id \in Nat
                BY <1>2, <2>3, <3>1, <3>2, <4>2, LineType, LineInWork DEF Parents, InLine
            <4>5. proofLines[i].id # 0 /\ line.id # 0
                BY <1>2, <4>4, ParentsType, LineIdsType
            <4>6. line.id < proofLines[i].id
                BY <1>2, <4>2, <4>3, <4>5, LineType DEF line
            <4>7. ~BoundsUses(id, line.id)
                BY <4>2, <4>4, <4>6 DEF BoundsUses
            <4>8. MovedUse(id, line.id)
                BY <2>1, <4>1, <4>5, <4>7 DEF LastUsesInv, IsLastUse
            <4>9. PICK d : ParentsOf(input.lines, d) = <<id>> /\ d \in Range(line.parents)
                BY <1>2, <3>1, <4>8, LineInWork DEF MovedUse, InLine
            <4>10. next \in DOMAIN input.lines /\ line = input.lines[next]
                <5>1. line # ResultLine
                    BY <4>5 DEF ResultLine
                <5> QED BY <1>2, <4>3, <5>1, LinesRead DEF line
            <4> QED BY <3>3, <4>9, <4>10 DEF UsesAreSeparate
        <3> HIDE DEF used
        <3>4. \A id \in ReadIds \cap DOMAIN sinks_of :
                  UsesAreSeparate /\ IsNeeded(id)' => Keeps(id)
            BY <2>12, <3>1, <3>3, ForgetKeeps
        <3>5. ASSUME NEW id \in DOMAIN sinks_of, id = line.id PROVE Kept(id)'
            <4>1. id \notin used
                BY <3>2, <3>5 DEF used
            <4>2. Keeps(id)
                BY <2>12, <3>1, <4>1, ForgetKeeps
            <4>3. id \in DOMAIN clause_database /\ HasGratId(id)
                BY <2>2, <3>1, <3>2, <3>5 DEF StepKept, InLine
            <4>4. HasGratId(id)'
                BY <2>2, <4>2, <4>3, GratIdStays
            <4> QED BY <4>2, <4>3, <4>4 DEF Kept, Keeps
        <3> QED BY <2>5, <3>1, <3>4, <3>5 DEF InLine
    <2>15. CASE EndOfProof \/ WriteGratProof
        <3>1. UNCHANGED <<next, phase, clause_database, get_grat_id>>
            BY <2>15 DEF EndOfProof, WriteGratProof, readVars, phaseMaps, databaseVars
        <3> QED BY <2>5, <3>1, OthersKeep
    <2> QED
        BY <1>1, <1>2, <2>6, <2>7, <2>8, <2>9, <2>10, <2>11, <2>13, <2>14, <2>15, <1>4, Course
           DEF OpenProof, SearchDone, Before
<1> QED BY <1>1, <1>3, <1>4, <1>2, Course

(* shadow() finds nothing only when every literal has been merged, and so has another
   effective literal. *)
LEMMA NoShadow ==
    ASSUME ClauseInv, Shadow = <<>>
    PROVE  EmptyShadow(res)
<1> DEFINE S == {l \in Clause(res) : EffectiveLit(l) = l \/ l > 0}
           kept == SortedClause(S)
<1>1. IsLiteralSet(Clause(res)) /\ IsLiteralSet(S)
    <2>1. IsLiteralSet(Clause(res))
        BY ClauseType
    <2> QED BY <2>1, LiteralSubset
<1>2. kept \in Seq(S) /\ {kept[i] : i \in DOMAIN kept} = S
    <2>1. IsFiniteSet(S) /\ S \subseteq Int
        BY <1>1 DEF IsLiteralSet
    <2> HIDE DEF S
    <2> QED BY <2>1, SortedClauseType, SortedClauseRange
<1>3. DOMAIN Shadow = DOMAIN kept
    <2> HIDE DEF kept
    <2> QED BY DEF Shadow, kept, S
<1>4. DOMAIN kept = {}
    BY <1>3
<1>5. S = {}
    <2> HIDE DEF kept, S
    <2> QED BY <1>2, <1>4
<1>6. ASSUME NEW l \in Clause(res) PROVE l < 0 /\ GetEflit(l, GetPhase(res, l)) # l
    <2>1. EffectiveLit(l) # l /\ ~(l > 0)
        BY <1>5
    <2>2. l \in Int /\ l # 0
        BY <1>1 DEF IsLiteralSet, VarOf
    <2> QED BY <2>1, <2>2 DEF EffectiveLit
<1> QED BY <1>6 DEF EmptyShadow

(* The line in work gets a GRAT id, or has no literal left that needs a clause. *)
LEMMA StepKeptNext ==
    ASSUME CountedInv, SpareInv, CallShape, LastUsesInv, KeptInv, [Next]_vars, Translating'
    PROVE  StepKept'
<1>1. CASE pc' \notin InLine
    BY <1>1 DEF StepKept, InLine
<1>2. CASE pc' \in InLine
    <2>1. /\ ControlInv /\ SinksInv /\ ClauseInv /\ input \in Inputs /\ EflitsStay
          /\ pc' \notin Before \cup {"end"}
        BY EflitsExtend DEF CountedInv, ReadInv, ControlInv, Translating
    <2>2. ~OpenProof /\ ~EndOfProof /\ ~WriteGratProof
        BY <1>2 DEF OpenProof, EndOfProof, WriteGratProof, InLine
    <2>3. pc \notin Before \cup {"end"}
        BY <2>1, <2>2, Course
    <2>4. StepKept /\ Translating
        BY <2>1, <2>3, PremisesStay DEF Translating, KeptInv
    <2>5. CASE UNCHANGED vars
        <3>1. UNCHANGED <<input, next, pc, call, step, phase, clause_database, get_grat_id>>
            BY <2>5 DEF vars, readVars, inputVars, phaseVars, phaseMaps, databaseVars
        <3>2. UNCHANGED <<line, res>>
            BY <3>1, LinesStay DEF line, res
        <3>3. \A id : Keeps(id)
            BY <3>1, OthersKeep
        <3>4. ASSUME NEW id
              PROVE  /\ EmptyShadow(id) => EmptyShadow(id)'
                     /\ HasGratId(id) => HasGratId(id)'
            BY <2>1, <3>3, GratIdStays
        <3> QED BY <2>4, <3>1, <3>2, <3>4 DEF StepKept, EmptyShadow, HasGratId
    <2>6. CASE ReadingLines /\ ~NextResolution
        <3>1. /\ line.id \in DOMAIN clause_database' /\ UNCHANGED <<input, next>>
              /\ pc' \in {"check", "chain"}
            BY <1>2, <2>6 DEF ReadingLines, SkipLine, RecordInternalAxiom, RecordInputClause,
                              RecordInitialTerm, ReadReduction, ReadResolution, CoreLine,
                              ReadingLine, StoreLine, Put, InLine, inputVars
        <3> QED BY <3>1, LinesStay DEF StepKept, line
    <2>7. CASE NextResolution
        <3>1. /\ pc = "chain" /\ pc' = "check" /\ UNCHANGED <<input, next>>
              /\ DOMAIN clause_database \subseteq DOMAIN clause_database'
            BY <2>7 DEF NextResolution, Put, readVars, inputVars
        <3>2. line.id \in DOMAIN clause_database
            BY <2>4, <3>1 DEF StepKept, InLine
        <3> QED BY <3>1, <3>2, LinesStay DEF StepKept, line
    <2>8. CASE ReturnIntermediate
        <3>1. /\ pc = "return" /\ pc' = "chain" /\ UNCHANGED <<input, next>> /\ right # 0
              /\ Forget(Temporary)
            BY <2>8 DEF ReturnIntermediate, returnUnchanged, inputVars
        <3>2. line.id \in DOMAIN clause_database /\ line.id \in DOMAIN sinks_of
            BY <2>1, <2>4, <3>1, ResIsNew DEF StepKept, InLine
        <3>3. left = Head(line.parents) \/ IsSpare(left)
            BY <3>1 DEF CallShape, InLine
        <3>4. ~IsSpare(line.id)
            BY <2>1, <2>3, <3>2, CoreSpare DEF IsSpare
        <3>5. line.id \notin Temporary
            BY <3>3, <3>4 DEF Temporary
        <3>6. PICK id : id = line.id /\ Keeps(id)
            BY <3>1, <3>5, ForgetKeeps
        <3> QED BY <3>1, <3>2, <3>6, LinesStay DEF StepKept, line, Keeps
    <2>9. CASE Checking \/ MergingPhases \/ Reducing \/ NotReducing
        <3>1. /\ pc \in InLine /\ UNCHANGED <<line, res, clause_database>>
              /\ DOMAIN get_grat_id \subseteq DOMAIN get_grat_id'
            BY <2>9, StepFrame, StepKeeps
        <3>2. line.id \in DOMAIN clause_database
            BY <2>4, <3>1 DEF StepKept
        <3>3. CASE pc' \notin {"gates", "merged", "emit", "return"}
            BY <3>1, <3>2, <3>3 DEF StepKept
        <3>4. CASE SplitAndShadow
            <4>1. /\ UNCHANGED <<phaseMaps, eflitMaps>> /\ pc' \in {"emit", "g"}
                  /\ step'.shadcls = Shadow
                <5>1. \E a, b, d, e : step' = [step EXCEPT !.simple = a, !.merged = b,
                          !.shadcls = Shadow, !.seq_left = d, !.seq_right = e]
                    BY <3>4 DEF SplitAndShadow
                <5>2. DOMAIN step = DOMAIN NewStep
                    BY DEF CountedInv, StepInv
                <5>3. "shadcls" \in DOMAIN step
                    BY <5>2 DEF NewStep
                <5> QED BY <3>4, <5>1, <5>3 DEF SplitAndShadow
            <4>2. step'.shadcls = <<>> => EmptyShadow(res)
                BY <2>1, <4>1, NoShadow
            <4>3. EmptyShadow(res)' <=> EmptyShadow(res)
                BY <3>1, <4>1 DEF EmptyShadow, Clause, GetPhase, GetEflit, EflitIn, phaseMaps,
                                  eflitMaps
            <4> QED BY <3>1, <3>2, <4>1, <4>2, <4>3 DEF StepKept
        <3>5. CASE DefineG
            <4>1. pc' = "gates" /\ res \in DOMAIN get_grat_id'
                BY <3>5 DEF DefineG, Put
            <4> QED BY <3>1, <3>2, <4>1 DEF StepKept
        <3>6. CASE AuxGate \/ ReduceSimple \/ GLemma \/ ReduceMerged \/ PushArrays
            <4>1. pc \in {"gates", "merged"} /\ pc' \in {"gates", "merged", "return"}
                BY <3>6 DEF AuxGate, ReduceSimple, GLemma, ReduceMerged, PushArrays
            <4>2. res \in DOMAIN get_grat_id'
                BY <2>4, <3>1, <4>1 DEF StepKept
            <4> QED BY <3>1, <3>2, <4>1, <4>2 DEF StepKept, HasGratId
        <3>7. CASE EmitResolvent \/ Reroute
            <4>1. /\ pc = "emit" /\ pc' = "return" /\ UNCHANGED <<phaseMaps, eflitMaps>>
                  /\ step.shadcls = <<>> \/ res \in DOMAIN get_grat_id'
                BY <3>7 DEF EmitResolvent, Reroute, Put
            <4>2. EmptyShadow(res)' <=> EmptyShadow(res)
                BY <3>1, <4>1 DEF EmptyShadow, Clause, GetPhase, GetEflit, EflitIn, phaseMaps,
                                  eflitMaps
            <4>3. EmptyShadow(res)' \/ res \in DOMAIN get_grat_id'
                BY <2>4, <4>1, <4>2 DEF StepKept
            <4> QED BY <3>1, <3>2, <4>1, <4>3 DEF StepKept, HasGratId
        <3>8. \/ pc' \notin {"gates", "merged", "emit", "return"}
              \/ SplitAndShadow \/ Reducing \/ NotReducing
            BY <2>9 DEF Checking, CheckResolutionStep, CheckReductionStep, MergingPhases, SamePhase,
                        CachedPhase, NewPhase, RecordPhase, KnownEflit, NewEflit, CopyParentPhases
        <3> QED BY <3>3, <3>4, <3>5, <3>6, <3>7, <3>8 DEF Reducing, NotReducing
    <2>10. CASE ReturnReduction \/ ReturnSafetyReduction \/ ReturnFinal
        BY <1>2, <2>10 DEF ReturnReduction, ReturnSafetyReduction, ReturnFinal, InLine
    <2> QED BY <2>1, <2>2, <2>5, <2>6, <2>7, <2>8, <2>9, <2>10, Course
<1> QED BY <1>1, <1>2

-----------------------------------------------------------------------------
\* What the second pass knows of ids, uses, phases and clauses.
ForgetInv ==
    CountedInv /\ SpareInv /\ CallShape /\ LastUsesInv /\ PhaseInv /\ KeptInv

(* Nothing is in work at the start. *)
LEMMA ForgetInit == Init => ForgetInv
<1> SUFFICES ASSUME Init PROVE ForgetInv
    OBVIOUS
<1>1. CountedInv
    BY CountedInit
<1> QED BY <1>1 DEF Init, PhaseInit, ForgetInv, SpareInv, CallShape, LastUsesInv, PhaseInv, KeptInv,
                    Translating, Before, InLine

(* A step of the program keeps it. *)
LEMMA ForgetNext == ForgetInv /\ [Next]_vars => ForgetInv'
<1> SUFFICES ASSUME ForgetInv, [Next]_vars PROVE ForgetInv'
    OBVIOUS
<1>1. CountedInv' /\ ControlInv /\ SearchInv /\ CallInv /\ SinksInv
    BY CountedNext DEF ForgetInv, CountedInv, ReadInv
<1>2. SpareInv' /\ CallShape' /\ LastUsesInv' /\ PhaseInv'
    BY <1>1, SpareNext, CallShapeNext, LastUsesNext, PhaseNext DEF ForgetInv
<1>3. KeptInv'
    <2>1. last_orig_clause_seen' \in Nat
        BY <1>1, AxiomsSeen DEF ForgetInv, KeptInv
    <2>2. Translating' => LinesKept' /\ StepKept'
        BY LinesKeptNext, StepKeptNext DEF ForgetInv
    <2> QED BY <2>1, <2>2 DEF KeptInv
<1> QED BY <1>1, <1>2, <1>3 DEF ForgetInv

(* When a step is about to begin, its resolvent has no phases left from an earlier use
   of its id, for every proof in which the spare ids are free. *)
THEOREM PhasesAreFresh == Spec => []NoStalePhase
<1>1. ForgetInv => NoStalePhase
    <2> SUFFICES ASSUME ForgetInv, pc = "check", SpareIdIsFree, NEW k \in DOMAIN phase
                 PROVE  k[1] # res
        BY DEF NoStalePhase, res
    <2>1. Translating /\ ControlInv /\ SinksInv
        BY DEF Translating, Before, ForgetInv, CountedInv, ReadInv
    <2>2. k[1] \in (ReadIds \cap DOMAIN sinks_of) \cup StepIds
        BY <2>1 DEF ForgetInv, PhaseInv, PhasesOf
    <2>3. StepIds \subseteq {left}
        BY DEF StepIds, InLine
    <2>4. res \notin ReadIds \cap DOMAIN sinks_of /\ left # res
        BY <2>1, ResIsNew DEF ForgetInv, InLine
    <2> QED BY <2>2, <2>3, <2>4
<1> QED BY <1>1, ForgetInit, ForgetNext, PTL DEF Spec

(* A parent of a core line still to come that has been read still has its clause and its
   GRAT id, for every proof in which all axioms were found, the spare ids are free, and no
   line uses a constraint together with the reduct of nothing made from it. *)
THEOREM ParentsAreKept == Spec => []KeptUntilLastUse
<1>1. ForgetInv => KeptUntilLastUse
    <2> SUFFICES ASSUME ForgetInv, Reading, AxiomsFound, SpareIdIsFree, UsesAreSeparate,
                        NEW i \in Ahead, proofLines[i].id \in DOMAIN last_use_of,
                        NEW p \in Range(proofLines[i].parents) \cap ReadIds
                 PROVE  /\ p \in DOMAIN clause_database
                        /\ p \in DOMAIN get_grat_id \/ EmptyShadow(p)
        BY DEF KeptUntilLastUse
    <2>1. Translating /\ ControlInv /\ SinksInv /\ SpareInv /\ input \in Inputs
        BY DEF Reading, Translating, Before, ForgetInv, CountedInv, ReadInv, ControlInv
    <2>2. i \in DOMAIN proofLines /\ i > next /\ next \in Nat /\ i \in Nat
        BY <2>1, LinesAreLines DEF Ahead, ControlInv
    <2>3. proofLines[i].id \in LineIds(input.lines) \cup {0}
        BY <2>1, <2>2, LineType
    <2>4. TrueFormula => proofLines[i].id # spare_id
        BY <2>1, <2>3, CoreSpare DEF Translating, SpareIdIsFree
    <2>5. proofLines[i].id \in DOMAIN sinks_of
        BY <2>1, <2>4 DEF ForgetInv, LastUsesInv
    <2>6. IsNeeded(p)
        BY <2>2, <2>5 DEF IsNeeded
    <2>7. Kept(p)
        BY <2>1, <2>6 DEF ForgetInv, KeptInv, LinesKept
    <2> QED BY <2>7 DEF Kept, HasGratId
<1> QED BY <1>1, ForgetInit, ForgetNext, PTL DEF Spec

-----------------------------------------------------------------------------
(* Lookups *)

(* The steps after which a line is in work. *)
LEMMA LineCourse ==
    ASSUME ForgetInv, [Next]_vars, Translating', pc' \in InLine
    PROVE  /\ Translating /\ pc \notin Before \cup {"end"}
           /\ UNCHANGED <<input, search, sinks_of, spare_id, proofLines, TrueFormula>>
           /\ \/ UNCHANGED vars
              \/ ReadingLine /\ UNCHANGED line
                 /\ (RecordInitialTerm \/ ReadReduction \/ ReadResolution)
              \/ pc = "chain" /\ UNCHANGED line /\ NextResolution
              \/ /\ pc \in InLine \ {"chain"} /\ pc' \in InLine \ {"chain", "check"}
                 /\ UNCHANGED line
                 /\ Checking \/ MergingPhases \/ Reducing \/ NotReducing
              \/ pc = "return" /\ pc' = "chain" /\ UNCHANGED line /\ ReturnIntermediate
<1>1. ControlInv /\ pc' \notin Before \cup {"end"}
    BY DEF ForgetInv, CountedInv, ReadInv, Translating
<1>2. ~OpenProof /\ ~EndOfProof /\ ~WriteGratProof
    BY DEF OpenProof, EndOfProof, WriteGratProof, InLine
<1>3. pc \notin Before \cup {"end"}
    BY <1>1, <1>2, Course
<1>4. Translating /\ UNCHANGED <<input, search, sinks_of, spare_id, proofLines, TrueFormula>>
    BY <1>1, <1>3, PremisesStay DEF Translating, inputVars
<1>5. ASSUME UNCHANGED next PROVE UNCHANGED line
    BY <1>4, <1>5 DEF line
<1>6. CASE ReadingLines
    <2>1. ~SkipLine /\ ~RecordInternalAxiom /\ ~RecordInputClause
        BY DEF SkipLine, RecordInternalAxiom, RecordInputClause, CoreLine, ReadingLine, InLine
    <2>2. CASE RecordInitialTerm \/ ReadReduction \/ ReadResolution
        <3>1. ReadingLine /\ UNCHANGED next
            BY <2>2 DEF RecordInitialTerm, ReadReduction, ReadResolution, CoreLine
        <3> QED BY <1>3, <1>4, <1>5, <2>2, <3>1
    <2>3. CASE NextResolution
        <3>1. pc = "chain" /\ UNCHANGED next
            BY <2>3 DEF NextResolution, readVars
        <3> QED BY <1>3, <1>4, <1>5, <2>3, <3>1
    <2> QED BY <1>6, <2>1, <2>2, <2>3 DEF ReadingLines
<1>7. CASE Checking \/ MergingPhases \/ Reducing \/ NotReducing
    <2>1. /\ pc \in InLine \ {"chain"} /\ pc' \in InLine \ {"chain", "check"} /\ UNCHANGED line
        BY <1>7, StepFrame
    <2> QED BY <1>3, <1>4, <1>7, <2>1
<1>8. CASE ReturnIntermediate
    <2>1. pc = "return" /\ pc' = "chain" /\ UNCHANGED next
        BY <1>8 DEF ReturnIntermediate
    <2> QED BY <1>3, <1>4, <1>5, <1>8, <2>1
<1>9. ~ReturnReduction /\ ~ReturnSafetyReduction /\ ~ReturnFinal
    BY DEF ReturnReduction, ReturnSafetyReduction, ReturnFinal, InLine
<1> QED BY <1>1, <1>2, <1>3, <1>4, <1>6, <1>7, <1>8, <1>9, Course

-----------------------------------------------------------------------------
(* Clauses and GRAT ids *)

WorkKept ==
    Translating /\ UsesAreSeparate /\ pc \in InLine => \A p \in Range(line.parents) : Kept(p)

(* The parents of the line in work are kept. *)
LEMMA WorkParents == ForgetInv => WorkKept
<1> SUFFICES ASSUME ForgetInv, Translating, UsesAreSeparate, pc \in InLine,
                    NEW p \in Range(line.parents)
             PROVE  Kept(p)
    BY DEF WorkKept
<1>1. ControlInv /\ LinesKept /\ line.id \in DOMAIN sinks_of
    BY DEF ForgetInv, CountedInv, ReadInv, KeptInv, LastUsesInv
<1>2. p \in ReadIds /\ next \in DOMAIN proofLines /\ next \in Nat
    BY <1>1, ReadBefore, LineInWork
<1>3. IsNeeded(p)
    BY <1>1, <1>2 DEF IsNeeded, line
<1> QED BY <1>1, <1>2, <1>3 DEF LinesKept

(* And so they are after a step. *)
LEMMA WorkParentsNext == ForgetInv' => WorkKept'
BY WorkParents, PTL

\* The clauses that a step is about, and the GRAT id of the left one.
CallKept ==
    Translating /\ UsesAreSeparate =>
        /\ pc = "chain" => Kept(chain.left)
        /\ pc \in InLine \ {"chain"} =>
               /\ Kept(left) /\ res \in DOMAIN clause_database
               /\ line.parents = <<>> => left \in DOMAIN get_grat_id

HasFirstParent ==
    (pc \in InLine \/ ReadingLine) /\ line.parents # <<>> => Head(line.parents) \in Range(line.parents)

(* The first parent of the line is the left parent of the first step. *)
LEMMA FirstParent == ControlInv => HasFirstParent
<1> SUFFICES ASSUME ControlInv, pc \in InLine \/ ReadingLine, line.parents # <<>>
             PROVE  Head(line.parents) \in Range(line.parents)
    BY DEF HasFirstParent
<1>1. line.parents \in Seq(Nat \ {0})
    BY LineInWork
<1>2. 1 \in DOMAIN line.parents /\ Head(line.parents) = line.parents[1]
    BY <1>1
<1> QED BY <1>2 DEF Range

(* And so it is after a step. *)
LEMMA FirstParentNext == ControlInv' => HasFirstParent'
BY FirstParent, PTL

(* A resolvent in the middle of a chain does not take the place of its left parent. *)
LEMMA ChainLeft ==
    ASSUME ForgetInv, Translating, pc = "chain"
    PROVE  line.parents # <<>> /\ chain.left # spare_id + chain.spare
<1>1. ControlInv /\ SinksInv /\ pc \in InLine /\ pc \notin Before \cup {"end"}
    BY DEF ForgetInv, CountedInv, ReadInv, InLine, Before
<1>2. /\ line.parents # <<>>
      /\ chain.left = Head(line.parents) \/ chain.left = spare_id + (1 - chain.spare)
    BY DEF ForgetInv, CallShape
<1>3. spare_id \in Nat \ {0} /\ chain.spare \in {0, 1}
    BY <1>1, CoreSpare DEF ForgetInv, ControlInv
<1>4. Range(line.parents) \subseteq DOMAIN sinks_of
    <2>1. line.id \in DOMAIN sinks_of /\ Range(line.parents) = Parents(line.id)
        BY <1>1, LineInWork DEF ForgetInv, LastUsesInv
    <2> QED BY <1>1, <2>1, CoreSpare DEF ForgetInv
<1>5. Head(line.parents) \in DOMAIN sinks_of
    BY <1>1, <1>2, <1>4, FirstParent DEF HasFirstParent
<1>6. Head(line.parents) \in Nat /\ Head(line.parents) < spare_id
    BY <1>1, <1>5, CoreSpare DEF ForgetInv
<1> QED BY <1>2, <1>3, <1>6

(* A resolvent in the middle of a chain is kept until the next step is over. *)
LEMMA CallKeptNext == ForgetInv /\ CallKept /\ [Next]_vars => CallKept'
<1> SUFFICES ASSUME ForgetInv, CallKept, [Next]_vars, Translating', UsesAreSeparate', pc' \in InLine
             PROVE  CallKept'
    BY DEF CallKept, InLine
<1>1. /\ Translating /\ pc \notin Before \cup {"end"} /\ ControlInv /\ SinksInv /\ EflitsStay
      /\ UNCHANGED <<input, sinks_of, spare_id, proofLines>>
      /\ last_orig_clause_seen \in Nat /\ ForgetInv'
    BY LineCourse, EflitsExtend, ForgetNext DEF ForgetInv, CountedInv, ReadInv, KeptInv
<1>2. UsesAreSeparate /\ (AxiomsFound' => AxiomsFound)
    BY <1>1, PremisesStay, AxiomsSeen DEF ForgetInv, CountedInv, ReadInv
<1>3. /\ \A p \in Range(line.parents)' : Kept(p)'
      /\ line'.parents # <<>> => Head(line'.parents) \in Range(line.parents)'
      /\ line.id' \in DOMAIN clause_database'
    <2>1. ControlInv' /\ CountedInv'
        BY <1>1 DEF ForgetInv, CountedInv, ReadInv
    <2>2. line.id' \in DOMAIN clause_database'
        BY <1>1 DEF ForgetInv, KeptInv, StepKept
    <2>3. ASSUME line'.parents # <<>> PROVE Head(line'.parents) \in Range(line.parents)'
        <3>1. HasFirstParent'
            BY <2>1, FirstParentNext
        <3> QED BY <2>3, <3>1 DEF HasFirstParent
    <2> QED BY <1>1, <2>2, <2>3, WorkParentsNext DEF WorkKept
<1>4. \A id : Keeps(id) /\ Kept(id) => Kept(id)'
    BY <1>1, <1>2, GratIdStays DEF Kept, Keeps
<1>5. CASE UNCHANGED vars
    <2>1. UNCHANGED <<input, next, pc, chain, call, phase, clause_database, get_grat_id>>
        BY <1>5 DEF vars, readVars, inputVars, phaseVars, phaseMaps, databaseVars
    <2>2. UNCHANGED <<line, left, right, res>>
        BY <2>1, LinesStay DEF line, left, right, res
    <2>3. \A id : Keeps(id)
        BY <2>1, OthersKeep
    <2> QED BY <1>1, <1>2, <1>4, <2>1, <2>2, <2>3 DEF CallKept
<1>6. CASE ReadReduction \/ ReadResolution
    <2>1. CASE ReadReduction
        <3>1. /\ pc' = "check" /\ left' = Head(line.parents) /\ res' = line.id /\ UNCHANGED line
              /\ line.parents # <<>>
            <4>1. pc' = "check" /\ Len(line.parents) = 1 /\ ReadingLine /\ UNCHANGED <<input, next>>
                  /\ call' = [left |-> Head(line.parents), right |-> 0, resolvent |-> line.id]
                BY <2>1 DEF ReadReduction, inputVars, CoreLine
            <4>2. line.parents # <<>>
                BY <1>1, <4>1, LineInWork
            <4> QED BY <4>1, <4>2, LinesStay DEF left, res, line
        <3> QED BY <1>3, <3>1 DEF CallKept
    <2>2. CASE ReadResolution
        <3>1. /\ pc' = "chain" /\ chain'.left = Head(line.parents) /\ UNCHANGED line
              /\ line.parents # <<>>
            <4>1. pc' = "chain" /\ Len(line.parents) >= 2 /\ ReadingLine /\ UNCHANGED <<input, next>>
                  /\ chain'.left = Head(line.parents)
                BY <2>2 DEF ReadResolution, inputVars, CoreLine
            <4>2. line.parents # <<>>
                BY <1>1, <4>1, LineInWork
            <4> QED BY <4>1, <4>2, LinesStay DEF line
        <3> QED BY <1>3, <3>1 DEF CallKept
    <2> QED BY <1>6, <2>1, <2>2
<1>7. CASE RecordInitialTerm
    <2>1. PICK c, d, g :
              /\ clause_database' = Put(Put(clause_database, line.id, c), spare_id, d)
              /\ get_grat_id' = Put(get_grat_id, line.id, g)
        BY <1>7 DEF RecordInitialTerm
    <2>2. pc' = "check" /\ left' = line.id /\ res' = spare_id
        BY <1>7 DEF RecordInitialTerm, left, res
    <2> QED BY <2>1, <2>2 DEF CallKept, Kept, HasGratId, Put
<1>8. CASE NextResolution
    <2> DEFINE spare == spare_id + chain.spare
    <2>1. /\ pc = "chain" /\ pc' = "check" /\ left' = chain.left /\ UNCHANGED line
          /\ res' = IF LastOfChain THEN line.id ELSE spare
          /\ UNCHANGED <<phase, get_grat_id>>
          /\ IF LastOfChain THEN UNCHANGED clause_database
             ELSE \E c : clause_database' = Put(clause_database, spare, c)
        BY <1>8, LinesStay DEF NextResolution, left, res, line, phaseVars, phaseMaps, readVars, inputVars
    <2>2. line.parents # <<>> /\ chain.left # spare
        BY <1>1, <2>1, ChainLeft
    <2>3. Kept(chain.left)
        BY <1>1, <1>2, <2>1 DEF CallKept
    <2>4. PICK kept : kept = chain.left /\ Keeps(kept)
        BY <2>1, <2>2, OthersKeep
    <2>5. res' \in DOMAIN clause_database'
        BY <1>3, <2>1 DEF Put
    <2>6. PICK id : id = chain.left /\ Kept(id)'
        BY <1>4, <2>3, <2>4
    <2>7. Kept(left)'
        BY <2>1, <2>6
    <2> QED BY <2>1, <2>2, <2>5, <2>7 DEF CallKept
<1>9. CASE Checking \/ MergingPhases \/ Reducing \/ NotReducing
    <2>1. /\ pc \in InLine \ {"chain"} /\ UNCHANGED <<line, left, res, clause_database>>
          /\ DOMAIN get_grat_id \subseteq DOMAIN get_grat_id' /\ pc' \in InLine \ {"chain", "check"}
        BY <1>9, StepFrame, StepKeeps
    <2>2. left # res
        BY <1>1, <2>1, ResIsNew DEF ForgetInv
    <2>3. PICK id : id = left /\ Keeps(id)
        BY <1>9, <2>2, StepKeeps
    <2>4. Kept(left) /\ res \in DOMAIN clause_database
          /\ (line.parents = <<>> => left \in DOMAIN get_grat_id)
        BY <1>1, <1>2, <2>1 DEF CallKept
    <2>5. Kept(id)'
        BY <1>4, <2>3, <2>4
    <2>6. Kept(left)'
        BY <2>1, <2>3, <2>5
    <2> QED BY <2>1, <2>4, <2>6 DEF CallKept
<1>10. CASE ReturnIntermediate
    <2>1. /\ pc = "return" /\ pc' = "chain" /\ right # 0 /\ Forget(Temporary) /\ chain'.left = res
        BY <1>1, <1>10 DEF ReturnIntermediate, ControlInv
    <2>2. res \in DOMAIN clause_database /\ HasGratId(res)
        BY <1>1, <1>2, <2>1 DEF CallKept, InLine, ForgetInv, KeptInv, StepKept
    <2>3. left # res
        BY <1>1, <2>1, ResIsNew DEF ForgetInv, InLine
    <2>4. PICK id : id = res /\ Keeps(id)
        BY <2>1, <2>3, ForgetKeeps DEF Temporary
    <2>5. Kept(id)'
        BY <1>4, <2>2, <2>4 DEF Kept
    <2>6. Kept(chain.left)'
        BY <2>1, <2>4, <2>5
    <2> QED BY <2>1, <2>6 DEF CallKept
<1> QED BY <1>5, <1>6, <1>7, <1>8, <1>9, <1>10, LineCourse

\* The right parent of a step is a parent of the line in work.
RightParent == Translating /\ pc \in InLine \ {"chain"} /\ right # 0 => right \in Range(line.parents)

(* The loop over the parents takes the parents behind the first one. *)
LEMMA RightParentNext == ForgetInv /\ RightParent /\ [Next]_vars => RightParent'
<1> SUFFICES ASSUME ForgetInv, RightParent, [Next]_vars, Translating', pc' \in InLine \ {"chain"},
                    right' # 0
             PROVE  right' \in Range(line.parents)'
    BY DEF RightParent
<1>1. ControlInv /\ CallInv /\ Translating
    BY LineCourse DEF ForgetInv, CountedInv, ReadInv
<1>2. CASE UNCHANGED vars
    <2>1. UNCHANGED <<right, line, pc>>
        BY <1>2, LinesStay DEF vars, readVars, inputVars, right, line
    <2> QED BY <1>1, <2>1 DEF RightParent
<1>3. CASE NextResolution
    <2>1. pc = "chain" /\ right' = parents_right[chain.i + 1] /\ UNCHANGED line
        BY <1>3, LinesStay DEF NextResolution, right, readVars, inputVars, line
    <2>2. line.parents # <<>>
        BY <2>1 DEF ForgetInv, CallShape
    <2>3. line.parents \in Seq(Nat \ {0}) /\ chain.i + 1 \in DOMAIN parents_right
        BY <1>1, <2>1, LineInWork DEF CallInv, InLine
    <2>4. \A n \in DOMAIN parents_right :
              n + 1 \in DOMAIN line.parents /\ parents_right[n] = line.parents[n + 1]
        BY <2>2, <2>3 DEF parents_right
    <2> QED BY <2>1, <2>3, <2>4 DEF Range
<1>4. CASE Checking \/ MergingPhases \/ Reducing \/ NotReducing
    <2>1. UNCHANGED <<right, line>> /\ pc \in InLine \ {"chain"}
        BY <1>4, StepFrame
    <2> QED BY <1>1, <2>1 DEF RightParent
<1>5. CASE RecordInitialTerm \/ ReadReduction
    BY <1>5 DEF RecordInitialTerm, ReadReduction, right
<1>6. CASE ReadResolution \/ ReturnIntermediate
    BY <1>6 DEF ReadResolution, ReturnIntermediate
<1> QED BY <1>2, <1>3, <1>4, <1>5, <1>6, LineCourse

-----------------------------------------------------------------------------
(* The literals of the clauses that are kept *)

(* resolve() makes no literals. *)
LEMMA ResolveSubset ==
    \A vd, c1, c2, ptype : Resolve(vd, c1, c2, ptype) \subseteq c1 \cup c2
<1> SUFFICES ASSUME NEW vd, NEW c1, NEW c2, NEW ptype
             PROVE  Resolve(vd, c1, c2, ptype) \subseteq c1 \cup c2
    OBVIOUS
<1>1. \A v : SurvivingPrimaries(c1, c2, v) \subseteq c1 \cup c2
    BY DEF SurvivingPrimaries, LitsOn
<1> QED BY <1>1 DEF Resolve, Primaries

(* Of a pair, resolve() keeps the positive literal when it keeps the negative one. *)
LEMMA ResolvePairs ==
    ASSUME NEW vd, NEW c1, NEW c2, NEW ptype, IsLiteralSet(c1), IsLiteralSet(c2),
           NEW v \in c1 \cup c2, v > 0, -v \in Resolve(vd, c1, c2, ptype)
    PROVE  v \in Resolve(vd, c1, c2, ptype)
<1> DEFINE both == c1 \cup c2
           prim == Primaries(vd, both, ptype)
           kept == UNION {SurvivingPrimaries(c1, c2, w) : w \in VarsOf(prim)}
           a == LitsOn(c1, v)
           b == LitsOn(c2, v)
<1>1. v \in Int /\ VarOf(v) = v /\ VarOf(-v) = v /\ -v \in both
    BY ResolveSubset DEF IsLiteralSet, VarOf
<1>2. \A w : \A l \in SurvivingPrimaries(c1, c2, w) : VarOf(l) = w
    BY DEF SurvivingPrimaries, LitsOn
<1>3. Resolve(vd, c1, c2, ptype)
      = kept \cup {l \in both \ prim : Depth(vd, VarOf(l)) < MaxDepth(vd, kept)}
    BY DEF Resolve
<1>4. v \in prim <=> -v \in prim
    BY <1>1 DEF Primaries
<1>5. CASE v \in prim
    <2>1. v \in VarsOf(prim) /\ -v \in kept
        BY <1>1, <1>3, <1>4, <1>5 DEF VarsOf
    <2>2. -v \in SurvivingPrimaries(c1, c2, v)
        BY <1>1, <1>2, <2>1
    <2>3. a \subseteq {v, -v} /\ b \subseteq {v, -v} /\ (v \in a \/ v \in b)
        <3>1. ASSUME NEW l \in c1 \cup c2, VarOf(l) = v PROVE l \in {v, -v}
            <4>1. l \in Int
                BY DEF IsLiteralSet
            <4> QED BY <1>1, <3>1, <4>1 DEF VarOf
        <3> QED BY <1>1, <3>1 DEF LitsOn
    <2>4. ASSUME NEW S \in SUBSET {v, -v}, S # {}
          PROVE  Min(S) \in S /\ (-v \in S => Min(S) = -v)
        <3>1. \E x \in S : \A y \in S : x <= y
            <4>1. -v <= -v /\ v <= v /\ -v <= v
                BY <1>1
            <4>2. CASE -v \in S
                BY <4>1, <4>2
            <4>3. CASE -v \notin S
                <5>1. S = {v}
                    BY <2>4, <4>3
                <5> QED BY <4>1, <5>1
            <4> QED BY <4>2, <4>3
        <3>2. Min(S) \in S /\ \A y \in S : Min(S) <= y
            BY <3>1 DEF Min
        <3>3. -v \in S => Min(S) <= -v
            BY <3>2
        <3>4. Min(S) = v \/ Min(S) = -v
            BY <3>2
        <3>5. ~(v <= -v)
            BY <1>1
        <3> QED BY <3>2, <3>3, <3>4, <3>5
    <2>5. ~(a # {} /\ b # {} /\ Min(a) # Min(b))
        <3> SUFFICES ASSUME a # {}, b # {}, Min(a) # Min(b) PROVE FALSE
            OBVIOUS
        <3>1. -v \in (a \ {Min(a)}) \cup (b \ {Min(b)})
            BY <2>2 DEF SurvivingPrimaries
        <3> HIDE DEF a, b
        <3> QED BY <2>3, <2>4, <3>1
    <2>6. SurvivingPrimaries(c1, c2, v) = a \cup b
        BY <2>5 DEF SurvivingPrimaries
    <2> QED BY <1>3, <2>1, <2>3, <2>6
<1>6. CASE v \notin prim
    <2>1. -v \notin kept
        <3> SUFFICES ASSUME NEW w \in VarsOf(prim), -v \in SurvivingPrimaries(c1, c2, w) PROVE FALSE
            OBVIOUS
        <3>1. w = v
            BY <1>1, <1>2
        <3>2. PICK l \in prim : VarOf(l) = v
            BY <3>1 DEF VarsOf
        <3> QED BY <1>1, <1>6, <3>2 DEF Primaries
    <2> QED BY <1>1, <1>3, <1>4, <1>6, <2>1
<1> QED BY <1>5, <1>6

-----------------------------------------------------------------------------
(* The types of the lines *)

\* The lines that have been read have a type.
TypesInv ==
    /\ pc \in Before => DOMAIN constraint_type = {}
    /\ pc \notin Before \cup {"end"} => DOMAIN constraint_type = IdsRead

(* A type is recorded with every line that is read, and never again. *)
LEMMA TypeStep ==
    ASSUME ControlInv, [Next]_vars, pc \notin Before
    PROVE  \/ UNCHANGED vars
           \/ ~ReadingLine /\ UNCHANGED constraint_type
           \/ /\ ReadingLine /\ ReadCount' = next /\ pc' # "end"
              /\ \E c \in LineTypes : constraint_type' = Put(constraint_type, line.id, c)
<1>1. CASE Preparing
    BY <1>1 DEF Preparing, ReadOnAndOn, FirstPass, VisitConstraint, NextSink, OpenProof,
                SearchDone, Before
<1>2. CASE ReadingLines
    <2>1. next \in Nat
        BY LinesAreCounted DEF ControlInv
    <2>2. CASE NextResolution
        BY <2>2 DEF NextResolution, ReadingLine
    <2>3. CASE SkipLine
        BY <2>1, <2>3 DEF SkipLine, RecordType, ReadingLine, InLine, ReadCount
    <2>4. CASE RecordInternalAxiom \/ RecordInputClause
        <3>1. ReadingLine /\ next' = next + 1 /\ pc' = "line"
            BY <2>4 DEF RecordInternalAxiom, RecordInputClause, CoreLine, ReadingLine
        <3>2. \E c \in LineTypes : constraint_type' = Put(constraint_type, line.id, c)
            BY <2>4 DEF RecordInternalAxiom, RecordInputClause, StoreLine, RecordType
        <3> QED BY <2>1, <3>1, <3>2 DEF ReadCount, InLine
    <2>5. CASE RecordInitialTerm \/ ReadReduction \/ ReadResolution
        <3>1. ReadingLine /\ UNCHANGED next /\ pc' \in InLine /\ pc' # "end"
            BY <2>5 DEF RecordInitialTerm, ReadReduction, ReadResolution, CoreLine, InLine
        <3>2. \E c \in LineTypes : constraint_type' = Put(constraint_type, line.id, c)
            BY <2>5 DEF RecordInitialTerm, ReadReduction, ReadResolution, StoreLine, RecordType
        <3> QED BY <3>1, <3>2 DEF ReadCount
    <2> QED BY <1>2, <2>2, <2>3, <2>4, <2>5 DEF ReadingLines
<1>3. CASE Checking \/ MergingPhases
    BY <1>3 DEF Checking, CheckResolutionStep, CheckReductionStep, MergingPhases, SamePhase,
                CachedPhase, NewPhase, KnownEflit, NewEflit, CopyParentPhases, SplitAndShadow,
                stepUnchanged, databaseVars, ReadingLine, Merging
<1>4. CASE Reducing \/ NotReducing
    BY <1>4 DEF Reducing, DefineG, AuxGate, ReduceSimple, GLemma, ReduceMerged, PushArrays,
                NotReducing, EmitResolvent, Reroute, stepUnchanged, ReadingLine
<1>5. CASE Returning
    BY <1>5 DEF Returning, ReturnReduction, ReturnSafetyReduction, ReturnIntermediate, ReturnFinal,
                ReturnCrash, ReturnFailure, returnUnchanged, databaseVars, ReadingLine
<1>6. CASE Finishing
    BY <1>6, LinesAreCounted DEF Finishing, EndOfProof, WriteGratProof, CombineFiles, databaseVars,
                                 ReadingLine, ControlInv
<1>7. CASE Terminated
    BY <1>7 DEF Terminated, vars, databaseVars
<1> QED BY <1>1, <1>2, <1>3, <1>4, <1>5, <1>6, <1>7 DEF Next, Translate

(* The lines that have been read are those with a type. *)
LEMMA TypesNext == ControlInv /\ CoresInv /\ TypesInv /\ [Next]_vars => TypesInv'
<1> SUFFICES ASSUME ControlInv, CoresInv, TypesInv, [Next]_vars PROVE TypesInv'
    OBVIOUS
<1>1. CASE pc \in Before
    <2>1. CASE OpenProof
        <3>1. /\ pc' = "line" /\ UNCHANGED <<input, next, constraint_type>> /\ next = 1
            BY <1>1, <2>1 DEF OpenProof, searchUnchanged, databaseVars, CoresInv
        <3>2. ReadCount' = 0 /\ DOMAIN proofLines' \subseteq Nat \ {0}
            <4>1. proofLines \in Seq(Line \cup {ResultLine})
                BY LinesAreLines DEF ControlInv
            <4> QED BY <3>1, <4>1, LinesStay DEF ReadCount, InLine
        <3>3. IdsRead' = {}
            BY <3>2 DEF IdsRead
        <3> QED BY <1>1, <3>1, <3>3 DEF TypesInv, Before
    <2>2. CASE FirstPass \/ VisitConstraint \/ NextSink \/ UNCHANGED vars
        <3>1. pc' \in Before \cup {"end"} /\ UNCHANGED constraint_type
            BY <1>1, <2>2 DEF FirstPass, VisitConstraint, NextSink, vars, Before, searchUnchanged,
                              databaseVars
        <3> QED BY <1>1, <3>1 DEF TypesInv
    <2> QED BY <1>1, <2>1, <2>2, Phases
<1>2. CASE pc \notin Before
    <2>1. UNCHANGED input /\ pc' \notin Before
        BY <1>2, LineNext DEF LineStep, inputVars
    <2>2. CASE pc' # "end"
        <3>1. pc # "end" /\ DOMAIN constraint_type = IdsRead
            <4>1. pc \notin Before \cup {"end"} \/ OpenProof
                BY <2>1, <2>2, Course
            <4> QED BY <1>2, <4>1 DEF TypesInv, OpenProof, SearchDone, Before
        <3>2. TakesLine \/ ReadCount' = ReadCount
            BY <1>2, <2>2, LineNext DEF LineStep
        <3>3. CASE ReadingLine /\ ReadCount' = next
            <4>1. next \in Nat /\ ReadCount = next - 1
                BY <3>3, LinesAreCounted DEF ControlInv, ReadingLine, ReadCount, InLine
            <4>2. TakesLine
                BY <3>2, <3>3, <4>1
            <4>3. IdsRead' = IdsRead \cup {line.id}
                BY <2>1, <4>2, TakenId
            <4>4. ~UNCHANGED vars
                BY <3>3, <4>1 DEF vars, readVars, ReadCount
            <4>5. \E c : constraint_type' = Put(constraint_type, line.id, c)
                BY <1>2, <3>3, <4>4, TypeStep
            <4> QED BY <2>1, <2>2, <3>1, <4>3, <4>5 DEF TypesInv, Put
        <3>4. CASE ~(ReadingLine /\ ReadCount' = next)
            <4>1. UNCHANGED constraint_type
                BY <1>2, <3>4, TypeStep DEF vars, databaseVars
            <4>2. ReadCount' = ReadCount /\ UNCHANGED proofLines
                BY <2>1, <3>2, <3>4, LinesStay DEF TakesLine
            <4> QED BY <2>1, <2>2, <3>1, <4>1, <4>2 DEF TypesInv, IdsRead
        <3> QED BY <3>3, <3>4
    <2> QED BY <2>1, <2>2 DEF TypesInv
<1> QED BY <1>1, <1>2

(* A type stays. *)
LEMMA TypesStay ==
    ASSUME ControlInv, TypesInv, [Next]_vars, pc \notin Before
    PROVE  /\ \A id \in DOMAIN constraint_type :
                  id \in DOMAIN constraint_type' /\ constraint_type'[id] = constraint_type[id]
           /\ \/ UNCHANGED constraint_type
              \/ ReadingLine /\ \E c : constraint_type' = Put(constraint_type, line.id, c)
<1>1. CASE UNCHANGED constraint_type
    <2>1. ASSUME NEW id \in DOMAIN constraint_type
          PROVE  id \in DOMAIN constraint_type' /\ constraint_type'[id] = constraint_type[id]
        BY <1>1
    <2> QED BY <1>1, <2>1
<1>2. CASE /\ ReadingLine /\ ReadCount' = next /\ pc' # "end"
           /\ \E c : constraint_type' = Put(constraint_type, line.id, c)
    <2>1. next \in Nat /\ ReadCount = next - 1 /\ pc = "line"
        BY <1>2, LinesAreCounted DEF ControlInv, ReadingLine, ReadCount, InLine
    <2>2. TakesLine /\ UNCHANGED input
        BY <1>2, <2>1, LineNext DEF LineStep, inputVars
    <2>3. line.id \notin DOMAIN constraint_type
        BY <2>1, <2>2, TakenId DEF TypesInv, Before
    <2> QED BY <1>2, <2>3 DEF Put
<1> QED BY <1>1, <1>2, TypeStep DEF vars, databaseVars

\* The proofs that no lookup misses for.
Premises ==
    /\ AxiomsFound /\ SpareIdIsFree
    /\ UsesAreSeparate /\ EmptyIsNoParent /\ PairsStayWhole /\ KindsAgree

(* What is assumed of a proof has been so all along. *)
LEMMA PremisesBack ==
    ASSUME ControlInv, TypesInv, last_orig_clause_seen \in Nat, [Next]_vars, pc \notin Before, Premises'
    PROVE  Premises
<1>1. UNCHANGED <<input, SpareIdIsFree, UsesAreSeparate>>
    BY PremisesStay DEF inputVars
<1>2. EmptyIsNoParent /\ PairsStayWhole
    BY <1>1 DEF Premises, EmptyIsNoParent, PairsStayWhole
<1>3. KindsAgree
    <2>1. ASSUME NEW i \in DOMAIN input.lines, NEW p \in Range(input.lines[i].parents),
                 {input.lines[i].id, p} \subseteq DOMAIN constraint_type
          PROVE  constraint_type[input.lines[i].id] = constraint_type[p]
        <3>1. KindsAgree' /\ i \in DOMAIN input'.lines /\ input'.lines[i] = input.lines[i]
            BY <1>1 DEF Premises
        <3>2. {input.lines[i].id, p} \subseteq DOMAIN constraint_type'
            BY <2>1, TypesStay
        <3>3. constraint_type'[input.lines[i].id] = constraint_type'[p]
            BY <3>1, <3>2 DEF KindsAgree
        <3> QED BY <2>1, <3>3, TypesStay
    <2> QED BY <2>1 DEF KindsAgree
<1>4. AxiomsFound
    BY AxiomsSeen DEF Premises
<1> QED BY <1>1, <1>2, <1>3, <1>4 DEF Premises

-----------------------------------------------------------------------------
(* What is stored of a line *)

(* A step leaves alone what is stored of the lines before the one in work, if the last
   step of a resolution does not forget it. *)
LEMMA OldLines ==
    ASSUME ForgetInv, [Next]_vars, Translating, Translating', NEW id \in ReadIds \cap DOMAIN sinks_of
    PROVE  Keeps(id) \/ (ReturnFinal /\ id \notin DOMAIN clause_database')
<1>1. ControlInv /\ SinksInv /\ pc \notin Before \cup {"end"} /\ pc' \notin Before \cup {"end"}
    BY DEF ForgetInv, CountedInv, ReadInv, Translating
<1>2. ~IsSpare(id) /\ spare_id \in Nat /\ chain.spare \in {0, 1}
    BY <1>1, CoreSpare DEF ForgetInv, IsSpare, ControlInv
<1>3. CASE UNCHANGED vars \/ EndOfProof \/ WriteGratProof
    <2>1. UNCHANGED <<phase, clause_database, get_grat_id>>
        BY <1>3 DEF vars, phaseVars, phaseMaps, databaseVars, EndOfProof, WriteGratProof
    <2> QED BY <2>1, OthersKeep
<1>4. CASE ReadingLines /\ ~NextResolution
    <2>1. ReadingLine /\ UNCHANGED phase
        BY <1>4 DEF ReadingLines, SkipLine, RecordInternalAxiom, RecordInputClause,
                    RecordInitialTerm, ReadReduction, ReadResolution, CoreLine,
                    phaseVars, phaseMaps
    <2>2. id # line.id
        BY <1>1, <2>1, ReadBefore
    <2>3. CASE SkipLine
        <3>1. /\ clause_database' = Without(clause_database, {line.id})
              /\ UNCHANGED get_grat_id
            BY <2>3 DEF SkipLine
        <3> QED BY <2>1, <2>2, <3>1, OthersKeep
    <2>4. CASE RecordInternalAxiom \/ RecordInputClause
        <3>1. \E c, g :
                  /\ clause_database' = Put(clause_database, line.id, c)
                  /\ get_grat_id' = Put(get_grat_id, line.id, g) \/ UNCHANGED get_grat_id
            BY <2>4 DEF RecordInternalAxiom, RecordInputClause, StoreLine
        <3> QED BY <2>1, <2>2, <3>1, OthersKeep
    <2>5. CASE RecordInitialTerm
        <3>1. \E c, d, g :
                  /\ clause_database' = Put(Put(clause_database, line.id, c), spare_id, d)
                  /\ get_grat_id' = Put(get_grat_id, line.id, g)
            BY <2>5 DEF RecordInitialTerm
        <3>2. id # spare_id
            BY <1>2 DEF IsSpare
        <3> QED BY <2>1, <2>2, <3>1, <3>2, OthersKeep
    <2>6. CASE ReadReduction \/ ReadResolution
        <3>1. \E c : /\ clause_database' = Put(clause_database, line.id, c)
                     /\ UNCHANGED get_grat_id
            BY <2>6 DEF ReadReduction, ReadResolution, StoreLine
        <3> QED BY <2>1, <2>2, <3>1, OthersKeep
    <2> QED BY <1>4, <2>3, <2>4, <2>5, <2>6 DEF ReadingLines
<1>5. CASE NextResolution
    <2>1. /\ UNCHANGED <<phase, get_grat_id>>
          /\ \/ UNCHANGED clause_database
             \/ \E c : clause_database' = Put(clause_database, spare_id + chain.spare, c)
        BY <1>5 DEF NextResolution, phaseVars, phaseMaps
    <2>2. id # spare_id + chain.spare
        BY <1>2 DEF IsSpare
    <2> QED BY <2>1, <2>2, OthersKeep
<1>6. CASE Checking \/ MergingPhases \/ Reducing \/ NotReducing
    <2>1. pc \in InLine \ {"chain"}
        BY <1>6, StepFrame
    <2>2. id # res
        BY <1>1, <2>1, ResIsNew DEF ForgetInv
    <2> QED BY <1>6, <2>2, StepKeeps
<1>7. CASE ReturnReduction
    <2>1. UNCHANGED <<phase, clause_database, get_grat_id>>
        BY <1>7 DEF ReturnReduction, phaseMaps
    <2> QED BY <2>1, OthersKeep
<1>8. CASE ReturnSafetyReduction
    <2>1. /\ pc = "return" /\ right = 0 /\ line.parents = <<>> /\ UNCHANGED phase
          /\ clause_database' = Without(Put(clause_database, line.id, Clause(res)), {res})
          /\ get_grat_id' = Without(Put(get_grat_id, line.id, GratIdOf(res)), {res})
        BY <1>8 DEF ReturnSafetyReduction, phaseMaps
    <2>2. id # line.id /\ id # res
        BY <1>1, <2>1, ResIsNew DEF ForgetInv, InLine
    <2> QED BY <2>1, <2>2, OthersKeep
<1>9. ASSUME pc = "return", right # 0 PROVE id \notin Temporary
    <2>1. left = Head(line.parents) \/ IsSpare(left)
        BY <1>9 DEF ForgetInv, CallShape, InLine
    <2> QED BY <1>2, <2>1 DEF Temporary
<1>10. CASE ReturnIntermediate
    <2>1. pc = "return" /\ right # 0 /\ Forget(Temporary)
        BY <1>10 DEF ReturnIntermediate
    <2> QED BY <1>9, <2>1, ForgetKeeps
<1>11. CASE ReturnFinal
    <2>1. PICK used : Forget(Temporary \cup used)
        BY <1>11 DEF ReturnFinal
    <2>2. id \in Temporary \cup used => id \notin DOMAIN clause_database'
        BY <2>1 DEF Forget, Without
    <2> QED BY <1>11, <2>1, <2>2, ForgetKeeps
<1> QED BY <1>1, <1>3, <1>4, <1>5, <1>6, <1>7, <1>8, <1>10, <1>11, Course
           DEF OpenProof, SearchDone, Before

\* What is kept of the literals of a line.
LineLits(j) ==
    IF constraint_type[proofLines[j].id] = 1 THEN Negated(proofLines[j].lits) ELSE proofLines[j].lits

\* The clause of a line is stored as it was read; an initial term may have been reduced,
\* and then has a GRAT id.
IsStored(j) ==
    LET id == proofLines[j].id
    IN  id \in DOMAIN sinks_of \cap DOMAIN clause_database =>
            /\ Clause(id) \subseteq LineLits(j)
            /\ Clause(id) = LineLits(j) \/ id \in DOMAIN get_grat_id

StoredInv == Translating => \A j \in DOMAIN proofLines : j < next => IsStored(j)

\* The line in work has its own clause, and its reduct comes from there.
WorkStored ==
    Translating /\ pc \in InLine =>
        /\ Clause(line.id) = LineLits(next)
        /\ pc # "chain" /\ line.parents = <<>> => Clause(res) \subseteq Clause(line.id)

(* A line that is read is stored, and so is the reduct of an initial term. *)
LEMMA WorkStoredNext ==
    ForgetInv /\ TypesInv /\ WorkStored /\ [Next]_vars => WorkStored'
<1> SUFFICES ASSUME ForgetInv, TypesInv, WorkStored, [Next]_vars, Translating', pc' \in InLine
             PROVE  WorkStored'
    BY DEF WorkStored
<1>1. /\ Translating /\ pc \notin Before \cup {"end"} /\ ControlInv /\ SinksInv
      /\ UNCHANGED <<input, sinks_of, spare_id, proofLines>>
    BY LineCourse DEF ForgetInv, CountedInv, ReadInv
<1>2. \/ UNCHANGED constraint_type
      \/ ReadingLine /\ \E c : constraint_type' = Put(constraint_type, line.id, c)
    BY <1>1, TypesStay
<1>3. CASE UNCHANGED vars
    <2>1. UNCHANGED <<input, next, pc, call, constraint_type, clause_database>>
        BY <1>3 DEF vars, readVars, inputVars, databaseVars
    <2>2. UNCHANGED <<line, res>>
        BY <2>1, LinesStay DEF line, res
    <2> QED BY <1>1, <2>1, <2>2 DEF WorkStored, Clause, LineLits
<1>4. CASE ReadReduction \/ ReadResolution
    <2>1. PICK ctype : /\ constraint_type' = Put(constraint_type, line.id, ctype)
                       /\ clause_database' = Put(clause_database, line.id, LineClause(ctype))
        BY <1>4 DEF ReadReduction, ReadResolution, StoreLine, RecordType
    <2>2. line.parents # <<>> /\ UNCHANGED <<next, line>>
        <3>1. UNCHANGED next /\ Len(line.parents) >= 1 /\ ReadingLine
            BY <1>4 DEF ReadReduction, ReadResolution, CoreLine
        <3> QED BY <1>1, <3>1 DEF line
    <2>3. Clause(line.id)' = LineLits(next)'
        BY <1>1, <2>1, <2>2 DEF Clause, Put, LineLits, LineClause, line
    <2> QED BY <2>2, <2>3 DEF WorkStored
<1>5. CASE RecordInitialTerm
    <2>1. PICK ctype :
              /\ constraint_type' = Put(constraint_type, line.id, ctype)
              /\ clause_database' = Put(Put(clause_database, line.id, LineClause(ctype)), spare_id,
                                        Resolve(var_data, LineClause(ctype), {}, ctype))
        BY <1>5 DEF RecordInitialTerm, RecordType
    <2>2. UNCHANGED <<next, line>> /\ res' = spare_id /\ ReadingLine
        <3>1. UNCHANGED next /\ res' = spare_id /\ ReadingLine
            BY <1>5 DEF RecordInitialTerm, res, CoreLine
        <3> QED BY <1>1, <3>1 DEF line
    <2>3. line.id # spare_id
        <3>1. line.id \in DOMAIN last_use_of
            BY <1>5 DEF RecordInitialTerm, CoreLine
        <3>2. line.id \in DOMAIN sinks_of
            BY <1>1, <2>2, <3>1, ReadLineInCore DEF ForgetInv
        <3> QED BY <1>1, <3>2, CoreSpare DEF ForgetInv
    <2>4. Clause(line.id)' = LineLits(next)' /\ Clause(line.id)' = LineClause(ctype)
        BY <1>1, <2>1, <2>2, <2>3 DEF Clause, Put, LineLits, LineClause, line
    <2>5. Clause(res)' = Resolve(var_data, LineClause(ctype), {}, ctype)
        BY <2>1, <2>2 DEF Clause, Put
    <2>6. Clause(res)' \subseteq Clause(line.id)'
        BY <2>4, <2>5, ResolveSubset
    <2> QED BY <2>4, <2>6 DEF WorkStored
<1>6. ASSUME pc \in InLine, UNCHANGED line, NEW id, id = line.id, Keeps(id),
             line.parents = <<>> /\ pc' # "chain" => pc # "chain" /\ Clause(res)' = Clause(res),
             UNCHANGED next
      PROVE  WorkStored'
    <2>1. UNCHANGED constraint_type
        BY <1>2, <1>6 DEF ReadingLine, InLine
    <2>2. Clause(id)' = Clause(id)
        BY <1>6 DEF Keeps
    <2>3. Clause(line.id)' = Clause(line.id)
        BY <1>6, <2>2
    <2>4. LineLits(next)' = LineLits(next)
        BY <1>1, <1>6, <2>1 DEF LineLits
    <2> QED BY <1>1, <1>6, <2>3, <2>4 DEF WorkStored
<1>7. CASE NextResolution
    <2>1. /\ pc = "chain" /\ UNCHANGED <<next, phase, get_grat_id>>
          /\ \/ UNCHANGED clause_database
             \/ \E c : clause_database' = Put(clause_database, spare_id + chain.spare, c)
        BY <1>7 DEF NextResolution, phaseVars, phaseMaps, readVars
    <2>2. line.parents # <<>> /\ line.id \in DOMAIN sinks_of
        BY <1>1, <2>1 DEF ForgetInv, CallShape, LastUsesInv, InLine
    <2>3. line.id # spare_id + chain.spare
        BY <1>1, <2>2, CoreSpare DEF ForgetInv, ControlInv
    <2>4. PICK id : id = line.id /\ Keeps(id)
        BY <2>1, <2>3, OthersKeep
    <2>5. UNCHANGED line
        BY <1>1, <2>1 DEF line
    <2> QED BY <1>6, <2>1, <2>2, <2>4, <2>5 DEF InLine
<1>8. CASE Checking \/ MergingPhases \/ Reducing \/ NotReducing
    <2>1. /\ pc \in InLine \ {"chain"} /\ UNCHANGED <<next, line, res, clause_database>>
        BY <1>8, StepFrame
    <2>2. \A id : Clause(id)' = Clause(id)
        BY <2>1 DEF Clause
    <2>3. Clause(line.id)' = Clause(line.id) /\ Clause(res)' = Clause(res)
        BY <2>1 DEF Clause
    <2>4. LineLits(next)' = LineLits(next)
        BY <1>1, <1>2, <2>1 DEF LineLits, ReadingLine, InLine
    <2> QED BY <1>1, <2>1, <2>3, <2>4 DEF WorkStored
<1>9. CASE ReturnIntermediate
    <2>1. /\ pc = "return" /\ pc' = "chain" /\ right # 0 /\ Forget(Temporary) /\ UNCHANGED next
        BY <1>9 DEF ReturnIntermediate, returnUnchanged
    <2>2. /\ line.id \in DOMAIN sinks_of /\ line.parents # <<>>
          /\ left = Head(line.parents) \/ IsSpare(left)
        BY <1>1, <2>1 DEF ForgetInv, CallShape, LastUsesInv, InLine
    <2>3. ~IsSpare(line.id)
        BY <1>1, <2>2, CoreSpare DEF ForgetInv, IsSpare
    <2>4. line.id \notin Temporary
        BY <2>2, <2>3 DEF Temporary
    <2>5. PICK id : id = line.id /\ Keeps(id)
        BY <2>1, <2>4, ForgetKeeps
    <2>6. UNCHANGED line
        BY <1>1, <2>1 DEF line
    <2> QED BY <1>6, <2>1, <2>2, <2>5, <2>6 DEF InLine
<1> QED BY <1>3, <1>4, <1>5, <1>7, <1>8, <1>9, LineCourse

(* Nothing that is stored of a line changes, until it is forgotten. *)
LEMMA StoredNext ==
    ForgetInv /\ TypesInv /\ StoredInv /\ WorkStored /\ [Next]_vars => StoredInv'
<1> SUFFICES ASSUME ForgetInv, TypesInv, StoredInv, WorkStored, [Next]_vars, Translating',
                    NEW j \in DOMAIN proofLines', j < next'
             PROVE  IsStored(j)'
    BY DEF StoredInv
<1>1. /\ ControlInv /\ SinksInv /\ CoresInv /\ pc' \notin Before \cup {"end"}
      /\ next \in Nat /\ DOMAIN proofLines' \subseteq Nat \ {0} /\ input \in Inputs
    <2>1. ControlInv /\ ControlInv' /\ SinksInv /\ CoresInv /\ pc' \notin Before \cup {"end"}
        BY ControlNext DEF ForgetInv, CountedInv, ReadInv, Translating
    <2>2. next \in Nat
        BY <2>1, LinesAreCounted DEF ControlInv
    <2>3. \/ proofLines \in Seq(Line \cup {ResultLine}) /\ UNCHANGED proofLines
          \/ pc = "start"
        <3>1. pc \in Before \/ UNCHANGED input
            BY LineNext, <2>1 DEF LineStep, inputVars
        <3>2. pc = "start" \/ UNCHANGED input
            BY <2>1, <3>1, Phases DEF Before, FirstPass, VisitConstraint, NextSink, OpenProof, searchUnchanged,
                           vars, readVars, inputVars
        <3> QED BY <2>1, <3>2, LinesAreLines, LinesStay DEF ControlInv
    <2>4. pc # "start"
        BY <2>1, Course DEF Before, OpenProof, SearchDone
    <2> QED BY <2>1, <2>2, <2>3, <2>4 DEF ControlInv
<1>2. CASE OpenProof
    <2>1. next' = 1
        BY <1>1, <1>2 DEF OpenProof, SearchDone, searchUnchanged, CoresInv, Before
    <2> QED BY <1>1, <2>1
<1>3. CASE pc \notin Before \cup {"end"}
    <2>1. Translating /\ UNCHANGED <<input, sinks_of, spare_id, proofLines>>
        BY <1>1, <1>3, PremisesStay DEF Translating, inputVars
    <2>2. \A id \in IdsRead : id \in DOMAIN constraint_type' /\ constraint_type'[id] = constraint_type[id]
        BY <1>1, <1>3, TypesStay DEF TypesInv
    <2>3. CASE j < next
        <3> DEFINE id == proofLines[j].id
        <3> SUFFICES ASSUME id \in DOMAIN sinks_of \cap DOMAIN clause_database'
                     PROVE  /\ Clause(id)' \subseteq LineLits(j)'
                            /\ Clause(id)' = LineLits(j)' \/ id \in DOMAIN get_grat_id'
            BY <2>1 DEF IsStored
        <3>1. id \in ReadIds /\ id \in IdsRead
            BY <1>1, <2>1, <2>3 DEF ReadIds, IdsRead, ReadCount
        <3>2. Keeps(id)
            BY <2>1, <3>1, OldLines
        <3>3. LineLits(j)' = LineLits(j)
            BY <2>1, <2>2, <3>1 DEF LineLits
        <3>4. IsStored(j)
            BY <2>1, <2>3 DEF StoredInv
        <3>5. /\ Clause(id) \subseteq LineLits(j)
              /\ Clause(id) = LineLits(j) \/ id \in DOMAIN get_grat_id
            BY <3>2, <3>4 DEF IsStored, Keeps
        <3> QED BY <3>2, <3>3, <3>5 DEF Keeps
    <2>4. CASE ~(j < next)
        <3>2. ASSUME NEW id, id = line.id, next' = next + 1, NEW c,
                     \/ id \notin DOMAIN clause_database'
                     \/ /\ Clause(id)' \subseteq LineLits(next) /\ UNCHANGED constraint_type
                        /\ Clause(id)' = LineLits(next) \/ id \in DOMAIN get_grat_id'
                     \/ /\ Clause(id)' = LineClause(c)
                        /\ constraint_type' = Put(constraint_type, id, c)
              PROVE  IsStored(j)'
            <4>1. j = next /\ proofLines'[j].id = id /\ proofLines'[j] = line
                BY <1>1, <2>1, <2>4, <3>2 DEF line
            <4>2. CASE id \notin DOMAIN clause_database'
                BY <4>1, <4>2 DEF IsStored
            <4>3. CASE UNCHANGED constraint_type
                <5>1. LineLits(j)' = LineLits(next)
                    BY <4>1, <4>3, <2>1 DEF LineLits
                <5>2. CASE /\ Clause(id)' \subseteq LineLits(next)
                           /\ Clause(id)' = LineLits(next) \/ id \in DOMAIN get_grat_id'
                    BY <4>1, <5>1, <5>2 DEF IsStored
                <5>3. CASE Clause(id)' = LineClause(c) /\ constraint_type' = Put(constraint_type, id, c)
                    <6>1. LineLits(j)' = LineClause(c)
                        BY <4>1, <5>3 DEF LineLits, LineClause, Put
                    <6> QED BY <4>1, <5>3, <6>1 DEF IsStored
                <5> QED BY <3>2, <4>2, <5>2, <5>3
            <4>4. CASE Clause(id)' = LineClause(c) /\ constraint_type' = Put(constraint_type, id, c)
                <5>1. LineLits(j)' = LineClause(c)
                    BY <4>1, <4>4 DEF LineLits, LineClause, Put
                <5> QED BY <4>1, <4>4, <5>1 DEF IsStored
            <4> QED BY <3>2, <4>2, <4>3, <4>4
        <3>3. CASE SkipLine
            <4>1. next' = next + 1 /\ line.id \notin DOMAIN clause_database'
                BY <3>3 DEF SkipLine, Without
            <4> QED BY <3>2, <4>1
        <3>4. CASE RecordInternalAxiom \/ RecordInputClause
            <4>1. next' = next + 1
                BY <3>4 DEF RecordInternalAxiom, RecordInputClause
            <4>2. \E c : /\ constraint_type' = Put(constraint_type, line.id, c)
                         /\ clause_database' = Put(clause_database, line.id, LineClause(c))
                BY <3>4 DEF RecordInternalAxiom, RecordInputClause, StoreLine, RecordType
            <4>3. \E c, id : /\ constraint_type' = Put(constraint_type, id, c) /\ id = line.id
                             /\ Clause(id)' = LineClause(c)
                BY <4>2 DEF Clause, Put
            <4> QED BY <3>2, <4>1, <4>3
        <3>5. ASSUME pc = "return", next' = next + 1 PROVE Clause(line.id) = LineLits(next)
            BY <2>1, <3>5 DEF WorkStored, InLine
        <3>6. CASE ReturnReduction \/ ReturnFinal
            <4>1. pc = "return" /\ next' = next + 1 /\ UNCHANGED constraint_type
                BY <3>6 DEF ReturnReduction, ReturnFinal, returnUnchanged
            <4>2. \E id : id = line.id /\ (Clause(id)' = Clause(id) \/ id \notin DOMAIN clause_database')
                <5>1. CASE ReturnReduction
                    BY <5>1 DEF ReturnReduction, Clause
                <5>2. CASE ReturnFinal
                    <6>1. PICK ids : Forget(ids)
                        BY <5>2 DEF ReturnFinal
                    <6> QED BY <6>1 DEF Forget, Without, Clause
                <5> QED BY <3>6, <5>1, <5>2
            <4> QED BY <3>2, <3>5, <4>1, <4>2
        <3>7. CASE ReturnSafetyReduction
            <4>1. /\ pc = "return" /\ next' = next + 1 /\ UNCHANGED constraint_type
                  /\ right = 0 /\ line.parents = <<>>
                  /\ clause_database' = Without(Put(clause_database, line.id, Clause(res)), {res})
                  /\ get_grat_id' = Without(Put(get_grat_id, line.id, GratIdOf(res)), {res})
                BY <3>7 DEF ReturnSafetyReduction, returnUnchanged
            <4>2. line.id # res
                BY <2>1, <1>1, <4>1, ResIsNew DEF ForgetInv, CallShape, InLine
            <4>3. \E id : /\ id = line.id /\ Clause(id)' = Clause(res) /\ id \in DOMAIN get_grat_id'
                BY <4>1, <4>2 DEF Clause, Put, Without
            <4>4. Clause(res) \subseteq LineLits(next)
                BY <2>1, <3>5, <4>1 DEF WorkStored, InLine
            <4> QED BY <3>2, <4>1, <4>3, <4>4
        <3>8. next' # next
            BY <2>4
        <3>9. CASE RecordInitialTerm \/ ReadReduction \/ ReadResolution \/ NextResolution
            BY <3>8, <3>9 DEF RecordInitialTerm, ReadReduction, ReadResolution, NextResolution, readVars
        <3>10. CASE UNCHANGED vars \/ EndOfProof \/ WriteGratProof \/ ReturnIntermediate
            BY <3>8, <3>10 DEF vars, readVars, EndOfProof, WriteGratProof, ReturnIntermediate, returnUnchanged
        <3>11. CASE Checking \/ MergingPhases \/ Reducing \/ NotReducing
            BY <3>8, <3>11, StepFrame
        <3> QED BY <1>1, <1>3, <3>3, <3>4, <3>6, <3>7, <3>9, <3>10, <3>11, Course
                   DEF ReadingLines, OpenProof, SearchDone, Before
    <2> QED BY <2>3, <2>4
<1> QED BY <1>1, <1>2, <1>3, Course

-----------------------------------------------------------------------------
(* The literals of the clauses of a step *)

(* The clauses of the parents stay while the line is in work. *)
LEMMA ParentsStay ==
    ASSUME ForgetInv, [Next]_vars, Translating', pc \in InLine, pc' \in InLine,
           NEW p \in Range(line.parents)
    PROVE  Clause(p)' = Clause(p) /\ Keeps(p)
<1>1. ControlInv /\ SinksInv /\ Translating /\ pc \notin Before \cup {"end"}
    BY LineCourse DEF ForgetInv, CountedInv, ReadInv
<1>2. line.id \in DOMAIN sinks_of /\ Range(line.parents) = Parents(line.id)
    BY <1>1, LineInWork DEF ForgetInv, LastUsesInv
<1>3. p \in ReadIds \cap DOMAIN sinks_of
    BY <1>1, <1>2, CoreSpare, ReadBefore DEF ForgetInv
<1>4. ~ReturnFinal
    BY DEF ReturnFinal, InLine
<1> QED BY <1>1, <1>3, <1>4, OldLines DEF Keeps

ParentLits == UNION {Clause(p) : p \in Range(line.parents)}

\* A clause that has the negative literal of a variable of others has the positive one.
PairsFrom(lits, id) == \A v \in lits : v > 0 /\ -v \in Clause(id) => v \in Clause(id)

\* A resolvent in the middle of a chain has literals of its parents, and all of a pair.
MiddleLits ==
    right # 0 /\ ~LastOfChain =>
        Clause(res) \subseteq ParentLits /\ PairsFrom(Clause(left) \cup Clause(right), res)

CallLits ==
    Translating =>
        /\ pc = "chain" => Clause(chain.left) \subseteq ParentLits
        /\ pc \in InLine \ {"chain"} /\ line.parents # <<>> =>
               Clause(left) \subseteq ParentLits /\ MiddleLits

(* The steps of a chain have no other literals than the parents of the line. *)
LEMMA CallLitsNext == ForgetInv /\ RightParent /\ CallLits /\ [Next]_vars => CallLits'
<1> SUFFICES ASSUME ForgetInv, RightParent, CallLits, [Next]_vars, Translating', pc' \in InLine
             PROVE  CallLits'
    BY DEF CallLits, InLine
<1>1. /\ Translating /\ pc \notin Before \cup {"end"} /\ ControlInv /\ ClauseInv /\ SinksInv
      /\ UNCHANGED <<input, sinks_of, spare_id, proofLines>> /\ ForgetInv'
    BY LineCourse, ForgetNext DEF ForgetInv, CountedInv, ReadInv
<1>2. HasFirstParent'
    BY <1>1, FirstParentNext DEF ForgetInv, CountedInv, ReadInv
<1>3. CASE UNCHANGED vars
    <2>1. UNCHANGED <<input, next, pc, chain, call, clause_database>>
        BY <1>3 DEF vars, readVars, inputVars, databaseVars
    <2>2. UNCHANGED <<line, left, right, res>>
        BY <2>1, LinesStay DEF line, left, right, res
    <2>3. ParentLits' = ParentLits /\ Clause(chain.left)' = Clause(chain.left)
          /\ Clause(left)' = Clause(left) /\ (MiddleLits' <=> MiddleLits)
        BY <2>1, <2>2 DEF ParentLits, Clause, MiddleLits, LastOfChain, parents_right, PairsFrom
    <2> QED BY <1>1, <2>1, <2>2, <2>3 DEF CallLits
<1>4. CASE RecordInitialTerm
    <2>1. pc' = "check" /\ line.parents = <<>> /\ UNCHANGED <<input, next>>
        BY <1>4 DEF RecordInitialTerm, inputVars
    <2> QED BY <2>1, LinesStay DEF CallLits, line
<1>5. CASE ReadReduction
    <2>1. /\ pc' = "check" /\ left' = Head(line.parents) /\ right' = 0 /\ UNCHANGED <<input, next>>
        BY <1>5 DEF ReadReduction, inputVars, left, right
    <2>2. UNCHANGED line
        BY <2>1, LinesStay DEF line
    <2>3. line'.parents # <<>> => Head(line'.parents) \in Range(line.parents)'
        BY <1>2, <2>1 DEF HasFirstParent, InLine
    <2>4. line'.parents # <<>> => Clause(left)' \subseteq ParentLits'
        BY <2>1, <2>2, <2>3 DEF ParentLits, Clause
    <2> QED BY <2>1, <2>4 DEF CallLits, MiddleLits
<1>6. CASE ReadResolution
    <2>1. /\ pc' = "chain" /\ chain'.left = Head(line.parents) /\ Len(line.parents) >= 2
          /\ UNCHANGED <<input, next>> /\ ReadingLine
        BY <1>6 DEF ReadResolution, inputVars, CoreLine
    <2>2. UNCHANGED line /\ line.parents # <<>>
        BY <1>1, <2>1, LinesStay, LineInWork DEF line
    <2>3. Head(line'.parents) \in Range(line.parents)'
        BY <1>2, <2>1, <2>2 DEF HasFirstParent, InLine
    <2>4. Clause(chain.left)' \subseteq ParentLits'
        BY <2>1, <2>2, <2>3 DEF ParentLits, Clause
    <2> QED BY <2>1, <2>4 DEF CallLits
<1>7. ASSUME pc \in InLine, UNCHANGED line
      PROVE  /\ ParentLits' = ParentLits
             /\ \A p \in Range(line.parents) : Clause(p)' = Clause(p)
    <2>1. \A p \in Range(line.parents) : Clause(p)' = Clause(p)
        BY <1>7, ParentsStay
    <2> QED BY <1>7, <2>1 DEF ParentLits
<1>8. CASE NextResolution
    <2> DEFINE parent == parents_right[chain.i + 1]
    <2>1. /\ pc = "chain" /\ pc' = "check" /\ left' = chain.left /\ right' = parent
          /\ res' = IF LastOfChain THEN line.id ELSE spare_id + chain.spare
          /\ UNCHANGED <<phase, get_grat_id, next>>
          /\ IF LastOfChain THEN UNCHANGED <<clause_database, chain>>
             ELSE clause_database' = Put(clause_database, spare_id + chain.spare,
                      Resolve(var_data, Clause(chain.left), Clause(parent), constraint_type[parent]))
        BY <1>8 DEF NextResolution, left, right, res, phaseVars, phaseMaps, readVars
    <2> HIDE DEF parent
    <2>2. line.parents # <<>> /\ chain.left # spare_id + chain.spare
        BY <1>1, <2>1, ChainLeft
    <2>3. UNCHANGED line /\ UNCHANGED parents_right
        BY <1>1, <2>1 DEF line, parents_right
    <2>4. PICK id : id = chain.left /\ Keeps(id)
        BY <2>1, <2>2, OthersKeep
    <2>5. Clause(id)' = Clause(id)
        BY <2>4 DEF Keeps
    <2>6. Clause(left)' = Clause(chain.left)
        BY <2>1, <2>4, <2>5
    <2>7. ParentLits' = ParentLits /\ \A p \in Range(line.parents) : Clause(p)' = Clause(p)
        BY <1>7, <2>1, <2>3 DEF InLine
    <2>8. Clause(chain.left) \subseteq ParentLits
        BY <1>1, <2>1 DEF CallLits
    <2>9. ASSUME right' # 0, ~LastOfChain' PROVE MiddleLits'
        <3>1. ~LastOfChain
            <4> SUFFICES ASSUME LastOfChain PROVE LastOfChain'
                BY <2>9
            <4>1. UNCHANGED chain
                BY <2>1
            <4> QED BY <2>3, <4>1 DEF LastOfChain
        <3>2. right' \in Range(line.parents)'
            BY <1>1, <2>1, <2>9, RightParentNext DEF RightParent, InLine
        <3>3. \E p : p = parent /\ Clause(p)' = Clause(p) /\ p \in Range(line.parents)
            BY <2>1, <2>3, <2>7, <3>2
        <3>4. Clause(right)' = Clause(parent) /\ Clause(parent) \subseteq ParentLits
            BY <2>1, <3>3 DEF ParentLits
        <3>5. Clause(res)' = Resolve(var_data, Clause(chain.left), Clause(parent), constraint_type[parent])
            BY <2>1, <3>1 DEF Clause, Put
        <3>6. Clause(res)' \subseteq ParentLits
            BY <2>8, <3>4, <3>5, ResolveSubset
        <3>7. IsLiteralSet(Clause(chain.left)) /\ IsLiteralSet(Clause(parent))
            BY <1>1, ClauseType
        <3>8. ASSUME NEW v \in Clause(left)' \cup Clause(right)', v > 0, -v \in Clause(res)'
              PROVE  v \in Clause(res)'
            BY <2>6, <3>4, <3>5, <3>7, <3>8, ResolvePairs
        <3> QED BY <2>7, <3>6, <3>8 DEF MiddleLits, PairsFrom
    <2>10. MiddleLits'
        BY <2>9 DEF MiddleLits
    <2> QED BY <2>1, <2>6, <2>7, <2>8, <2>10 DEF CallLits
<1>9. CASE Checking \/ MergingPhases \/ Reducing \/ NotReducing
    <2>1. /\ pc \in InLine \ {"chain"} /\ UNCHANGED <<line, left, right, res, clause_database, LastOfChain>>
          /\ pc' \in InLine \ {"chain", "check"}
        BY <1>9, StepFrame
    <2>2. ParentLits' = ParentLits /\ Clause(left)' = Clause(left) /\ (MiddleLits' <=> MiddleLits)
        BY <2>1 DEF ParentLits, Clause, MiddleLits, PairsFrom
    <2> QED BY <1>1, <2>1, <2>2 DEF CallLits
<1>10. CASE ReturnIntermediate
    <2>1. /\ pc = "return" /\ pc' = "chain" /\ right # 0 /\ Forget(Temporary) /\ chain'.left = res
          /\ ~LastOfChain /\ UNCHANGED next
        BY <1>1, <1>10 DEF ReturnIntermediate, ControlInv, returnUnchanged
    <2>2. left # res /\ UNCHANGED line /\ line.parents # <<>>
        BY <1>1, <2>1, ResIsNew DEF ForgetInv, CallShape, InLine, line
    <2>3. PICK id : id = res /\ Keeps(id)
        BY <2>1, <2>2, ForgetKeeps DEF Temporary
    <2>4. Clause(id)' = Clause(id)
        BY <2>3 DEF Keeps
    <2>5. Clause(chain.left)' = Clause(res)
        BY <2>1, <2>3, <2>4
    <2>6. ParentLits' = ParentLits
        BY <1>7, <2>1, <2>2 DEF InLine
    <2>7. Clause(res) \subseteq ParentLits
        BY <1>1, <2>1, <2>2 DEF CallLits, MiddleLits, InLine
    <2> QED BY <2>1, <2>5, <2>6, <2>7 DEF CallLits
<1> QED BY <1>3, <1>4, <1>5, <1>6, <1>8, <1>9, <1>10, LineCourse

(* The line in work and its parents are lines of the input. *)
LEMMA ParentLine ==
    ASSUME ForgetInv, Translating, pc \in InLine, NEW p \in Range(line.parents)
    PROVE  /\ p \in ReadIds \cap DOMAIN sinks_of
           /\ next \in DOMAIN input.lines /\ next \in DOMAIN proofLines /\ line = input.lines[next]
           /\ \E j \in DOMAIN input.lines \cap DOMAIN proofLines :
                  j < next /\ proofLines[j] = input.lines[j] /\ proofLines[j].id = p
<1>1. ControlInv /\ SinksInv /\ pc \notin Before \cup {"end"} /\ input \in Inputs
    BY DEF ForgetInv, CountedInv, ReadInv, ControlInv, Translating
<1>2. p \in ReadIds \cap DOMAIN sinks_of
    <2>1. line.id \in DOMAIN sinks_of /\ Range(line.parents) = Parents(line.id)
        BY <1>1, LineInWork DEF ForgetInv, LastUsesInv
    <2> QED BY <1>1, <2>1, CoreSpare, ReadBefore DEF ForgetInv
<1>3. PICK j \in DOMAIN proofLines : j < next /\ proofLines[j].id = p
    BY <1>2 DEF ReadIds
<1>4. next \in DOMAIN proofLines /\ next \in Nat /\ DOMAIN proofLines \subseteq Nat \ {0}
    <2>1. proofLines \in Seq(Line \cup {ResultLine})
        BY <1>1, LinesAreLines
    <2> QED BY <1>1, <2>1, LineInWork
<1>5. next \in DOMAIN input.lines /\ line = input.lines[next]
    <2>1. line # ResultLine
        BY DEF ResultLine, Range
    <2> QED BY <1>1, <1>4, <2>1, LinesRead DEF line
<1>6. j \in DOMAIN input.lines /\ proofLines[j] = input.lines[j]
    <2>1. DOMAIN input.lines = 1..Len(input.lines) /\ Len(input.lines) \in Nat
        <3>1. input.lines \in Seq(Line)
            BY <1>1, InputAssumption
        <3> QED BY <3>1
    <2>2. j <= Len(input.lines)
        BY <1>3, <1>4, <1>5, <2>1
    <2> QED BY <1>1, <1>3, <2>1, <2>2, LinesRead
<1> QED BY <1>2, <1>3, <1>4, <1>5, <1>6

(* A resolvent keeps all of a pair of its parents' literals, or none of it but the
   positive literal. *)
LEMMA WholePairs ==
    ASSUME ForgetInv, TypesInv, StoredInv, WorkStored, RightParent, CallLits,
           Translating, Premises, pc \in InLine \ {"chain"}, line.parents # <<>>,
           NEW lits, lits = Clause(left) \/ (right # 0 /\ lits = Clause(right))
    PROVE  PairsFrom(lits, res)
<1>1. CASE right # 0 /\ ~LastOfChain
    BY <1>1 DEF CallLits, MiddleLits, PairsFrom
<1>2. CASE ~(right # 0 /\ ~LastOfChain)
    <2>1. /\ ControlInv /\ SinksInv /\ ClauseInv /\ pc \notin Before \cup {"end"}
          /\ input \in Inputs /\ pc \in InLine
        BY DEF ForgetInv, CountedInv, ReadInv, ControlInv, Translating
    <2>2. res = line.id /\ line.id \in DOMAIN sinks_of
          /\ Range(line.parents) \subseteq ReadIds \cap DOMAIN sinks_of
        BY <1>2, <2>1, ResIsNew DEF ForgetInv, CallShape
    <2>3. Clause(res) = LineLits(next) /\ lits \subseteq ParentLits
        <3>1. lits = Clause(right) /\ right # 0 => lits \subseteq ParentLits
            BY DEF RightParent, ParentLits
        <3>2. Clause(left) \subseteq ParentLits
            BY DEF CallLits
        <3> QED BY <2>1, <2>2, <3>1, <3>2 DEF WorkStored
    <2> SUFFICES ASSUME NEW v \in lits, v > 0, -v \in Clause(res) PROVE v \in Clause(res)
        BY DEF PairsFrom
    <2>4. PICK p \in Range(line.parents) : v \in Clause(p)
        BY <2>3 DEF ParentLits
    <2>5. PICK j \in DOMAIN input.lines \cap DOMAIN proofLines :
              j < next /\ proofLines[j] = input.lines[j] /\ proofLines[j].id = p
        BY <2>1, ParentLine
    <2>6. p \in DOMAIN sinks_of \cap DOMAIN clause_database
        BY <2>2, <2>4 DEF Clause
    <2>7. v \in LineLits(j)
        BY <2>4, <2>5, <2>6 DEF StoredInv, IsStored
    <2>8. /\ next \in DOMAIN proofLines /\ next \in Nat /\ DOMAIN proofLines \subseteq Nat \ {0}
        <3>1. proofLines \in Seq(Line \cup {ResultLine})
            BY <2>1, LinesAreLines
        <3> QED BY <2>1, <3>1, LineInWork
    <2>9. next \in DOMAIN input.lines /\ line = input.lines[next]
        BY <2>1, ParentLine
    <2>10. j \in DOMAIN input.lines /\ proofLines[j] = input.lines[j]
        BY <2>5
    <2>11. {line.id, p} \subseteq DOMAIN constraint_type
        <3>1. {line.id, p} \subseteq IdsRead
            BY <2>1, <2>5, <2>8 DEF IdsRead, ReadCount, line
        <3> QED BY <2>1, <3>1 DEF TypesInv
    <2>12. constraint_type[line.id] = constraint_type[p]
        BY <2>4, <2>9, <2>11 DEF Premises, KindsAgree
    <2>13. ASSUME NEW l \in line.lits, -l \in proofLines[j].lits PROVE -l \in line.lits
        BY <2>4, <2>5, <2>9, <2>10, <2>13 DEF Premises, PairsStayWhole
    <2>14. IsLiteralSet(line.lits) /\ IsLiteralSet(proofLines[j].lits)
        BY <2>1, <2>8, LinesAreLines DEF line
    <2>15. CASE constraint_type[p] # 1
        <3>1. v \in proofLines[j].lits /\ -v \in line.lits
            BY <2>3, <2>5, <2>7, <2>12, <2>15 DEF LineLits, line
        <3>2. v \in Int /\ -(-v) = v
            BY <2>14, <3>1 DEF IsLiteralSet
        <3>3. v \in line.lits
            BY <2>13, <3>1, <3>2
        <3> QED BY <2>3, <2>12, <2>15, <3>3 DEF LineLits, line
    <2>16. CASE constraint_type[p] = 1
        <3>1. v \in Negated(proofLines[j].lits) /\ -v \in Negated(line.lits)
            BY <2>3, <2>5, <2>7, <2>12, <2>16 DEF LineLits, line
        <3>2. PICK a \in proofLines[j].lits, b \in line.lits : v = -a /\ -v = -b
            BY <3>1 DEF Negated
        <3>3. a \in Int /\ b \in Int
            BY <2>14 DEF IsLiteralSet
        <3>4. a = -v /\ b = v /\ v \in Int
            BY <3>2, <3>3
        <3>5. -v \in line.lits
            BY <2>13, <3>2, <3>4
        <3>6. v \in Negated(line.lits)
            BY <3>4, <3>5 DEF Negated
        <3> QED BY <2>3, <2>12, <2>16, <3>6 DEF LineLits, line
    <2> QED BY <2>15, <2>16
<1> QED BY <1>1, <1>2

-----------------------------------------------------------------------------
(* The pivot and the merged literals *)

InStep == {"merge", "eflit", "split", "g", "gates", "merged", "emit"}

\* The merged literals are in both parents, and so is the pivot.
StepLits ==
    /\ pc \in {"merge", "eflit"} =>
           right # 0 /\ Range(step.merged_lits) \subseteq {l \in Clause(left) : -l \in Clause(right)}
    /\ pc \in InStep /\ right # 0 => step.pivot \in Clause(left) /\ -step.pivot \in Clause(right)

(* What check_resolution() answers with. *)
LEMMA CheckedLits ==
    ASSUME NEW vd, NEW c1, NEW c2, NEW r, NEW ptype, IsLiteralSet(c1)
    PROVE  LET check == CheckResolution(vd, c1, c2, r, ptype)
           IN  /\ Range(check.merged) \subseteq {l \in c1 : -l \in c2}
               /\ \A i, j \in DOMAIN check.merged :
                      VarOf(check.merged[i]) = VarOf(check.merged[j]) => i = j
               /\ check.pivot # 0 => check.pivot \in c1 /\ -check.pivot \in c2
<1> DEFINE clashing == {l \in c1 : -l \in c2}
           pivots == {l \in clashing : IsPrimary(vd, VarOf(l), ptype)}
           pivot == CHOOSE l \in pivots : TRUE
           merged == {l \in clashing \ pivots : -l \in clashing => l < 0}
           check == CheckResolution(vd, c1, c2, r, ptype)
<1>1. check.merged = SortedClause(merged)
    BY DEF CheckResolution
<1>2. IsLiteralSet(merged) /\ IsFiniteSet(merged) /\ merged \subseteq Int
    <2>1. IsLiteralSet(merged)
        BY LiteralSubset
    <2> QED BY <2>1 DEF IsLiteralSet
<1>3. ASSUME NEW x \in merged, NEW y \in merged, VarOf(x) = VarOf(y) PROVE x = y
    <2>1. x \in Int /\ y \in Int
        BY <1>2
    <2>2. x = y \/ x = -y
        BY <1>3, <2>1 DEF VarOf
    <2>3. CASE x = -y
        <3>1. -x = y /\ -y = x
            BY <2>1, <2>3
        <3>2. x < 0 /\ y < 0
            BY <3>1
        <3> QED BY <2>1, <2>3, <3>2
    <2> QED BY <2>2, <2>3
<1>4. check.pivot # 0 => check.pivot \in c1 /\ -check.pivot \in c2
    <2> SUFFICES ASSUME check.pivot # 0 PROVE check.pivot \in c1 /\ -check.pivot \in c2
        OBVIOUS
    <2>1. Cardinality(pivots) = 1 /\ check.pivot = pivot
        BY DEF CheckResolution
    <2>2. pivots # {}
        BY <2>1, FS_EmptySet
    <2>3. pivot \in pivots
        BY <2>2
    <2> QED BY <2>1, <2>3
<1>5. merged \subseteq {l \in c1 : -l \in c2}
    OBVIOUS
<1> HIDE DEF merged, check
<1>6. SortedClause(merged) \in Seq(merged)
    BY <1>2, SortedClauseType
<1>7. Range(check.merged) \subseteq merged
    BY <1>1, <1>6 DEF Range
<1>8. ASSUME NEW i \in DOMAIN check.merged, NEW j \in DOMAIN check.merged,
             VarOf(check.merged[i]) = VarOf(check.merged[j])
      PROVE  i = j
    <2>1. check.merged[i] = check.merged[j]
        BY <1>1, <1>3, <1>6, <1>8
    <2>2. i \in Nat /\ j \in Nat /\ check.merged[i] \in Int
        <3>1. check.merged \in Seq(merged)
            BY <1>1, <1>6
        <3>2. DOMAIN check.merged \subseteq Nat
            BY <3>1
        <3>3. check.merged[i] \in merged
            BY <3>1
        <3> QED BY <1>2, <3>2, <3>3
    <2>3. ~CompareLits(check.merged[i], check.merged[i])
        BY <2>2 DEF CompareLits, VarOf
    <2>4. i < j \/ j < i \/ i = j
        BY <2>2
    <2> QED BY <1>1, <1>2, <2>1, <2>3, <2>4, SortedClauseAscends
<1> QED BY <1>4, <1>5, <1>7, <1>8 DEF check

(* What a step remembers of the check, but for the merged literals that are dropped. *)
LEMMA StepFields ==
    ASSUME StepInv, MergingPhases \/ Reducing \/ NotReducing
    PROVE  /\ pc \in InStep /\ pc' \in InStep \cup {"return"} /\ step'.pivot = step.pivot
           /\ IF SamePhase THEN step'.merged_lits = DropMerged(step.merged_lits, step.idx)
              ELSE step'.merged_lits = step.merged_lits
           /\ pc' \in {"merge", "eflit"} => pc \in {"merge", "eflit"}
<1>1. {"pivot", "merged_lits", "idx", "lit", "left", "right", "phi"} \subseteq DOMAIN step
    <2>1. DOMAIN step = DOMAIN NewStep
        BY DEF StepInv
    <2> QED BY <2>1 DEF NewStep
<1>2. CASE SamePhase
    <2>1. \E a, b, c, d : step' = [step EXCEPT !.lit = a, !.left = b, !.right = c, !.phi = d,
                              !.merged_lits = DropMerged(step.merged_lits, step.idx), !.idx = step.idx]
        BY <1>2 DEF SamePhase, RecordPhase
    <2>2. pc = "merge" /\ pc' = "eflit"
        BY <1>2 DEF SamePhase, Merging, RecordPhase
    <2> QED BY <1>1, <1>2, <2>1, <2>2 DEF InStep
<1>3. CASE CachedPhase \/ NewPhase
    <2>1. PICK phi : RecordPhase(phi, step.merged_lits, step.idx + 1) /\ PhaseLeft # PhaseRight
                     /\ Merging
        BY <1>3 DEF CachedPhase, NewPhase
    <2>2. \E a, b, c, d : step' = [step EXCEPT !.lit = a, !.left = b, !.right = c, !.phi = d,
                              !.merged_lits = step.merged_lits, !.idx = step.idx + 1]
        BY <2>1 DEF RecordPhase
    <2>3. pc = "merge" /\ pc' = "eflit" /\ ~SamePhase
        BY <2>1 DEF SamePhase, Merging, RecordPhase
    <2> QED BY <1>1, <2>2, <2>3 DEF InStep
<1>4. CASE MergingPhases /\ ~(SamePhase \/ CachedPhase \/ NewPhase)
    <2>1. CASE KnownEflit \/ NewEflit \/ CopyParentPhases
        BY <1>4, <2>1 DEF KnownEflit, NewEflit, CopyParentPhases, InStep
    <2>2. CASE SplitAndShadow
        <3>1. \E a, b, c, d, e : step' = [step EXCEPT !.simple = a, !.merged = b, !.shadcls = c,
                                      !.seq_left = d, !.seq_right = e]
            BY <2>2 DEF SplitAndShadow
        <3>2. pc = "split" /\ pc' \in {"emit", "g"}
            BY <2>2 DEF SplitAndShadow
        <3> QED BY <1>1, <1>4, <3>1, <3>2 DEF InStep
    <2> QED BY <1>4, <2>1, <2>2 DEF MergingPhases
<1>5. CASE Reducing \/ NotReducing
    <2>1. ~SamePhase
        BY <1>5 DEF Reducing, DefineG, AuxGate, ReduceSimple, GLemma, ReduceMerged, PushArrays,
                    NotReducing, EmitResolvent, Reroute, SamePhase, Merging
    <2>2. pc \in InStep \ {"merge", "eflit"} /\ pc' \in (InStep \ {"merge", "eflit"}) \cup {"return"}
        BY <1>5 DEF Reducing, DefineG, AuxGate, ReduceSimple, GLemma, ReduceMerged, PushArrays,
                    NotReducing, EmitResolvent, Reroute, InStep
    <2>3. step'.pivot = step.pivot /\ step'.merged_lits = step.merged_lits
        <3>1. CASE DefineG
            BY <3>1, <1>1 DEF DefineG
        <3>2. CASE AuxGate
            BY <3>2, <1>1 DEF AuxGate
        <3>3. CASE ReduceSimple
            BY <3>3, <1>1 DEF ReduceSimple
        <3>4. CASE GLemma
            BY <3>4, <1>1 DEF GLemma
        <3>5. CASE ReduceMerged
            BY <3>5, <1>1 DEF ReduceMerged
        <3>6. CASE PushArrays \/ NotReducing
            BY <3>6 DEF PushArrays, NotReducing, EmitResolvent, Reroute
        <3> QED BY <1>5, <3>1, <3>2, <3>3, <3>4, <3>5, <3>6 DEF Reducing
    <2> QED BY <2>1, <2>2, <2>3
<1> QED BY <1>2, <1>3, <1>4, <1>5

(* The steps after which the pieces of a step go on. *)
LEMMA StepCourse ==
    ASSUME [Next]_vars, pc' \in InStep
    PROVE  UNCHANGED vars \/ Checking \/ MergingPhases \/ Reducing \/ NotReducing
<1>1. CASE Preparing
    BY <1>1 DEF Preparing, ReadOnAndOn, FirstPass, VisitConstraint, NextSink, OpenProof,
                SearchDone, vars, InStep
<1>2. CASE ReadingLines
    BY <1>2 DEF ReadingLines, ReadingLine, CoreLine, SkipLine, RecordInternalAxiom,
                RecordInputClause, RecordInitialTerm, ReadReduction, ReadResolution,
                NextResolution, InStep
<1>3. CASE Returning
    BY <1>3 DEF Returning, ReturnReduction, ReturnSafetyReduction, ReturnIntermediate,
                ReturnFinal, ReturnCrash, ReturnFailure, InStep
<1>4. CASE Finishing
    BY <1>4 DEF Finishing, EndOfProof, WriteGratProof, CombineFiles, InStep
<1> QED BY <1>1, <1>2, <1>3, <1>4 DEF Next, Translate, Terminated

(* The literal that is dropped gives its place to the last one. *)
LEMMA DropMergedType ==
    ASSUME NEW s \in Seq(NonZero), NEW i \in 1..Len(s)
    PROVE  LET t == DropMerged(s, i)
           IN  /\ Len(t) = Len(s) - 1 /\ DOMAIN t = 1..(Len(s) - 1)
               /\ \A j \in DOMAIN t : t[j] = s[IF j = i THEN Len(s) ELSE j]
<1> DEFINE u == [s EXCEPT ![i] = Last(s)]
<1>1. Len(s) \in Nat /\ DOMAIN s = 1..Len(s) /\ i \in Nat /\ Len(s) >= 1
    OBVIOUS
<1>2. u \in Seq(NonZero) /\ Len(u) = Len(s)
    BY ExceptSeq DEF Last
<1>3. \A j \in DOMAIN s : u[j] = s[IF j = i THEN Len(s) ELSE j]
    BY <1>1 DEF Last
<1> HIDE DEF u
<1>4. /\ Len(SubSeq(u, 1, Len(u) - 1)) = Len(s) - 1
      /\ DOMAIN SubSeq(u, 1, Len(u) - 1) = 1..(Len(s) - 1)
      /\ \A j \in 1..(Len(s) - 1) : SubSeq(u, 1, Len(u) - 1)[j] = u[j]
    BY <1>1, <1>2
<1>5. DropMerged(s, i) = SubSeq(u, 1, Len(u) - 1)
    BY DEF DropMerged, Front, u
<1> QED BY <1>1, <1>3, <1>4, <1>5

(* What is dropped of the merged literals was one of them, and the rest are. *)
LEMMA StepLitsNext == ClauseInv /\ StepInv /\ PhaseInv /\ StepLits /\ [Next]_vars => StepLits'
<1> SUFFICES ASSUME ClauseInv, StepInv, PhaseInv, StepLits, [Next]_vars, pc' \in InStep
             PROVE  StepLits'
    BY DEF StepLits, InStep
<1>1. CASE UNCHANGED vars
    BY <1>1 DEF vars, databaseVars, StepLits, left, right, Clause
<1>2. CASE CheckResolutionStep
    <2> DEFINE check == CheckResolution(var_data, Clause(left), Clause(right), Clause(res),
                                        constraint_type[right])
    <2>1. /\ step'.pivot = check.pivot /\ step'.merged_lits = check.merged
          /\ check.pivot # 0 /\ right # 0
        BY <1>2 DEF CheckResolutionStep, NewStep, InStep
    <2>2. UNCHANGED <<left, right, clause_database>>
        BY <1>2, StepFrame DEF Checking
    <2>3. IsLiteralSet(Clause(left))
        BY ClauseType
    <2>4. /\ Range(check.merged) \subseteq {l \in Clause(left) : -l \in Clause(right)}
          /\ check.pivot # 0 => check.pivot \in Clause(left) /\ -check.pivot \in Clause(right)
        BY <2>3, CheckedLits
    <2> HIDE DEF check
    <2>5. Clause(left)' = Clause(left) /\ Clause(right)' = Clause(right)
        BY <2>2 DEF Clause
    <2> QED BY <2>1, <2>2, <2>4, <2>5 DEF StepLits
<1>3. CASE CheckReductionStep
    BY <1>3 DEF CheckReductionStep, StepLits, right
<1>4. CASE MergingPhases \/ Reducing \/ NotReducing
    <2>1. /\ pc \in InStep /\ step'.pivot = step.pivot
          /\ IF SamePhase THEN step'.merged_lits = DropMerged(step.merged_lits, step.idx)
             ELSE step'.merged_lits = step.merged_lits
          /\ pc' \in {"merge", "eflit"} => pc \in {"merge", "eflit"}
        BY <1>4, StepFields
    <2>2. UNCHANGED <<left, right, clause_database>>
        BY <1>4, StepFrame
    <2>3. Clause(left)' = Clause(left) /\ Clause(right)' = Clause(right)
        BY <2>2 DEF Clause
    <2>4. ASSUME SamePhase PROVE Range(step'.merged_lits) \subseteq Range(step.merged_lits)
        <3> DEFINE s == step.merged_lits
                   t == DropMerged(s, step.idx)
        <3>1. s \in Seq(NonZero) /\ step.idx \in 1..Len(s)
            BY <2>4 DEF StepInv, SamePhase, Merging
        <3>2. /\ DOMAIN t = 1..(Len(s) - 1)
              /\ \A j \in DOMAIN t : t[j] = s[IF j = step.idx THEN Len(s) ELSE j]
            BY <3>1, DropMergedType
        <3>3. Len(s) \in Nat /\ DOMAIN s = 1..Len(s)
            BY <3>1
        <3> HIDE DEF s, t
        <3>4. Range(t) \subseteq Range(s)
            BY <3>1, <3>2, <3>3 DEF Range
        <3> QED BY <2>1, <2>4, <3>4 DEF s, t
    <2> QED BY <2>1, <2>2, <2>3, <2>4 DEF StepLits
<1> QED BY <1>1, <1>2, <1>3, <1>4, StepCourse DEF Checking

-----------------------------------------------------------------------------
(* A variable with a phase has no negative literal without the positive one *)

Regular == Translating /\ Premises

(* A proof that no lookup misses for has been one since the second pass began. *)
LEMMA RegularBack ==
    ASSUME ForgetInv, TypesInv, [Next]_vars, Regular'
    PROVE  OpenProof \/ Regular
<1>1. ControlInv /\ pc' \notin Before \cup {"end"} /\ last_orig_clause_seen \in Nat
    BY DEF ForgetInv, CountedInv, ReadInv, KeptInv, Regular, Translating
<1>2. CASE pc \notin Before \cup {"end"}
    <2>1. Premises
        BY <1>1, <1>2, PremisesBack DEF Regular
    <2> QED BY <1>2, <2>1 DEF Regular, Translating, Premises
<1> QED BY <1>1, <1>2, Course

(* Where a phase comes from. *)
LEMMA PhaseKeys ==
    ASSUME [Next]_vars, pc' \notin Before, NEW k \in DOMAIN phase', k \notin DOMAIN phase
    PROVE  /\ k[1] = res
           /\ \/ CheckReductionStep /\ k[2] \in CopiedVars(phase, Clause(left), left, res)
              \/ (SamePhase \/ CachedPhase \/ NewPhase) /\ k[2] = VarOf(lit)
              \/ /\ CopyParentPhases
                 /\ \/ k[2] \in CopiedVars(phase, Clause(left), left, res)
                    \/ k[2] \in CopiedVars(CopyPhases(phase, Clause(left), left, res),
                                           Clause(right), right, res)
<1>1. ~UNCHANGED phase
    OBVIOUS
<1>2. CASE CheckReductionStep
    BY <1>2, CopiedKeys DEF CheckReductionStep
<1>3. CASE SamePhase \/ CachedPhase \/ NewPhase
    <2>1. \E phi : phase' = Insert(phase, <<res, VarOf(lit)>>, phi)
        BY <1>3 DEF SamePhase, CachedPhase, NewPhase, RecordPhase
    <2>2. k = <<res, VarOf(lit)>>
        BY <2>1 DEF Insert, Put
    <2> QED BY <1>3, <2>2
<1>4. CASE CopyParentPhases
    <2> DEFINE ph1 == CopyPhases(phase, Clause(left), left, res)
    <2>1. phase' = CopyPhases(ph1, Clause(right), right, res)
        BY <1>4 DEF CopyParentPhases
    <2>2. \/ k \in DOMAIN ph1
          \/ k[1] = res /\ k[2] \in CopiedVars(ph1, Clause(right), right, res)
        BY <2>1, CopiedKeys
    <2>3. k \in DOMAIN ph1 =>
              k[1] = res /\ k[2] \in CopiedVars(phase, Clause(left), left, res)
        BY CopiedKeys
    <2> QED BY <1>4, <2>2, <2>3
<1>5. CASE UNCHANGED vars \/ Preparing \/ ReadingLines
    BY <1>1, <1>5 DEF vars, Preparing, ReadOnAndOn, FirstPass, VisitConstraint, NextSink, OpenProof,
                SearchDone, ReadingLines, ReadingLine, CoreLine, SkipLine, RecordInternalAxiom,
                RecordInputClause, RecordInitialTerm, ReadReduction, ReadResolution,
                NextResolution, phaseVars, phaseMaps
<1>6. CASE CheckResolutionStep \/ KnownEflit \/ NewEflit \/ SplitAndShadow
    BY <1>1, <1>6 DEF CheckResolutionStep, KnownEflit, NewEflit, SplitAndShadow, phaseMaps
<1>7. CASE Reducing \/ NotReducing
    BY <1>1, <1>7 DEF Reducing, DefineG, AuxGate, ReduceSimple, GLemma, ReduceMerged, PushArrays,
                      NotReducing, EmitResolvent, Reroute, phaseMaps
<1>8. CASE Returning
    BY <1>1, <1>8 DEF Returning, ReturnReduction, ReturnSafetyReduction, ReturnIntermediate,
                      ReturnFinal, ReturnCrash, ReturnFailure, Forget, ForgetPhases, Without,
                      phaseMaps, phaseVars
<1>9. CASE Finishing
    BY <1>1, <1>9 DEF Finishing, EndOfProof, WriteGratProof, CombineFiles, phaseVars, phaseMaps
<1> QED BY <1>2, <1>3, <1>4, <1>5, <1>6, <1>7, <1>8, <1>9
           DEF Next, Translate, Terminated, Checking, MergingPhases

(* A clause with phases stays, or is forgotten. *)
LEMMA OwnersKeep ==
    ASSUME ForgetInv, [Next]_vars, Translating, Translating', NEW k \in DOMAIN phase
    PROVE  Clause(k[1])' \in {Clause(k[1]), {}}
<1>1. /\ ControlInv /\ pc' \notin Before \cup {"end"} /\ pc \notin Before
      /\ k[1] \in (ReadIds \cap DOMAIN sinks_of) \cup StepIds
    BY DEF ForgetInv, CountedInv, ReadInv, PhaseInv, PhasesOf, Translating
<1>2. ASSUME UNCHANGED clause_database PROVE Clause(k[1])' = Clause(k[1])
    BY <1>2 DEF Clause
<1>3. ASSUME NEW ids, clause_database' = Without(clause_database, ids)
      PROVE  Clause(k[1])' \in {Clause(k[1]), {}}
    BY <1>3 DEF Clause, Without
<1>4. CASE k[1] \in ReadIds \cap DOMAIN sinks_of
    <2>1. Keeps(k[1]) \/ k[1] \notin DOMAIN clause_database'
        BY <1>4, OldLines
    <2> QED BY <2>1 DEF Keeps, Clause
<1>5. CASE k[1] \in StepIds
    <2>1. CASE UNCHANGED vars \/ EndOfProof \/ WriteGratProof \/ ReturnReduction
        <3>1. UNCHANGED clause_database
            BY <2>1 DEF vars, databaseVars, EndOfProof, WriteGratProof, ReturnReduction
        <3> QED BY <1>2, <3>1
    <2>2. ~(ReadingLines /\ ~NextResolution)
        <3>1. pc # "line"
            BY <1>5 DEF StepIds, InLine
        <3> QED BY <3>1 DEF ReadingLines, ReadingLine, CoreLine, SkipLine, RecordInternalAxiom,
                            RecordInputClause, RecordInitialTerm, ReadReduction, ReadResolution
    <2>3. CASE NextResolution
        <3>1. /\ pc = "chain"
              /\ \/ UNCHANGED clause_database
                 \/ \E c : clause_database' = Put(clause_database, spare_id + chain.spare, c)
            BY <2>3 DEF NextResolution
        <3>2. k[1] = chain.left
            BY <1>5, <3>1 DEF StepIds
        <3>3. k[1] # spare_id + chain.spare
            BY <3>1, <3>2, ChainLeft
        <3> QED BY <1>2, <3>1, <3>3 DEF Clause, Put
    <2>4. CASE Checking \/ MergingPhases \/ Reducing \/ NotReducing
        BY <1>2, <2>4, StepFrame
    <2>5. ~ReturnSafetyReduction
        BY <1>5 DEF StepIds, InLine, ReturnSafetyReduction
    <2>6. CASE ReturnIntermediate \/ ReturnFinal
        <3>1. \E ids : clause_database' = Without(clause_database, ids)
            BY <2>6 DEF ReturnIntermediate, ReturnFinal, Forget
        <3> QED BY <1>3, <3>1
    <2>7. ~OpenProof
        BY <1>1 DEF OpenProof, SearchDone, Before
    <2> QED BY <1>1, <2>1, <2>2, <2>3, <2>4, <2>5, <2>6, <2>7, Course
<1> QED BY <1>1, <1>4, <1>5

PairInv ==
    Regular => \A k \in DOMAIN phase : -k[2] \in Clause(k[1]) => k[2] \in Clause(k[1])

(* A pair of literals is merged as a whole, and lost as a whole. *)
LEMMA PairNext ==
    /\ ForgetInv /\ TypesInv /\ StoredInv /\ WorkStored /\ RightParent /\ CallLits /\ StepLits
    /\ PairInv /\ [Next]_vars
    => PairInv'
<1> SUFFICES ASSUME ForgetInv, TypesInv, StoredInv, WorkStored, RightParent, CallLits, StepLits,
                    PairInv, [Next]_vars, Regular', NEW k \in DOMAIN phase',
                    -k[2] \in Clause(k[1])'
             PROVE  k[2] \in Clause(k[1])'
    BY DEF PairInv
<1>1. /\ ControlInv /\ SinksInv /\ ClauseInv /\ StepInv /\ pc' \notin Before \cup {"end"}
      /\ Translating'
    BY DEF ForgetInv, CountedInv, ReadInv, Regular, Translating
<1>2. ~OpenProof
    <2> SUFFICES ASSUME OpenProof PROVE FALSE
        OBVIOUS
    <2>1. phase' = EmptyMap
        BY DEF OpenProof, SearchDone, phaseMaps, PhaseInv, ForgetInv, Before
    <2> QED BY <2>1 DEF EmptyMap
<1>3. Regular /\ Translating /\ Premises
    BY <1>2, RegularBack DEF Regular
<1>4. CASE k \in DOMAIN phase
    <2>1. Clause(k[1])' = Clause(k[1])
        BY <1>1, <1>3, <1>4, OwnersKeep
    <2> QED BY <1>3, <1>4, <2>1 DEF PairInv
<1>5. CASE k \notin DOMAIN phase
    <2> DEFINE v == k[2]
               copied1 == CopiedVars(phase, Clause(left), left, res)
               ph1 == CopyPhases(phase, Clause(left), left, res)
               copied2 == CopiedVars(ph1, Clause(right), right, res)
    <2>1. /\ k[1] = res
          /\ \/ CheckReductionStep /\ v \in copied1
             \/ (SamePhase \/ CachedPhase \/ NewPhase) /\ v = VarOf(lit)
             \/ CopyParentPhases /\ (v \in copied1 \/ v \in copied2)
        BY <1>1, <1>5, PhaseKeys
    <2>2. Checking \/ MergingPhases
        BY <2>1 DEF Checking, MergingPhases
    <2>3. pc \in InLine \ {"chain"} /\ UNCHANGED clause_database
        BY <2>2, StepFrame
    <2>4. -v \in Clause(res) /\ (v \in Clause(res) => v \in Clause(k[1])')
        BY <2>1, <2>3 DEF Clause
    <2>5. ASSUME NEW lits, lits = Clause(left) \/ (right # 0 /\ lits = Clause(right)), v \in lits,
                 v > 0, line.parents # <<>>
          PROVE  v \in Clause(res)
        <3>1. PairsFrom(lits, res)
            BY <1>3, <2>3, <2>5, WholePairs
        <3> QED BY <2>4, <2>5, <3>1 DEF PairsFrom
    <2>6. ASSUME NEW id, <<id, v>> \in DOMAIN phase, v \in VarsOf(Clause(id))
          PROVE  v \in Clause(id) /\ v > 0
        <3>1. PICK l \in Clause(id) : v = VarOf(l)
            BY <2>6 DEF VarsOf
        <3>2. IsLiteralSet(Clause(id))
            BY <1>1, ClauseType
        <3>3. l \in Int /\ VarOf(l) > 0
            BY <3>1, <3>2 DEF IsLiteralSet
        <3>4. v \in {l, -l} /\ -v \in {l, -l} /\ v > 0
            BY <3>1, <3>3 DEF VarOf
        <3>5. -v \in Clause(id) => v \in Clause(id)
            BY <1>3, <2>6 DEF PairInv
        <3>6. v = l \/ -v = l
            BY <3>3, <3>4
        <3> QED BY <3>1, <3>4, <3>5, <3>6
    <2>7. CASE v \in copied1
        <3>1. <<left, v>> \in DOMAIN phase /\ v \in VarsOf(Clause(left))
            BY <2>7 DEF CopiedVars
        <3>2. v \in Clause(left) /\ v > 0
            BY <2>6, <3>1
        <3>3. line.parents # <<>>
            <4> SUFFICES ASSUME line.parents = <<>> PROVE FALSE
                OBVIOUS
            <4>1. left = line.id
                BY <2>3 DEF CallShape, ForgetInv
            <4>2. left \in (ReadIds \cap DOMAIN sinks_of) \cup StepIds
                BY <1>3, <3>1 DEF ForgetInv, PhaseInv, PhasesOf
            <4>3. line.id \notin ReadIds
                BY <1>1, <1>3, <2>3, ResIsNew DEF ForgetInv
            <4> QED BY <2>3, <4>1, <4>2, <4>3 DEF StepIds
        <3> QED BY <2>4, <2>5, <3>2, <3>3
    <2>8. CASE v \in copied2 /\ CopyParentPhases
        <3>1. right # 0
            BY <2>8 DEF CopyParentPhases, ForgetInv, PhaseInv
        <3>2. right # res /\ line.parents # <<>>
            <4>1. right \in Range(line.parents)
                BY <1>3, <2>3, <3>1 DEF RightParent
            <4> QED BY <1>1, <1>3, <2>3, <3>1, <4>1, ResIsNew DEF ForgetInv, CallShape
        <3>3. <<right, v>> \in DOMAIN ph1 /\ v \in VarsOf(Clause(right))
            BY <2>8 DEF CopiedVars
        <3>4. SameBut(ph1, phase, res)
            BY CopyElsewhere
        <3>5. <<right, v>> \in DOMAIN phase
            <4> HIDE DEF ph1
            <4> QED BY <3>2, <3>3, <3>4 DEF SameBut
        <3>6. v \in Clause(right) /\ v > 0
            BY <2>6, <3>3, <3>5
        <3> QED BY <2>4, <2>5, <3>1, <3>2, <3>6
    <2>9. CASE (SamePhase \/ CachedPhase \/ NewPhase) /\ v = VarOf(lit)
        <3>1. /\ pc = "merge" /\ step.idx \in Nat \ {0} /\ step.merged_lits \in Seq(NonZero)
              /\ step.idx <= Len(step.merged_lits)
            BY <1>1, <2>9 DEF SamePhase, CachedPhase, NewPhase, Merging, StepInv
        <3>2. step.idx \in DOMAIN step.merged_lits /\ lit \in NonZero
            BY <3>1 DEF lit
        <3>3. right # 0 /\ lit \in Clause(left) /\ -lit \in Clause(right)
            BY <3>1, <3>2 DEF StepLits, Range, lit
        <3>4. v \in {lit, -lit} /\ v > 0
            BY <2>9, <3>2 DEF VarOf, NonZero
        <3>5. line.parents # <<>>
            BY <2>3, <3>3 DEF ForgetInv, CallShape
        <3>6. v \in Clause(left) \/ v \in Clause(right)
            BY <3>3, <3>4
        <3> QED BY <2>4, <2>5, <3>3, <3>4, <3>5, <3>6
    <2> QED BY <2>1, <2>7, <2>8, <2>9
<1> QED BY <1>4, <1>5

-----------------------------------------------------------------------------
(* The lookups for an effective literal *)

EflitKeys == \A k \in DOMAIN eflit : k[2] \in 1..max_var /\ eflit[k] \in DOMAIN eflit_def

\* The effective literals of the phases that were merged, and where their phase is from.
PendingEflit ==
    pc = "eflit" =>
        /\ step.lit \in NonZero /\ step.phi \in 1..max_var
        /\ ~IsConst(step.left) => <<VarOf(step.lit), step.left>> \in DOMAIN eflit
        /\ ~IsConst(step.right) => <<VarOf(step.lit), step.right>> \in DOMAIN eflit
        /\ \/ step.left = step.right /\ step.phi = step.left /\ ~IsConst(step.left)
           \/ \E k \in DOMAIN phase_cache :
                  k = CacheKey(step.pivot, step.left, step.right) /\ phase_cache[k] = step.phi

(* The phases of both parents' literals are looked up before they are merged. *)
LEMMA PendingEflitNext ==
    MapInv /\ PhasesHaveEflits /\ PendingEflit /\ [Next]_vars => PendingEflit'
<1> SUFFICES ASSUME MapInv, PhasesHaveEflits, PendingEflit, [Next]_vars, pc' = "eflit"
             PROVE  PendingEflit'
    BY DEF PendingEflit
<1>1. /\ VarInv /\ StepInv /\ max_var \in Nat /\ max_var < CONST_TRUE
    BY ConstAssumption DEF MapInv, VarInv
<1>2. CASE UNCHANGED vars
    BY <1>2 DEF vars, phaseVars, eflitMaps, PendingEflit
<1>3. CASE SamePhase \/ CachedPhase \/ NewPhase
    <2>1. /\ Merging /\ UNCHANGED eflit
          /\ step'.lit = lit /\ step'.left = PhaseLeft /\ step'.right = PhaseRight
          /\ step'.pivot = step.pivot
        <3>1. PICK phi, lits, idx : RecordPhase(phi, lits, idx)
            BY <1>3 DEF SamePhase, CachedPhase, NewPhase
        <3>2. {"pivot", "lit", "left", "right", "phi", "merged_lits", "idx"} \subseteq DOMAIN step
            BY <1>1 DEF StepInv, NewStep
        <3>3. /\ step'.lit = lit /\ step'.left = PhaseLeft /\ step'.right = PhaseRight
              /\ step'.pivot = step.pivot
            BY <3>1, <3>2 DEF RecordPhase
        <3>4. Merging /\ UNCHANGED eflit
            BY <1>3 DEF SamePhase, CachedPhase, NewPhase, eflitMaps
        <3> QED BY <3>3, <3>4
    <2>2. lit \in NonZero
        <3>1. step.merged_lits \in Seq(NonZero) /\ step.idx \in DOMAIN step.merged_lits
            BY <1>1, <2>1 DEF StepInv, Merging
        <3> QED BY <3>1 DEF lit
    <2>3. \A k \in DOMAIN phase : <<k[2], phase[k]>> \in DOMAIN eflit
        BY <2>1 DEF PhasesHaveEflits, Merging
    <2>4. ASSUME NEW id, NEW l, ~IsConst(GetPhase(id, l))
          PROVE  <<VarOf(l), GetPhase(id, l)>> \in DOMAIN eflit
        BY <2>3, <2>4 DEF GetPhase, IsConst
    <2>5. VarOf(-lit) = VarOf(lit)
        BY <2>2 DEF VarOf, NonZero
    <2>6. /\ ~IsConst(PhaseLeft) => <<VarOf(lit), PhaseLeft>> \in DOMAIN eflit
          /\ ~IsConst(PhaseRight) => <<VarOf(lit), PhaseRight>> \in DOMAIN eflit
        BY <2>4, <2>5 DEF PhaseLeft, PhaseRight
    <2>7. "phi" \in DOMAIN step
        BY <1>1 DEF StepInv, NewStep
    <2>8. CASE SamePhase
        <3>1. step'.phi = PhaseLeft /\ PhaseLeft = PhaseRight /\ UNCHANGED max_var
            BY <2>7, <2>8 DEF SamePhase, RecordPhase
        <3>2. PhaseLeft \in 1..max_var
            BY <1>1, <2>2, <3>1, EqualPhases DEF PhaseLeft, PhaseRight
        <3>3. ~IsConst(PhaseLeft)
            BY <1>1, <3>2, ConstAssumption DEF IsConst, CONST_FALSE
        <3>4. (\A x : IsConst(x)' <=> IsConst(x))
            BY DEF IsConst, CONST_FALSE
        <3> QED BY <2>1, <2>2, <2>6, <3>1, <3>2, <3>3 DEF PendingEflit, IsConst
    <2>9. CASE CachedPhase
        <3>1. step'.phi = phase_cache[Key] /\ Key \in DOMAIN phase_cache
              /\ UNCHANGED <<max_var, phase_cache>>
            BY <2>7, <2>9 DEF CachedPhase, RecordPhase, eflitMaps
        <3>2. phase_cache[Key] \in 1..max_var
            BY <1>1, <3>1 DEF VarInv, ValuesBelow
        <3> QED BY <2>1, <2>2, <2>6, <3>1, <3>2 DEF PendingEflit, IsConst, Key
    <2>10. CASE NewPhase
        <3>1. step'.phi = max_var' /\ max_var' = max_var + 1
              /\ phase_cache' = Insert(phase_cache, Key, max_var') /\ Key \notin DOMAIN phase_cache
            BY <2>7, <2>10 DEF NewPhase, UpdatePhase, Fresh, RecordPhase, Key
        <3>2. max_var' \in 1..max_var'
            BY <1>1, <3>1
        <3>3. Key \in DOMAIN phase_cache' /\ phase_cache'[Key] = step'.phi
            BY <3>1 DEF Insert, Put
        <3> QED BY <2>1, <2>2, <2>6, <3>1, <3>2, <3>3 DEF PendingEflit, IsConst, Key
    <2> QED BY <1>3, <2>8, <2>9, <2>10
<1>4. ~KnownEflit /\ ~NewEflit /\ ~CopyParentPhases /\ ~SplitAndShadow
    BY DEF KnownEflit, NewEflit, CopyParentPhases, SplitAndShadow
<1>5. ~Checking
    BY DEF Checking, CheckResolutionStep, CheckReductionStep
<1>6. ~Reducing /\ ~NotReducing
    BY DEF Reducing, DefineG, AuxGate, ReduceSimple, GLemma, ReduceMerged, PushArrays, NotReducing,
           EmitResolvent, Reroute
<1> QED BY <1>2, <1>3, <1>4, <1>5, <1>6, StepCourse DEF MergingPhases, InStep

(* An effective literal is looked up by variable and phase, and has a definition. *)
LEMMA EflitKeysNext == MapInv /\ PendingEflit /\ EflitKeys /\ [Next]_vars => EflitKeys'
<1> SUFFICES ASSUME MapInv, PendingEflit, EflitKeys, [Next]_vars PROVE EflitKeys'
    OBVIOUS
<1>1. max_var \in Nat /\ max_var' \in Nat /\ max_var <= max_var'
    BY MaxVarGrows DEF MapInv
<1>2. \A n \in 1..max_var : n \in 1..max_var'
    BY <1>1
<1>3. NewPhase \/ NewEflit \/ UNCHANGED eflitMaps
    BY StageNext DEF MapInv, StageStep
<1>4. CASE NewPhase \/ UNCHANGED eflitMaps
    <2>1. UNCHANGED <<eflit, eflit_def>>
        BY <1>4 DEF NewPhase, eflitMaps
    <2> QED BY <1>2, <2>1 DEF EflitKeys
<1>5. CASE NewEflit
    <2> DEFINE e == Fresh(1)
               key == <<VarOf(step.lit), step.phi>>
    <2>1. /\ eflit' = Put(eflit, key, e) /\ key \notin DOMAIN eflit
          /\ eflit_def' = Put(eflit_def, e, CertId(1)) /\ pc = "eflit"
        BY <1>5 DEF NewEflit, MakeEflit, Insert
    <2>2. key[2] \in 1..max_var
        BY <2>1 DEF PendingEflit
    <2> HIDE DEF key, e
    <2> QED BY <1>2, <2>1, <2>2 DEF EflitKeys, Put
<1> QED BY <1>3, <1>4, <1>5

(* The lemmas for a new effective literal look up the definitions of its phase and of its
   parents' effective literals, and find them. *)
LEMMA EflitLookups ==
    ASSUME MapInv, PivotInv, CacheInv, EflitKeys, PendingEflit, NewEflit
    PROVE  UNCHANGED default_inserted
<1> DEFINE var == VarOf(step.lit)
           phi == step.phi
           eflit2 == Insert(eflit, <<var, phi>>, Fresh(1))
           ef1 == EflitIn(eflit2, step.lit, step.left)
           ef2 == EflitIn(eflit2, -step.lit, step.right)
           keys == SideKeys(step.pivot, ef1, step.left, phi)
                   \cup SideKeys(-step.pivot, ef2, step.right, phi)
<1>1. /\ pc = "eflit" /\ <<var, phi>> \notin DOMAIN eflit
      /\ default_inserted' = default_inserted \cup MissingKeys(keys)
    BY DEF NewEflit, MakeEflit
<1>2. step.lit \in NonZero /\ VarOf(-step.lit) = var
    BY <1>1 DEF PendingEflit, VarOf, NonZero
<1>3. PICK k \in DOMAIN phase_cache :
          k = CacheKey(step.pivot, step.left, step.right) /\ phase_cache[k] = phi
    BY <1>1 DEF PendingEflit
<1>4. /\ <<step.pivot, phi>> \in DOMAIN phase_def
      /\ <<-step.pivot, phi>> \in DOMAIN phase_def
    <2>1. step.pivot \in NonZero
        BY <1>1 DEF PivotInv
    <2>2. k[1] \in {step.pivot, -step.pivot} /\ -k[1] \in {step.pivot, -step.pivot}
        BY <1>3, <2>1, KeyType
    <2>3. <<k[1], phi>> \in DOMAIN phase_def /\ <<-k[1], phi>> \in DOMAIN phase_def
        BY <1>3 DEF CacheInv
    <2>4. step.pivot \in Int /\ step.pivot # -step.pivot
        BY <2>1 DEF NonZero
    <2> QED BY <2>2, <2>3, <2>4
<1>5. ASSUME NEW l, VarOf(l) = var, NEW ph, ~IsConst(ph), <<var, ph>> \in DOMAIN eflit
      PROVE  EflitIn(eflit2, l, ph) \in DOMAIN eflit_def
    <2>1. eflit2 = Put(eflit, <<var, phi>>, Fresh(1))
        BY <1>1 DEF Insert
    <2>2. <<var, ph>> \in DOMAIN eflit2 /\ eflit2[<<var, ph>>] = eflit[<<var, ph>>]
        BY <1>1, <1>5, <2>1 DEF Put
    <2> HIDE DEF eflit2
    <2> QED BY <1>5, <2>2 DEF EflitIn, EflitKeys
<1>6. /\ ~IsConst(step.left) => ef1 \in DOMAIN eflit_def
      /\ ~IsConst(step.right) => ef2 \in DOMAIN eflit_def
    <2>1. /\ ~IsConst(step.left) => <<var, step.left>> \in DOMAIN eflit
          /\ ~IsConst(step.right) => <<var, step.right>> \in DOMAIN eflit
        BY <1>1 DEF PendingEflit
    <2> HIDE DEF eflit2
    <2> QED BY <1>2, <1>5, <2>1
<1> HIDE DEF ef1, ef2, phi
<1>7. ASSUME NEW k1 \in keys
      PROVE  \/ k1[1] = "phase_def" /\ k1[2] \in DOMAIN phase_def
             \/ k1[1] = "eflit_def" /\ k1[2] \in DOMAIN eflit_def
    BY <1>4, <1>6 DEF SideKeys
<1> HIDE DEF keys
<1>8. MissingKeys(keys) = {}
    BY <1>7 DEF MissingKeys
<1> QED BY <1>1, <1>8

\* An effective literal under a phase can be falsified on either side of the phase's pivot.
ShortcutInv ==
    \A k \in DOMAIN phase_cache : \A j \in DOMAIN eflit :
        j[2] = phase_cache[k] =>
            {<<k[1], eflit[j]>>, <<-k[1], eflit[j]>>} \subseteq DOMAIN eflit_shortcut

(* The shortcuts are written with the effective literal. *)
LEMMA ShortcutNext ==
    MapInv /\ PivotInv /\ CacheInv /\ EflitKeys /\ PendingEflit /\ ShortcutInv /\ [Next]_vars
    => ShortcutInv'
<1> SUFFICES ASSUME MapInv, PivotInv, CacheInv, EflitKeys, PendingEflit, ShortcutInv, [Next]_vars
             PROVE  ShortcutInv'
    OBVIOUS
<1>1. max_var \in Nat
    BY ConstAssumption DEF MapInv, VarInv
<1>2. NewPhase \/ NewEflit \/ UNCHANGED eflitMaps
    BY StageNext DEF MapInv, StageStep
<1>3. CASE UNCHANGED eflitMaps
    BY <1>3 DEF eflitMaps, ShortcutInv
<1>4. CASE NewPhase
    <2>1. /\ phase_cache' = Insert(phase_cache, Key, max_var + 1)
          /\ UNCHANGED <<eflit, eflit_shortcut>>
        BY <1>4 DEF NewPhase, UpdatePhase, Fresh, Key
    <2>2. \A j \in DOMAIN eflit : j[2] # max_var + 1
        BY <1>1 DEF EflitKeys
    <2>3. ASSUME NEW k \in DOMAIN phase_cache', NEW j \in DOMAIN eflit, j[2] = phase_cache'[k]
          PROVE  {<<k[1], eflit[j]>>, <<-k[1], eflit[j]>>} \subseteq DOMAIN eflit_shortcut
        <3>1. k \in DOMAIN phase_cache /\ phase_cache'[k] = phase_cache[k]
            BY <2>1, <2>2, <2>3 DEF Insert, Put
        <3> QED BY <2>3, <3>1 DEF ShortcutInv
    <2> QED BY <2>1, <2>3 DEF ShortcutInv
<1>5. CASE NewEflit
    <2> DEFINE e == Fresh(1)
               key == <<VarOf(step.lit), step.phi>>
               piv == step.pivot
    <2>1. /\ eflit' = Put(eflit, key, e) /\ key \notin DOMAIN eflit /\ UNCHANGED phase_cache
          /\ \E a, b : eflit_shortcut' = Put(Put(eflit_shortcut, <<piv, e>>, a), <<-piv, e>>, b)
          /\ pc = "eflit"
        BY <1>5 DEF NewEflit, MakeEflit, Insert
    <2>2. PICK m \in DOMAIN phase_cache :
              m = CacheKey(piv, step.left, step.right) /\ phase_cache[m] = step.phi
        BY <2>1 DEF PendingEflit
    <2>3. piv \in NonZero
        BY <2>1 DEF PivotInv
    <2>4. m[1] \in {piv, -piv} /\ -m[1] \in {piv, -piv}
        BY <2>2, <2>3, KeyType
    <2>5. DOMAIN eflit_shortcut' = DOMAIN eflit_shortcut \cup {<<piv, e>>, <<-piv, e>>}
        BY <2>1 DEF Put
    <2>6. ASSUME NEW k \in DOMAIN phase_cache, NEW j \in DOMAIN eflit', j[2] = phase_cache[k]
          PROVE  {<<k[1], eflit'[j]>>, <<-k[1], eflit'[j]>>} \subseteq DOMAIN eflit_shortcut'
        <3>1. CASE j = key
            <4>1. k = m
                BY <2>2, <2>6, <3>1 DEF CacheInv
            <4>2. eflit'[j] = e
                BY <2>1, <3>1 DEF Put
            <4> QED BY <2>4, <2>5, <4>1, <4>2
        <3>2. CASE j # key
            <4>1. j \in DOMAIN eflit /\ eflit'[j] = eflit[j]
                BY <2>1, <2>6, <3>2 DEF Put
            <4> QED BY <2>5, <2>6, <4>1 DEF ShortcutInv
        <3> QED BY <3>1, <3>2
    <2> QED BY <2>1, <2>6 DEF ShortcutInv
<1> QED BY <1>2, <1>3, <1>4, <1>5

-----------------------------------------------------------------------------
(* The lookups for the shortcuts of the merged literals *)

\* The phase of a merged literal chooses by the pivot of the step.
MergedPhase(l) ==
    /\ <<res, VarOf(l)>> \in DOMAIN phase
    /\ \E k \in DOMAIN phase_cache :
           step.pivot \in {k[1], -k[1]} /\ phase[<<res, VarOf(l)>>] = phase_cache[k]

MergeInv ==
    Translating =>
        /\ pc \in {"merge", "eflit"} =>
            /\ \A i, j \in DOMAIN step.merged_lits :
                   VarOf(step.merged_lits[i]) = VarOf(step.merged_lits[j]) => i = j
            /\ \A i \in DOMAIN step.merged_lits :
                   IF i < step.idx THEN MergedPhase(step.merged_lits[i])
                   ELSE <<res, VarOf(step.merged_lits[i])>> \notin DOMAIN phase
        /\ pc = "split" => \A i \in DOMAIN step.merged_lits : MergedPhase(step.merged_lits[i])

(* What is recorded of a merge. *)
LEMMA RecordedFields ==
    ASSUME StepInv, NEW phi, NEW lits, NEW idx, RecordPhase(phi, lits, idx)
    PROVE  /\ step'.pivot = step.pivot /\ step'.reduced_lits = step.reduced_lits
           /\ step'.merged_lits = lits /\ step'.idx = idx
<1>1. {"pivot", "lit", "left", "right", "phi", "merged_lits", "idx", "reduced_lits"} \subseteq DOMAIN step
    BY DEF StepInv, NewStep
<1> QED BY <1>1 DEF RecordPhase

(* copy_phases keeps the phases that are there. *)
LEMMA CopyKeeps ==
    ASSUME NEW ph, NEW clause, NEW src, NEW dest, NEW k \in DOMAIN ph
    PROVE  LET copy == CopyPhases(ph, clause, src, dest)
           IN  k \in DOMAIN copy /\ copy[k] = ph[k]
<1>1. k \notin {<<dest, v>> : v \in CopiedVars(ph, clause, src, dest)}
    BY DEF CopiedVars
<1> QED BY <1>1 DEF CopyPhases

(* A new resolvent has no phases. *)
LEMMA NewHasNoPhase ==
    ASSUME ForgetInv, Translating, pc = "check"
    PROVE  \A k \in DOMAIN phase : k[1] # res
<1>1. ControlInv /\ SinksInv
    BY DEF ForgetInv, CountedInv, ReadInv
<1>2. \A k \in DOMAIN phase : k[1] \in (ReadIds \cap DOMAIN sinks_of) \cup StepIds
    BY DEF ForgetInv, PhaseInv, PhasesOf
<1>3. StepIds \subseteq {left}
    BY DEF StepIds, InLine
<1>4. res \notin ReadIds \cap DOMAIN sinks_of /\ left # res
    BY <1>1, ResIsNew DEF ForgetInv, InLine
<1> QED BY <1>2, <1>3, <1>4

(* The merged literals get their phases one after the other; one that has the same phase on
   both sides is no merged literal any more. *)
LEMMA MergeNext == ForgetInv /\ PivotInv /\ MergeInv /\ [Next]_vars => MergeInv'
<1> SUFFICES ASSUME ForgetInv, PivotInv, MergeInv, [Next]_vars, Translating',
                    pc' \in {"merge", "eflit", "split"}
             PROVE  MergeInv'
    BY DEF MergeInv
<1>1. Translating /\ StepInv /\ ClauseInv
    BY LineCourse DEF ForgetInv, CountedInv, InLine
<1> DEFINE s == step.merged_lits
           n == step.idx
<1>2. CASE UNCHANGED vars
    BY <1>1, <1>2 DEF vars, phaseVars, phaseMaps, eflitMaps, MergeInv, MergedPhase, res
<1>3. CASE CheckResolutionStep
    <2> DEFINE check == CheckResolution(var_data, Clause(left), Clause(right), Clause(res),
                                        constraint_type[right])
    <2>1. /\ step'.merged_lits = check.merged /\ step'.idx = 1 /\ pc' = "merge"
          /\ UNCHANGED phase /\ pc = "check"
        BY <1>3 DEF CheckResolutionStep, NewStep, InStep
    <2>2. UNCHANGED res
        BY <1>3, StepFrame DEF Checking
    <2>3. IsLiteralSet(Clause(left))
        BY <1>1, ClauseType
    <2>4. \A i, j \in DOMAIN check.merged : VarOf(check.merged[i]) = VarOf(check.merged[j]) => i = j
        BY <2>3, CheckedLits
    <2>5. \A i \in DOMAIN check.merged : ~(i < 1)
        <3>1. step'.merged_lits \in Seq(NonZero)
            BY <1>1, <1>3, StepNext, <2>1 DEF StepInv
        <3> HIDE DEF check
        <3> QED BY <2>1, <3>1
    <2> HIDE DEF check
    <2>6. \A i \in DOMAIN check.merged : <<res, VarOf(check.merged[i])>> \notin DOMAIN phase
        BY <1>1, <2>1, NewHasNoPhase
    <2> QED BY <2>1, <2>2, <2>4, <2>5, <2>6 DEF MergeInv
<1>4. CASE CheckReductionStep
    BY <1>4 DEF CheckReductionStep, NewStep, MergeInv
<1>5. ASSUME Merging
      PROVE  /\ s \in Seq(NonZero) /\ n \in Nat \ {0} /\ Len(s) \in Nat /\ DOMAIN s = 1..Len(s)
             /\ n \in DOMAIN s /\ lit = s[n] /\ <<res, VarOf(lit)>> \notin DOMAIN phase
             /\ \A i, j \in DOMAIN s : VarOf(s[i]) = VarOf(s[j]) => i = j
             /\ \A i \in DOMAIN s :
                    IF i < n THEN MergedPhase(s[i]) ELSE <<res, VarOf(s[i])>> \notin DOMAIN phase
    <2>1. s \in Seq(NonZero) /\ n \in Nat \ {0} /\ n <= Len(s)
        BY <1>1, <1>5 DEF Merging, StepInv
    <2>2. n \in DOMAIN s /\ ~(n < n) /\ Len(s) \in Nat /\ DOMAIN s = 1..Len(s)
        BY <2>1
    <2> QED BY <1>1, <1>5, <2>1, <2>2 DEF MergeInv, Merging, lit
<1>6. CASE SamePhase
    <2> DEFINE t == DropMerged(s, n)
    <2>1. /\ step'.merged_lits = t /\ step'.idx = n /\ step'.pivot = step.pivot
          /\ phase' = Insert(phase, <<res, VarOf(lit)>>, PhaseLeft) /\ pc' = "eflit"
          /\ UNCHANGED phase_cache /\ Merging
        <3>1. RecordPhase(PhaseLeft, t, n) /\ Merging /\ UNCHANGED phase_cache
            BY <1>6 DEF SamePhase, eflitMaps
        <3> HIDE DEF t
        <3> QED BY <1>1, <3>1, RecordedFields DEF RecordPhase
    <2>2. UNCHANGED res
        BY <1>6, StepFrame DEF MergingPhases
    <2>3. /\ DOMAIN t = 1..(Len(s) - 1)
          /\ \A j \in DOMAIN t : t[j] = s[IF j = n THEN Len(s) ELSE j]
        BY <1>5, <2>1, DropMergedType
    <2> HIDE DEF s, n, t
    <2>4. phase' = Put(phase, <<res, VarOf(lit)>>, PhaseLeft)
        BY <1>5, <2>1 DEF Insert
    <2>5. ASSUME NEW i \in DOMAIN t, NEW j \in DOMAIN t, VarOf(t[i]) = VarOf(t[j])
          PROVE  i = j
        BY <1>5, <2>1, <2>3, <2>5
    <2>6. ASSUME NEW i \in DOMAIN t
          PROVE  \E l : /\ l = t[i]
                        /\ IF i < n THEN MergedPhase(l)' ELSE <<res, VarOf(l)>> \notin DOMAIN phase'
        <3> DEFINE m == IF i = n THEN Len(s) ELSE i
        <3>1. m \in DOMAIN s /\ m # n /\ t[i] = s[m] /\ (m < n <=> i < n)
            BY <1>5, <2>1, <2>3
        <3>2. VarOf(t[i]) # VarOf(lit)
            BY <1>5, <2>1, <3>1
        <3>3. IF i < n THEN MergedPhase(t[i]) ELSE <<res, VarOf(t[i])>> \notin DOMAIN phase
            BY <1>5, <2>1, <3>1
        <3>4. /\ <<res, VarOf(t[i])>> \in DOMAIN phase' <=> <<res, VarOf(t[i])>> \in DOMAIN phase
              /\ <<res, VarOf(t[i])>> \in DOMAIN phase =>
                     phase'[<<res, VarOf(t[i])>>] = phase[<<res, VarOf(t[i])>>]
            BY <2>4, <3>2 DEF Put
        <3>5. PICK l : l = t[i]
            OBVIOUS
        <3>6. MergedPhase(l) => MergedPhase(l)'
            BY <2>1, <2>2, <3>4, <3>5 DEF MergedPhase
        <3>7. IF i < n THEN MergedPhase(l)' ELSE <<res, VarOf(l)>> \notin DOMAIN phase'
            BY <3>3, <3>4, <3>5, <3>6
        <3> QED BY <3>5, <3>7
    <2>7. ASSUME NEW i \in DOMAIN step'.merged_lits
          PROVE  IF i < step'.idx THEN MergedPhase(step.merged_lits[i])'
                 ELSE <<res', VarOf(step'.merged_lits[i])>> \notin DOMAIN phase'
        <3>1. PICK l : /\ l = step'.merged_lits[i]
                       /\ IF i < n THEN MergedPhase(l)' ELSE <<res, VarOf(l)>> \notin DOMAIN phase'
            BY <2>1, <2>6
        <3> QED BY <2>1, <2>2, <3>1 DEF MergedPhase
    <2> QED BY <2>1, <2>5, <2>7 DEF MergeInv
<1>7. CASE CachedPhase \/ NewPhase
    <2>1. PICK phi : /\ step'.merged_lits = s /\ step'.idx = n + 1 /\ step'.pivot = step.pivot
                     /\ phase' = Insert(phase, <<res, VarOf(lit)>>, phi) /\ pc' = "eflit"
                     /\ Key \in DOMAIN phase_cache' /\ phase_cache'[Key] = phi
                     /\ \A k \in DOMAIN phase_cache :
                            k \in DOMAIN phase_cache' /\ phase_cache'[k] = phase_cache[k]
                     /\ Merging
        <3>1. CASE CachedPhase
            <4>1. RecordPhase(phase_cache[Key], s, n + 1) /\ UNCHANGED phase_cache
                  /\ Key \in DOMAIN phase_cache /\ Merging
                BY <3>1 DEF CachedPhase, eflitMaps
            <4> QED BY <1>1, <4>1, RecordedFields DEF RecordPhase
        <3>2. CASE NewPhase
            <4>1. /\ RecordPhase(max_var', s, n + 1) /\ Merging /\ Key \notin DOMAIN phase_cache
                  /\ phase_cache' = Insert(phase_cache, Key, max_var')
                BY <3>2 DEF NewPhase, UpdatePhase, Key
            <4>2. phase_cache' = Put(phase_cache, Key, max_var')
                BY <4>1 DEF Insert
            <4>3. /\ Key \in DOMAIN phase_cache' /\ phase_cache'[Key] = max_var'
                  /\ \A k \in DOMAIN phase_cache :
                         k \in DOMAIN phase_cache' /\ phase_cache'[k] = phase_cache[k]
                BY <4>1, <4>2 DEF Put
            <4> QED BY <1>1, <4>1, <4>3, RecordedFields DEF RecordPhase
        <3> QED BY <1>7, <3>1, <3>2
    <2>2. UNCHANGED res
        BY <1>7, StepFrame DEF MergingPhases
    <2>3. phase' = Put(phase, <<res, VarOf(lit)>>, phi)
        BY <1>5, <2>1 DEF Insert
    <2>4. step.pivot \in {Key[1], -Key[1]}
        <3>1. step.pivot \in NonZero
            BY <2>1 DEF PivotInv, Merging
        <3>2. Key[1] \in {step.pivot, -step.pivot} /\ step.pivot \in Int
            BY <3>1, KeyType DEF Key, NonZero
        <3> QED BY <3>2
    <2> HIDE DEF s, n
    <2>5. ASSUME NEW i \in DOMAIN s
          PROVE  IF i < n + 1 THEN MergedPhase(s[i])' ELSE <<res, VarOf(s[i])>> \notin DOMAIN phase'
        <3>1. CASE i = n
            <4>1. <<res, VarOf(s[i])>> \in DOMAIN phase' /\ phase'[<<res, VarOf(s[i])>>] = phi
                BY <1>5, <2>1, <2>3, <3>1 DEF Put
            <4>2. i < n + 1
                BY <1>5, <2>1, <3>1
            <4>3. PICK l : l = s[i]
                OBVIOUS
            <4>4. MergedPhase(l)'
                BY <2>1, <2>2, <2>4, <4>1, <4>3 DEF MergedPhase
            <4>5. (s[i])' = s[i]
                BY <2>1 DEF s
            <4> QED BY <2>1, <4>2, <4>3, <4>4, <4>5
        <3>2. CASE i # n
            <4>1. i < n + 1 <=> i < n
                BY <1>5, <2>1, <3>2
            <4>2. VarOf(s[i]) # VarOf(lit)
                BY <1>5, <2>1, <3>2
            <4>3. IF i < n THEN MergedPhase(s[i]) ELSE <<res, VarOf(s[i])>> \notin DOMAIN phase
                BY <1>5, <2>1
            <4>4. /\ <<res, VarOf(s[i])>> \in DOMAIN phase' <=> <<res, VarOf(s[i])>> \in DOMAIN phase
                  /\ <<res, VarOf(s[i])>> \in DOMAIN phase =>
                         phase'[<<res, VarOf(s[i])>>] = phase[<<res, VarOf(s[i])>>]
                BY <2>3, <4>2 DEF Put
            <4>5. PICK l : l = s[i] /\ l = (s[i])'
                BY <2>1 DEF s
            <4>6. MergedPhase(l) => MergedPhase(l)'
                BY <2>1, <2>2, <4>4, <4>5 DEF MergedPhase
            <4> QED BY <4>1, <4>3, <4>4, <4>5, <4>6
        <3> QED BY <3>1, <3>2
    <2>6. ASSUME NEW i \in DOMAIN step'.merged_lits
          PROVE  IF i < step'.idx THEN MergedPhase(step.merged_lits[i])'
                 ELSE <<res', VarOf(step'.merged_lits[i])>> \notin DOMAIN phase'
        BY <2>1, <2>2, <2>5 DEF s
    <2> QED BY <1>5, <2>1, <2>6 DEF MergeInv, s
<1>8. CASE KnownEflit \/ NewEflit
    <2>1. UNCHANGED <<phase, phase_cache, step>> /\ pc = "eflit" /\ pc' = "merge"
        BY <1>8 DEF KnownEflit, NewEflit, phaseMaps, eflitMaps
    <2>2. UNCHANGED res
        BY <1>8, StepFrame DEF MergingPhases
    <2> QED BY <1>1, <2>1, <2>2 DEF MergeInv, MergedPhase
<1>9. CASE CopyParentPhases
    <2>1. PICK ph1 : /\ ph1 = CopyPhases(phase, Clause(left), left, res)
                     /\ phase' = CopyPhases(ph1, Clause(right), right, res)
                     /\ UNCHANGED <<step, phase_cache>> /\ pc = "merge" /\ pc' = "split" /\ n > Len(s)
        BY <1>9 DEF CopyParentPhases, eflitMaps
    <2>2. UNCHANGED res
        BY <1>9, StepFrame DEF MergingPhases
    <2>3. \A k \in DOMAIN phase : k \in DOMAIN phase' /\ phase'[k] = phase[k]
        BY <2>1, CopyKeeps
    <2>4. ASSUME NEW i \in DOMAIN s PROVE MergedPhase(s[i])
        <3>1. i < n
            BY <1>1, <2>1 DEF StepInv
        <3> QED BY <1>1, <2>1, <3>1 DEF MergeInv
    <2> QED BY <2>1, <2>2, <2>3, <2>4 DEF MergeInv, MergedPhase
<1>10. ~SplitAndShadow /\ ~NotReducing
    BY DEF SplitAndShadow, NotReducing, EmitResolvent, Reroute
<1>11. ~Reducing
    BY DEF Reducing, DefineG, AuxGate, ReduceSimple, GLemma, ReduceMerged, PushArrays
<1> QED BY <1>2, <1>3, <1>4, <1>6, <1>7, <1>8, <1>9, <1>10, <1>11, StepCourse
           DEF Checking, MergingPhases, InStep
(* At the end of the merge every merged literal has a shortcut on both sides of the pivot. *)
LEMMA MergeLookups ==
    ASSUME CacheInv, PhasesHaveEflits, ShortcutInv, MergeInv, Translating, SplitAndShadow
    PROVE  UNCHANGED default_inserted
<1> DEFINE keys == {<<"eflit_shortcut", ShortcutKey(piv, l)>> :
                        piv \in {step.pivot, -step.pivot}, l \in Range(step.merged_lits)}
<1>1. pc = "split" /\ default_inserted' = default_inserted \cup MissingKeys(keys)
    BY DEF SplitAndShadow
<1>2. ASSUME NEW l \in Range(step.merged_lits), NEW piv \in {step.pivot, -step.pivot}
      PROVE  ShortcutKey(piv, l) \in DOMAIN eflit_shortcut
    <2>1. MergedPhase(l)
        BY <1>1, <1>2 DEF MergeInv, Range
    <2>2. PICK k \in DOMAIN phase_cache :
              step.pivot \in {k[1], -k[1]} /\ phase[<<res, VarOf(l)>>] = phase_cache[k]
        BY <2>1 DEF MergedPhase
    <2>3. GetPhase(res, l) = phase_cache[k]
        BY <2>1, <2>2 DEF MergedPhase, GetPhase
    <2>4. <<VarOf(l), phase_cache[k]>> \in DOMAIN eflit
        BY <1>1, <2>1, <2>2 DEF MergedPhase, PhasesHaveEflits
    <2>5. EffectiveLit(l) = eflit[<<VarOf(l), phase_cache[k]>>]
        BY <2>3, <2>4 DEF EffectiveLit, GetEflit, EflitIn
    <2>6. {<<k[1], EffectiveLit(l)>>, <<-k[1], EffectiveLit(l)>>} \subseteq DOMAIN eflit_shortcut
        BY <2>4, <2>5 DEF ShortcutInv
    <2>7. k[1] \in Nat \ {0}
        BY DEF CacheInv
    <2>8. piv \in {k[1], -k[1]}
        BY <2>2, <2>7
    <2> QED BY <2>6, <2>8 DEF ShortcutKey
<1>3. \A key \in keys : key[1] = "eflit_shortcut" /\ key[2] \in DOMAIN eflit_shortcut
    BY <1>2
<1> HIDE DEF keys
<1>4. MissingKeys(keys) = {}
    BY <1>3 DEF MissingKeys
<1> QED BY <1>1, <1>4

-----------------------------------------------------------------------------
(* The lookups for the merged variables that are reduced *)

\* They are positive and have a phase, and the loop over them stays in the vector.
ReducedInv ==
    pc \in {"g", "gates", "merged"} =>
        /\ \A i \in DOMAIN step.merged :
               step.merged[i] > 0 /\ ~IsConst(GetPhase(res, step.merged[i]))
        /\ pc = "merged" => step.idx \in 0..Len(step.merged)

(* They are chosen so, and the phases stay until the step is over. *)
LEMMA ReducedNext == StepInv /\ MergedInv /\ ReducedInv /\ [Next]_vars => ReducedInv'
<1> SUFFICES ASSUME StepInv, MergedInv, ReducedInv, [Next]_vars, pc' \in {"g", "gates", "merged"}
             PROVE  ReducedInv'
    BY DEF ReducedInv
<1>1. DOMAIN step = DOMAIN NewStep
    BY DEF StepInv
<1> USE <1>1 DEF NewStep
<1>2. ASSUME UNCHANGED <<phase, res>>
      PROVE  \A l : /\ GetPhase(res, l)' = GetPhase(res, l)
                    /\ IsConst(GetPhase(res, l))' <=> IsConst(GetPhase(res, l))
    BY <1>2 DEF GetPhase, IsConst, CONST_FALSE
<1>3. CASE UNCHANGED vars
    <2>1. UNCHANGED <<pc, step, phase, res>>
        BY <1>3 DEF vars, phaseVars, phaseMaps, res
    <2> QED BY <1>2, <2>1 DEF ReducedInv
<1>4. CASE SplitAndShadow
    <2> DEFINE reduced == step.reduced_lits
               simple  == {i \in DOMAIN reduced : IsConst(GetPhase(res, reduced[i]))}
               merged  == {i \in DOMAIN reduced \ simple : reduced[i] > 0}
    <2>1. /\ step'.merged = AtPlaces(reduced, merged) /\ pc = "split" /\ pc' \in {"emit", "g"}
          /\ UNCHANGED phase
        BY <1>4 DEF SplitAndShadow, phaseMaps
    <2>2. UNCHANGED res
        BY <1>4, StepFrame DEF MergingPhases
    <2>3. reduced \in Seq(Int) /\ merged \in SUBSET DOMAIN reduced
        BY <2>1 DEF MergedInv
    <2> HIDE DEF merged, simple, reduced
    <2>4. \A n \in DOMAIN step'.merged : \E i \in merged : step'.merged[n] = reduced[i]
        BY <2>1, <2>3, AtPlacesType
    <2>5. \A i \in merged : reduced[i] > 0 /\ ~IsConst(GetPhase(res, reduced[i]))
        BY DEF merged, simple
    <2> QED BY <1>2, <2>1, <2>2, <2>4, <2>5 DEF ReducedInv
<1>5. CASE Reducing
    <2>1. UNCHANGED <<phase, res>> /\ pc \in {"g", "gates", "merged"}
        <3>1. UNCHANGED res
            BY <1>5, StepFrame
        <3>2. CASE DefineG \/ AuxGate \/ ReduceSimple
            BY <3>1, <3>2 DEF DefineG, AuxGate, ReduceSimple, phaseMaps
        <3>3. CASE GLemma \/ ReduceMerged \/ PushArrays
            BY <3>1, <3>3 DEF GLemma, ReduceMerged, PushArrays, phaseMaps
        <3> QED BY <1>5, <3>2, <3>3 DEF Reducing
    <2>2. step'.merged = step.merged
        <3>1. CASE DefineG \/ AuxGate
            BY <3>1 DEF DefineG, AuxGate
        <3>2. CASE ReduceSimple
            BY <3>2 DEF ReduceSimple
        <3>3. CASE GLemma
            BY <3>3 DEF GLemma
        <3>4. CASE ReduceMerged
            BY <3>4 DEF ReduceMerged
        <3>5. CASE PushArrays
            BY <3>5 DEF PushArrays
        <3> QED BY <1>5, <3>1, <3>2, <3>3, <3>4, <3>5 DEF Reducing
    <2>3. IsSeq(step.merged)
        BY <2>1 DEF MergedInv
    <2>4. Len(step.merged) \in Nat
        BY <2>3, LengthType
    <2>5. pc' = "merged" => step'.idx \in 0..Len(step.merged)
        <3>1. CASE DefineG \/ AuxGate \/ ReduceSimple \/ PushArrays
            BY <3>1 DEF DefineG, AuxGate, ReduceSimple, PushArrays
        <3>2. CASE GLemma
            BY <2>4, <3>2 DEF GLemma
        <3>3. CASE ReduceMerged
            <4>1. pc = "merged" /\ step.idx >= 1 /\ step'.idx = step.idx - 1
                BY <3>3 DEF ReduceMerged
            <4>2. step.idx \in 0..Len(step.merged)
                BY <4>1 DEF ReducedInv
            <4> QED BY <2>4, <4>1, <4>2
        <3> QED BY <1>5, <3>1, <3>2, <3>3 DEF Reducing
    <2> QED BY <1>2, <2>1, <2>2, <2>5 DEF ReducedInv
<1>6. CASE Checking \/ NotReducing
    BY <1>6 DEF Checking, CheckResolutionStep, CheckReductionStep, NotReducing, EmitResolvent, Reroute
<1>7. ~SamePhase /\ ~CachedPhase /\ ~NewPhase /\ ~KnownEflit /\ ~NewEflit /\ ~CopyParentPhases
    BY DEF SamePhase, CachedPhase, NewPhase, RecordPhase, KnownEflit, NewEflit, CopyParentPhases
<1> QED BY <1>3, <1>4, <1>5, <1>6, <1>7, StepCourse DEF MergingPhases, InStep

(* The effective literal of a merged variable that is reduced has a definition. *)
LEMMA ReducedLookups ==
    ASSUME EflitKeys, PhasesHaveEflits, MergedInv, ReducedInv, ReduceMerged
    PROVE  UNCHANGED default_inserted
<1> DEFINE var == step.merged[step.idx]
           phi == GetPhase(res, var)
<1>1. /\ pc = "merged" /\ step.idx >= 1
      /\ default_inserted' = default_inserted \cup MissingKeys({<<"eflit_def", GetEflit(var, phi)>>})
    BY DEF ReduceMerged
<1>2. var > 0 /\ ~IsConst(phi)
    <2>1. Len(step.merged) \in Nat /\ DOMAIN step.merged = 1..Len(step.merged)
        BY <1>1, LengthType DEF MergedInv, IsSeq
    <2>2. step.idx \in DOMAIN step.merged
        BY <1>1, <2>1 DEF ReducedInv
    <2> QED BY <1>1, <2>2 DEF ReducedInv
<1>3. <<VarOf(var), phi>> \in DOMAIN eflit
    BY <1>1, <1>2 DEF GetPhase, IsConst, PhasesHaveEflits
<1>4. GetEflit(var, phi) \in DOMAIN eflit_def
    BY <1>3 DEF GetEflit, EflitIn, EflitKeys
<1>5. MissingKeys({<<"eflit_def", GetEflit(var, phi)>>}) = {}
    BY <1>4 DEF MissingKeys
<1> QED BY <1>1, <1>5

-----------------------------------------------------------------------------
(* The lookups for the GRAT ids of the parents *)

(* A clause whose pairs are whole keeps a literal in its shadow clause. *)
LEMMA ShadowIsLeft ==
    ASSUME MapInv, EflitKeys, PairInv, Regular, NEW id, Clause(id) # {}
    PROVE  ~EmptyShadow(id)
<1> SUFFICES ASSUME EmptyShadow(id) PROVE FALSE
    OBVIOUS
<1>1. PICK l \in Clause(id) : l < 0 /\ GetEflit(l, GetPhase(id, l)) # l
    BY DEF EmptyShadow
<1>2. l \in Int /\ VarOf(l) = -l /\ -VarOf(l) = l
    <2>1. IsLiteralSet(Clause(id))
        BY ClauseType DEF MapInv
    <2> QED BY <1>1, <2>1 DEF IsLiteralSet, VarOf
<1>3. GetPhase(id, l) \in 1..max_var
    BY <1>1 DEF GetEflit, EflitIn, EflitKeys
<1>4. <<id, -l>> \in DOMAIN phase
    <2> SUFFICES ASSUME <<id, -l>> \notin DOMAIN phase PROVE FALSE
        OBVIOUS
    <2>1. GetPhase(id, l) = -CONST_TRUE
        BY <1>1, <1>2 DEF GetPhase, CONST_FALSE
    <2> QED BY <1>3, <2>1, ConstAssumption
<1>5. -l \in Clause(id)
    BY <1>1, <1>2, <1>4 DEF PairInv
<1> QED BY <1>1, <1>2, <1>5 DEF EmptyShadow

(* When the lemma of a step is written, both parents have a GRAT id. *)
LEMMA GratLookups ==
    ASSUME ForgetInv, MapInv, EflitKeys, PairInv, CallKept, RightParent, StoredInv, StepLits,
           Regular, pc \in {"gates", "emit"}
    PROVE  left \in DOMAIN get_grat_id /\ (right # 0 => right \in DOMAIN get_grat_id)
<1>1. /\ Translating /\ Premises /\ UsesAreSeparate /\ AxiomsFound
      /\ pc \in InLine \ {"chain"} /\ pc \in InLine
    BY DEF Regular, Premises, InLine
<1>2. ASSUME NEW id, HasGratId(id), Clause(id) # {} PROVE id \in DOMAIN get_grat_id
    BY <1>2, ShadowIsLeft DEF HasGratId
<1>3. HasGratId(left) /\ left \in DOMAIN clause_database
    BY <1>1 DEF CallKept, Kept
<1>4. CASE right # 0
    <2>1. right \in Range(line.parents)
        BY <1>1, <1>4 DEF RightParent
    <2>2. HasGratId(right)
        BY <1>1, <2>1, WorkParents DEF WorkKept, Kept
    <2>3. Clause(left) # {} /\ Clause(right) # {}
        BY <1>4 DEF StepLits, InStep
    <2> QED BY <1>2, <1>3, <2>2, <2>3
<1>5. CASE right = 0 /\ line.parents = <<>>
    BY <1>1, <1>5 DEF CallKept
<1>6. CASE right = 0 /\ line.parents # <<>>
    <2>1. line.parents = <<left>>
        BY <1>1, <1>6 DEF ForgetInv, CallShape
    <2>2. left \in Range(line.parents)
        BY <2>1 DEF Range
    <2>3. PICK j \in DOMAIN input.lines \cap DOMAIN proofLines :
              j < next /\ proofLines[j] = input.lines[j] /\ proofLines[j].id = left
        BY <1>1, <2>2, ParentLine
    <2>4. next \in DOMAIN input.lines /\ line = input.lines[next] /\ left \in DOMAIN sinks_of
        BY <1>1, <2>2, ParentLine
    <2>5. proofLines[j].lits # {}
        BY <1>1, <2>2, <2>3, <2>4 DEF Premises, EmptyIsNoParent
    <2>6. LineLits(j) # {}
        BY <2>5 DEF LineLits, Negated
    <2>7. Clause(left) = LineLits(j) \/ left \in DOMAIN get_grat_id
        BY <1>1, <1>3, <2>3, <2>4 DEF StoredInv, IsStored
    <2> QED BY <1>2, <1>3, <1>6, <2>6, <2>7
<1> QED BY <1>4, <1>5, <1>6

-----------------------------------------------------------------------------
(* No lookup misses *)

LookupInv ==
    /\ MapInv /\ PivotInv /\ CacheInv /\ PhasesHaveEflits
    /\ ForgetInv /\ TypesInv /\ CallKept /\ RightParent /\ StoredInv /\ WorkStored
    /\ CallLits /\ StepLits /\ PairInv
    /\ EflitKeys /\ PendingEflit /\ ShortcutInv /\ MergeInv /\ MergedInv /\ ReducedInv

(* All maps are empty at the start. *)
LEMMA LookupInit == Init => LookupInv
<1> SUFFICES ASSUME Init PROVE LookupInv
    OBVIOUS
<1>1. pc = "start" /\ DOMAIN eflit = {} /\ DOMAIN phase_cache = {} /\ DOMAIN constraint_type = {}
    BY DEF Init, PhaseInit, EmptyMap
<1>2. MapInv /\ ForgetInv /\ PhasesHaveEflits
    BY MapInit, ForgetInit, PhasesHaveEflitsInit
<1>3. PivotInv /\ CacheInv /\ EflitKeys /\ PendingEflit /\ ShortcutInv
    BY <1>1 DEF PivotInv, CacheInv, EflitKeys, PendingEflit, ShortcutInv
<1>4. ~Translating /\ TypesInv
    BY <1>1 DEF Translating, TypesInv, Before
<1>5. /\ CallKept /\ RightParent /\ StoredInv /\ WorkStored /\ CallLits /\ StepLits /\ PairInv
      /\ MergeInv /\ MergedInv /\ ReducedInv
    BY <1>1, <1>4 DEF CallKept, RightParent, StoredInv, WorkStored, CallLits, StepLits, InStep, PairInv,
                      Regular, MergeInv, MergedInv, ReducedInv
<1> QED BY <1>2, <1>3, <1>4, <1>5 DEF LookupInv

(* Every step keeps it. *)
LEMMA LookupNext == LookupInv /\ [Next]_vars => LookupInv'
<1> SUFFICES ASSUME LookupInv, [Next]_vars PROVE LookupInv'
    OBVIOUS
<1> USE DEF LookupInv
<1>1. ControlInv /\ CoresInv /\ ClauseInv /\ StepInv /\ PhaseInv
    BY DEF ForgetInv, CountedInv, ReadInv
<1>2. MapInv' /\ PivotInv' /\ CacheInv' /\ PhasesHaveEflits' /\ ForgetInv'
    BY <1>1, MapNext, PivotNext, CacheNext, PhasesHaveEflitsNext, ForgetNext
<1>3. TypesInv' /\ CallKept' /\ RightParent' /\ StoredInv' /\ WorkStored' /\ CallLits'
    BY <1>1, TypesNext, CallKeptNext, RightParentNext, StoredNext, WorkStoredNext, CallLitsNext
<1>4. StepLits' /\ PairInv'
    BY <1>1, StepLitsNext, PairNext
<1>5. EflitKeys' /\ PendingEflit' /\ ShortcutInv' /\ MergeInv' /\ MergedInv' /\ ReducedInv'
    BY <1>1, EflitKeysNext, PendingEflitNext, ShortcutNext, MergeNext, MergedNext, ReducedNext
<1> QED BY <1>2, <1>3, <1>4, <1>5

(* The clauses that a check is about are there. *)
LEMMA CheckLookups ==
    ASSUME LookupInv, Regular, Checking
    PROVE  UNCHANGED default_inserted
<1>1. pc = "check" /\ pc \in InLine /\ pc \in InLine \ {"chain"} /\ Translating /\ UsesAreSeparate
    BY DEF Checking, CheckResolutionStep, CheckReductionStep, InLine, Regular, Premises
<1>2. left \in DOMAIN clause_database /\ res \in DOMAIN clause_database
    BY <1>1 DEF LookupInv, CallKept, Kept
<1>3. right # 0 => right \in DOMAIN clause_database
    <2> SUFFICES ASSUME right # 0 PROVE right \in DOMAIN clause_database
        OBVIOUS
    <2>1. right \in Range(line.parents)
        BY <1>1 DEF LookupInv, RightParent
    <2> QED BY <1>1, <2>1, WorkParents DEF LookupInv, WorkKept, Kept
<1>4. CASE CheckResolutionStep
    <2>1. right # 0 /\ default_inserted' = default_inserted \cup MissingClauses({left, right, res})
        BY <1>4 DEF CheckResolutionStep
    <2>2. MissingClauses({left, right, res}) = {}
        BY <1>2, <1>3, <2>1 DEF MissingClauses
    <2> QED BY <2>1, <2>2
<1>5. CASE CheckReductionStep
    <2>1. default_inserted' = default_inserted \cup MissingClauses({left, res})
        BY <1>5 DEF CheckReductionStep
    <2>2. MissingClauses({left, res}) = {}
        BY <1>2 DEF MissingClauses
    <2> QED BY <2>1, <2>2
<1> QED BY <1>4, <1>5 DEF Checking

(* No step of the second pass of a regular proof inserts a default. *)
LEMMA NothingInserted ==
    ASSUME LookupInv, Regular, [Next]_vars
    PROVE  UNCHANGED default_inserted
<1> USE DEF LookupInv
<1>1. /\ pc \notin Before /\ Translating /\ ForgetInv
    BY DEF Regular, Translating
<1>2. CASE UNCHANGED vars \/ ReadingLines
    BY <1>2 DEF vars, phaseVars, ReadingLines, SkipLine, RecordInternalAxiom, RecordInputClause,
                RecordInitialTerm, ReadReduction, ReadResolution, NextResolution
<1>3. CASE Returning \/ Finishing
    BY <1>3 DEF phaseVars, Returning, ReturnReduction, ReturnSafetyReduction, ReturnIntermediate,
                ReturnFinal, ReturnCrash, ReturnFailure, returnUnchanged, Finishing, EndOfProof,
                WriteGratProof, CombineFiles
<1>4. CASE SamePhase \/ CachedPhase \/ NewPhase \/ KnownEflit \/ CopyParentPhases
    BY <1>4 DEF SamePhase, CachedPhase, NewPhase, KnownEflit, CopyParentPhases
<1>5. CASE DefineG \/ AuxGate \/ ReduceSimple \/ PushArrays
    BY <1>5 DEF DefineG, AuxGate, ReduceSimple, PushArrays
<1>6. CASE NewEflit
    BY <1>6, EflitLookups
<1>7. CASE SplitAndShadow
    BY <1>1, <1>7, MergeLookups
<1>8. CASE ReduceMerged
    BY <1>8, ReducedLookups
<1>9. CASE GLemma
    <2>1. pc = "gates" /\ default_inserted' = default_inserted \cup MissingGratIds({left, right} \ {0})
        BY <1>9 DEF GLemma
    <2>2. left \in DOMAIN get_grat_id /\ (right # 0 => right \in DOMAIN get_grat_id)
        BY <2>1, GratLookups
    <2>3. MissingGratIds({left, right} \ {0}) = {}
        BY <2>2 DEF MissingGratIds
    <2> QED BY <2>1, <2>3
<1>10. CASE EmitResolvent
    <2>1. /\ pc = "emit" /\ right # 0
          /\ default_inserted' = default_inserted \cup MissingGratIds({left, right})
        BY <1>10 DEF EmitResolvent
    <2>2. left \in DOMAIN get_grat_id /\ (right # 0 => right \in DOMAIN get_grat_id)
        BY <2>1, GratLookups
    <2>3. MissingGratIds({left, right}) = {}
        BY <2>1, <2>2 DEF MissingGratIds
    <2> QED BY <2>1, <2>3
<1>11. CASE Reroute
    <2>1. pc = "emit" /\ default_inserted' = default_inserted \cup MissingGratIds({left})
        BY <1>11 DEF Reroute
    <2>2. left \in DOMAIN get_grat_id
        BY <2>1, GratLookups
    <2>3. MissingGratIds({left}) = {}
        BY <2>2 DEF MissingGratIds
    <2> QED BY <2>1, <2>3
<1>12. CASE Checking
    BY <1>12, CheckLookups
<1>13. CASE Preparing
    BY <1>1, <1>13 DEF Preparing, ReadOnAndOn, FirstPass, VisitConstraint, NextSink, OpenProof,
                       SearchDone, Before, vars, phaseVars
<1> QED BY <1>2, <1>3, <1>4, <1>5, <1>6, <1>7, <1>8, <1>9, <1>10, <1>11, <1>12, <1>13
           DEF Next, Translate, Terminated, MergingPhases, Reducing, NotReducing

MissInv == NoDefaultInserted /\ (pc \in Before => default_inserted = {})

(* Nothing was inserted before, and nothing is now. *)
LEMMA MissNext == LookupInv /\ MissInv /\ [Next]_vars => MissInv'
<1> SUFFICES ASSUME LookupInv, MissInv, [Next]_vars PROVE MissInv'
    OBVIOUS
<1>1. ForgetInv /\ TypesInv /\ ControlInv /\ last_orig_clause_seen \in Nat
    BY DEF LookupInv, ForgetInv, CountedInv, ReadInv, KeptInv
<1>2. CASE UNCHANGED vars
    BY <1>2 DEF vars, phaseVars, inputVars, readVars, databaseVars, MissInv, NoDefaultInserted,
                AxiomsFound, SpareIdIsFree, UsesAreSeparate, EmptyIsNoParent, PairsStayWhole,
                KindsAgree, TrueFormula, Before
<1>3. CASE FirstPass \/ VisitConstraint \/ NextSink \/ OpenProof
    <2>1. UNCHANGED default_inserted /\ pc \in Before
        BY <1>3 DEF FirstPass, VisitConstraint, NextSink, OpenProof, SearchDone, phaseVars, Before
    <2> QED BY <2>1 DEF MissInv, NoDefaultInserted
<1>4. CASE pc \notin Before \cup {"end"}
    <2>1. pc' \notin Before
        BY <1>1, <1>4, LineNext DEF LineStep
    <2>2. ASSUME Premises' PROVE default_inserted' = {}
        <3>1. Premises
            BY <1>1, <1>4, <2>2, PremisesBack
        <3>2. Regular /\ default_inserted = {}
            BY <1>4, <3>1 DEF Regular, Translating, Premises, MissInv, NoDefaultInserted
        <3> QED BY <3>2, NothingInserted
    <2> QED BY <2>1, <2>2 DEF MissInv, NoDefaultInserted, Premises
<1> QED BY <1>2, <1>3, <1>4, Phases

(* No lookup of a clause, a GRAT id, a phase definition, an effective literal or a shortcut
   ever misses, in a proof whose axioms were all found and that is regular: the spare ids are
   free, no reduct of nothing is used beside its premise, no empty constraint is a parent, pairs
   are lost as a whole, and constraints are of their parents' kind. *)
THEOREM NothingIsMissing == Spec => []NoDefaultInserted
<1>1. Init => MissInv
    BY DEF Init, PhaseInit, MissInv, NoDefaultInserted
<1>2. MissInv => NoDefaultInserted
    BY DEF MissInv
<1> QED BY <1>1, <1>2, LookupInit, LookupNext, MissNext, PTL DEF Spec
=============================================================================
