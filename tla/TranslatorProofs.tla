--------------------------- MODULE TranslatorProofs ---------------------------
(***************************************************************************)
(* Proofs about the translator, for every set of inputs, every threshold   *)
(* of the packing and every capacity of the GRAT buffer: types, phases and *)
(* effective literals, and the numbers in the hints, which name the        *)
(* clauses they were taken for and go on to do so.  The certificate and    *)
(* the RUP file are only appended to, the counter beside the certificate   *)
(* is its length, and an entry in a map of numbers is made for a variable  *)
(* that has just been created.                                             *)
(***************************************************************************)
EXTENDS Correctness, LiteralTheorems, SequenceTheorems

-----------------------------------------------------------------------------
(* Every recorded phase has an effective literal. *)

(* copy_phases brings in no phase that was not recorded for the same variable
   before. *)
LEMMA CopyPhasesHaveEflits ==
    ASSUME NEW ph, NEW clause, NEW src, NEW dest, NEW known,
           \A k \in DOMAIN ph : <<k[2], ph[k]>> \in known
    PROVE  LET copy == CopyPhases(ph, clause, src, dest)
           IN  \A k \in DOMAIN copy : <<k[2], copy[k]>> \in known
<1> DEFINE keys == {<<dest, v>> : v \in CopiedVars(ph, clause, src, dest)}
           copy == CopyPhases(ph, clause, src, dest)
<1>1. copy = [k \in DOMAIN ph \cup keys |-> IF k \in keys THEN ph[<<src, k[2]>>] ELSE ph[k]]
    BY DEF CopyPhases
<1> HIDE DEF copy
<1>2. ASSUME NEW k \in DOMAIN copy PROVE <<k[2], copy[k]>> \in known
    <2>1. CASE k \in keys
        <3>1. PICK v \in CopiedVars(ph, clause, src, dest) : k = <<dest, v>>
            BY <2>1
        <3>2. <<src, v>> \in DOMAIN ph
            BY DEF CopiedVars
        <3>3. copy[k] = ph[<<src, v>>] /\ k[2] = v
            BY <1>1, <2>1, <3>1
        <3> QED BY <3>2, <3>3
    <2>2. CASE k \notin keys
        BY <1>1, <1>2, <2>2
    <2> QED BY <2>1, <2>2
<1> QED BY <1>2 DEF copy

(* forget() removes phases and brings in none. *)
LEMMA ForgetPhasesHaveEflits ==
    ASSUME NEW ids, PhasesHaveEflits, pc # "eflit", ForgetPhases(ids), UNCHANGED eflit
    PROVE  PhasesHaveEflits'
BY DEF PhasesHaveEflits, ForgetPhases, Without

(* No phase is recorded when the program starts. *)
THEOREM PhasesHaveEflitsInit == Init => PhasesHaveEflits
BY DEF Init, PhaseInit, EmptyMap, PhasesHaveEflits

(* The merge loop records a phase and then makes or finds its effective literal;
   copy_phases only repeats what is recorded and forget() only removes. *)
THEOREM PhasesHaveEflitsNext == PhasesHaveEflits /\ [Next]_vars => PhasesHaveEflits'
<1> SUFFICES ASSUME PhasesHaveEflits, [Next]_vars PROVE PhasesHaveEflits'
    OBVIOUS
<1> USE DEF PhasesHaveEflits, phaseVars, phaseMaps, eflitMaps
<1>1. CASE UNCHANGED vars
    BY <1>1 DEF vars
<1>2. CASE Preparing
    <2>1. UNCHANGED <<phase, eflit>> /\ pc # "eflit"
        BY <1>2 DEF Preparing, ReadOnAndOn, FirstPass, VisitConstraint, NextSink, OpenProof,
                    SearchDone, vars
    <2> QED BY <2>1
<1>3. CASE ReadingLines
    BY <1>3 DEF ReadingLines, ReadingLine, CoreLine, SkipLine, RecordInternalAxiom,
                RecordInputClause, RecordInitialTerm, ReadReduction, ReadResolution,
                NextResolution
<1>4. CASE CheckResolutionStep
    BY <1>4 DEF CheckResolutionStep
<1>5. CASE CheckReductionStep
    BY <1>5, CopyPhasesHaveEflits DEF CheckReductionStep
<1>6. ASSUME NEW phi, NEW lits, NEW idx, RecordPhase(phi, lits, idx), pc = "merge",
             UNCHANGED eflit
      PROVE  PhasesHaveEflits'
    BY <1>6 DEF RecordPhase, Insert, Put
<1>7. CASE SamePhase \/ CachedPhase
    BY <1>6, <1>7 DEF SamePhase, CachedPhase, Merging
<1>8. CASE NewPhase
    BY <1>6, <1>8 DEF NewPhase, Merging
<1>9. CASE KnownEflit
    BY <1>9 DEF KnownEflit
<1>10. CASE NewEflit
    BY <1>10 DEF NewEflit, MakeEflit, Insert, Put
<1>11. CASE CopyParentPhases
    BY <1>11, CopyPhasesHaveEflits DEF CopyParentPhases
<1>12. CASE SplitAndShadow
    BY <1>12 DEF SplitAndShadow
<1>13. CASE Reducing
    BY <1>13 DEF Reducing, DefineG, AuxGate, ReduceSimple, GLemma, ReduceMerged, PushArrays
<1>14. CASE NotReducing
    BY <1>14 DEF NotReducing, EmitResolvent, Reroute
<1>15. CASE ReturnReduction \/ ReturnSafetyReduction
    BY <1>15 DEF ReturnReduction, ReturnSafetyReduction, returnUnchanged
<1>16. CASE ReturnIntermediate \/ ReturnFinal
    BY <1>16, ForgetPhasesHaveEflits DEF ReturnIntermediate, ReturnFinal, Forget, returnUnchanged
<1>17. CASE ReturnCrash
    BY <1>17 DEF ReturnCrash
<1>18. CASE ReturnFailure
    BY <1>18, ForgetPhasesHaveEflits DEF ReturnFailure, Forget
<1>19. CASE Finishing
    BY <1>19 DEF Finishing, EndOfProof, WriteGratProof, CombineFiles
<1> QED
    BY <1>1, <1>2, <1>3, <1>4, <1>5, <1>7, <1>8, <1>9, <1>10, <1>11, <1>12, <1>13, <1>14,
       <1>15, <1>16, <1>17, <1>18, <1>19
       DEF Next, Translate, Terminated, Checking, MergingPhases, Returning

(* A literal that was merged is never printed: its variable's phase has an
   effective literal whenever shadow() and the reductions look it up. *)
THEOREM PhasesAlwaysHaveEflits == Spec => []PhasesHaveEflits
BY PhasesHaveEflitsInit, PhasesHaveEflitsNext, PTL DEF Spec

-----------------------------------------------------------------------------
(* The type invariant, control first. *)

InLine == {"chain", "check", "merge", "eflit", "split", "g", "gates", "merged", "emit",
           "return", "failed"}

(* While a step is translated there is a line that it belongs to. *)
ControlInv ==
    /\ input \in Inputs
    /\ pc \in Locations
    /\ exit_code \in {-1, 0, 1, 139}
    /\ next \in 1..(Len(proofLines) + 1)
    /\ pc \in InLine => next <= Len(proofLines)
    /\ num_core_axioms \in Nat
    /\ DOMAIN chain = {"i", "spare", "left"}
    /\ chain.i \in Nat /\ chain.spare \in {0, 1}

(* The second pass reads the lines of the input and, it may be, a result line. *)
LEMMA LinesAreLines ==
    ASSUME input \in Inputs
    PROVE  /\ proofLines \in Seq(Line \cup {ResultLine})
           /\ \A i \in DOMAIN proofLines : IsLiteralSet(proofLines[i].lits)
<1>1. input.lines \in Seq(Line) /\ WellFormed(input.lines)
    BY InputAssumption
<1>2. IsLiteralSet(ResultLine.lits)
    BY FS_EmptySet DEF ResultLine, IsLiteralSet
<1>3. CASE proofLines = input.lines
    <2>1. proofLines \in Seq(Line \cup {ResultLine})
        BY <1>1, <1>3, SeqMonotonic
    <2> QED BY <1>1, <1>3, <2>1 DEF WellFormed
<1>4. CASE proofLines = Append(input.lines, ResultLine)
    <2> DEFINE n == Len(input.lines)
    <2>1. n \in Nat /\ DOMAIN input.lines = 1..n
        BY <1>1
    <2>2. input.lines \in Seq(Line \cup {ResultLine})
        BY <1>1, SeqMonotonic
    <2>3. /\ proofLines \in Seq(Line \cup {ResultLine}) /\ Len(proofLines) = n + 1
          /\ \A i \in 1..n : proofLines[i] = input.lines[i]
          /\ proofLines[n + 1] = ResultLine
        BY <1>4, <2>2, AppendProperties
    <2>4. DOMAIN proofLines = 1..(n + 1)
        BY <2>1, <2>3
    <2>5. ASSUME NEW i \in 1..(n + 1) PROVE IsLiteralSet(proofLines[i].lits)
        <3>1. CASE i = n + 1
            BY <1>2, <2>3, <3>1
        <3>2. CASE i # n + 1
            <4>1. i \in DOMAIN input.lines /\ proofLines[i] = input.lines[i]
                BY <2>1, <2>3, <3>2
            <4> QED BY <1>1, <4>1 DEF WellFormed
        <3> QED BY <3>1, <3>2
    <2> QED BY <2>3, <2>4, <2>5
<1> QED BY <1>3, <1>4 DEF proofLines, LinesOf

(* The proof has finitely many lines. *)
LEMMA LinesAreCounted == input \in Inputs => Len(proofLines) \in Nat
BY LinesAreLines

(* The lines of the proof are those of the input. *)
LEMMA LinesStay == UNCHANGED input => UNCHANGED proofLines
BY DEF proofLines

(* At the start no line has been read and no step is being translated. *)
LEMMA ControlInit == Init => ControlInv
BY LinesAreCounted DEF Init, PhaseInit, ControlInv, NoChain, Locations, InLine

(* translate() moves on to the next line only behind a line, and the loop over the
   parents alternates between the two spare ids. *)
LEMMA ControlNext == ControlInv /\ [Next]_vars => ControlInv'
<1> SUFFICES ASSUME ControlInv, [Next]_vars PROVE ControlInv'
    OBVIOUS
<1> USE LinesAreCounted, LinesStay
        DEF ControlInv, Locations, InLine, stepUnchanged, inputVars, readVars, resultVars,
            databaseVars, returnUnchanged
<1>1. CASE UNCHANGED vars
    BY <1>1 DEF vars
<1>2. CASE ReadOnAndOn \/ VisitConstraint \/ NextSink \/ OpenProof
    BY <1>2 DEF ReadOnAndOn, VisitConstraint, NextSink, OpenProof, SearchDone, searchUnchanged,
                vars
<1>3. CASE FirstPass
    BY <1>3 DEF FirstPass
<1>10. CASE ReadingLines
    <2>1. CASE SkipLine \/ RecordInternalAxiom \/ RecordInputClause
        BY <2>1 DEF SkipLine, RecordInternalAxiom, RecordInputClause, CoreLine, ReadingLine
    <2>2. CASE RecordInitialTerm \/ ReadReduction \/ ReadResolution
        BY <2>2 DEF RecordInitialTerm, ReadReduction, ReadResolution, CoreLine, ReadingLine
    <2>3. CASE NextResolution
        BY <2>3 DEF NextResolution
    <2> QED BY <1>10, <2>1, <2>2, <2>3 DEF ReadingLines
<1>4. CASE Checking
    BY <1>4 DEF Checking, CheckResolutionStep, CheckReductionStep
<1>5. CASE MergingPhases
    BY <1>5 DEF MergingPhases, SamePhase, CachedPhase, NewPhase, KnownEflit, NewEflit,
                CopyParentPhases, SplitAndShadow, RecordPhase, Merging
<1>6. CASE Reducing
    BY <1>6 DEF Reducing, DefineG, AuxGate, ReduceSimple, GLemma, ReduceMerged, PushArrays
<1>7. CASE NotReducing
    BY <1>7 DEF NotReducing, EmitResolvent, Reroute
<1>8. CASE Returning
    <2>1. CASE ReturnReduction \/ ReturnSafetyReduction
        BY <2>1 DEF ReturnReduction, ReturnSafetyReduction
    <2>2. CASE ReturnIntermediate
        BY <2>2 DEF ReturnIntermediate
    <2>3. CASE ReturnFinal
        BY <2>3 DEF ReturnFinal
    <2>4. CASE ReturnCrash \/ ReturnFailure
        BY <2>4 DEF ReturnCrash, ReturnFailure
    <2> QED BY <1>8, <2>1, <2>2, <2>3, <2>4 DEF Returning
<1>9. CASE Finishing
    BY <1>9 DEF Finishing, EndOfProof, WriteGratProof, CombineFiles
<1> QED
    BY <1>1, <1>2, <1>3, <1>4, <1>5, <1>6, <1>7, <1>8, <1>9, <1>10
       DEF Next, Translate, Terminated, Preparing

-----------------------------------------------------------------------------
(* Clauses are finite sets of literals. *)

ClauseInv == \A id \in DOMAIN clause_database : IsLiteralSet(clause_database[id])

(* Dropping literals, as a reduction does, leaves a clause a clause. *)
LEMMA LiteralSubset ==
    ASSUME NEW c, NEW d, IsLiteralSet(c), d \subseteq c
    PROVE  IsLiteralSet(d)
BY FS_Subset DEF IsLiteralSet

(* The literals of two parents together are literals. *)
LEMMA LiteralUnion ==
    ASSUME NEW c, NEW d, IsLiteralSet(c), IsLiteralSet(d)
    PROVE  IsLiteralSet(c \cup d)
BY FS_Union DEF IsLiteralSet

(* negate() keeps the number of literals and their variables. *)
LEMMA NegatedType ==
    ASSUME NEW c, IsLiteralSet(c)
    PROVE  IsLiteralSet(Negated(c))
<1>1. IsFiniteSet(Negated(c))
    <2> DEFINE neg == [l \in c |-> -l]
    <2>1. neg \in Surjection(c, Negated(c))
        BY DEF Negated, Surjection
    <2> QED BY <2>1, FS_Surjection DEF IsLiteralSet
<1>2. ASSUME NEW l \in c PROVE -l \in Int /\ VarOf(-l) = VarOf(l)
    BY DEF IsLiteralSet, VarOf
<1> QED BY <1>1, <1>2 DEF Negated, IsLiteralSet

(* The line being read is a line. *)
LEMMA LineClauseType ==
    ASSUME ControlInv, next <= Len(proofLines), NEW ctype
    PROVE  IsLiteralSet(LineClause(ctype))
<1>1. next \in DOMAIN proofLines
    BY LinesAreLines DEF ControlInv
<1>2. IsLiteralSet(line.lits)
    BY <1>1, LinesAreLines DEF ControlInv, line
<1> QED BY <1>2, NegatedType DEF LineClause

(* resolve() invents no literal. *)
LEMMA ResolveType ==
    ASSUME NEW vd, NEW c1, NEW c2, NEW ptype, IsLiteralSet(c1), IsLiteralSet(c2)
    PROVE  IsLiteralSet(Resolve(vd, c1, c2, ptype))
<1>1. Resolve(vd, c1, c2, ptype) \subseteq c1 \cup c2
    <2>1. \A v : SurvivingPrimaries(c1, c2, v) \subseteq c1 \cup c2
        BY DEF SurvivingPrimaries, LitsOn
    <2> QED BY <2>1 DEF Resolve, Primaries
<1> QED BY <1>1, LiteralUnion, LiteralSubset

(* operator[] on the clause database yields a clause, an empty one for a missing id. *)
LEMMA ClauseType ==
    ASSUME ClauseInv, NEW id
    PROVE  IsLiteralSet(Clause(id))
BY FS_EmptySet DEF ClauseInv, Clause, IsLiteralSet

(* The clause database is empty at the start. *)
LEMMA ClauseInit == Init => ClauseInv
BY DEF Init, ClauseInv, EmptyMap

(* What is stored in the clause database is a line of the proof or the result of
   resolve(); forget() only removes. *)
LEMMA ClauseNext == ControlInv /\ ClauseInv /\ [Next]_vars => ClauseInv'
<1> SUFFICES ASSUME ControlInv, ClauseInv, [Next]_vars PROVE ClauseInv'
    OBVIOUS
<1>1. ASSUME UNCHANGED clause_database PROVE ClauseInv'
    BY <1>1 DEF ClauseInv, IsLiteralSet
<1>2. ASSUME NEW ids, clause_database' = Without(clause_database, ids) PROVE ClauseInv'
    BY <1>2 DEF ClauseInv, Without, IsLiteralSet
<1>3. ASSUME NEW id, NEW c, IsLiteralSet(c), clause_database' = Put(clause_database, id, c)
      PROVE  ClauseInv'
    BY <1>3 DEF ClauseInv, Put, IsLiteralSet
<1> USE DEF stepUnchanged, databaseVars, returnUnchanged
<1>4. CASE UNCHANGED vars
    BY <1>1, <1>4 DEF vars
<1>5. CASE Preparing
    BY <1>1, <1>5 DEF Preparing, ReadOnAndOn, FirstPass, VisitConstraint, NextSink, OpenProof,
                      searchUnchanged, vars
<1>6. CASE SkipLine
    BY <1>2, <1>6 DEF SkipLine
<1>7. CASE RecordInternalAxiom \/ RecordInputClause \/ ReadReduction \/ ReadResolution
    <2>1. next <= Len(proofLines)
        BY <1>7 DEF RecordInternalAxiom, RecordInputClause, ReadReduction, ReadResolution,
                    CoreLine, ReadingLine
    <2>2. \E ctype : clause_database' = Put(clause_database, line.id, LineClause(ctype))
        BY <1>7 DEF RecordInternalAxiom, RecordInputClause, ReadReduction, ReadResolution,
                    StoreLine
    <2> QED BY <1>3, <2>1, <2>2, LineClauseType
<1>16. CASE RecordInitialTerm
    <2>1. next <= Len(proofLines)
        BY <1>16 DEF RecordInitialTerm, CoreLine, ReadingLine
    <2>2. PICK ctype :
              clause_database' = Put(Put(clause_database, line.id, LineClause(ctype)), spare_id,
                                     Resolve(var_data, LineClause(ctype), {}, ctype))
        BY <1>16 DEF RecordInitialTerm
    <2>3. IsLiteralSet(LineClause(ctype)) /\ IsLiteralSet({})
        BY <2>1, LineClauseType, FS_EmptySet DEF IsLiteralSet
    <2>4. IsLiteralSet(Resolve(var_data, LineClause(ctype), {}, ctype))
        BY <2>3, ResolveType
    <2> QED BY <2>2, <2>3, <2>4 DEF ClauseInv, Put, IsLiteralSet
<1>8. CASE NextResolution
    <2>1. CASE UNCHANGED clause_database
        BY <1>1, <2>1
    <2>2. CASE ~ UNCHANGED clause_database
        BY <1>3, <1>8, <2>2, ClauseType, ResolveType DEF NextResolution
    <2> QED BY <2>1, <2>2
<1>9. CASE Checking
    BY <1>1, <1>9 DEF Checking, CheckResolutionStep, CheckReductionStep
<1>10. CASE MergingPhases
    BY <1>1, <1>10 DEF MergingPhases, SamePhase, CachedPhase, NewPhase, KnownEflit, NewEflit,
                       CopyParentPhases, SplitAndShadow
<1>11. CASE Reducing
    BY <1>1, <1>11 DEF Reducing, DefineG, AuxGate, ReduceSimple, GLemma, ReduceMerged,
                       PushArrays
<1>12. CASE NotReducing
    BY <1>1, <1>12 DEF NotReducing, EmitResolvent, Reroute
<1>13. CASE ReturnReduction \/ ReturnCrash
    BY <1>1, <1>13 DEF ReturnReduction, ReturnCrash
<1>14. CASE ReturnIntermediate \/ ReturnFinal \/ ReturnFailure
    BY <1>1, <1>2, <1>14 DEF ReturnIntermediate, ReturnFinal, ReturnFailure, Forget
<1>17. CASE ReturnSafetyReduction
    <2>1. clause_database' = Without(Put(clause_database, line.id, Clause(res)), {res})
        BY <1>17 DEF ReturnSafetyReduction
    <2> QED BY <2>1, ClauseType DEF ClauseInv, Put, Without, IsLiteralSet
<1>15. CASE Finishing
    BY <1>1, <1>15 DEF Finishing, EndOfProof, WriteGratProof, CombineFiles, readVars
<1> QED
    BY <1>4, <1>5, <1>6, <1>7, <1>8, <1>9, <1>10, <1>11, <1>12, <1>13, <1>14, <1>15,
       <1>16, <1>17
       DEF Next, Translate, Terminated, ReadingLines, Returning

-----------------------------------------------------------------------------
(* The locals of a step while its merged literals are looked at. *)

NonZero == Int \ {0}

StepInv ==
    /\ DOMAIN step = DOMAIN NewStep
    /\ pc \in {"merge", "eflit"} =>
            step.idx \in Nat \ {0} /\ step.merged_lits \in Seq(NonZero)

(* The merged literals that the check collects are literals of the left clause. *)
LEMMA MergedType ==
    ASSUME NEW vd, NEW c1, NEW c2, NEW r, NEW ptype, IsLiteralSet(c1)
    PROVE  CheckResolution(vd, c1, c2, r, ptype).merged \in Seq(NonZero)
<1> DEFINE clashing == {l \in c1 : -l \in c2}
           pivots == {l \in clashing : IsPrimary(vd, VarOf(l), ptype)}
           merged == {l \in clashing \ pivots : -l \in clashing => l < 0}
<1>1. CheckResolution(vd, c1, c2, r, ptype).merged = SortedClause(merged)
    BY DEF CheckResolution
<1>2. IsFiniteSet(merged) /\ merged \subseteq Int /\ merged \subseteq NonZero
    <2>1. IsLiteralSet(merged)
        BY LiteralSubset
    <2> QED BY <2>1 DEF IsLiteralSet, NonZero, VarOf
<1> HIDE DEF merged
<1>3. SortedClause(merged) \in Seq(merged)
    BY <1>2, SortedClauseType
<1> QED BY <1>1, <1>2, <1>3, SeqMonotonic

(* Taking a merged literal out leaves a sequence. *)
LEMMA ReplaceByLastType ==
    ASSUME NEW s \in Seq(NonZero), NEW i \in 1..Len(s)
    PROVE  Front([s EXCEPT ![i] = Last(s)]) \in Seq(NonZero)
<1> DEFINE t == [s EXCEPT ![i] = Last(s)]
<1>1. t \in Seq(NonZero) /\ Len(t) = Len(s)
    BY ExceptSeq DEF Last
<1> HIDE DEF t
<1>2. SubSeq(t, 1, Len(t) - 1) \in Seq(NonZero)
    BY <1>1, SubSeqProperties
<1> QED BY <1>2 DEF Front, t

(* No literal is merged at the start. *)
LEMMA StepInit == Init => StepInv
BY DEF Init, StepInv

(* The merged literals of a step are nonzero, as check_resolution() found them, also
   after the loop has taken some of them out; their index is at least 1. *)
LEMMA StepNext == ClauseInv /\ StepInv /\ [Next]_vars => StepInv'
<1> SUFFICES ASSUME ClauseInv, StepInv, [Next]_vars PROVE StepInv'
    OBVIOUS
<1> USE DEF StepInv, stepUnchanged, returnUnchanged
<1>1. CASE UNCHANGED vars
    BY <1>1 DEF vars
<1>2. CASE Preparing \/ ReadingLines
    BY <1>2 DEF Preparing, ReadOnAndOn, FirstPass, VisitConstraint, NextSink, OpenProof,
                searchUnchanged, vars, ReadingLines, ReadingLine, CoreLine, SkipLine,
                RecordInternalAxiom, RecordInputClause, RecordInitialTerm, ReadReduction,
                ReadResolution, NextResolution
<1>3. CASE CheckResolutionStep
    BY <1>3, ClauseType, MergedType DEF CheckResolutionStep, NewStep
<1>4. CASE CheckReductionStep
    BY <1>4 DEF CheckReductionStep, NewStep
<1>5. ASSUME NEW phi, NEW lits \in Seq(NonZero), NEW idx \in Nat \ {0}, RecordPhase(phi, lits, idx)
      PROVE  StepInv'
    BY <1>5 DEF RecordPhase, NewStep
<1>6. CASE SamePhase
    BY <1>5, <1>6, ReplaceByLastType DEF SamePhase, Merging, DropMerged
<1>7. CASE CachedPhase \/ NewPhase
    BY <1>5, <1>7 DEF CachedPhase, NewPhase, Merging
<1>8. CASE KnownEflit \/ NewEflit \/ CopyParentPhases
    BY <1>8 DEF KnownEflit, NewEflit, CopyParentPhases
<1>9. CASE SplitAndShadow
    BY <1>9 DEF SplitAndShadow
<1>10. CASE Reducing
    BY <1>10 DEF Reducing, DefineG, AuxGate, ReduceSimple, GLemma, ReduceMerged, PushArrays
<1>11. CASE NotReducing
    BY <1>11 DEF NotReducing, EmitResolvent, Reroute
<1>12. CASE Returning
    BY <1>12 DEF Returning, ReturnReduction, ReturnSafetyReduction, ReturnIntermediate,
                 ReturnFinal, ReturnCrash, ReturnFailure
<1>13. CASE Finishing
    BY <1>13 DEF Finishing, EndOfProof, WriteGratProof, CombineFiles
<1> QED
    BY <1>1, <1>2, <1>3, <1>4, <1>6, <1>7, <1>8, <1>9, <1>10, <1>11, <1>12, <1>13
       DEF Next, Translate, Terminated, Checking, MergingPhases

-----------------------------------------------------------------------------
(* Every variable that a map answers with has been created. *)

ValuesBelow(map, m) == \A k \in DOMAIN map : map[k] \in 1..m

VarInv ==
    /\ max_var \in 0..(CONST_TRUE - 1)
    /\ num_cnf_clauses \in Nat
    /\ ValuesBelow(phase, max_var)
    /\ ValuesBelow(eflit, max_var)
    /\ ValuesBelow(phase_cache, max_var)
    /\ ValuesBelow(countermodel_out_var, max_var)
    /\ DOMAIN prop_pos = DOMAIN countermodel_out_var
    /\ DOMAIN prop_neg = DOMAIN countermodel_out_var

(* A table of variables in use stays one when max_var grows. *)
LEMMA ValuesStayBelow ==
    ASSUME NEW map, NEW m \in Int, NEW n \in Int, m <= n, ValuesBelow(map, m)
    PROVE  ValuesBelow(map, n)
BY DEF ValuesBelow

(* Entering a variable that is in use, by operator[] or by insert(). *)
LEMMA PutBelow ==
    ASSUME NEW map, NEW m \in Int, NEW k, NEW v \in 1..m, ValuesBelow(map, m)
    PROVE  ValuesBelow(Put(map, k, v), m) /\ ValuesBelow(Insert(map, k, v), m)
BY DEF ValuesBelow, Put, Insert

(* copy_phases enters only phases that the source has. *)
LEMMA CopyBelow ==
    ASSUME NEW ph, NEW clause, NEW src, NEW dest, NEW m, ValuesBelow(ph, m)
    PROVE  ValuesBelow(CopyPhases(ph, clause, src, dest), m)
<1> DEFINE keys == {<<dest, v>> : v \in CopiedVars(ph, clause, src, dest)}
           copy == CopyPhases(ph, clause, src, dest)
<1>1. copy = [k \in DOMAIN ph \cup keys |-> IF k \in keys THEN ph[<<src, k[2]>>] ELSE ph[k]]
    BY DEF CopyPhases
<1>2. ASSUME NEW k \in keys PROVE <<src, k[2]>> \in DOMAIN ph
    <2>1. PICK v \in CopiedVars(ph, clause, src, dest) : k = <<dest, v>>
        OBVIOUS
    <2> QED BY <2>1 DEF CopiedVars
<1> HIDE DEF copy, keys
<1>3. ValuesBelow(copy, m)
    BY <1>1, <1>2 DEF ValuesBelow
<1> QED BY <1>3 DEF copy

(* erase() leaves the other entries. *)
LEMMA WithoutBelow ==
    ASSUME NEW map, NEW keys, NEW m, ValuesBelow(map, m)
    PROVE  ValuesBelow(Without(map, keys), m)
BY DEF ValuesBelow, Without

(* The encoding of a matrix has a number of clauses. *)
LEMMA EncodingSizeType ==
    ASSUME NEW matrix \in Seq(Seq(Int))
    PROVE  EncodingSize(matrix) \in Nat
<1> DEFINE row(k) == {k} \X DOMAIN matrix[k]
           rows == {row(k) : k \in DOMAIN matrix}
<1>1. ASSUME NEW k \in DOMAIN matrix PROVE IsFiniteSet(row(k))
    <2>1. DOMAIN matrix[k] = 1..Len(matrix[k]) /\ Len(matrix[k]) \in Nat
        BY <1>1
    <2>2. IsFiniteSet(DOMAIN matrix[k])
        BY <2>1, FS_Interval
    <2>3. IsFiniteSet({k})
        BY FS_Singleton
    <2> QED BY <2>2, <2>3, FS_Product
<1>2. IsFiniteSet(DOMAIN matrix)
    <2>1. DOMAIN matrix = 1..Len(matrix) /\ Len(matrix) \in Nat
        OBVIOUS
    <2> QED BY <2>1, FS_Interval
<1>3. IsFiniteSet(rows)
    <2> DEFINE f == [k \in DOMAIN matrix |-> row(k)]
    <2>1. f \in Surjection(DOMAIN matrix, rows)
        BY DEF Surjection
    <2> HIDE DEF f
    <2> QED BY <1>2, <2>1, FS_Surjection
<1>4. IsFiniteSet(UNION rows)
    <2>1. \A r \in rows : IsFiniteSet(r)
        BY <1>1
    <2> HIDE DEF rows
    <2> QED BY <1>3, <2>1, FS_UNION
<1>5. Cardinality(Positions(matrix)) \in Nat
    <2>1. Positions(matrix) = UNION rows
        BY DEF Positions
    <2> HIDE DEF rows
    <2> QED BY <1>4, <2>1, FS_CardinalityType
<1> QED BY <1>5 DEF EncodingSize

(* The phases of a literal in the left clause and of its negation in the right
   one are equal only if they are a variable. *)
LEMMA EqualPhases ==
    ASSUME VarInv, NEW l \in NonZero, NEW id1, NEW id2, GetPhase(id1, l) = GetPhase(id2, -l)
    PROVE  GetPhase(id1, l) \in 1..max_var
<1>1. VarOf(-l) = VarOf(l)
    BY DEF VarOf, NonZero
<1>2. l > 0 <=> ~ (-l > 0)
    BY DEF NonZero
<1> QED BY <1>1, <1>2, ConstAssumption
        DEF GetPhase, VarInv, ValuesBelow, CONST_FALSE, NonZero

(* No variable is in use at the start. *)
LEMMA VarInit == Init => VarInv
BY ConstAssumption DEF Init, PhaseInit, VarInv, ValuesBelow, EmptyMap

(* A variable is entered in a table when get_fresh_variable() has just made it, or
   copied from a table; max_var only grows, by a bounded amount. *)
LEMMA VarNext == ControlInv /\ ClauseInv /\ StepInv /\ VarInv /\ [Next]_vars => VarInv'
<1> SUFFICES ASSUME ControlInv, ClauseInv, StepInv, VarInv, [Next]_vars PROVE VarInv'
    OBVIOUS
<1> USE ConstAssumption DEF VarInv, stepUnchanged, readVars, arrayVars, databaseVars,
        phaseVars, phaseMaps, eflitMaps, returnUnchanged, searchUnchanged
<1> DEFINE kept == <<eflit, phase_cache, countermodel_out_var, prop_pos, prop_neg>>
<1>1. CASE UNCHANGED vars
    BY <1>1 DEF vars, ValuesBelow
\* max_var never shrinks, and the tables keep their old entries.
<1>2. ASSUME UNCHANGED <<max_var, num_cnf_clauses, kept>>, ValuesBelow(phase', max_var)
      PROVE  VarInv'
    BY <1>2 DEF ValuesBelow
<1>3. ASSUME NEW vs, vs \subseteq 1..(CONST_TRUE - 1), NEW n \in Nat, RaiseMaxVar(vs, n),
             num_cnf_clauses' \in Nat, UNCHANGED <<phase, kept>>
      PROVE  VarInv'
    <2>1. max_var' \in 0..(CONST_TRUE - 1) /\ max_var <= max_var'
        <3>1. PICK m \in {max_var} \cup vs :
                  max_var <= m /\ m + n < CONST_TRUE /\ max_var' = m + n
            BY <1>3 DEF RaiseMaxVar
        <3>2. m \in 0..(CONST_TRUE - 1)
            <4>1. CASE m = max_var
                BY <4>1
            <4>2. CASE m \in vs
                BY <1>3, <4>2
            <4> QED BY <3>1, <4>1, <4>2
        <3> QED BY <1>3, <3>1, <3>2
    <2> QED BY <1>3, <2>1, ValuesStayBelow
<1>4. ASSUME NEW n \in Nat, FreshAvailable(n), max_var' = Fresh(n)
      PROVE  /\ max_var' \in 0..(CONST_TRUE - 1) /\ max_var <= max_var'
             /\ n > 0 => max_var' \in 1..max_var'
             /\ ValuesBelow(phase, max_var') /\ ValuesBelow(eflit, max_var')
             /\ ValuesBelow(phase_cache, max_var')
             /\ ValuesBelow(countermodel_out_var, max_var')
    <2>1. max_var' \in 0..(CONST_TRUE - 1) /\ max_var <= max_var'
        BY <1>4 DEF FreshAvailable, Fresh
    <2>2. n > 0 => max_var' \in 1..max_var'
        BY <1>4 DEF Fresh
    <2> QED BY <2>1, <2>2, ValuesStayBelow
<1>25. CASE ReadOnAndOn \/ NextSink
    BY <1>25 DEF ReadOnAndOn, NextSink, vars, ValuesBelow
<1>26. CASE VisitConstraint
    BY <1>26 DEF VisitConstraint, ValuesBelow
<1>27. CASE OpenProof
    BY <1>2, <1>27 DEF OpenProof
<1>5. CASE FirstPass
    <2> DEFINE sinks == EmptyConstraints(input)
               fresh == IF TrueFormula /\ sinks # <<>> THEN Len(input.matrix) ELSE 0
    <2>1. DOMAIN var_data' \subseteq 1..(CONST_TRUE - 1)
        <3>1. \A i \in DOMAIN input.prefix : input.prefix[i].vars \subseteq 1..(CONST_TRUE - 1)
            BY InputAssumption DEF ControlInv
        <3> QED BY <1>5, <3>1 DEF FirstPass, ReadPrefix
    <2>2. fresh \in Nat /\ num_cnf_clauses' \in Nat
        <3>1. input.matrix \in Seq(Seq(Int))
            BY InputAssumption DEF ControlInv
        <3>2. EncodingSize(input.matrix) \in Nat /\ Len(input.matrix) \in Nat
            BY <3>1, EncodingSizeType
        <3> QED BY <1>5, <3>2 DEF FirstPass
    <2>3. RaiseMaxVar(DOMAIN var_data', fresh) /\ UNCHANGED <<phase, kept>>
        BY <1>5 DEF FirstPass
    <2> HIDE DEF fresh
    <2> QED BY <1>3, <2>1, <2>2, <2>3
<1>6. CASE SkipLine \/ RecordInputClause \/ RecordInitialTerm \/ ReadReduction
           \/ ReadResolution \/ NextResolution
    BY <1>2, <1>6 DEF SkipLine, RecordInputClause, RecordInitialTerm, ReadReduction,
                      ReadResolution, NextResolution
<1>7. CASE RecordInternalAxiom
    <2>1. VarsOf(line.lits) \subseteq 1..(CONST_TRUE - 1)
        <3>1. next \in DOMAIN proofLines
            BY <1>7, LinesAreLines DEF RecordInternalAxiom, CoreLine, ReadingLine, ControlInv
        <3>2. IsLiteralSet(line.lits)
            BY <3>1, LinesAreLines DEF ControlInv, line
        <3> QED BY <3>2 DEF IsLiteralSet, VarsOf
    <2> QED BY <1>3, <1>7, <2>1 DEF RecordInternalAxiom
<1>8. CASE CheckResolutionStep
    BY <1>2, <1>8 DEF CheckResolutionStep
<1>9. CASE CheckReductionStep
    BY <1>2, <1>9, CopyBelow DEF CheckReductionStep
<1>10. CASE SamePhase
    <2>1. lit \in NonZero
        BY <1>10 DEF SamePhase, Merging, StepInv, lit
    <2>2. PhaseLeft \in 1..max_var
        BY <1>10, <2>1, EqualPhases DEF SamePhase, PhaseLeft, PhaseRight
    <2>3. ValuesBelow(phase', max_var)
        BY <1>10, <2>2, PutBelow DEF SamePhase, RecordPhase
    <2> QED BY <1>2, <1>10, <2>3 DEF SamePhase
<1>11. CASE CachedPhase
    <2>1. phase_cache[Key] \in 1..max_var
        BY <1>11 DEF CachedPhase, ValuesBelow
    <2>2. ValuesBelow(phase', max_var)
        BY <1>11, <2>1, PutBelow DEF CachedPhase, RecordPhase
    <2> QED BY <1>2, <1>11, <2>2 DEF CachedPhase
<1>12. CASE NewPhase
    <2>1. FreshAvailable(1) /\ max_var' = Fresh(1)
        BY <1>12 DEF NewPhase, UpdatePhase
    <2>2. ValuesBelow(phase_cache', max_var')
        <3>1. phase_cache' = Insert(phase_cache, Key, max_var')
            BY <1>12 DEF NewPhase, UpdatePhase, Key
        <3> QED BY <1>4, <2>1, <3>1, PutBelow
    <2>3. ValuesBelow(phase', max_var')
        BY <1>4, <1>12, <2>1, PutBelow DEF NewPhase, RecordPhase
    <2> QED BY <1>4, <1>12, <2>1, <2>2, <2>3 DEF NewPhase
<1>13. CASE KnownEflit \/ SplitAndShadow
    BY <1>2, <1>13 DEF KnownEflit, SplitAndShadow
<1>14. CASE NewEflit
    <2>1. FreshAvailable(1) /\ max_var' = Fresh(1)
        BY <1>14 DEF NewEflit, MakeEflit
    <2>2. ValuesBelow(eflit', max_var')
        <3>1. eflit' = Insert(eflit, <<VarOf(step.lit), step.phi>>, max_var')
            BY <1>14 DEF NewEflit, MakeEflit
        <3> QED BY <1>4, <2>1, <3>1, PutBelow
    <2> QED BY <1>4, <1>14, <2>1, <2>2 DEF NewEflit
<1>15. CASE CopyParentPhases
    BY <1>2, <1>15, CopyBelow DEF CopyParentPhases
<1>16. CASE DefineG \/ AuxGate
    <2>1. FreshAvailable(1) /\ max_var' = Fresh(1)
        BY <1>16 DEF DefineG, AuxGate
    <2> QED BY <1>4, <1>16, <2>1 DEF DefineG, AuxGate
<1>17. CASE ReduceSimple
    <2>1. FreshAvailable(1) /\ max_var' = Fresh(1)
        BY <1>17 DEF ReduceSimple
    <2>2. ValuesBelow(countermodel_out_var', max_var')
        BY <1>4, <1>17, <2>1, PutBelow DEF ReduceSimple
    <2>3. /\ DOMAIN prop_pos' = DOMAIN countermodel_out_var'
          /\ DOMAIN prop_neg' = DOMAIN countermodel_out_var'
        BY <1>17 DEF ReduceSimple, Put
    <2> QED BY <1>4, <1>17, <2>1, <2>2, <2>3 DEF ReduceSimple
<1>18. CASE ReduceMerged
    <2>1. FreshAvailable(4) /\ max_var' = Fresh(4)
        BY <1>18 DEF ReduceMerged
    <2>2. ValuesBelow(countermodel_out_var', max_var')
        <3>1. \E v : countermodel_out_var' = Put(countermodel_out_var, v, max_var')
            BY <1>18 DEF ReduceMerged
        <3> QED BY <1>4, <2>1, <3>1, PutBelow
    <2>3. /\ DOMAIN prop_pos' = DOMAIN countermodel_out_var'
          /\ DOMAIN prop_neg' = DOMAIN countermodel_out_var'
        BY <1>18 DEF ReduceMerged, Put
    <2> QED BY <1>4, <1>18, <2>1, <2>2, <2>3 DEF ReduceMerged
<1>19. CASE GLemma
    BY <1>2, <1>19 DEF GLemma
<1>20. CASE PushArrays
    BY <1>20 DEF PushArrays, ValuesBelow
<1>21. CASE NotReducing
    BY <1>2, <1>21 DEF NotReducing, EmitResolvent, Reroute
<1>22. CASE ReturnReduction \/ ReturnSafetyReduction \/ ReturnCrash
    BY <1>2, <1>22 DEF ReturnReduction, ReturnSafetyReduction, ReturnCrash
<1>23. CASE ReturnIntermediate \/ ReturnFinal \/ ReturnFailure
    <2>1. ValuesBelow(phase', max_var)
        BY <1>23, WithoutBelow
           DEF ReturnIntermediate, ReturnFinal, ReturnFailure, Forget, ForgetPhases
    <2> QED BY <1>2, <1>23, <2>1 DEF ReturnIntermediate, ReturnFinal, ReturnFailure
<1>24. CASE Finishing
    BY <1>2, <1>24 DEF Finishing, EndOfProof, WriteGratProof, CombineFiles
<1> QED
    BY <1>1, <1>5, <1>6, <1>7, <1>8, <1>9, <1>10, <1>11, <1>12, <1>13, <1>14, <1>15, <1>16,
       <1>17, <1>18, <1>19, <1>20, <1>21, <1>22, <1>23, <1>24, <1>25, <1>26, <1>27
       DEF Next, Translate, Terminated, Preparing, ReadingLines, Checking, MergingPhases, Reducing,
           Returning

(* Type correctness: whatever the proof that is translated, the maps answer
   only with variables that exist, no variable collides with the constant
   phase, and a step belongs to a line. *)
THEOREM TypeCorrect == Spec => []TypeOK
<1>1. Init => ControlInv /\ ClauseInv /\ StepInv /\ VarInv
    BY ControlInit, ClauseInit, StepInit, VarInit
<1>2. ControlInv /\ ClauseInv /\ StepInv /\ VarInv /\ [Next]_vars
        => (ControlInv /\ ClauseInv /\ StepInv /\ VarInv)'
    BY ControlNext, ClauseNext, StepNext, VarNext
<1>3. ControlInv /\ VarInv => TypeOK
    BY DEF ControlInv, VarInv, ValuesBelow, TypeOK, Range
<1> QED BY <1>1, <1>2, <1>3, PTL DEF Spec

-----------------------------------------------------------------------------
(* Files: sequences whose elements nobody looks at.  What is appended to one has a
   length. *)

IsSeq(s) == s \in Seq(Range(s))

(* What is a sequence of anything is a sequence. *)
LEMMA SeqIsSeq ==
    ASSUME NEW S, NEW s \in Seq(S)
    PROVE  IsSeq(s)
<1>1. s \in [1..Len(s) -> Range(s)] /\ Len(s) \in Nat
    BY DEF Range
<1> QED BY <1>1 DEF IsSeq

(* A function on the places of a sequence is one of the same length. *)
LEMMA PlacesIsSeq ==
    ASSUME NEW s, NEW n \in Nat, s \in [1..n -> Range(s)]
    PROVE  IsSeq(s) /\ Len(s) = n
BY DEF IsSeq

(* A file has a length. *)
LEMMA LengthType == \A s : IsSeq(s) => Len(s) \in Nat /\ DOMAIN s = 1..Len(s)
BY DEF IsSeq

(* Nothing, and a few clauses written one after the other. *)
LEMMA NoneIsSeq == IsSeq(<<>>) /\ Len(<<>>) = 0
BY DEF IsSeq

(* One clause. *)
LEMMA OneIsSeq == \A a : IsSeq(<<a>>) /\ Len(<<a>>) = 1
BY DEF IsSeq, Range

(* Two clauses. *)
LEMMA TwoIsSeq == \A a, b : IsSeq(<<a, b>>) /\ Len(<<a, b>>) = 2
BY DEF IsSeq, Range

(* Four clauses. *)
LEMMA FourIsSeq == \A a, b, c, d : IsSeq(<<a, b, c, d>>) /\ Len(<<a, b, c, d>>) = 4
BY DEF IsSeq, Range

(* Appending keeps the elements and their places. *)
LEMMA ConcatIsSeq ==
    ASSUME NEW s, NEW t, IsSeq(s), IsSeq(t)
    PROVE  /\ IsSeq(s \o t)
           /\ Len(s) \in Nat /\ Len(t) \in Nat
           /\ Len(s \o t) = Len(s) + Len(t)
           /\ \A i \in 1..Len(s) : (s \o t)[i] = s[i]
           /\ \A i \in 1..Len(t) : (s \o t)[Len(s) + i] = t[i]
<1> DEFINE S == Range(s) \cup Range(t)
<1>1. s \in Seq(S) /\ t \in Seq(S)
    BY SeqMonotonic DEF IsSeq
<1>2. /\ s \o t \in Seq(S) /\ Len(s \o t) = Len(s) + Len(t)
      /\ \A i \in 1 .. Len(s) + Len(t) :
            (s \o t)[i] = IF i <= Len(s) THEN s[i] ELSE t[i - Len(s)]
    BY <1>1, ConcatProperties
<1>3. Len(s) \in Nat /\ Len(t) \in Nat
    BY <1>1
<1>4. IsSeq(s \o t)
    BY <1>2, SeqIsSeq
<1>5. ASSUME NEW i \in 1..Len(s) PROVE (s \o t)[i] = s[i]
    BY <1>2, <1>3
<1>6. ASSUME NEW i \in 1..Len(t) PROVE (s \o t)[Len(s) + i] = t[i]
    <2>1. /\ Len(s) + i \in 1..Len(s) + Len(t)
          /\ ~(Len(s) + i <= Len(s)) /\ Len(s) + i - Len(s) = i
        BY <1>3
    <2> QED BY <1>2, <2>1
<1> QED BY <1>2, <1>3, <1>4, <1>5, <1>6

(* Two pieces behind a file are where one expects them. *)
LEMMA TwoPieces ==
    ASSUME NEW f, NEW s, NEW t, IsSeq(f), IsSeq(s), IsSeq(t)
    PROVE  LET g == f \o s \o t
           IN  /\ Len(f) \in Nat /\ Len(s) \in Nat /\ Len(t) \in Nat
               /\ DOMAIN g = 1..(Len(f) + Len(s) + Len(t))
               /\ \A i \in 1..Len(s) : g[Len(f) + i] = s[i]
               /\ \A i \in 1..Len(t) : g[Len(f) + Len(s) + i] = t[i]
<1>1. /\ IsSeq(f \o s) /\ Len(f \o s) = Len(f) + Len(s)
      /\ \A i \in 1..Len(s) : (f \o s)[Len(f) + i] = s[i]
    BY ConcatIsSeq
<1>2. /\ IsSeq(f \o s \o t) /\ Len(f \o s \o t) = Len(f) + Len(s) + Len(t)
      /\ \A i \in 1..Len(f \o s) : (f \o s \o t)[i] = (f \o s)[i]
      /\ \A i \in 1..Len(t) : (f \o s \o t)[Len(f) + Len(s) + i] = t[i]
    BY <1>1, ConcatIsSeq
<1>3. Len(f) \in Nat /\ Len(s) \in Nat /\ Len(t) \in Nat
    BY LengthType
<1>4. DOMAIN (f \o s \o t) = 1..(Len(f) + Len(s) + Len(t))
    BY <1>2, LengthType
<1>5. ASSUME NEW i \in 1..Len(s) PROVE (f \o s \o t)[Len(f) + i] = s[i]
    <2>1. Len(f) + i \in 1..Len(f \o s)
        BY <1>1, <1>3
    <2> QED BY <1>1, <1>2, <2>1
<1> QED BY <1>2, <1>3, <1>4, <1>5

(* push_back appends, too. *)
LEMMA AppendIsSeq ==
    ASSUME NEW s, NEW e, IsSeq(s)
    PROVE  Append(s, e) = s \o <<e>>
<1>1. s \in Seq(Range(s) \cup {e}) /\ e \in Range(s) \cup {e}
    BY SeqMonotonic DEF IsSeq
<1> QED BY <1>1, AppendIsConcat

(* A gate has a clause for each of its inputs and one more. *)
LEMMA OrGateIsSeq ==
    ASSUME NEW out, NEW ins, IsSeq(ins)
    PROVE  IsSeq(OrGate(out, ins)) /\ Len(OrGate(out, ins)) = Len(ins) + 1
<1> DEFINE bin == [i \in DOMAIN ins |-> <<-ins[i], out>>]
           long == <<Append(ins, -out)>>
<1>1. DOMAIN ins = 1..Len(ins) /\ Len(ins) \in Nat
    BY DEF IsSeq
<1>2. bin \in [1..Len(ins) -> Range(bin)]
    BY <1>1 DEF Range
<1>3. IsSeq(bin) /\ Len(bin) = Len(ins)
    <2> HIDE DEF bin
    <2> QED BY <1>1, <1>2, PlacesIsSeq
<1>4. IsSeq(long) /\ Len(long) = 1
    BY OneIsSeq
<1>5. IsSeq(bin \o long) /\ Len(bin \o long) = Len(bin) + Len(long)
    <2> HIDE DEF bin, long
    <2> QED BY <1>3, <1>4, ConcatIsSeq
<1> QED BY <1>3, <1>4, <1>5 DEF OrGate

(* The same of the other gate. *)
LEMMA AndGateIsSeq ==
    ASSUME NEW out, NEW ins, IsSeq(ins)
    PROVE  IsSeq(AndGate(out, ins)) /\ Len(AndGate(out, ins)) = Len(ins) + 1
<1> DEFINE bin == [i \in DOMAIN ins |-> <<ins[i], -out>>]
           long == <<Append([i \in DOMAIN ins |-> -ins[i]], out)>>
<1>1. DOMAIN ins = 1..Len(ins) /\ Len(ins) \in Nat
    BY DEF IsSeq
<1>2. bin \in [1..Len(ins) -> Range(bin)]
    BY <1>1 DEF Range
<1>3. IsSeq(bin) /\ Len(bin) = Len(ins)
    <2> HIDE DEF bin
    <2> QED BY <1>1, <1>2, PlacesIsSeq
<1>4. IsSeq(long) /\ Len(long) = 1
    BY OneIsSeq
<1>5. IsSeq(bin \o long) /\ Len(bin \o long) = Len(bin) + Len(long)
    <2> HIDE DEF bin, long
    <2> QED BY <1>3, <1>4, ConcatIsSeq
<1> QED BY <1>3, <1>4, <1>5 DEF AndGate

-----------------------------------------------------------------------------
(* The files grow *)

FileInv ==
    /\ IsSeq(cert) /\ IsSeq(rup)
    /\ num_clauses = Len(cert)
    /\ pc = "g" => IsSeq(step.shadcls)

CertGrows == \E t : IsSeq(t) /\ cert' = cert \o t /\ num_clauses' = num_clauses + Len(t)
RupGrows == \E t : IsSeq(t) /\ rup' = rup \o t

(* Nothing is written to a file. *)
LEMMA FilesStay ==
    ASSUME FileInv
    PROVE  /\ UNCHANGED <<cert, num_clauses>> => CertGrows
           /\ UNCHANGED rup => RupGrows
<1>1. \A s : IsSeq(s) => s \o <<>> = s
    BY ConcatEmptySeq DEF IsSeq
<1>2. num_clauses \in Nat
    BY LengthType DEF FileInv
<1>3. ASSUME UNCHANGED <<cert, num_clauses>> PROVE CertGrows
    <2>1. cert' = cert \o <<>> /\ num_clauses' = num_clauses + Len(<<>>)
        BY <1>1, <1>2, <1>3, NoneIsSeq DEF FileInv
    <2> QED BY <2>1, NoneIsSeq DEF CertGrows
<1>4. ASSUME UNCHANGED rup PROVE RupGrows
    <2>1. rup' = rup \o <<>>
        BY <1>1, <1>4 DEF FileInv
    <2> QED BY <2>1, NoneIsSeq DEF RupGrows
<1> QED BY <1>3, <1>4

(* WriteGates counts what it writes. *)
LEMMA WritesGates ==
    ASSUME NEW defs, NEW clauses, IsSeq(clauses), WriteGates(defs, clauses)
    PROVE  CertGrows
BY DEF WriteGates, CertGrows

(* Lemmas are appended one after the other. *)
LEMMA AppendsLemmas ==
    ASSUME FileInv, NEW s, NEW t, IsSeq(s), IsSeq(t), rup' = rup \o s \o t
    PROVE  RupGrows
<1>1. IsSeq(s \o t)
    BY ConcatIsSeq
<1>2. (rup \o s) \o t = rup \o (s \o t)
    <2> DEFINE S == Range(rup) \cup Range(s) \cup Range(t)
    <2>1. rup \in Seq(S) /\ s \in Seq(S) /\ t \in Seq(S)
        BY SeqMonotonic DEF FileInv, IsSeq
    <2> QED BY <2>1, ConcatAssociative
<1> QED BY <1>1, <1>2 DEF RupGrows

(* The lemmas for the tautologies of a true formula. *)
LEMMA TautologiesType ==
    ASSUME NEW matrix \in Seq(Seq(Int)), NEW tseitin
    PROVE  IsSeq(TautologyClauses(matrix, tseitin))
<1> DEFINE S == {k \in DOMAIN matrix : IsTautology(matrix[k])}
           n == Len(Tautologies(matrix))
<1>1. IsFiniteSet(S) /\ S \subseteq Int
    <2>1. DOMAIN matrix = 1..Len(matrix) /\ Len(matrix) \in Nat
        OBVIOUS
    <2>2. IsFiniteSet(DOMAIN matrix)
        BY <2>1, FS_Interval
    <2> QED BY <2>1, <2>2, FS_Subset
<1>2. Tautologies(matrix) \in Seq(S)
    <2> HIDE DEF S
    <2> QED BY <1>1, SortedClauseType DEF Tautologies, S
<1>3. n \in Nat /\ DOMAIN Tautologies(matrix) = 1..n
    BY <1>2
<1>4. TautologyClauses(matrix, tseitin)
        \in [1..n -> Range(TautologyClauses(matrix, tseitin))]
    BY <1>3 DEF TautologyClauses, Range
<1> QED BY <1>3, <1>4, PlacesIsSeq

(* The shadow of a clause is a sequence, like the sorted clause. *)
LEMMA ShadowType ==
    ASSUME ClauseInv
    PROVE  IsSeq(Shadow)
<1> DEFINE S == {l \in Clause(res) : EffectiveLit(l) = l \/ l > 0}
           kept == SortedClause(S)
<1>1. IsFiniteSet(S) /\ S \subseteq Int
    <2>1. IsLiteralSet(Clause(res))
        BY ClauseType
    <2>2. IsLiteralSet(S)
        BY <2>1, LiteralSubset
    <2> QED BY <2>2 DEF IsLiteralSet
<1>2. kept \in Seq(S)
    <2> HIDE DEF S
    <2> QED BY <1>1, SortedClauseType
<1>3. Len(kept) \in Nat /\ DOMAIN kept = 1..Len(kept)
    BY <1>2
<1>4. Shadow = [i \in 1..Len(kept) |-> EffectiveLit(kept[i])]
    <2> HIDE DEF kept
    <2> QED BY <1>3 DEF Shadow, kept, S
<1>5. Shadow \in [1..Len(kept) -> Range(Shadow)]
    <2> HIDE DEF kept
    <2> QED BY <1>4 DEF Range
<1> QED
    <2> HIDE DEF kept
    <2> QED BY <1>3, <1>5, PlacesIsSeq

(* One or two shortcut lemmas for a parent. *)
LEMMA SideClausesType ==
    ASSUME NEW e, NEW piv, NEW ef, NEW ph
    PROVE  LET side == SideClauses(e, piv, ef, ph)
           IN  /\ IsSeq(side) /\ Len(side) \in 1..2
               /\ side[Len(side)][1] = e /\ side[Len(side)][2] = piv
<1> DEFINE side == SideClauses(e, piv, ef, ph)
<1>1. CASE ph = CONST_TRUE /\ ph # CONST_FALSE
    <2>1. side = <<>> \o << <<e, piv, -ef>> >>
        BY <1>1 DEF SideClauses
    <2>2. side = << <<e, piv, -ef>> >>
        BY <2>1
    <2> QED BY <2>2, OneIsSeq
<1>2. CASE ph = CONST_FALSE /\ ph # CONST_TRUE
    <2>1. side = << <<e, piv, -ef>> >> \o <<>>
        BY <1>2 DEF SideClauses
    <2>2. side = << <<e, piv, -ef>> >>
        BY <2>1
    <2> QED BY <2>2, OneIsSeq
<1>3. CASE ph # CONST_TRUE /\ ph # CONST_FALSE
    <2> DEFINE a == <<e, piv, -ef, ph>>
               b == <<e, piv, -ef>>
    <2>1. side = <<a>> \o <<b>>
        BY <1>3 DEF SideClauses
    <2>2. b[1] = e /\ b[2] = piv
        OBVIOUS
    <2> HIDE DEF a, b, side
    <2>3. IsSeq(<<a>>) /\ IsSeq(<<b>>) /\ Len(<<a>>) = 1 /\ Len(<<b>>) = 1
        BY OneIsSeq
    <2>4. /\ IsSeq(side) /\ Len(side) = 2
          /\ \A i \in 1..1 : side[1 + i] = <<b>>[i]
        BY <2>1, <2>3, ConcatIsSeq
    <2>5. side[2] = b
        BY <2>4
    <2> QED BY <2>2, <2>4, <2>5 DEF side
<1>4. CONST_TRUE # CONST_FALSE
    BY ConstAssumption DEF CONST_FALSE
<1> QED BY <1>1, <1>2, <1>3, <1>4

(* The clauses that ReduceMerged writes: gates, the packed sequences, two lemmas. *)
LEMMA ReduceMergedFiles ==
    ASSUME FileInv, ReduceMerged
    PROVE  CertGrows /\ RupGrows
<1>1. CertGrows
    <2>1. PICK f1, f2, out, new1, new2, phi, defs :
              WriteGates(defs,
                      OrGate(f1, <<step.g, -phi>>) \o OrGate(f2, <<step.g, phi>>)
                      \o AndGate(out, <<f1, new1>>) \o OrGate(new1, <<-f2, new2>>))
        BY DEF ReduceMerged
    <2> DEFINE a == OrGate(f1, <<step.g, -phi>>)
               b == OrGate(f2, <<step.g, phi>>)
               c == AndGate(out, <<f1, new1>>)
               d == OrGate(new1, <<-f2, new2>>)
    <2>2. IsSeq(a) /\ IsSeq(b) /\ IsSeq(c) /\ IsSeq(d)
        BY TwoIsSeq, OrGateIsSeq, AndGateIsSeq
    <2>3. WriteGates(defs, a \o b \o c \o d)
        BY <2>1
    <2> HIDE DEF a, b, c, d
    <2>4. IsSeq(a \o b)
        BY <2>2, ConcatIsSeq
    <2>5. IsSeq(a \o b \o c)
        BY <2>2, <2>4, ConcatIsSeq
    <2>6. IsSeq(a \o b \o c \o d)
        BY <2>2, <2>5, ConcatIsSeq
    <2> QED BY <2>3, <2>6, WritesGates
<1>2. RupGrows
    <2> DEFINE packs(hints, p) == IF MustPack(hints) THEN <<[hints |-> hints, pos |-> p]>> ELSE <<>>
               var == step.merged[step.idx]
               packed == packs(Hints(prop_pos, var), TRUE) \o packs(Hints(prop_neg, var), FALSE)
               lemmas == [i \in DOMAIN packed |-> PackClause(var, packed[i].pos)]
    <2>1. \E c, d : rup' = rup \o lemmas \o <<c, d>>
        BY DEF ReduceMerged
    <2>2. IsSeq(packed)
        <3>1. \A hints, p : IsSeq(packs(hints, p))
            BY NoneIsSeq, OneIsSeq
        <3> HIDE DEF packs
        <3> QED BY <3>1, ConcatIsSeq
    <2>3. IsSeq(lemmas)
        <3> HIDE DEF packed
        <3>1. DOMAIN packed = 1..Len(packed) /\ Len(packed) \in Nat
            BY <2>2, LengthType
        <3>2. lemmas \in [1..Len(packed) -> Range(lemmas)]
            BY <3>1 DEF Range
        <3> HIDE DEF lemmas
        <3> QED BY <3>1, <3>2, PlacesIsSeq
    <2> HIDE DEF lemmas
    <2> QED BY <2>1, <2>3, TwoIsSeq, AppendsLemmas
<1> QED BY <1>1, <1>2

(* What a step writes, it appends, and it counts the clauses of the certificate. *)
LEMMA FilesGrow ==
    ASSUME ControlInv, ClauseInv, FileInv, [Next]_vars
    PROVE  CertGrows /\ RupGrows
<1> USE FilesStay DEF fileVars, phaseVars, stepUnchanged, returnUnchanged
<1>1. CASE UNCHANGED vars
    BY <1>1 DEF vars
<1>2. CASE ReadOnAndOn \/ FirstPass \/ VisitConstraint \/ NextSink
    BY <1>2 DEF ReadOnAndOn, FirstPass, VisitConstraint, NextSink, vars
<1>3. CASE OpenProof
    <2>1. CertGrows
        BY <1>3 DEF OpenProof
    <2>2. input.matrix \in Seq(Seq(Int))
        BY InputAssumption DEF ControlInv
    <2>3. RupGrows
        BY <1>3, <2>2, TautologiesType DEF OpenProof, RupGrows
    <2> QED BY <2>1, <2>3
<1>4. CASE SkipLine \/ RecordInternalAxiom \/ RecordInputClause \/ ReadReduction
           \/ ReadResolution \/ NextResolution
    BY <1>4 DEF SkipLine, RecordInternalAxiom, RecordInputClause, ReadReduction,
                ReadResolution, NextResolution
<1>5. CASE RecordInitialTerm
    <2>1. CertGrows
        BY <1>5 DEF RecordInitialTerm
    <2>2. PICK c : rup' = Append(rup, c)
        BY <1>5 DEF RecordInitialTerm
    <2>3. rup' = rup \o <<c>>
        BY <2>2, AppendIsSeq DEF FileInv
    <2> QED BY <2>1, <2>3, OneIsSeq DEF RupGrows
<1>6. CASE Checking \/ SamePhase \/ CachedPhase \/ KnownEflit \/ CopyParentPhases
           \/ SplitAndShadow
    BY <1>6 DEF Checking, CheckResolutionStep, CheckReductionStep, SamePhase, CachedPhase,
                KnownEflit, CopyParentPhases, SplitAndShadow
<1>7. CASE NewPhase
    <2>1. RupGrows
        BY <1>7 DEF NewPhase
    <2> DEFINE side1 == PhaseClauses(step.pivot, PhaseLeft, Fresh(1))
               side2 == PhaseClauses(-step.pivot, PhaseRight, Fresh(1))
    <2>2. /\ cert' = cert \o side1 \o side2
          /\ num_clauses' = num_clauses + Len(side1) + Len(side2)
        BY <1>7 DEF NewPhase, UpdatePhase
    <2>3. IsSeq(side1) /\ IsSeq(side2)
        BY OneIsSeq, TwoIsSeq DEF PhaseClauses
    <2>4. CertGrows
        <3> HIDE DEF side1, side2
        <3>1. IsSeq(side1 \o side2) /\ Len(side1 \o side2) = Len(side1) + Len(side2)
            BY <2>3, ConcatIsSeq
        <3>2. (cert \o side1) \o side2 = cert \o (side1 \o side2)
            <4> DEFINE S == Range(cert) \cup Range(side1) \cup Range(side2)
            <4>1. cert \in Seq(S) /\ side1 \in Seq(S) /\ side2 \in Seq(S)
                BY <2>3, SeqMonotonic DEF FileInv, IsSeq
            <4> QED BY <4>1, ConcatAssociative
        <3>3. num_clauses' = num_clauses + Len(side1 \o side2)
            BY <2>2, <2>3, <3>1, LengthType DEF FileInv
        <3> QED BY <2>2, <3>1, <3>2, <3>3 DEF CertGrows
    <2> QED BY <2>1, <2>4
<1>8. CASE NewEflit
    <2> DEFINE e == Fresh(1)
               ef1 == EflitIn(Insert(eflit, <<VarOf(step.lit), step.phi>>, e), step.lit, step.left)
               ef2 == EflitIn(Insert(eflit, <<VarOf(step.lit), step.phi>>, e), -step.lit, step.right)
               side1 == SideClauses(e, step.pivot, ef1, step.left)
               side2 == SideClauses(e, -step.pivot, ef2, step.right)
    <2>1. /\ cert' = cert \o EquivClauses(e, VarOf(step.lit), step.phi)
          /\ num_clauses' = num_clauses + 4
          /\ rup' = rup \o side1 \o side2
        BY <1>8 DEF NewEflit, MakeEflit
    <2>2. CertGrows
        BY <2>1, FourIsSeq DEF CertGrows, EquivClauses
    <2>3. IsSeq(side1) /\ IsSeq(side2)
        BY SideClausesType
    <2> HIDE DEF side1, side2
    <2> QED BY <2>1, <2>2, <2>3, AppendsLemmas
<1>9. CASE DefineG
    BY <1>9, OrGateIsSeq, WritesGates DEF DefineG, FileInv
<1>10. CASE AuxGate
    <2>1. CertGrows
        BY <1>10, TwoIsSeq, OrGateIsSeq, WritesGates DEF AuxGate
    <2>2. RupGrows
        BY <1>10, AppendIsSeq, OneIsSeq DEF AuxGate, FileInv, RupGrows
    <2> QED BY <2>1, <2>2
<1>11. CASE ReduceSimple
    <2>1. CertGrows
        BY <1>11, TwoIsSeq, OrGateIsSeq, AndGateIsSeq, WritesGates DEF ReduceSimple
    <2>2. UNCHANGED rup \/ \E c : rup' = Append(rup, c)
        BY <1>11 DEF ReduceSimple
    <2> QED BY <2>1, <2>2, AppendIsSeq, OneIsSeq DEF FileInv, RupGrows
<1>12. CASE GLemma
    <2>1. CertGrows
        BY <1>12 DEF GLemma
    <2>2. \/ \E c : rup' = Append(rup, c)
          \/ \E c, d : rup' = rup \o <<c, d>>
        BY <1>12 DEF GLemma
    <2> QED BY <2>1, <2>2, AppendIsSeq, OneIsSeq, TwoIsSeq DEF FileInv, RupGrows
<1>13. CASE ReduceMerged
    BY <1>13, ReduceMergedFiles
<1>14. CASE PushArrays
    BY <1>14 DEF PushArrays
<1>15. CASE EmitResolvent
    <2>1. CertGrows
        BY <1>15 DEF EmitResolvent
    <2>2. \/ UNCHANGED rup
          \/ \E c : rup' = rup \o <<>> \o <<c>>
          \/ \E c, d : rup' = rup \o <<c>> \o <<d>>
        BY <1>15 DEF EmitResolvent
    <2>3. RupGrows
        BY <2>2, NoneIsSeq, OneIsSeq, AppendsLemmas
    <2> QED BY <2>1, <2>3
<1>16. CASE Reroute
    BY <1>16 DEF Reroute
<1>17. CASE Returning
    BY <1>17 DEF Returning, ReturnReduction, ReturnSafetyReduction, ReturnIntermediate,
                 ReturnFinal, ReturnCrash, ReturnFailure
<1>18. CASE Finishing
    BY <1>18 DEF Finishing, EndOfProof, WriteGratProof, CombineFiles
<1> QED
    BY <1>1, <1>2, <1>3, <1>4, <1>5, <1>6, <1>7, <1>8, <1>9, <1>10, <1>11, <1>12, <1>13,
       <1>14, <1>15, <1>16, <1>17, <1>18
       DEF Next, Translate, Terminated, Preparing, ReadingLines, MergingPhases, Reducing,
           NotReducing

(* Appending leaves what is there in its place. *)
LEMMA FilesKept ==
    ASSUME FileInv, CertGrows, RupGrows
    PROVE  /\ IsSeq(cert') /\ IsSeq(rup') /\ num_clauses' = Len(cert')
           /\ Extends(cert', cert) /\ Extends(rup', rup)
<1>1. PICK t : IsSeq(t) /\ cert' = cert \o t /\ num_clauses' = num_clauses + Len(t)
    BY DEF CertGrows
<1>2. PICK u : IsSeq(u) /\ rup' = rup \o u
    BY DEF RupGrows
<1>3. ASSUME NEW f, NEW g, IsSeq(f), IsSeq(g)
      PROVE  IsSeq(f \o g) /\ Len(f \o g) = Len(f) + Len(g) /\ Extends(f \o g, f)
    <2>1. /\ IsSeq(f \o g) /\ Len(f \o g) = Len(f) + Len(g)
          /\ Len(f) \in Nat /\ Len(g) \in Nat
          /\ \A i \in 1..Len(f) : (f \o g)[i] = f[i]
        BY <1>3, ConcatIsSeq
    <2>2. DOMAIN f = 1..Len(f) /\ DOMAIN (f \o g) = 1..Len(f \o g)
        BY <1>3, <2>1, LengthType
    <2> QED BY <2>1, <2>2 DEF Extends
<1> QED BY <1>1, <1>2, <1>3 DEF FileInv

-----------------------------------------------------------------------------
(* Who writes to the maps, and when *)

Before == {"start", "search"}

(* max_var never shrinks. *)
LEMMA MaxVarGrows ==
    ASSUME ControlInv, ClauseInv, StepInv, VarInv, [Next]_vars
    PROVE  max_var \in Nat /\ max_var' \in Nat /\ max_var <= max_var'
<1>1. max_var \in Nat /\ max_var' \in Nat
    <2>1. VarInv'
        BY VarNext
    <2> QED BY <2>1, ConstAssumption DEF VarInv
<1>2. ASSUME NEW vs, vs \subseteq Int, NEW n \in Nat, RaiseMaxVar(vs, n)
      PROVE  max_var <= max_var'
    <2>1. PICK m \in {max_var} \cup vs : max_var <= m /\ max_var' = m + n
        BY <1>2 DEF RaiseMaxVar
    <2> QED BY <1>1, <1>2, <2>1
<1> USE <1>1 DEF phaseVars, stepUnchanged, returnUnchanged
<1>3. CASE UNCHANGED vars
    BY <1>3 DEF vars
<1>4. CASE ReadOnAndOn \/ VisitConstraint \/ NextSink \/ OpenProof
    BY <1>4 DEF ReadOnAndOn, VisitConstraint, NextSink, OpenProof, vars
<1>5. CASE FirstPass
    <2> DEFINE fresh == IF TrueFormula /\ EmptyConstraints(input) # <<>>
                        THEN Len(input.matrix) ELSE 0
    <2>1. DOMAIN var_data' \subseteq Int
        <3>1. \A i \in DOMAIN input.prefix : input.prefix[i].vars \subseteq 1..(CONST_TRUE - 1)
            BY InputAssumption DEF ControlInv
        <3> QED BY <1>5, <3>1, ConstAssumption DEF FirstPass, ReadPrefix
    <2>2. fresh \in Nat
        <3>1. input.matrix \in Seq(Seq(Int))
            BY InputAssumption DEF ControlInv
        <3> QED BY <3>1
    <2>3. RaiseMaxVar(DOMAIN var_data', fresh)
        BY <1>5 DEF FirstPass
    <2> HIDE DEF fresh
    <2> QED BY <1>2, <2>1, <2>2, <2>3
<1>6. CASE SkipLine \/ RecordInputClause \/ RecordInitialTerm \/ ReadReduction
           \/ ReadResolution \/ NextResolution
    BY <1>6 DEF SkipLine, RecordInputClause, RecordInitialTerm, ReadReduction,
                ReadResolution, NextResolution
<1>7. CASE RecordInternalAxiom
    <2>1. next \in DOMAIN proofLines
        BY <1>7, LinesAreLines DEF RecordInternalAxiom, CoreLine, ReadingLine, ControlInv
    <2>2. IsLiteralSet(line.lits)
        BY <2>1, LinesAreLines DEF ControlInv, line
    <2>3. VarsOf(line.lits) \subseteq Int
        BY <2>2 DEF IsLiteralSet, VarsOf
    <2> QED BY <1>2, <1>7, <2>3 DEF RecordInternalAxiom
<1>8. CASE Checking \/ SamePhase \/ CachedPhase \/ KnownEflit \/ CopyParentPhases
           \/ SplitAndShadow
    BY <1>8 DEF Checking, CheckResolutionStep, CheckReductionStep, SamePhase, CachedPhase,
                KnownEflit, CopyParentPhases, SplitAndShadow
<1>9. CASE NewPhase \/ NewEflit
    BY <1>9 DEF NewPhase, UpdatePhase, NewEflit, MakeEflit, Fresh
<1>10. CASE Reducing
    <2>1. CASE DefineG \/ AuxGate \/ ReduceSimple
        BY <2>1 DEF DefineG, AuxGate, ReduceSimple, Fresh
    <2>2. CASE ReduceMerged
        <3>1. max_var' = Fresh(4)
            BY <2>2 DEF ReduceMerged
        <3> QED BY <3>1 DEF Fresh
    <2>3. CASE GLemma
        BY <2>3 DEF GLemma
    <2>4. CASE PushArrays
        <3>1. UNCHANGED max_var
            BY <2>4 DEF PushArrays
        <3> QED BY <3>1
    <2> QED BY <1>10, <2>1, <2>2, <2>3, <2>4 DEF Reducing
<1>11. CASE NotReducing
    BY <1>11 DEF NotReducing, EmitResolvent, Reroute
<1>12. CASE Returning
    BY <1>12 DEF Returning, ReturnReduction, ReturnSafetyReduction, ReturnIntermediate,
                 ReturnFinal, ReturnCrash, ReturnFailure
<1>13. CASE Finishing
    BY <1>13 DEF Finishing, EndOfProof, WriteGratProof, CombineFiles
<1> QED
    BY <1>3, <1>4, <1>5, <1>6, <1>7, <1>8, <1>9, <1>10, <1>11, <1>12, <1>13
       DEF Next, Translate, Terminated, Preparing, ReadingLines, MergingPhases

StageStep ==
    /\ pc' \in Before => pc \in Before
    /\ pc \notin Before => UNCHANGED num_cnf_clauses
    /\ NewPhase \/ NewEflit \/ UNCHANGED eflitMaps
    /\ pc' = "g" => IsSeq(step'.shadcls)

(* The number of clauses before the certificate is fixed when the second pass
   begins, and only two actions write to the maps of numbers. *)
LEMMA StageNext ==
    ASSUME ClauseInv, StepInv, FileInv, [Next]_vars
    PROVE  StageStep
<1> USE DEF StageStep, Before, phaseVars, stepUnchanged, returnUnchanged, readVars
<1>2. CASE UNCHANGED vars
    BY <1>2 DEF vars, FileInv, eflitMaps
<1>3. CASE ReadOnAndOn \/ VisitConstraint \/ NextSink \/ OpenProof
    BY <1>3 DEF ReadOnAndOn, VisitConstraint, NextSink, OpenProof, SearchDone, vars
<1>4. CASE FirstPass
    BY <1>4 DEF FirstPass
<1>5. CASE ReadingLines
    BY <1>5 DEF ReadingLines, ReadingLine, CoreLine, SkipLine, RecordInternalAxiom,
                RecordInputClause, RecordInitialTerm, ReadReduction, ReadResolution,
                NextResolution
<1>6. CASE Checking
    BY <1>6 DEF Checking, CheckResolutionStep, CheckReductionStep
<1>7. CASE SamePhase \/ CachedPhase
    BY <1>7 DEF SamePhase, CachedPhase, Merging, RecordPhase
<1>8. CASE NewPhase
    BY <1>8 DEF NewPhase, UpdatePhase, Merging, RecordPhase
<1>9. CASE KnownEflit \/ NewEflit \/ CopyParentPhases
    BY <1>9 DEF KnownEflit, NewEflit, MakeEflit, CopyParentPhases
<1>10. CASE SplitAndShadow
    <2>1. step'.shadcls = Shadow
        BY <1>10 DEF SplitAndShadow, StepInv, NewStep
    <2>2. IsSeq(Shadow)
        BY ShadowType
    <2> QED BY <1>10, <2>1, <2>2 DEF SplitAndShadow
<1>11. CASE Reducing
    BY <1>11 DEF Reducing, DefineG, AuxGate, ReduceSimple, GLemma, ReduceMerged, PushArrays
<1>12. CASE NotReducing
    BY <1>12 DEF NotReducing, EmitResolvent, Reroute
<1>13. CASE Returning
    BY <1>13 DEF Returning, ReturnReduction, ReturnSafetyReduction, ReturnIntermediate,
                 ReturnFinal, ReturnCrash, ReturnFailure
<1>14. CASE Finishing
    BY <1>14 DEF Finishing, EndOfProof, WriteGratProof, CombineFiles
<1> QED
    BY <1>2, <1>3, <1>4, <1>5, <1>6, <1>7, <1>8, <1>9, <1>10, <1>11, <1>12, <1>13, <1>14
       DEF Next, Translate, Terminated, Preparing, MergingPhases

(* The files and the counter beside the certificate, at every step. *)
LEMMA FileNext ==
    ControlInv /\ ClauseInv /\ StepInv /\ FileInv /\ [Next]_vars => FileInv'
<1> SUFFICES ASSUME ControlInv, ClauseInv, StepInv, FileInv, [Next]_vars PROVE FileInv'
    OBVIOUS
<1>1. CertGrows /\ RupGrows
    BY FilesGrow
<1>2. IsSeq(cert') /\ IsSeq(rup') /\ num_clauses' = Len(cert')
    BY <1>1, FilesKept
<1>3. pc' = "g" => IsSeq(step'.shadcls)
    BY StageNext DEF StageStep
<1> QED BY <1>2, <1>3 DEF FileInv

(* Both files are empty at the start. *)
LEMMA FileInit == Init => FileInv
BY NoneIsSeq DEF Init, PhaseInit, FileInv

-----------------------------------------------------------------------------
(* The numbers in the maps *)

KeysInUse ==
    /\ \A k \in DOMAIN phase_def : k[2] \in 1..max_var
    /\ \A e \in DOMAIN eflit_def : e \in 1..max_var
    /\ \A k \in DOMAIN eflit_shortcut : k[2] \in 1..max_var

NumberInv ==
    /\ pc \in Before => DOMAIN phase_def = {} /\ DOMAIN eflit_def = {}
    /\ KeysInUse
    /\ NumbersNameTheirClauses

(* The first of the clauses for one side of a phase is about the pivot and the
   phase, whatever the parent's phase. *)
LEMMA PhaseClausesType ==
    ASSUME NEW piv, NEW ph, NEW phi \in Nat \ {0}
    PROVE  LET side == PhaseClauses(piv, ph, phi)
           IN  /\ IsSeq(side) /\ Len(side) \in 1..2
               /\ Head(side[1]) = piv /\ VarOf(Last(side[1])) = phi
<1> DEFINE side == PhaseClauses(piv, ph, phi)
<1>1. IsSeq(side) /\ Len(side) \in 1..2
    BY OneIsSeq, TwoIsSeq DEF PhaseClauses
<1>2. Head(side[1]) = piv /\ Last(side[1]) \in {phi, -phi}
    <2>1. CASE ph = CONST_TRUE
        <3>1. side[1] = <<piv, phi>>
            BY <2>1 DEF PhaseClauses
        <3> QED BY <3>1 DEF Last
    <2>2. CASE ph # CONST_TRUE /\ ph = CONST_FALSE
        <3>1. side[1] = <<piv, -phi>>
            BY <2>2 DEF PhaseClauses
        <3> QED BY <3>1 DEF Last
    <2>3. CASE ph # CONST_TRUE /\ ph # CONST_FALSE
        <3>1. side[1] = <<piv, -ph, phi>>
            BY <2>3 DEF PhaseClauses
        <3> QED BY <3>1 DEF Last
    <2> QED BY <2>1, <2>2, <2>3
<1>3. VarOf(phi) = phi /\ VarOf(-phi) = phi
    BY DEF VarOf
<1> QED BY <1>1, <1>2, <1>3

(* What names a clause of a file names it when the file has grown. *)
LEMMA NamesStay ==
    ASSUME FileInv, CertGrows, RupGrows, NumberInv, VarInv,
           UNCHANGED eflitMaps, max_var' \in Nat, max_var <= max_var', StageStep
    PROVE  NumberInv'
<1>1. /\ num_clauses' = Len(cert')
      /\ \A i \in DOMAIN cert : i \in DOMAIN cert' /\ cert'[i] = cert[i]
      /\ \A i \in DOMAIN rup : i \in DOMAIN rup' /\ rup'[i] = rup[i]
    BY FilesKept DEF Extends
<1>2. KeysInUse'
    BY ConstAssumption DEF NumberInv, KeysInUse, VarInv, eflitMaps
<1>3. pc \in Before \/ UNCHANGED num_cnf_clauses
    BY DEF StageStep
<1>4. pc' \in Before => DOMAIN phase_def' = {} /\ DOMAIN eflit_def' = {}
    BY DEF StageStep, NumberInv, eflitMaps
<1>5. NumbersNameTheirClauses'
    <2>1. CASE pc \in Before
        BY <1>1, <2>1 DEF NumberInv, NumbersNameTheirClauses, eflitMaps
    <2>2. CASE UNCHANGED num_cnf_clauses
        BY <1>1, <2>2 DEF NumberInv, NumbersNameTheirClauses, CertClause, eflitMaps
    <2> QED BY <1>3, <2>1, <2>2
<1> QED BY <1>2, <1>4, <1>5 DEF NumberInv

(* update_phase counts by hand, and names the first clause of each side. *)
LEMMA NewPhaseNumbers ==
    ASSUME ControlInv, ClauseInv, StepInv, VarInv, FileInv, NumberInv, NewPhase
    PROVE  NumberInv'
<1> DEFINE phi == max_var + 1
           side1 == PhaseClauses(step.pivot, PhaseLeft, phi)
           side2 == PhaseClauses(-step.pivot, PhaseRight, phi)
           n1 == num_cnf_clauses + num_clauses + 1
           n2 == num_cnf_clauses + num_clauses + (1 + Len(side1))
           key1 == <<step.pivot, phi>>
           key2 == <<-step.pivot, phi>>
<1>1. /\ cert' = cert \o side1 \o side2
      /\ max_var' = phi
      /\ phase_def' = Put(Put(phase_def, key1, n1), key2, n2)
    BY DEF NewPhase, UpdatePhase, Fresh, CertId
<1>2. UNCHANGED <<num_cnf_clauses, rup, eflit_def, eflit_shortcut>> /\ pc' = "eflit" /\ pc = "merge"
    BY DEF NewPhase, RecordPhase, Merging, stepUnchanged
<1>3. phi \in Nat \ {0} /\ num_cnf_clauses \in Nat /\ max_var \in Nat
    BY ConstAssumption DEF VarInv
<1>4. /\ IsSeq(side1) /\ Len(side1) \in 1..2 /\ Head(side1[1]) = step.pivot
      /\ VarOf(Last(side1[1])) = phi
      /\ IsSeq(side2) /\ Len(side2) \in 1..2 /\ Head(side2[1]) = -step.pivot
      /\ VarOf(Last(side2[1])) = phi
    BY <1>3, PhaseClausesType
<1> HIDE DEF side1, side2
<1>5. CertGrows /\ RupGrows
    BY FilesGrow DEF Next, Translate, MergingPhases
<1>6. /\ num_clauses' = Len(cert') /\ num_clauses = Len(cert)
      /\ \A i \in DOMAIN cert : i \in DOMAIN cert' /\ cert'[i] = cert[i]
    BY <1>5, FilesKept DEF Extends, FileInv
<1>7. /\ num_clauses + 1 \in DOMAIN cert' /\ cert'[num_clauses + 1] = side1[1]
      /\ num_clauses + (1 + Len(side1)) \in DOMAIN cert'
      /\ cert'[num_clauses + (1 + Len(side1))] = side2[1]
    <2>1. /\ DOMAIN cert' = 1..(num_clauses + Len(side1) + Len(side2))
          /\ \A i \in 1..Len(side1) : cert'[num_clauses + i] = side1[i]
          /\ \A i \in 1..Len(side2) : cert'[num_clauses + Len(side1) + i] = side2[i]
          /\ num_clauses \in Nat
        BY <1>1, <1>4, <1>6, TwoPieces DEF FileInv
    <2>2. num_clauses + (1 + Len(side1)) = num_clauses + Len(side1) + 1
        BY <1>4, <2>1
    <2> QED BY <1>4, <2>1, <2>2
<1>8. num_clauses \in Nat
    BY <1>6, LengthType DEF FileInv
<1>9. n1 - num_cnf_clauses = num_clauses + 1
      /\ n2 - num_cnf_clauses = num_clauses + (1 + Len(side1))
    BY <1>3, <1>4, <1>8
<1>10. ASSUME NEW k \in DOMAIN phase_def'
       PROVE  /\ phase_def'[k] - num_cnf_clauses \in DOMAIN cert'
              /\ Head(cert'[phase_def'[k] - num_cnf_clauses]) = k[1]
              /\ VarOf(Last(cert'[phase_def'[k] - num_cnf_clauses])) = k[2]
              /\ k[2] \in 1..max_var'
    <2>0. phi \in 1..max_var' /\ key1[1] = step.pivot /\ key1[2] = phi
          /\ key2[1] = -step.pivot /\ key2[2] = phi
        BY <1>1, <1>3
    <2> HIDE DEF key1, key2, n1, n2
    <2>1. CASE k = key2
        <3>1. phase_def'[k] = n2
            BY <1>1, <1>10, <2>1 DEF Put
        <3> QED BY <1>4, <1>7, <1>9, <2>0, <2>1, <3>1
    <2>2. CASE k = key1 /\ k # key2
        <3>1. phase_def'[k] = n1
            BY <1>1, <1>10, <2>2 DEF Put
        <3> QED BY <1>4, <1>7, <1>9, <2>0, <2>2, <3>1
    <2>3. CASE k # key1 /\ k # key2
        <3>1. k \in DOMAIN phase_def /\ phase_def'[k] = phase_def[k]
            BY <1>1, <1>10, <2>3 DEF Put
        <3>2. /\ phase_def[k] - num_cnf_clauses \in DOMAIN cert
              /\ Head(cert[phase_def[k] - num_cnf_clauses]) = k[1]
              /\ VarOf(Last(cert[phase_def[k] - num_cnf_clauses])) = k[2]
              /\ k[2] \in 1..max_var
            BY <3>1 DEF NumberInv, NumbersNameTheirClauses, CertClause, KeysInUse
        <3>3. k[2] \in 1..max_var'
            BY <1>1, <1>3, <3>2
        <3> QED BY <1>6, <3>1, <3>2, <3>3
    <2> QED BY <2>1, <2>2, <2>3
<1>11. KeysInUse'
    <2>1. \A k \in DOMAIN phase_def' : k[2] \in 1..max_var'
        BY <1>10
    <2>2. \A v \in 1..max_var : v \in 1..max_var'
        BY <1>1, <1>3
    <2>3. UNCHANGED <<eflit_def, eflit_shortcut>>
        BY <1>2
    <2>4. /\ \A e \in DOMAIN eflit_def' : e \in 1..max_var'
          /\ \A k \in DOMAIN eflit_shortcut' : k[2] \in 1..max_var'
        BY <2>2, <2>3 DEF NumberInv, KeysInUse
    <2> QED BY <2>1, <2>4 DEF KeysInUse
<1>12. NumbersNameTheirClauses'
    BY <1>2, <1>6, <1>10 DEF NumberInv, NumbersNameTheirClauses, CertClause
<1>13. pc' \notin Before
    BY <1>2 DEF Before
<1> QED BY <1>11, <1>12, <1>13 DEF NumberInv

(* make_eflit names the first of its four clauses, and the merge loop the last
   lemma for each side. *)
LEMMA NewEflitNumbers ==
    ASSUME ControlInv, ClauseInv, StepInv, VarInv, FileInv, NumberInv, NewEflit
    PROVE  NumberInv'
<1> DEFINE e == max_var + 1
           var == VarOf(step.lit)
           equiv == EquivClauses(e, var, step.phi)
           ef1 == EflitIn(Insert(eflit, <<var, step.phi>>, e), step.lit, step.left)
           ef2 == EflitIn(Insert(eflit, <<var, step.phi>>, e), -step.lit, step.right)
           side1 == SideClauses(e, step.pivot, ef1, step.left)
           side2 == SideClauses(e, -step.pivot, ef2, step.right)
           def == num_cnf_clauses + num_clauses + 1
           n1 == Len(rup) + Len(side1)
           n2 == Len(rup) + Len(side1) + Len(side2)
           key1 == <<step.pivot, e>>
           key2 == <<-step.pivot, e>>
<1>1. /\ cert' = cert \o equiv
      /\ max_var' = e
      /\ eflit_def' = Put(eflit_def, e, def)
      /\ rup' = rup \o side1 \o side2
      /\ eflit_shortcut' = Put(Put(eflit_shortcut, key1, n1), key2, n2)
    BY DEF NewEflit, MakeEflit, Fresh, CertId
<1>2. UNCHANGED <<num_cnf_clauses, phase_def>> /\ pc' = "merge" /\ pc = "eflit"
    BY DEF NewEflit, stepUnchanged
<1>3. num_cnf_clauses \in Nat /\ max_var \in Nat
    BY ConstAssumption DEF VarInv
<1>4. /\ IsSeq(side1) /\ Len(side1) \in 1..2
      /\ side1[Len(side1)][1] = e /\ side1[Len(side1)][2] = step.pivot
      /\ IsSeq(side2) /\ Len(side2) \in 1..2
      /\ side2[Len(side2)][1] = e /\ side2[Len(side2)][2] = -step.pivot
    BY SideClausesType
<1>5. IsSeq(equiv) /\ Len(equiv) = 4 /\ Head(equiv[1]) = -e
    BY FourIsSeq DEF EquivClauses
<1> HIDE DEF side1, side2, equiv
<1>6. CertGrows /\ RupGrows
    BY FilesGrow DEF Next, Translate, MergingPhases
<1>7. /\ num_clauses' = Len(cert') /\ num_clauses = Len(cert) /\ num_clauses \in Nat
      /\ \A i \in DOMAIN cert : i \in DOMAIN cert' /\ cert'[i] = cert[i]
      /\ \A i \in DOMAIN rup : i \in DOMAIN rup' /\ rup'[i] = rup[i]
    BY <1>6, FilesKept, LengthType DEF Extends, FileInv
<1>8. def - num_cnf_clauses \in DOMAIN cert' /\ Head(cert'[def - num_cnf_clauses]) = -e
    <2>1. def - num_cnf_clauses = num_clauses + 1
        BY <1>3, <1>7
    <2>2. /\ IsSeq(cert') /\ Len(cert') = num_clauses + 4
          /\ cert'[num_clauses + 1] = equiv[1]
        <3> HIDE DEF e, def
        <3>1. /\ IsSeq(cert \o equiv) /\ Len(cert \o equiv) = Len(cert) + Len(equiv)
              /\ \A i \in 1..Len(equiv) : (cert \o equiv)[Len(cert) + i] = equiv[i]
            <4>1. IsSeq(cert) /\ IsSeq(equiv)
                BY <1>5 DEF FileInv
            <4> QED BY <4>1, ConcatIsSeq
        <3>2. 1 \in 1..Len(equiv)
            BY <1>5
        <3> QED BY <1>1, <1>5, <1>7, <3>1, <3>2
    <2>3. num_clauses + 1 \in DOMAIN cert'
        BY <1>7, <2>2, LengthType
    <2> QED BY <1>5, <2>1, <2>2, <2>3
<1>9. /\ n1 \in DOMAIN rup' /\ rup'[n1] = side1[Len(side1)]
      /\ n2 \in DOMAIN rup' /\ rup'[n2] = side2[Len(side2)]
    <2>1. /\ DOMAIN rup' = 1..(Len(rup) + Len(side1) + Len(side2))
          /\ \A i \in 1..Len(side1) : rup'[Len(rup) + i] = side1[i]
          /\ \A i \in 1..Len(side2) : rup'[Len(rup) + Len(side1) + i] = side2[i]
          /\ Len(rup) \in Nat
        BY <1>1, <1>4, TwoPieces DEF FileInv
    <2> QED BY <1>4, <2>1
<1>10. e \in 1..max_var' /\ max_var <= max_var' /\ max_var' \in Nat
    BY <1>1, <1>3
<1>11. ASSUME NEW k \in DOMAIN eflit_def'
       PROVE  /\ eflit_def'[k] - num_cnf_clauses \in DOMAIN cert'
              /\ Head(cert'[eflit_def'[k] - num_cnf_clauses]) = -k
              /\ k \in 1..max_var'
    <2> HIDE DEF e, def
    <2>1. CASE k = e
        <3>1. eflit_def'[k] = def
            BY <1>1, <1>11, <2>1 DEF Put
        <3> QED BY <1>8, <1>10, <2>1, <3>1
    <2>2. CASE k # e
        <3>1. k \in DOMAIN eflit_def /\ eflit_def'[k] = eflit_def[k]
            BY <1>1, <1>11, <2>2 DEF Put
        <3>2. /\ eflit_def[k] - num_cnf_clauses \in DOMAIN cert
              /\ Head(cert[eflit_def[k] - num_cnf_clauses]) = -k
              /\ k \in 1..max_var
            BY <3>1 DEF NumberInv, NumbersNameTheirClauses, CertClause, KeysInUse
        <3>3. k \in 1..max_var'
            BY <1>3, <1>10, <3>2
        <3> QED BY <1>7, <3>1, <3>2, <3>3
    <2> QED BY <2>1, <2>2
<1>12. ASSUME NEW k \in DOMAIN eflit_shortcut'
       PROVE  /\ eflit_shortcut'[k] \in DOMAIN rup'
              /\ rup'[eflit_shortcut'[k]][1] = k[2]
              /\ rup'[eflit_shortcut'[k]][2] = k[1]
              /\ k[2] \in 1..max_var'
    <2>0. key1[1] = step.pivot /\ key1[2] = e /\ key2[1] = -step.pivot /\ key2[2] = e
        OBVIOUS
    <2> HIDE DEF e, key1, key2, n1, n2
    <2>1. CASE k = key2
        <3>1. eflit_shortcut'[k] = n2
            BY <1>1, <1>12, <2>1 DEF Put
        <3> QED BY <1>4, <1>9, <1>10, <2>0, <2>1, <3>1
    <2>2. CASE k = key1 /\ k # key2
        <3>1. eflit_shortcut'[k] = n1
            BY <1>1, <1>12, <2>2 DEF Put
        <3> QED BY <1>4, <1>9, <1>10, <2>0, <2>2, <3>1
    <2>3. CASE k # key1 /\ k # key2
        <3>1. k \in DOMAIN eflit_shortcut /\ eflit_shortcut'[k] = eflit_shortcut[k]
            BY <1>1, <1>12, <2>3 DEF Put
        <3>2. /\ eflit_shortcut[k] \in DOMAIN rup
              /\ rup[eflit_shortcut[k]][1] = k[2]
              /\ rup[eflit_shortcut[k]][2] = k[1]
              /\ k[2] \in 1..max_var
            BY <3>1 DEF NumberInv, NumbersNameTheirClauses, KeysInUse
        <3>3. k[2] \in 1..max_var'
            BY <1>3, <1>10, <3>2
        <3> QED BY <1>7, <3>1, <3>2, <3>3
    <2> QED BY <2>1, <2>2, <2>3
<1>13. \A k \in DOMAIN phase_def :
          /\ phase_def[k] - num_cnf_clauses \in DOMAIN cert'
          /\ Head(cert'[phase_def[k] - num_cnf_clauses]) = k[1]
          /\ VarOf(Last(cert'[phase_def[k] - num_cnf_clauses])) = k[2]
          /\ k[2] \in 1..max_var'
    <2>1. ASSUME NEW k \in DOMAIN phase_def PROVE k[2] \in 1..max_var'
        <3> HIDE DEF e
        <3> QED BY <1>3, <1>10, <2>1 DEF NumberInv, KeysInUse
    <2> QED BY <1>7, <2>1 DEF NumberInv, NumbersNameTheirClauses, CertClause
<1>14. KeysInUse'
    BY <1>2, <1>11, <1>12, <1>13 DEF KeysInUse
<1>15. NumbersNameTheirClauses'
    BY <1>2, <1>7, <1>11, <1>12, <1>13 DEF NumbersNameTheirClauses, CertClause
<1>16. pc' \notin Before
    BY <1>2 DEF Before
<1> QED BY <1>14, <1>15, <1>16 DEF NumberInv

(* The maps of numbers are empty at the start, and so is the certificate. *)
LEMMA NumberInit == Init => NumberInv
BY NoneIsSeq DEF Init, PhaseInit, NumberInv, KeysInUse, NumbersNameTheirClauses, Before, EmptyMap

(* Of all the invariants so far. *)
MapInv == ControlInv /\ ClauseInv /\ StepInv /\ VarInv /\ FileInv /\ NumberInv

(* They hold at the start. *)
LEMMA MapInit == Init => MapInv
BY ControlInit, ClauseInit, StepInit, VarInit, FileInit, NumberInit DEF MapInv

(* Every step keeps them. *)
LEMMA MapNext == MapInv /\ [Next]_vars => MapInv'
<1> SUFFICES ASSUME MapInv, [Next]_vars PROVE MapInv'
    OBVIOUS
<1> USE DEF MapInv
<1>1. ControlInv' /\ ClauseInv' /\ StepInv' /\ VarInv' /\ FileInv'
    BY ControlNext, ClauseNext, StepNext, VarNext, FileNext
<1>2. NumberInv'
    <2>1. StageStep
        BY StageNext
    <2>2. CertGrows /\ RupGrows
        BY FilesGrow
    <2>3. max_var' \in Nat /\ max_var <= max_var'
        BY MaxVarGrows
    <2>4. CASE UNCHANGED eflitMaps
        BY <2>1, <2>2, <2>3, <2>4, NamesStay
    <2> QED BY <2>1, <2>4, NewPhaseNumbers, NewEflitNumbers DEF StageStep
<1> QED BY <1>1, <1>2

(* A clause is named in a hint by a number that the counters had when it was
   written.  Whatever the proof, every number that is remembered for a phase,
   an effective literal or a shortcut names a clause about it. *)
THEOREM NumbersAreRight == Spec => []NumbersNameTheirClauses
<1>1. MapInv => NumbersNameTheirClauses
    BY DEF MapInv, NumberInv
<1> QED BY <1>1, MapInit, MapNext, PTL DEF Spec

-----------------------------------------------------------------------------
(* Numbers stay what they are *)

(* An entry for a new key, or one that insert() makes, leaves the others. *)
LEMMA EntriesStay ==
    \A map, key, val :
        /\ key \notin DOMAIN map => Extends(Put(map, key, val), map)
        /\ Extends(Insert(map, key, val), map)
BY DEF Extends, Put, Insert

(* A table that nobody writes to is an extension of itself. *)
LEMMA SameExtends == \A map : Extends(map, map)
BY DEF Extends

(* The certificate, the RUP file and the maps of numbers only grow: a hint that
   was right when it was written stays right. *)
THEOREM HintsRemainValid == Spec => HintsStayValid
<1> DEFINE Grow == /\ Extends(cert', cert)
                   /\ Extends(rup', rup)
                   /\ Extends(eflit', eflit)
                   /\ Extends(phase_cache', phase_cache)
                   /\ Extends(eflit_def', eflit_def)
                   /\ Extends(phase_def', phase_def)
                   /\ Extends(eflit_shortcut', eflit_shortcut)
<1>1. ASSUME MapInv, [Next]_vars PROVE Grow
    <2> USE <1>1 DEF MapInv
    <2>1. StageStep
        BY StageNext
    <2>2. Extends(cert', cert) /\ Extends(rup', rup)
        BY FilesGrow, FilesKept
    <2>3. ASSUME NEW piv, NEW n, n = max_var + 1
          PROVE  /\ <<piv, n>> \notin DOMAIN phase_def /\ n \notin DOMAIN eflit_def
                 /\ <<piv, n>> \notin DOMAIN eflit_shortcut
        BY <2>3, ConstAssumption DEF NumberInv, KeysInUse, VarInv
    <2>4. CASE UNCHANGED eflitMaps
        BY <2>2, <2>4, SameExtends DEF eflitMaps
    <2>5. CASE NewPhase
        <3> DEFINE n == max_var + 1
        <3>1. \E k : phase_cache' = Insert(phase_cache, k, n)
            BY <2>5 DEF NewPhase, UpdatePhase, Fresh
        <3>2. \E a, b : phase_def' = Put(Put(phase_def, <<step.pivot, n>>, a),
                                         <<-step.pivot, n>>, b)
            BY <2>5 DEF NewPhase, UpdatePhase, Fresh
        <3>3. UNCHANGED <<eflit, eflit_def, eflit_shortcut>>
            BY <2>5 DEF NewPhase
        <3>4. /\ <<step.pivot, n>> \notin DOMAIN phase_def
              /\ <<-step.pivot, n>> \notin DOMAIN phase_def
            BY <2>3
        <3> HIDE DEF n
        <3>5. Extends(phase_def', phase_def)
            BY <3>2, <3>4 DEF Extends, Put
        <3> QED BY <2>2, <3>1, <3>3, <3>5, EntriesStay, SameExtends
    <2>6. CASE NewEflit
        <3> DEFINE n == max_var + 1
        <3>1. \E k : eflit' = Insert(eflit, k, n)
            BY <2>6 DEF NewEflit, MakeEflit, Fresh
        <3>2. \E d : eflit_def' = Put(eflit_def, n, d)
            BY <2>6 DEF NewEflit, MakeEflit, Fresh
        <3>3. \E a, b : eflit_shortcut' = Put(Put(eflit_shortcut, <<step.pivot, n>>, a),
                                              <<-step.pivot, n>>, b)
            BY <2>6 DEF NewEflit, MakeEflit, Fresh
        <3>4. UNCHANGED <<phase_cache, phase_def>>
            BY <2>6 DEF NewEflit
        <3>5. /\ <<step.pivot, n>> \notin DOMAIN eflit_shortcut
              /\ <<-step.pivot, n>> \notin DOMAIN eflit_shortcut
              /\ n \notin DOMAIN eflit_def
            BY <2>3
        <3> HIDE DEF n
        <3>6. Extends(eflit_shortcut', eflit_shortcut)
            BY <3>3, <3>5 DEF Extends, Put
        <3> QED BY <2>2, <3>1, <3>2, <3>4, <3>5, <3>6, EntriesStay, SameExtends
    <2> QED BY <2>1, <2>4, <2>5, <2>6 DEF StageStep
<1>2. MapInv /\ [Next]_vars => [Grow]_vars
    BY <1>1
<1> HIDE DEF Grow
<1>3. Spec => [][Grow]_vars
    BY <1>2, MapInit, MapNext, PTL DEF Spec
<1> QED BY <1>3 DEF HintsStayValid, Grow

-----------------------------------------------------------------------------
(* Phases that are shared *)

PivotInv == pc \in {"merge", "eflit"} => step.pivot \in NonZero

CacheInv ==
    /\ \A k \in DOMAIN phase_cache :
            /\ k[1] \in Nat \ {0}
            /\ <<k[1], phase_cache[k]>> \in DOMAIN phase_def
            /\ <<-k[1], phase_cache[k]>> \in DOMAIN phase_def
    /\ \A k1, k2 \in DOMAIN phase_cache : phase_cache[k1] = phase_cache[k2] => k1 = k2

(* A pivot that check_resolution() answers with is a literal. *)
LEMMA PivotType ==
    ASSUME NEW vd, NEW c1, NEW c2, NEW r, NEW ptype, IsLiteralSet(c1),
           CheckResolution(vd, c1, c2, r, ptype).pivot # 0
    PROVE  CheckResolution(vd, c1, c2, r, ptype).pivot \in NonZero
<1> DEFINE pivots == {l \in {l \in c1 : -l \in c2} : IsPrimary(vd, VarOf(l), ptype)}
           pivot == CHOOSE l \in pivots : TRUE
<1>1. /\ Cardinality(pivots) = 1
      /\ CheckResolution(vd, c1, c2, r, ptype).pivot = pivot
    BY DEF CheckResolution
<1>2. pivots # {}
    BY <1>1, FS_EmptySet
<1>3. pivot \in pivots
    BY <1>2
<1>4. pivot \in Int
    BY <1>3 DEF IsLiteralSet
<1> QED BY <1>1, <1>4 DEF NonZero

(* The pivot of a step whose merged literals are looked at stays what it is. *)
LEMMA PivotNext == ClauseInv /\ StepInv /\ PivotInv /\ [Next]_vars => PivotInv'
<1> SUFFICES ASSUME ClauseInv, StepInv, PivotInv, [Next]_vars PROVE PivotInv'
    OBVIOUS
<1> USE DEF PivotInv
<1>1. CASE UNCHANGED vars
    BY <1>1 DEF vars
<1>2. CASE Preparing \/ ReadingLines
    BY <1>2 DEF Preparing, ReadOnAndOn, FirstPass, VisitConstraint, NextSink, OpenProof,
                searchUnchanged, vars, ReadingLines, ReadingLine, CoreLine, SkipLine,
                RecordInternalAxiom, RecordInputClause, RecordInitialTerm, ReadReduction,
                ReadResolution, NextResolution
<1>3. CASE CheckResolutionStep
    <2> DEFINE check == CheckResolution(var_data, Clause(left), Clause(right), Clause(res),
                                        constraint_type[right])
    <2>1. step'.pivot = check.pivot /\ (pc' = "merge" => check.pivot # 0)
          /\ pc' \in {"failed", "merge"}
        BY <1>3 DEF CheckResolutionStep, NewStep
    <2>2. check.pivot # 0 => check.pivot \in NonZero
        BY ClauseType, PivotType
    <2> HIDE DEF check
    <2> QED BY <2>1, <2>2
<1>4. CASE CheckReductionStep
    BY <1>4 DEF CheckReductionStep
<1>5. CASE SamePhase \/ CachedPhase \/ NewPhase
    <2>1. \E phi, lits, idx : RecordPhase(phi, lits, idx) /\ pc = "merge"
        BY <1>5 DEF SamePhase, CachedPhase, NewPhase, Merging
    <2>2. step'.pivot = step.pivot /\ pc = "merge"
        BY <2>1 DEF RecordPhase, StepInv, NewStep
    <2> QED BY <2>2
<1>6. CASE KnownEflit \/ NewEflit
    BY <1>6 DEF KnownEflit, NewEflit
<1>7. CASE CopyParentPhases \/ SplitAndShadow
    BY <1>7 DEF CopyParentPhases, SplitAndShadow
<1>8. CASE Reducing
    BY <1>8 DEF Reducing, DefineG, AuxGate, ReduceSimple, GLemma, ReduceMerged, PushArrays
<1>9. CASE NotReducing
    BY <1>9 DEF NotReducing, EmitResolvent, Reroute
<1>10. CASE Returning
    BY <1>10 DEF Returning, ReturnReduction, ReturnSafetyReduction, ReturnIntermediate,
                 ReturnFinal, ReturnCrash, ReturnFailure
<1>11. CASE Finishing
    BY <1>11 DEF Finishing, EndOfProof, WriteGratProof, CombineFiles
<1> QED
    BY <1>1, <1>2, <1>3, <1>4, <1>5, <1>6, <1>7, <1>8, <1>9, <1>10, <1>11
       DEF Next, Translate, Terminated, Checking, MergingPhases

(* The key of a phase has a positive pivot, from whichever side it is made. *)
LEMMA KeyType ==
    ASSUME NEW piv \in NonZero, NEW l, NEW r
    PROVE  /\ CacheKey(piv, l, r)[1] \in Nat \ {0}
           /\ CacheKey(piv, l, r)[1] \in {piv, -piv}
           /\ -CacheKey(piv, l, r)[1] \in {piv, -piv}
<1>1. CASE piv > 0
    <2>1. CacheKey(piv, l, r)[1] = piv
        BY <1>1 DEF CacheKey
    <2> QED BY <1>1, <2>1 DEF NonZero
<1>2. CASE ~(piv > 0)
    <2>1. CacheKey(piv, l, r)[1] = -piv
        BY <1>2 DEF CacheKey
    <2>2. -piv \in Nat \ {0} /\ -(-piv) = piv
        BY <1>2 DEF NonZero
    <2> QED BY <2>1, <2>2
<1> QED BY <1>1, <1>2

(* A phase enters the cache with a variable that no other one has, and with a
   definition from either side of its pivot. *)
LEMMA CacheNext == MapInv /\ PivotInv /\ CacheInv /\ [Next]_vars => CacheInv'
<1> SUFFICES ASSUME MapInv, PivotInv, CacheInv, [Next]_vars PROVE CacheInv'
    OBVIOUS
<1>1. NewPhase \/ NewEflit \/ UNCHANGED eflitMaps
    BY StageNext DEF MapInv, StageStep
<1>2. CASE UNCHANGED eflitMaps
    BY <1>2 DEF CacheInv, eflitMaps
<1>3. CASE NewEflit
    BY <1>3 DEF CacheInv, NewEflit
<1>4. CASE NewPhase
    <2> DEFINE phi == max_var + 1
               key == CacheKey(step.pivot, PhaseLeft, PhaseRight)
    <2>1. /\ phase_cache' = Put(phase_cache, key, phi)
          /\ \E a, b : phase_def' = Put(Put(phase_def, <<step.pivot, phi>>, a),
                                        <<-step.pivot, phi>>, b)
        BY <1>4 DEF NewPhase, UpdatePhase, Fresh, Key, Insert
    <2>2. step.pivot \in NonZero
        BY <1>4 DEF NewPhase, Merging, PivotInv
    <2>3. /\ key[1] \in Nat \ {0} /\ key[1] \in {step.pivot, -step.pivot}
          /\ -key[1] \in {step.pivot, -step.pivot}
        BY <2>2, KeyType
    <2>4. \A k \in DOMAIN phase_cache : phase_cache[k] # phi
        BY ConstAssumption DEF MapInv, VarInv, ValuesBelow
    <2> HIDE DEF key, phi
    <2>5. DOMAIN phase_def' = DOMAIN phase_def \cup {<<step.pivot, phi>>, <<-step.pivot, phi>>}
        BY <2>1 DEF Put
    <2>6. /\ DOMAIN phase_cache' = DOMAIN phase_cache \cup {key}
          /\ \A k \in DOMAIN phase_cache' :
                phase_cache'[k] = IF k = key THEN phi ELSE phase_cache[k]
        BY <2>1 DEF Put
    <2>7. ASSUME NEW k \in DOMAIN phase_cache'
          PROVE  /\ k[1] \in Nat \ {0}
                 /\ <<k[1], phase_cache'[k]>> \in DOMAIN phase_def'
                 /\ <<-k[1], phase_cache'[k]>> \in DOMAIN phase_def'
        <3>1. CASE k = key
            BY <2>3, <2>5, <2>6, <3>1
        <3>2. CASE k # key
            BY <2>5, <2>6, <2>7, <3>2 DEF CacheInv
        <3> QED BY <3>1, <3>2
    <2>8. \A k1, k2 \in DOMAIN phase_cache' : phase_cache'[k1] = phase_cache'[k2] => k1 = k2
        BY <2>4, <2>6 DEF CacheInv
    <2> QED BY <2>7, <2>8 DEF CacheInv
<1> QED BY <1>1, <1>2, <1>3, <1>4

(* Two merges have the same phase variable exactly when they choose alike, on a
   pivot seen from either side: otherwise a hint would falsify the wrong phase. *)
THEOREM PhasesAreShared == Spec => []PhasesSharedByMeaning
<1>1. Init => PivotInv /\ CacheInv
    BY DEF Init, PhaseInit, PivotInv, CacheInv, EmptyMap
<1>2. CacheInv => PhasesSharedByMeaning
    <2>1. \A m, n : m \in Nat \ {0} /\ n \in Nat \ {0} => m # -n
        OBVIOUS
    <2> QED BY <2>1 DEF CacheInv, PhasesSharedByMeaning
<1>3. MapInv /\ PivotInv /\ CacheInv /\ [Next]_vars => (MapInv /\ PivotInv /\ CacheInv)'
    <2>1. MapInv => ClauseInv /\ StepInv
        BY DEF MapInv
    <2> QED BY <2>1, MapNext, PivotNext, CacheNext
<1> QED BY <1>1, <1>2, <1>3, MapInit, PTL DEF Spec

-----------------------------------------------------------------------------
(* The literals that a step reduces *)

(* check_reduction() asks for the variables of the two clauses only, and collects
   literals of the premise. *)
LEMMA ReductionIsKnown ==
    ASSUME NEW vd, NEW c, NEW d, NEW ptype, IsLiteralSet(c), IsLiteralSet(d)
    PROVE  LET check == CheckReduction(vd, c, d, ptype)
           IN  /\ DOMAIN check.var_data \subseteq DOMAIN vd \cup VarsOf(c) \cup VarsOf(d)
               /\ check.reduced \in Seq(c)
<1> DEFINE check == CheckReduction(vd, c, d, ptype)
           gone == SortedClause(c \ d)
<1>1. gone \in Seq(c)
    <2>1. IsFiniteSet(c \ d) /\ c \ d \subseteq Int
        BY LiteralSubset DEF IsLiteralSet
    <2>2. gone \in Seq(c \ d)
        BY <2>1, SortedClauseType
    <2> HIDE DEF gone
    <2> QED BY <2>2, SeqMonotonic
<1>2. Len(gone) \in Nat /\ DOMAIN gone = 1..Len(gone)
    <2> HIDE DEF gone
    <2> QED BY <1>1
<1>3. PICK bad \in SUBSET DOMAIN gone :
          LET stop == IF bad = {} THEN Len(gone) ELSE Min(bad)
          IN  /\ check.var_data = WithDefaults(vd, VarsOf(d \cup {gone[i] : i \in 1..stop}))
              /\ check.reduced = SubSeq(gone, 1, IF bad = {} THEN stop ELSE stop - 1)
    <2> DEFINE vd1 == WithDefaults(vd, VarsOf(c \cup d))
               deepest == MaxDepth(vd1, Primaries(vd1, d, ptype))
               bad == {i \in DOMAIN gone : \/ IsPrimary(vd1, VarOf(gone[i]), ptype)
                                           \/ Depth(vd1, VarOf(gone[i])) <= deepest}
    <2>1. bad \in SUBSET DOMAIN gone
        OBVIOUS
    <2>2. LET stop == IF bad = {} THEN Len(gone) ELSE Min(bad)
          IN  /\ check.var_data = WithDefaults(vd, VarsOf(d \cup {gone[i] : i \in 1..stop}))
              /\ check.reduced = SubSeq(gone, 1, IF bad = {} THEN stop ELSE stop - 1)
        BY DEF CheckReduction
    <2> QED BY <2>1, <2>2
<1> DEFINE stop == IF bad = {} THEN Len(gone) ELSE Min(bad)
           last == IF bad = {} THEN stop ELSE stop - 1
<1> HIDE DEF gone, check
<1>4. stop \in 0..Len(gone) /\ last \in 0..Len(gone)
    <2>1. CASE bad = {}
        BY <1>2, <2>1
    <2>2. CASE bad # {}
        <3>1. \E m \in bad : \A n \in bad : m <= n
            BY <1>2, <2>2, LeastNumber
        <3>2. Min(bad) \in bad
            BY <3>1 DEF Min
        <3> QED BY <1>2, <2>2, <3>2
    <2> QED BY <2>1, <2>2
<1>5. check.var_data = WithDefaults(vd, VarsOf(d \cup {gone[i] : i \in 1..stop}))
      /\ check.reduced = SubSeq(gone, 1, last)
    BY <1>3
<1> HIDE DEF stop, last
<1>6. check.reduced \in Seq(c)
    BY <1>1, <1>2, <1>4, <1>5, SubSeqProperties
<1>7. \A i \in 1..stop : gone[i] \in c
    BY <1>1, <1>2, <1>4
<1>8. DOMAIN check.var_data \subseteq DOMAIN vd \cup VarsOf(c) \cup VarsOf(d)
    BY <1>5, <1>7 DEF WithDefaults, VarsOf
<1> QED BY <1>6, <1>8 DEF check

(* check_resolution() collects literals of the two clauses. *)
LEMMA ReducedIsKnown ==
    ASSUME NEW vd, NEW c1, NEW c2, NEW r, NEW ptype, IsLiteralSet(c1), IsLiteralSet(c2)
    PROVE  CheckResolution(vd, c1, c2, r, ptype).reduced \in Seq(c1 \cup c2)
<1> DEFINE reduced1 == {l \in c1 \ r : ~IsPrimary(vd, VarOf(l), ptype)}
           rest2 == c2 \ (r \cup reduced1)
           reduced2 == {l \in rest2 : ~IsPrimary(vd, VarOf(l), ptype)}
<1>1. CheckResolution(vd, c1, c2, r, ptype).reduced
          = SortedClause(reduced1) \o SortedClause(reduced2)
    BY DEF CheckResolution
<1>2. reduced1 \subseteq c1 /\ reduced2 \subseteq c2
    OBVIOUS
<1> HIDE DEF reduced1, reduced2
<1>3. ASSUME NEW c, IsLiteralSet(c), NEW part \in SUBSET c PROVE SortedClause(part) \in Seq(c)
    <2>1. IsFiniteSet(part) /\ part \subseteq Int
        BY <1>3, LiteralSubset DEF IsLiteralSet
    <2>2. SortedClause(part) \in Seq(part)
        BY <2>1, SortedClauseType
    <2> QED BY <2>2, SeqMonotonic
<1>4. SortedClause(reduced1) \in Seq(c1 \cup c2) /\ SortedClause(reduced2) \in Seq(c1 \cup c2)
    <2>1. SortedClause(reduced1) \in Seq(c1) /\ SortedClause(reduced2) \in Seq(c2)
        BY <1>2, <1>3
    <2>2. c1 \subseteq c1 \cup c2 /\ c2 \subseteq c1 \cup c2
        OBVIOUS
    <2> QED BY <2>1, <2>2, SeqMonotonic
<1>5. SortedClause(reduced1) \o SortedClause(reduced2) \in Seq(c1 \cup c2)
    BY <1>4, ConcatProperties
<1> QED BY <1>1, <1>5

\* The merged variables that are reduced make a sequence.
MergedInv ==
    /\ pc \in {"merge", "eflit", "split"} => step.reduced_lits \in Seq(Int)
    /\ pc \in {"g", "gates", "merged"} => IsSeq(step.merged)

(* It is picked from the reduced literals of the check. *)
LEMMA MergedNext == ClauseInv /\ StepInv /\ MergedInv /\ [Next]_vars => MergedInv'
<1> SUFFICES ASSUME ClauseInv, StepInv, MergedInv, [Next]_vars,
                    pc' \in {"merge", "eflit", "split", "g", "gates", "merged"}
             PROVE  MergedInv'
    BY DEF MergedInv
<1>1. ASSUME NEW id PROVE IsLiteralSet(Clause(id)) /\ Clause(id) \subseteq Int
    BY ClauseType DEF IsLiteralSet
<1>2. DOMAIN step = DOMAIN NewStep
    BY DEF StepInv
<1> USE <1>2 DEF MergedInv, NewStep, stepUnchanged, returnUnchanged
<1>3. CASE UNCHANGED vars
    BY <1>3 DEF vars
<1>4. CASE CheckResolutionStep
    <2>1. PICK ptype :
              step'.reduced_lits = CheckResolution(var_data, Clause(left), Clause(right),
                                                   Clause(res), ptype).reduced
        BY <1>4 DEF CheckResolutionStep
    <2>2. step'.reduced_lits \in Seq(Clause(left) \cup Clause(right))
        BY <1>1, <2>1, ReducedIsKnown
    <2>3. Clause(left) \cup Clause(right) \subseteq Int
        BY <1>1
    <2>4. step'.reduced_lits \in Seq(Int)
        BY <2>2, <2>3, SeqMonotonic
    <2> QED BY <1>4, <2>4 DEF CheckResolutionStep
<1>5. CASE CheckReductionStep
    <2>1. PICK ctype :
              step'.reduced_lits = CheckReduction(var_data, Clause(left), Clause(res), ctype).reduced
        BY <1>5 DEF CheckReductionStep
    <2>2. step'.reduced_lits \in Seq(Clause(left))
        BY <1>1, <2>1, ReductionIsKnown
    <2>3. step'.reduced_lits \in Seq(Int)
        BY <1>1, <2>2, SeqMonotonic
    <2> QED BY <1>5, <2>3 DEF CheckReductionStep
<1>6. CASE SamePhase \/ CachedPhase \/ NewPhase
    <2>1. pc = "merge" /\ pc' = "eflit" /\ step'.reduced_lits = step.reduced_lits
        BY <1>6 DEF SamePhase, CachedPhase, NewPhase, RecordPhase, Merging
    <2> QED BY <2>1
<1>7. CASE KnownEflit \/ NewEflit \/ CopyParentPhases
    BY <1>7 DEF KnownEflit, NewEflit, CopyParentPhases
<1>8. CASE SplitAndShadow
    <2> DEFINE reduced == step.reduced_lits
               simple == {i \in DOMAIN reduced : IsConst(GetPhase(res, reduced[i]))}
               merged == {i \in DOMAIN reduced \ simple : reduced[i] > 0}
    <2>1. pc = "split" /\ pc' \in {"emit", "g"} /\ step'.merged = AtPlaces(reduced, merged)
        BY <1>8 DEF SplitAndShadow
    <2>2. reduced \in Seq(Int) /\ merged \in SUBSET DOMAIN reduced
        BY <2>1
    <2> HIDE DEF reduced, merged
    <2>3. step'.merged \in Seq(Int)
        BY <2>1, <2>2, AtPlacesType
    <2> QED BY <2>1, <2>3, SeqIsSeq
<1>9. CASE Reducing
    BY <1>9 DEF Reducing, DefineG, AuxGate, ReduceSimple, GLemma, ReduceMerged, PushArrays
<1>10. CASE NotReducing \/ Returning \/ Finishing \/ ReadingLines \/ Preparing
    BY <1>3, <1>10 DEF NotReducing, EmitResolvent, Reroute, Returning, ReturnReduction,
                 ReturnSafetyReduction, ReturnIntermediate, ReturnFinal, ReturnCrash,
                 ReturnFailure, Finishing, EndOfProof, WriteGratProof, CombineFiles,
                 ReadingLines, SkipLine, RecordInternalAxiom, RecordInputClause,
                 RecordInitialTerm, ReadReduction, ReadResolution, NextResolution, CoreLine,
                 ReadingLine, Preparing, ReadOnAndOn, FirstPass, VisitConstraint, NextSink,
                 OpenProof, SearchDone
<1> QED
    BY <1>3, <1>4, <1>5, <1>6, <1>7, <1>8, <1>9, <1>10
       DEF Next, Translate, Terminated, Checking, MergingPhases
=============================================================================
