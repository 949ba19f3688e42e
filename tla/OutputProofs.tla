----------------------------- MODULE OutputProofs -----------------------------
(***************************************************************************)
(* Proofs about what the translator writes.  The certificate is a circuit: *)
(* for every proof whose variables are known before anything is derived,   *)
(* nothing in it is defined twice.  The GRAT file announces the lemmas of  *)
(* the RUP file in their order, by the numbers that the hints use, through *)
(* the buffer, the auxiliary files and the writing backwards; the checker  *)
(* that reads the files adds them in that order.                           *)
(***************************************************************************)
EXTENDS CoreProofs, CheckedTranslation

\* The variables that the certificate finds.
Found == KnownVars \cup Range(clause_tseitin_variables)

(* The input and the core do not change while the proof is read, and with them
   what is known of its variables. *)
LEMMA FoundStays ==
    ASSUME UNCHANGED inputVars
    PROVE  UNCHANGED <<Found, VariablesKnown, AxiomsInFront, proofLines>>
<1>1. UNCHANGED proofLines
    BY LinesStay DEF inputVars
<1>2. UNCHANGED AxiomsInFront
    BY <1>1 DEF inputVars, AxiomsInFront
<1>3. UNCHANGED KnownVars
    BY <1>1, <1>2 DEF inputVars, KnownVars, PrefixVars
<1> QED BY <1>1, <1>2, <1>3 DEF inputVars, Found, VariablesKnown

-----------------------------------------------------------------------------
(* The variables of clauses *)

\* A clause of known variables.
IsKnown(c) == VarsOf(c) \subseteq Found

(* What the code reads of the proof and computes from it has no other variables. *)
ClauseVarsInv ==
    /\ pc \in Before => clause_database = EmptyMap /\ axioms = <<>>
    /\ pc \notin Before /\ VariablesKnown =>
        /\ \A id \in DOMAIN clause_database : IsKnown(clause_database[id])
        /\ DOMAIN var_data \subseteq Found

(* Every line is made of known variables, also when its literals are negated. *)
LEMMA LineIsKnown ==
    ASSUME ControlInv, VariablesKnown, next <= Len(proofLines), NEW ctype
    PROVE  IsKnown(LineClause(ctype))
<1>1. next \in DOMAIN proofLines
    BY LinesAreLines DEF ControlInv
<1>2. VarsOf(line.lits) \subseteq Found /\ IsLiteralSet(line.lits)
    BY <1>1, LinesAreLines DEF ControlInv, VariablesKnown, Found, line
<1>3. \A l \in line.lits : VarOf(-l) = VarOf(l)
    BY <1>2 DEF IsLiteralSet, VarOf
<1> QED BY <1>2, <1>3 DEF LineClause, Negated, VarsOf, IsKnown

(* resolve() brings in no variable. *)
LEMMA ResolventIsKnown ==
    ASSUME NEW vd, NEW c1, NEW c2, NEW ptype, IsKnown(c1), IsKnown(c2)
    PROVE  IsKnown(Resolve(vd, c1, c2, ptype))
<1>1. Resolve(vd, c1, c2, ptype) \subseteq c1 \cup c2
    <2>1. \A v : SurvivingPrimaries(c1, c2, v) \subseteq c1 \cup c2
        BY DEF SurvivingPrimaries, LitsOn
    <2> QED BY <2>1 DEF Resolve, Primaries
<1> QED BY <1>1 DEF IsKnown, VarsOf

(* A clause that is not there has no variables. *)
LEMMA ClauseIsKnown ==
    ASSUME ClauseVarsInv, pc \notin Before, VariablesKnown, NEW id
    PROVE  IsKnown(Clause(id))
BY DEF ClauseVarsInv, Clause, IsKnown, VarsOf

(* Nothing is stored at the start. *)
LEMMA ClauseVarsInit == Init => ClauseVarsInv
BY DEF Init, ClauseVarsInv, Before, EmptyMap

(* The first pass leaves the variables of the prefix in var_data, and those that stand
   for the clauses of a true formula behind them. *)
PrefixInv ==
    /\ pc = "start" => clause_tseitin_variables = <<>>
    /\ pc \in Before => next = 1
    /\ pc = "search" =>
        /\ DOMAIN var_data = PrefixVars
        /\ DOMAIN var_data \cup Range(clause_tseitin_variables) \subseteq 1..max_var

(* Nothing is read at the start. *)
LEMMA PrefixInit == Init => PrefixInv
BY DEF Init, PrefixInv, Before

(* The variables for the clauses of the formula are put behind those of the prefix. *)
LEMMA PrefixNext == ControlInv /\ VarInv /\ PrefixInv /\ [Next]_vars => PrefixInv'
<1> SUFFICES ASSUME ControlInv, VarInv, PrefixInv, [Next]_vars PROVE PrefixInv'
    OBVIOUS
<1> USE DEF PrefixInv, Before
<1>1. CASE UNCHANGED vars
    BY <1>1 DEF vars, readVars, inputVars, phaseVars, PrefixVars
<1>2. CASE FirstPass
    <2> DEFINE sinks == EmptyConstraints(input)
               fresh == IF TrueFormula /\ sinks # <<>> THEN Len(input.matrix) ELSE 0
    <2>1. /\ var_data' = ReadPrefix(input.prefix) /\ RaiseMaxVar(DOMAIN var_data', fresh)
          /\ clause_tseitin_variables' = [k \in 1..fresh |-> max_var' - fresh + k]
          /\ UNCHANGED <<input, next>> /\ pc = "start" /\ pc' # "start"
        BY <1>2 DEF FirstPass
    <2>2. DOMAIN var_data' = PrefixVars
        BY <2>1 DEF ReadPrefix, PrefixVars
    <2>3. PrefixVars \subseteq 1..(CONST_TRUE - 1)
        <3>1. \A i \in DOMAIN input.prefix : input.prefix[i].vars \subseteq 1..(CONST_TRUE - 1)
            BY InputAssumption DEF ControlInv
        <3> QED BY <3>1 DEF PrefixVars
    <2>4. fresh \in Nat
        <3>1. input.matrix \in Seq(Seq(Int))
            BY InputAssumption DEF ControlInv
        <3> QED BY <3>1
    <2> HIDE DEF fresh
    <2>5. PICK m \in {max_var} \cup PrefixVars :
              (\A v \in {max_var} \cup PrefixVars : v <= m) /\ max_var' = m + fresh
        BY <2>1, <2>2 DEF RaiseMaxVar
    <2>6. m \in Nat
        BY <2>3, <2>5, ConstAssumption DEF VarInv
    <2>7. PrefixVars \subseteq 1..max_var'
        BY <2>3, <2>4, <2>5, <2>6, ConstAssumption
    <2>8. Range(clause_tseitin_variables') \subseteq 1..max_var'
        BY <2>1, <2>4, <2>5, <2>6 DEF Range
    <2>9. UNCHANGED PrefixVars
        BY <2>1 DEF PrefixVars
    <2> QED BY <2>1, <2>2, <2>7, <2>8, <2>9
<1>3. CASE VisitConstraint \/ NextSink
    BY <1>3 DEF VisitConstraint, NextSink, searchUnchanged, phaseVars, PrefixVars
<1>4. CASE pc \notin Before \cup {"end"}
    BY <1>4, LineNext DEF LineStep
<1>5. CASE OpenProof
    BY <1>5 DEF OpenProof
<1> QED BY <1>1, <1>2, <1>3, <1>4, <1>5, Phases

(* A clause stored is a line of the proof or the result of resolve(), and the variables
   that check_reduction() asks for are those of clauses. *)
LEMMA ClauseVarsNext ==
    ControlInv /\ ClauseInv /\ PrefixInv /\ ClauseVarsInv /\ [Next]_vars => ClauseVarsInv'
<1> SUFFICES ASSUME ControlInv, ClauseInv, PrefixInv, ClauseVarsInv, [Next]_vars
             PROVE  ClauseVarsInv'
    OBVIOUS
<1>1. CASE UNCHANGED vars
    <2>1. UNCHANGED inputVars /\ UNCHANGED <<pc, clause_database, var_data, axioms>>
        BY <1>1 DEF vars, readVars, databaseVars
    <2>2. UNCHANGED <<Found, VariablesKnown>>
        BY <2>1, FoundStays
    <2> QED BY <2>1, <2>2 DEF ClauseVarsInv, IsKnown
<1>2. CASE FirstPass \/ VisitConstraint \/ NextSink \/ OpenProof
    <2>1. UNCHANGED <<clause_database, axioms, input>> /\ pc \in Before
        BY <1>2 DEF FirstPass, VisitConstraint, NextSink, OpenProof, SearchDone, searchUnchanged,
                    databaseVars, Before
    <2>2. pc' \notin Before => DOMAIN var_data' = PrefixVars
        BY <1>2 DEF FirstPass, VisitConstraint, NextSink, OpenProof, SearchDone, searchUnchanged,
                    ReadPrefix, PrefixVars, PrefixInv, Before
    <2>3. PrefixVars \subseteq Found'
        BY <2>1 DEF Found, KnownVars, PrefixVars
    <2>4. clause_database' = EmptyMap /\ axioms' = <<>>
        BY <2>1 DEF ClauseVarsInv
    <2> QED BY <2>2, <2>3, <2>4 DEF ClauseVarsInv, EmptyMap
<1>3. CASE pc \notin Before \cup {"end"}
    <2>1. pc' \notin Before /\ UNCHANGED inputVars
        BY <1>3, LineNext DEF LineStep
    <2>2. UNCHANGED <<Found, VariablesKnown, proofLines>>
        BY <2>1, FoundStays
    <2> SUFFICES ASSUME VariablesKnown
                 PROVE  /\ \A id \in DOMAIN clause_database' : IsKnown(clause_database'[id])
                        /\ DOMAIN var_data' \subseteq Found
        BY <2>1, <2>2 DEF ClauseVarsInv, IsKnown
    <2>3. \A id : IsKnown(Clause(id))
        BY <1>3, ClauseIsKnown
    <2> DEFINE stored == \A id \in DOMAIN clause_database' : IsKnown(clause_database'[id])
    <2>4. ASSUME UNCHANGED clause_database PROVE stored
        BY <1>3, <2>4 DEF ClauseVarsInv
    <2>5. ASSUME NEW ids, clause_database' = Without(clause_database, ids) PROVE stored
        BY <1>3, <2>5 DEF ClauseVarsInv, Without
    <2>6. ASSUME NEW id, NEW c, IsKnown(c), clause_database' = Put(clause_database, id, c)
          PROVE  stored
        BY <1>3, <2>6 DEF ClauseVarsInv, Put
    <2>7. ASSUME UNCHANGED var_data PROVE DOMAIN var_data' \subseteq Found
        BY <1>3, <2>7 DEF ClauseVarsInv
    <2> HIDE DEF stored
    <2> USE DEF stepUnchanged, readVars, databaseVars, returnUnchanged
    <2>8. CASE UNCHANGED vars
        BY <2>4, <2>7, <2>8 DEF vars, stored
    <2>9. CASE SkipLine
        BY <2>5, <2>7, <2>9 DEF SkipLine, stored
    <2>10. CASE RecordInternalAxiom \/ RecordInputClause \/ ReadReduction \/ ReadResolution
        <3>1. next <= Len(proofLines) /\ UNCHANGED var_data
            BY <2>10 DEF RecordInternalAxiom, RecordInputClause, ReadReduction, ReadResolution,
                         CoreLine, ReadingLine
        <3>2. \E ctype : clause_database' = Put(clause_database, line.id, LineClause(ctype))
            BY <2>10 DEF RecordInternalAxiom, RecordInputClause, ReadReduction, ReadResolution,
                         StoreLine
        <3>3. stored
            BY <2>6, <3>1, <3>2, LineIsKnown
        <3> QED BY <2>7, <3>1, <3>3 DEF stored
    <2>11. CASE RecordInitialTerm
        <3>1. next <= Len(proofLines) /\ UNCHANGED var_data
            BY <2>11 DEF RecordInitialTerm, CoreLine, ReadingLine
        <3>2. PICK ctype :
                  clause_database' = Put(Put(clause_database, line.id, LineClause(ctype)), spare_id,
                                         Resolve(var_data, LineClause(ctype), {}, ctype))
            BY <2>11 DEF RecordInitialTerm
        <3>3. IsKnown(LineClause(ctype)) /\ IsKnown({})
            BY <3>1, LineIsKnown DEF IsKnown, VarsOf
        <3>4. IsKnown(Resolve(var_data, LineClause(ctype), {}, ctype))
            BY <3>3, ResolventIsKnown
        <3>5. stored
            BY <1>3, <3>2, <3>3, <3>4 DEF ClauseVarsInv, Put, stored
        <3> QED BY <2>7, <3>1, <3>5 DEF stored
    <2>12. CASE NextResolution
        <3>1. stored
            BY <2>3, <2>4, <2>6, <2>12, ResolventIsKnown DEF NextResolution
        <3> QED BY <2>7, <2>12, <3>1 DEF NextResolution, stored
    <2>13. CASE CheckReductionStep
        <3>1. PICK ctype :
                  var_data' = CheckReduction(var_data, Clause(left), Clause(res), ctype).var_data
            BY <2>13 DEF CheckReductionStep
        <3>2. DOMAIN var_data'
                  \subseteq DOMAIN var_data \cup VarsOf(Clause(left)) \cup VarsOf(Clause(res))
            BY <3>1, ClauseType, ReductionIsKnown
        <3>3. DOMAIN var_data' \subseteq Found
            BY <1>3, <2>3, <3>2 DEF ClauseVarsInv, IsKnown
        <3> QED BY <2>4, <2>13, <3>3 DEF CheckReductionStep, stored
    <2>14. CASE CheckResolutionStep \/ MergingPhases \/ Reducing \/ NotReducing
        <3>1. CheckResolutionStep => UNCHANGED <<clause_database, var_data>>
            BY DEF CheckResolutionStep
        <3>2. MergingPhases => UNCHANGED <<clause_database, var_data>>
            BY DEF MergingPhases, SamePhase, CachedPhase, NewPhase, KnownEflit, NewEflit,
                   CopyParentPhases, SplitAndShadow
        <3>3. Reducing => UNCHANGED <<clause_database, var_data>>
            BY DEF Reducing, DefineG, AuxGate, ReduceSimple, GLemma, ReduceMerged, PushArrays
        <3>4. NotReducing => UNCHANGED <<clause_database, var_data>>
            BY DEF NotReducing, EmitResolvent, Reroute
        <3>5. UNCHANGED <<clause_database, var_data>>
            BY <2>14, <3>1, <3>2, <3>3, <3>4
        <3> QED BY <2>4, <2>7, <3>5 DEF stored
    <2>15. CASE ReturnReduction \/ ReturnCrash
        BY <2>4, <2>7, <2>15 DEF ReturnReduction, ReturnCrash, stored
    <2>16. CASE ReturnIntermediate \/ ReturnFinal \/ ReturnFailure
        BY <2>4, <2>5, <2>7, <2>16 DEF ReturnIntermediate, ReturnFinal, ReturnFailure, Forget, stored
    <2>17. CASE ReturnSafetyReduction
        <3>1. clause_database' = Without(Put(clause_database, line.id, Clause(res)), {res})
            BY <2>17 DEF ReturnSafetyReduction
        <3>2. stored
            BY <1>3, <2>3, <3>1 DEF ClauseVarsInv, Put, Without, stored
        <3> QED BY <2>7, <2>17, <3>2 DEF ReturnSafetyReduction, stored
    <2>18. CASE Finishing
        BY <2>4, <2>7, <2>18 DEF Finishing, EndOfProof, WriteGratProof, CombineFiles, stored
    <2>19. CASE Preparing
        BY <1>3, <2>8, <2>19 DEF Preparing, ReadOnAndOn, FirstPass, VisitConstraint, NextSink,
                                 OpenProof, SearchDone, Before
    <2> QED
        BY <2>8, <2>9, <2>10, <2>11, <2>12, <2>13, <2>14, <2>15, <2>16, <2>17, <2>18, <2>19
           DEF Next, Translate, Terminated, ReadingLines, Checking, Returning
<1> QED BY <1>1, <1>2, <1>3, Phases

(* A known variable is below the fresh ones, or an axiom still to come in front of
   the first derived line has it. *)
InTimeInv ==
    pc \notin Before \cup {"end"} => \A v \in Found :
        v \in 1..max_var \/ \E j \in AxiomsInFront : j > ReadCount /\ v \in VarsOf(proofLines[j].lits)

KnownLits == {l \in NonZero : VarOf(l) \in Found}

(* A core line without parents is an axiom, when there is no formula. *)
LEMMA AxiomIsRecorded ==
    ASSUME [Next]_vars, TakesLine, line.parents = <<>>, ~input.have_formula,
           line.id \in DOMAIN last_use_of, next \in Nat
    PROVE  RecordInternalAxiom
<1>1. pc = "line" /\ ReadCount' = next /\ next <= Len(proofLines)
    BY DEF TakesLine, ReadingLine
<1>2. ~UNCHANGED vars /\ ~Terminated
    BY <1>1 DEF vars, readVars, ReadCount, InLine, Terminated
<1>3. ~Preparing /\ ~Checking /\ ~MergingPhases /\ ~Reducing /\ ~NotReducing /\ ~Returning
    BY <1>1 DEF Preparing, ReadOnAndOn, FirstPass, VisitConstraint, NextSink, OpenProof, SearchDone,
                Checking, CheckResolutionStep, CheckReductionStep, MergingPhases, SamePhase,
                CachedPhase, NewPhase, KnownEflit, NewEflit, CopyParentPhases, SplitAndShadow,
                Merging, Reducing, DefineG, AuxGate, ReduceSimple, GLemma, ReduceMerged, PushArrays,
                NotReducing, EmitResolvent, Reroute, Returning, ReturnReduction,
                ReturnSafetyReduction, ReturnIntermediate, ReturnFinal, ReturnCrash, ReturnFailure
<1>4. ~Finishing
    BY <1>1 DEF Finishing, EndOfProof, WriteGratProof, CombineFiles
<1>5. ReadingLines
    BY <1>2, <1>3, <1>4 DEF Next, Translate
<1>6. ~SkipLine /\ ~NextResolution /\ ~RecordInputClause /\ ~RecordInitialTerm
    BY <1>1 DEF SkipLine, NextResolution, RecordInputClause, RecordInitialTerm, TrueFormula
<1>7. ~ReadReduction /\ ~ReadResolution
    BY DEF ReadReduction, ReadResolution
<1> QED BY <1>5, <1>6, <1>7 DEF ReadingLines

(* An axiom with a new variable raises max_var when it is read. *)
LEMMA InTimeNext ==
    /\ ControlInv /\ ClauseInv /\ StepInv /\ VarInv /\ UseInv /\ PrefixInv /\ InTimeInv /\ [Next]_vars
    => InTimeInv'
<1> SUFFICES ASSUME ControlInv, ClauseInv, StepInv, VarInv, UseInv, PrefixInv, InTimeInv, [Next]_vars,
                    pc' \notin Before \cup {"end"}, NEW v \in Found'
             PROVE  \/ v \in 1..max_var'
                    \/ \E j \in AxiomsInFront' : /\ j > ReadCount'
                                                /\ v \in VarsOf(proofLines'[j].lits)
    BY DEF InTimeInv
<1>1. CASE UNCHANGED vars
    <2>1. UNCHANGED inputVars /\ UNCHANGED <<pc, next, max_var>>
        BY <1>1 DEF vars, readVars, phaseVars
    <2>2. UNCHANGED <<Found, AxiomsInFront, proofLines, ReadCount>>
        BY <2>1, FoundStays DEF ReadCount
    <2> QED BY <2>1, <2>2 DEF InTimeInv
<1>2. CASE FirstPass \/ VisitConstraint \/ NextSink
    BY <1>2 DEF FirstPass, VisitConstraint, NextSink, Before
<1>3. CASE OpenProof
    <2>1. /\ UNCHANGED inputVars /\ UNCHANGED <<next, max_var>> /\ pc = "search" /\ pc' = "line"
          /\ next = 1
        BY <1>3 DEF OpenProof, SearchDone, searchUnchanged, searchVars, inputVars, PrefixInv, Before
    <2>2. UNCHANGED <<Found, AxiomsInFront, proofLines>>
        BY <2>1, FoundStays
    <2>3. ReadCount' = 0
        BY <2>1 DEF ReadCount, InLine
    <2>4. CASE v \in PrefixVars \cup Range(clause_tseitin_variables)
        <3>1. PrefixVars \cup Range(clause_tseitin_variables) \subseteq 1..max_var
            BY <2>1 DEF PrefixInv
        <3>2. v \in PrefixVars \cup Range(clause_tseitin_variables)
            BY <2>4
        <3>3. max_var' = max_var
            BY <2>1
        <3> QED BY <3>1, <3>2, <3>3
    <2>5. CASE \E j \in AxiomsInFront : v \in VarsOf(proofLines[j].lits)
        <3>1. PICK j \in AxiomsInFront : v \in VarsOf(proofLines[j].lits)
            BY <2>5
        <3>2. j > 0
            BY <3>1, LinesAreLines DEF ControlInv, AxiomsInFront
        <3> QED BY <2>2, <2>3, <3>1, <3>2
    <2>6. v \in Found
        BY <2>2
    <2>7. \/ v \in PrefixVars \cup Range(clause_tseitin_variables)
          \/ \E j \in AxiomsInFront : v \in VarsOf(proofLines[j].lits)
        BY <2>6 DEF Found, KnownVars
    <2> QED BY <2>4, <2>5, <2>7
<1>4. CASE pc \notin Before \cup {"end"}
    <2>1. LineStep
        BY <1>4, LineNext
    <2>2. UNCHANGED <<Found, AxiomsInFront, proofLines>>
        BY <2>1, FoundStays DEF LineStep
    <2>3. max_var \in Nat /\ max_var' \in Nat /\ max_var <= max_var'
        BY MaxVarGrows
    <2>4. CASE v \in 1..max_var
        BY <2>3, <2>4
    <2>5. CASE v \notin 1..max_var
        <3>1. PICK j \in AxiomsInFront : j > ReadCount /\ v \in VarsOf(proofLines[j].lits)
            BY <1>4, <2>2, <2>5 DEF InTimeInv
        <3>2. next \in Nat /\ j \in Nat /\ j \in DOMAIN proofLines
            BY <3>1, LinesAreLines DEF ControlInv, AxiomsInFront
        <3>3. CASE j > ReadCount'
            BY <2>2, <3>1, <3>3
        <3>4. CASE ~(j > ReadCount')
            <4>1. TakesLine /\ j = next
                BY <1>4, <2>1, <3>1, <3>2, <3>4 DEF LineStep, TakesLine, ReadCount, ReadingLine, InLine
            <4>2. /\ line.id \in DOMAIN sinks_of /\ line.parents = <<>> /\ ~input.have_formula
                  /\ line.id \in DOMAIN last_use_of
                <5>1. j \in 1..j
                    BY <3>1, <3>2, LinesAreLines DEF ControlInv
                <5> QED BY <1>4, <3>1, <3>2, <4>1, <5>1 DEF AxiomsInFront, UseInv, line
            <4>3. RecordInternalAxiom
                <5>1. [Next]_vars /\ next \in Nat
                    BY <3>2
                <5> QED BY <4>1, <4>2, <5>1, AxiomIsRecorded
            <4>4. RaiseMaxVar(VarsOf(line.lits), 0)
                BY <4>3 DEF RecordInternalAxiom
            <4>5. v \in VarsOf(line.lits)
                BY <3>1, <4>1 DEF line
            <4>6. v \in 1..(CONST_TRUE - 1)
                BY <3>2, <4>1, <4>5, LinesAreLines DEF ControlInv, line, IsLiteralSet, VarsOf
            <4>7. v <= max_var'
                BY <2>3, <4>4, <4>5, <4>6, ConstAssumption DEF RaiseMaxVar
            <4> QED BY <2>3, <4>6, <4>7, ConstAssumption
        <3> QED BY <3>3, <3>4
    <2> QED BY <2>4, <2>5
<1> QED BY <1>1, <1>2, <1>3, <1>4, Phases

\* The reduced literals, and their variables, are known.
StepVarsInv ==
    VariablesKnown =>
        /\ pc \in {"merge", "eflit", "split"} => step.reduced_lits \in Seq(KnownLits)
        /\ pc \in {"g", "gates", "merged"} =>
            /\ step.simple \in Seq(KnownLits)
            /\ step.merged \in Seq({l \in KnownLits : l > 0})
        /\ pc = "gates" => step.idx \in Nat \ {0}
        /\ pc = "merged" => step.idx \in 0..Len(step.merged)

(* Nothing is reduced at the start. *)
LEMMA StepVarsInit == Init => StepVarsInv
BY DEF Init, StepVarsInv

(* The literals reduced are those of the clauses, and the two kinds of them are picked
   from them. *)
LEMMA StepVarsNext ==
    ControlInv /\ ClauseInv /\ StepInv /\ ClauseVarsInv /\ StepVarsInv /\ [Next]_vars => StepVarsInv'
<1> SUFFICES ASSUME ControlInv, ClauseInv, StepInv, ClauseVarsInv, StepVarsInv, [Next]_vars,
                    VariablesKnown',
                    pc' \in {"merge", "eflit", "split", "g", "gates", "merged"}
             PROVE  StepVarsInv'
    BY DEF StepVarsInv
<1>1. CASE pc \in Before \cup {"end"}
    <2>1. UNCHANGED vars
        BY <1>1, Phases DEF FirstPass, VisitConstraint, NextSink, OpenProof, Before
    <2> QED BY <1>1, <2>1 DEF vars, Before
<1>2. CASE pc \notin Before \cup {"end"}
    <2>1. UNCHANGED inputVars
        BY <1>2, LineNext DEF LineStep
    <2>2. VariablesKnown /\ UNCHANGED KnownLits
        BY <2>1, FoundStays DEF KnownLits
    <2>3. ASSUME NEW id PROVE Clause(id) \subseteq KnownLits /\ IsLiteralSet(Clause(id))
        <3>1. IsKnown(Clause(id)) /\ IsLiteralSet(Clause(id))
            BY <1>2, <2>2, ClauseIsKnown, ClauseType
        <3> QED BY <3>1 DEF IsKnown, VarsOf, KnownLits, NonZero, IsLiteralSet, VarOf
    <2>4. DOMAIN step = DOMAIN NewStep
        BY DEF StepInv
    <2> USE <2>2, <2>4 DEF StepVarsInv, NewStep
    <2>5. CASE UNCHANGED vars
        BY <2>5 DEF vars
    <2>6. CASE CheckResolutionStep
        <3>1. PICK ptype :
                  step'.reduced_lits = CheckResolution(var_data, Clause(left), Clause(right),
                                                       Clause(res), ptype).reduced
            BY <2>6 DEF CheckResolutionStep
        <3>2. step'.reduced_lits \in Seq(Clause(left) \cup Clause(right))
            BY <2>3, <3>1, ReducedIsKnown
        <3>3. Clause(left) \cup Clause(right) \subseteq KnownLits
            BY <2>3
        <3>4. step'.reduced_lits \in Seq(KnownLits)
            BY <3>2, <3>3, SeqMonotonic
        <3> QED BY <2>6, <3>4 DEF CheckResolutionStep
    <2>7. CASE CheckReductionStep
        <3>1. PICK ctype :
                  step'.reduced_lits
                      = CheckReduction(var_data, Clause(left), Clause(res), ctype).reduced
            BY <2>7 DEF CheckReductionStep
        <3>2. step'.reduced_lits \in Seq(Clause(left))
            BY <2>3, <3>1, ReductionIsKnown
        <3>3. step'.reduced_lits \in Seq(KnownLits)
            BY <2>3, <3>2, SeqMonotonic
        <3> QED BY <2>7, <3>3 DEF CheckReductionStep
    <2>8. CASE SamePhase \/ CachedPhase \/ NewPhase
        <3>1. /\ pc = "merge" /\ pc' = "eflit" /\ step'.reduced_lits = step.reduced_lits
            BY <2>8 DEF SamePhase, CachedPhase, NewPhase, RecordPhase, Merging
        <3> QED BY <3>1
    <2>9. CASE KnownEflit \/ NewEflit \/ CopyParentPhases
        BY <2>9 DEF KnownEflit, NewEflit, CopyParentPhases
    <2>10. CASE SplitAndShadow
        <3> DEFINE reduced == step.reduced_lits
                   simple == {i \in DOMAIN reduced : IsConst(GetPhase(res, reduced[i]))}
                   merged == {i \in DOMAIN reduced \ simple : reduced[i] > 0}
        <3>1. /\ pc = "split" /\ pc' \in {"emit", "g"}
              /\ step'.simple = AtPlaces(reduced, simple)
              /\ step'.merged = AtPlaces(reduced, merged)
            BY <2>10 DEF SplitAndShadow
        <3>2. reduced \in Seq(KnownLits)
            BY <3>1
        <3>3. simple \in SUBSET DOMAIN reduced /\ merged \in SUBSET DOMAIN reduced
              /\ \A i \in merged : reduced[i] > 0
            OBVIOUS
        <3> HIDE DEF reduced, simple, merged
        <3>4. step'.simple \in Seq(KnownLits)
            BY <3>1, <3>2, <3>3, AtPlacesType
        <3>5. step'.merged \in Seq({l \in KnownLits : l > 0})
            <4>1. /\ step'.merged \in Seq(KnownLits)
                  /\ \A n \in DOMAIN step'.merged : step'.merged[n] > 0
                BY <3>1, <3>2, <3>3, AtPlacesType
            <4> QED BY <4>1
        <3> QED BY <3>1, <3>4, <3>5
    <2>11. CASE DefineG
        BY <2>11 DEF DefineG
    <2>12. CASE AuxGate
        BY <2>12 DEF AuxGate
    <2>13. CASE ReduceSimple
        <3>1. /\ pc = "gates" /\ pc' = "gates" /\ step'.simple = step.simple
              /\ step'.merged = step.merged /\ step'.idx = step.idx + 1
            BY <2>13 DEF ReduceSimple
        <3> QED BY <3>1
    <2>14. CASE GLemma
        <3>1. /\ pc = "gates" /\ pc' = "merged" /\ step'.simple = step.simple
              /\ step'.merged = step.merged /\ step'.idx = Len(step.merged)
            BY <2>14 DEF GLemma
        <3> QED BY <3>1
    <2>15. CASE ReduceMerged
        <3>1. /\ pc = "merged" /\ pc' = "merged" /\ step'.simple = step.simple
              /\ step'.merged = step.merged /\ step'.idx = step.idx - 1 /\ step.idx >= 1
            BY <2>15 DEF ReduceMerged
        <3> QED BY <3>1
    <2>16. CASE PushArrays \/ NotReducing \/ Returning \/ Finishing \/ ReadingLines
        BY <2>16 DEF PushArrays, NotReducing, EmitResolvent, Reroute, Returning, ReturnReduction,
                     ReturnSafetyReduction, ReturnIntermediate, ReturnFinal, ReturnCrash,
                     ReturnFailure, Finishing, EndOfProof, WriteGratProof, CombineFiles,
                     ReadingLines, SkipLine, RecordInternalAxiom, RecordInputClause,
                     RecordInitialTerm, ReadReduction, ReadResolution, NextResolution, CoreLine,
                     ReadingLine
    <2>17. CASE Preparing
        BY <1>2, <2>5, <2>17 DEF Preparing, ReadOnAndOn, FirstPass, VisitConstraint, NextSink,
                                 OpenProof, SearchDone, Before
    <2> QED
        BY <2>5, <2>6, <2>7, <2>8, <2>9, <2>10, <2>11, <2>12, <2>13, <2>14, <2>15, <2>16, <2>17
           DEF Next, Translate, Terminated, Checking, MergingPhases, Reducing
<1> QED BY <1>1, <1>2

-----------------------------------------------------------------------------
(* The line in work *)

(* A step is translated for a line with parents, or for an initial term of a true formula. *)
WorkInv == pc \in InLine => line.parents # <<>> \/ input.have_formula

(* No line is in work at the start. *)
LEMMA WorkInit == Init => WorkInv
BY DEF Init, WorkInv, InLine

(* A line is in work from the action that reads it to the one that moves on. *)
LEMMA WorkNext == ControlInv /\ WorkInv /\ [Next]_vars => WorkInv'
<1> SUFFICES ASSUME ControlInv, WorkInv, [Next]_vars, pc' \in InLine PROVE WorkInv'
    BY DEF WorkInv
<1>1. ASSUME pc \in InLine, UNCHANGED <<input, next>> PROVE WorkInv'
    BY <1>1 DEF WorkInv, line, proofLines
<1> USE DEF stepUnchanged, returnUnchanged, readVars, inputVars
<1>2. CASE UNCHANGED vars
    BY <1>1, <1>2 DEF vars
<1>3. CASE Preparing
    BY <1>1, <1>3 DEF Preparing, ReadOnAndOn, FirstPass, VisitConstraint, NextSink, OpenProof,
                      InLine, vars
<1>4. CASE SkipLine \/ RecordInternalAxiom \/ RecordInputClause
    BY <1>4 DEF SkipLine, RecordInternalAxiom, RecordInputClause, CoreLine, ReadingLine, InLine
<1>5. CASE RecordInitialTerm
    BY <1>5 DEF RecordInitialTerm, TrueFormula, WorkInv
<1>6. CASE ReadReduction \/ ReadResolution
    <2>1. line.parents # <<>> /\ UNCHANGED <<input, next>>
        BY <1>6 DEF ReadReduction, ReadResolution
    <2> QED BY <2>1 DEF WorkInv, line, proofLines
<1>7. CASE NextResolution \/ Checking
    BY <1>1, <1>7 DEF NextResolution, Checking, CheckResolutionStep, CheckReductionStep, InLine
<1>8. CASE MergingPhases
    BY <1>1, <1>8 DEF MergingPhases, SamePhase, CachedPhase, NewPhase, KnownEflit, NewEflit,
                      CopyParentPhases, SplitAndShadow, Merging, InLine
<1>9. CASE Reducing
    BY <1>1, <1>9 DEF Reducing, DefineG, AuxGate, ReduceSimple, GLemma, ReduceMerged, PushArrays,
                      InLine
<1>10. CASE NotReducing
    BY <1>1, <1>10 DEF NotReducing, EmitResolvent, Reroute, InLine
<1>11. CASE Returning
    <2>1. CASE ReturnIntermediate
        BY <1>1, <2>1 DEF ReturnIntermediate, InLine
    <2>2. CASE ~ReturnIntermediate
        BY <1>11, <2>2 DEF Returning, ReturnReduction, ReturnSafetyReduction, ReturnFinal,
                           ReturnCrash, ReturnFailure, InLine
    <2> QED BY <2>1, <2>2
<1>12. CASE Finishing
    BY <1>12 DEF Finishing, EndOfProof, WriteGratProof, CombineFiles, InLine
<1> QED
    BY <1>2, <1>3, <1>4, <1>5, <1>6, <1>7, <1>8, <1>9, <1>10, <1>11, <1>12
       DEF Next, Translate, Terminated, ReadingLines

(* From the first derived line on, all known variables are below the fresh ones. *)
LEMMA AllInTime ==
    ASSUME ControlInv, InTimeInv, WorkInv, pc \in InLine
    PROVE  Found \subseteq 1..max_var
<1> SUFFICES ASSUME NEW v \in Found, v \notin 1..max_var PROVE FALSE
    OBVIOUS
<1>1. PICK j \in AxiomsInFront : j > next
    BY DEF InTimeInv, ReadCount, InLine, Before
<1>2. next \in 1..j
    <2>1. next \in Nat \ {0} /\ j \in Nat
        BY <1>1, LinesAreLines DEF ControlInv, AxiomsInFront
    <2> QED BY <1>1, <2>1
<1>3. line.parents = <<>> /\ ~input.have_formula
    BY <1>1, <1>2 DEF AxiomsInFront, line
<1> QED BY <1>3 DEF WorkInv

-----------------------------------------------------------------------------
(* The gates *)

\* The rest of an array is a variable of its own, not defined yet.
RestsAreFresh ==
    /\ \A u \in DOMAIN countermodel_out_var : countermodel_out_var[u] \notin Outputs \cup Found
    /\ \A u, v \in DOMAIN countermodel_out_var :
            countermodel_out_var[u] = countermodel_out_var[v] => u = v

CircuitInv ==
    /\ IsSeq(gates)
    /\ pc \in Before => gates = <<>> /\ countermodel_out_var = EmptyMap
    /\ VariablesKnown =>
        /\ \A i, j \in DOMAIN gates : gates[i].out = gates[j].out => i = j
        /\ Outputs \subseteq 1..max_var
        /\ Outputs \cap Found \subseteq DOMAIN countermodel_out_var
        /\ RestsAreFresh

OutsOf(defs) == {defs[i].out : i \in DOMAIN defs}
OutsDiffer(defs) == \A i, j \in DOMAIN defs : defs[i].out = defs[j].out => i = j

(* Gates with new outputs behind gates: the outputs differ. *)
LEMMA MoreGates ==
    ASSUME NEW f, NEW s, IsSeq(f), IsSeq(s), OutsDiffer(f), OutsDiffer(s),
           OutsOf(f) \cap OutsOf(s) = {}
    PROVE  IsSeq(f \o s) /\ OutsDiffer(f \o s) /\ OutsOf(f \o s) = OutsOf(f) \cup OutsOf(s)
<1> DEFINE g == f \o s
           n == Len(f)
           m == Len(s)
<1>1. /\ IsSeq(g) /\ n \in Nat /\ m \in Nat /\ Len(g) = n + m
      /\ \A i \in 1..n : g[i] = f[i]
      /\ \A i \in 1..m : g[n + i] = s[i]
    BY ConcatIsSeq
<1>2. DOMAIN g = 1..(n + m) /\ DOMAIN f = 1..n /\ DOMAIN s = 1..m
    BY <1>1, LengthType
<1> HIDE DEF g, n, m
<1>3. ASSUME NEW i \in DOMAIN g
      PROVE  (i \in DOMAIN f /\ g[i] = f[i]) \/ (i - n \in DOMAIN s /\ g[i] = s[i - n])
    <2>1. CASE i <= n
        BY <1>1, <1>2, <2>1
    <2>2. CASE ~(i <= n)
        <3>1. i - n \in 1..m /\ n + (i - n) = i
            BY <1>1, <1>2, <2>2
        <3> QED BY <1>1, <1>2, <3>1
    <2> QED BY <2>1, <2>2
<1>4. OutsOf(g) = OutsOf(f) \cup OutsOf(s)
    <2>1. OutsOf(g) \subseteq OutsOf(f) \cup OutsOf(s)
        BY <1>3 DEF OutsOf
    <2>2. ASSUME NEW i \in DOMAIN f PROVE i \in DOMAIN g /\ g[i] = f[i]
        BY <1>1, <1>2
    <2>3. ASSUME NEW i \in DOMAIN s PROVE n + i \in DOMAIN g /\ g[n + i] = s[i]
        BY <1>1, <1>2
    <2> QED BY <2>1, <2>2, <2>3 DEF OutsOf
<1>5. ASSUME NEW i \in DOMAIN g, NEW j \in DOMAIN g, g[i].out = g[j].out PROVE i = j
    <2>1. CASE i \in DOMAIN f /\ g[i] = f[i]
        <3>1. ~(j - n \in DOMAIN s /\ g[j] = s[j - n])
            BY <1>5, <2>1 DEF OutsOf
        <3> QED BY <1>3, <1>5, <2>1, <3>1 DEF OutsDiffer
    <2>2. CASE i - n \in DOMAIN s /\ g[i] = s[i - n]
        <3>1. ~(j \in DOMAIN f /\ g[j] = f[j])
            BY <1>5, <2>2 DEF OutsOf
        <3>2. i - n = j - n
            BY <1>3, <1>5, <2>2, <3>1 DEF OutsDiffer
        <3> QED BY <1>1, <1>2, <3>2
    <2> QED BY <1>3, <2>1, <2>2
<1> QED BY <1>1, <1>4, <1>5 DEF OutsDiffer, g

(* No gate is written at the start. *)
LEMMA CircuitInit == Init => CircuitInv
BY NoneIsSeq DEF Init, PhaseInit, CircuitInv, RestsAreFresh, Outputs, EmptyMap

(* Nothing is defined, and variables may be taken. *)
LEMMA CircuitStays ==
    ASSUME CircuitInv, UNCHANGED <<gates, countermodel_out_var>>, UNCHANGED inputVars,
           max_var \in Nat, max_var' \in Nat, max_var <= max_var', pc' \notin Before
    PROVE  CircuitInv'
<1>1. UNCHANGED <<Found, VariablesKnown>>
    BY FoundStays
<1>2. UNCHANGED Outputs
    BY DEF Outputs
<1>3. 1..max_var \subseteq 1..max_var'
    OBVIOUS
<1> QED BY <1>1, <1>2, <1>3 DEF CircuitInv, RestsAreFresh

(* A fresh variable is defined. *)
LEMMA FreshGate ==
    ASSUME CircuitInv, VarInv, UNCHANGED inputVars, pc' \notin Before,
           Found \subseteq 1..max_var,
           max_var' = Fresh(1), NEW gate, gate.out = max_var', gates' = gates \o <<gate>>,
           UNCHANGED countermodel_out_var
    PROVE  CircuitInv'
<1>1. UNCHANGED <<Found, VariablesKnown>>
    BY FoundStays
<1>2. max_var \in Nat /\ max_var' = max_var + 1
    BY ConstAssumption DEF VarInv, Fresh
<1>3. IsSeq(<<gate>>) /\ OutsDiffer(<<gate>>) /\ OutsOf(<<gate>>) = {max_var'}
    BY OneIsSeq DEF OutsDiffer, OutsOf
<1>4. IsSeq(gates) /\ IsSeq(gates')
    BY <1>3, ConcatIsSeq DEF CircuitInv
<1> SUFFICES ASSUME VariablesKnown
             PROVE  /\ OutsDiffer(gates') /\ Outputs' \subseteq 1..max_var'
                    /\ Outputs' \cap Found \subseteq DOMAIN countermodel_out_var
                    /\ RestsAreFresh'
    BY <1>1, <1>4 DEF CircuitInv, OutsDiffer
<1>5. Outputs \subseteq 1..max_var /\ OutsDiffer(gates) /\ OutsOf(gates) = Outputs
    BY DEF CircuitInv, OutsDiffer, OutsOf, Outputs
<1>6. max_var' \notin 1..max_var
    BY <1>2
<1>7. OutsDiffer(gates') /\ OutsOf(gates') = Outputs \cup {max_var'}
    <2>1. OutsOf(gates) \cap OutsOf(<<gate>>) = {}
        BY <1>3, <1>5, <1>6
    <2>2. OutsDiffer(gates \o <<gate>>)
          /\ OutsOf(gates \o <<gate>>) = OutsOf(gates) \cup OutsOf(<<gate>>)
        BY <1>3, <1>4, <1>5, <2>1, MoreGates
    <2> QED BY <1>3, <1>5, <2>2
<1>8. Outputs' = Outputs \cup {max_var'}
    BY <1>7 DEF OutsOf, Outputs
<1>9. Outputs' \subseteq 1..max_var'
    BY <1>2, <1>5, <1>8
<1>10. \A u \in DOMAIN countermodel_out_var : countermodel_out_var[u] \in 1..max_var
    BY DEF VarInv, ValuesBelow
<1> QED BY <1>1, <1>6, <1>7, <1>8, <1>9, <1>10 DEF CircuitInv, RestsAreFresh

(* The array of a variable gets entries: the rest so far is defined, and a fresh variable
   is the new one. *)
LEMMA ArrayGates ==
    ASSUME CircuitInv, VarInv, VariablesKnown, UNCHANGED inputVars, pc' \notin Before,
           Found \subseteq 1..max_var, NEW var \in Found, NEW fresh, NEW rest,
           max_var' \in Nat, max_var <= max_var',
           fresh \subseteq (max_var + 1)..max_var', rest \in (max_var + 1)..max_var', rest \notin fresh,
           NEW defs, IsSeq(defs), OutsDiffer(defs), OutsOf(defs) = {OutVar(var)} \cup fresh,
           gates' = gates \o defs,
           countermodel_out_var' = Put(countermodel_out_var, var, rest)
    PROVE  CircuitInv'
<1> DEFINE rests == countermodel_out_var
           out == OutVar(var)
<1>1. UNCHANGED <<Found, VariablesKnown>>
    BY FoundStays
<1>2. max_var \in Nat
    BY ConstAssumption DEF VarInv
<1>3. \A u \in DOMAIN rests : rests[u] \in 1..max_var
    BY DEF VarInv, ValuesBelow
<1>4. /\ Outputs \subseteq 1..max_var /\ OutsDiffer(gates) /\ OutsOf(gates) = Outputs
      /\ IsSeq(gates) /\ Outputs \cap Found \subseteq DOMAIN rests /\ RestsAreFresh
    BY DEF CircuitInv, OutsDiffer, OutsOf, Outputs
<1>5. out \in 1..max_var /\ out \notin Outputs
      /\ (out \in Found => out = var)
      /\ \A u \in DOMAIN rests : u # var => rests[u] # out
    <2>1. CASE var \in DOMAIN rests
        BY <1>3, <1>4, <2>1 DEF OutVar, RestsAreFresh
    <2>2. CASE var \notin DOMAIN rests
        BY <1>4, <2>2 DEF OutVar, RestsAreFresh
    <2> QED BY <2>1, <2>2
<1> HIDE DEF out
<1>6. \A x \in fresh \cup {rest} : x \notin 1..max_var /\ x \in 1..max_var'
    BY <1>2
<1>7. OutsOf(gates) \cap OutsOf(defs) = {}
    BY <1>4, <1>5, <1>6 DEF out
<1>8. IsSeq(gates') /\ OutsDiffer(gates') /\ OutsOf(gates') = Outputs \cup {out} \cup fresh
    BY <1>4, <1>7, MoreGates DEF out
<1>9. Outputs' = Outputs \cup {out} \cup fresh
    BY <1>8 DEF OutsOf, Outputs
<1>10. DOMAIN rests' = DOMAIN rests \cup {var}
       /\ \A u \in DOMAIN rests' : rests'[u] = IF u = var THEN rest ELSE rests[u]
    BY DEF Put
<1>11. Outputs' \subseteq 1..max_var'
    BY <1>2, <1>4, <1>5, <1>6, <1>9
<1>12. Outputs' \cap Found \subseteq DOMAIN rests'
    BY <1>4, <1>5, <1>6, <1>9, <1>10
<1>13. ASSUME NEW u \in DOMAIN rests' PROVE rests'[u] \notin Outputs' \cup Found
    <2>1. CASE u = var
        BY <1>4, <1>5, <1>6, <1>9, <1>10, <2>1
    <2>2. CASE u # var
        BY <1>3, <1>4, <1>5, <1>6, <1>9, <1>10, <2>2 DEF RestsAreFresh
    <2> QED BY <2>1, <2>2
<1>14. ASSUME NEW u \in DOMAIN rests', NEW w \in DOMAIN rests', rests'[u] = rests'[w] PROVE u = w
    BY <1>3, <1>4, <1>6, <1>10, <1>14 DEF RestsAreFresh
<1>15. RestsAreFresh'
    BY <1>1, <1>13, <1>14 DEF RestsAreFresh
<1> QED BY <1>1, <1>8, <1>11, <1>12, <1>15 DEF CircuitInv, OutsDiffer

(* Every gate defines a fresh variable or the rest of an array. *)
LEMMA CircuitNext ==
    /\ ControlInv /\ ClauseInv /\ StepInv /\ VarInv /\ FileInv
    /\ InTimeInv /\ WorkInv /\ StepVarsInv /\ CircuitInv /\ [Next]_vars
    => CircuitInv'
<1> SUFFICES ASSUME ControlInv, ClauseInv, StepInv, VarInv, FileInv,
                    InTimeInv, WorkInv, StepVarsInv, CircuitInv, [Next]_vars
             PROVE  CircuitInv'
    OBVIOUS
<1>1. CASE pc \in Before
    <2>1. UNCHANGED <<gates, countermodel_out_var>>
        BY <1>1, Phases DEF vars, phaseVars, fileVars, arrayVars, FirstPass, VisitConstraint, NextSink,
                            OpenProof, searchUnchanged, Before
    <2>2. gates' = <<>> /\ countermodel_out_var' = EmptyMap
        BY <1>1, <2>1 DEF CircuitInv
    <2> QED BY <2>2, NoneIsSeq DEF CircuitInv, RestsAreFresh, Outputs, EmptyMap
<1>2. CASE pc = "end"
    <2>1. UNCHANGED vars
        BY <1>2, Phases DEF FirstPass, VisitConstraint, NextSink, OpenProof, SearchDone, Before
    <2>2. /\ UNCHANGED inputVars /\ UNCHANGED <<gates, countermodel_out_var, max_var>>
          /\ pc' \notin Before /\ max_var \in Nat
        BY <1>2, <2>1, ConstAssumption DEF vars, phaseVars, fileVars, arrayVars, readVars, Before, VarInv
    <2> QED BY <2>2, CircuitStays
<1>3. CASE pc \notin Before \cup {"end"}
    <2>1. UNCHANGED inputVars /\ pc' \notin Before
        BY <1>3, LineNext DEF LineStep
    <2>2. max_var \in Nat /\ max_var' \in Nat /\ max_var <= max_var'
        BY MaxVarGrows
    <2>3. ASSUME UNCHANGED <<gates, countermodel_out_var>> PROVE CircuitInv'
        BY <2>1, <2>2, <2>3, CircuitStays
    <2>4. ASSUME pc \in InLine PROVE Found \subseteq 1..max_var
        BY <2>4, AllInTime
    <2>5. ASSUME pc \in InLine, max_var' = Fresh(1), NEW gate, gate.out = Fresh(1),
                 gates' = gates \o <<gate>>, UNCHANGED countermodel_out_var
          PROVE  CircuitInv'
        BY <2>1, <2>4, <2>5, FreshGate
    <2>6. ASSUME ~VariablesKnown, NEW defs, IsSeq(defs), gates' = gates \o defs PROVE CircuitInv'
        <3>1. IsSeq(gates')
            BY <2>6, ConcatIsSeq DEF CircuitInv
        <3>2. ~VariablesKnown'
            BY <2>1, <2>6, FoundStays
        <3> QED BY <2>1, <3>1, <3>2 DEF CircuitInv
    <2>7. CASE NewPhase
        <3>1. /\ pc \in InLine /\ max_var' = Fresh(1) /\ UNCHANGED countermodel_out_var
              /\ \E ins : gates' = Append(gates, [out |-> Fresh(1), ins |-> ins])
            BY <2>7 DEF NewPhase, Merging, UpdatePhase, InLine, arrayVars
        <3>2. PICK ins : gates' = Append(gates, [out |-> Fresh(1), ins |-> ins])
            BY <3>1
        <3>3. gates' = gates \o <<[out |-> Fresh(1), ins |-> ins]>>
            BY <3>2, AppendIsSeq DEF CircuitInv
        <3> QED BY <2>5, <3>1, <3>3
    <2>8. CASE NewEflit
        <3>1. /\ pc \in InLine /\ max_var' = Fresh(1) /\ UNCHANGED countermodel_out_var
              /\ \E ins : gates' = Append(gates, Gate(Fresh(1), ins))
            BY <2>8 DEF NewEflit, MakeEflit, InLine, arrayVars
        <3>2. PICK ins : gates' = Append(gates, Gate(Fresh(1), ins))
            BY <3>1
        <3>3. gates' = gates \o <<Gate(Fresh(1), ins)>>
            BY <3>2, AppendIsSeq DEF CircuitInv
        <3>4. Gate(Fresh(1), ins).out = Fresh(1)
            BY DEF Gate
        <3> QED BY <2>5, <3>1, <3>3, <3>4
    <2>9. CASE DefineG \/ AuxGate
        <3>1. /\ pc \in InLine /\ max_var' = Fresh(1) /\ UNCHANGED countermodel_out_var
              /\ \E ins : gates' = gates \o <<Gate(Fresh(1), ins)>>
            BY <2>9 DEF DefineG, AuxGate, WriteGates, InLine, arrayVars
        <3>2. PICK ins : gates' = gates \o <<Gate(Fresh(1), ins)>>
            BY <3>1
        <3>3. Gate(Fresh(1), ins).out = Fresh(1)
            BY DEF Gate
        <3> QED BY <2>5, <3>1, <3>2, <3>3
    <2>10. CASE ReduceSimple
        <3> DEFINE var == VarOf(step.simple[step.idx])
                   new == Fresh(1)
                   defs == <<Gate(OutVar(var), <<step.g, new>>)>>
        <3>1. /\ pc = "gates" /\ step.idx <= Len(step.simple) /\ max_var' = new
              /\ gates' = gates \o defs /\ countermodel_out_var' = Put(countermodel_out_var, var, new)
            BY <2>10 DEF ReduceSimple, WriteGates
        <3>2. IsSeq(defs) /\ OutsDiffer(defs) /\ OutsOf(defs) = {OutVar(var)} \cup {}
            BY OneIsSeq DEF OutsDiffer, OutsOf, Gate
        <3>3. CASE VariablesKnown
            <4>1. var \in Found
                <5>1. step.simple \in Seq(KnownLits) /\ step.idx \in Nat \ {0}
                    BY <3>1, <3>3 DEF StepVarsInv
                <5>2. step.simple[step.idx] \in KnownLits
                    BY <3>1, <5>1
                <5> QED BY <5>2 DEF KnownLits
            <4>2. new \in (max_var + 1)..max_var'
                BY <2>2, <3>1 DEF Fresh
            <4>3. Found \subseteq 1..max_var
                BY <2>4, <3>1 DEF InLine
            <4> HIDE DEF var, new, defs
            <4> DEFINE none == {}
            <4>4. none \subseteq (max_var + 1)..max_var' /\ new \notin none
                OBVIOUS
            <4> HIDE DEF none
            <4>5. OutsOf(defs) = {OutVar(var)} \cup none
                BY <3>2 DEF none
            <4> QED BY <2>1, <2>2, <3>1, <3>2, <3>3, <4>1, <4>2, <4>3, <4>4, <4>5, ArrayGates
        <3>4. CASE ~VariablesKnown
            <4> HIDE DEF defs
            <4> QED BY <2>6, <3>1, <3>2, <3>4
        <3> QED BY <3>3, <3>4
    <2>11. CASE ReduceMerged
        <3> DEFINE var == step.merged[step.idx]
                   fresh == {Fresh(1), Fresh(2), Fresh(3)}
        <3>1. PICK ins1, ins2, ins3, ins4 :
                  gates' = gates \o <<Gate(Fresh(1), ins1), Gate(Fresh(2), ins2),
                                      Gate(OutVar(var), ins3), Gate(Fresh(3), ins4)>>
            BY <2>11 DEF ReduceMerged, WriteGates
        <3> DEFINE defs == <<Gate(Fresh(1), ins1), Gate(Fresh(2), ins2),
                             Gate(OutVar(var), ins3), Gate(Fresh(3), ins4)>>
        <3>2. /\ pc = "merged" /\ step.idx >= 1 /\ max_var' = Fresh(4)
              /\ countermodel_out_var' = Put(countermodel_out_var, var, Fresh(4))
            BY <2>11 DEF ReduceMerged
        <3>3. IsSeq(defs)
            BY FourIsSeq
        <3>4. CASE VariablesKnown
            <4>1. var \in Found
                <5>1. step.merged \in Seq({l \in KnownLits : l > 0}) /\ step.idx \in 0..Len(step.merged)
                    BY <3>2, <3>4 DEF StepVarsInv
                <5>2. var \in KnownLits /\ var > 0
                    BY <3>2, <5>1
                <5> QED BY <5>2 DEF KnownLits, NonZero, VarOf
            <4>2. Found \subseteq 1..max_var
                BY <2>4, <3>2 DEF InLine
            <4> HIDE DEF var
            <4>3. OutVar(var) \in 1..max_var
                BY <4>1, <4>2 DEF OutVar, VarInv, ValuesBelow
            <4>4. /\ Fresh(4) \in (max_var + 1)..max_var' /\ fresh \subseteq (max_var + 1)..max_var'
                  /\ Fresh(4) \notin fresh
                BY <2>2, <3>2 DEF Fresh
            <4>5. /\ DOMAIN defs = 1..4
                  /\ defs[1].out = Fresh(1) /\ defs[2].out = Fresh(2)
                  /\ defs[3].out = OutVar(var) /\ defs[4].out = Fresh(3)
                BY DEF Gate
            <4> HIDE DEF defs
            <4>6. OutsDiffer(defs)
                BY <2>2, <4>3, <4>5 DEF OutsDiffer, Fresh
            <4>7. OutsOf(defs) = {OutVar(var)} \cup fresh
                <5>1. \A i \in DOMAIN defs : i = 1 \/ i = 2 \/ i = 3 \/ i = 4
                    BY <4>5
                <5>2. 1 \in DOMAIN defs /\ 2 \in DOMAIN defs /\ 3 \in DOMAIN defs /\ 4 \in DOMAIN defs
                    BY <4>5
                <5> QED BY <4>5, <5>1, <5>2 DEF OutsOf
            <4>8. gates' = gates \o defs
                BY <3>1 DEF defs
            <4> HIDE DEF fresh
            <4> QED BY <2>1, <2>2, <3>2, <3>3, <3>4, <4>1, <4>2, <4>4, <4>6, <4>7, <4>8, ArrayGates
        <3>5. CASE ~VariablesKnown
            <4>1. gates' = gates \o defs
                BY <3>1
            <4> HIDE DEF defs
            <4> QED BY <2>6, <3>3, <3>5, <4>1
        <3> QED BY <3>4, <3>5
    <2> USE DEF stepUnchanged, returnUnchanged, readVars, phaseVars, fileVars, arrayVars, databaseVars
    <2>12. CASE UNCHANGED vars
        BY <2>3, <2>12 DEF vars
    <2>13. CASE ReadingLines \/ Checking
        BY <2>3, <2>13 DEF ReadingLines, SkipLine, RecordInternalAxiom, RecordInputClause,
                           RecordInitialTerm, ReadReduction, ReadResolution, NextResolution,
                           Checking, CheckResolutionStep, CheckReductionStep
    <2>14. CASE SamePhase \/ CachedPhase \/ KnownEflit \/ CopyParentPhases \/ SplitAndShadow
        BY <2>3, <2>14 DEF SamePhase, CachedPhase, KnownEflit, CopyParentPhases, SplitAndShadow
    <2>15. CASE GLemma
        BY <2>3, <2>15 DEF GLemma
    <2>16. CASE PushArrays
        <3>1. UNCHANGED <<gates, countermodel_out_var>>
            BY <2>16 DEF PushArrays
        <3> QED BY <2>3, <3>1
    <2>17. CASE NotReducing
        BY <2>3, <2>17 DEF NotReducing, EmitResolvent, Reroute
    <2>18. CASE Returning
        BY <2>3, <2>18 DEF Returning, ReturnReduction, ReturnSafetyReduction, ReturnIntermediate,
                           ReturnFinal, ReturnCrash, ReturnFailure
    <2>19. CASE Finishing
        BY <2>3, <2>19 DEF Finishing, EndOfProof, WriteGratProof, CombineFiles
    <2>20. CASE Preparing
        BY <1>3, <2>12, <2>20 DEF Preparing, ReadOnAndOn, FirstPass, VisitConstraint, NextSink,
                                  OpenProof, SearchDone, Before
    <2> QED
        BY <2>7, <2>8, <2>9, <2>10, <2>11, <2>12, <2>13, <2>14, <2>15, <2>16, <2>17, <2>18, <2>19,
           <2>20
           DEF Next, Translate, Terminated, MergingPhases, Reducing
<1> QED BY <1>1, <1>2, <1>3

\* All that is known of the variables and the gates.
DefineInv ==
    /\ ReadInv /\ ClauseInv /\ StepInv /\ VarInv /\ FileInv
    /\ ClauseVarsInv /\ PrefixInv /\ InTimeInv /\ WorkInv /\ StepVarsInv /\ CircuitInv

(* Nothing is known at the start. *)
LEMMA DefineInit == Init => DefineInv
<1> SUFFICES ASSUME Init PROVE DefineInv
    OBVIOUS
<1>1. ReadInv /\ ClauseInv /\ StepInv /\ VarInv /\ FileInv
    BY ReadInit, ClauseInit, StepInit, VarInit, FileInit
<1>2. InTimeInv
    BY DEF Init, InTimeInv, Before
<1> QED BY <1>1, <1>2, ClauseVarsInit, PrefixInit, WorkInit, StepVarsInit, CircuitInit DEF DefineInv

(* A step of the program keeps it. *)
LEMMA DefineNext == DefineInv /\ [Next]_vars => DefineInv'
BY ReadNext, ClauseNext, StepNext, VarNext, FileNext, ClauseVarsNext, PrefixNext, InTimeNext, WorkNext,
   StepVarsNext, CircuitNext
   DEF DefineInv, ReadInv

(* The certificate is a circuit, for every proof whose variables are known before
   anything is derived: each gate has an output of its own, no variable of the formula
   is the output of one but as a reduced variable, and the rest of an array is left
   for the next reduction. *)
THEOREM NothingDefinedTwice == Spec => []DefinedOnce
<1>1. DefineInv => DefinedOnce
    <2> SUFFICES ASSUME DefineInv, VariablesKnown
                 PROVE  /\ \A i, j \in DOMAIN gates : gates[i].out = gates[j].out => i = j
                        /\ Outputs \cap InputVars \subseteq DOMAIN countermodel_out_var
                        /\ Range(countermodel_out_var) \cap Outputs = {}
        BY DEF DefinedOnce
    <2>1. CircuitInv /\ ClauseVarsInv
        BY DEF DefineInv
    <2>2. CASE pc \in Before
        <3>1. gates = <<>>
            BY <2>1, <2>2 DEF CircuitInv
        <3>2. DOMAIN gates = {} /\ Outputs = {}
            BY <3>1 DEF Outputs
        <3> QED BY <3>2
    <2>3. CASE pc \notin Before
        <3>1. \A i \in DOMAIN axioms : VarsOf(Clause(axioms[i])) \subseteq Found
            BY <2>1, <2>3, ClauseIsKnown DEF IsKnown
        <3>2. InputVars \subseteq Found
            BY <2>1, <2>3, <3>1 DEF InputVars, ClauseVarsInv, Found
        <3>3. Range(countermodel_out_var) \cap Outputs = {}
            BY <2>1 DEF CircuitInv, RestsAreFresh, Range
        <3> QED BY <2>1, <3>2, <3>3 DEF CircuitInv
    <2> QED BY <2>2, <2>3
<1> QED BY <1>1, DefineInit, DefineNext, PTL DEF Spec

-----------------------------------------------------------------------------
(* The lemma items of the GRAT proof *)

LemmaItems(s) == {i \in DOMAIN s : s[i].tag = 3}

\* A piece of the log announces the lemmas n + 1 to m, in this order.
Announces(s, n, m) ==
    /\ IsSeq(s)
    /\ n \in Nat /\ m \in Nat /\ n <= m
    /\ \A i \in LemmaItems(s) : s[i].lemma \in Int /\ -s[i].lemma \in (n + 1)..m
    /\ \A k \in (n + 1)..m : \E i \in LemmaItems(s) : s[i].lemma = -k
    /\ \A i, j \in LemmaItems(s) : i < j => s[j].lemma < s[i].lemma

\* A piece of the file does, in the numbering of the checker, when it is read from
\* its end.
FileAnnounces(g, n, m, total) ==
    /\ IsSeq(g)
    /\ n \in Nat /\ m \in Nat /\ n <= m
    /\ \A i \in LemmaItems(g) : g[i].lemma \in (total + n + 1)..(total + m)
    /\ \A k \in (n + 1)..m : \E i \in LemmaItems(g) : g[i].lemma = total + k
    /\ \A i, j \in LemmaItems(g) : i < j => g[j].lemma < g[i].lemma

(* The lemma items of two pieces, one behind the other. *)
LEMMA ItemsOfConcat ==
    ASSUME NEW s, NEW t, IsSeq(s), IsSeq(t)
    PROVE  /\ IsSeq(s \o t) /\ Len(s) \in Nat
           /\ LemmaItems(s) \subseteq 1..Len(s) /\ LemmaItems(t) \subseteq Nat \ {0}
           /\ LemmaItems(s \o t) = LemmaItems(s) \cup {Len(s) + j : j \in LemmaItems(t)}
           /\ \A i \in LemmaItems(s) : (s \o t)[i] = s[i]
           /\ \A j \in LemmaItems(t) : (s \o t)[Len(s) + j] = t[j]
<1> DEFINE u == s \o t
<1>1. /\ IsSeq(u) /\ Len(s) \in Nat /\ Len(t) \in Nat /\ Len(u) = Len(s) + Len(t)
      /\ \A i \in 1..Len(s) : u[i] = s[i]
      /\ \A j \in 1..Len(t) : u[Len(s) + j] = t[j]
    BY ConcatIsSeq
<1>2. DOMAIN s = 1..Len(s) /\ DOMAIN t = 1..Len(t) /\ DOMAIN u = 1..(Len(s) + Len(t))
    BY <1>1, LengthType
<1> HIDE DEF u
<1>3. ASSUME NEW i \in DOMAIN u
      PROVE  \/ i \in DOMAIN s
             \/ i - Len(s) \in DOMAIN t /\ i = Len(s) + (i - Len(s))
    BY <1>1, <1>2
<1>4. \A j \in DOMAIN t : Len(s) + j \in DOMAIN u
    BY <1>1, <1>2
<1>5. DOMAIN s \subseteq DOMAIN u
    BY <1>1, <1>2
<1>6. LemmaItems(u) = LemmaItems(s) \cup {Len(s) + j : j \in LemmaItems(t)}
    <2>1. ASSUME NEW i \in LemmaItems(u)
          PROVE  i \in LemmaItems(s) \cup {Len(s) + j : j \in LemmaItems(t)}
        <3>1. CASE i \in DOMAIN s
            BY <1>1, <1>2, <3>1 DEF LemmaItems
        <3>2. CASE i - Len(s) \in DOMAIN t /\ i = Len(s) + (i - Len(s))
            <4>1. PICK j : j \in DOMAIN t /\ i = Len(s) + j
                BY <3>2
            <4>2. t[j] = u[i]
                BY <1>1, <1>2, <4>1
            <4> QED BY <4>1, <4>2 DEF LemmaItems
        <3> QED BY <1>3, <3>1, <3>2 DEF LemmaItems
    <2>2. ASSUME NEW i \in LemmaItems(s) PROVE i \in LemmaItems(u)
        BY <1>1, <1>2, <1>5 DEF LemmaItems
    <2>3. ASSUME NEW j \in LemmaItems(t) PROVE Len(s) + j \in LemmaItems(u)
        BY <1>1, <1>2, <1>4 DEF LemmaItems
    <2> QED BY <2>1, <2>2, <2>3
<1> QED BY <1>1, <1>2, <1>6 DEF LemmaItems, u

(* One piece behind the other announces the lemmas of both. *)
LEMMA AnnouncesBoth ==
    ASSUME NEW s, NEW t, NEW n, NEW m, NEW k, Announces(s, n, m), Announces(t, m, k)
    PROVE  Announces(s \o t, n, k)
<1> DEFINE u == s \o t
<1>1. /\ IsSeq(u) /\ Len(s) \in Nat
      /\ LemmaItems(s) \subseteq 1..Len(s) /\ LemmaItems(t) \subseteq Nat \ {0}
      /\ LemmaItems(u) = LemmaItems(s) \cup {Len(s) + j : j \in LemmaItems(t)}
      /\ \A i \in LemmaItems(s) : u[i] = s[i]
      /\ \A j \in LemmaItems(t) : u[Len(s) + j] = t[j]
    BY ItemsOfConcat DEF Announces
<1> HIDE DEF u
<1>2. n \in Nat /\ m \in Nat /\ k \in Nat /\ n <= m /\ m <= k
    BY DEF Announces
<1>3. ASSUME NEW i \in LemmaItems(s)
      PROVE  u[i].lemma = s[i].lemma /\ s[i].lemma \in Int /\ -s[i].lemma \in (n + 1)..m
    BY <1>1 DEF Announces
<1>4. ASSUME NEW j \in LemmaItems(t)
      PROVE  /\ u[Len(s) + j].lemma = t[j].lemma
             /\ t[j].lemma \in Int /\ -t[j].lemma \in (m + 1)..k
    BY <1>1 DEF Announces
<1>5. ASSUME NEW i \in LemmaItems(u)
      PROVE  u[i].lemma \in Int /\ -u[i].lemma \in (n + 1)..k
    <2>1. CASE i \in LemmaItems(s)
        BY <1>2, <1>3, <2>1
    <2>2. ASSUME NEW j \in LemmaItems(t), i = Len(s) + j
          PROVE  u[i].lemma \in Int /\ -u[i].lemma \in (n + 1)..k
        BY <1>2, <1>4, <2>2
    <2> QED BY <1>1, <2>1, <2>2
<1>6. ASSUME NEW p \in (n + 1)..k PROVE \E i \in LemmaItems(u) : u[i].lemma = -p
    <2>1. CASE p <= m
        <3>1. PICK i \in LemmaItems(s) : s[i].lemma = -p
            BY <1>2, <2>1 DEF Announces
        <3> QED BY <1>1, <1>3, <3>1
    <2>2. CASE p > m
        <3>1. PICK j \in LemmaItems(t) : t[j].lemma = -p
            BY <1>2, <2>2 DEF Announces
        <3> QED BY <1>1, <1>4, <3>1
    <2> QED BY <1>2, <2>1, <2>2
<1>7. ASSUME NEW i \in LemmaItems(u), NEW j \in LemmaItems(u), i < j
      PROVE  u[j].lemma < u[i].lemma
    <2>1. CASE i \in LemmaItems(s) /\ j \in LemmaItems(s)
        BY <1>3, <1>7, <2>1 DEF Announces
    <2>2. ASSUME NEW b \in LemmaItems(t), j = Len(s) + b, i \in LemmaItems(s)
          PROVE  u[j].lemma < u[i].lemma
        <3>1. u[i].lemma = s[i].lemma /\ s[i].lemma \in Int /\ -s[i].lemma \in (n + 1)..m
            BY <1>3, <2>2
        <3>2. u[j].lemma = t[b].lemma /\ t[b].lemma \in Int /\ -t[b].lemma \in (m + 1)..k
            BY <1>4, <2>2
        <3> QED BY <1>2, <3>1, <3>2
    <2>3. ASSUME NEW a \in LemmaItems(t), i = Len(s) + a, j \in LemmaItems(s)
          PROVE  FALSE
        BY <1>1, <1>7, <2>3
    <2>4. ASSUME NEW a \in LemmaItems(t), NEW b \in LemmaItems(t), i = Len(s) + a, j = Len(s) + b
          PROVE  u[j].lemma < u[i].lemma
        <3>1. a < b
            BY <1>1, <1>7, <2>4
        <3> QED BY <1>4, <2>4, <3>1 DEF Announces
    <2> QED BY <1>1, <1>7, <2>1, <2>2, <2>3, <2>4
<1>8. Announces(u, n, k)
    BY <1>1, <1>2, <1>5, <1>6, <1>7 DEF Announces
<1> QED BY <1>8 DEF u

(* Short pieces put together. *)
LEMMA PiecesOfTwo ==
    \A a, b, c : <<a>> \o <<b>> = <<a, b>> /\ <<a, b>> \o <<c>> = <<a, b, c>>
<1> SUFFICES ASSUME NEW a, NEW b, NEW c
             PROVE  <<a>> \o <<b>> = <<a, b>> /\ <<a, b>> \o <<c>> = <<a, b, c>>
    OBVIOUS
<1> DEFINE S == {a, b, c}
<1>1. <<a>> \in Seq(S) /\ <<b>> \in Seq(S) /\ <<c>> \in Seq(S)
    OBVIOUS
<1>2. <<a, b>> \in Seq(S) /\ <<a, b, c>> \in Seq(S)
    OBVIOUS
<1> HIDE DEF S
<1>3. <<a>> \o <<b>> = <<a, b>>
    <2> DEFINE t == <<a>> \o <<b>>
               u == <<a, b>>
    <2>1. t \in Seq(S) /\ Len(t) = 2 /\ t[1] = a /\ t[2] = b
        BY <1>1, ConcatProperties
    <2>2. Len(u) = 2 /\ u[1] = a /\ u[2] = b
        OBVIOUS
    <2> HIDE DEF t
    <2>3. \A i \in 1..Len(t) : t[i] = u[i]
        BY <2>1, <2>2
    <2> HIDE DEF u
    <2>4. t = u
        BY <1>2, <2>1, <2>2, <2>3, SeqEqual DEF u
    <2> QED BY <2>4 DEF t, u
<1>4. <<a, b>> \o <<c>> = <<a, b, c>>
    <2> DEFINE t == <<a, b>> \o <<c>>
               u == <<a, b, c>>
    <2>1. t \in Seq(S) /\ Len(t) = 3 /\ t[1] = a /\ t[2] = b /\ t[3] = c
        BY <1>1, <1>2, ConcatProperties
    <2>2. Len(u) = 3 /\ u[1] = a /\ u[2] = b /\ u[3] = c
        OBVIOUS
    <2> HIDE DEF t
    <2>3. \A i \in 1..Len(t) : t[i] = u[i]
        BY <2>1, <2>2
    <2> HIDE DEF u
    <2>4. t = u
        BY <1>2, <2>1, <2>2, <2>3, SeqEqual DEF u
    <2> QED BY <2>4 DEF t, u
<1> QED BY <1>3, <1>4

(* Items that are no lemmas announce none. *)
LEMMA AnnouncesNone ==
    ASSUME NEW s, IsSeq(s), LemmaItems(s) = {}, NEW n \in Nat
    PROVE  Announces(s, n, n)
BY DEF Announces

(* Neither do no items at all, or a single one of another kind. *)
LEMMA AnnouncesUnit ==
    ASSUME NEW n \in Nat
    PROVE  /\ Announces(<<>>, n, n)
           /\ \A ids : Announces(<<UnitItem(ids)>>, n, n)
           /\ \A id : Announces(<<ConflictItem(id)>>, n, n)
           /\ Announces(<<ModeItem>>, n, n)
<1>1. LemmaItems(<<>>) = {}
    BY DEF LemmaItems
<1>2. ASSUME NEW it, it.tag # 3 PROVE Announces(<<it>>, n, n)
    <2>1. LemmaItems(<<it>>) = {}
        BY <1>2 DEF LemmaItems
    <2> QED BY <2>1, OneIsSeq, AnnouncesNone
<1>3. \A ids : UnitItem(ids).tag # 3
    BY DEF UnitItem, Item
<1>4. \A id : ConflictItem(id).tag # 3
    BY DEF ConflictItem, Item
<1>5. ModeItem.tag # 3
    BY DEF ModeItem, Item
<1> QED BY <1>1, <1>2, <1>3, <1>4, <1>5, NoneIsSeq, AnnouncesNone

(* A lemma item announces one lemma. *)
LEMMA AnnouncesOne ==
    ASSUME NEW n \in Nat
    PROVE  \A hints, conflict : Announces(<<LemmaItem(-(n + 1), hints, conflict)>>, n, n + 1)
<1> SUFFICES ASSUME NEW hints, NEW conflict
             PROVE  Announces(<<LemmaItem(-(n + 1), hints, conflict)>>, n, n + 1)
    OBVIOUS
<1> DEFINE it == LemmaItem(-(n + 1), hints, conflict)
           s == <<it>>
<1>1. it.tag = 3 /\ it.lemma = -(n + 1)
    BY DEF LemmaItem, Item
<1>2. IsSeq(s) /\ Len(s) = 1 /\ DOMAIN s = {1} /\ s[1] = it
    BY OneIsSeq
<1> HIDE DEF it, s
<1>3. LemmaItems(s) = {1}
    BY <1>1, <1>2 DEF LemmaItems
<1>4. s[1].lemma = -(n + 1) /\ -s[1].lemma = n + 1
    BY <1>1, <1>2
<1>5. \A k \in (n + 1)..(n + 1) : k = n + 1
    OBVIOUS
<1>6. \A k \in (n + 1)..(n + 1) : \E i \in LemmaItems(s) : s[i].lemma = -k
    BY <1>3, <1>4, <1>5
<1>7. Announces(s, n, n + 1)
    BY <1>2, <1>3, <1>4, <1>6 DEF Announces
<1> QED BY <1>7 DEF s, it

(* Several items at once. *)
LEMMA AnnouncesSome ==
    ASSUME NEW n \in Nat
    PROVE  \A h1, c1, h2, c2, ids :
             /\ Announces(<<LemmaItem(-(n + 1), h1, c1), UnitItem(ids)>>, n, n + 1)
             /\ Announces(<<LemmaItem(-(n + 1), h1, c1), LemmaItem(-(n + 2), h2, c2)>>, n, n + 2)
             /\ Announces(<<LemmaItem(-(n + 1), h1, c1), LemmaItem(-(n + 2), h2, c2),
                            UnitItem(ids)>>, n, n + 2)
<1> SUFFICES ASSUME NEW h1, NEW c1, NEW h2, NEW c2, NEW ids
             PROVE  /\ Announces(<<LemmaItem(-(n + 1), h1, c1), UnitItem(ids)>>, n, n + 1)
                    /\ Announces(<<LemmaItem(-(n + 1), h1, c1), LemmaItem(-(n + 2), h2, c2)>>,
                                 n, n + 2)
                    /\ Announces(<<LemmaItem(-(n + 1), h1, c1), LemmaItem(-(n + 2), h2, c2),
                                   UnitItem(ids)>>, n, n + 2)
    OBVIOUS
<1> DEFINE a == LemmaItem(-(n + 1), h1, c1)
           b == LemmaItem(-(n + 2), h2, c2)
           u == UnitItem(ids)
<1>1. Announces(<<a>>, n, n + 1)
    BY AnnouncesOne
<1>2. Announces(<<b>>, n + 1, n + 2)
    <2>1. n + 1 \in Nat /\ n + 1 + 1 = n + 2
        OBVIOUS
    <2> QED BY <2>1, AnnouncesOne
<1>3. Announces(<<u>>, n + 1, n + 1) /\ Announces(<<u>>, n + 2, n + 2)
    BY AnnouncesUnit
<1> HIDE DEF a, b, u
<1>4. <<a>> \o <<u>> = <<a, u>> /\ <<a>> \o <<b>> = <<a, b>>
    BY PiecesOfTwo
<1>5. Announces(<<a, u>>, n, n + 1) /\ Announces(<<a, b>>, n, n + 2)
    BY <1>1, <1>2, <1>3, <1>4, AnnouncesBoth
<1>6. Announces(<<a, b>> \o <<u>>, n, n + 2)
    BY <1>3, <1>5, AnnouncesBoth
<1>7. <<a, b>> \o <<u>> = <<a, b, u>>
    BY PiecesOfTwo
<1> QED BY <1>5, <1>6, <1>7 DEF a, b, u

(* A buffer that is written backwards announces its lemmas from the end. *)
LEMMA BackwardsAnnounces ==
    ASSUME NEW s, NEW n, NEW m, Announces(s, n, m), NEW total \in Nat
    PROVE  FileAnnounces(Backwards(s, total), n, m, total)
<1> DEFINE g == Backwards(s, total)
           len == Len(s)
           mirror(i) == len + 1 - i
<1>1. IsSeq(s) /\ n \in Nat /\ m \in Nat /\ n <= m
    BY DEF Announces
<1>2. len \in Nat /\ DOMAIN s = 1..len
    BY <1>1, LengthType
<1>3. g = [i \in 1..len |-> Numbered(s[mirror(i)], total)]
    BY DEF Backwards
<1>4. IsSeq(g) /\ Len(g) = len /\ DOMAIN g = 1..len
    <2>1. DOMAIN g = 1..len
        BY <1>3
    <2>2. g \in [1..len -> Range(g)]
        BY <1>3, <2>1 DEF Range
    <2> HIDE DEF g, len
    <2> QED BY <1>2, <2>1, <2>2, PlacesIsSeq
<1>5. ASSUME NEW i \in DOMAIN g
      PROVE  g[i].tag = s[mirror(i)].tag /\ g[i].lemma = ClauseNumber(s[mirror(i)].lemma, total)
    <2>1. g[i] = Numbered(s[mirror(i)], total)
        BY <1>3, <1>4
    <2> HIDE DEF g, mirror
    <2> QED BY <2>1 DEF Numbered
<1>6. \A i \in 1..len : mirror(i) \in 1..len /\ mirror(mirror(i)) = i
    BY <1>2
<1> HIDE DEF g, len, mirror
<1>7. ASSUME NEW i \in LemmaItems(g)
      PROVE  mirror(i) \in LemmaItems(s)
    BY <1>2, <1>4, <1>5, <1>6 DEF LemmaItems
<1>8. ASSUME NEW i \in LemmaItems(s)
      PROVE  mirror(i) \in LemmaItems(g)
    BY <1>2, <1>4, <1>5, <1>6 DEF LemmaItems
<1>9. ASSUME NEW i \in LemmaItems(g)
      PROVE  /\ g[i].lemma = total - s[mirror(i)].lemma
             /\ s[mirror(i)].lemma \in Int
             /\ -s[mirror(i)].lemma \in (n + 1)..m
    <2>1. s[mirror(i)].lemma \in Int /\ -s[mirror(i)].lemma \in (n + 1)..m
        BY <1>7 DEF Announces
    <2>2. s[mirror(i)].lemma < 0
        BY <1>1, <2>1
    <2>3. i \in DOMAIN g
        BY DEF LemmaItems
    <2> QED BY <1>5, <2>1, <2>2, <2>3 DEF ClauseNumber
<1>10. ASSUME NEW i \in LemmaItems(g) PROVE g[i].lemma \in (total + n + 1)..(total + m)
    BY <1>1, <1>9
<1>11. ASSUME NEW k \in (n + 1)..m PROVE \E i \in LemmaItems(g) : g[i].lemma = total + k
    <2>1. PICK i \in LemmaItems(s) : s[i].lemma = -k
        BY DEF Announces
    <2>2. i \in 1..len /\ mirror(i) \in LemmaItems(g) /\ mirror(mirror(i)) = i
        BY <1>2, <1>6, <1>8 DEF LemmaItems
    <2>3. g[mirror(i)].lemma = total - (-k)
        BY <1>9, <2>1, <2>2
    <2>4. total - (-k) = total + k
        BY <1>1
    <2> QED BY <2>2, <2>3, <2>4
<1>12. ASSUME NEW i \in LemmaItems(g), NEW j \in LemmaItems(g), i < j
       PROVE  g[j].lemma < g[i].lemma
    <2>1. i \in 1..len /\ j \in 1..len
        BY <1>4 DEF LemmaItems
    <2>2. mirror(j) < mirror(i)
        BY <1>2, <1>12, <2>1 DEF mirror
    <2>3. s[mirror(i)].lemma < s[mirror(j)].lemma
        BY <1>7, <2>2 DEF Announces
    <2> QED BY <1>9, <2>3
<1> QED BY <1>1, <1>4, <1>10, <1>11, <1>12 DEF FileAnnounces, g

(* Two pieces of the file, the later one first. *)
LEMMA FileAnnouncesBoth ==
    ASSUME NEW g, NEW h, NEW n, NEW m, NEW k, NEW total \in Nat,
           FileAnnounces(g, m, k, total), FileAnnounces(h, n, m, total)
    PROVE  FileAnnounces(g \o h, n, k, total)
<1> DEFINE u == g \o h
<1>1. /\ IsSeq(u) /\ Len(g) \in Nat
      /\ LemmaItems(g) \subseteq 1..Len(g) /\ LemmaItems(h) \subseteq Nat \ {0}
      /\ LemmaItems(u) = LemmaItems(g) \cup {Len(g) + j : j \in LemmaItems(h)}
      /\ \A i \in LemmaItems(g) : u[i] = g[i]
      /\ \A j \in LemmaItems(h) : u[Len(g) + j] = h[j]
    BY ItemsOfConcat DEF FileAnnounces
<1> HIDE DEF u
<1>2. n \in Nat /\ m \in Nat /\ k \in Nat /\ n <= m /\ m <= k
    BY DEF FileAnnounces
<1>3. ASSUME NEW i \in LemmaItems(g)
      PROVE  u[i].lemma = g[i].lemma /\ g[i].lemma \in (total + m + 1)..(total + k)
    BY <1>1 DEF FileAnnounces
<1>4. ASSUME NEW j \in LemmaItems(h)
      PROVE  u[Len(g) + j].lemma = h[j].lemma /\ h[j].lemma \in (total + n + 1)..(total + m)
    BY <1>1 DEF FileAnnounces
<1>5. ASSUME NEW i \in LemmaItems(u)
      PROVE  u[i].lemma \in (total + n + 1)..(total + k)
    <2>1. CASE i \in LemmaItems(g)
        BY <1>2, <1>3, <2>1
    <2>2. ASSUME NEW j \in LemmaItems(h), i = Len(g) + j
          PROVE  u[i].lemma \in (total + n + 1)..(total + k)
        BY <1>2, <1>4, <2>2
    <2> QED BY <1>1, <2>1, <2>2
<1>6. ASSUME NEW p \in (n + 1)..k PROVE \E i \in LemmaItems(u) : u[i].lemma = total + p
    <2>1. CASE p <= m
        <3>1. PICK j \in LemmaItems(h) : h[j].lemma = total + p
            BY <1>2, <2>1 DEF FileAnnounces
        <3> QED BY <1>1, <1>4, <3>1
    <2>2. CASE p > m
        <3>1. PICK i \in LemmaItems(g) : g[i].lemma = total + p
            BY <1>2, <2>2 DEF FileAnnounces
        <3> QED BY <1>1, <1>3, <3>1
    <2> QED BY <1>2, <2>1, <2>2
<1>7. ASSUME NEW i \in LemmaItems(u), NEW j \in LemmaItems(u), i < j
      PROVE  u[j].lemma < u[i].lemma
    <2>1. CASE i \in LemmaItems(g) /\ j \in LemmaItems(g)
        BY <1>3, <1>7, <2>1 DEF FileAnnounces
    <2>2. ASSUME NEW b \in LemmaItems(h), j = Len(g) + b, i \in LemmaItems(g)
          PROVE  u[j].lemma < u[i].lemma
        <3>1. u[i].lemma \in (total + m + 1)..(total + k)
            BY <1>3, <2>2
        <3>2. u[j].lemma \in (total + n + 1)..(total + m)
            BY <1>4, <2>2
        <3> QED BY <1>2, <3>1, <3>2
    <2>3. ASSUME NEW a \in LemmaItems(h), i = Len(g) + a, j \in LemmaItems(g)
          PROVE  FALSE
        BY <1>1, <1>7, <2>3
    <2>4. ASSUME NEW a \in LemmaItems(h), NEW b \in LemmaItems(h), i = Len(g) + a, j = Len(g) + b
          PROVE  u[j].lemma < u[i].lemma
        <3>1. a < b
            BY <1>1, <1>7, <2>4
        <3> QED BY <1>4, <2>4, <3>1 DEF FileAnnounces
    <2> QED BY <1>1, <1>7, <2>1, <2>2, <2>3, <2>4
<1>8. FileAnnounces(u, n, k, total)
    BY <1>1, <1>2, <1>5, <1>6, <1>7 DEF FileAnnounces
<1> QED BY <1>8 DEF u

(* A lemma item each. *)
LEMMA AnnouncesEach ==
    ASSUME NEW s, NEW n \in Nat, IsSeq(s),
           \A i \in 1..Len(s) : s[i].tag = 3 /\ s[i].lemma = -(n + i)
    PROVE  Announces(s, n, n + Len(s))
<1>1. Len(s) \in Nat /\ DOMAIN s = 1..Len(s)
    BY LengthType
<1>2. LemmaItems(s) = 1..Len(s)
    BY <1>1 DEF LemmaItems
<1>3. \A i \in LemmaItems(s) :
          s[i].lemma = -(n + i) /\ s[i].lemma \in Int /\ -s[i].lemma = n + i /\ i \in 1..Len(s)
    BY <1>1, <1>2
<1>4. ASSUME NEW i \in LemmaItems(s)
      PROVE  s[i].lemma \in Int /\ -s[i].lemma \in (n + 1)..(n + Len(s))
    BY <1>1, <1>3
<1>5. ASSUME NEW k \in (n + 1)..(n + Len(s)) PROVE \E i \in LemmaItems(s) : s[i].lemma = -k
    <2>1. k - n \in 1..Len(s) /\ n + (k - n) = k
        BY <1>1
    <2> QED BY <1>2, <1>3, <2>1
<1>6. \A i, j \in LemmaItems(s) : i < j => s[j].lemma < s[i].lemma
    BY <1>1, <1>3
<1> QED BY <1>1, <1>4, <1>5, <1>6 DEF Announces

(* The tautologies of a true formula: a lemma and a unit each. *)
LEMMA AnnouncesTautologies ==
    ASSUME NEW matrix \in Seq(Seq(Int))
    PROVE  /\ Announces(TautologyItems(matrix), 0, Len(Tautologies(matrix)))
           /\ \A tseitin : Len(TautologyClauses(matrix, tseitin)) = Len(Tautologies(matrix))
<1> DEFINE k == Len(Tautologies(matrix))
           s == TautologyItems(matrix)
<1>1. k \in Nat /\ DOMAIN Tautologies(matrix) = 1..k
    <2> DEFINE S == {i \in DOMAIN matrix : IsTautology(matrix[i])}
    <2>1. IsFiniteSet(S) /\ S \subseteq Int
        <3>1. DOMAIN matrix = 1..Len(matrix) /\ Len(matrix) \in Nat
            OBVIOUS
        <3>2. IsFiniteSet(DOMAIN matrix)
            BY <3>1, FS_Interval
        <3> QED BY <3>1, <3>2, FS_Subset
    <2>2. Tautologies(matrix) \in Seq(S)
        <3> HIDE DEF S
        <3> QED BY <2>1, SortedClauseType DEF Tautologies, S
    <2> QED BY <2>2
<1>2. ASSUME NEW tseitin PROVE Len(TautologyClauses(matrix, tseitin)) = k
    <2>1. /\ DOMAIN TautologyClauses(matrix, tseitin) = 1..k
          /\ TautologyClauses(matrix, tseitin)
                 \in [1..k -> Range(TautologyClauses(matrix, tseitin))]
        BY <1>1 DEF TautologyClauses, Range
    <2> QED BY <1>1, <2>1, PlacesIsSeq
<1>3. /\ DOMAIN s = 1..(2 * k)
      /\ \A p \in 1..(2 * k) :
            \E h, c : LET n == (p + 1) \div 2
                      IN  s[p] = <<LemmaItem(-n, h, c), UnitItem(<<-n>>)>>[2 - (p % 2)]
    BY <1>1 DEF TautologyItems
<1>4. IsSeq(s)
    <2>1. s \in [1..(2 * k) -> Range(s)]
        BY <1>1 DEF TautologyItems, Range
    <2> HIDE DEF s, k
    <2> QED BY <1>1, <2>1, PlacesIsSeq
<1> HIDE DEF s, k
<1>5. ASSUME NEW p \in 1..(2 * k), p % 2 = 1
      PROVE  s[p].tag = 3 /\ s[p].lemma = -((p + 1) \div 2)
    <2> DEFINE n == (p + 1) \div 2
    <2>1. PICK h, c : s[p] = <<LemmaItem(-n, h, c), UnitItem(<<-n>>)>>[2 - (p % 2)]
        BY <1>3
    <2> HIDE DEF n
    <2>2. s[p] = LemmaItem(-n, h, c)
        BY <1>5, <2>1
    <2>3. s[p].tag = 3 /\ s[p].lemma = -n
        BY <2>2 DEF LemmaItem, Item
    <2> QED BY <2>3 DEF n
<1>6. ASSUME NEW p \in 1..(2 * k), p % 2 = 0
      PROVE  s[p].tag # 3
    <2> DEFINE n == (p + 1) \div 2
    <2>1. PICK h, c : s[p] = <<LemmaItem(-n, h, c), UnitItem(<<-n>>)>>[2 - (p % 2)]
        BY <1>3
    <2> HIDE DEF n
    <2>2. s[p] = UnitItem(<<-n>>)
        BY <1>6, <2>1
    <2> QED BY <2>2 DEF UnitItem, Item
<1>7. \A p \in 1..(2 * k) : p % 2 = 0 \/ p % 2 = 1
    BY <1>1
<1>8. LemmaItems(s) = {p \in 1..(2 * k) : p % 2 = 1}
    BY <1>3, <1>5, <1>6, <1>7 DEF LemmaItems
<1>9. ASSUME NEW p \in LemmaItems(s)
      PROVE  s[p].lemma \in Int /\ -s[p].lemma \in (0 + 1)..k /\ s[p].lemma = -((p + 1) \div 2)
    BY <1>1, <1>5, <1>8
<1>10. ASSUME NEW n \in (0 + 1)..k PROVE \E p \in LemmaItems(s) : s[p].lemma = -n
    <2>1. 2 * n - 1 \in 1..(2 * k) /\ (2 * n - 1) % 2 = 1 /\ ((2 * n - 1) + 1) \div 2 = n
        BY <1>1
    <2> QED BY <1>5, <1>8, <2>1
<1>11. ASSUME NEW p \in LemmaItems(s), NEW q \in LemmaItems(s), p < q
       PROVE  s[q].lemma < s[p].lemma
    <2>1. p \in Nat /\ q \in Nat /\ p % 2 = 1 /\ q % 2 = 1
        BY <1>1, <1>8
    <2>2. ASSUME NEW r \in Nat, r % 2 = 1
          PROVE  \E a \in Int : r = 2 * a + 1 /\ (r + 1) \div 2 = a + 1
        <3>1. r = 2 * (r \div 2) + 1 /\ r \div 2 \in Int
            BY <2>2
        <3>2. (r + 1) \div 2 = (r \div 2) + 1
            BY <2>2
        <3> QED BY <3>1, <3>2
    <2>3. PICK a \in Int : p = 2 * a + 1 /\ (p + 1) \div 2 = a + 1
        BY <2>1, <2>2
    <2>4. PICK b \in Int : q = 2 * b + 1 /\ (q + 1) \div 2 = b + 1
        BY <2>1, <2>2
    <2>5. a < b
        BY <1>11, <2>3, <2>4
    <2>6. s[p].lemma = -(a + 1) /\ s[q].lemma = -(b + 1)
        BY <1>9, <2>3, <2>4
    <2> QED BY <2>5, <2>6
<1>12. Announces(s, 0, k)
    BY <1>1, <1>4, <1>9, <1>10, <1>11 DEF Announces
<1> QED BY <1>2, <1>12 DEF s, k

(* The lemmas for one parent are those that its items announce. *)
LEMMA AnnouncesSide ==
    ASSUME NEW n \in Nat, NEW e, NEW def, NEW piv, NEW ef, NEW ph, NEW phi
    PROVE  Announces(SideItems(n, def, piv, ef, ph, phi), n, n + Len(SideClauses(e, piv, ef, ph)))
<1> DEFINE side == SideClauses(e, piv, ef, ph)
           items == SideItems(n, def, piv, ef, ph, phi)
<1>1. CONST_TRUE # CONST_FALSE
    BY ConstAssumption DEF CONST_FALSE
<1>2. CASE ph \in {CONST_TRUE, CONST_FALSE}
    <2>1. Len(side) = 1
        <3>1. \/ side = <<>> \o << <<e, piv, -ef>> >>
              \/ side = << <<e, piv, -ef>> >> \o <<>>
            BY <1>1, <1>2 DEF SideClauses
        <3>2. side = << <<e, piv, -ef>> >>
            BY <3>1
        <3> QED BY <3>2, OneIsSeq
    <2>2. \E h, c : items = <<LemmaItem(-(n + 1), h, c)>>
        BY <1>1, <1>2 DEF SideItems
    <2> QED BY <2>1, <2>2, AnnouncesOne
<1>3. CASE ph \notin {CONST_TRUE, CONST_FALSE}
    <2>1. Len(side) = 2
        <3>1. side = << <<e, piv, -ef, ph>> >> \o << <<e, piv, -ef>> >>
            BY <1>3 DEF SideClauses
        <3> DEFINE a == <<e, piv, -ef, ph>>
                   b == <<e, piv, -ef>>
        <3>2. side = <<a>> \o <<b>>
            BY <3>1
        <3> HIDE DEF a, b
        <3>3. side = <<a, b>>
            BY <3>2, PiecesOfTwo
        <3> QED BY <3>3, TwoIsSeq
    <2>2. \E h1, c1, h2, c2 : items = <<LemmaItem(-(n + 1), h1, c1), LemmaItem(-(n + 2), h2, c2)>>
        BY <1>3 DEF SideItems
    <2> QED BY <2>1, <2>2, AnnouncesSome
<1> QED BY <1>2, <1>3

-----------------------------------------------------------------------------
(* What a step adds to the log *)

\* A step writes nothing, or dumps the buffer if it is too large, or announces the
\* lemmas that it appends to the RUP file.
Logs ==
    \/ UNCHANGED <<rup, gratVars>>
    \/ UNCHANGED rup /\ EmitAndDump(<<>>)
    \/ \E items : Announces(items, Len(rup), Len(rup')) /\ Emit(items)

(* A sequence that is appended to the RUP file makes it longer by its length. *)
LEMMA RupLength ==
    ASSUME IsSeq(rup)
    PROVE  /\ Len(rup) \in Nat
           /\ \A c : rup' = Append(rup, c) => Len(rup') = Len(rup) + 1
           /\ \A c : rup' = rup \o <<c>> => Len(rup') = Len(rup) + 1
           /\ \A c, d : rup' = rup \o <<c, d>> => Len(rup') = Len(rup) + 2
<1>1. \A t : IsSeq(t) => Len(rup \o t) = Len(rup) + Len(t)
    BY ConcatIsSeq
<1>2. \A c : Append(rup, c) = rup \o <<c>>
    BY AppendIsSeq
<1> QED BY <1>1, <1>2, LengthType, OneIsSeq, TwoIsSeq

(* Nothing is logged but units. *)
LEMMA LogsUnits ==
    ASSUME IsSeq(rup), UNCHANGED rup,
           \/ \E ids : Emit(<<UnitItem(ids)>>)
           \/ \E id : Emit(<<ConflictItem(id)>>)
           \/ \E items : IsSeq(items) /\ LemmaItems(items) = {} /\ Emit(items)
    PROVE  Logs
<1>1. Len(rup) \in Nat /\ Len(rup') = Len(rup)
    BY LengthType
<1> QED BY <1>1, AnnouncesUnit, AnnouncesNone DEF Logs

(* One lemma, or two. *)
LEMMA LogsLemmas ==
    ASSUME IsSeq(rup), NEW n, n = Len(rup),
           \/ /\ Len(rup') = n + 1
              /\ \/ \E h, c : Emit(<<LemmaItem(-(n + 1), h, c)>>)
                 \/ \E h, c, ids : Emit(<<LemmaItem(-(n + 1), h, c), UnitItem(ids)>>)
           \/ /\ Len(rup') = n + 2
              /\ \/ \E h1, c1, h2, c2 :
                        Emit(<<LemmaItem(-(n + 1), h1, c1), LemmaItem(-(n + 2), h2, c2)>>)
                 \/ \E h1, c1, h2, c2, ids :
                        Emit(<<LemmaItem(-(n + 1), h1, c1), LemmaItem(-(n + 2), h2, c2),
                               UnitItem(ids)>>)
    PROVE  Logs
<1>1. n \in Nat
    BY LengthType
<1>2. ASSUME NEW h, NEW c, Len(rup') = n + 1, Emit(<<LemmaItem(-(n + 1), h, c)>>) PROVE Logs
    <2>1. Announces(<<LemmaItem(-(n + 1), h, c)>>, n, n + 1)
        BY <1>1, AnnouncesOne
    <2> QED BY <1>2, <2>1 DEF Logs
<1>3. ASSUME NEW h, NEW c, NEW ids, Len(rup') = n + 1,
             Emit(<<LemmaItem(-(n + 1), h, c), UnitItem(ids)>>)
      PROVE  Logs
    <2>1. Announces(<<LemmaItem(-(n + 1), h, c), UnitItem(ids)>>, n, n + 1)
        BY <1>1, AnnouncesSome
    <2> QED BY <1>3, <2>1 DEF Logs
<1>4. ASSUME NEW h1, NEW c1, NEW h2, NEW c2, Len(rup') = n + 2,
             Emit(<<LemmaItem(-(n + 1), h1, c1), LemmaItem(-(n + 2), h2, c2)>>)
      PROVE  Logs
    <2>1. Announces(<<LemmaItem(-(n + 1), h1, c1), LemmaItem(-(n + 2), h2, c2)>>, n, n + 2)
        BY <1>1, AnnouncesSome
    <2> QED BY <1>4, <2>1 DEF Logs
<1>5. ASSUME NEW h1, NEW c1, NEW h2, NEW c2, NEW ids, Len(rup') = n + 2,
             Emit(<<LemmaItem(-(n + 1), h1, c1), LemmaItem(-(n + 2), h2, c2), UnitItem(ids)>>)
      PROVE  Logs
    <2>1. Announces(<<LemmaItem(-(n + 1), h1, c1), LemmaItem(-(n + 2), h2, c2), UnitItem(ids)>>,
                    n, n + 2)
        BY <1>1, AnnouncesSome
    <2> QED BY <1>5, <2>1 DEF Logs
<1> QED BY <1>2, <1>3, <1>4, <1>5

(* The tautologies are announced before the first line. *)
LEMMA OpenProofLogs ==
    ASSUME ControlInv, OpenProof, pc \in Before => rup = <<>>
    PROVE  Logs
<1>1. Len(<<>>) = 0 /\ rup = <<>>
    <2>1. pc \in Before
        BY DEF OpenProof, SearchDone, Before
    <2> QED BY <2>1
<1>2. CASE TrueFormula
    <2> DEFINE k == Len(Tautologies(input.matrix))
    <2>1. input.matrix \in Seq(Seq(Int))
        BY InputAssumption DEF ControlInv
    <2>2. Announces(TautologyItems(input.matrix), 0, k)
        BY <2>1, AnnouncesTautologies
    <2>3. Announces(<<ModeItem>>, 0, 0)
        BY AnnouncesUnit
    <2>4. Announces(<<ModeItem>> \o TautologyItems(input.matrix), 0, k)
        BY <2>2, <2>3, AnnouncesBoth
    <2>5. Len(rup') = k
        <3> DEFINE lemmas == TautologyClauses(input.matrix, clause_tseitin_variables)
        <3>1. rup' = <<>> \o lemmas
            BY <1>1, <1>2 DEF OpenProof
        <3>2. IsSeq(lemmas) /\ Len(lemmas) = k
            BY <2>1, TautologiesType, AnnouncesTautologies
        <3> HIDE DEF lemmas, k
        <3>3. Len(<<>> \o lemmas) = Len(<<>>) + Len(lemmas) /\ Len(lemmas) \in Nat
            BY <3>2, NoneIsSeq, ConcatIsSeq
        <3> QED BY <1>1, <3>1, <3>2, <3>3
    <2>6. Emit(<<ModeItem>> \o TautologyItems(input.matrix))
        BY <1>2 DEF OpenProof
    <2> QED BY <1>1, <2>4, <2>5, <2>6 DEF Logs
<1>3. CASE ~TrueFormula
    <2>1. Emit(<<ModeItem>>) /\ UNCHANGED rup
        BY <1>3 DEF OpenProof
    <2>2. Announces(<<ModeItem>>, 0, 0)
        BY AnnouncesUnit
    <2> QED BY <1>1, <2>1, <2>2 DEF Logs
<1> QED BY <1>2, <1>3

(* The shortcut lemmas of both parents. *)
LEMMA NewEflitLogs ==
    ASSUME FileInv, NewEflit
    PROVE  Logs
<1> DEFINE e == Fresh(1)
           ef1 == EflitIn(Insert(eflit, <<VarOf(step.lit), step.phi>>, e), step.lit, step.left)
           ef2 == EflitIn(Insert(eflit, <<VarOf(step.lit), step.phi>>, e), -step.lit, step.right)
           side1 == SideClauses(e, step.pivot, ef1, step.left)
           side2 == SideClauses(e, -step.pivot, ef2, step.right)
           n == Len(rup)
           n1 == n + Len(side1)
           items1 == SideItems(n, CertId(1), step.pivot, ef1, step.left, step.phi)
           items2 == SideItems(n1, CertId(1), -step.pivot, ef2, step.right, step.phi)
<1>1. rup' = rup \o side1 \o side2 /\ Emit(items1 \o items2)
    BY DEF NewEflit, MakeEflit
<1>2. IsSeq(rup) /\ IsSeq(side1) /\ IsSeq(side2) /\ n \in Nat /\ Len(side1) \in Nat
    BY SideClausesType, LengthType DEF FileInv
<1>3. Announces(items1, n, n1)
    BY <1>2, AnnouncesSide
<1>4. n1 \in Nat
    BY <1>2
<1>5. Announces(items2, n1, n1 + Len(side2))
    BY <1>4, AnnouncesSide
<1>6. Len(rup') = n1 + Len(side2)
    <2> HIDE DEF side1, side2
    <2>1. IsSeq(rup \o side1) /\ Len(rup \o side1) = n1
        BY <1>2, ConcatIsSeq
    <2> QED BY <1>1, <1>2, <2>1, ConcatIsSeq
<1> HIDE DEF items1, items2, n1, side1, side2
<1>7. Announces(items1 \o items2, n, n1 + Len(side2))
    BY <1>3, <1>5, AnnouncesBoth
<1> QED BY <1>1, <1>6, <1>7 DEF Logs

(* The packed sequences of a variable, and the lemma for each value of its phase. *)
LEMMA ReduceMergedLogs ==
    ASSUME FileInv, ReduceMerged
    PROVE  Logs
<1> DEFINE packs(hints, p) == IF MustPack(hints) THEN <<[hints |-> hints, pos |-> p]>> ELSE <<>>
           var == step.merged[step.idx]
           packed == packs(Hints(prop_pos, var), TRUE) \o packs(Hints(prop_neg, var), FALSE)
           lemmas == [i \in DOMAIN packed |-> PackClause(var, packed[i].pos)]
           items == [i \in DOMAIN packed |-> PackLemma(Len(rup) + i, packed[i].hints)]
           n == Len(rup) + Len(packed)
<1>1. \E c, d : rup' = rup \o lemmas \o <<c, d>>
    BY DEF ReduceMerged
<1>2. \E h1, c1, h2, c2, ids :
          Emit(items \o <<LemmaItem(-(n + 1), h1, c1), LemmaItem(-(n + 2), h2, c2), UnitItem(ids)>>)
    <2> DEFINE short == IF step.shortcut = <<>> THEN <<>> ELSE <<Last(step.shortcut)>>
               pos == Hints(prop_pos, var)
               neg == Hints(prop_neg, var)
               posId == Len(rup) + 1
               negId == Len(rup) + Len(packed)
               pos2 == IF MustPack(pos) THEN <<-posId>> ELSE pos
               neg2 == IF MustPack(neg) THEN <<-negId>> ELSE neg
               def == Get(eflit_def, GetEflit(var, GetPhase(res, var)))
               conf == Last(step.conflict)
               hints1 == short \o <<CertId(3), CertId(7)>> \o Reverse(neg2) \o <<def + 1>>
               hints2 == <<-(n + 1)>> \o short \o <<CertId(6), CertId(10), CertId(2), CertId(9)>>
                         \o Reverse(pos2) \o <<def>>
    <2>1. Emit(items \o <<LemmaItem(-(n + 1), hints1, conf), LemmaItem(-(n + 2), hints2, conf),
                          UnitItem(<<-(n + 2)>>)>>)
        BY DEF ReduceMerged
    <2> HIDE DEF hints1, hints2, conf, items, n
    <2> QED BY <2>1
<1>3. IsSeq(packed)
    <2>1. \A hints, p : IsSeq(packs(hints, p))
        BY NoneIsSeq, OneIsSeq
    <2> HIDE DEF packs
    <2> QED BY <2>1, ConcatIsSeq
<1> HIDE DEF packed
<1>4. DOMAIN packed = 1..Len(packed) /\ Len(packed) \in Nat /\ IsSeq(rup) /\ Len(rup) \in Nat
    BY <1>3, LengthType DEF FileInv
<1>5. IsSeq(lemmas) /\ Len(lemmas) = Len(packed)
    <2>1. lemmas \in [1..Len(packed) -> Range(lemmas)]
        BY <1>4 DEF Range
    <2> HIDE DEF lemmas
    <2> QED BY <1>4, <2>1, PlacesIsSeq
<1>6. IsSeq(items) /\ Len(items) = Len(packed)
    <2>1. items \in [1..Len(packed) -> Range(items)]
        BY <1>4 DEF Range
    <2> HIDE DEF items
    <2> QED BY <1>4, <2>1, PlacesIsSeq
<1>7. ASSUME NEW i \in 1..Len(items)
      PROVE  items[i].tag = 3 /\ items[i].lemma = -(Len(rup) + i)
    <2>1. items[i] = PackLemma(Len(rup) + i, packed[i].hints)
        BY <1>4, <1>6, <1>7
    <2> HIDE DEF items
    <2> QED BY <2>1 DEF PackLemma, LemmaItem, Item
<1> HIDE DEF items, lemmas
<1>8. Announces(items, Len(rup), n)
    BY <1>4, <1>6, <1>7, AnnouncesEach
<1>9. n \in Nat
    BY <1>4
<1> HIDE DEF n
<1>10. PICK h1, c1, h2, c2, ids :
          Emit(items \o <<LemmaItem(-(n + 1), h1, c1), LemmaItem(-(n + 2), h2, c2), UnitItem(ids)>>)
    BY <1>2
<1> DEFINE more == <<LemmaItem(-(n + 1), h1, c1), LemmaItem(-(n + 2), h2, c2), UnitItem(ids)>>
<1>11. Announces(more, n, n + 2)
    BY <1>9, AnnouncesSome
<1>12. Emit(items \o more)
    BY <1>10
<1> HIDE DEF more
<1>13. Announces(items \o more, Len(rup), n + 2)
    BY <1>8, <1>11, AnnouncesBoth
<1>14. Len(rup') = n + 2
    <2>1. PICK c, d : rup' = (rup \o lemmas) \o <<c, d>>
        BY <1>1
    <2>2. IsSeq(rup \o lemmas) /\ Len(rup \o lemmas) = n
        BY <1>4, <1>5, ConcatIsSeq DEF n
    <2>3. IsSeq(<<c, d>>) /\ Len(<<c, d>>) = 2
        BY TwoIsSeq
    <2> QED BY <2>1, <2>2, <2>3, ConcatIsSeq
<1> QED BY <1>12, <1>13, <1>14 DEF Logs

(* The lemmas of the clause that is left. *)
LEMMA GLemmaLogs ==
    ASSUME FileInv, GLemma
    PROVE  Logs
<1> DEFINE n == Len(rup)
<1>1. IsSeq(rup)
    BY DEF FileInv
<1>2. \/ /\ \E c, d : rup' = rup \o <<c, d>>
         /\ \E h1, c1, h2, c2, ids :
               Emit(<<LemmaItem(-(n + 1), h1, c1), LemmaItem(-(n + 2), h2, c2), UnitItem(ids)>>)
      \/ /\ \E c : rup' = Append(rup, c)
         /\ \E h, c, ids : Emit(<<LemmaItem(-(n + 1), h, c), UnitItem(ids)>>)
    BY DEF GLemma
<1> HIDE DEF n
<1>3. \/ /\ Len(rup') = n + 2
         /\ \E h1, c1, h2, c2, ids :
               Emit(<<LemmaItem(-(n + 1), h1, c1), LemmaItem(-(n + 2), h2, c2), UnitItem(ids)>>)
      \/ /\ Len(rup') = n + 1
         /\ \E h, c, ids : Emit(<<LemmaItem(-(n + 1), h, c), UnitItem(ids)>>)
    BY <1>1, <1>2, RupLength DEF n
<1>4. n = Len(rup)
    BY DEF n
<1> QED BY <1>1, <1>3, <1>4, LogsLemmas

(* The shadow clause of the resolvent, after that with the pivot. *)
LEMMA EmitResolventLogs ==
    ASSUME FileInv, EmitResolvent
    PROVE  Logs
<1>1. IsSeq(rup)
    BY DEF FileInv
<1>2. CASE step.shadcls = <<>>
    <2>1. UNCHANGED rup /\ \E ids : Emit(<<UnitItem(ids)>>)
        BY <1>2 DEF EmitResolvent
    <2> QED BY <1>1, <2>1, LogsUnits
<1>3. CASE step.shadcls # <<>> /\ step.merged_lits # <<>>
    <2> DEFINE n == Len(rup)
               c == <<step.pivot>> \o step.shadcls
               d == step.shadcls
    <2>1. rup' = rup \o <<c>> \o <<d>>
        BY <1>3 DEF EmitResolvent
    <2>2. \E h1, c1, h2, c2 :
              Emit(<<LemmaItem(-(n + 1), h1, c1), LemmaItem(-(n + 2), h2, c2)>>)
        BY <1>3 DEF EmitResolvent
    <2> HIDE DEF c, d
    <2>3. Len(rup') = n + 2
        <3>1. IsSeq(rup \o <<c>>) /\ Len(rup \o <<c>>) = n + 1 /\ n \in Nat
            BY <1>1, OneIsSeq, ConcatIsSeq
        <3> HIDE DEF n
        <3>2. Len((rup \o <<c>>) \o <<d>>) = n + 1 + 1
            BY <3>1, OneIsSeq, ConcatIsSeq
        <3> QED BY <2>1, <3>1, <3>2
    <2> QED BY <1>1, <2>2, <2>3, LogsLemmas
<1>4. CASE step.shadcls # <<>> /\ step.merged_lits = <<>>
    <2> DEFINE n == Len(rup)
    <2>1. rup' = rup \o <<>> \o <<step.shadcls>>
        BY <1>4 DEF EmitResolvent
    <2>2. \E h, c : Emit(<<LemmaItem(-(n + 1), h, c)>>)
        BY <1>4 DEF EmitResolvent
    <2>3. Len(rup') = n + 1
        <3>1. rup \o <<>> = rup
            BY <1>1, ConcatEmptySeq DEF IsSeq
        <3> QED BY <1>1, <2>1, <3>1, RupLength
    <2> QED BY <1>1, <2>2, <2>3, LogsLemmas
<1> QED BY <1>2, <1>3, <1>4

(* Every step but the writing of the GRAT file leaves the log alone, dumps it or
   announces the lemmas that it writes. *)
LEMMA StepLogs ==
    ASSUME ControlInv, FileInv, MergedInv, pc \in Before => rup = <<>>, [Next]_vars,
           ~WriteGratProof
    PROVE  Logs
<1>1. IsSeq(rup)
    BY DEF FileInv
<1> USE DEF phaseVars, fileVars, gratVars, stepUnchanged, returnUnchanged, resultVars
<1>2. CASE UNCHANGED vars
    BY <1>2 DEF vars, Logs
<1>3. CASE ReadOnAndOn \/ FirstPass \/ VisitConstraint \/ NextSink
    BY <1>3 DEF ReadOnAndOn, FirstPass, VisitConstraint, NextSink, vars, Logs
<1>4. CASE OpenProof
    BY <1>4, OpenProofLogs
<1>5. CASE SkipLine \/ ReadReduction \/ ReadResolution \/ NextResolution
    BY <1>5 DEF SkipLine, ReadReduction, ReadResolution, NextResolution, Logs
<1>6. CASE RecordInternalAxiom \/ RecordInputClause
    BY <1>6 DEF RecordInternalAxiom, RecordInputClause, Logs
<1>7. CASE RecordInitialTerm
    <2> DEFINE n == Len(rup)
    <2>1. \E c : rup' = Append(rup, c)
        BY <1>7 DEF RecordInitialTerm
    <2>2. \E h, c : Emit(<<LemmaItem(-(n + 1), h, c)>>)
        BY <1>7 DEF RecordInitialTerm
    <2>3. Len(rup') = n + 1
        BY <1>1, <2>1, RupLength
    <2> QED BY <1>1, <2>2, <2>3, LogsLemmas
<1>8. CASE Checking \/ SamePhase \/ CachedPhase \/ NewPhase \/ KnownEflit \/ CopyParentPhases
           \/ SplitAndShadow \/ DefineG
    BY <1>8 DEF Checking, CheckResolutionStep, CheckReductionStep, SamePhase, CachedPhase, NewPhase,
                KnownEflit, CopyParentPhases, SplitAndShadow, DefineG, Logs
<1>9. CASE NewEflit
    BY <1>9, NewEflitLogs
<1>10. CASE AuxGate \/ ReduceSimple
    <2> DEFINE n == Len(rup)
    <2>1. \/ UNCHANGED <<rup, gratVars>>
          \/ /\ \E c : rup' = Append(rup, c)
             /\ \E h, c : Emit(<<LemmaItem(-(n + 1), h, c)>>)
        BY <1>10 DEF AuxGate, ReduceSimple, PackLemma
    <2>2. (\E c : rup' = Append(rup, c)) => Len(rup') = n + 1
        BY <1>1, RupLength
    <2>3. CASE UNCHANGED <<rup, gratVars>>
        BY <2>3 DEF Logs
    <2>4. CASE (\E c : rup' = Append(rup, c)) /\ \E h, c : Emit(<<LemmaItem(-(n + 1), h, c)>>)
        BY <1>1, <2>2, <2>4, LogsLemmas
    <2> QED BY <2>1, <2>3, <2>4
<1>11. CASE GLemma
    BY <1>11, GLemmaLogs
<1>12. CASE ReduceMerged
    BY <1>12, ReduceMergedLogs
<1>13. CASE PushArrays
    <2> DEFINE m == Len(step.merged)
    <2>1. PICK ids : Emit([i \in 1..m |-> UnitItem(ids[i])]) /\ UNCHANGED rup
        <3> DEFINE id(i) == LET mergedId(k) == CertId(0) - 12 * (m - (k - 1))
                            IN  <<mergedId(i) + 1, mergedId(i) + 4>>
        <3>1. Emit([i \in 1..m |-> UnitItem(id(i))]) /\ UNCHANGED rup
            BY <1>13 DEF PushArrays
        <3> DEFINE ids == [i \in 1..m |-> id(i)]
        <3> HIDE DEF id
        <3>2. [i \in 1..m |-> UnitItem(id(i))] = [i \in 1..m |-> UnitItem(ids[i])]
            OBVIOUS
        <3> QED BY <3>1, <3>2
    <2>2. m \in Nat
        <3>1. IsSeq(step.merged)
            BY <1>13 DEF PushArrays, MergedInv
        <3> QED BY <3>1, LengthType
    <2> DEFINE units == [i \in 1..m |-> UnitItem(ids[i])]
    <2>3. IsSeq(units)
        <3>1. units \in [1..m -> Range(units)]
            BY DEF Range
        <3> HIDE DEF units
        <3> QED BY <2>2, <3>1, PlacesIsSeq
    <2>4. LemmaItems(units) = {}
        BY DEF LemmaItems, UnitItem, Item
    <2>5. Emit(units)
        BY <2>1
    <2> HIDE DEF units
    <2> QED BY <1>1, <2>1, <2>3, <2>4, <2>5, LogsUnits
<1>14. CASE EmitResolvent
    BY <1>14, EmitResolventLogs
<1>15. CASE Reroute
    BY <1>15 DEF Reroute, Logs
<1>16. CASE Returning
    BY <1>16 DEF Returning, ReturnReduction, ReturnSafetyReduction, ReturnIntermediate,
                 ReturnFinal, ReturnCrash, ReturnFailure, Logs
<1>17. CASE EndOfProof
    <2>1. UNCHANGED rup /\ \E id : Emit(<<ConflictItem(id)>>)
        BY <1>17 DEF EndOfProof
    <2> QED BY <1>1, <2>1, LogsUnits
<1>18. CASE CombineFiles
    BY <1>18 DEF CombineFiles, Logs
<1> QED
    BY <1>2, <1>3, <1>4, <1>5, <1>6, <1>7, <1>8, <1>9, <1>10, <1>11, <1>12, <1>13, <1>14, <1>15,
       <1>16, <1>17, <1>18
       DEF Next, Translate, Terminated, Preparing, ReadingLines, MergingPhases, Reducing,
           NotReducing, Finishing

-----------------------------------------------------------------------------
(* The auxiliary files, the buffer and the GRAT file *)

\* cut[i] lemmas are announced before the i-th auxiliary file; the last cut is
\* where the buffer begins, which goes on to the m-th.
IsLog(cut, m) ==
    /\ cut \in [1..(Len(aux_files) + 1) -> Nat]
    /\ cut[1] = 0
    /\ \A i \in 1..Len(aux_files) : Announces(aux_files[i], cut[i], cut[i + 1])
    /\ Announces(grat_proof, cut[Len(aux_files) + 1], m)

Closed == {"grat", "combine", "end"}

LogInv ==
    /\ IsSeq(aux_files)
    /\ pc \in Before => rup = <<>>
    /\ pc \notin Closed => grat = <<>> /\ \E cut : IsLog(cut, Len(rup))
    /\ pc = "grat" => \E cut, m : IsLog(cut, m) /\ FileAnnounces(grat, m, Len(rup), CertId(0))
    /\ pc \in {"combine", "end"} => grat = <<>> \/ FileAnnounces(grat, 0, Len(rup), CertId(0))

(* Nothing is announced at the start. *)
LEMMA LogInit == Init => LogInv
<1> SUFFICES ASSUME Init PROVE LogInv
    OBVIOUS
<1> DEFINE cut == [i \in {1} |-> 0]
<1>1. /\ aux_files = <<>> /\ grat_proof = <<>> /\ grat = <<>> /\ rup = <<>> /\ pc = "start"
      /\ Len(<<>>) = 0 /\ IsSeq(<<>>)
    BY NoneIsSeq DEF Init, PhaseInit, GratInit
<1>2. Announces(<<>>, 0, 0)
    BY AnnouncesUnit
<1>3. cut \in [1..1 -> Nat] /\ cut[1] = 0
    OBVIOUS
<1> HIDE DEF cut
<1>4. IsLog(cut, 0)
    BY <1>1, <1>2, <1>3 DEF IsLog
<1> QED BY <1>1, <1>4 DEF LogInv, Closed, Before

(* What is announced is appended to the buffer. *)
LEMMA EmitLog ==
    ASSUME IsSeq(aux_files), NEW cut, NEW m, NEW k, NEW items, IsLog(cut, m),
           Announces(items, m, k), Emit(items)
    PROVE  IsLog(cut, k)'
<1>1. Announces(grat_proof \o items, cut[Len(aux_files) + 1], k)
    BY AnnouncesBoth DEF IsLog
<1> QED BY <1>1 DEF IsLog, Emit

(* The buffer becomes the newest auxiliary file. *)
LEMMA DumpLog ==
    ASSUME IsSeq(aux_files), NEW cut, NEW m, IsLog(cut, m), EmitAndDump(<<>>)
    PROVE  IsSeq(aux_files') /\ \E c : IsLog(c, m)'
<1> DEFINE len == Len(aux_files)
<1>1. len \in Nat /\ DOMAIN aux_files = 1..len
    BY LengthType
<1>2. /\ cut \in [1..(len + 1) -> Nat] /\ cut[1] = 0
      /\ \A i \in 1..len : Announces(aux_files[i], cut[i], cut[i + 1])
      /\ Announces(grat_proof, cut[len + 1], m)
    BY DEF IsLog
<1>3. m \in Nat /\ IsSeq(grat_proof)
    BY <1>2 DEF Announces
<1>4. grat_proof \o <<>> = grat_proof
    BY <1>3, ConcatEmptySeq DEF IsSeq
<1>5. CASE UNCHANGED <<aux_files, grat_proof>>
    BY <1>5 DEF IsLog
<1>6. CASE aux_files' = Append(aux_files, grat_proof) /\ grat_proof' = <<>>
    <2>1. aux_files' = aux_files \o <<grat_proof>>
        BY <1>6, AppendIsSeq
    <2>2. /\ IsSeq(aux_files') /\ Len(aux_files') = len + 1
          /\ \A i \in 1..len : aux_files'[i] = aux_files[i]
          /\ aux_files'[len + 1] = grat_proof
        <3>1. IsSeq(<<grat_proof>>) /\ Len(<<grat_proof>>) = 1 /\ <<grat_proof>>[1] = grat_proof
            BY OneIsSeq
        <3> DEFINE t == aux_files \o <<grat_proof>>
        <3>2. /\ IsSeq(t) /\ Len(t) = len + 1
              /\ \A i \in 1..len : t[i] = aux_files[i]
              /\ \A i \in 1..1 : t[len + i] = <<grat_proof>>[i]
            BY <3>1, ConcatIsSeq
        <3> HIDE DEF t
        <3>3. t[len + 1] = <<grat_proof>>[1]
            BY <3>2
        <3>4. aux_files' = t
            BY <2>1 DEF t
        <3> HIDE DEF len
        <3> QED BY <3>1, <3>2, <3>3, <3>4
    <2> HIDE DEF len
    <2>3. PICK more \in [1..(len + 2) -> Nat] :
              (\A i \in 1..(len + 1) : more[i] = cut[i]) /\ more[len + 2] = m
        <3> DEFINE c == [i \in 1..(len + 2) |-> IF i <= len + 1 THEN cut[i] ELSE m]
        <3>1. /\ c \in [1..(len + 2) -> Nat]
              /\ \A i \in 1..(len + 1) : c[i] = cut[i]
              /\ c[len + 2] = m
            BY <1>1, <1>2, <1>3
        <3> HIDE DEF c
        <3> QED BY <3>1
    <2>4. Len(aux_files') + 1 = len + 2
        BY <1>1, <2>2
    <2>5. more[1] = 0
        BY <1>1, <1>2, <2>3
    <2>6. ASSUME NEW i \in 1..(len + 1)
          PROVE  Announces(aux_files'[i], more[i], more[i + 1])
        <3>1. CASE i \in 1..len
            <4>1. /\ aux_files'[i] = aux_files[i] /\ more[i] = cut[i] /\ more[i + 1] = cut[i + 1]
                BY <1>1, <2>2, <2>3, <3>1
            <4> QED BY <1>2, <3>1, <4>1
        <3>2. CASE i = len + 1
            <4>1. aux_files'[i] = grat_proof /\ more[i] = cut[len + 1] /\ more[i + 1] = m
                <5>1. len + 1 \in 1..(len + 1) /\ i + 1 = len + 2
                    BY <1>1, <3>2
                <5> QED BY <2>2, <2>3, <3>2, <5>1
            <4> QED BY <1>2, <4>1
        <3> QED BY <1>1, <3>1, <3>2
    <2>7. Announces(grat_proof', more[len + 2], m)
        BY <1>3, <1>6, <2>3, AnnouncesUnit
    <2>8. IsLog(more, m)'
        BY <2>2, <2>3, <2>4, <2>5, <2>6, <2>7 DEF IsLog
    <2> QED BY <2>2, <2>8
<1> QED BY <1>4, <1>5, <1>6 DEF EmitAndDump

(* A buffer goes to the file, and the newest auxiliary file takes its place. *)
LEMMA WriteLog ==
    ASSUME FileInv, IsSeq(aux_files), NEW cut, NEW m, NEW k, NEW total \in Nat, IsLog(cut, m),
           FileAnnounces(grat, m, k, total), WriteBuffer(total)
    PROVE  /\ IsSeq(aux_files')
           /\ aux_files = <<>> => FileAnnounces(grat', 0, k, total)
           /\ aux_files # <<>> => \E c, n : IsLog(c, n)' /\ FileAnnounces(grat', n, k, total)
<1> DEFINE len == Len(aux_files)
<1>1. len \in Nat /\ DOMAIN aux_files = 1..len
    BY LengthType
<1>2. /\ cut \in [1..(len + 1) -> Nat] /\ cut[1] = 0
      /\ \A i \in 1..len : Announces(aux_files[i], cut[i], cut[i + 1])
      /\ Announces(grat_proof, cut[len + 1], m)
    BY DEF IsLog
<1>3. FileAnnounces(grat', cut[len + 1], k, total)
    <2>1. grat' = grat \o Backwards(grat_proof, total)
        BY DEF WriteBuffer
    <2>2. FileAnnounces(Backwards(grat_proof, total), cut[len + 1], m, total)
        BY <1>2, BackwardsAnnounces
    <2> HIDE DEF len
    <2> QED BY <2>1, <2>2, FileAnnouncesBoth
<1>4. CASE aux_files = <<>>
    <2>1. len + 1 = 1 /\ UNCHANGED aux_files
        BY <1>4, NoneIsSeq DEF WriteBuffer
    <2> HIDE DEF len
    <2> QED BY <1>2, <1>3, <1>4, <2>1
<1>5. CASE aux_files # <<>>
    <2>1. grat_proof' = aux_files[len] /\ aux_files' = SubSeq(aux_files, 1, len - 1)
        BY <1>5 DEF WriteBuffer, Last, Front
    <2>2. len >= 1
        <3>1. aux_files \in Seq(Range(aux_files))
            BY DEF IsSeq
        <3>2. len # 0
            BY <1>5, <3>1, EmptySeq
        <3> QED BY <1>1, <3>2
    <2>3. /\ IsSeq(aux_files') /\ Len(aux_files') = len - 1
          /\ \A i \in 1..(len - 1) : aux_files'[i] = aux_files[i]
        <3>1. aux_files \in Seq(Range(aux_files))
            BY DEF IsSeq
        <3> DEFINE t == SubSeq(aux_files, 1, len - 1)
        <3>2. \A i \in 1..(len - 1) : aux_files[i] \in Range(aux_files)
            BY <1>1 DEF Range
        <3>3. len - 1 \in Int /\ len - 1 - 1 + 1 = len - 1 /\ (~(1 <= len - 1) => len - 1 = 0)
            BY <1>1, <2>2
        <3>4. /\ t \in Seq(Range(aux_files))
              /\ Len(t) = (IF 1 <= len - 1 THEN len - 1 - 1 + 1 ELSE 0)
              /\ \A i \in 1..(len - 1 - 1 + 1) : t[i] = aux_files[1 + i - 1]
            BY <3>1, <3>2, <3>3, SubSeqProperties
        <3>5. aux_files' = t
            BY <2>1
        <3> HIDE DEF t, len
        <3>6. IsSeq(t)
            BY <3>4, SeqIsSeq
        <3>7. \A i \in 1..(len - 1) : 1 + i - 1 = i
            BY <1>1
        <3> QED BY <3>3, <3>4, <3>5, <3>6, <3>7
    <2> HIDE DEF len
    <2>4. PICK less \in [1..len -> Nat] : \A i \in 1..len : less[i] = cut[i]
        <3>1. [i \in 1..len |-> cut[i]] \in [1..len -> Nat]
            BY <1>1, <1>2
        <3> QED BY <3>1
    <2>9. PICK n : n = cut[len + 1]
        OBVIOUS
    <2>5. Len(aux_files') + 1 = len /\ less[1] = 0
        BY <1>1, <1>2, <2>2, <2>3, <2>4
    <2>6. ASSUME NEW i \in 1..Len(aux_files')
          PROVE  Announces(aux_files'[i], less[i], less[i + 1])
        <3>1. /\ i \in 1..len /\ i \in 1..(len - 1) /\ i + 1 \in 1..len
            BY <1>1, <2>3
        <3>2. aux_files'[i] = aux_files[i] /\ less[i] = cut[i] /\ less[i + 1] = cut[i + 1]
            BY <2>3, <2>4, <3>1
        <3> QED BY <1>2, <3>1, <3>2
    <2>7. Announces(grat_proof', less[len], n)
        BY <1>1, <1>2, <2>1, <2>2, <2>4, <2>9
    <2>8. IsLog(less, n)'
        BY <2>4, <2>5, <2>6, <2>7 DEF IsLog
    <2> QED BY <1>3, <1>5, <2>3, <2>8, <2>9
<1> QED BY <1>4, <1>5

(* Every step keeps the log in order. *)
LEMMA LogNext == ControlInv /\ VarInv /\ FileInv /\ MergedInv /\ LogInv /\ [Next]_vars => LogInv'
<1> SUFFICES ASSUME ControlInv, VarInv, FileInv, MergedInv, LogInv, [Next]_vars PROVE LogInv'
    OBVIOUS
<1>1. IsSeq(aux_files) /\ IsSeq(rup)
    BY DEF LogInv, FileInv
<1>2. ASSUME UNCHANGED <<pc, rup, gratVars, num_cnf_clauses, num_clauses>> PROVE LogInv'
    BY <1>2 DEF LogInv, IsLog, gratVars, CertId
<1>3. ASSUME pc \notin Closed, Logs, pc' \in Before => UNCHANGED rup
      PROVE  /\ IsSeq(aux_files') /\ grat' = <<>> /\ \E cut : IsLog(cut, Len(rup))'
    <2>1. PICK cut : IsLog(cut, Len(rup))
        BY <1>3 DEF LogInv
    <2>2. grat' = <<>>
        BY <1>3 DEF LogInv, Logs, Emit, EmitAndDump, gratVars
    <2>3. CASE UNCHANGED <<rup, gratVars>>
        BY <1>1, <2>1, <2>2, <2>3 DEF gratVars, IsLog
    <2>4. CASE UNCHANGED rup /\ EmitAndDump(<<>>)
        <3>1. IsSeq(aux_files') /\ \E c : IsLog(c, Len(rup))'
            BY <1>1, <2>1, <2>4, DumpLog
        <3> QED BY <2>2, <2>4, <3>1
    <2>5. ASSUME NEW items, Announces(items, Len(rup), Len(rup')), Emit(items)
          PROVE  IsSeq(aux_files') /\ IsLog(cut, Len(rup))'
        <3>1. PICK n, k : n = Len(rup) /\ k = Len(rup')
            OBVIOUS
        <3>2. IsLog(cut, n) /\ Announces(items, n, k)
            BY <2>1, <2>5, <3>1
        <3>3. IsLog(cut, k)'
            BY <1>1, <2>5, <3>2, EmitLog
        <3> QED BY <1>1, <2>5, <3>1, <3>3 DEF Emit
    <2> QED BY <1>3, <2>2, <2>3, <2>4, <2>5 DEF Logs
<1>4. CASE UNCHANGED vars
    BY <1>2, <1>4 DEF vars, phaseVars, fileVars
<1>5. CASE WriteGratProof
    <2>1. /\ pc = "grat" /\ pc' = IF aux_files = <<>> THEN "combine" ELSE "grat"
          /\ UNCHANGED <<rup, num_cnf_clauses, num_clauses>> /\ WriteBuffer(CertId(0))
        BY <1>5 DEF WriteGratProof, fileVars
    <2>2. PICK total : total = CertId(0)
        OBVIOUS
    <2>3. PICK k : k = Len(rup)
        OBVIOUS
    <2>4. total \in Nat /\ total = CertId(0)' /\ k = Len(rup')
        <3>1. num_cnf_clauses \in Nat /\ num_clauses \in Nat
            BY LengthType DEF VarInv, FileInv
        <3> QED BY <2>1, <2>2, <2>3, <3>1 DEF CertId
    <2>5. PICK cut, m : IsLog(cut, m) /\ FileAnnounces(grat, m, k, total)
        BY <2>1, <2>2, <2>3 DEF LogInv
    <2>6. /\ IsSeq(aux_files')
          /\ aux_files = <<>> => FileAnnounces(grat', 0, k, total)
          /\ aux_files # <<>> => \E c, n : IsLog(c, n)' /\ FileAnnounces(grat', n, k, total)
        BY <1>1, <2>1, <2>2, <2>4, <2>5, WriteLog
    <2>7. CASE aux_files = <<>>
        BY <2>1, <2>4, <2>6, <2>7 DEF LogInv, Before, Closed
    <2>8. CASE aux_files # <<>>
        BY <2>1, <2>4, <2>6, <2>8 DEF LogInv, Before, Closed
    <2> QED BY <2>7, <2>8
<1>6. CASE EndOfProof
    <2>1. pc = "line" /\ pc' = "grat" /\ UNCHANGED rup
        BY <1>6 DEF EndOfProof, fileVars
    <2>2. Logs
        BY <1>6, <2>1, StepLogs DEF LogInv, WriteGratProof
    <2>3. IsSeq(aux_files') /\ grat' = <<>> /\ \E cut : IsLog(cut, Len(rup))'
        BY <1>3, <2>1, <2>2 DEF Closed
    <2>4. FileAnnounces(<<>>, Len(rup'), Len(rup'), CertId(0)')
        <3>1. IsSeq(<<>>) /\ LemmaItems(<<>>) = {} /\ Len(rup') \in Nat
            BY <1>1, <2>1, NoneIsSeq, LengthType DEF LemmaItems
        <3> QED BY <3>1 DEF FileAnnounces
    <2> QED BY <2>1, <2>3, <2>4 DEF LogInv, Before, Closed
<1>7. CASE CombineFiles
    <2>1. pc = "combine" /\ pc' = "end" /\ UNCHANGED <<rup, gratVars, num_cnf_clauses, num_clauses>>
        BY <1>7 DEF CombineFiles, phaseVars, fileVars
    <2> QED BY <1>1, <2>1 DEF LogInv, gratVars, Before, Closed, CertId
<1>8. ASSUME pc \notin Closed, pc' \notin {"grat", "combine"}, Logs, pc' \in Before => UNCHANGED rup,
             pc' \in Before => pc \in Before
      PROVE  LogInv'
    <2>1. IsSeq(aux_files') /\ grat' = <<>> /\ \E cut : IsLog(cut, Len(rup))'
        BY <1>3, <1>8
    <2> QED BY <1>8, <2>1 DEF LogInv, Closed
<1>9. CASE Preparing
    <2>1. \/ UNCHANGED vars
          \/ pc \in Before /\ pc' \in Before /\ UNCHANGED rup
          \/ pc \in Before /\ pc' \in {"line", "end"}
        BY <1>9 DEF Preparing, ReadOnAndOn, FirstPass, VisitConstraint, NextSink, OpenProof,
                    SearchDone, fileVars, phaseVars, Before
    <2>2. CASE pc \in Before
        <3>1. Logs
            BY <2>2, StepLogs DEF LogInv, WriteGratProof, Before
        <3> QED BY <1>4, <1>8, <2>1, <2>2, <3>1 DEF Before, Closed
    <2> QED BY <1>4, <2>1, <2>2
<1>10. CASE ReadingLines \/ Checking \/ MergingPhases \/ Reducing \/ NotReducing \/ Returning
    <2>1. pc \notin Closed \cup Before /\ pc' \notin Before \cup {"grat", "combine"}
        <3> USE DEF Closed, Before
        <3>1. CASE ReadingLines
            BY <3>1 DEF ReadingLines, ReadingLine, CoreLine, SkipLine, RecordInternalAxiom,
                        RecordInputClause, RecordInitialTerm, ReadReduction, ReadResolution,
                        NextResolution
        <3>2. CASE Checking \/ MergingPhases
            BY <3>2 DEF Checking, CheckResolutionStep, CheckReductionStep, MergingPhases, SamePhase,
                        CachedPhase, NewPhase, KnownEflit, NewEflit, RecordPhase, CopyParentPhases,
                        SplitAndShadow, Merging
        <3>3. CASE Reducing \/ NotReducing
            BY <3>3 DEF Reducing, DefineG, AuxGate, ReduceSimple, GLemma, ReduceMerged, PushArrays,
                        NotReducing, EmitResolvent, Reroute, stepUnchanged
        <3>4. CASE Returning
            BY <3>4 DEF Returning, ReturnReduction, ReturnSafetyReduction, ReturnIntermediate,
                        ReturnFinal, ReturnCrash, ReturnFailure
        <3> QED BY <1>10, <3>1, <3>2, <3>3, <3>4
    <2>2. Logs
        BY <2>1, StepLogs DEF LogInv, WriteGratProof, Closed
    <2> QED BY <1>8, <2>1, <2>2
<1> QED
    BY <1>4, <1>5, <1>6, <1>7, <1>9, <1>10 DEF Next, Translate, Terminated, Finishing

-----------------------------------------------------------------------------
(* The checker *)

\* The file has as many clauses as the numbers of the certificate count on.
NumbersFit == IsSeq(CheckedCnf) /\ Len(CheckedCnf) = CertId(0)

\* The place of the item that is checked; the items behind it are done.
place == Len(grat) + 1 - head

\* The lemmas that are done are those that have a number among the clauses.
CheckInv ==
    /\ pc # "end" => verdict = "waiting"
    /\ verdict = "waiting" => unit = 0 /\ head = 1
    /\ verdict # "waiting" => pc = "end" /\ grat # <<>>
    /\ (verdict = "checking" \/ unit # 0) /\ verdict # "waiting" /\ NumbersFit =>
        /\ head \in 1..Len(grat)
        /\ IsSeq(clauses)
        /\ Len(clauses) >= CertId(0)
        /\ \A i \in LemmaItems(grat) : grat[i].lemma <= Len(clauses) <=> i > place

(* The checker waits for the translator. *)
LEMMA CheckInit == Init /\ CheckerInit => CheckInv
BY DEF Init, CheckerInit, CheckInv

(* A step of the translator is one, and it leaves the checker alone; a step of
   the checker leaves the files alone. *)
LEMMA CheckedSteps ==
    ASSUME [CheckedNext]_allVars
    PROVE  /\ [Next]_vars
           /\ \/ Translate /\ UNCHANGED checkerVars
              \/ Check /\ UNCHANGED vars
              \/ UNCHANGED allVars
<1>1. CASE Translation
    BY <1>1 DEF Translation, Next
<1>2. CASE Check
    BY <1>2 DEF Check, StartChecker, BeginItem, Propagate, EndUnits, EndLemma, CheckConflict, SkipMode
<1>3. CASE Stop \/ UNCHANGED allVars
    BY <1>3 DEF Stop, allVars
<1> QED BY <1>1, <1>2, <1>3 DEF CheckedNext

(* The translator is not at its end before its last step. *)
LEMMA TranslatesBeforeEnd == Translate => pc # "end"
<1>1. Preparing => pc # "end"
    BY DEF Preparing, ReadOnAndOn, FirstPass, VisitConstraint, NextSink, OpenProof, SearchDone
<1>2. ReadingLines => pc # "end"
    BY DEF ReadingLines, ReadingLine, CoreLine, SkipLine, RecordInternalAxiom,
           RecordInputClause, RecordInitialTerm, ReadReduction, ReadResolution, NextResolution
<1>3. Checking \/ MergingPhases => pc # "end"
    BY DEF Checking, CheckResolutionStep, CheckReductionStep, MergingPhases, SamePhase,
           CachedPhase, NewPhase, KnownEflit, NewEflit, CopyParentPhases, SplitAndShadow, Merging
<1>4. Reducing \/ NotReducing => pc # "end"
    BY DEF Reducing, DefineG, AuxGate, ReduceSimple, GLemma, ReduceMerged, PushArrays,
           NotReducing, EmitResolvent, Reroute
<1>5. Returning => pc # "end"
    BY DEF Returning, ReturnReduction, ReturnSafetyReduction, ReturnIntermediate,
           ReturnFinal, ReturnCrash, ReturnFailure
<1>6. Finishing => pc # "end"
    BY DEF Finishing, EndOfProof, WriteGratProof, CombineFiles
<1> QED BY <1>1, <1>2, <1>3, <1>4, <1>5, <1>6 DEF Translate

\* The item that is checked announces the clause that comes next: those behind it
\* have their numbers already, and one before it has a greater one.
Announced ==
    /\ head \in 1..Len(grat)
    /\ IsSeq(clauses)
    /\ Len(clauses) >= CertId(0)
    /\ \A i \in LemmaItems(grat) : grat[i].lemma <= Len(clauses) <=> i > place

(* So it is when the file announces all lemmas in order. *)
LEMMA NextIsAnnounced ==
    ASSUME FileInv, VarInv, Announced, NEW n, n = Len(rup), FileAnnounces(grat, 0, n, CertId(0)),
           item.tag = 3
    PROVE  /\ item.lemma = Len(clauses) + 1
           /\ \A i \in LemmaItems(grat) : grat[i].lemma <= Len(clauses) + 1 <=> i >= place
<1> DEFINE total == CertId(0)
           len == Len(clauses)
           done(i) == grat[i].lemma <= len
<1>1. /\ IsSeq(grat) /\ Len(grat) \in Nat /\ DOMAIN grat = 1..Len(grat)
      /\ len \in Nat /\ n \in Nat /\ total \in Nat
    BY LengthType DEF FileAnnounces, Announced, FileInv, VarInv, CertId
<1>2. place \in LemmaItems(grat) /\ item = grat[place] /\ place \in Nat
    BY <1>1 DEF Announced, LemmaItems, place, item
<1>3. LemmaItems(grat) \subseteq Nat
    BY <1>1 DEF LemmaItems
<1>4. /\ \A i \in LemmaItems(grat) : grat[i].lemma \in (total + 0 + 1)..(total + n)
      /\ \A k \in (0 + 1)..n : \E i \in LemmaItems(grat) : grat[i].lemma = total + k
      /\ \A i, j \in LemmaItems(grat) : i < j => grat[j].lemma < grat[i].lemma
    BY DEF FileAnnounces
<1>5. len >= total /\ \A i \in LemmaItems(grat) : grat[i].lemma <= len <=> i > place
    BY DEF Announced
<1> DEFINE mine == grat[place].lemma
<1>6. mine \in (total + 1)..(total + n) /\ mine > len
    BY <1>1, <1>2, <1>4, <1>5
<1>7. mine = len + 1
    <2> SUFFICES ASSUME mine > len + 1 PROVE FALSE
        BY <1>1, <1>6
    <2>1. len + 1 - total \in (0 + 1)..n
        BY <1>1, <1>5, <1>6
    <2>2. PICK i \in LemmaItems(grat) : grat[i].lemma = total + (len + 1 - total)
        BY <1>4, <2>1
    <2>3. grat[i].lemma = len + 1
        BY <1>1, <2>2
    <2>4. i \in Nat /\ ~(i > place) /\ i # place
        BY <1>1, <1>3, <1>5, <2>3
    <2>5. i < place
        BY <1>2, <2>4
    <2>6. mine < grat[i].lemma
        BY <1>2, <1>4, <2>5
    <2> QED BY <1>1, <1>6, <2>3, <2>6
<1>8. ASSUME NEW i \in LemmaItems(grat) PROVE grat[i].lemma <= len + 1 <=> i >= place
    <2>1. i \in Nat /\ grat[i].lemma \in Int
        BY <1>1, <1>3, <1>4
    <2>2. CASE i > place
        BY <1>1, <1>2, <1>5, <2>1, <2>2
    <2>3. CASE i = place
        BY <1>1, <1>2, <1>7, <2>1, <2>3
    <2>4. CASE i < place
        <3>1. mine < grat[i].lemma
            BY <1>2, <1>4, <2>4
        <3> QED BY <1>1, <1>2, <1>7, <2>1, <2>4, <3>1
    <2> QED BY <1>2, <2>1, <2>2, <2>3, <2>4
<1> QED BY <1>2, <1>7, <1>8

(* The item is done, and the checker goes on to the one before it. *)
LEMMA CheckNext == FileInv /\ VarInv /\ LogInv /\ CheckInv /\ [CheckedNext]_allVars => CheckInv'
<1> SUFFICES ASSUME FileInv, VarInv, LogInv, CheckInv, [CheckedNext]_allVars PROVE CheckInv'
    OBVIOUS
<1>1. CASE UNCHANGED allVars
    BY <1>1 DEF allVars, vars, checkerVars, phaseVars, gratVars, readVars, inputVars, resultVars, fileVars,
                CheckInv, NumbersFit, CheckedCnf, PaddedCnf, CertId, TrueFormula, place
<1>2. CASE Translate /\ UNCHANGED checkerVars
    BY <1>2, TranslatesBeforeEnd DEF checkerVars, CheckInv
<1>3. CASE Check /\ UNCHANGED vars
    <2>1. UNCHANGED <<pc, grat, rup, NumbersFit, CertId(0), CheckedCnf>>
        BY <1>3 DEF vars, phaseVars, gratVars, readVars, inputVars, resultVars, fileVars, NumbersFit,
                    CheckedCnf, PaddedCnf, CertId, TrueFormula
    <2>2. pc = "end" /\ grat # <<>>
        BY <1>3 DEF Check, StartChecker, BeginItem, Propagate, EndUnits, EndLemma,
                    CheckConflict, SkipMode, CheckInv
    <2>3. PICK n : n = Len(rup)
        OBVIOUS
    <2>4. FileAnnounces(grat, 0, n, CertId(0))
        BY <2>2, <2>3 DEF LogInv
    <2>5. /\ IsSeq(grat) /\ Len(grat) \in Nat /\ Len(grat) # 0 /\ LemmaItems(grat) \subseteq 1..Len(grat)
          /\ CertId(0) \in Nat
          /\ \A i \in LemmaItems(grat) : grat[i].lemma \in Int /\ grat[i].lemma > CertId(0)
        <3>1. IsSeq(grat) /\ Len(grat) \in Nat /\ DOMAIN grat = 1..Len(grat)
            BY <2>4, LengthType DEF FileAnnounces
        <3>2. Len(grat) # 0
            BY <2>2, <3>1, EmptySeq DEF IsSeq
        <3>3. CertId(0) \in Nat /\ n \in Nat
            BY <2>3, LengthType DEF FileInv, VarInv, CertId
        <3>4. \A i \in LemmaItems(grat) : grat[i].lemma \in (CertId(0) + 0 + 1)..(CertId(0) + n)
            BY <2>4 DEF FileAnnounces
        <3> QED BY <3>1, <3>2, <3>3, <3>4 DEF LemmaItems
    <2>6. ASSUME head' = head, clauses' = clauses, verdict = "checking" \/ unit # 0,
                 verdict # "waiting", verdict' # "waiting"
          PROVE  CheckInv'
        BY <2>1, <2>2, <2>6 DEF CheckInv, place
    <2>7. ASSUME head' = head + 1, unit' = 0, verdict' # "waiting", verdict = "checking",
                 verdict' = "checking" => head # Len(grat),
                 NumbersFit /\ verdict' = "checking" /\ Announced =>
                    /\ IsSeq(clauses') /\ Len(clauses') >= Len(clauses) /\ Len(clauses') \in Int
                    /\ \A i \in LemmaItems(grat) : grat[i].lemma <= Len(clauses') <=> i >= place
          PROVE  CheckInv'
        <3> SUFFICES ASSUME verdict' = "checking", NumbersFit
                     PROVE  /\ head + 1 \in 1..Len(grat)
                            /\ IsSeq(clauses')
                            /\ Len(clauses') >= CertId(0)
                            /\ \A i \in LemmaItems(grat) :
                                  grat[i].lemma <= Len(clauses') <=> i > Len(grat) + 1 - (head + 1)
            BY <2>1, <2>2, <2>7 DEF CheckInv, place
        <3>1. Announced
            BY <2>7 DEF CheckInv, Announced
        <3>2. head \in 1..Len(grat) /\ head # Len(grat)
            BY <2>7, <3>1 DEF Announced
        <3>3. Len(clauses) >= CertId(0) /\ Len(clauses) \in Nat
            BY <3>1, LengthType DEF Announced
        <3>4. place = Len(grat) + 1 - head
            BY DEF place
        <3>5. /\ IsSeq(clauses') /\ Len(clauses') >= Len(clauses) /\ Len(clauses') \in Int
              /\ \A i \in LemmaItems(grat) : grat[i].lemma <= Len(clauses') <=> i >= place
            BY <2>7, <3>1
        <3>6. Len(clauses') >= CertId(0)
            BY <2>5, <3>3, <3>5
        <3>7. ASSUME NEW i \in LemmaItems(grat)
              PROVE  grat[i].lemma <= Len(clauses') <=> i > Len(grat) + 1 - (head + 1)
            <4>1. i \in Nat /\ Len(grat) \in Nat /\ head \in Nat
                BY <2>5, <3>2
            <4>2. i >= place <=> i > Len(grat) + 1 - (head + 1)
                BY <3>4, <4>1
            <4> QED BY <3>5, <4>2
        <3> QED BY <2>5, <3>2, <3>5, <3>6, <3>7
    <2>8. CASE StartChecker
        <3> SUFFICES ASSUME NumbersFit
                     PROVE  /\ head \in 1..Len(grat)
                            /\ IsSeq(CheckedCnf)
                            /\ Len(CheckedCnf) >= CertId(0)
                            /\ \A i \in LemmaItems(grat) :
                                  grat[i].lemma <= Len(CheckedCnf) <=> i > Len(grat) + 1 - head
            BY <2>1, <2>2, <2>8 DEF CheckInv, StartChecker, place
        <3>1. head = 1 /\ IsSeq(CheckedCnf) /\ Len(CheckedCnf) = CertId(0)
            BY <2>8 DEF StartChecker, CheckInv, NumbersFit
        <3> QED BY <2>5, <3>1
    <2>9. CASE BeginItem \/ Propagate
        BY <2>6, <2>9 DEF BeginItem, Propagate
    <2>10. CASE EndUnits \/ CheckConflict \/ SkipMode
        <3>1. /\ head' = head + 1 /\ unit' = 0 /\ verdict = "checking" /\ verdict' # "waiting"
              /\ verdict' = "checking" => head # Len(grat)
              /\ clauses' = clauses /\ item.tag # 3
            BY <2>10 DEF EndUnits, CheckConflict, SkipMode, EndOfItem
        <3>2. ASSUME Announced
              PROVE  /\ IsSeq(clauses) /\ Len(clauses) \in Nat
                     /\ \A i \in LemmaItems(grat) : grat[i].lemma <= Len(clauses) <=> i >= place
            <4>1. IsSeq(clauses) /\ Len(clauses) \in Nat /\ head \in 1..Len(grat)
                  /\ \A i \in LemmaItems(grat) : grat[i].lemma <= Len(clauses) <=> i > place
                BY <3>2, LengthType DEF Announced
            <4>2. place \notin LemmaItems(grat)
                BY <3>1 DEF LemmaItems, place, item
            <4>3. \A i \in LemmaItems(grat) : i >= place <=> i > place
                BY <2>5, <4>1, <4>2 DEF place
            <4> QED BY <4>1, <4>3
        <3> QED BY <2>7, <3>1, <3>2
    <2>11. CASE EndLemma
        <3> DEFINE ok == IsEmpty(item.conflict)
        <3>1. /\ head' = head + 1 /\ unit' = 0 /\ verdict = "checking" /\ verdict' # "waiting"
              /\ verdict' = "checking" => head # Len(grat) /\ clauses' = Append(clauses, Lemma)
              /\ item.tag = 3
            BY <2>11 DEF EndLemma, EndOfItem
        <3>2. ASSUME Announced, verdict' = "checking"
              PROVE  /\ IsSeq(clauses') /\ Len(clauses') = Len(clauses) + 1 /\ Len(clauses) \in Nat
                     /\ \A i \in LemmaItems(grat) : grat[i].lemma <= Len(clauses') <=> i >= place
            <4>1. IsSeq(clauses)
                BY <3>2 DEF Announced
            <4>2. clauses' = clauses \o <<Lemma>>
                BY <3>1, <3>2, <4>1, AppendIsSeq
            <4>3. /\ IsSeq(clauses') /\ Len(clauses') = Len(clauses) + 1 /\ Len(clauses) \in Nat
                BY <4>1, <4>2, OneIsSeq, ConcatIsSeq
            <4>4. \A i \in LemmaItems(grat) : grat[i].lemma <= Len(clauses) + 1 <=> i >= place
                BY <2>3, <2>4, <3>1, <3>2, NextIsAnnounced
            <4> QED BY <4>3, <4>4
        <3> QED BY <2>7, <3>1, <3>2
    <2> QED BY <1>3, <2>8, <2>9, <2>10, <2>11 DEF Check
<1> QED BY <1>1, <1>2, <1>3, CheckedSteps

-----------------------------------------------------------------------------
\* All that is known of the translator and the checker.
AnnounceInv == MapInv /\ MergedInv /\ LogInv /\ CheckInv

(* The lemma that an item of the GRAT file announces is the next clause of the RUP
   file, by its number behind the clauses of the CNF: for every proof, correct or not,
   whose CNF file is as long as the numbers count on. *)
THEOREM LemmasAreInOrder == CheckedSpec => [](NumbersFit => LemmasNumberedInOrder)
<1>1. AnnounceInv => (NumbersFit => LemmasNumberedInOrder)
    <2> SUFFICES ASSUME AnnounceInv, NumbersFit, unit # 0, item.tag = 3
                 PROVE  item.lemma = Len(clauses) + 1
        BY DEF LemmasNumberedInOrder
    <2>1. pc = "end" /\ grat # <<>> /\ Announced
        BY DEF AnnounceInv, CheckInv, Announced
    <2>2. PICK n : n = Len(rup)
        OBVIOUS
    <2>3. FileAnnounces(grat, 0, n, CertId(0)) /\ FileInv /\ VarInv
        BY <2>1, <2>2 DEF AnnounceInv, LogInv, MapInv
    <2> QED BY <2>1, <2>2, <2>3, NextIsAnnounced
<1>2. Init /\ CheckerInit => AnnounceInv
    BY MapInit, LogInit, CheckInit DEF AnnounceInv, MergedInv, Init
<1>3. AnnounceInv /\ [CheckedNext]_allVars => AnnounceInv'
    <2> SUFFICES ASSUME AnnounceInv, [CheckedNext]_allVars PROVE AnnounceInv'
        OBVIOUS
    <2>1. [Next]_vars
        BY CheckedSteps
    <2> QED BY <2>1, MapNext, MergedNext, LogNext, CheckNext DEF AnnounceInv, MapInv
<1> QED BY <1>1, <1>2, <1>3, PTL DEF CheckedSpec

-----------------------------------------------------------------------------
(* The numbers *)

\* A formula that is not true is counted, and then the axioms of the proof, too.
FormulaInv ==
    /\ pc = "start" => num_cnf_clauses = 0
    /\ pc # "start" /\ input.have_formula /\ ~TrueFormula =>
        num_cnf_clauses >= Len(input.matrix) \/ (pc = "end" /\ cnf = <<>>)

(* Nothing is counted at the start. *)
LEMMA FormulaInit == Init => FormulaInv
BY DEF Init, PhaseInit, FormulaInv

(* The first pass only adds to the number. *)
LEMMA FormulaNext == ControlInv /\ VarInv /\ EndInv /\ FormulaInv /\ [Next]_vars => FormulaInv'
<1> SUFFICES ASSUME ControlInv, VarInv, EndInv, FormulaInv, [Next]_vars PROVE FormulaInv'
    OBVIOUS
<1>1. input \in Inputs /\ num_cnf_clauses \in Nat
    BY DEF ControlInv, VarInv
<1>2. Len(input.matrix) \in Nat
    BY <1>1, InputAssumption
<1>3. CASE UNCHANGED vars
    BY <1>3 DEF vars, phaseVars, readVars, inputVars, resultVars, FormulaInv, TrueFormula
<1>4. ASSUME pc \notin {"start", "end"}, pc' # "start", UNCHANGED <<input, num_cnf_clauses>>
      PROVE  FormulaInv'
    BY <1>4 DEF FormulaInv, TrueFormula
<1>5. CASE FirstPass
    <2>1. /\ pc = "start" /\ UNCHANGED <<input, cnf>>
          /\ \/ pc' = "end"
             \/ num_cnf_clauses' = IF TrueFormula THEN EncodingSize(input.matrix)
                                   ELSE IF input.have_formula THEN Len(input.matrix) ELSE 0
          /\ pc' # "start"
        BY <1>5 DEF FirstPass
    <2>2. cnf' = <<>> /\ TrueFormula' = TrueFormula
        BY <2>1 DEF EndInv, TrueFormula
    <2> QED BY <1>2, <2>1, <2>2 DEF FormulaInv
<1>6. CASE VisitConstraint
    BY <1>1, <1>2, <1>6 DEF VisitConstraint, searchUnchanged, FormulaInv, TrueFormula
<1>7. CASE NextSink \/ OpenProof
    BY <1>4, <1>7 DEF NextSink, OpenProof, SearchDone, searchUnchanged, phaseVars
<1>8. CASE pc \notin Before
    <2>1. UNCHANGED <<input, num_cnf_clauses>> /\ pc' # "start"
        BY <1>8, CountStays, LineNext DEF LineStep, inputVars, Before
    <2>2. CASE pc = "end"
        BY <1>3, <2>2, TranslatesBeforeEnd DEF Next, Terminated
    <2> QED BY <1>4, <1>8, <2>1, <2>2 DEF Before
<1>9. CASE pc \in Before /\ Preparing
    BY <1>3, <1>5, <1>6, <1>7, <1>9 DEF Preparing, ReadOnAndOn
<1>10. pc \in Before /\ Translate => Preparing
    <2> SUFFICES ASSUME pc \in Before, Translate, ~Preparing PROVE FALSE
        OBVIOUS
    <2> USE DEF Before
    <2>1. CASE ReadingLines
        BY <2>1 DEF ReadingLines, ReadingLine, CoreLine, SkipLine, RecordInternalAxiom,
                    RecordInputClause, RecordInitialTerm, ReadReduction, ReadResolution, NextResolution
    <2>2. CASE Checking \/ MergingPhases
        BY <2>2 DEF Checking, CheckResolutionStep, CheckReductionStep, MergingPhases, SamePhase,
                    CachedPhase, NewPhase, KnownEflit, NewEflit, CopyParentPhases, SplitAndShadow, Merging
    <2>3. CASE Reducing \/ NotReducing
        BY <2>3 DEF Reducing, DefineG, AuxGate, ReduceSimple, GLemma, ReduceMerged, PushArrays,
                    NotReducing, EmitResolvent, Reroute
    <2>4. CASE Returning \/ Finishing
        BY <2>4 DEF Returning, ReturnReduction, ReturnSafetyReduction, ReturnIntermediate, ReturnFinal,
                    ReturnCrash, ReturnFailure, Finishing, EndOfProof, WriteGratProof, CombineFiles
    <2> QED BY <2>1, <2>2, <2>3, <2>4 DEF Translate
<1> QED BY <1>3, <1>8, <1>9, <1>10 DEF Next, Terminated, Before

\* Every clause of the CNF file is counted, and once: of a formula that is not true
\* and is padded, or of the axioms of a proof that no two empty constraints share.
CountedOnce ==
    /\ pc = "end" /\ cnf # <<>> /\ ~TrueFormula
    /\ input.have_formula => Padded
    /\ ~input.have_formula =>
        /\ 0 \notin Range(search.sinks)
        /\ \A i \in DOMAIN axioms : Cardinality(sinks_of[axioms[i]]) = 1

(* The padding fills up what is missing. *)
LEMMA PaddingFits ==
    ASSUME VarInv, FileInv, FormulaInv, EndInv, input \in Inputs,
           pc = "end", cnf # <<>>, ~TrueFormula, input.have_formula
    PROVE  IsSeq(PaddedCnf) /\ Len(PaddedCnf) = CertId(0)
<1> DEFINE m == Len(input.matrix)
           c == Len(cert)
           len == Len(cnf)
           missing == CertId(0) - len
           pad == [i \in 1..missing |-> <<1, -1>>]
           front == SubSeq(cnf, 1, m)
           back == SubSeq(cnf, m + 1, len)
<1>1. IsSeq(input.matrix) /\ IsSeq(cert)
    BY InputAssumption, SeqIsSeq DEF FileInv
<1>2. cnf = input.matrix \o cert
    BY DEF EndInv, FormulaClauses
<1>3. IsSeq(cnf) /\ m \in Nat /\ c \in Nat /\ len = m + c
    BY <1>1, <1>2, ConcatIsSeq
<1>4. missing \in Nat
    <2>1. num_cnf_clauses \in Nat /\ num_cnf_clauses >= m /\ num_clauses = c
        BY DEF VarInv, FormulaInv, FileInv
    <2> QED BY <1>3, <2>1 DEF CertId
<1>5. PaddedCnf = front \o pad \o back
    <2>1. len - c - 0 = m
        BY <1>3
    <2> QED BY <2>1 DEF PaddedCnf
<1> DEFINE S == Range(cnf)
<1>6. cnf \in Seq(S) /\ DOMAIN cnf = 1..len
    BY <1>3 DEF IsSeq
<1> HIDE DEF m, c, len, missing
<1>7. IsSeq(front) /\ Len(front) = m
    <2>1. \A i \in 1..m : cnf[i] \in S
        BY <1>3, <1>6 DEF Range
    <2>2. front \in Seq(S) /\ Len(front) = IF 1 <= m THEN m - 1 + 1 ELSE 0
        BY <1>3, <2>1, SubSeqProperties
    <2>3. IsSeq(front)
        BY <2>2, SeqIsSeq
    <2> QED BY <1>3, <2>2, <2>3
<1>8. IsSeq(back) /\ Len(back) = c
    <2>1. \A i \in (m + 1)..len : cnf[i] \in S
        BY <1>3, <1>6 DEF Range
    <2>2. /\ back \in Seq(S)
          /\ Len(back) = IF m + 1 <= len THEN len - (m + 1) + 1 ELSE 0
        BY <1>3, <2>1, SubSeqProperties
    <2>3. IsSeq(back)
        BY <2>2, SeqIsSeq
    <2> QED BY <1>3, <2>2, <2>3
<1>9. IsSeq(pad) /\ Len(pad) = missing
    BY <1>4, PlacesIsSeq DEF Range
<1> HIDE DEF front, pad, back
<1>10. IsSeq(front \o pad) /\ Len(front \o pad) = m + missing
    BY <1>7, <1>9, ConcatIsSeq
<1>11. IsSeq((front \o pad) \o back) /\ Len((front \o pad) \o back) = m + missing + c
    BY <1>8, <1>10, ConcatIsSeq
<1>12. m + missing + c = CertId(0)
    <2>1. CertId(0) \in Int
        BY LengthType DEF CertId, VarInv, FileInv
    <2> QED BY <1>3, <2>1 DEF missing
<1> QED BY <1>5, <1>11, <1>12

(* The CNF file has as many clauses as the numbers of the certificate count on, if
   every clause is counted once. *)
THEOREM NumbersDoFit == CheckedSpec => [](CountedOnce => NumbersFit)
<1> DEFINE I == CountedInv /\ VarInv /\ FormulaInv
<1>1. I => (CountedOnce => NumbersFit)
    <2> SUFFICES ASSUME I, CountedOnce PROVE IsSeq(CheckedCnf) /\ Len(CheckedCnf) = CertId(0)
        BY DEF NumbersFit
    <2>1. /\ input \in Inputs /\ EndInv /\ FileInv
          /\ pc = "end" /\ cnf # <<>> /\ ~TrueFormula
        BY DEF CountedInv, ReadInv, ControlInv, CountedOnce
    <2>2. CASE input.have_formula
        BY <2>1, <2>2, PaddingFits DEF CheckedCnf, CountedOnce
    <2>3. CASE ~input.have_formula
        <3>1. num_cnf_clauses + Len(cert) = Len(cnf)
            BY <2>1, <2>3, VisitsAreAxioms DEF AxiomsCounted, CountedOnce
        <3>2. num_cnf_clauses \in Nat /\ num_clauses = Len(cert) /\ Len(cert) \in Nat
            BY <2>1, LengthType DEF FileInv, VarInv
        <3>3. IsSeq(cnf)
            <4>1. cnf = FormulaClauses \o cert /\ IsSeq(cert)
                BY <2>1 DEF EndInv, FileInv
            <4>2. FormulaClauses = [i \in DOMAIN axioms |-> SortedClause(Clause(axioms[i]))]
                BY <2>1, <2>3 DEF FormulaClauses
            <4>3. axioms \in Seq(Nat)
                BY <2>1, <2>3 DEF CountedInv, AxiomsInv, Before
            <4>4. IsSeq(FormulaClauses)
                <5> DEFINE g == FormulaClauses
                <5>1. Len(axioms) \in Nat /\ DOMAIN g = 1..Len(axioms) /\ g = [i \in DOMAIN g |-> g[i]]
                    BY <4>2, <4>3
                <5> HIDE DEF g
                <5>2. g \in [1..Len(axioms) -> Range(g)]
                    BY <5>1 DEF Range
                <5> QED BY <5>1, <5>2, PlacesIsSeq DEF g
            <4> QED BY <4>1, <4>4, ConcatIsSeq
        <3> QED BY <2>3, <3>1, <3>2, <3>3 DEF CheckedCnf, CertId
    <2> QED BY <2>2, <2>3
<1>2. Init => I
    BY CountedInit, VarInit, FormulaInit
<1>3. I /\ [CheckedNext]_allVars => I'
    <2> SUFFICES ASSUME I, [CheckedNext]_allVars PROVE I'
        OBVIOUS
    <2>1. [Next]_vars
        BY CheckedSteps
    <2>2. ControlInv /\ ClauseInv /\ StepInv /\ EndInv
        BY DEF CountedInv, ReadInv
    <2> QED BY <2>1, <2>2, CountedNext, VarNext, FormulaNext
<1> QED BY <1>1, <1>2, <1>3, PTL DEF CheckedSpec
===============================================================================
