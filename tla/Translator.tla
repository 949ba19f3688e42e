------------------------------ MODULE Translator ------------------------------
(***************************************************************************)
(* ProofTranslator::translate(): one pass over the proof finds its core, a *)
(* second one checks it step by step and turns every step into clauses of  *)
(* the certificate (the strategy), RUP lemmas and GRAT hints.              *)
(*                                                                         *)
(* The program is sequential.  pc says which piece of translate() or of    *)
(* translate_resolution_step() comes next; a loop of the code is an action *)
(* per iteration.  The choices are the input, a proof in Qute's format or  *)
(* in QRP together with its prefix and, possibly, the formula; and the     *)
(* values that the code reads without having set them.                     *)
(***************************************************************************)
EXTENDS PhaseTable, StepRules, CoreSearch, Matrix

CONSTANTS
    Inputs,                 \* the inputs, see InputAssumption
    PROP_PACKING_THRESHOLD,
    BitsBeyond              \* what constraint_type may hold behind its end

Line == [id : Nat \ {0}, ctype : {0, 1}, lits : SUBSET Int, parents : Seq(Nat \ {0}),
         terminated : BOOLEAN]

\* Literals are ints, and no variable is called INT_MAX.
IsLiteralSet(lits) ==
    IsFiniteSet(lits) /\ \A l \in lits : l \in Int /\ VarOf(l) \in 1..(CONST_TRUE - 1)

\* What the program takes for granted of an input: line ids are distinct and
\* ascending, and parents come before their children.  In a line whose list of
\* literals is not terminated there are no parents to read.
WellFormed(lines) ==
    /\ \A i \in DOMAIN lines : lines[i] \in Line /\ IsLiteralSet(lines[i].lits)
    /\ \A i, j \in DOMAIN lines : i < j => lines[i].id < lines[j].id
    /\ \A i \in DOMAIN lines : \A p \in Range(lines[i].parents) :
            \E j \in 1..(i - 1) : lines[j].id = p
    /\ \A i \in DOMAIN lines : ~lines[i].terminated => lines[i].parents = <<>>

ASSUME InputAssumption ==
    /\ PROP_PACKING_THRESHOLD \in Nat \ {0}
    /\ BitsBeyond \subseteq {0, 1}
    /\ \A in \in Inputs :
        /\ in.format \in {"qute", "qrp"} /\ in.result \in {"sat", "unsat", "none"}
        /\ in.lines \in Seq(Line) /\ WellFormed(in.lines)
        /\ in.prefix \in Seq([q : {"e", "a"}, vars : SUBSET Nat])
        /\ \A i \in DOMAIN in.prefix : in.prefix[i].vars \subseteq 1..(CONST_TRUE - 1)
        /\ in.matrix \in Seq(Seq(Int))
        /\ in.have_formula \in BOOLEAN

VARIABLES
    input, next, pc,
    var_data, spare_id, clause_tseitin_variables, \* results of the first pass
    constraint_type, clause_database, get_grat_id,
    num_core_axioms, axioms, last_orig_clause_seen,
    prop_pos, prop_neg, countermodel_out_var,     \* the RFAO arrays
    conflict_clause,
    chain,                  \* locals of the loop over the parents of a line
    call,                   \* arguments of translate_resolution_step
    step,                   \* its locals
    cores,                  \* the core files, one for each empty constraint
    cnf, exit_code

\* Fixed when the second pass begins.
inputVars  == <<input, spare_id, clause_tseitin_variables, sinks_of, search>>
databaseVars == <<constraint_type, clause_database, get_grat_id,
                  num_core_axioms, axioms, last_orig_clause_seen>>
arrayVars  == <<prop_pos, prop_neg, countermodel_out_var>>
resultVars == <<cnf, exit_code>>
readVars   == <<inputVars, next, var_data, last_use_of, cores>>
vars == <<phaseVars, readVars, pc, databaseVars, arrayVars, conflict_clause,
          chain, call, step, resultVars>>

NoCall  == [left |-> 0, right |-> 0, resolvent |-> 0]
NoChain == [i |-> 0, spare |-> 0, left |-> 0]
NewStep == [pivot |-> 0, merged_lits |-> <<>>, reduced_lits |-> <<>>, idx |-> 1,
            lit |-> 0, left |-> 0, right |-> 0, phi |-> 0,
            simple |-> <<>>, merged |-> <<>>, shadcls |-> <<>>,
            seq_left |-> <<>>, seq_right |-> <<>>, g |-> 0, auxg |-> <<>>,
            down |-> <<>>, shortcut |-> <<>>, falsify |-> <<>>,
            conflict |-> <<>>, g_def |-> <<>>, prop |-> <<>>]

Init ==
    /\ input \in Inputs
    /\ next = 1
    /\ pc = "start"
    /\ PhaseInit
    /\ SearchInit
    /\ max_var = 0
    /\ num_cnf_clauses = 0
    /\ var_data = EmptyMap
    /\ spare_id = 0
    /\ clause_tseitin_variables = <<>>
    /\ constraint_type = EmptyMap
    /\ clause_database = EmptyMap
    /\ get_grat_id = EmptyMap
    /\ num_core_axioms = 0
    /\ axioms = <<>>
    /\ last_orig_clause_seen = 0
    /\ prop_pos = EmptyMap
    /\ prop_neg = EmptyMap
    /\ countermodel_out_var = EmptyMap
    /\ conflict_clause = 0
    /\ chain = NoChain
    /\ call = NoCall
    /\ step = NewStep
    /\ cores = <<>>
    /\ cnf = <<>>
    /\ exit_code = -1

-----------------------------------------------------------------------------
(* The first pass *)

\* read_prefix: prefix is a sequence of [q, vars]; the depth of a block is the
\* number of quantifier changes up to it, and type 1 is 'a'.
BlockDepth(prefix, i) ==
    Cardinality({j \in 1..i : j = 1 \/ prefix[j].q # prefix[j - 1].q})

ReadPrefix(prefix) ==
    LET block(v) == CHOOSE i \in DOMAIN prefix : v \in prefix[i].vars
    IN  [v \in UNION {prefix[i].vars : i \in DOMAIN prefix} |->
            [depth |-> BlockDepth(prefix, block(v)),
             type  |-> IF prefix[block(v)].q = "a" THEN 1 ELSE 0]]

\* Only the parsers of the first pass look for the token that ends the literals,
\* and not in an empty constraint.
SyntaxError(lines) == \E i \in DOMAIN lines : lines[i].lits # {} /\ ~lines[i].terminated

EmptyLines(lines) == AtPlaces(lines, {i \in DOMAIN lines : lines[i].lits = {}})

\* The ids of the empty constraints that the core is searched from.  A Qute
\* proof may have several, and none after a syntax error; of a QRP proof the
\* last one counts, and 0 stands for none.
EmptyConstraints(in) ==
    LET empty == EmptyLines(in.lines)
        ids == [i \in DOMAIN empty |-> empty[i].id]
    IN  IF in.format = "qute" THEN IF SyntaxError(in.lines) THEN <<>> ELSE ids
        ELSE IF SyntaxError(in.lines) \/ ids = <<>> THEN <<0>>
        ELSE <<Last(ids)>>

\* primary_type: of a Qute proof the type of the last empty constraint; of a QRP
\* proof 1, its initial value, whatever the result line says.
PrimaryType(in) ==
    LET empty == EmptyLines(in.lines)
    IN  IF in.format = "qrp" THEN 1 ELSE IF empty = <<>> THEN 0 ELSE Last(empty).ctype

TrueFormula == input.have_formula /\ PrimaryType(input) = 1

\* max_var is raised to the largest of some variables, and by n more.
RaiseMaxVar(vs, n) ==
    \E m \in {max_var} \cup vs :
        /\ \A v \in {max_var} \cup vs : v <= m
        /\ m + n < CONST_TRUE
        /\ max_var' = m + n

\* A QRP proof is read up to its result line, for ever if there is none.
AwaitsResultLine ==
    input.format = "qrp" /\ input.result = "none" /\ ~SyntaxError(input.lines)

ReadOnAndOn == pc = "start" /\ AwaitsResultLine /\ UNCHANGED vars

\* Without an empty constraint translate() returns false, and main removes the
\* files.  Otherwise the formula is read and the search begins.
FirstPass ==
    LET sinks == EmptyConstraints(input)
        fresh == IF TrueFormula /\ sinks # <<>> THEN Len(input.matrix) ELSE 0
    IN  /\ pc = "start"
        /\ ~AwaitsResultLine
        /\ var_data' = ReadPrefix(input.prefix)
        /\ RaiseMaxVar(DOMAIN var_data', fresh)
        /\ clause_tseitin_variables' = [k \in 1..fresh |-> max_var' - fresh + k]
        /\ cores' = [i \in DOMAIN sinks |-> <<>>]
        /\ IF sinks = <<>>
           THEN /\ pc' = "end"
                /\ exit_code' = 1
                /\ UNCHANGED <<spare_id, num_cnf_clauses, searchVars>>
           ELSE /\ pc' = "search"
                /\ spare_id' = Last(sinks) + 1
                /\ num_cnf_clauses' = IF TrueFormula THEN EncodingSize(input.matrix)
                                      ELSE IF input.have_formula THEN Len(input.matrix) ELSE 0
                /\ BeginSearch(sinks, 1)
                /\ UNCHANGED <<exit_code, sinks_of>>
        /\ UNCHANGED <<input, next, fileVars, phaseMaps, eflitMaps, default_inserted, gratVars,
                       databaseVars, arrayVars, conflict_clause, chain, call, step, cnf>>

searchUnchanged == <<input, spare_id, clause_tseitin_variables, next, var_data, cores,
                     databaseVars, arrayVars, conflict_clause, chain, call, step, resultVars>>

\* One iteration of find_core's inner loop; an axiom is a clause of the CNF.
VisitConstraint ==
    /\ pc = "search"
    /\ Visit(input.lines)
    /\ num_cnf_clauses' = num_cnf_clauses + (IF VisitsAxiom(input.lines) THEN 1 ELSE 0)
    /\ UNCHANGED <<searchUnchanged, pc, max_var, fileVars, phaseMaps, eflitMaps,
                   default_inserted, gratVars>>

NextSink ==
    /\ pc = "search"
    /\ search.stack = <<>>
    /\ search.i < Len(search.sinks)
    /\ BeginSearch(search.sinks, search.i + 1)
    /\ UNCHANGED <<searchUnchanged, sinks_of, pc, phaseVars>>

SearchDone == pc = "search" /\ search.stack = <<>> /\ search.i = Len(search.sinks)

\* The second pass begins.  The tautologies of a true formula are satisfied.
OpenProof ==
    /\ SearchDone
    /\ pc' = "line"
    /\ IF TrueFormula
       THEN /\ rup' = rup \o TautologyClauses(input.matrix, clause_tseitin_variables)
            /\ Emit(<<ModeItem>> \o TautologyItems(input.matrix))
       ELSE /\ Emit(<<ModeItem>>)
            /\ UNCHANGED rup
    /\ UNCHANGED <<searchUnchanged, searchVars, max_var, num_cnf_clauses, cert, num_clauses,
                   gates, phaseMaps, eflitMaps, default_inserted>>

-----------------------------------------------------------------------------
(* Reading the lines of the proof *)

\* The second pass takes the result line of a QRP proof for a constraint.
ResultLine == [id |-> 0, ctype |-> 0, lits |-> {}, parents |-> <<>>, terminated |-> TRUE]

LinesOf(in) ==
    IF in.format = "qrp" /\ in.result # "none" THEN Append(in.lines, ResultLine)
    ELSE in.lines

proofLines == LinesOf(input)
line == proofLines[next]

\* clause_database[id]: an absent clause reads as the empty one.
Clause(id) == IF id \in DOMAIN clause_database THEN clause_database[id] ELSE {}

\* read_proof_line sets the type of a constraint only in Qute's format.
LineTypes == IF input.format = "qute" THEN {line.ctype} ELSE {0, 1}

\* negate and sort_and_remove_duplicate_literals
LineClause(ctype) == IF ctype = 1 THEN Negated(line.lits) ELSE line.lits

ReadingLine == pc = "line" /\ next <= Len(proofLines)

RecordType(ctype) == constraint_type' = Put(constraint_type, line.id, ctype)

\* Without a look at what the line is needed for.
CopyToAllCores == cores' = [i \in DOMAIN cores |-> Append(cores[i], line.id)]

\* A core line is copied to the core files of its sinks.
CopyToCores ==
    cores' = [i \in DOMAIN cores |->
        IF line.id \in DOMAIN sinks_of /\ i \in sinks_of[line.id]
        THEN Append(cores[i], line.id) ELSE cores[i]]

CoreLine == ReadingLine /\ line.id \in DOMAIN last_use_of /\ CopyToCores

StoreLine ==
    \E ctype \in LineTypes :
        /\ RecordType(ctype)
        /\ clause_database' = Put(clause_database, line.id, LineClause(ctype))

SkipLine ==
    /\ ReadingLine
    /\ line.id \notin DOMAIN last_use_of
    /\ \E ctype \in LineTypes : RecordType(ctype)
    /\ clause_database' = Without(clause_database, {line.id})
    /\ next' = next + 1
    /\ UNCHANGED <<phaseVars, inputVars, var_data, last_use_of, cores, pc, get_grat_id,
                   num_core_axioms, axioms, last_orig_clause_seen, arrayVars,
                   conflict_clause, chain, call, step, resultVars>>

\* record_axiom without a formula: the axiom gets the next number, and is kept.
RecordInternalAxiom ==
    /\ CoreLine
    /\ line.parents = <<>>
    /\ ~input.have_formula
    /\ StoreLine
    /\ num_core_axioms' = num_core_axioms + 1
    /\ get_grat_id' = Put(get_grat_id, line.id, num_core_axioms')
    /\ RaiseMaxVar(VarsOf(line.lits), 0)
    /\ last_use_of' = Put(last_use_of, line.id, 0)
    /\ axioms' = Append(axioms, line.id)
    /\ next' = next + 1
    /\ EmitAndDump(<<>>)
    /\ UNCHANGED <<num_cnf_clauses, fileVars, phaseMaps, eflitMaps, default_inserted,
                   inputVars, var_data, pc, last_orig_clause_seen, arrayVars,
                   conflict_clause, chain, call, step, resultVars>>

\* record_axiom with the formula of a refutation: the clause is searched for
\* in the matrix behind the one found last.  That there is none is reported,
\* and then ignored.
RecordInputClause ==
    /\ CoreLine
    /\ line.parents = <<>>
    /\ input.have_formula /\ ~TrueFormula
    /\ \E ctype \in LineTypes :
        LET clause == LineClause(ctype)
            later == {i \in DOMAIN input.matrix :
                        i > last_orig_clause_seen /\ Range(input.matrix[i]) = clause}
            seen  == IF later = {}
                     THEN Max({Len(input.matrix), last_orig_clause_seen}) + 1
                     ELSE Min(later)
        IN  /\ RecordType(ctype)
            /\ clause_database' = Put(clause_database, line.id, clause)
            /\ last_orig_clause_seen' = seen
            /\ IF later = {} THEN UNCHANGED <<get_grat_id, conflict_clause>>
               ELSE /\ get_grat_id' = Put(get_grat_id, line.id, seen)
                    /\ conflict_clause' = IF clause = {} THEN seen ELSE conflict_clause
    /\ num_core_axioms' = num_core_axioms + 1
    /\ next' = next + 1
    /\ EmitAndDump(<<>>)
    /\ UNCHANGED <<max_var, num_cnf_clauses, fileVars, phaseMaps, eflitMaps,
                   default_inserted, inputVars, var_data, last_use_of, pc,
                   axioms, arrayVars, chain, call, step, resultVars>>

\* record_axiom with the formula of a true QBF: the negated initial term is a
\* lemma, and is then reduced, under the first spare id.
RecordInitialTerm ==
    /\ CoreLine
    /\ line.parents = <<>>
    /\ TrueFormula
    /\ \E ctype \in LineTypes :
        LET clause == LineClause(ctype)
            n == Len(rup) + 1
        IN  /\ RecordType(ctype)
            /\ rup' = Append(rup, SortedClause(clause))
            /\ Emit(<<LemmaItem(-n, InitialTermHints(input.matrix, clause), num_cnf_clauses)>>)
            /\ get_grat_id' = Put(get_grat_id, line.id, -n)
            /\ clause_database' = Put(Put(clause_database, line.id, clause), spare_id,
                                      Resolve(var_data, clause, {}, ctype))
    /\ num_core_axioms' = num_core_axioms + 1
    /\ call' = [left |-> line.id, right |-> 0, resolvent |-> spare_id]
    /\ pc' = "check"
    /\ UNCHANGED <<max_var, num_cnf_clauses, cert, num_clauses, gates, phaseMaps, eflitMaps,
                   default_inserted, inputVars, next, var_data, last_use_of, axioms,
                   last_orig_clause_seen, arrayVars, conflict_clause, chain, step, resultVars>>

ReadReduction ==
    /\ CoreLine
    /\ Len(line.parents) = 1
    /\ StoreLine
    /\ call' = [left |-> Head(line.parents), right |-> 0, resolvent |-> line.id]
    /\ pc' = "check"
    /\ UNCHANGED <<phaseVars, inputVars, next, var_data, last_use_of, get_grat_id,
                   num_core_axioms, axioms, last_orig_clause_seen, arrayVars,
                   conflict_clause, chain, step, resultVars>>

ReadResolution ==
    /\ CoreLine
    /\ Len(line.parents) >= 2
    /\ StoreLine
    /\ chain' = [i |-> 0, spare |-> 0, left |-> Head(line.parents)]
    /\ pc' = "chain"
    /\ UNCHANGED <<phaseVars, inputVars, next, var_data, last_use_of, get_grat_id,
                   num_core_axioms, axioms, last_orig_clause_seen, arrayVars,
                   conflict_clause, call, step, resultVars>>

parents_right == Tail(line.parents)

LastOfChain == chain.i = Len(parents_right) - 1

\* All but the last resolvent of a chain are computed here, into one of the two
\* spare ids in turn.
NextResolution ==
    LET right == parents_right[chain.i + 1]
        spare == spare_id + chain.spare
    IN  /\ pc = "chain"
        /\ call' = [left |-> chain.left, right |-> right,
                    resolvent |-> IF LastOfChain THEN line.id ELSE spare]
        /\ IF LastOfChain THEN UNCHANGED <<chain, clause_database>>
           ELSE /\ chain' = [chain EXCEPT !.spare = 1 - @]
                /\ clause_database' = Put(clause_database, spare,
                       Resolve(var_data, Clause(chain.left), Clause(right),
                               constraint_type[right]))
        /\ pc' = "check"
        /\ UNCHANGED <<phaseVars, readVars, constraint_type, get_grat_id, num_core_axioms,
                       axioms, last_orig_clause_seen, arrayVars, conflict_clause, step,
                       resultVars>>

-----------------------------------------------------------------------------
(* translate_resolution_step: the check *)

left == call.left
right == call.right
res == call.resolvent

MissingClauses(ids) == {<<"clause_database", i>> : i \in ids \ DOMAIN clause_database}
MissingGratIds(ids) == {<<"get_grat_id", i>> : i \in ids \ DOMAIN get_grat_id}

\* What most pieces of a step leave alone.
stepUnchanged == <<readVars, num_cnf_clauses, constraint_type, clause_database,
                   num_core_axioms, axioms, last_orig_clause_seen, chain, call, resultVars>>

CheckResolutionStep ==
    LET check == CheckResolution(var_data, Clause(left), Clause(right), Clause(res),
                                 constraint_type[right])
    IN  /\ pc = "check"
        /\ right # 0
        /\ merged_vars_in' = Put(merged_vars_in, res, {})
        /\ default_inserted' = default_inserted \cup MissingClauses({left, right, res})
        /\ step' = [NewStep EXCEPT !.pivot = check.pivot, !.merged_lits = check.merged,
                                   !.reduced_lits = check.reduced]
        /\ pc' = IF check.pivot = 0 THEN "failed" ELSE "merge"
        /\ UNCHANGED <<stepUnchanged, max_var, fileVars, phase, eflitMaps, gratVars,
                       get_grat_id, arrayVars, conflict_clause>>

\* constraint_type has places up to the last empty constraint and those written
\* behind; any other is beyond its end.
StoredTypes(id) == IF id \in DOMAIN constraint_type THEN {constraint_type[id]} ELSE BitsBeyond

\* The result of check_reduction is not looked at.
CheckReductionStep ==
    /\ pc = "check"
    /\ right = 0
    /\ \E ctype \in StoredTypes(res) :
        LET check == CheckReduction(var_data, Clause(left), Clause(res), ctype)
        IN  /\ var_data' = check.var_data
            /\ step' = [NewStep EXCEPT !.reduced_lits = check.reduced]
    /\ default_inserted' = default_inserted \cup MissingClauses({left, res})
    /\ phase' = CopyPhases(phase, Clause(left), left, res)
    /\ merged_vars_in' = Put(merged_vars_in, res, CopiedVars(phase, Clause(left), left, res))
    /\ pc' = "split"
    /\ UNCHANGED <<inputVars, next, last_use_of, cores, num_cnf_clauses, databaseVars,
                   chain, call, resultVars, max_var, fileVars, eflitMaps, gratVars,
                   arrayVars, conflict_clause>>

-----------------------------------------------------------------------------
(* The loop over the merged literals *)

Merging == pc = "merge" /\ step.idx <= Len(step.merged_lits)

lit == step.merged_lits[step.idx]
PhaseLeft  == GetPhase(left, lit)
PhaseRight == GetPhase(right, -lit)
Key == CacheKey(step.pivot, PhaseLeft, PhaseRight)

\* The left parent's phase is recorded instead.
RecordLeftPhase(phi, merged_lits, idx) ==
    /\ phase' = Insert(phase, <<res, VarOf(lit)>>, PhaseLeft)
    /\ merged_vars_in' = Put(merged_vars_in, res, VarsIn(res) \cup {VarOf(lit)})
    /\ step' = [step EXCEPT !.lit = lit, !.left = PhaseLeft, !.right = PhaseRight,
                            !.phi = phi, !.merged_lits = merged_lits, !.idx = idx]
    /\ pc' = "eflit"

\* The phase phi of the literal's variable in the resolvent is recorded; its
\* effective literal comes next.
RecordPhase(phi, merged_lits, idx) ==
    /\ phase' = Insert(phase, <<res, VarOf(lit)>>, phi)
    /\ merged_vars_in' = Put(merged_vars_in, res, VarsIn(res) \cup {VarOf(lit)})
    /\ step' = [step EXCEPT !.lit = lit, !.left = PhaseLeft, !.right = PhaseRight,
                            !.phi = phi, !.merged_lits = merged_lits, !.idx = idx]
    /\ pc' = "eflit"

\* The literal is overwritten, but the last one stays.
OverwriteOnly(lits, i) == [lits EXCEPT ![i] = Last(lits)]

DropMerged(lits, i) == Front([lits EXCEPT ![i] = Last(lits)])

\* Equal phases: nothing is merged, the last literal takes this one's place.
SamePhase ==
    /\ Merging
    /\ PhaseLeft = PhaseRight
    /\ RecordPhase(PhaseLeft, DropMerged(step.merged_lits, step.idx), step.idx)
    /\ UNCHANGED <<stepUnchanged, max_var, fileVars, eflitMaps, default_inserted, gratVars,
                   get_grat_id, arrayVars, conflict_clause>>

CachedPhase ==
    /\ Merging
    /\ PhaseLeft # PhaseRight
    /\ Key \in DOMAIN phase_cache
    /\ RecordPhase(phase_cache[Key], step.merged_lits, step.idx + 1)
    /\ UNCHANGED <<stepUnchanged, max_var, fileVars, eflitMaps, default_inserted, gratVars,
                   get_grat_id, arrayVars, conflict_clause>>

NewPhase ==
    /\ Merging
    /\ PhaseLeft # PhaseRight
    /\ Key \notin DOMAIN phase_cache
    /\ UpdatePhase(step.pivot, PhaseLeft, PhaseRight)
    /\ RecordPhase(max_var', step.merged_lits, step.idx + 1)
    /\ UNCHANGED <<stepUnchanged, rup, eflit, eflit_def, eflit_shortcut, default_inserted,
                   gratVars, get_grat_id, arrayVars, conflict_clause>>

\* The effective literal of another variable under this phase is found.
EflitOfAnyVariable ==
    /\ pc = "eflit"
    /\ \E k \in DOMAIN eflit : k[2] = step.phi
    /\ pc' = "merge"
    /\ UNCHANGED <<stepUnchanged, step, phaseMaps, max_var, fileVars, eflitMaps,
                   default_inserted, gratVars, get_grat_id, arrayVars, conflict_clause>>

KnownEflit ==
    /\ pc = "eflit"
    /\ <<VarOf(step.lit), step.phi>> \in DOMAIN eflit
    /\ pc' = "merge"
    /\ UNCHANGED <<stepUnchanged, step, phaseMaps, max_var, fileVars, eflitMaps,
                   default_inserted, gratVars, get_grat_id, arrayVars, conflict_clause>>

NewEflit ==
    /\ pc = "eflit"
    /\ <<VarOf(step.lit), step.phi>> \notin DOMAIN eflit
    /\ MakeEflit(step.pivot, step.lit, step.left, step.right, step.phi)
    /\ pc' = "merge"
    /\ UNCHANGED <<stepUnchanged, step, phaseMaps, phase_cache, phase_def,
                   get_grat_id, arrayVars, conflict_clause>>

\* The phases of variables merged earlier are taken over, the left parent's
\* before the right one's.
CopyParentPhases ==
    LET ph1 == CopyPhases(phase, Clause(left), left, res)
    IN  /\ pc = "merge"
        /\ step.idx > Len(step.merged_lits)
        /\ phase' = CopyPhases(ph1, Clause(right), right, res)
        /\ merged_vars_in' = Put(merged_vars_in, res, VarsIn(res)
               \cup CopiedVars(phase, Clause(left), left, res)
               \cup CopiedVars(ph1, Clause(right), right, res))
        /\ pc' = "split"
        /\ UNCHANGED <<stepUnchanged, step, max_var, fileVars, eflitMaps, default_inserted,
                       gratVars, get_grat_id, arrayVars, conflict_clause>>

-----------------------------------------------------------------------------
(* split_reduction_step, shadow, and the hints that falsify what was merged *)

EffectiveLit(l) == GetEflit(l, GetPhase(res, l))

Shadow ==
    LET kept == SortedClause({l \in Clause(res) : EffectiveLit(l) = l \/ l > 0})
    IN  [i \in DOMAIN kept |-> EffectiveLit(kept[i])]

ShortcutKey(piv, l) == <<piv, EffectiveLit(l)>>

MergeHints(piv) ==
    [i \in DOMAIN step.merged_lits |->
        -Get(eflit_shortcut, ShortcutKey(piv, step.merged_lits[i]))]

SplitAndShadow ==
    LET reduced == step.reduced_lits
        simple  == {i \in DOMAIN reduced : IsConst(GetPhase(res, reduced[i]))}
        merged  == {i \in DOMAIN reduced \ simple : reduced[i] > 0}
    IN  /\ pc = "split"
        /\ step' = [step EXCEPT !.simple  = AtPlaces(reduced, simple),
                                !.merged  = AtPlaces(reduced, merged),
                                !.shadcls = Shadow,
                                !.seq_left  = MergeHints(step.pivot),
                                !.seq_right = MergeHints(-step.pivot)]
        /\ default_inserted' = default_inserted \cup MissingKeys(
               {<<"eflit_shortcut", ShortcutKey(piv, l)>> :
                    piv \in {step.pivot, -step.pivot}, l \in Range(step.merged_lits)})
        /\ pc' = IF reduced = <<>> THEN "emit" ELSE "g"
        /\ UNCHANGED <<stepUnchanged, phaseMaps, max_var, fileVars, eflitMaps, gratVars,
                       get_grat_id, arrayVars, conflict_clause>>

-----------------------------------------------------------------------------
(* A step with reductions: the gates of the certificate *)

WriteGates(defs, clauses) ==
    /\ gates' = gates \o defs
    /\ cert' = cert \o clauses
    /\ num_clauses' = num_clauses + Len(clauses)

\* g stands for what is left of the clause.
DefineG ==
    LET g  == Fresh(1)
        id == CertId(Len(step.shadcls) + 1)
    IN  /\ pc = "g"
        /\ FreshAvailable(1)
        /\ max_var' = g
        /\ WriteGates(<<Gate(g, step.shadcls)>>, OrGate(g, step.shadcls))
        /\ get_grat_id' = Put(get_grat_id, res, id)
        /\ conflict_clause' = IF step.shadcls = <<>> THEN id ELSE conflict_clause
        /\ step' = [step EXCEPT !.g = g, !.auxg = <<g>>, !.idx = 1,
                                !.g_def = [i \in DOMAIN step.shadcls |-> CertId(i)]]
        /\ pc' = "gates"
        /\ UNCHANGED <<stepUnchanged, phaseMaps, rup, eflitMaps, default_inserted, gratVars,
                       arrayVars>>

\* A variable for g and the reduced merged literals up to this one, with the
\* shortcut from its falsity to that of g.
AuxGate ==
    LET k    == Len(step.auxg)
        a    == Fresh(1)
        last == Last(step.auxg)
        ef   == EffectiveLit(step.merged[k])
        down == Append(step.down, CertId(1))
        n    == Len(rup) + 1
    IN  /\ pc = "gates"
        /\ k <= Len(step.merged)
        /\ FreshAvailable(1)
        /\ max_var' = a
        /\ WriteGates(<<Gate(a, <<last, ef>>)>>, OrGate(a, <<last, ef>>))
        /\ step' = [step EXCEPT
                !.auxg = Append(@, a), !.down = down,
                !.falsify = Append(@, CertId(2)), !.conflict = Append(@, CertId(3)),
                !.shortcut = Append(@, IF k > 1 THEN -n ELSE Last(down))]
        /\ IF k > 1
           THEN /\ rup' = Append(rup, <<a, -step.g>>)
                /\ Emit(<<LemmaItem(-n, <<Last(down)>>, Last(step.shortcut))>>)
           ELSE UNCHANGED <<rup, gratVars>>
        /\ UNCHANGED <<stepUnchanged, pc, phaseMaps, eflitMaps, default_inserted,
                       get_grat_id, arrayVars, conflict_clause>>

\* prop_pos[var], prop_neg[var] and countermodel_out_var[var] so far.
Hints(prop, var) == IF var \in DOMAIN prop THEN prop[var] ELSE <<>>

\* The array is begun anew every time.
FirstOutVar(var) == var

OutVar(var) ==
    IF var \in DOMAIN countermodel_out_var THEN countermodel_out_var[var] ELSE var

\* pack_prop_sequence: a sequence that is too long becomes one lemma, the n-th.
MustPack(hints) == Len(hints) >= PROP_PACKING_THRESHOLD

PackClause(var, pos) ==
    LET out == Get(countermodel_out_var, var)
    IN  IF pos THEN <<var, -out>> ELSE <<-var, out>>

\* Numbered before the clause is counted.
PackLemmaEarly(n, hints) == LemmaItem(-(n - 1), Front(hints), Last(hints))

PackLemma(n, hints) == LemmaItem(-n, Front(hints), Last(hints))

\* The array of a universal variable gets one more entry, the negation of the
\* reduced literal under the condition ~g; the rest of the array is new_out.
ReduceSimple ==
    LET l    == step.simple[step.idx]
        var  == VarOf(l)
        out  == OutVar(var)
        new  == Fresh(1)
        prop == IF l < 0 THEN prop_pos ELSE prop_neg
        old  == Hints(prop, var)
        n    == Len(rup) + 1
        hints == IF MustPack(old) THEN <<-n>> ELSE old
    IN  /\ pc = "gates"
        /\ Len(step.auxg) > Len(step.merged)
        /\ step.idx <= Len(step.simple)
        /\ FreshAvailable(1)
        /\ max_var' = new
        /\ WriteGates(<<Gate(out, <<step.g, new>>)>>,
                      IF l < 0 THEN OrGate(out, <<-step.g, new>>)
                               ELSE AndGate(out, <<step.g, new>>))
        /\ IF MustPack(old)
           THEN /\ rup' = Append(rup, PackClause(var, l < 0))
                /\ Emit(<<PackLemma(n, old)>>)
           ELSE UNCHANGED <<rup, gratVars>>
        /\ prop_pos' = Put(prop_pos, var, IF l < 0 THEN hints ELSE Hints(prop_pos, var))
        /\ prop_neg' = Put(prop_neg, var, IF l > 0 THEN hints ELSE Hints(prop_neg, var))
        /\ countermodel_out_var' = Put(countermodel_out_var, var, new)
        /\ step' = [step EXCEPT !.idx = @ + 1, !.prop = @ \o <<CertId(1)>> \o Reverse(hints)]
        /\ UNCHANGED <<stepUnchanged, pc, phaseMaps, eflitMaps, default_inserted,
                       get_grat_id, conflict_clause>>

-----------------------------------------------------------------------------
(* A step with reductions: the lemmas *)

GratIdOf(id) == Get(get_grat_id, id)

\* The clause left after the simple reductions is a lemma, and then a unit: by
\* its negation the gates falsify the resolvent, the merged literals' shortcuts
\* what was merged, and one parent is in conflict.  With merged literals there
\* is a lemma for each value of the pivot.
GLemma ==
    LET gvar == Last(step.auxg)
        n    == Len(rup)
        common == Reverse(step.down) \o Reverse(step.falsify) \o step.g_def \o step.prop
        byPivot == <<LemmaItem(-(n + 1), common \o step.seq_left, GratIdOf(left)),
                     LemmaItem(-(n + 2), <<-(n + 1)>> \o common \o step.seq_right, GratIdOf(right)),
                     UnitItem(<<-(n + 2)>>)>>
        direct  == <<LemmaItem(-(n + 1),
                         common \o (IF right # 0 THEN <<GratIdOf(right)>> ELSE <<>>),
                         GratIdOf(left)),
                     UnitItem(<<-(n + 1)>>)>>
    IN  /\ pc = "gates"
        /\ Len(step.auxg) > Len(step.merged)
        /\ step.idx > Len(step.simple)
        /\ IF step.merged_lits # <<>>
           THEN rup' = rup \o << <<step.pivot, gvar>>, <<gvar>> >> /\ Emit(byPivot)
           ELSE rup' = Append(rup, <<gvar>>) /\ Emit(direct)
        /\ default_inserted' = default_inserted \cup MissingGratIds({left, right} \ {0})
        \* pop_back on the shortcuts even when there are none
        /\ step' = [step EXCEPT !.auxg = Front(@),
                                !.shortcut = IF @ = <<>> THEN @ ELSE Front(@),
                                !.idx = Len(step.merged)]
        /\ pc' = "merged"
        /\ UNCHANGED <<stepUnchanged, phaseMaps, max_var, cert, num_clauses, gates, eflitMaps,
                       get_grat_id, arrayVars, conflict_clause>>

\* The reduced merged variables leave the clause, the last one first.  The
\* array of the variable gets two entries, one for each value of its phase.
ReduceMerged ==
    LET var  == step.merged[step.idx]
        phi  == GetPhase(res, var)
        gvar == Last(step.auxg)
        out  == OutVar(var)
        f1   == Fresh(1)
        f2   == Fresh(2)
        new1 == Fresh(3)
        new2 == Fresh(4)
        pos  == Hints(prop_pos, var)
        neg  == Hints(prop_neg, var)
        packs(hints, p) == IF MustPack(hints) THEN <<[hints |-> hints, pos |-> p]>> ELSE <<>>
        packed == packs(pos, TRUE) \o packs(neg, FALSE)
        posId  == Len(rup) + 1
        negId  == Len(rup) + Len(packed)
        pos2 == IF MustPack(pos) THEN <<-posId>> ELSE pos
        neg2 == IF MustPack(neg) THEN <<-negId>> ELSE neg
        n    == Len(rup) + Len(packed)
        short == IF step.shortcut = <<>> THEN <<>> ELSE <<Last(step.shortcut)>>
        def  == Get(eflit_def, GetEflit(var, phi))
        conf == Last(step.conflict)
    IN  /\ pc = "merged"
        /\ step.idx >= 1
        /\ FreshAvailable(4)
        /\ max_var' = new2
        /\ WriteGates(<<Gate(f1, <<step.g, phi>>), Gate(f2, <<step.g, phi>>),
                        Gate(out, <<f1, new1>>), Gate(new1, <<f2, new2>>)>>,
                      OrGate(f1, <<step.g, -phi>>) \o OrGate(f2, <<step.g, phi>>)
                      \o AndGate(out, <<f1, new1>>) \o OrGate(new1, <<-f2, new2>>))
        /\ rup' = rup \o [i \in DOMAIN packed |-> PackClause(var, packed[i].pos)]
                      \o << <<gvar, -phi>>, <<gvar>> >>
        /\ Emit([i \in DOMAIN packed |-> PackLemma(Len(rup) + i, packed[i].hints)]
                \o << LemmaItem(-(n + 1),
                          short \o <<CertId(3), CertId(7)>> \o Reverse(neg2) \o <<def + 1>>, conf),
                      LemmaItem(-(n + 2),
                          <<-(n + 1)>> \o short \o <<CertId(6), CertId(10), CertId(2), CertId(9)>>
                          \o Reverse(pos2) \o <<def>>, conf),
                      UnitItem(<<-(n + 2)>>) >>)
        /\ prop_pos' = Put(prop_pos, var, pos2)
        /\ prop_neg' = Put(prop_neg, var, neg2)
        /\ countermodel_out_var' = Put(countermodel_out_var, var, new2)
        /\ default_inserted' = default_inserted
               \cup MissingKeys({<<"eflit_def", GetEflit(var, phi)>>})
        /\ step' = [step EXCEPT !.auxg = Front(@), !.conflict = Front(@), !.idx = @ - 1,
                                !.shortcut = IF @ = <<>> THEN @ ELSE Front(@)]
        /\ UNCHANGED <<stepUnchanged, pc, phaseMaps, eflitMaps, get_grat_id, conflict_clause>>

\* The hints that carry the value of the new rest of each array to its
\* variable; k counts the gates of this step from the first simple one.  The
\* vector of the reduced literals is cleared here, so that the loop at the end
\* of the step that clears their phases finds none.
PushArrays ==
    LET s == Len(step.simple)
        m == Len(step.merged)
        simpleId(i) == CertId(0) - 3 * s - 12 * m + 3 * (i - 1)
        mergedId(i) == CertId(0) - 12 * (m - (i - 1))
        mergedVar(i) == step.merged[m + 1 - i]
        simpleOf(v) == SelectSeq([i \in 1..s |-> i], LAMBDA i : VarOf(step.simple[i]) = v)
        mergedOf(v) == SelectSeq([i \in 1..m |-> i], LAMBDA i : mergedVar(i) = v)
        pushes(v, pos) ==
            FlattenSeq([i \in DOMAIN simpleOf(v) |->
                LET k == simpleOf(v)[i]
                IN  <<simpleId(k) + (IF (step.simple[k] > 0) = pos THEN 3 ELSE 2)>>])
            \o FlattenSeq([i \in DOMAIN mergedOf(v) |->
                LET id == mergedId(mergedOf(v)[i])
                IN  IF pos THEN <<id + 9, id + 11>> ELSE <<id + 8, id + 12>>])
        changed == {VarOf(step.simple[i]) : i \in 1..s} \cup {step.merged[i] : i \in 1..m}
        push(prop, pos) ==
            [v \in DOMAIN prop |->
                IF v \in changed THEN prop[v] \o pushes(v, pos) ELSE prop[v]]
    IN  /\ pc = "merged"
        /\ step.idx = 0
        /\ Emit([i \in 1..m |-> UnitItem(<<mergedId(i) + 1, mergedId(i) + 4>>)])
        /\ prop_pos' = push(prop_pos, TRUE)
        /\ prop_neg' = push(prop_neg, FALSE)
        /\ pc' = "return"
        /\ UNCHANGED <<stepUnchanged, step, phaseMaps, max_var, fileVars, eflitMaps,
                       default_inserted, get_grat_id, countermodel_out_var, conflict_clause>>

-----------------------------------------------------------------------------
(* A step without reductions *)

\* The shadow clause of the resolvent becomes a lemma.
EmitResolvent ==
    LET n == Len(rup)
        merges == step.merged_lits # <<>>
        byPivot == <<LemmaItem(-(n + 1), step.seq_left, GratIdOf(left)),
                     LemmaItem(-(n + 2), <<-(n + 1)>> \o step.seq_right, GratIdOf(right))>>
        direct  == <<LemmaItem(-(n + 1), <<GratIdOf(right)>>, GratIdOf(left))>>
    IN  /\ pc = "emit"
        /\ right # 0
        /\ IF step.shadcls = <<>>
           THEN /\ Emit(<<UnitItem(<<GratIdOf(left)>>)>>)
                /\ conflict_clause' = GratIdOf(right)
                /\ UNCHANGED <<rup, get_grat_id>>
           ELSE /\ rup' = rup \o (IF merges THEN << <<step.pivot>> \o step.shadcls >> ELSE <<>>)
                              \o <<step.shadcls>>
                /\ Emit(IF merges THEN byPivot ELSE direct)
                /\ get_grat_id' = Put(get_grat_id, res, -Len(rup'))
                /\ UNCHANGED conflict_clause
        /\ default_inserted' = default_inserted \cup MissingGratIds({left, right})
        /\ pc' = "return"
        /\ UNCHANGED <<stepUnchanged, step, phaseMaps, max_var, cert, num_clauses, gates, eflitMaps,
                       arrayVars>>

\* A reduction that reduces nothing: the conclusion is the premise.  Reading
\* last_use_of[resolvent] makes an entry for a spare id.
Reroute ==
    /\ pc = "emit"
    /\ right = 0
    /\ get_grat_id' = Put(get_grat_id, res, GratIdOf(left))
    /\ last_use_of' = Put(Put(last_use_of, res, Get(last_use_of, res)), left,
                          Get(last_use_of, res))
    /\ conflict_clause' = IF step.shadcls = <<>> THEN GratIdOf(left) ELSE conflict_clause
    /\ default_inserted' = default_inserted \cup MissingGratIds({left})
    /\ pc' = "return"
    /\ UNCHANGED <<inputVars, next, var_data, cores, num_cnf_clauses, constraint_type,
                   clause_database, num_core_axioms, axioms, last_orig_clause_seen, chain,
                   call, resultVars, step, phaseMaps, max_var, fileVars, eflitMaps, gratVars,
                   arrayVars>>

-----------------------------------------------------------------------------
(* Back in translate() *)

Forget(ids) ==
    /\ ForgetPhases(ids)
    /\ clause_database' = Without(clause_database, ids)
    /\ get_grat_id' = Without(get_grat_id, ids)

\* The left parent of the call, always.
AlwaysLeft == {left}

\* The left parent of the call, if it is not the clause the chain began with.
Temporary == {left} \ {Head(line.parents)}

returnUnchanged == <<inputVars, var_data, cores, num_cnf_clauses, constraint_type,
                     num_core_axioms, axioms, last_orig_clause_seen, max_var, fileVars,
                     eflitMaps, default_inserted, arrayVars, conflict_clause, resultVars, step>>

ReturnReduction ==
    /\ pc = "return"
    /\ right = 0
    /\ line.parents # <<>>
    /\ EmitAndDump(<<>>)
    /\ next' = next + 1
    /\ pc' = "line"
    /\ UNCHANGED <<returnUnchanged, last_use_of, phaseMaps, clause_database, get_grat_id,
                   chain, call>>

\* The reduct of an initial term takes its place.
ReturnSafetyReduction ==
    /\ pc = "return"
    /\ right = 0
    /\ line.parents = <<>>
    /\ clause_database' = Without(Put(clause_database, line.id, Clause(res)), {res})
    /\ get_grat_id' = Without(Put(get_grat_id, line.id, GratIdOf(res)), {res})
    /\ EmitAndDump(<<>>)
    /\ next' = next + 1
    /\ pc' = "line"
    /\ UNCHANGED <<returnUnchanged, last_use_of, phaseMaps, chain, call>>

ReturnIntermediate ==
    /\ pc = "return"
    /\ right # 0
    /\ ~LastOfChain
    /\ Forget(Temporary)
    /\ chain' = [chain EXCEPT !.i = @ + 1, !.left = res]
    /\ pc' = "chain"
    /\ UNCHANGED <<returnUnchanged, next, last_use_of, gratVars, call>>

\* The iterator into last_use_of is used without a look whether the parent is
\* there: it is not, when the loop has just erased it, or an earlier line did.
UnknownParent ==
    \E k \in DOMAIN line.parents :
        LET p == line.parents[k]
        IN  \/ p \notin DOMAIN last_use_of
            \/ last_use_of[p] = line.id /\ \E j \in 1..(k - 1) : line.parents[j] = p

\* A parent whose last use was this line is forgotten.
ReturnFinal ==
    LET used == {p \in Range(line.parents) : last_use_of[p] = line.id}
    IN  /\ pc = "return"
        /\ right # 0
        /\ LastOfChain
        /\ ~UnknownParent
        /\ Forget(Temporary \cup used)
        /\ last_use_of' = Without(last_use_of, used)
        /\ EmitAndDump(<<>>)
        /\ next' = next + 1
        /\ pc' = "line"
        /\ UNCHANGED <<returnUnchanged, chain, call>>

\* Dereferencing end() is undefined; the build reads through a null pointer.
ReturnCrash ==
    /\ pc = "return"
    /\ right # 0
    /\ LastOfChain
    /\ UnknownParent
    /\ exit_code' = 139
    /\ pc' = "end"
    /\ UNCHANGED <<phaseVars, readVars, databaseVars, arrayVars, conflict_clause,
                   chain, call, step, cnf>>

\* translate() returns -1, converted to true: main exits with 0.
ReturnFailure ==
    /\ pc = "failed"
    /\ IF LastOfChain THEN UNCHANGED <<phaseMaps, clause_database, get_grat_id>>
       ELSE Forget(Temporary)
    /\ exit_code' = 0
    /\ pc' = "end"
    /\ UNCHANGED <<inputVars, next, var_data, last_use_of, cores, num_cnf_clauses,
                   constraint_type, num_core_axioms, axioms, last_orig_clause_seen, max_var,
                   fileVars, eflitMaps, default_inserted, gratVars, arrayVars,
                   conflict_clause, chain, call, step, cnf>>

EndOfProof ==
    /\ pc = "line"
    /\ next > Len(proofLines)
    /\ Emit(<<ConflictItem(conflict_clause)>>)
    /\ pc' = "grat"
    /\ UNCHANGED <<max_var, num_cnf_clauses, fileVars, phaseMaps, eflitMaps,
                   default_inserted, readVars, databaseVars, arrayVars, conflict_clause,
                   chain, call, step, resultVars>>

WriteGratProof ==
    /\ pc = "grat"
    /\ WriteBuffer(CertId(0))
    /\ pc' = IF aux_files = <<>> THEN "combine" ELSE "grat"
    /\ UNCHANGED <<max_var, num_cnf_clauses, fileVars, phaseMaps, eflitMaps,
                   default_inserted, readVars, databaseVars, arrayVars, conflict_clause,
                   chain, call, step, resultVars>>

\* combine, combine_internal: the CNF file is the formula, in the encoding of a
\* true one, or the axioms of the proof, and then the certificate.
FormulaClauses ==
    IF TrueFormula THEN Encoding(input.matrix, clause_tseitin_variables)
    ELSE IF input.have_formula THEN input.matrix
    ELSE [i \in DOMAIN axioms |-> SortedClause(Clause(axioms[i]))]

CombineFiles ==
    /\ pc = "combine"
    /\ cnf' = FormulaClauses \o cert
    /\ exit_code' = 0
    /\ pc' = "end"
    /\ UNCHANGED <<phaseVars, readVars, databaseVars, arrayVars, conflict_clause, chain,
                   call, step>>

-----------------------------------------------------------------------------
Preparing == ReadOnAndOn \/ FirstPass \/ VisitConstraint \/ NextSink \/ OpenProof
ReadingLines == SkipLine \/ RecordInternalAxiom \/ RecordInputClause \/ RecordInitialTerm
                \/ ReadReduction \/ ReadResolution \/ NextResolution
Checking == CheckResolutionStep \/ CheckReductionStep
MergingPhases == SamePhase \/ CachedPhase \/ NewPhase \/ KnownEflit \/ NewEflit
                 \/ CopyParentPhases \/ SplitAndShadow
Reducing == DefineG \/ AuxGate \/ ReduceSimple \/ GLemma \/ ReduceMerged \/ PushArrays
NotReducing == EmitResolvent \/ Reroute
Returning == ReturnReduction \/ ReturnSafetyReduction \/ ReturnIntermediate
             \/ ReturnFinal \/ ReturnCrash \/ ReturnFailure
Finishing == EndOfProof \/ WriteGratProof \/ CombineFiles

Translate == Preparing \/ ReadingLines \/ Checking \/ MergingPhases \/ Reducing
             \/ NotReducing \/ Returning \/ Finishing

Terminated == pc = "end" /\ UNCHANGED vars

Next == Translate \/ Terminated

Spec == Init /\ [][Next]_vars /\ WF_vars(Translate)
=============================================================================
