# TLA+ models of qrp2rup

`qrp2rup` reads a long-distance Q-resolution proof of a quantified Boolean
formula, checks it, and writes three things: a *certificate*, a strategy for the
winning player in CNF (`.cert`, and combined with the formula `.cnf`); a RUP
proof that the strategy wins (`.rup`); and *GRAT hints* (`.grat`), which tell a
checker for every lemma which clauses become unit in which order and which one
is falsified at the end. The checker searches for nothing, so every number in the
hints has to be right. This directory holds TLA+ modules that model the
translation, TLC configurations that check it on small proofs, and theorems
proved with TLAPS.

Paths such as `proof_translator.cc:418` are relative to `src/src/`.

## The system

| Part | State | Operations |
|---|---|---|
| `ProofTranslator::translate` (`proof_translator.cc`) | the position in the proof, `clause_database`, `constraint_type`, `get_grat_id`, `last_use_of`, `axioms`, two spare ids, `conflict_clause` | first pass, one iteration per line, one per parent of a chain, the end |
| `translate_resolution_step` | its locals, `prop_pos`, `prop_neg`, `countermodel_out_var` | check, merge loop, gates of the reduction, lemmas, array updates |
| phases and effective literals | `phase`, `merged_vars_in`, `eflit`, `phase_cache`, `phase_def`, `eflit_def`, `eflit_shortcut`, `max_var` | `update_phase`, `make_eflit`, `copy_phases`, `forget` |
| step checks | none (but `check_reduction` may add entries to `var_data`) | `resolve`, `check_resolution`, `check_reduction` |
| `GRATManager` (`grat_manager.cc`) | the buffer, auxiliary files, the GRAT file | append items, `dump_buffer`, `write_grat_proof` |
| first pass (`io.cc`) | `var_data`, `parents_of`, `last_use_of`, `num_cnf_clauses` | `read_prefix`, `parse_DAG_structure_*`, `find_core` |
| `CNFCircuit`, `ClauseWriter` | files and the counters beside them | gates as clauses |
| `combine`, `combine_internal` (`io.cc`) | files | formula or axioms, then certificate |
| `main` (`qrp2rup.cc`) | the exit code | run, remove files on failure |
| `helpers/grat-diagnoser.py` | clauses, two assignments, position | check the GRAT file item by item |

How they interact: the program is a single thread. `translate` reads a line,
calls `translate_resolution_step` for each pair of clauses in it, which appends
to the certificate, the RUP file and the GRAT buffer together and names what it
appended by numbers taken from the counters of the two files. These numbers are
kept in maps and used by later steps. Clauses of the RUP file have negative
numbers until the end, when the number of clauses in the CNF file is known.
Afterwards another program, the checker, reads what was written.

There is no concurrency, and nothing is resumed after a crash. What is hard here
is *bookkeeping over long sequences of legal calls*: numbers handed out in one
step and used in another; maps read with `operator[]`, which answers 0 for what
it does not know; clauses and phases freed at their last use; two spare ids used
again and again; a loop that removes from the vector it walks; a strategy
assembled from fragments of many steps; files written backwards in pieces; and
what remains of a translation that gives up.

For each part, what makes it correct:

- *step checks*: legal steps are accepted, and what is accepted or collected is
  legal in the calculus;
- *phases*: every phase has an effective literal and definitions on both sides
  of its pivot; equal merges and only those share one; no phase of an earlier
  use of an id survives;
- *numbering*: a number names the clause that it was taken for, and goes on to;
- *lifetime*: nothing is forgotten before its last use, and no axiom ever is;
- *certificate*: every variable is defined once and depends only on variables to
  its left;
- *GRAT file*: all items, backwards, whatever was dumped when;
- *the whole*: a legal proof is translated to the end and accepted; an illegal
  one is reported.

## Modules

| Module | Models | Source |
|---|---|---|
| `Literals` | literals, clauses as sets, sorted clauses, `std::unordered_map` | `sorted_query_oracle.hh` |
| `StepRules` | `resolve`, `check_resolution`, `check_reduction` as operators | `proof_translator.cc:1200-1497` |
| `SortedOracle` | the cursor with which `check_resolution` asks for membership | `sorted_query_oracle.hh:69` |
| `QResolution` | long-distance Q-resolution, the reference | (independent of the code) |
| `StepChecks` | one call of a step check, or of the oracle, on arbitrary clauses, and its properties | their callers |
| `GratItems`, `GratManager` | items; buffer and auxiliary files | `grat_manager.cc` |
| `GratLog` | abstract: a log that is written backwards at once | - |
| `GratStream` | `GratManager` used in any order; implements `GratLog` | `grat_manager.cc:56-92` |
| `CNFCircuit` | gates as clauses | `cnf_circuit.cc` |
| `PhaseTable` | phases, effective literals, shortcut lemmas | `proof_translator.cc:418-541`, `1543-1660` |
| `CoreSearch` | `find_core`, with its stack | `io.cc:179-226` |
| `Matrix` | the matrix of a true formula: its encoding and clause numbers, tautologies, the hints of initial terms | `proof_translator.cc:107-183`, `1086-1123`, `io.cc:386-419` |
| `Translator` | the whole translation; extends `PhaseTable`, `CoreSearch`, `Matrix` and `StepRules` | `proof_translator.cc`, `io.cc`, `qrp2rup.cc` |
| `CheckedTranslation` | the translator followed by the checker | `helpers/grat-diagnoser.py` |
| `Correctness` | the properties of the translation while it runs | - |
| `LiteralTheorems` | lemmas about clauses and their order | - |
| `TranslatorProofs`, `GratStreamProofs`, `StepCheckProofs` | theorems and proofs: types and numbers of the translation, the GRAT stream, the step checks | - |
| `CoreProofs`, `LookupProofs`, `OutputProofs`, `StrategyProofs` | theorems and proofs about the first pass and the counting, about lifetimes and lookups in the second, about what is written (the certificate as a circuit, and the order of the lemmas in the GRAT file), and that the certificate is a strategy | - |
| `MCInputs`, `MC*` | small inputs and bounds for TLC | - |

### State and actions

The variables of `Translator` have the names of the members of
`ProofTranslator`; `pc` says which piece of the code is next, `chain`, `call` and
`step` are the locals of the loop over parents, the arguments, and the locals of
`translate_resolution_step`. Every iteration of a loop of the code that changes
state is one action:

| Code | Actions |
|---|---|
| prefix, structure of the proof, matrix, `41-124`, `io.cc:38-165` | `ReadOnAndOn`, `FirstPass` |
| `find_core`, `io.cc:188-221` | `VisitConstraint`, `NextSink` |
| opening the proof, tautologies, `126-185` | `OpenProof` |
| line loop, `193-250`, `1069-1198` | `SkipLine`, `RecordInternalAxiom`, `RecordInitialTerm`, `RecordInputClause`, `ReadReduction`, `ReadResolution` |
| chain loop, `251-282` | `NextResolution`, `ReturnIntermediate` |
| check, `401-413`, `542-545` | `CheckResolutionStep`, `CheckReductionStep` |
| merge loop, `418-541` | `SamePhase`, `CachedPhase`, `NewPhase`, then `KnownEflit` or `NewEflit`; `CopyParentPhases` |
| `547-572` | `SplitAndShadow` |
| reductions, `580-967` | `DefineG`, `AuxGate`, `ReduceSimple`, `GLemma`, `ReduceMerged`, `PushArrays` |
| no reductions, `976-1030` | `EmitResolvent`, `Reroute` |
| return, `264-330`, `1138-1143` | `ReturnReduction`, `ReturnSafetyReduction`, `ReturnFinal`, `ReturnFailure`, `ReturnCrash` |
| end, `343-364` | `EndOfProof`, `WriteGratProof`, `CombineFiles` |

`cert`, `rup` and `grat` are the files as sequences of clauses or items; the
clause counter `num_clauses` is kept beside `cert`, as in the code, so that a
miscount is a reachable error. Two history variables are not in the code:
`default_inserted` collects the keys that `operator[]` had to create, and
`gates` the definitions in the certificate, with what they depend on. A lookup
through `operator[]` that misses yields 0 and is recorded there.

The input is chosen in `Init` from the constant `Inputs`: the format, the
prefix, the matrix if there is a QDIMACS file, the lines, and of a QRP proof the
result line. `InputAssumption` says what the program takes for granted: line ids
ascend, and parents come before their children. Legality of the steps is not
assumed; the `hints` run restricts itself to legal proofs and the others do not.

What the program reads without having written it is a choice:

- of a QRP line the type flag is not read, and the local variable for it is not
  initialised (`io.cc:267`): any type, for each line anew (`LineTypes`);
- the types of the spare ids lie beyond the end of `constraint_type`
  (`proof_translator.cc:89`, `543`): any member of `BitsBeyond` (`StoredTypes`);
- dereferencing `end()` when a parent is looked up that has been forgotten
  (`proof_translator.cc:299-311`) is, in the build, a read through a null pointer:
  `ReturnCrash`, exit code 139.

### Fairness

`Translator` has weak fairness of its next step: a sequential program that is run
goes on until it returns. `CheckedTranslation` has weak fairness of the
translation and of the checker, two such programs run one after the other.
Nothing else is assumed. Two properties rest on it. `Terminates` says that the
translation comes to an end, for legal and for broken proofs: the search, the
merge loop (`430`), which shrinks the vector it walks over, and the loops over
parents and lines. It excuses the one input for which the program does wait for
ever, a QRP proof without a result line (`io.cc:133`; `ReadOnAndOn`).
`EventuallyAccepted` says of legal proofs that the checker accepts in the end.

## Runs

| Run | Asks | Distinct states |
|---|---|---|
| `hints` | Are legal proofs translated to the end, and is every hint what it is for (`HintsAccepted`, `LemmasNumberedInOrder`, `EventuallyAccepted`)? | 29,851 |
| `translator` | Is the core found, and is the bookkeeping consistent at every step, for legal, illegal and broken proofs; and does the program end? | 27,079 |
| `step_checks` | Do the checks agree with the calculus, and the oracle with membership? | 1,015,328 |
| `grat_stream` | Does the buffered GRAT file implement the log? | 12,662 |

`HintsAccepted` is the strongest of these properties: the checker of the model
propagates the clauses that the hints name, under the assignment they have built,
and fails on one that is not unit or, at the end of a lemma, not falsified or also satisfied. It
depends on all numbers, offsets and sequences of the translation together. It
cannot see whether the certificate is a strategy; `DefinedOnce` and
`DependenciesToTheLeft` (in `translator`) say that.

The properties of `translator`, each about several steps. Of the first pass:
`CoreFound` (the stack visits exactly what the empty constraints depend on, and
the last use is the last one, whatever the order of visits), `AxiomsCounted` (the
clauses counted during the search are those written at the end),
`CoreFilesAreProofs` (each core file is a proof by itself). Of the second:
`NoDefaultInserted` (no hint is looked up in vain), `PhasesHaveEflits`,
`NoStalePhase` (the spare ids), `NumbersNameTheirClauses`, `PhasesSharedByMeaning`,
`KeptUntilLastUse`, `DefinedOnce`, `DependenciesToTheLeft`, and the action property
`HintsStayValid` (what a hint refers to never changes). `AxiomsCounted` is about proofs without
a formula whose empty constraints share no axiom (see *enumeration* below).

The properties of lifetime and `DefinedOnce` have premises, each with an input that
needs it (those of the theorem about `DependenciesToTheLeft` are under *Theorems*):

| Premise | Properties | Without it |
|---|---|---|
| `AxiomsFound`: no axiom was missing from the formula | `NoDefaultInserted`, `KeptUntilLastUse` | the program reports the axiom and goes on without its GRAT id |
| `SpareIdIsFree`: no line has the first spare id (true formulas only) | these and `NoStalePhase` | `Reroute` of an initial term makes an entry in `last_use_of` for that id; a line with it, behind the last empty constraint, is read as a core line, though its parents were not kept |
| `UsesAreSeparate`: no constraint has both a parent p and a parent that is a dummy reduction of p | `NoDefaultInserted`, `KeptUntilLastUse` | the dummy reduction moves the last use of p to that constraint (`proof_translator.cc:1021`), and what needs p later does not find it: a legal proof is rejected (compare run `dummy_axiom`) |
| `EmptyIsNoParent`: nothing is derived from an empty constraint | `NoDefaultInserted` | an empty constraint derived by resolution has no GRAT id (`985`), and its dummy reduction reads one |
| `PairsStayWhole`: of a literal and its negation in the parents, a line has both or neither | `NoDefaultInserted` | `check_reduction` lets a line lose one literal of a merged pair; the rest may have an empty shadow clause, hence no GRAT id. The calculus reduces pairs as a whole |
| `KindsAgree`: a line and its parents are of one kind, clauses or terms | `NoDefaultInserted` | what is a pair to the one is read with the other signs by the other. A clause derived from a term may then have nothing but merged literals, which its shadow clause lacks, and gets no GRAT id. The proof may be as short as this one, of a QBF with e {1, 2}, a {3}: 1: -1 -3 (a term), 2: -1 2 -3, 3: 2 -3 from 1 and 2, 4: -2, 5: -3 from 3 and 4, 6: empty from 5 |
| `VariablesKnown`: the variables of the proof are those of the prefix and, without a formula, of the axioms in front of the first line with parents | `DefinedOnce` | run `aux_names`: a fresh variable is taken for a later axiom's auxiliary one |

All but the first and the last were met while proving, where an inductive step failed, and then
reproduced on proofs of four to eleven lines.

`ResolventsAccepted`, `AcceptedAreResolvents` and `CollectedAreReducible` relate
`check_resolution` and `check_reduction` to the calculus in both directions, with
the exceptions listed under *Where the code and its documentation differ*; `OracleIsMembership` says that
the cursor, which only moves forward, skips no answer although the literals of a
variable are asked for in descending order too.

### Bounds, and why they are enough

- *Proofs.* `MCInputs` generates, for a fixed formula, **all** proofs that can be
  written in a given number of lines (two to four derived lines), choosing for
  each line the parents, the pivot, whether it is reduced at once, partly or in
  a line of its own, whether it is a chain, a dummy reduction, or illegal. The
  formulas are chosen for the cases of the code: one merge; a merge of merged
  literals (phases on phases, three or four defining clauses); the same merge
  twice and from the other side (the cache); equal phases on both sides, alone
  and beside a new merge (the loop that removes what it walks over); two merged variables reduced
  together (auxiliary gates, shortcuts); a variable reduced several times
  (arrays and packing); a trailing variable; lines outside the core; an enumeration
  proof with two empty constraints, from different axioms (`hints`) and from the
  same ones (`translator`); auxiliary variables that are not in the prefix.
- *Formulas.* A true formula comes without its matrix, whose terms are negated,
  and with it: a tautology, clauses of two and three literals, initial terms with
  and without a literal to reduce, and (`translator`) one that does not hit every
  clause. A false formula comes with a clause in front of those of the proof and,
  in `translator`, with one missing.
- *QRP and broken proofs* (`translator`): a small false and a small true formula, with and
  without the matrix, with each result line and with none; a line without the 0
  behind its literals, and a proof without an empty constraint, in both formats.
- *`BitsBeyond`* is {1} in `hints` and {0, 1} elsewhere. In the other case, the one
  of the build, the safety reduction does nothing (run `safety_reduction`).
- *`Padded`.* Given a formula, the hints are off by the number of axioms (run
  `formula_numbers`). So that everything else in them can be judged, `hints`
  lets the checker read a CNF file that is padded, before the certificate, to the
  size that the program believes it has.
- *`PROP_PACKING_THRESHOLD` = 2* (5 in the code): the code only compares the
  length of a sequence with it; with 2 packing happens after one merged or two
  simple reductions.
- *`GratCapacity` = 25 integers* (10 million bytes in the code): proofs of this
  size then dump their buffer. Dumping more than once, at any time, is what
  `grat_stream` and the theorem about it are for.
- *`CONST_TRUE` = 2147483647*, as in the code. `FreshAvailable` stops a
  translation that would need that many variables.
- *`step_checks`*: three variables, four prefixes, all pairs of
  clauses and all resolvents over them, so that a pivot, a merged variable and
  one more literal on each side of it meet.
- *`UINT_MAX` = 1000000* in `StepRules`: any number beyond the depths that occur.
- *`grat_stream`*: six items in entries of one or two, buffers of four integers.

Each property has been tried against a mutant of the model, a plausible mistake
in the code such as a counter read before it is increased, a cache key without
its pivot, or auxiliary files read oldest first; the alternative definitions stand
beside the real ones in the modules and are used by nothing else.

## Theorems

| Theorem | States |
|---|---|
| `CoreProofs!CoreIsFound` | `Spec => []CoreFound` |
| `CoreProofs!CoreFilesProve` | `Spec => []CoreFilesAreProofs` |
| `CoreProofs!AxiomsAreCounted` | `Spec => []AxiomsCounted` |
| `LookupProofs!ParentsAreKept` | `Spec => []KeptUntilLastUse` |
| `LookupProofs!PhasesAreFresh` | `Spec => []NoStalePhase` |
| `LookupProofs!NothingIsMissing` | `Spec => []NoDefaultInserted` |
| `OutputProofs!NothingDefinedTwice` | `Spec => []DefinedOnce` |
| `OutputProofs!LemmasAreInOrder` | `CheckedSpec => [](NumbersFit => LemmasNumberedInOrder)` |
| `OutputProofs!NumbersDoFit` | `CheckedSpec => [](CountedOnce => NumbersFit)` |
| `StrategyProofs!StrategyLooksLeft` | `Spec => [](Ordered => DependenciesToTheLeft)` |
| `TranslatorProofs!PhasesAlwaysHaveEflits` | `Spec => []PhasesHaveEflits` |
| `TranslatorProofs!TypeCorrect` | `Spec => []TypeOK` |
| `TranslatorProofs!NumbersAreRight` | `Spec => []NumbersNameTheirClauses` |
| `TranslatorProofs!HintsRemainValid` | `Spec => HintsStayValid` |
| `TranslatorProofs!PhasesAreShared` | `Spec => []PhasesSharedByMeaning` |
| `StepCheckProofs!AcceptedStepsAreSound` | `Spec => []AcceptedAreResolvents` |
| `StepCheckProofs!LegalStepsAreAccepted` | `Spec => []ResolventsAccepted` |
| `StepCheckProofs!ResolveIsRight` | `Spec => []ResolveIsReducedResolvent` |
| `StepCheckProofs!ReductionsAreSound` | `Spec => []CollectedAreReducible` |
| `StepCheckProofs!OracleAnswersRight` | `Spec => []OracleIsMembership` |
| `GratStreamProofs!StreamImplementsLog` | `Spec => ImplementsLog`, a refinement |
| `LiteralTheorems!SortedClauseType`, `SortedClauseRange` | a clause, sorted, is a sequence of exactly its literals, one place each |

They hold for all constants that satisfy the assumptions in the modules:
`ConstAssumption`, `InputAssumption`, `PrefixAssumption`, `StreamAssumption`,
`CheckerAssumption`; so
for proofs of any length, legal or not, in both formats, and for clauses of any
size. No proof and no assumption mentions a bound of the runs, except
`FreshAvailable`, which is part of the specification.

*Phases.* `PhasesHaveEflits` excuses the one phase recorded between two actions
of the merge loop and is then inductive by itself. The proof has a step per group
of actions; the lemmas say that `copy_phases` brings in no new pair of a variable
and a phase, and that `forget` only removes.

*Types.* `TypeOK` is not inductive. That a recorded phase is a variable, never
the constant, needs the fact that the two phases of a merged literal are
constants only if they differ; this needs that a merged literal is a nonzero
integer, hence that the clauses are sets of literals; and that the next index is
one of the sequence needs that the control state belongs to a line. So the proof
goes through four invariants, each proved from those before it: `ControlInv` (the
control state and the line), `ClauseInv` (the clause database holds finite sets
of literals), `StepInv` (the merged literals are a sequence of nonzero integers),
`VarInv` (all variables in the maps are below `max_var`, which only grows).

*Numbers.* `FileInv` says that the files are sequences and that the counter beside
the certificate is its length, although `update_phase` counts 2, 3 or 4 clauses by
hand. From it follows that every action appends to the certificate and to the RUP
file or leaves them alone (`CertGrows`, `RupGrows`): a number that was in range
stays in range and names the same clause. `NumberInv` strengthens
`NumbersNameTheirClauses` by two facts: the keys of the maps of numbers speak of
variables in use, so that an entry for a fresh variable replaces nothing; and no
number is recorded before the second pass, because `num_cnf_clauses`, which the
search still increases, is part of every one of them. `HintsStayValid` is the
action property read off from the same invariants. `PhasesSharedByMeaning` needs
two more: the pivot is a literal during the merge loop (`PivotInv`), and
the cached phases are defined on both sides of their pivot and pairwise different
(`CacheInv`), since a new one is a fresh variable.

*Step checks.* The arguments of a call do not change (`CallInv`), so the theorems
are about the operators. Both sides are reduced to levels: the code compares
depths of variables looked up in `var_data`, the calculus levels of literals, and
`PrefixAssumption`, which says what `read_prefix` makes of a prefix, makes
them the same. The greatest depth of the primary literals is the least number that
none exceeds (`LeastNumber`), which avoids induction over the clause. That the
vectors of merged and reduced literals are what the sets say is
`SortedClauseRange`, which rests on the place of a literal being the number of
smaller ones. The oracle is modelled with one action per query, so that `OracleInv` is
an invariant like any other and its proof needs no induction over the clause: what the
cursor has passed is less than every query still to come, since the vector and the
queries both ascend by variable, and that is the order the cursor goes by.

*The GRAT file.* The refinement maps the log to the history of all items and the
abstract file to what has been written. The invariant says where each auxiliary
file begins in the log: there is a nondecreasing sequence of cuts such that file
i holds the items behind the i-th cut, and the buffer those behind the last; the
GRAT file is the rest of the log, backwards. Writing a buffer shortens the
sequence of cuts by one.

*The first pass.* `Core` is defined as the smallest set that holds the empty
constraint and the parents of its members, so no path and no induction over
lengths is needed. `SearchInv` says of the search: what is on the stack and what
has been popped lies in the core (`VisitedInv`); every constraint that has been
*popped* has its parents among the visited ones (`StackInv`), so that, when the
stack is empty, the visited constraints are closed under parents and hold the
core; and each last use is the greatest id among the *popped* users, with those
of the sinks before (`LastUseInv`), which makes the order of visits irrelevant.
A `last_use_of` that was correct for the constraints visited so far would not be
inductive: a visited constraint whose turn has not come has not been counted yet.

*Core files.* The second pass reads the lines in ascending order. `LineStep` says
what a step may do to the position in the proof and to the files, and `CoresInv`
that a core file holds, in ascending order, those of the ids read so far that the
search assigned to its empty constraint. Parents have smaller ids and are in the
core, so they stand before; a constraint of the core that nothing in it uses would
not be in the smallest closed set; and the empty constraint, the largest id, is last.

*Counting.* During the search `num_cnf_clauses` is the number of pairs of an empty
constraint and an axiom visited for it (`CountInv`); at the end of the second pass
the axioms are, without repetition, the lines without parents in the core
(`AxiomsInv`). If no two empty constraints share an axiom these are as many, by a
bijection.

*Lifetimes.* `ForgetInv` adds to the invariants so far: the spare ids are larger than
every id of the core (`SpareInv`); which ids the left parent and the resolvent of
a step can have, in particular that two resolvents in a row never share one
(`CallShape`); that an entry of `last_use_of` is 0, or the last of the core that
uses the constraint, or one that a dummy reduction has moved (`LastUsesInv`); that
only core lines read and the clauses of the step in work have phases, and every
phase is recorded in `merged_vars_in`, by which `forget` finds it (`PhaseInv`); and
that the clause and the GRAT id of every core line read is there as long as some
core line still to come uses it (`KeptInv`). `PhasesAreFresh` follows from
`CallShape` and `PhaseInv`: the id of the next resolvent is not among those with
phases. For `ParentsAreKept` the hard steps are `ReturnFinal`, where a parent is
freed only at the entry in `last_use_of`, so that `LastUsesInv` excludes later users
but for the moved ones, which `UsesAreSeparate` excludes; and `EmitResolvent`, which
assigns no GRAT id exactly if the shadow clause is empty, which `NoShadow` makes
a statement about the phases of the resolvent. The invariant is not about legal
steps: it holds of every proof.

*Lookups.* A lookup cannot miss if its key was entered before and not erased since.
`LookupInv` has a part for each map. For the clause database and the GRAT ids:
`ForgetInv` gives those of the parents until they are read (`WorkParents`,
`RightParent`); the clause stored under an id is that of the line, except that an
initial term may have been reduced (`StoredInv`, `WorkStored`); the literals of a
resolvent come from the parents and its pivot is in both (`CallLits`, `StepLits`). What
is left is that every clause that is not empty has a GRAT id, hence a literal in its
shadow clause (`ShadowIsLeft`). `PairInv` says why: a merged variable never stands in a
clause with its negative literal alone, and of the pair the positive one stays. This is
where `PairsStayWhole` and `KindsAgree` are needed. For definitions and
shortcuts: an effective literal belongs to a variable that has a definition
(`EflitKeys`), except between the two actions in which the merge loop makes it
(`PendingEflit`); the shortcuts of a phase are entered with it (`ShortcutInv`); the
merged literals passed by the loop, which shrinks the vector it walks over, have the
phase that the pivot chooses and those to come have none yet (`MergeInv`); and the
literals to be reduced are literals of the resolvent that have one or need none
(`ReducedInv`). The premises are about the whole run: `PremisesBack` shows that
they hold at a state if they hold at the next, so that the last invariant
(`MissInv`) may use them at each step.

*The circuit.* That a fresh variable is one that the formula does not use is a matter
of time: `max_var` is raised when an axiom with an auxiliary variable is read, and
handed out when a step is translated. `InTimeInv` says that a known variable is below
`max_var`, or that an axiom in front of the first derived line has it and is still to
come; a step is translated only behind those (`WorkInv`). `ClauseVarsInv` and
`StepVarsInv` say that resolution and reduction bring in no other variables, so that a
reduced literal is one of the formula. `CircuitInv` is then inductive: an output is the
fresh variable just taken, or a variable of the formula that is reduced for the first
time, or the rest of its array, which is no variable of the formula, has no
definition yet, and belongs to one array only (`RestsAreFresh`).

*The order of the lemmas.* A lemma goes through three places before the checker adds
it: the RUP file, the buffer, where it has a negative number, and the GRAT file, where
it has its final one and which is read from its end. `Announces(s, n, m)` says that a
piece of the log announces the lemmas n + 1 to m, each of them, in their order; two
pieces that fit can be put together (`AnnouncesBoth`), and a piece written backwards
is one of the file (`BackwardsAnnounces`). Every action that appends to the RUP file
logs items that announce exactly what it appends (`StepLogs`); the lemmas into which
long hints are packed in the middle of a step are the hard case. `LogInv` says that
the auxiliary files and the buffer, cut anywhere, announce the whole RUP file, and
that while they are written backwards the GRAT file announces the rest. `CheckInv`
follows the checker: the lemma items behind the current one are those whose numbers
it knows already. If the current one were not the next number, that number would be
announced by an item in front of it, but those are larger (`NextIsAnnounced`). The
theorem is about all proofs, legal or not; its premise `NumbersFit` is that the CNF
file has as many clauses as `CertId(0)` says, and `NumbersDoFit` gives that premise:
without a formula where no two empty constraints share an axiom, and with the formula
of a false one where the file is padded (see *formula_numbers* below). The encoding of
a true formula is a fold over its clauses, so that its length cannot be proved; for
these the premise is not discharged, and without it the property rests on run `hints`.

*The strategy.* `DependenciesToTheLeft` speaks of everything that can be reached through
the gates. Three groups of invariants come first. `DataInv`: the entries of the prefix
stay in `var_data`, and what `check_reduction` adds to it are default entries.
`MiddleInv`: a clause between two steps of a chain is what `resolve` makes. `InsideInv`:
merged literals are behind the pivot, and reduced ones behind everything that is left;
it is here that the premise about the literals a line loses is needed. Then every
variable gets a *rank*, which is an upper bound of what its gate may see: 2d for a
variable of depth d. `RankInv` says that no gate sees a higher rank than its own, that
the phases of a variable are of lower rank than it, its effective literal is not higher,
and the rest of its array is one lower. The ranks are those of an existential
quantifier: a fresh variable gets one when it is made (`FreshRanks`), so that each action
has to extend the ranks so far. In the end, u and all variables of lower rank are closed
under gates, and `Support`, which starts at u, stays among them. The number of rounds in
`Support` is bounded by the gates, and that it never leaves a closed set is shown with
the first round that would (`SupportWithin`), so that no induction over data is needed.

The premise of the theorem is `Ordered`, about the lines read so far. It has five
parts. Without any one of the following four, and with the other four parts,
`DependenciesToTheLeft` does not hold; TLC finds a counterexample in a proof of three to
seven lines:

| Premise | Without it |
|---|---|
| `ReducedFromInside`: no literal that a line keeps is behind one of the same kind that it loses, unless a primary literal is behind that | run `partial_reduction` |
| `VariablesKnown`, as above | a fresh variable is one of a later axiom: with a {1}, e {2}, a {3} and the lines 1: 2 3, 2: 2 from 1, 3: 1 4, 4: 4 from 3, 5: -2 -4, 6: -4 from 2 and 5, 7: empty from 4 and 6, the array of 1 sees 4, which is made for line 2 and depends on 2 |
| `KindsAgree`, as above | the literals of a term are stored negated: with e {1}, a {2}, e {3}, of the clause 1 3, the term 1 3 derived from it loses both literals and keeps both negations, since no caller looks at the code of `check_reduction` for a literal that is new; the array of 1 sees 3 |
| `TermsOfPrefix`: a term has variables of the prefix only | `check_reduction` makes an entry of depth 0 for another one, and behind no universal literal `check_resolution` then reduces it (it asks only that the depth is not less, `1319`), whatever is left |

The fifth, `SpareIdIsFree`, is what the invariants about clauses and lines rest on; no
proof was found that needs it. A legal proof in which each line is reduced in full or not
at all meets `ReducedFromInside`, and every legal one in the format of Qute `KindsAgree`. `DependenciesToTheLeft` is checked on `translator`
without the premises, and TLC has shown that there are inputs among them on which
`Ordered` holds, variables are merged, arrays are extended, and the certificate is complete.

The inductive invariants `SearchInv`, `CoresInv`, `CountInv`, `ForgetInv`, `LookupInv`
and `CircuitInv`, with those they rest on, and `DataInv`, `MiddleInv` and `InsideInv`, were checked by TLC on
the inputs of `translator` before they were proved (`RankInv` is an existential over ranks
and was not), `LogInv` and `CheckInv` on those of `hints`. That is how it was
found that the loop at `proof_translator.cc:1035`, which is to clear the phases of
reduced literals from the resolvent, does nothing: `reduced_lits` has been cleared at
`969`. `PushArrays` says so too. It is harmless, since a literal that was reduced is not
looked up again.

### What is only model-checked

`EventuallyAccepted` and `Terminates` are liveness and out of reach of the prover.
`HintsAccepted`
relates the files to each other through a checker, and holds of legal proofs only. Its
proof would need what the clauses of a step say together, for each of the sequences of
lemmas that a step may be translated to; what is proved of it are the parts: that the
numbers are those of the clauses they are for, that no lookup misses, and that the
lemmas come in their order.

## Where the code and its documentation differ

Eight runs end with a counterexample; the behaviour is that of the code.

| Run | Document | Code |
|---|---|---|
| `exit_code` | README:30, checks the correctness | a failed check returns -1, converted to `true`; exit code 0, incomplete files stay (`proof_translator.cc:275`, `290`, `qrp2rup.cc:117`) |
| `formula_numbers` | README:30, hints for `gratchk` | with a QDIMACS file of a false formula `num_cnf_clauses` is set and then increased again by `find_core` (`io.cc:217`); all hints are off. The same happens with a true formula |
| `partial_reduction` | README:30, a winning strategy | dropping the outer of two trailing literals makes its variable depend on the inner one (`proof_translator.cc:543`) |
| `dummy_axiom` | comment at `proof_translator.cc:234` | a dummy reduction of an axiom gives it a last use (`1021`); it is forgotten and missing in the CNF file |
| `enumeration` | README:39, enumeration proofs (experimental) | the unit of the first refutation stays assigned (`proof_translator.cc:986`), and axioms are counted once per empty constraint (`io.cc:217`): hints of the second are refused |
| `safety_reduction` | comment at `proof_translator.cc:1125-1131` | the type of the reduct is read beyond the end of `constraint_type` (`89`, `543`); where it reads 0, nothing is collected and the strategy has no entry for the removed literals |
| `qrp_formula` | comment at `proof_translator.hh:73` | `primary_type` is 1 by default and a QRP refutation never changes it: with its formula it is translated as if that were true |
| `aux_names` | comment at `proof_translator.cc:1074` | an axiom with an auxiliary variable that comes behind a reduction finds that variable handed out as a fresh one |

Two smaller ones have no run. The comment at `proof_translator.cc:1200` says that
`check_resolution` verifies that the resolvent is indeed one; it asks nothing of
the pivot, and accepts a resolvent that still has it. The comment at
`1466-1470` lists the codes of `check_reduction`; the code for a literal that does
not trail is 1, that for success (`1486`), and no caller looks at it.

The passing runs state their properties around these: the inputs of `hints` and
`translator` have no partial reductions of this kind; `hints` pads the CNF of a
formula, reads 1 for the type of a spare id and has no two refutations of the
same axioms; `AcceptedAreResolvents` is about lines that lost their pivot.

## Not modelled

- Headers of the output files, tokenizing, comments: parsing and layout. A QDIMACS
  file is a sequence of clauses, a proof a sequence of lines.
- `.qrat` output: nothing reads it and no counter depends on it.
- Options, `-v`, statistics, file access: output, but for the number of core
  axioms, which numbers the axioms and is modelled.
- `delinfo`, `no_delete`, `to_delete`: collected, never written.
- The loops inside `read_prefix` and the two parsers of the proof's structure:
  `FirstPass` has their results, and their early returns.
- `AIGCircuit`: a stub, and selected together with hints that count the clauses of
  the CNF circuit. `rfao_node.hh`, `memory_unsigned_int.hh`: not built.
- `gratchk` itself is an external program; the checker of the repository,
  `grat-diagnoser.py`, is modelled in its place.

## Plan

Done, in this order: the core (`Literals`, `StepRules`, `GratManager`,
`PhaseTable`, `Translator`, `CheckedTranslation`, `Correctness`), the step checks
with their calculus, the GRAT stream and its log; then the first pass with its
search, the mode with the formula of a true QBF, the QRP format as far as control
depends on it, core files, broken proofs, the oracle; then the theorems about
numbers, phases and step checks; then those about the first pass, core files, the
count of axioms, lifetimes, lookups, the circuit, the order of the lemmas, and the
strategy.

Left, of the model: the counts in the header of the combined CNF (`io.cc:314`,
`425`), and the files that `main` removes, against an abstract specification of a
run (accepted, rejected, crashed).

Left, of the proofs: that the hints of a single step are accepted, once the hints of
its parents are, as a lemma about `SplitAndShadow` to `PushArrays` and the checker;
`HintsAccepted` would follow by induction over the lines.
