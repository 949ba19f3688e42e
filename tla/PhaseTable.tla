------------------------------ MODULE PhaseTable ------------------------------
(***************************************************************************)
(* Phases and effective literals.                                          *)
(*                                                                         *)
(* When a long-distance step merges the literals x and -x of a secondary   *)
(* variable, the translator stands for the pair with a phase variable, an  *)
(* if-then-else on the pivot of the two parents' phases, and with an       *)
(* effective literal, the equivalence of x and its phase.  Phase variables *)
(* are shared between equal merges.  The defining clauses go to the        *)
(* certificate, and two or more shortcut lemmas that let a parent's        *)
(* effective literal be falsified by the child's go to the RUP file, each  *)
(* with its GRAT hints; five maps remember their numbers.                  *)
(***************************************************************************)
EXTENDS Literals, GratManager

CONSTANT CONST_TRUE         \* INT_MAX, the phase of a positive literal
CONST_FALSE == -CONST_TRUE

ASSUME ConstAssumption == CONST_TRUE \in Nat \ {0}

VARIABLES
    max_var,                \* the last variable in use
    num_cnf_clauses,        \* clauses before the certificate in the CNF file
    cert,                   \* the clauses of the certificate
    num_clauses,            \* cert->num_clauses, the counter kept beside them
    rup,                    \* the clauses of the RUP file
    phase,                  \* <<clause id, var>>  -> phase variable
    eflit,                  \* <<var, phase>>      -> effective literal
    phase_cache,            \* <<pivot, phases>>   -> phase variable
    merged_vars_in,         \* clause id -> the variables with a phase there
    phase_def,              \* <<pivot literal, phase>>  -> clause id
    eflit_def,              \* effective literal -> id of its first clause
    eflit_shortcut,         \* <<pivot literal, eflit>>  -> RUP clause
    default_inserted,       \* history: keys that operator[] had to create
    gates                   \* history: the definitions in the certificate

phaseMaps == <<phase, merged_vars_in>>
eflitMaps == <<eflit, phase_cache, phase_def, eflit_def, eflit_shortcut>>
fileVars  == <<cert, num_clauses, gates, rup>>
phaseVars == <<max_var, num_cnf_clauses, fileVars, phaseMaps, eflitMaps,
               default_inserted, gratVars>>

PhaseInit ==
    /\ cert = <<>>
    /\ num_clauses = 0
    /\ gates = <<>>
    /\ rup = <<>>
    /\ phase = EmptyMap
    /\ eflit = EmptyMap
    /\ phase_cache = EmptyMap
    /\ merged_vars_in = EmptyMap
    /\ phase_def = EmptyMap
    /\ eflit_def = EmptyMap
    /\ eflit_shortcut = EmptyMap
    /\ default_inserted = {}
    /\ GratInit

-----------------------------------------------------------------------------
\* A bound: variables are ints, and a translation that would need INT_MAX of
\* them (the name of the constant phase) stops here.
FreshAvailable(n) == max_var + n < CONST_TRUE

\* A counter that is read before it is increased.
StaleFresh(n) == max_var + n - 1

\* get_fresh_variable, for the n-th time in this step.
Fresh(n) == max_var + n

\* The number a clause of the certificate has, n places behind the last one.
CertId(n) == num_cnf_clauses + num_clauses + n

\* The output of a definition and the variables of its other literals.
Gate(out, ins) == [out |-> out, ins |-> {VarOf(ins[i]) : i \in DOMAIN ins}]

IsConst(phi) == phi \in {CONST_TRUE, CONST_FALSE}

GetPhase(id, lit) ==
    IF <<id, VarOf(lit)>> \in DOMAIN phase THEN phase[<<id, VarOf(lit)>>]
    ELSE IF lit > 0 THEN CONST_TRUE ELSE CONST_FALSE

EflitIn(map, lit, phi) ==
    IF <<VarOf(lit), phi>> \in DOMAIN map THEN map[<<VarOf(lit), phi>>] ELSE lit

GetEflit(lit, phi) == EflitIn(eflit, lit, phi)

\* A key that leaves out the pivot, and one that does not see the symmetry.
KeyWithoutPivot(pivot, left, right) == <<0, left, right>>

KeyOneSided(pivot, left, right) == <<pivot, left, right>>

\* PivotPhasesTuple: (p, l, r) and (-p, r, l) are the same key.
CacheKey(pivot, left, right) ==
    IF pivot > 0 THEN <<pivot, left, right>> ELSE <<-pivot, right, left>>

-----------------------------------------------------------------------------
(* update_phase: phi is the phase ph when the pivot literal piv is false. *)
PhaseClauses(piv, ph, phi) ==
    IF ph = CONST_TRUE THEN <<<<piv, phi>>>>
    ELSE IF ph = CONST_FALSE THEN <<<<piv, -phi>>>>
    ELSE <<<<piv, -ph, phi>>, <<piv, ph, -phi>>>>

UpdatePhase(pivot, left, right) ==
    LET phi   == Fresh(1)
        side1 == PhaseClauses(pivot, left, phi)
        side2 == PhaseClauses(-pivot, right, phi)
    IN  /\ FreshAvailable(1)
        /\ max_var' = phi
        /\ cert' = cert \o side1 \o side2
        /\ num_clauses' = num_clauses + Len(side1) + Len(side2)
        /\ gates' = Append(gates, [out |-> phi,
               ins |-> {VarOf(pivot)} \cup ({left, right} \ {CONST_TRUE, CONST_FALSE})])
        /\ phase_def' = Put(Put(phase_def, <<pivot, phi>>, CertId(1)),
                            <<-pivot, phi>>, CertId(1 + Len(side1)))
        /\ phase_cache' = Insert(phase_cache, CacheKey(pivot, left, right), phi)

-----------------------------------------------------------------------------
(* make_eflit, and the shortcut lemmas that the merge loop writes after it. *)
\* The second pair of clauses before the first.
EquivSwapped(e, var, phi) ==
    << <<e, var, phi>>, <<e, -var, -phi>>, <<-e, -var, phi>>, <<-e, var, -phi>> >>

EquivClauses(e, var, phi) ==
    << <<-e, -var, phi>>, <<-e, var, -phi>>, <<e, var, phi>>, <<e, -var, -phi>> >>

\* The case of a positive phase without its lemma's last literal.
SideUnguarded(e, piv, ef, ph) ==
    (IF ph = CONST_TRUE THEN <<>>
     ELSE IF ph = CONST_FALSE THEN << <<e, piv, -ef>> >>
     ELSE << <<e, piv, -ef, ph>> >>)
    \o (IF ph = CONST_FALSE THEN <<>> ELSE << <<e, piv>> >>)

\* The lemmas for one parent: piv is the pivot literal there, ef its effective
\* literal and ph its phase; e and phi are those of the child.
SideClauses(e, piv, ef, ph) ==
    (IF ph = CONST_TRUE THEN <<>>
     ELSE IF ph = CONST_FALSE THEN << <<e, piv, -ef>> >>
     ELSE << <<e, piv, -ef, ph>> >>)
    \o (IF ph = CONST_FALSE THEN <<>> ELSE << <<e, piv, -ef>> >>)

\* n is the number of RUP clauses before them, def_e the id of the first of
\* the clauses that define e.
SideItems(n, def_e, piv, ef, ph, phi) ==
    LET def_phi == Get(phase_def, <<piv, phi>>)
        def_ef  == Get(eflit_def, ef)
        first   == LemmaItem(-(n + 1),
                       IF ph = CONST_FALSE THEN <<def_phi>>
                       ELSE <<def_phi + 1, def_ef>>,
                       def_e + 2)
        second(k) == LemmaItem(-(n + k),
                       IF ph = CONST_TRUE THEN <<def_phi>>
                       ELSE <<-(n + k - 1), def_ef + 1, def_phi>>,
                       def_e + 3)
    IN  IF ph = CONST_TRUE THEN <<second(1)>>
        ELSE IF ph = CONST_FALSE THEN <<first>>
        ELSE <<first, second(2)>>

\* The keys these lemmas look up with operator[].
SideKeys(piv, ef, ph, phi) ==
    {<<"phase_def", <<piv, phi>>>>}
    \cup (IF IsConst(ph) THEN {} ELSE {<<"eflit_def", ef>>})

MissingKeys(keys) ==
    {k \in keys :
        \/ k[1] = "phase_def" /\ k[2] \notin DOMAIN phase_def
        \/ k[1] = "eflit_def" /\ k[2] \notin DOMAIN eflit_def
        \/ k[1] = "eflit_shortcut" /\ k[2] \notin DOMAIN eflit_shortcut}

MakeEflit(pivot, lit, left, right, phi) ==
    LET var  == VarOf(lit)
        e    == Fresh(1)
        def  == CertId(1)
        eflit2 == Insert(eflit, <<var, phi>>, e)
        ef1  == EflitIn(eflit2, lit, left)
        ef2  == EflitIn(eflit2, -lit, right)
        side1 == SideClauses(e, pivot, ef1, left)
        side2 == SideClauses(e, -pivot, ef2, right)
        n1   == Len(rup) + Len(side1)
    IN  /\ FreshAvailable(1)
        /\ max_var' = e
        /\ cert' = cert \o EquivClauses(e, var, phi)
        /\ num_clauses' = num_clauses + 4
        /\ gates' = Append(gates, Gate(e, <<var, phi>>))
        /\ eflit' = eflit2
        /\ eflit_def' = Put(eflit_def, e, def)
        /\ rup' = rup \o side1 \o side2
        /\ Emit(SideItems(Len(rup), def, pivot, ef1, left, phi)
                \o SideItems(n1, def, -pivot, ef2, right, phi))
        /\ eflit_shortcut' = Put(Put(eflit_shortcut, <<pivot, e>>, n1),
                                 <<-pivot, e>>, n1 + Len(side2))
        /\ default_inserted' = default_inserted
               \cup MissingKeys(SideKeys(pivot, ef1, left, phi)
                                \cup SideKeys(-pivot, ef2, right, phi))

-----------------------------------------------------------------------------
(* copy_phases(src, dest), given the literals of src's clause: phases that
   dest already has stay. *)
CopiedVars(ph, clause, src, dest) ==
    {v \in VarsOf(clause) : <<src, v>> \in DOMAIN ph /\ <<dest, v>> \notin DOMAIN ph}

CopyPhases(ph, clause, src, dest) ==
    LET keys == {<<dest, v>> : v \in CopiedVars(ph, clause, src, dest)}
    IN  [k \in DOMAIN ph \cup keys |->
            IF k \in keys THEN ph[<<src, k[2]>>] ELSE ph[k]]

\* Phases that nobody remembers to forget.
NoVarsIn(id) == {}

\* The part of forget(id) that concerns phases.
VarsIn(id) == IF id \in DOMAIN merged_vars_in THEN merged_vars_in[id] ELSE {}

ForgetPhases(ids) ==
    /\ phase' = Without(phase, {k \in DOMAIN phase : k[1] \in ids /\ k[2] \in VarsIn(k[1])})
    /\ merged_vars_in' = Without(merged_vars_in, ids)
=============================================================================
