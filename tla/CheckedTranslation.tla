-------------------------- MODULE CheckedTranslation --------------------------
(***************************************************************************)
(* The translator and, after it has exited with success, a checker that    *)
(* reads the files it wrote: helpers/grat-diagnoser.py, which stands for   *)
(* gratchk.  The GRAT file is read backwards; one item is checked at a     *)
(* time.  A clause named as a unit must be unit, not satisfied and not     *)
(* empty, and one named as a conflict must be falsified.                   *)
(***************************************************************************)
EXTENDS Translator

\* With a formula, num_cnf_clauses counts more clauses than the CNF file has, and
\* all the numbers of the certificate are off (run formula_numbers).  So that the
\* rest of the hints can be checked, the file is then padded to that size.
CONSTANT Padded

ASSUME CheckerAssumption == Padded \in BOOLEAN

VARIABLES
    clauses,                \* the CNF, extended by the lemmas checked so far
    permanent,              \* permanent_assignment
    temporary,              \* temporary_assignment, while a lemma is checked
    head,                   \* the item being checked, ...
    unit,                   \* ... and its next unit; 0 when it is not begun
    ids_seen,               \* lemma numbers that occurred
    verdict

checkerVars == <<clauses, permanent, temporary, head, unit, ids_seen, verdict>>
allVars == <<vars, checkerVars>>

CheckerInit ==
    /\ clauses = <<>>
    /\ permanent = {}
    /\ temporary = {}
    /\ head = 1
    /\ unit = 0
    /\ ids_seen = {}
    /\ verdict = "waiting"

\* The clauses of the formula, the padding, and the certificate; the top-level
\* clause of a true formula stays the last one before the certificate.
PaddedCnf ==
    LET n   == Len(cnf) - Len(cert) - (IF TrueFormula THEN 1 ELSE 0)
        pad == [i \in 1..(CertId(0) - Len(cnf)) |-> <<1, -1>>]
    IN  SubSeq(cnf, 1, n) \o pad \o SubSeq(cnf, n + 1, Len(cnf))

CheckedCnf == IF Padded /\ input.have_formula THEN PaddedCnf ELSE cnf

\* load_cnf, load_rup and load_grat
StartChecker ==
    /\ pc = "end" /\ exit_code = 0 /\ grat # <<>> /\ verdict = "waiting"
    /\ clauses' = CheckedCnf
    /\ verdict' = "checking"
    /\ UNCHANGED <<vars, permanent, temporary, head, unit, ids_seen>>

item == grat[Len(grat) + 1 - head]
assignment == permanent \cup temporary

\* is_unit: the literal that the clause makes true, 0 if it is none.
IsUnit(id) ==
    IF id \notin DOMAIN clauses THEN 0
    ELSE LET c == clauses[id]
             undecided == {i \in DOMAIN c : -c[i] \notin assignment}
         IN  IF Range(c) \cap assignment = {} /\ Cardinality(undecided) = 1
             THEN c[CHOOSE i \in undecided : TRUE] ELSE 0

\* is_empty: no literal is true, and every one is false; a lemma's assumptions may make
\* a literal both.
IsEmpty(id) ==
    /\ id \in DOMAIN clauses
    /\ Range(clauses[id]) \cap assignment = {}
    /\ Negated(Range(clauses[id])) \subseteq assignment

EndOfItem(ok) ==
    /\ head' = head + 1
    /\ unit' = 0
    /\ verdict' = IF ~ok THEN "bug" ELSE IF head = Len(grat) THEN "ok" ELSE "checking"

\* An item is begun.  The lemma checked is the next one of the RUP file,
\* whatever number the item gives it: its literals are assumed false.
Lemma == rup[Len(clauses) - Len(CheckedCnf) + 1]

BeginItem ==
    /\ verdict = "checking" /\ unit = 0 /\ item.tag \in {1, 3}
    /\ unit' = 1
    /\ IF item.tag = 3
       THEN /\ temporary' = Negated(Range(Lemma))
            /\ ids_seen' = ids_seen \cup {item.lemma}
            /\ verdict' = IF item.lemma \in ids_seen THEN "bug" ELSE verdict
       ELSE UNCHANGED <<temporary, ids_seen, verdict>>
    /\ UNCHANGED <<vars, clauses, permanent, head>>

Propagate ==
    LET l == IsUnit(item.units[unit])
    IN  /\ verdict = "checking" /\ unit \in DOMAIN item.units
        /\ IF l = 0 THEN UNCHANGED <<permanent, temporary>>
           ELSE IF item.tag = 1 THEN permanent' = permanent \cup {l} /\ UNCHANGED temporary
           ELSE temporary' = temporary \cup {l} /\ UNCHANGED permanent
        /\ verdict' = IF l = 0 THEN "bug" ELSE verdict
        /\ unit' = unit + 1
        /\ UNCHANGED <<vars, clauses, head, ids_seen>>

EndUnits ==
    /\ verdict = "checking" /\ item.tag = 1 /\ unit > Len(item.units)
    /\ EndOfItem(TRUE)
    /\ UNCHANGED <<vars, clauses, permanent, temporary, ids_seen>>

EndLemma ==
    LET ok == IsEmpty(item.conflict)
    IN  /\ verdict = "checking" /\ item.tag = 3 /\ unit > Len(item.units)
        /\ clauses' = IF ok THEN Append(clauses, Lemma) ELSE clauses
        /\ temporary' = IF ok THEN {} ELSE temporary
        /\ EndOfItem(ok)
        /\ UNCHANGED <<vars, permanent, ids_seen>>

CheckConflict ==
    /\ verdict = "checking" /\ item.tag = 5
    /\ EndOfItem(IsEmpty(item.conflict))
    /\ UNCHANGED <<vars, clauses, permanent, temporary, ids_seen>>

SkipMode ==
    /\ verdict = "checking" /\ item.tag = 6
    /\ EndOfItem(TRUE)
    /\ UNCHANGED <<vars, clauses, permanent, temporary, ids_seen>>

Check == StartChecker \/ BeginItem \/ Propagate \/ EndUnits \/ EndLemma
         \/ CheckConflict \/ SkipMode

\* Nothing is left to do.
Stop ==
    /\ pc = "end"
    /\ verdict \in {"ok", "bug"} \/ exit_code # 0 \/ grat = <<>>
    /\ UNCHANGED allVars

Translation == Translate /\ UNCHANGED checkerVars

CheckedNext == Translation \/ Check \/ Stop

CheckedSpec ==
    /\ Init /\ CheckerInit
    /\ [][CheckedNext]_allVars
    /\ WF_allVars(Translation)
    /\ WF_allVars(Check)

-----------------------------------------------------------------------------
(* Every hint of the GRAT file does what it is for: a clause announced as unit
   is unit at that moment, under the assignment that the hints before it have
   built, and a clause announced as a conflict is falsified.  The proof is
   accepted by a checker that searches for nothing. *)
HintsAccepted == verdict # "bug"

(* The lemma that an item announces is the next clause of the RUP file, by the
   number under which later hints refer to it. *)
LemmasNumberedInOrder ==
    unit # 0 /\ item.tag = 3 => item.lemma = Len(clauses) + 1

(* Every legal proof is translated to the end, without a failure or a crash,
   and what has been written is accepted. *)
EventuallyAccepted == <>(verdict = "ok")
=============================================================================
