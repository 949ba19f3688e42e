----------------------------- MODULE Correctness -----------------------------
(***************************************************************************)
(* What the translation of a proof has to keep true while it runs.  A      *)
(* checker of the files judges them only when they are complete (module    *)
(* CheckedTranslation); these properties say why it will accept them, and  *)
(* what it cannot see: that the certificate is a strategy.                 *)
(***************************************************************************)
EXTENDS Translator

Locations == {"start", "search", "line", "chain", "check", "merge", "eflit", "split", "g",
              "gates", "merged", "emit", "return", "failed", "grat", "combine",
              "end"}

Reading == pc \notin {"start", "search", "failed", "grat", "combine", "end"}

\* The lines after the one being read, by position.
Ahead == {i \in DOMAIN proofLines : i > next}

\* No axiom so far was missing from the formula.
AxiomsFound == input.have_formula => last_orig_clause_seen <= Len(input.matrix)

\* The lines read before this one.
ReadIds == {proofLines[i].id : i \in {j \in DOMAIN proofLines : j < next}}

(* Type invariant: the control state, the counters, and maps whose values are
   variables already created or clauses already written. *)
TypeOK ==
    /\ pc \in Locations
    /\ exit_code \in {-1, 0, 1, 139}
    /\ next \in 1..(Len(proofLines) + 1)
    /\ max_var \in 0..(CONST_TRUE - 1)
    /\ num_cnf_clauses \in Nat /\ num_core_axioms \in Nat
    /\ Range(phase) \subseteq 1..max_var
    /\ Range(eflit) \subseteq 1..max_var
    /\ Range(countermodel_out_var) \subseteq 1..max_var
    /\ DOMAIN prop_pos = DOMAIN countermodel_out_var
    /\ DOMAIN prop_neg = DOMAIN countermodel_out_var
    /\ chain.i \in Nat /\ chain.spare \in {0, 1}

-----------------------------------------------------------------------------
(* Proofs on which forget() frees too early, and proofs on which a GRAT id is
   never known, are excluded where this matters:
   - the reduction of an initial term makes an entry in last_use_of for the
     first spare id, and a line behind the last empty constraint that has this
     id is then taken for a core line, although its parents were not kept;
   - a reduction of nothing gives its premise the last use of the reduct; when
     the line that uses the reduct last also has the premise for a parent, the
     premise is freed there, whoever needs it later;
   - an empty constraint derived without a reduction has no GRAT id;
   - a line that loses one literal of a merged pair and keeps the other is
     accepted, and when the literal that is kept has been merged everywhere, the
     line has an empty shadow clause and no GRAT id.  In the calculus a pair is
     reduced as a whole;
   - the same comes of a clause derived from a term, whose literals are negated
     when they are read: nothing looks whether a line and its parents are of one
     kind. *)
SpareIdIsFree == TrueFormula => spare_id \notin LineIds(input.lines)

UsesAreSeparate ==
    \A i \in DOMAIN input.lines : \A p, d \in Range(input.lines[i].parents) :
        ParentsOf(input.lines, d) # <<p>>

EmptyIsNoParent ==
    \A i, j \in DOMAIN input.lines :
        input.lines[j].id \in Range(input.lines[i].parents) => input.lines[j].lits # {}

PairsStayWhole ==
    \A i \in DOMAIN input.lines : \A l \in input.lines[i].lits :
        (\E j \in DOMAIN input.lines : /\ input.lines[j].id \in Range(input.lines[i].parents)
                                      /\ -l \in input.lines[j].lits)
        => -l \in input.lines[i].lits

\* Of the lines read so far: a type, once recorded, stays.
KindsAgree ==
    \A i \in DOMAIN input.lines : \A p \in Range(input.lines[i].parents) :
        {input.lines[i].id, p} \subseteq DOMAIN constraint_type
            => constraint_type[input.lines[i].id] = constraint_type[p]

\* No literal of the clause is left in its shadow clause.
EmptyShadow(id) == \A l \in Clause(id) : l < 0 /\ GetEflit(l, GetPhase(id, l)) # l

-----------------------------------------------------------------------------
(* The maps that a hint is looked up in are read with operator[], which
   answers 0 for a key it does not know; a 0 in the GRAT file ends a list of
   hints.  As long as every axiom was found in the formula, no lookup of a
   clause, a GRAT id, a phase definition, an effective literal or a shortcut
   ever misses. *)
NoDefaultInserted ==
    /\ AxiomsFound /\ SpareIdIsFree
    /\ UsesAreSeparate /\ EmptyIsNoParent /\ PairsStayWhole /\ KindsAgree
    => default_inserted = {}

(* A literal whose variable has been merged stands in the shadow clause under
   its effective literal; a phase without one would let shadow() and the
   reductions print the merged literal itself.  A phase is recorded before the
   effective literal is made, so only the merge in progress is excused. *)
PhasesHaveEflits ==
    \A k \in DOMAIN phase :
        \/ <<k[2], phase[k]>> \in DOMAIN eflit
        \/ pc = "eflit" /\ k[2] = VarOf(step.lit) /\ phase[k] = step.phi

(* The spare ids of intermediate resolvents are used again and again; phases
   left over from an earlier use would be mistaken for those of the new
   clause, because insert() and copy_phases never overwrite one. *)
NoStalePhase ==
    pc = "check" /\ SpareIdIsFree => \A k \in DOMAIN phase : k[1] # call.resolvent

(* A clause is named in a hint by the number that a counter had when the
   clause was written, while update_phase counts its clauses by hand.  Every
   number remembered for a phase, an effective literal or a shortcut names a
   clause about it. *)
CertClause(id) == cert[id - num_cnf_clauses]

NumbersNameTheirClauses ==
    /\ num_clauses = Len(cert)
    /\ \A k \in DOMAIN phase_def :
            /\ phase_def[k] - num_cnf_clauses \in DOMAIN cert
            /\ Head(CertClause(phase_def[k])) = k[1]
            /\ VarOf(Last(CertClause(phase_def[k]))) = k[2]
    /\ \A e \in DOMAIN eflit_def :
            /\ eflit_def[e] - num_cnf_clauses \in DOMAIN cert
            /\ Head(CertClause(eflit_def[e])) = -e
    /\ \A k \in DOMAIN eflit_shortcut :
            /\ eflit_shortcut[k] \in DOMAIN rup
            /\ rup[eflit_shortcut[k]][1] = k[2]
            /\ rup[eflit_shortcut[k]][2] = k[1]

(* Phase variables are shared: two merges have the same one exactly when they
   choose alike, on a pivot seen from either side; and a shared phase can be
   falsified from both sides. *)
PhasesSharedByMeaning ==
    /\ \A k1, k2 \in DOMAIN phase_cache : phase_cache[k1] = phase_cache[k2] => k1 = k2
    /\ \A k1, k2 \in DOMAIN phase_cache :
            (k1[1] = -k2[1] /\ k1[2] = k2[3] /\ k1[3] = k2[2]) => k1 = k2
    /\ \A k \in DOMAIN phase_cache :
            /\ <<k[1], phase_cache[k]>> \in DOMAIN phase_def
            /\ <<-k[1], phase_cache[k]>> \in DOMAIN phase_def

(* forget() frees what has been used for the last time, by the order of the
   lines that the first pass saw.  As long as every axiom was found in the
   formula, each parent of a core line still to come that has been read still
   has its clause and its GRAT id, which only a clause with an empty shadow
   clause never had. *)
KeptUntilLastUse ==
    Reading /\ AxiomsFound /\ SpareIdIsFree /\ UsesAreSeparate =>
        \A i \in Ahead : proofLines[i].id \in DOMAIN last_use_of =>
            \A p \in Range(proofLines[i].parents) \cap ReadIds :
                /\ p \in DOMAIN clause_database
                /\ p \in DOMAIN get_grat_id \/ EmptyShadow(p)

(* When there is no formula, the axioms of the proof are the formula that the
   certificate is combined with: none of them may be forgotten. *)
AxiomsKept == Range(axioms) \subseteq DOMAIN clause_database

(* The comment on the safety reduction of initial terms: a literal that should
   have been removed right after model generation is removed, and so has its
   entry in the strategy. *)
SafetyReductionDone ==
    pc = "return" /\ right = 0 /\ line.parents = <<>> =>
        Range(step.reduced_lits) = Clause(left) \ Clause(res)

-----------------------------------------------------------------------------
(* The first pass *)

\* The constraints of a set have their parents in it.
HasParents(ids) == \A id \in ids : Range(ParentsOf(input.lines, id)) \subseteq ids

\* What the sink is derived from, the sink included: the smallest such set.
Core(sink) ==
    LET all == LineIds(input.lines) \cup {sink}
    IN  {id \in all : \A ids \in SUBSET all : sink \in ids /\ HasParents(ids) => id \in ids}

(* The search visits a directed graph whose lines share their parents, once for
   every empty constraint, with a stack.  It finds all of the core and nothing
   else, and of each of its constraints the last one that uses it, whatever the
   order in which they were popped. *)
CoreFound ==
    SearchDone =>
        LET core == UNION {Core(search.sinks[i]) : i \in DOMAIN search.sinks}
        IN  /\ DOMAIN last_use_of = core
            /\ \A id \in core : last_use_of[id] =
                   Max({0} \cup {c \in core : id \in Range(ParentsOf(input.lines, c))})

(* The clauses that the first pass counts are those that the second pass puts
   in front of the certificate.  Axioms of two empty constraints are counted
   twice, and an empty constraint that does not exist has none. *)
AxiomsCounted ==
    (/\ pc = "end" /\ cnf # <<>> /\ ~input.have_formula
     /\ 0 \notin Range(search.sinks)
     /\ \A i \in DOMAIN axioms : Cardinality(sinks_of[axioms[i]]) = 1)
    => num_cnf_clauses + Len(cert) = Len(cnf)

(* A core file is a proof of its empty constraint: every line comes behind its
   parents, every line but the last has a use, and the last one is the empty
   constraint. *)
CoreFilesAreProofs ==
    pc \in {"grat", "combine"} =>
        \A i \in DOMAIN cores :
            LET core == cores[i]
                parents(k) == Range(ParentsOf(input.lines, core[k]))
            IN  search.sinks[i] # 0 =>
                /\ core # <<>>
                /\ Last(core) = search.sinks[i]
                /\ \A k \in DOMAIN core : parents(k) \subseteq {core[j] : j \in 1..(k - 1)}
                /\ \A k \in 1..(Len(core) - 1) : \E j \in DOMAIN core : core[k] \in parents(j)

-----------------------------------------------------------------------------
(* The certificate as a circuit *)

Outputs == {gates[i].out : i \in DOMAIN gates}

InputVars == DOMAIN var_data \cup Range(clause_tseitin_variables)
             \cup UNION {VarsOf(Clause(axioms[i])) : i \in DOMAIN axioms}

(* The variables that the formula is known to have when the first line with
   parents is read: those of the prefix and, without a formula, the auxiliary
   ones of the axioms before.  A certificate is extracted for a proof that has
   no others; an axiom that introduces one too late is a case of its own, see
   AuxiliaryKept. *)
AxiomsInFront ==
    {j \in DOMAIN proofLines : /\ ~input.have_formula
                               /\ proofLines[j].id \in DOMAIN sinks_of
                               /\ \A k \in 1..j : proofLines[k].parents = <<>>}

PrefixVars == UNION {input.prefix[i].vars : i \in DOMAIN input.prefix}

KnownVars ==
    PrefixVars \cup UNION {VarsOf(proofLines[j].lits) : j \in AxiomsInFront}

VariablesKnown == \A i \in DOMAIN proofLines : VarsOf(proofLines[i].lits) \subseteq KnownVars

(* A variable is defined once, and what is defined is a fresh variable or a
   reduced variable of the formula, never a variable that the formula uses for
   something else; the rest of a countermodel array is not defined yet. *)
DefinedOnce ==
    VariablesKnown =>
        /\ \A i, j \in DOMAIN gates : gates[i].out = gates[j].out => i = j
        /\ Outputs \cap InputVars \subseteq DOMAIN countermodel_out_var
        /\ Range(countermodel_out_var) \cap Outputs = {}

(* The comment on axioms without a formula: auxiliary variables are checked for,
   so that the certificate does not define one of them. *)
AuxiliaryKept ==
    Outputs \cap UNION {VarsOf(Clause(axioms[i])) : i \in DOMAIN axioms}
        \subseteq DOMAIN var_data

\* What a variable depends on, directly or through other gates.
GatesOf(vs) == {i \in DOMAIN gates : gates[i].out \in vs}

Support(v) ==
    LET reach[n \in 0..Len(gates)] ==
            IF n = 0 THEN {v}
            ELSE LET vs == reach[n - 1]
                 IN  vs \cup UNION {gates[i].ins : i \in GatesOf(vs)}
    IN  reach[Len(gates)] \ {v}

(* The certificate is a strategy: the function of a variable of the prefix
   depends only on variables quantified before it. *)
DependenciesToTheLeft ==
    pc = "end" /\ cnf # <<>> =>
        \A u \in DOMAIN countermodel_out_var :
            \A v \in Support(u) \cap DOMAIN var_data : Depth(var_data, v) < Depth(var_data, u)

-----------------------------------------------------------------------------
(* The exit code *)

(* A proof with an illegal step is rejected: when translate() gives up, and the
   files are not complete, main() exits with an error. *)
FailureReported == pc = "end" /\ cnf = <<>> => exit_code # 0

(* The comment on primary_type: a false formula is assumed by default.  Of a QRP
   proof that says so, the clauses of the formula are those of the CNF file. *)
FormulaKept ==
    pc = "end" /\ cnf # <<>> /\ input.have_formula /\ input.result = "unsat"
        => Range(input.matrix) \subseteq Range(cnf)

(* Whatever the proof, legal or not, the search, the loop that removes from the
   vector it walks and the loop over the parents come to an end, unless a QRP
   proof without a result line is read for ever. *)
Terminates == ~AwaitsResultLine ~> pc = "end"

-----------------------------------------------------------------------------
(* The numbers that hints were written with stay valid: the certificate and
   the lemmas are only appended to, and a clause number, once handed out, is
   never handed out for something else. *)
Extends(f, g) == DOMAIN g \subseteq DOMAIN f /\ \A k \in DOMAIN g : f[k] = g[k]

HintsStayValid ==
    [][/\ Extends(cert', cert)
       /\ Extends(rup', rup)
       /\ Extends(eflit', eflit)
       /\ Extends(phase_cache', phase_cache)
       /\ Extends(eflit_def', eflit_def)
       /\ Extends(phase_def', phase_def)
       /\ Extends(eflit_shortcut', eflit_shortcut)]_vars
=============================================================================
