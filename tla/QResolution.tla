----------------------------- MODULE QResolution -----------------------------
(***************************************************************************)
(* Long-distance Q-resolution, the calculus of the proofs the program is   *)
(* given, stated independently of the code: the reference its checks are   *)
(* compared with, and the steps of the solver that writes the proofs.      *)
(* vd gives every variable a depth and a type; variables of type ptype are *)
(* resolved upon, the others merged and reduced.                           *)
(***************************************************************************)
EXTENDS Literals, FiniteSetsExt

Primary(vd, ptype, l) == vd[VarOf(l)].type = ptype
Level(vd, l) == vd[VarOf(l)].depth

\* c1 and c2 resolve on the primary literal p of c1: no other primary literal
\* clashes, and the secondary ones that do are to the right of p.
Resolvable(vd, ptype, c1, c2, p) ==
    /\ p \in c1 /\ -p \in c2 /\ Primary(vd, ptype, p)
    /\ \A l \in c1 : -l \in c2 =>
          l = p \/ (~Primary(vd, ptype, l) /\ Level(vd, l) > Level(vd, p))

Resolvent(c1, c2, p) == (c1 \ {p}) \cup (c2 \ {-p})

\* A secondary literal may be dropped if every primary one is to its left.
Reducible(vd, ptype, c) ==
    {l \in c : ~Primary(vd, ptype, l)
               /\ \A m \in c : Primary(vd, ptype, m) => Level(vd, m) < Level(vd, l)}

Reduced(vd, ptype, c) == c \ Reducible(vd, ptype, c)

\* The clauses c may be reduced to in one step, c itself among them.
Reducts(vd, ptype, c) == {c \ s : s \in SUBSET Reducible(vd, ptype, c)}
=============================================================================
