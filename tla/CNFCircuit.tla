----------------------------- MODULE CNFCircuit -----------------------------
(***************************************************************************)
(* The gates of CNFCircuit, as the clauses that define them.               *)
(***************************************************************************)
EXTENDS Integers, Sequences

OrGate(out, ins) ==
    [i \in DOMAIN ins |-> <<-ins[i], out>>] \o <<Append(ins, -out)>>

AndGate(out, ins) ==
    [i \in DOMAIN ins |-> <<ins[i], -out>>] \o <<Append([i \in DOMAIN ins |-> -ins[i]], out)>>
=============================================================================
