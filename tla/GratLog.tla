------------------------------- MODULE GratLog -------------------------------
(***************************************************************************)
(* What GRATManager promises: a log of the hints in the order they are     *)
(* produced, and on closing a file that is the log, read from its end,     *)
(* with every clause of the RUP file numbered behind those of the CNF.     *)
(***************************************************************************)
EXTENDS Integers, Sequences

CONSTANTS
    Entries,                \* what is appended at a time: sequences of items
    Renumber(_)             \* an item as it is written

VARIABLES log, closed, file

Init ==
    /\ log = <<>>
    /\ closed = FALSE
    /\ file = <<>>

Write(items) ==
    /\ ~closed
    /\ log' = log \o items
    /\ UNCHANGED <<closed, file>>

Close ==
    /\ ~closed
    /\ closed' = TRUE
    /\ file' = [i \in 1..Len(log) |-> Renumber(log[Len(log) + 1 - i])]
    /\ UNCHANGED log

Next == Close \/ \E items \in Entries : Write(items)

Spec == Init /\ [][Next]_<<log, closed, file>>
=============================================================================
