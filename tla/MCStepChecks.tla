----------------------------- MODULE MCStepChecks -----------------------------
(* The step checks on every clause over three variables, behind both prefixes
   in which the middle variable is quantified differently from the others. *)
EXTENDS StepChecks

Alternating(q) == [v \in 1..3 |-> [depth |-> v, type |-> IF v = 2 THEN 1 - q ELSE q]]

Outer(q) == [v \in 1..3 |-> [depth |-> IF v = 1 THEN 1 ELSE 2, type |-> IF v = 1 THEN q ELSE 1 - q]]

ThreeVariables == {Alternating(0), Alternating(1), Outer(0), Outer(1)}
=============================================================================
