----------------------------- MODULE OneAnswer -----------------------------
(***************************************************************************)
(* What a call promises that is computed in many places: one answer, the   *)
(* one that a single place would give, and nothing before it.              *)
(***************************************************************************)
CONSTANT Pending

VARIABLES
  due,          \* what a single place answers
  answer

Init == answer = Pending

Reply ==
  /\ answer = Pending
  /\ answer' = due
  /\ UNCHANGED due

Spec == Init /\ [][Reply]_<<due, answer>> /\ WF_<<due, answer>>(Reply)
=============================================================================
