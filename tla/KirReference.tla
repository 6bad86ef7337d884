---------------------------- MODULE KirReference ----------------------------
(***************************************************************************)
(* What a caller may assume of running a traced graph, whichever executor  *)
(* runs it: a call takes argument values and either returns the value the  *)
(* reference interpreter run() (python/kansai/kir.py) gives, or raises;    *)
(* a value once returned never changes while the caller keeps it.          *)
(***************************************************************************)
EXTENDS KirGraph

CONSTANT MaxCalls

VARIABLES
  graph,       \* the traced graph
  calls,       \* calls begun so far
  running,     \* whether a call is in progress
  args,        \* its arguments: placeholder -> value
  results      \* call -> value returned, while the caller keeps it

vars == <<graph, calls, running, args, results>>

Placeholders == {i \in Nodes(graph) : graph.op[i] = "placeholder"}

Init ==
  /\ WellFormed(graph)
  /\ calls = 0
  /\ running = FALSE
  /\ args = << >>
  /\ results = << >>

(* An argument is a tensor of the caller's own or an earlier result.       *)
Begin ==
  /\ ~running
  /\ calls < MaxCalls
  /\ running' = TRUE
  /\ calls' = calls + 1
  /\ \E arg \in [Placeholders -> {0} \cup DOMAIN results] :
       args' = [i \in Placeholders |-> IF arg[i] = 0 THEN Leaf(i) ELSE results[arg[i]]]
  /\ UNCHANGED <<graph, results>>

Return ==
  /\ running
  /\ running' = FALSE
  /\ results' = [c \in DOMAIN results \cup {calls} |->
                   IF c = calls THEN RunValues(graph, args)[graph.out] ELSE results[c]]
  /\ args' = << >>
  /\ UNCHANGED <<graph, calls>>

Raise ==
  /\ running
  /\ running' = FALSE
  /\ args' = << >>
  /\ UNCHANGED <<graph, calls, results>>

Forget ==
  /\ ~running
  /\ \E c \in DOMAIN results :
       results' = [d \in DOMAIN results \ {c} |-> results[d]]
  /\ UNCHANGED <<graph, calls, running, args>>

Next == Begin \/ Return \/ Raise \/ Forget

Spec == Init /\ [][Next]_vars
=============================================================================
