---------------------------- MODULE MCPlannedDocs ----------------------------
(***************************************************************************)
(* Two traced programs that show where run_planned and its pool differ     *)
(* from what their comments promise.                                       *)
(***************************************************************************)
EXTENDS PlannedRun

(* a = relu(x); b = a.transpose(); c = a.matmul(b); d = c.matmul(a) with x *)
(* twice as tall as wide: the product a b has twice the size of a.         *)
LinearAttention ==
  {[n |-> 5,
    op |-> <<"placeholder", "compute", "compute", "compute", "compute">>,
    ins |-> << << >>, <<1>>, <<2>>, <<2, 3>>, <<4, 2>> >>,
    bytes |-> <<1, 1, 1, 2, 1>>,
    out |-> 5,
    trainable |-> {}]}

(* The chain x * w * w * w where w is a weight that requires grad, as   *)
(* every parameter of an nn.Module does.                                   *)
TrainableChain ==
  {[n |-> 5,
    op |-> <<"placeholder", "constant", "compute", "compute", "compute">>,
    ins |-> << << >>, << >>, <<1, 2>>, <<3, 2>>, <<4, 2>> >>,
    bytes |-> <<1, 1, 1, 1, 1>>,
    out |-> 5,
    trainable |-> {2}]}

(* The loop of tests/test_kir_memory_planner.py:88-91: call, read the      *)
(* result, hand its buffer back, call again.  Nothing fails and nothing is *)
(* kept.                                                                   *)
LoopNext ==
  \/ Plan
  \/ held = << >> /\ Begin
  \/ BindLeaf
  \/ ComputeInFreeBuffer
  \/ ComputeInNewBuffer
  \/ ReleaseOperand
  \/ NextNode
  \/ Return
  \/ \E c \in 1..MaxCalls : GiveBack(c)

LoopSpec == Init /\ [][LoopNext]_vars
=============================================================================
