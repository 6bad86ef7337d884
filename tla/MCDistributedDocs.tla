-------------------------- MODULE MCDistributedDocs --------------------------
(***************************************************************************)
(* What the docstring of dtensor_grad says of a loss averaged over the     *)
(* batch, against what dtensor_grad does.                                  *)
(***************************************************************************)
EXTENDS MCDistributed

(* mean(x + b), traced on two rows: the loss reads the bias directly.      *)
Biased ==
  [nodes |-> <<Node("placeholder", << >>, <<2, 2>>, << >>),
               Node("constant", << >>, <<2>>, <<1, 2>>),
               Node("add", <<1, 2>>, <<2, 2>>, << >>),
               Node("mean", <<3>>, <<1>>, << >>)>>,
   inputs |-> <<1>>, output |-> 4]

DocJobs ==
  {LET call == Backward(g, <<2>>, 2)
   IN  [grad |-> TRUE, graph |-> g, wrt |-> <<2>>, outs |-> call.outs,
        arguments |-> call.arguments, placed |-> call.placed,
        mesh |-> mesh, broken |-> {}, oneMesh |-> TRUE] :
     g \in {Biased, Loss("mean", 2)}, mesh \in Meshes \ {<<"metal", "cpu", "cpu">>}}

(* "Each device's local gradient is therefore already exactly 'this        *)
(* shard's contribution to the full-batch mean,' and summing them via      *)
(* all-reduce reconstructs the true full-batch-mean gradient"              *)
(* (distributed.py:334-341).                                               *)
SummedShardsAreTheMean == stage = "returned" => answer = due
=============================================================================
