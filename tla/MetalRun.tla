------------------------------ MODULE MetalRun ------------------------------
(***************************************************************************)
(* run_metal of python/kansai/kir.py on a graph that has been fused, one   *)
(* action per node.  Bias additions, with or without relu, that follow one *)
(* another wait in a chain, which is sent to the device as one call when a *)
(* node comes that does not continue it.  Only the chain's last value is   *)
(* stored then.                                                            *)
(***************************************************************************)
EXTENDS KirPipeline

VARIABLES
  pos,          \* the node whose turn it is
  bound,        \* the dict values: node -> value
  chain,        \* the pending chain: sequence of [node, kind, bias]
  chainInput,   \* the node the chain starts from
  outcome       \* "idle", "running", "returned" or "raised"

metalVars == <<pos, bound, chain, chainInput, outcome>>

vars == <<pipelineVars, metalVars>>

Init ==
  /\ PipelineInit
  /\ pos = 0 /\ bound = << >> /\ chain = << >> /\ chainInput = 0
  /\ outcome = "idle"

(* _metal_elementwise_kind                                                 *)
Kind(i) ==
  LET node == graph.nodes[i]
  IN  IF node.op = "fused_bias_relu" THEN "bias_relu"
      ELSE IF node.op = "add"
              /\ IsBiasShape(graph.nodes[node.ins[1]].shape, graph.nodes[node.ins[2]].shape)
      THEN "add_bias"
      ELSE "none"

(* metal_elementwise_chain: every step adds its bias, and some clip.       *)
Link(value, step) ==
  Pairwise(value, step.bias, LAMBDA x, b :
    IF step.kind = "bias_relu" THEN Function("relu", 0, (x + b) % P) ELSE x + b)

ChainResult ==
  LET result[k \in 0..Len(chain)] ==
        IF k = 0 THEN bound[chainInput] ELSE Link(result[k - 1], chain[k])
  IN  result[Len(chain)]

(* flush_chain: the dict after it; it needs the chain's start in the dict. *)
CanFlush == chain # << >> => chainInput \in DOMAIN bound

(* Mutation of Flushed: the result of the chain is not stored.             *)
FlushedAway == bound

Flushed ==
  IF chain = << >> \/ ~CanFlush THEN bound
  ELSE [i \in DOMAIN bound \cup {Last(chain).node} |->
          IF i = Last(chain).node THEN ChainResult ELSE bound[i]]

With(values, i, v) == [j \in DOMAIN values \cup {i} |-> IF j = i THEN v ELSE values[j]]

StartMetal ==
  /\ phase = "passes"
  /\ vocab.metal
  /\ "fuse" \in ToSet(passes)
  /\ phase' = "metal"
  /\ outcome' = "running"
  /\ pos' = 1
  /\ bound' = [i \in ToSet(graph.inputs) |->
                 Argument(CHOOSE k \in DOMAIN graph.inputs : graph.inputs[k] = i,
                          graph.nodes[i].shape)]
  /\ UNCHANGED <<vocab, graph, called, passes, meaning, chain, chainInput>>

Turn(i) == outcome = "running" /\ i = pos /\ i \in DOMAIN graph.nodes

NextNode == pos' = pos + 1 /\ UNCHANGED <<pipelineVars, outcome>>

(* Placeholders and constants leave a pending chain alone.                 *)
MetalLeaf(i) ==
  /\ Turn(i)
  /\ IsLeaf(graph.nodes[i])
  /\ bound' = IF graph.nodes[i].op = "constant"
              THEN With(bound, i, ConstantValue(graph.nodes[i])) ELSE bound
  /\ NextNode
  /\ UNCHANGED <<chain, chainInput>>

Step(i, values) ==
  [node |-> i, kind |-> Kind(i), bias |-> values[graph.nodes[i].ins[2]]]

(* Mutation of Continues: any elementwise node joins the pending chain.    *)
ContinuesAnything(i) == chain # << >>

Continues(i) == chain # << >> /\ graph.nodes[i].ins[1] = Last(chain).node

ExtendChain(i) ==
  /\ Turn(i)
  /\ ~IsLeaf(graph.nodes[i]) /\ Kind(i) # "none"
  /\ Continues(i)
  /\ graph.nodes[i].ins[2] \in DOMAIN bound
  /\ chain' = Append(chain, Step(i, bound))
  /\ NextNode
  /\ UNCHANGED <<bound, chainInput>>

BeginChain(i) ==
  /\ Turn(i)
  /\ ~IsLeaf(graph.nodes[i]) /\ Kind(i) # "none"
  /\ ~Continues(i)
  /\ CanFlush
  /\ graph.nodes[i].ins[2] \in DOMAIN Flushed
  /\ bound' = Flushed
  /\ chainInput' = graph.nodes[i].ins[1]
  /\ chain' = <<Step(i, Flushed)>>
  /\ NextNode

(* Every other operator: the chain is sent first, then the node runs.      *)
Given(i) == [k \in DOMAIN graph.nodes[i].ins |-> Flushed[graph.nodes[i].ins[k]]]

Dispatch(i) ==
  /\ Turn(i)
  /\ ~IsLeaf(graph.nodes[i]) /\ Kind(i) = "none"
  /\ CanFlush
  /\ Operands(graph.nodes[i]) \subseteq DOMAIN Flushed
  /\ Fits(graph.nodes[i], Given(i))
  /\ bound' = With(Flushed, i, Eval(graph.nodes[i], Given(i)))
  /\ chain' = << >>
  /\ chainInput' = 0
  /\ NextNode

MetalReturns ==
  /\ outcome = "running" /\ pos = Len(graph.nodes) + 1
  /\ CanFlush
  /\ graph.output \in DOMAIN Flushed
  /\ bound' = Flushed
  /\ chain' = << >> /\ chainInput' = 0
  /\ outcome' = "returned"
  /\ UNCHANGED <<pipelineVars, pos>>

(* KeyError: a value is not in the dict.                                   *)
Missing ==
  IF pos > Len(graph.nodes) THEN ~CanFlush \/ graph.output \notin DOMAIN Flushed
  ELSE LET node == graph.nodes[pos]
       IN  /\ ~IsLeaf(node)
           /\ IF Kind(pos) # "none"
              THEN IF Continues(pos) THEN node.ins[2] \notin DOMAIN bound
                   ELSE ~CanFlush \/ node.ins[2] \notin DOMAIN Flushed
              ELSE ~CanFlush \/ ~(Operands(node) \subseteq DOMAIN Flushed)

(* Its operands are there, but the operator raises.                        *)
Refused ==
  /\ pos \in DOMAIN graph.nodes
  /\ ~IsLeaf(graph.nodes[pos]) /\ Kind(pos) = "none"
  /\ ~Missing /\ ~Fits(graph.nodes[pos], Given(pos))

MetalRaises ==
  /\ outcome = "running"
  /\ Missing \/ Refused
  /\ outcome' = "raised"
  /\ UNCHANGED <<pipelineVars, pos, bound, chain, chainInput>>

Metal ==
  \/ StartMetal
  \/ \E i \in DOMAIN graph.nodes :
       MetalLeaf(i) \/ ExtendChain(i) \/ BeginChain(i) \/ Dispatch(i)
  \/ MetalReturns
  \/ MetalRaises

Next ==
  \/ (Tracing \/ Rewrite) /\ UNCHANGED metalVars
  \/ Metal

Spec == Init /\ [][Next]_vars

(***************************************************************************)
(* Properties                                                              *)
(***************************************************************************)
(* When run_metal returns, it returns what run() computes: chains run in   *)
(* order, with the biases they were given (kir.py:1587-1593).              *)
MetalMatchesRun ==
  outcome = "returned" /\ meaning # << >> => <<bound[graph.output]>> = meaning

(* run_metal raises for one reason only where run() does not: a bias       *)
(* addition that another one continues is read a second time, by a node or *)
(* by the caller, and the chain stored its last value only                 *)
(* (kir.py:1660-1667).                                                     *)
ReadBesidesItsChain(i) ==
  /\ ~IsLeaf(graph.nodes[i]) /\ Kind(i) # "none"
  /\ \E j \in DOMAIN graph.nodes :
       /\ ~IsLeaf(graph.nodes[j]) /\ Kind(j) # "none"
       /\ graph.nodes[j].ins[1] = i
       /\ Consumers(graph, i) \ {j} # {}

MetalRaisesOnlyOnChains ==
  outcome = "raised" /\ Runs(graph) => \E i \in DOMAIN graph.nodes : ReadBesidesItsChain(i)
=============================================================================
