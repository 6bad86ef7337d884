----------------------------- MODULE KirPasses -----------------------------
(***************************************************************************)
(* The rewrites of python/kansai/kir.py: dead code elimination and the     *)
(* fusion of elementwise chains.                                           *)
(***************************************************************************)
EXTENDS KirRun

(***************************************************************************)
(* dead_code_elimination                                                   *)
(***************************************************************************)
(* What the worklist reaches from a set of nodes.                          *)
ReachedFrom(g, start) ==
  LET n == Len(g.nodes)
      reached[i \in 1..(n + 1)] ==
        IF i = n + 1 THEN start
        ELSE IF i \in reached[i + 1] THEN reached[i + 1] \cup Operands(g.nodes[i])
        ELSE reached[i + 1]
  IN  reached[1]

(* Mutation of Kept: placeholders nothing reads are dropped.               *)
KeptFromOutput(g) == ReachedFrom(g, {g.output})

(* Mutation of Kept: constants are kept whether they are read or not.      *)
KeptWithConstants(g) ==
  ReachedFrom(g, ToSet(g.inputs) \cup {g.output})
    \cup {i \in DOMAIN g.nodes : g.nodes[i].op = "constant"}

Kept(g) == ReachedFrom(g, ToSet(g.inputs) \cup {g.output})

DeadCodeElimination(g) ==
  LET kept == Kept(g)
      remap[i \in 0..Len(g.nodes)] ==
        IF i = 0 THEN 0 ELSE remap[i - 1] + (IF i \in kept THEN 1 ELSE 0)
      moved(node) == [node EXCEPT !.ins = [k \in DOMAIN @ |-> remap[@[k]]]]
      old(j) == CHOOSE i \in kept : remap[i] = j
  IN  [nodes  |-> [j \in 1..Cardinality(kept) |-> moved(g.nodes[old(j)])],
       inputs |-> [k \in DOMAIN g.inputs |-> remap[g.inputs[k]]],
       output |-> remap[g.output]]

(***************************************************************************)
(* elementwise_fusion                                                      *)
(***************************************************************************)
(* The bias-broadcast add: (batch, features) + (features,).                *)
IsBiasShape(a, b) == Len(a) = 2 /\ Len(b) = 1 /\ a[2] = b[1]

Fusable(g, i) ==
  LET node == g.nodes[i]
      shape(k) == g.nodes[node.ins[k]].shape
  IN  \/ node.op = "relu"
      \/ /\ node.op \in {"add", "sub", "mul"}
         /\ \/ shape(1) = shape(2)
            \/ node.op = "add" /\ IsBiasShape(shape(1), shape(2))

(* Who uses a value: nodes, and (as 0) the caller.                         *)
Consumers(g, i) ==
  {j \in DOMAIN g.nodes : i \in Operands(g.nodes[j])} \cup {k \in {0} : g.output = i}

(* Mutation of SingleUse: the caller does not count as a reader.           *)
SingleReader(g, i) == Cardinality(Consumers(g, i) \ {0}) = 1

SingleUse(g, i) == Cardinality(Consumers(g, i)) = 1

(* The first operand whose group this node joins, or 0.                    *)
MergeInto(g, i) ==
  LET ins  == g.nodes[i].ins
      join == {k \in DOMAIN ins : Fusable(g, ins[k]) /\ SingleUse(g, ins[k])}
  IN  IF join = {} THEN 0 ELSE ins[Min(join)]

(* The group of every fusable node, named by its first member; else 0.     *)
GroupOf(g) ==
  LET group[i \in DOMAIN g.nodes] ==
        IF ~Fusable(g, i) THEN 0
        ELSE IF MergeInto(g, i) = 0 THEN i ELSE group[MergeInto(g, i)]
  IN  group

(* _classify_pair: the operator that replaces the two, or "none".          *)
ClassifyPair(g, i, j) ==
  LET first == g.nodes[i]  second == g.nodes[j]
  IN  IF /\ first.op = "add" /\ second.op = "relu"
         /\ g.nodes[first.ins[1]].shape # g.nodes[first.ins[2]].shape
      THEN "fused_bias_relu"
      ELSE IF first.op = "sub" /\ second.op = "mul" /\ second.ins = <<i, i>>
      THEN "fused_sub_square"
      ELSE "none"

(* Mutation of Segments: a single also takes the member after it along.    *)
SegmentsByTwo(g, members) ==
  LET n == Len(members)
      pattern(k) == IF k < n THEN ClassifyPair(g, members[k], members[k + 1]) ELSE "none"
      single(k)  == [op |-> "none", members |-> <<members[k]>>]
      from[k \in 1..(n + 2)] ==
        IF k > n THEN << >>
        ELSE IF pattern(k) # "none"
        THEN <<[op |-> pattern(k), members |-> <<members[k], members[k + 1]>>]>> \o from[k + 2]
        ELSE <<single(k)>> \o (IF k < n THEN <<single(k + 1)>> ELSE << >>) \o from[k + 2]
  IN  from[1]

(* _segment_group: left to right, a pair where one matches, else a single. *)
Segments(g, members) ==
  LET n == Len(members)
      pattern(k) == IF k < n THEN ClassifyPair(g, members[k], members[k + 1]) ELSE "none"
      from[k \in 1..(n + 2)] ==
        IF k > n THEN << >>
        ELSE IF pattern(k) # "none"
        THEN <<[op |-> pattern(k), members |-> <<members[k], members[k + 1]>>]>> \o from[k + 2]
        ELSE <<[op |-> "none", members |-> <<members[k]>>]>> \o from[k + 1]
  IN  from[1]

(* What the loop over the nodes emits for node i: a group comes out whole  *)
(* when its last member is reached, other nodes as they are.               *)
EmittedAt(g, group, i) ==
  LET members == InOrder({j \in DOMAIN g.nodes : group[j] = group[i]}, Len(g.nodes))
  IN  IF group[i] = 0 \/ Len(members) < 2 THEN <<[op |-> "none", members |-> <<i>>]>>
      ELSE IF i = Last(members) THEN Segments(g, members)
      ELSE << >>

ElementwiseFusion(g) ==
  LET group == GroupOf(g)
      emitted[i \in 0..Len(g.nodes)] ==
        IF i = 0 THEN << >> ELSE emitted[i - 1] \o EmittedAt(g, group, i)
      segments == emitted[Len(g.nodes)]
      remap == [i \in DOMAIN g.nodes |->
                  CHOOSE s \in DOMAIN segments : i \in ToSet(segments[s].members)]
      rewritten(s) ==
        LET first == g.nodes[segments[s].members[1]]
            last  == g.nodes[Last(segments[s].members)]
            ins   == [k \in DOMAIN first.ins |-> remap[first.ins[k]]]
        IN  IF segments[s].op = "none" THEN [first EXCEPT !.ins = ins]
            ELSE Node(segments[s].op, ins, last.shape, << >>)
  IN  [nodes  |-> [s \in DOMAIN segments |-> rewritten(s)],
       inputs |-> [k \in DOMAIN g.inputs |-> remap[g.inputs[k]]],
       output |-> remap[g.output]]
=============================================================================
