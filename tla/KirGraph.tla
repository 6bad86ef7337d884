------------------------------ MODULE KirGraph ------------------------------
(***************************************************************************)
(* The dense SSA graph that trace() records (python/kansai/kir.py) and     *)
(* that every executor and pass reads.  A graph is a record                *)
(*   n          number of nodes; a node's id is its position, counted from *)
(*              1 here and from 0 in the code                              *)
(*   op         node -> "placeholder", "constant" or "compute"             *)
(*   ins        node -> sequence of the nodes it reads, in operand order   *)
(*   bytes      node -> size of the buffer its result needs, in pages      *)
(*   out        the node the graph returns                                 *)
(*   trainable  the constants that hold a parameter with requires_grad     *)
(* "compute" stands for every operator of the dispatch tables: each of     *)
(* them draws exactly one output buffer and reads its operands, and which  *)
(* numbers it computes from them makes no difference to who owns what.     *)
(***************************************************************************)
EXTENDS Naturals, Sequences

CONSTANT Graphs        \* the traced graphs under consideration

Nodes(g) == 1..g.n

IsLeaf(g, i) == g.op[i] \in {"placeholder", "constant"}

Operands(g, i) == {g.ins[i][k] : k \in DOMAIN g.ins[i]}

(* Graph.add numbers nodes densely and TraceValue can only name nodes that *)
(* already exist, so operands always precede their reader; leaves read     *)
(* nothing.                                                                *)
WellFormed(g) ==
  /\ g.n \in Nat \ {0}
  /\ g.op \in [Nodes(g) -> {"placeholder", "constant", "compute"}]
  /\ g.bytes \in [Nodes(g) -> Nat]
  /\ g.out \in Nodes(g)
  /\ DOMAIN g.ins = Nodes(g)
  /\ \A i \in Nodes(g) :
        /\ g.ins[i] \in Seq(Nat)
        /\ \A k \in DOMAIN g.ins[i] : g.ins[i][k] \in 1..(i - 1)
        /\ IsLeaf(g, i) => g.ins[i] = << >>
  /\ g.trainable \subseteq {i \in Nodes(g) : g.op[i] = "constant"}

ASSUME GraphsAssumption == \A g \in Graphs : WellFormed(g)

(***************************************************************************)
(* Values are terms: what a node computes is a function of its identity    *)
(* and of its operands' values.  Leaf(i) is the content of the caller's    *)
(* tensor or parameter behind leaf i, and Zeroed what Tensor::zeros        *)
(* leaves in a buffer before the kernel writes it.                         *)
(***************************************************************************)
Leaf(i) == <<i, << >> >>

Zeroed == <<0, << >> >>

Apply(i, operands) == <<i, operands>>

(* What run() (the reference interpreter) holds for every node, given the  *)
(* values bound to the placeholders.                                       *)
RunValues(g, arg) ==
  LET value[i \in Nodes(g)] ==
        CASE g.op[i] = "placeholder" -> arg[i]
          [] g.op[i] = "constant"    -> Leaf(i)
          [] OTHER -> Apply(i, [k \in DOMAIN g.ins[i] |-> value[g.ins[i][k]]])
  IN  value
=============================================================================
