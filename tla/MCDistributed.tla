--------------------------- MODULE MCDistributed ---------------------------
(***************************************************************************)
(* The instance of DistributedRun.  Captured tensors: 1 a weight, 2 a bias.*)
(***************************************************************************)
EXTENDS DistributedRun

CONSTANTS fails1, fails2, fails3

MCShapeOf == << <<2, 2>>, <<2>> >>

MCDeviceErrors == <<fails1, fails2, fails3>>

MCErrors == {ShapeError, MeshError, fails1, fails2, fails3}

Nodes(rows) ==
  <<Node("placeholder", << >>, <<rows, 2>>, << >>),
    Node("constant", << >>, <<2, 2>>, <<1, 1>>),
    Node("matmul", <<1, 2>>, <<rows, 2>>, << >>),
    Node("constant", << >>, <<2>>, <<1, 2>>),
    Node("add", <<3, 4>>, <<rows, 2>>, << >>),
    Node("relu", <<5>>, <<rows, 2>>, << >>)>>

(* A linear layer with relu, traced on the whole batch, and its losses.    *)
Layer(rows) == [nodes |-> Nodes(rows), inputs |-> <<1>>, output |-> 6]

Loss(op, rows) ==
  [nodes |-> Append(Nodes(rows), Node(op, <<6>>, <<1>>, << >>)), inputs |-> <<1>>, output |-> 7]

(* Two batches, multiplied element by element.                             *)
Gated(rows) ==
  [nodes |-> <<Node("placeholder", << >>, <<rows, 2>>, << >>),
               Node("placeholder", << >>, <<rows, 2>>, << >>),
               Node("mul", <<1, 2>>, <<rows, 2>>, << >>)>>,
   inputs |-> <<1, 2>>, output |-> 3]

Batch(rows, seed) == Content(<<rows, 2>>, seed)

Forward(g, rows, placement) ==
  [grad |-> FALSE, graph |-> g, wrt |-> << >>, outs |-> <<placement>>,
   arguments |-> [k \in DOMAIN g.inputs |-> Batch(rows, k + 2)],
   placed |-> [k \in DOMAIN g.inputs |-> placement]]

(* The gradient for weight, bias and batch; for the weight only.           *)
Backward(g, wrt, rows) ==
  [Forward(g, rows, 1) EXCEPT
     !.grad = TRUE, !.wrt = wrt, !.outs = [k \in DOMAIN wrt |-> IF wrt[k] = 1 THEN 1 ELSE 0]]

(* One row is fewer than the devices; three rows do not divide by two.     *)
Calls ==
  <<Forward(Layer(1), 1, 0), Forward(Layer(3), 3, 0), Forward(Layer(1), 1, 1),
    Forward(Layer(3), 3, 1), Forward(Gated(4), 4, 1), Forward(Gated(4), 4, 2),
    Backward(Loss("sum", 3), <<2, 4, 1>>, 3), Backward(Loss("mean", 4), <<2, 4, 1>>, 4),
    Backward(Loss("mean", 3), <<2>>, 3)>>

Meshes == {<<"cpu">>, <<"cpu", "metal">>, <<"metal", "cpu", "cpu">>}

Situations ==
  {[call |-> c, mesh |-> mesh, broken |-> broken, oneMesh |-> TRUE] :
     c \in DOMAIN Calls, mesh \in Meshes, broken \in SUBSET (1..3)}
    \cup {[call |-> 5, mesh |-> <<"cpu", "cpu">>, broken |-> {}, oneMesh |-> FALSE]}

MCJobs ==
  {LET c == Calls[s.call]
     IN  [grad |-> c.grad, graph |-> c.graph, wrt |-> c.wrt, outs |-> c.outs,
          arguments |-> c.arguments, placed |-> c.placed,
          mesh |-> s.mesh, broken |-> s.broken, oneMesh |-> s.oneMesh] :
     s \in {r \in Situations : r.broken \subseteq DOMAIN r.mesh}}

(* What a device may come to: an error, or tensors of the graphs' shapes.  *)
Shapes == {<<1>>, <<2>>} \cup ((1..4) \X (1..2))

Tensors(shape) == [shape : {shape}, at : [Indices(shape) -> Numbers]]

MCOutcomes ==
  MCErrors \cup Seq(FoldSet(LAMBDA shape, others : Tensors(shape) \cup others, {}, Shapes))
=============================================================================
