------------------------------- MODULE KirRun -------------------------------
(***************************************************************************)
(* The whole operator vocabulary of KIR (python/kansai/kir.py) and run(),  *)
(* its reference interpreter.  A graph is a record                         *)
(*   nodes    sequence of nodes; a node's id is its position, from 1       *)
(*   inputs   ids of the placeholders, in argument order                   *)
(*   output   id of the node whose value the graph returns                 *)
(* and a node a record of op, ins (ids), the shape the graph records and   *)
(* attrs, a sequence of integers: dimensions (from 1; -1 and the like as   *)
(* they are given), ranges, indices, a window's stride and padding, a      *)
(* scale, and for a constant <<0, v>> (filled with v) or <<1, p>> (the     *)
(* tensor p of the module that is traced).                                 *)
(***************************************************************************)
EXTENDS KirTensor, SequencesExt

CONSTANT ShapeOf        \* the shapes of the tensors a traced function captures

Node(op, ins, shape, attrs) == [op |-> op, ins |-> ins, shape |-> shape, attrs |-> attrs]

Filled(shape, v) == Node("constant", << >>, shape, <<0, v % P>>)

IsLeaf(node) == node.op \in {"placeholder", "constant"}

Operands(node) == {node.ins[k] : k \in DOMAIN node.ins}

(* The ids in a set as a loop over n nodes comes across them.              *)
InOrder(ids, n) ==
  LET list[i \in 0..n] ==
        IF i = 0 THEN << >> ELSE IF i \in ids THEN Append(list[i - 1], i) ELSE list[i - 1]
  IN  list[n]

(* Contents of the argument bound to node id, and of captured tensor p:    *)
(* arbitrary numbers, no two tensors alike.                                *)
Content(shape, seed) ==
  Tensor(shape, LAMBDA i : seed * seed + 2 * i[4] * i[3] + 3 * i[3] + 5 * i[2] + i[1])

Argument(id, shape) == Content(shape, id + 6)

Captured(p) == Content(ShapeOf[p], p)

Held(at, shape) ==
  IF at[1] = 1 THEN Captured(at[2]) ELSE Tensor(shape, LAMBDA i : at[2])

ConstantValue(node) == Held(node.attrs, node.shape)

Compare(op, x, y) ==
  LET holds == CASE op = "gt" -> x > y [] op = "lt" -> x < y [] op = "eq" -> x = y
  IN  IF holds THEN 1 ELSE 0

MaxDim(a, dim) ==
  LET shape == WithoutDim(a.shape, dim)
  IN  Tensor(shape, LAMBDA i : Max({a.at[j] : j \in {k \in Indices(a.shape) : Narrowed(shape, k) = i}}))

(* What an operator with these attributes makes of its operands' values:   *)
(* _OP_TABLE and the operators with attributes, which every executor       *)
(* dispatches alike.                                                       *)
Operator(op, at, shape, v) ==
  CASE op \in Unary      -> Elementwise(v[1], LAMBDA x : Function(op, at[1], x))
    [] op = "add"        -> Pairwise(v[1], v[2], LAMBDA x, y : x + y)
    [] op = "sub"        -> Pairwise(v[1], v[2], LAMBDA x, y : x - y)
    [] op = "mul"        -> Pairwise(v[1], v[2], LAMBDA x, y : x * y)
    [] op \in {"gt", "lt", "eq"} -> Pairwise(v[1], v[2], LAMBDA x, y : Compare(op, x, y))
    [] op = "matmul"     -> MatMul(v[1], v[2], FALSE, FALSE)
    [] op \in {"matmul_nt", "batched_matmul_nt"} -> MatMul(v[1], v[2], FALSE, TRUE)
    [] op \in {"matmul_tn", "batched_matmul_tn"} -> MatMul(v[1], v[2], TRUE, FALSE)
    [] op = "conv2d"     -> Conv2d(v[1], v[2], v[3], at)
    [] op = "conv2d_backward_bias"   -> Conv2dBackwardBias(v[1])
    [] op = "conv2d_backward_weight" -> Conv2dBackwardWeight(v[1], v[2], shape, at)
    [] op = "conv2d_backward_input"  -> Conv2dBackwardInput(v[1], v[2], shape, at)
    [] op = "sum"        -> ReduceToShape(v[1], <<1>>)
    [] op = "mean"       ->
         Elementwise(ReduceToShape(v[1], <<1>>), LAMBDA x : x * Reciprocal(Numel(v[1].shape)))
    [] op = "sum_dim"    -> ReduceToShape(v[1], WithoutDim(v[1].shape, at[1]))
    [] op = "max_dim"    -> MaxDim(v[1], at[1])
    [] op = "reshape"    -> Reshape(v[1], at)
    [] op = "transpose"  -> Transpose(v[1], at[1], at[2])
    [] op = "slice"      -> Slice(v[1], at[1], at[2], at[3])
    [] op = "cat"        -> Cat(v, at[1])
    [] op = "index_select" -> IndexSelect(v[1], at[1], Tail(at))
    [] op = "index_select_backward" -> IndexSelectBackward(v[1], at[1], Tail(at), shape)
    [] op = "relu_backward" -> InStep(v[1], v[2], LAMBDA x, g : IF Positive(x) THEN g ELSE 0)
    [] op = "leaky_relu_backward" ->
         InStep(v[1], v[2], LAMBDA x, g : IF Positive(x) THEN g ELSE at[1] * g)
    [] op = "gelu_backward" -> InStep(v[1], v[2], LAMBDA x, g : GeluSlope(x) * g)
    [] op = "broadcast_scalar" ->
         Tensor(shape, LAMBDA i : v[1].at[<<1, 1, 1, 1>>] * at[1])
    [] op = "broadcast_to_shape" -> BroadcastToShape(v[1], shape)
    [] op = "reduce_to_shape" -> ReduceToShape(v[1], shape)
    [] op = "fused_bias_relu" ->
         Pairwise(v[1], v[2], LAMBDA x, b : Function("relu", 0, (x + b) % P))
    [] op = "fused_sub_square" -> Pairwise(v[1], v[2], LAMBDA x, y : (x - y) * (x - y))
    [] op = "tuple"      -> v

Eval(node, v) == Operator(node.op, node.attrs, node.shape, v)

Conv2dFits(x, w) == Len(x) = 4 /\ Len(w) = 4 /\ x[2] = w[2]

SameBut(s, t, dim) ==
  Len(s) = Len(t) /\ \A d \in DOMAIN s : d # dim => s[d] = t[d]

(* The operator raises unless its operands' shapes and its attributes fit. *)
(* The backward operators check nothing.                                   *)
Accepts(op, at, v) ==
  LET inner(a, b, ka, kb) ==
        /\ Len(a) >= 2 /\ Len(b) >= 2
        /\ a[Len(a) - ka] = b[Len(b) - kb]
        /\ Compatible(SubSeq(a, 1, Len(a) - 2), SubSeq(b, 1, Len(b) - 2))
  IN
  CASE op \in {"add", "sub", "mul", "gt", "lt", "eq"} -> Compatible(v[1].shape, v[2].shape)
    [] op = "matmul" -> inner(v[1].shape, v[2].shape, 0, 1)
    [] op \in {"matmul_nt", "batched_matmul_nt"} -> inner(v[1].shape, v[2].shape, 0, 0)
    [] op \in {"matmul_tn", "batched_matmul_tn"} -> inner(v[1].shape, v[2].shape, 1, 1)
    [] op = "conv2d" ->
         /\ Conv2dFits(v[1].shape, v[2].shape)
         /\ Numel(v[3].shape) = v[2].shape[1]
         /\ \A d \in {3, 4} : ConvolvedSize(v[1].shape, v[2].shape, at, d) >= 1
    [] op \in {"sum_dim", "max_dim"} -> at[1] \in DOMAIN v[1].shape
    [] op = "transpose" -> {at[1], at[2]} \subseteq DOMAIN v[1].shape
    [] op = "slice" ->
         at[1] \in DOMAIN v[1].shape /\ 0 <= at[2] /\ at[2] < at[3] /\ at[3] <= v[1].shape[at[1]]
    [] op = "index_select" ->
         at[1] \in DOMAIN v[1].shape /\ ToSet(Tail(at)) \subseteq 1..v[1].shape[at[1]]
    [] op = "cat" ->
         at[1] \in DOMAIN v[1].shape /\ \A k \in DOMAIN v : SameBut(v[1].shape, v[k].shape, at[1])
    [] op = "reshape" -> Numel(v[1].shape) = Numel(at)
    [] op = "broadcast_scalar" -> Numel(v[1].shape) = 1
    [] OTHER -> TRUE

Fits(node, v) == Accepts(node.op, node.attrs, v)

(* The executors' loop on a sequence of arguments: the values of the nodes *)
(* before the first that raises, which are all of them when none does.     *)
WithNode(g, arguments, n, before) ==
  LET node == g.nodes[n]
      v    == [k \in DOMAIN node.ins |-> before[node.ins[k]]]
  IN  IF Len(before) < n - 1 THEN before
      ELSE CASE node.op = "placeholder" ->
                  Append(before, arguments[CHOOSE k \in DOMAIN g.inputs : g.inputs[k] = n])
             [] node.op = "constant" -> Append(before, ConstantValue(node))
             [] OTHER -> IF Fits(node, v) THEN Append(before, Eval(node, v)) ELSE before

(* Again a CHOOSE with one candidate, for the values before to be computed *)
(* once.                                                                   *)
ValuesOn(g, arguments) ==
  LET value[n \in 0..Len(g.nodes)] ==
        IF n = 0 THEN << >>
        ELSE CHOOSE after \in {WithNode(g, arguments, n, before) : before \in {value[n - 1]}} : TRUE
  IN  value[Len(g.nodes)]

RunsOn(g, arguments) == Len(ValuesOn(g, arguments)) = Len(g.nodes)

RunOn(g, arguments) == ValuesOn(g, arguments)[g.output]

Arguments(g) == [k \in DOMAIN g.inputs |-> Argument(g.inputs[k], g.nodes[g.inputs[k]].shape)]

RunValues(g) == ValuesOn(g, Arguments(g))

Runs(g) == RunsOn(g, Arguments(g))

Run(g) == RunOn(g, Arguments(g))
=============================================================================
