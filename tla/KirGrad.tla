------------------------------ MODULE KirGrad ------------------------------
(***************************************************************************)
(* grad() of python/kansai/kir.py: reverse-mode differentiation as a       *)
(* rewrite of the graph.  bwd is the sequence of nodes of the new graph;   *)
(* Graph.add gives a node the next id, so the id of what was emitted last  *)
(* is Len(bwd).  The forward nodes are copied first and in order, so the   *)
(* code's primal_id is the identity.                                       *)
(***************************************************************************)
EXTENDS KirRun

Emit(bwd, op, ins, shape, attrs) == Append(bwd, Node(op, ins, shape, attrs))

(* A vjp rule returns the nodes after it and one gradient per operand.     *)
Gives(bwd, grads) == [bwd |-> bwd, grads |-> grads]

GivesLast(bwd) == Gives(bwd, <<Len(bwd)>>)

(* Mutation of ReduceIfNeeded: shapes of one rank are taken to be equal.   *)
ReduceIfRanksDiffer(bwd, id, from, to) ==
  IF Len(from) = Len(to) THEN [bwd |-> bwd, id |-> id]
  ELSE [bwd |-> Emit(bwd, "reduce_to_shape", <<id>>, to, << >>), id |-> Len(bwd) + 1]

(* _reduce_if_needed for one operand.                                      *)
ReduceIfNeeded(bwd, id, from, to) ==
  IF from = to THEN [bwd |-> bwd, id |-> id]
  ELSE [bwd |-> Emit(bwd, "reduce_to_shape", <<id>>, to, << >>), id |-> Len(bwd) + 1]

(* ... and for both operands of a node whose shapes broadcast to out.      *)
ReduceBoth(bwd, ids, out, shapes) ==
  LET a == ReduceIfNeeded(bwd, ids[1], out[1], shapes[1])
      b == ReduceIfNeeded(a.bwd, ids[2], out[2], shapes[2])
  IN  Gives(b.bwd, <<a.id, b.id>>)

Chain(bwd, op, ins, shape) == Emit(bwd, op, ins, shape, << >>)

VjpAdd(bwd, node, g, shapes) ==
  ReduceBoth(bwd, <<g, g>>, <<node.shape, node.shape>>, shapes)

VjpSub(bwd, node, g, shapes) ==
  LET zero    == Append(bwd, Filled(node.shape, 0))
      negated == Chain(zero, "sub", <<Len(zero), g>>, node.shape)
  IN  ReduceBoth(negated, <<g, Len(negated)>>, <<node.shape, node.shape>>, shapes)

VjpMul(bwd, node, g, shapes) ==
  LET full == Chain(Chain(bwd, "mul", <<g, node.ins[2]>>, node.shape),
                    "mul", <<g, node.ins[1]>>, node.shape)
  IN  ReduceBoth(full, <<Len(full) - 1, Len(full)>>, <<node.shape, node.shape>>, shapes)

(* The shape of an operand's gradient before the batch axes are reduced.   *)
FullShape(out, shape) ==
  SubSeq(out, 1, Len(out) - 2) \o SubSeq(shape, Len(shape) - 1, Len(shape))

VjpMatmul(bwd, node, g, shapes) ==
  LET flat  == Len(shapes[1]) = 2 /\ Len(shapes[2]) = 2
      fullA == FullShape(node.shape, shapes[1])
      fullB == FullShape(node.shape, shapes[2])
      nt == IF flat THEN "matmul_nt" ELSE "batched_matmul_nt"
      tn == IF flat THEN "matmul_tn" ELSE "batched_matmul_tn"
      full == Chain(Chain(bwd, nt, <<g, node.ins[2]>>, fullA), tn, <<node.ins[1], g>>, fullB)
  IN  ReduceBoth(full, <<Len(full) - 1, Len(full)>>, <<fullA, fullB>>, shapes)

VjpConv2d(bwd, node, g, shapes) ==
  LET bias   == Chain(bwd, "conv2d_backward_bias", <<g>>, shapes[3])
      weight == Emit(bias, "conv2d_backward_weight", <<node.ins[1], g>>, shapes[2], node.attrs)
      input  == Emit(weight, "conv2d_backward_input", <<node.ins[2], g>>, shapes[1], node.attrs)
  IN  Gives(input, <<Len(input), Len(input) - 1, Len(input) - 2>>)

(* relu, gelu and leaky_relu have a backward operator of their own, which  *)
(* reads the operator's input.                                             *)
VjpOfInput(bwd, node, g) ==
  LET op == CASE node.op = "relu" -> "relu_backward"
              [] node.op = "gelu" -> "gelu_backward"
              [] node.op = "leaky_relu" -> "leaky_relu_backward"
  IN  GivesLast(Emit(bwd, op, <<node.ins[1], g>>, node.shape, node.attrs))

(* sum and mean hand out the cotangent with a scale; sum_dim along an axis.*)
VjpReduction(bwd, node, g, shapes) ==
  GivesLast(
    CASE node.op = "sum"     -> Emit(bwd, "broadcast_scalar", <<g>>, shapes[1], <<1>>)
      [] node.op = "mean"    -> Emit(bwd, "broadcast_scalar", <<g>>, shapes[1],
                                     <<Reciprocal(Numel(shapes[1]))>>)
      [] node.op = "sum_dim" -> Chain(bwd, "broadcast_to_shape", <<g>>, shapes[1]))

VjpReshape(bwd, node, g, shapes) ==
  GivesLast(Emit(bwd, "reshape", <<g>>, shapes[1], shapes[1]))

VjpTranspose(bwd, node, g, shapes) ==
  GivesLast(Emit(bwd, "transpose", <<g>>, shapes[1], node.attrs))

(* Mutation of VjpSlice: the zeros before the slice are forgotten.         *)
VjpSliceUnpadded(bwd, node, g, shapes) ==
  LET dim  == node.attrs[1]
      full == shapes[1][dim]
      size == node.attrs[3] - node.attrs[2]
      post == Append(bwd, Filled([shapes[1] EXCEPT ![dim] = full - size], 0))
  IN  IF size < full THEN GivesLast(Emit(post, "cat", <<g, Len(post)>>, shapes[1], <<dim>>))
      ELSE Gives(bwd, <<g>>)

VjpSlice(bwd, node, g, shapes) ==
  LET dim   == node.attrs[1]
      start == node.attrs[2]
      stop  == node.attrs[3]
      full  == shapes[1][dim]
      zeros(size) == Filled([shapes[1] EXCEPT ![dim] = size], 0)
      pre    == IF start > 0 THEN <<zeros(start)>> ELSE << >>
      post   == IF stop < full THEN <<zeros(full - stop)>> ELSE << >>
      padded == bwd \o pre \o post
      pieces == (IF pre = << >> THEN << >> ELSE <<Len(bwd) + 1>>) \o <<g>>
                  \o (IF post = << >> THEN << >> ELSE <<Len(padded)>>)
  IN  IF Len(pieces) = 1 THEN Gives(bwd, pieces)
      ELSE GivesLast(Emit(padded, "cat", pieces, shapes[1], <<dim>>))

(* One slice of the cotangent per operand, at the offset it was put at.    *)
VjpCat(bwd, node, g, shapes) ==
  LET dim == node.attrs[1]
      offset[k \in DOMAIN shapes] ==
        IF k = 1 THEN 0 ELSE offset[k - 1] + shapes[k - 1][dim]
      piece(k) == Node("slice", <<g>>, shapes[k], <<dim, offset[k], offset[k] + shapes[k][dim]>>)
  IN  Gives(bwd \o [k \in DOMAIN shapes |-> piece(k)], [k \in DOMAIN shapes |-> Len(bwd) + k])

(* The functions whose derivative reads their own output (log: its input). *)
VjpSqrt(bwd, node, out, g) ==
  LET inverse == Chain(bwd, "reciprocal", <<out>>, node.shape)
      product == Chain(inverse, "mul", <<g, Len(inverse)>>, node.shape)
      half    == Append(product, Filled(<<1>>, Reciprocal(2)))
  IN  GivesLast(Chain(half, "mul", <<Len(product), Len(half)>>, node.shape))

VjpReciprocal(bwd, node, out, g) ==
  LET square  == Chain(bwd, "mul", <<out, out>>, node.shape)
      product == Chain(square, "mul", <<g, Len(square)>>, node.shape)
      zero    == Append(product, Filled(node.shape, 0))
  IN  GivesLast(Chain(zero, "sub", <<Len(zero), Len(product)>>, node.shape))

VjpExp(bwd, node, out, g) == GivesLast(Chain(bwd, "mul", <<g, out>>, node.shape))

VjpLog(bwd, node, g) ==
  LET inverse == Chain(bwd, "reciprocal", <<node.ins[1]>>, node.shape)
  IN  GivesLast(Chain(inverse, "mul", <<g, Len(inverse)>>, node.shape))

VjpTanh(bwd, node, out, g) ==
  LET square == Chain(bwd, "mul", <<out, out>>, node.shape)
      one    == Append(square, Filled(<<1>>, 1))
      rest   == Chain(one, "sub", <<Len(one), Len(square)>>, node.shape)
  IN  GivesLast(Chain(rest, "mul", <<g, Len(rest)>>, node.shape))

VjpSigmoid(bwd, node, out, g) ==
  LET one     == Append(bwd, Filled(<<1>>, 1))
      rest    == Chain(one, "sub", <<Len(one), out>>, node.shape)
      product == Chain(rest, "mul", <<out, Len(rest)>>, node.shape)
  IN  GivesLast(Chain(product, "mul", <<g, Len(product)>>, node.shape))

VjpIndexSelect(bwd, node, g, shapes) ==
  GivesLast(Emit(bwd, "index_select_backward", <<g>>, shapes[1], node.attrs))

(* max_dim and the comparisons: an exact zero for every operand.           *)
VjpZero(bwd, shapes) ==
  Gives(bwd \o [k \in DOMAIN shapes |-> Filled(shapes[k], 0)],
        [k \in DOMAIN shapes |-> Len(bwd) + k])

(* _VJP_RULES.  out is the id of the node itself in the new graph.         *)
Vjp(bwd, node, out, g, shapes) ==
  CASE node.op = "add"     -> VjpAdd(bwd, node, g, shapes)
    [] node.op = "sub"     -> VjpSub(bwd, node, g, shapes)
    [] node.op = "mul"     -> VjpMul(bwd, node, g, shapes)
    [] node.op = "matmul"  -> VjpMatmul(bwd, node, g, shapes)
    [] node.op = "conv2d"  -> VjpConv2d(bwd, node, g, shapes)
    [] node.op \in {"relu", "gelu", "leaky_relu"} -> VjpOfInput(bwd, node, g)
    [] node.op \in {"sum", "mean", "sum_dim"} -> VjpReduction(bwd, node, g, shapes)
    [] node.op = "reshape"    -> VjpReshape(bwd, node, g, shapes)
    [] node.op = "transpose"  -> VjpTranspose(bwd, node, g, shapes)
    [] node.op = "slice"      -> VjpSlice(bwd, node, g, shapes)
    [] node.op = "cat"        -> VjpCat(bwd, node, g, shapes)
    [] node.op = "sqrt"       -> VjpSqrt(bwd, node, out, g)
    [] node.op = "reciprocal" -> VjpReciprocal(bwd, node, out, g)
    [] node.op = "exp"        -> VjpExp(bwd, node, out, g)
    [] node.op = "log"        -> VjpLog(bwd, node, g)
    [] node.op = "tanh"       -> VjpTanh(bwd, node, out, g)
    [] node.op = "sigmoid"    -> VjpSigmoid(bwd, node, out, g)
    [] node.op = "index_select" -> VjpIndexSelect(bwd, node, g, shapes)
    [] node.op \in {"max_dim", "gt", "lt", "eq"} -> VjpZero(bwd, shapes)

(* Its keys: grad raises KeyError at any other operator it reaches.        *)
Differentiable ==
  {"add", "sub", "mul", "matmul", "conv2d", "relu", "gelu", "leaky_relu", "sum", "mean",
   "sum_dim", "reshape", "transpose", "slice", "cat", "sqrt", "reciprocal", "exp", "log",
   "tanh", "sigmoid", "index_select", "max_dim", "gt", "lt", "eq"}

(***************************************************************************)
(* grad() itself.  A walk is the new graph's nodes and cot: node -> id of  *)
(* its accumulated cotangent, 0 while it has none.                         *)
(***************************************************************************)
Accumulate(walk, i, id, shape) ==
  IF walk.cot[i] = 0 THEN [walk EXCEPT !.cot[i] = id]
  ELSE [bwd |-> Chain(walk.bwd, "add", <<walk.cot[i], id>>, shape),
        cot |-> [walk.cot EXCEPT ![i] = Len(walk.bwd) + 1]]

(* One node of the reverse walk.                                           *)
Visit(nodes, walk, i) ==
  LET node   == nodes[i]
      shapes == [k \in DOMAIN node.ins |-> nodes[node.ins[k]].shape]
      rule   == Vjp(walk.bwd, node, i, walk.cot[i], shapes)
      after[k \in 0..Len(node.ins)] ==
        IF k = 0 THEN [bwd |-> rule.bwd, cot |-> walk.cot]
        ELSE Accumulate(after[k - 1], node.ins[k], rule.grads[k], shapes[k])
  IN  IF walk.cot[i] = 0 \/ IsLeaf(node) THEN walk ELSE after[Len(node.ins)]

(* The whole walk, from the output down to the first node.                 *)
ReverseWalk(g) ==
  LET n == Len(g.nodes)
      walk[i \in 1..(n + 1)] ==
        IF i = n + 1
        THEN [bwd |-> Append(g.nodes, Filled(g.nodes[g.output].shape, 1)),
              cot |-> [k \in 1..n |-> IF k = g.output THEN n + 1 ELSE 0]]
        ELSE Visit(g.nodes, walk[i + 1], i)
  IN  walk[1]

(* The gradients asked for, with zeros for what the walk did not reach.    *)
Gathered(g, wrt, walk) ==
  LET result[k \in 0..Len(wrt)] ==
        IF k = 0 THEN Gives(walk.bwd, << >>)
        ELSE LET so_far == result[k - 1]
                 cot    == walk.cot[wrt[k]]
                 zeros  == Append(so_far.bwd, Filled(g.nodes[wrt[k]].shape, 0))
             IN  IF cot # 0 THEN Gives(so_far.bwd, Append(so_far.grads, cot))
                 ELSE Gives(zeros, Append(so_far.grads, Len(zeros)))
  IN  result[Len(wrt)]

(* One gradient is the output itself, several are its members.             *)
Returned(g, all) ==
  LET tupled == Emit(all.bwd, "tuple", all.grads, << >>, << >>)
      alone  == Len(all.grads) = 1
  IN  [nodes  |-> IF alone THEN all.bwd ELSE tupled,
       inputs |-> g.inputs,
       output |-> IF alone THEN all.grads[1] ELSE Len(tupled)]

(* The gradient program of g with respect to the sequence wrt of its nodes.*)
Grad(g, wrt) == Returned(g, Gathered(g, wrt, ReverseWalk(g)))

(* find_constant: the first constant that holds captured tensor p.         *)
FindConstant(g, p) ==
  LET found == {i \in DOMAIN g.nodes :
                  g.nodes[i].op = "constant" /\ g.nodes[i].attrs = <<1, p>>}
  IN  Min(found)
=============================================================================
