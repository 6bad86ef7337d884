------------------------------ MODULE KirTrace ------------------------------
(***************************************************************************)
(* trace() of python/kansai/kir.py: a Python function runs once on         *)
(* TraceValues, whose methods record nodes.  User code calls the methods   *)
(* in any order; a call that a method refuses raises, and so does the      *)
(* trace, which leaves nothing behind: such calls are not steps here.      *)
(* The methods refuse less than the operators do that run in their place:  *)
(* sum, mean, max and softmax take any index of a Python list for a        *)
(* dimension, conv2d any bias and any kernel, cross_entropy whatever its   *)
(* parts take.                                                             *)
(*                                                                         *)
(* A vocabulary says what the traced function may do: the shapes of its    *)
(* arguments, the operators it calls, the tensors it captures, the shapes  *)
(* it asks reshape for, the dimensions it reduces, the windows (stride and *)
(* padding) of its convolutions, at most how many calls it makes, and      *)
(* whether they form a chain (each starts from the value before it).       *)
(***************************************************************************)
EXTENDS KirRun

CONSTANT Vocabularies

(* What is traced has an argument at least.                                *)
ASSUME VocabulariesAssumption ==
  \A v \in Vocabularies : v.maxCalls \in Nat /\ v.arguments \in Seq(Seq(Nat)) /\ v.arguments # << >>

VARIABLES
  vocab,      \* the vocabulary of this trace
  graph,      \* the graph that is recorded, and later rewritten
  phase,      \* "trace", and once the function has returned "passes"
  called      \* calls of TraceValue methods so far

traceVars == <<vocab, graph, phase, called>>

(* _broadcast_shape, the tracer's twin of broadcast_shapes: aligned pairs  *)
(* of sizes, counted from the last.                                        *)
AlignedSizes(a, b, i) ==
  LET rank == Max({Len(a), Len(b)})
      ai   == i - (rank - Len(a))
      bi   == i - (rank - Len(b))
  IN  <<IF ai >= 1 THEN a[ai] ELSE 1, IF bi >= 1 THEN b[bi] ELSE 1>>

BroadcastCompatible(a, b) ==
  \A i \in 1..Max({Len(a), Len(b)}) :
    LET s == AlignedSizes(a, b, i) IN s[1] = s[2] \/ s[1] = 1 \/ s[2] = 1

BroadcastShape(a, b) ==
  [i \in 1..Max({Len(a), Len(b)}) |-> Max({AlignedSizes(a, b, i)[1], AlignedSizes(a, b, i)[2]})]

(***************************************************************************)
(* The methods of TraceValue.  Each maps the nodes recorded so far to the  *)
(* nodes recorded after it; what it returns is the last of them.           *)
(***************************************************************************)
Record(ns, op, ins, shape, attrs) == Append(ns, Node(op, ins, shape, attrs))

RecordUnary(ns, op, a) ==
  Record(ns, op, <<a>>, ns[a].shape, IF op = "leaky_relu" THEN <<3>> ELSE <<0>>)

RecordBinary(ns, op, a, b) ==
  Record(ns, op, <<a, b>>, BroadcastShape(ns[a].shape, ns[b].shape), << >>)

(* _coerce: a captured tensor becomes a new constant at every use.         *)
Coerce(ns, p) == Record(ns, "constant", << >>, ShapeOf[p], <<1, p>>)

RecordReshape(ns, a, shape) == Record(ns, "reshape", <<a>>, shape, shape)

(* The axis that shape[dim] is about: a Python list also counts from its   *)
(* end, with negative numbers.                                             *)
Indexed(shape, dim) == IF dim < 0 THEN Len(shape) + 1 + dim ELSE dim

Squeezed(ns, dim) ==
  RecordReshape(ns, Len(ns), RemoveAt(Last(ns).shape, Indexed(Last(ns).shape, dim)))

(* The dimension is recorded as it was given.                              *)
RecordReduce(ns, op, a, dim) ==
  Record(ns, op, <<a>>, WithoutDim(ns[a].shape, Indexed(ns[a].shape, dim)), <<dim>>)

RecordMeanDim(ns, a, dim) ==
  LET summed == RecordReduce(ns, "sum_dim", a, dim)
      scaled == Append(summed, Filled(<<1>>, Reciprocal(ns[a].shape[Indexed(ns[a].shape, dim)])))
  IN  RecordBinary(scaled, "mul", Len(summed), Len(scaled))

RecordDiv(ns, a, b) ==
  LET inverted == RecordUnary(ns, "reciprocal", b)
  IN  RecordBinary(inverted, "mul", a, Len(inverted))

RecordSoftmax(ns, a, dim) ==
  LET m       == RecordReduce(ns, "max_dim", a, dim)
      shifted == RecordBinary(m, "sub", a, Len(m))
      exps    == RecordUnary(shifted, "exp", Len(shifted))
      denom   == RecordReduce(exps, "sum_dim", Len(exps), dim)
  IN  RecordDiv(denom, Len(exps), Len(denom))

RecordCrossEntropy(ns, a, targets) ==
  LET m       == RecordReduce(ns, "max_dim", a, 2)
      shifted == RecordBinary(m, "sub", a, Len(m))
      exps    == RecordUnary(shifted, "exp", Len(shifted))
      total   == RecordReduce(exps, "sum_dim", Len(exps), 2)
      logs    == RecordUnary(total, "log", Len(total))
      lse     == RecordBinary(logs, "add", Len(logs), Len(m))
      product == RecordBinary(lse, "mul", a, targets)
      picked  == RecordReduce(product, "sum_dim", Len(product), 2)
      losses  == RecordBinary(picked, "sub", Len(lse), Len(picked))
  IN  Record(losses, "mean", <<Len(losses)>>, <<1>>, << >>)

RecordMatmul(ns, a, b) ==
  LET s == ns[a].shape  t == ns[b].shape
      batch == BroadcastShape(SubSeq(s, 1, Len(s) - 2), SubSeq(t, 1, Len(t) - 2))
  IN  Record(ns, "matmul", <<a, b>>,
             IF Len(s) = 2 /\ Len(t) = 2 THEN <<s[1], t[2]>>
             ELSE batch \o <<s[Len(s) - 1], t[Len(t)]>>, << >>)

MatmulFits(s, t) ==
  /\ Len(s) >= 2 /\ Len(t) >= 2
  /\ s[Len(s)] = t[Len(t) - 1]
  /\ BroadcastCompatible(SubSeq(s, 1, Len(s) - 2), SubSeq(t, 1, Len(t) - 2))

RecordTranspose(ns, a, d0, d1) ==
  Record(ns, "transpose", <<a>>, Swapped(ns[a].shape, d0, d1), <<d0, d1>>)

RecordSlice(ns, a, dim, start, stop) ==
  Record(ns, "slice", <<a>>, [ns[a].shape EXCEPT ![dim] = stop - start], <<dim, start, stop>>)

RecordIndexSelect(ns, a, dim, picks) ==
  Record(ns, "index_select", <<a>>, [ns[a].shape EXCEPT ![dim] = Len(picks)], <<dim>> \o picks)

RecordCat(ns, a, b, dim) ==
  Record(ns, "cat", <<a, b>>, [ns[a].shape EXCEPT ![dim] = @ + ns[b].shape[dim]], <<dim>>)

(* The sizes by Python's division, which rounds down.                      *)
RecordConv2d(ns, x, w, b, window) ==
  LET s == ns[x].shape  k == ns[w].shape
      size(d) == ((s[d] + 2 * window[2] - k[d]) \div window[1]) + 1
  IN  Record(ns, "conv2d", <<x, w, b>>, <<s[1], k[1], size(3), size(4)>>, window)

(***************************************************************************)
(* The state machine                                                       *)
(***************************************************************************)
TraceInit ==
  /\ vocab \in Vocabularies
  /\ graph = [nodes  |-> [k \in DOMAIN vocab.arguments |->
                            Node("placeholder", << >>, vocab.arguments[k], << >>)],
              inputs |-> [k \in DOMAIN vocab.arguments |-> k],
              output |-> 0]
  /\ phase = "trace"
  /\ called = 0

(* The TraceValues user code may hold, and those this call may start from. *)
Values == {i \in DOMAIN graph.nodes : graph.nodes[i].op # "constant"}

Receivers == IF vocab.chain THEN {Max(Values)} ELSE Values

Shape(i) == graph.nodes[i].shape

Dims(i) == DOMAIN Shape(i)

(* What a list of as many sizes can be indexed with.                       *)
Indexes(i) == {dim \in vocab.dims : dim # 0 /\ Indexed(Shape(i), dim) \in Dims(i)}

Calls(ops) == phase = "trace" /\ called < vocab.maxCalls /\ ops \cap vocab.ops # {}

Recorded(ns) ==
  /\ graph' = [graph EXCEPT !.nodes = ns]
  /\ called' = called + 1
  /\ UNCHANGED <<vocab, phase>>

(* The second operand: a value, or a tensor that is captured now.  The     *)
(* pair is the nodes with the operand among them, and its id.              *)
Others ==
  {<<graph.nodes, i>> : i \in Values}
    \cup {<<Coerce(graph.nodes, p), Len(graph.nodes) + 1>> : p \in vocab.tensors}

CallUnary ==
  /\ Calls(Unary)
  /\ \E a \in Receivers, op \in Unary \cap vocab.ops : Recorded(RecordUnary(graph.nodes, op, a))

CallBinary ==
  LET binary == {"add", "sub", "mul", "gt", "lt", "eq"}
  IN  /\ Calls(binary)
      /\ \E a \in Receivers, o \in Others, op \in binary \cap vocab.ops :
           /\ BroadcastCompatible(Shape(a), o[1][o[2]].shape)
           /\ Recorded(RecordBinary(o[1], op, a, o[2]))

CallDiv ==
  /\ Calls({"div"})
  /\ \E a \in Receivers, o \in Others :
       /\ BroadcastCompatible(Shape(a), o[1][o[2]].shape)
       /\ Recorded(RecordDiv(o[1], a, o[2]))

CallMatmul ==
  /\ Calls({"matmul"})
  /\ \E a \in Receivers, o \in Others :
       /\ MatmulFits(Shape(a), o[1][o[2]].shape)
       /\ Recorded(RecordMatmul(o[1], a, o[2]))

(* sum(), mean() of everything: a scalar, which is a tensor of one element.*)
CallReduceAll ==
  /\ Calls({"sum", "mean"})
  /\ \E a \in Receivers, op \in {"sum", "mean"} \cap vocab.ops :
       Recorded(Record(graph.nodes, op, <<a>>, <<1>>, << >>))

(* mean(dim) divides by the size, which is 0 for nothing but what a conv2d *)
(* too large for its input has recorded.                                   *)
CallReduceDim ==
  LET reductions == {"sum_dim", "max_dim", "mean_dim"}
  IN  /\ Calls(reductions)
      /\ \E a \in Receivers, op \in reductions \cap vocab.ops, keepdim \in BOOLEAN :
         \E dim \in Indexes(a) :
           LET reduced == IF op = "mean_dim" THEN RecordMeanDim(graph.nodes, a, dim)
                          ELSE RecordReduce(graph.nodes, op, a, dim)
           IN  /\ op = "mean_dim" => Shape(a)[Indexed(Shape(a), dim)] # 0
               /\ Recorded(IF keepdim THEN reduced ELSE Squeezed(reduced, dim))

CallSoftmax ==
  /\ Calls({"softmax"})
  /\ \E a \in Receivers : \E dim \in Indexes(a) : Recorded(RecordSoftmax(graph.nodes, a, dim))

(* The parts need a second axis and shapes that broadcast, at the end too. *)
CallCrossEntropy ==
  /\ Calls({"cross_entropy"})
  /\ \E a \in Receivers, o \in Others :
       LET s == Shape(a)  t == o[1][o[2]].shape
       IN  /\ Len(s) >= 2
           /\ BroadcastCompatible(s, t)
           /\ BroadcastCompatible(WithoutDim(s, 2), WithoutDim(BroadcastShape(s, t), 2))
           /\ Recorded(RecordCrossEntropy(o[1], a, o[2]))

CallReshape ==
  /\ Calls({"reshape"})
  /\ \E a \in Receivers, shape \in vocab.shapes :
       /\ Numel(shape) = Numel(Shape(a))
       /\ Recorded(RecordReshape(graph.nodes, a, shape))

CallTranspose ==
  /\ Calls({"transpose"})
  /\ \E a \in Receivers : \E d0, d1 \in Dims(a) : Recorded(RecordTranspose(graph.nodes, a, d0, d1))

CallSlice ==
  /\ Calls({"slice"})
  /\ \E a \in Receivers : \E dim \in Dims(a) : \E stop \in 1..Shape(a)[dim] :
       \E start \in 0..(stop - 1) : Recorded(RecordSlice(graph.nodes, a, dim, start, stop))

CallIndexSelect ==
  /\ Calls({"index_select"})
  /\ \E a \in Receivers : \E dim \in Dims(a) : \E x, y \in 1..Shape(a)[dim] :
       Recorded(RecordIndexSelect(graph.nodes, a, dim, <<x, y>>))

CallCat ==
  /\ Calls({"cat"})
  /\ \E a \in Receivers, b \in Values : \E dim \in Dims(a) :
       /\ SameBut(Shape(a), Shape(b), dim)
       /\ Recorded(RecordCat(graph.nodes, a, b, dim))

CallConv2d ==
  /\ Calls({"conv2d"})
  /\ \E x \in Receivers, w, b \in vocab.tensors, window \in vocab.windows :
       LET ns == Coerce(Coerce(graph.nodes, w), b)
       IN  /\ Conv2dFits(Shape(x), ShapeOf[w])
           /\ Recorded(RecordConv2d(ns, x, Len(ns) - 1, Len(ns), window))

(* The function returns one of its values.                                 *)
ReturnValue ==
  /\ phase = "trace"
  /\ \E i \in Receivers : graph' = [graph EXCEPT !.output = i]
  /\ phase' = "passes"
  /\ UNCHANGED <<vocab, called>>

Trace ==
  \/ CallUnary \/ CallBinary \/ CallDiv \/ CallMatmul \/ CallReduceAll \/ CallReduceDim
  \/ CallSoftmax \/ CallCrossEntropy \/ CallReshape \/ CallTranspose \/ CallSlice
  \/ CallIndexSelect \/ CallCat \/ CallConv2d \/ ReturnValue
=============================================================================
