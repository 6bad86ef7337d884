-------------------------- MODULE KirPipelineProofs --------------------------
(***************************************************************************)
(* From the trace to run_metal, for every traced function over every       *)
(* vocabulary and any order of the rewrites: the graph stays a graph,      *)
(* fusion and elimination keep the value it computes, run_metal computes   *)
(* what run() does, and raises only where two additions continue one       *)
(* another and a third reader comes.                                       *)
(***************************************************************************)
EXTENDS MetalRun, KirPassesProofs

(***************************************************************************)
(* Recording nodes                                                         *)
(***************************************************************************)
(* What a bias addition with relu adds are two nodes, never one twice.     *)
BiasesDiffer(ns) ==
  \A i \in DOMAIN ns : ns[i].op = "fused_bias_relu" => ns[i].ins[1] # ns[i].ins[2]

Built(ns, arguments) == AreNodes(ns, arguments) /\ BiasesDiffer(ns)

(* k nodes more.                                                           *)
Grown(ns, ms, k, arguments) ==
  Built(ms, arguments) /\ Len(ms) = Len(ns) + k /\ Len(ns) \in Nat

LEMMA BuiltFacts ==
  ASSUME NEW ns, NEW arguments, Built(ns, arguments)
  PROVE  /\ IsSequence(ns) /\ Len(ns) \in Nat /\ DOMAIN ns = 1..Len(ns)
         /\ Len(arguments) \in Nat /\ DOMAIN arguments = 1..Len(arguments) /\ Len(arguments) <= Len(ns)
         /\ \A i \in DOMAIN ns : NodeAfter(ns[i], i - 1) /\ Placed(ns[i], i, arguments)
         /\ Grown(ns, ns, 0, arguments)
<1>1. /\ IsSequence(ns) /\ IsSequence(arguments) /\ Len(arguments) <= Len(ns)
      /\ \A i \in DOMAIN ns : NodeAfter(ns[i], i - 1) /\ Placed(ns[i], i, arguments)
  BY DEF Built, AreNodes
<1>2. /\ Len(ns) \in Nat /\ DOMAIN ns = 1..Len(ns)
      /\ Len(arguments) \in Nat /\ DOMAIN arguments = 1..Len(arguments)
  BY <1>1, SequenceIsAFunction
<1>3. Grown(ns, ns, 0, arguments)
  BY <1>2 DEF Grown
<1> QED
  BY <1>1, <1>2, <1>3

(* Graph.add of a node that is no placeholder.                             *)
LEMMA NodeIsAdded ==
  ASSUME NEW ns, NEW arguments, Built(ns, arguments), NEW op, op # "placeholder", op # "fused_bias_relu",
         NEW ins, Reads(ins, Len(ns)), Len(ins) \in Arity(op), NEW shape, NEW attrs
  PROVE  Grown(ns, Append(ns, Node(op, ins, shape, attrs)), 1, arguments)
<1>1. PICK n, na, node, ms : /\ n = Len(ns) /\ na = Len(arguments) /\ node = Node(op, ins, shape, attrs)
                             /\ ms = Append(ns, node)
  OBVIOUS
<1>2. /\ IsSequence(ns) /\ n \in Nat /\ DOMAIN ns = 1..n
      /\ na \in Nat /\ DOMAIN arguments = 1..na /\ na <= n /\ IsSequence(arguments)
      /\ \A i \in 1..n : NodeAfter(ns[i], i - 1) /\ Placed(ns[i], i, arguments)
  <2>1. IsSequence(arguments)
    BY DEF Built, AreNodes
  <2> QED
    BY <1>1, <2>1, BuiltFacts
<1>3. /\ IsSequence(ms) /\ Len(ms) = n + 1 /\ DOMAIN ms = 1..(n + 1)
      /\ \A i \in 1..(n + 1) : ms[i] = IF i = n + 1 THEN node ELSE ns[i]
  BY <1>1, <1>2, AppendToAnything
<1>4. node.op = op /\ node.ins = ins /\ node = Node(node.op, node.ins, node.shape, node.attrs)
  BY <1>1 DEF Node
<1>5. NodeAfter(node, n)
  BY <1>1, <1>4 DEF NodeAfter
<1>6. ASSUME NEW i \in 1..(n + 1)
      PROVE  /\ NodeAfter(ms[i], i - 1) /\ Placed(ms[i], i, arguments)
             /\ ms[i].op = "fused_bias_relu" => ms[i].ins[1] # ms[i].ins[2]
  <2>1. CASE i = n + 1
    <3>1. ms[i] = node /\ i - 1 = n /\ i \notin DOMAIN arguments
      BY <1>2, <1>3, <2>1
    <3> QED
      BY <1>4, <1>5, <3>1 DEF Placed
  <2>2. CASE i # n + 1
    <3>1. i \in 1..n /\ ms[i] = ns[i]
      BY <1>2, <1>3, <2>2
    <3>2. ns[i].op = "fused_bias_relu" => ns[i].ins[1] # ns[i].ins[2]
      BY <1>2, <3>1 DEF Built, BiasesDiffer
    <3> QED
      BY <1>2, <3>1, <3>2
  <2> QED
    BY <2>1, <2>2
<1>7. AreNodes(ms, arguments)
  BY <1>2, <1>3, <1>6 DEF AreNodes
<1>8. BiasesDiffer(ms)
  BY <1>3, <1>6 DEF BiasesDiffer
<1> QED
  BY <1>1, <1>2, <1>3, <1>7, <1>8 DEF Grown, Built

LEMMA ReadsUpTo ==
  ASSUME NEW n \in Nat
  PROVE  /\ Reads(<< >>, n) /\ Len(<< >>) = 0
         /\ \A a \in 1..n : Reads(<<a>>, n) /\ Len(<<a>>) = 1
         /\ \A a, b \in 1..n : Reads(<<a, b>>, n) /\ Len(<<a, b>>) = 2
         /\ \A a, b, c \in 1..n : Reads(<<a, b, c>>, n) /\ Len(<<a, b, c>>) = 3
         /\ \A ins \in Seq(1..n) : Reads(ins, n)
<1>1. ASSUME NEW ins \in Seq(1..n) PROVE Reads(ins, n)
  BY SequenceOfAnything DEF Reads
<1>2. PICK T : T = 1..n
  OBVIOUS
<1>3. << >> \in Seq(T) /\ Len(<< >>) = 0
  OBVIOUS
<1>4. ASSUME NEW a \in T PROVE <<a>> \in Seq(T) /\ Len(<<a>>) = 1
  OBVIOUS
<1>5. ASSUME NEW a \in T, NEW b \in T PROVE <<a, b>> \in Seq(T) /\ Len(<<a, b>>) = 2
  OBVIOUS
<1>6. ASSUME NEW a \in T, NEW b \in T, NEW c \in T PROVE <<a, b, c>> \in Seq(T) /\ Len(<<a, b, c>>) = 3
  OBVIOUS
<1> QED
  BY <1>1, <1>2, <1>3, <1>4, <1>5, <1>6

OfOne ==
  Unary \cup {"sum", "mean", "sum_dim", "max_dim", "reshape", "transpose", "slice", "index_select",
              "broadcast_scalar", "broadcast_to_shape", "reduce_to_shape", "index_select_backward",
              "conv2d_backward_bias"}

OfTwo ==
  {"add", "sub", "mul", "matmul", "gt", "lt", "eq", "cat", "matmul_nt", "matmul_tn",
   "batched_matmul_nt", "batched_matmul_tn", "relu_backward", "gelu_backward", "leaky_relu_backward",
   "conv2d_backward_weight", "conv2d_backward_input"}

LEMMA ArityFacts ==
  /\ \A op \in OfOne : 1 \in Arity(op) /\ op # "placeholder" /\ op # "fused_bias_relu"
  /\ \A op \in OfTwo : 2 \in Arity(op) /\ op # "placeholder" /\ op # "fused_bias_relu"
  /\ 3 \in Arity("conv2d") /\ 0 \in Arity("constant") /\ Arity("cat") = Nat /\ Arity("tuple") = Nat
<1>1. ASSUME NEW op \in OfOne PROVE 1 \in Arity(op) /\ op # "placeholder" /\ op # "fused_bias_relu"
  BY DEF OfOne, Unary, Arity
<1>2. ASSUME NEW op \in OfTwo PROVE 2 \in Arity(op) /\ op # "placeholder" /\ op # "fused_bias_relu"
  BY DEF OfTwo, Unary, Arity
<1>3. 3 \in Arity("conv2d") /\ 0 \in Arity("constant") /\ Arity("cat") = Nat /\ Arity("tuple") = Nat
  BY DEF Unary, Arity
<1> QED
  BY <1>1, <1>2, <1>3

LEMMA OneIsAdded ==
  ASSUME NEW ns, NEW arguments, Built(ns, arguments), NEW op \in OfOne, NEW a \in 1..Len(ns),
         NEW shape, NEW attrs
  PROVE  Grown(ns, Append(ns, Node(op, <<a>>, shape, attrs)), 1, arguments)
<1>1. PICK ins : ins = <<a>>
  OBVIOUS
<1>2. Reads(ins, Len(ns)) /\ Len(ins) \in Arity(op)
  BY <1>1, BuiltFacts, ReadsUpTo, ArityFacts
<1>3. Grown(ns, Append(ns, Node(op, ins, shape, attrs)), 1, arguments)
  BY <1>2, ArityFacts, NodeIsAdded
<1> QED
  BY <1>1, <1>3

LEMMA TwoAreAdded ==
  ASSUME NEW ns, NEW arguments, Built(ns, arguments), NEW op \in OfTwo,
         NEW a \in 1..Len(ns), NEW b \in 1..Len(ns), NEW shape, NEW attrs
  PROVE  Grown(ns, Append(ns, Node(op, <<a, b>>, shape, attrs)), 1, arguments)
<1>1. PICK ins : ins = <<a, b>>
  OBVIOUS
<1>2. Reads(ins, Len(ns)) /\ Len(ins) \in Arity(op)
  BY <1>1, BuiltFacts, ReadsUpTo, ArityFacts
<1>3. Grown(ns, Append(ns, Node(op, ins, shape, attrs)), 1, arguments)
  BY <1>2, ArityFacts, NodeIsAdded
<1> QED
  BY <1>1, <1>3

LEMMA ConstantIsAdded ==
  ASSUME NEW ns, NEW arguments, Built(ns, arguments), NEW shape, NEW attrs
  PROVE  Grown(ns, Append(ns, Node("constant", << >>, shape, attrs)), 1, arguments)
<1>1. PICK op, ins : op = "constant" /\ ins = << >>
  OBVIOUS
<1>2. Reads(ins, Len(ns)) /\ Len(ins) \in Arity(op)
  BY <1>1, BuiltFacts, ReadsUpTo, ArityFacts
<1>3. Grown(ns, Append(ns, Node(op, ins, shape, attrs)), 1, arguments)
  BY <1>1, <1>2, NodeIsAdded
<1> QED
  BY <1>1, <1>3

(***************************************************************************)
(* The methods of TraceValue                                               *)
(***************************************************************************)
LEMMA OneRecorded ==
  ASSUME NEW ns, NEW arguments, Built(ns, arguments), NEW a \in 1..Len(ns), NEW op \in OfOne,
         NEW shape, NEW attrs
  PROVE  Grown(ns, Record(ns, op, <<a>>, shape, attrs), 1, arguments)
BY OneIsAdded DEF Record

LEMMA UnaryRecorded ==
  ASSUME NEW ns, NEW arguments, Built(ns, arguments), NEW a \in 1..Len(ns), NEW op \in Unary
  PROVE  Grown(ns, RecordUnary(ns, op, a), 1, arguments)
<1>1. op \in OfOne
  BY DEF OfOne
<1> QED
  BY <1>1, OneRecorded DEF RecordUnary

LEMMA TwoRecorded ==
  ASSUME NEW ns, NEW arguments, Built(ns, arguments), NEW a \in 1..Len(ns), NEW b \in 1..Len(ns),
         NEW op \in OfTwo, NEW shape, NEW attrs
  PROVE  /\ Grown(ns, Record(ns, op, <<a, b>>, shape, attrs), 1, arguments)
         /\ Grown(ns, RecordBinary(ns, op, a, b), 1, arguments)
<1>1. ASSUME NEW s, NEW at PROVE Grown(ns, Record(ns, op, <<a, b>>, s, at), 1, arguments)
  BY TwoAreAdded DEF Record
<1> QED
  BY <1>1 DEF RecordBinary

LEMMA ConstantRecorded ==
  ASSUME NEW ns, NEW arguments, Built(ns, arguments), NEW p, NEW shape, NEW v
  PROVE  /\ Grown(ns, Coerce(ns, p), 1, arguments)
         /\ Grown(ns, Append(ns, Filled(shape, v)), 1, arguments)
BY ConstantIsAdded DEF Coerce, Record, Filled

LEMMA ReduceRecorded ==
  ASSUME NEW ns, NEW arguments, Built(ns, arguments), NEW a \in 1..Len(ns),
         NEW op \in {"sum_dim", "max_dim"}, NEW dim
  PROVE  Grown(ns, RecordReduce(ns, op, a, dim), 1, arguments)
<1>1. op \in OfOne
  BY DEF OfOne
<1> QED
  BY <1>1, OneRecorded DEF RecordReduce

LEMMA SqueezedRecorded ==
  ASSUME NEW ns, NEW arguments, Built(ns, arguments), Len(ns) # 0, NEW dim
  PROVE  Built(Squeezed(ns, dim), arguments)
<1>1. PICK n, shape : n = Len(ns) /\ shape = RemoveAt(Last(ns).shape, Indexed(Last(ns).shape, dim))
  OBVIOUS
<1>2. n \in 1..Len(ns)
  BY <1>1, BuiltFacts
<1>3. "reshape" \in OfOne
  BY DEF OfOne
<1>4. Grown(ns, Record(ns, "reshape", <<n>>, shape, shape), 1, arguments)
  BY <1>2, <1>3, OneRecorded
<1> QED
  BY <1>1, <1>4 DEF Squeezed, RecordReshape, Grown

LEMMA OpsAre ==
  /\ "add" \in OfTwo /\ "sub" \in OfTwo /\ "mul" \in OfTwo /\ "gt" \in OfTwo /\ "lt" \in OfTwo
  /\ "eq" \in OfTwo /\ "matmul" \in OfTwo /\ "cat" \in OfTwo
  /\ "sum" \in OfOne /\ "mean" \in OfOne /\ "reshape" \in OfOne /\ "transpose" \in OfOne
  /\ "slice" \in OfOne /\ "index_select" \in OfOne /\ "sum_dim" \in OfOne /\ "reciprocal" \in OfOne
  /\ "exp" \in Unary /\ "log" \in Unary /\ "reciprocal" \in Unary
BY DEF OfOne, OfTwo, Unary

LEMMA MeanDimRecorded ==
  ASSUME NEW ns, NEW arguments, Built(ns, arguments), NEW a \in 1..Len(ns), NEW dim
  PROVE  Grown(ns, RecordMeanDim(ns, a, dim), 3, arguments)
<1>1. PICK s : s = RecordReduce(ns, "sum_dim", a, dim)
  OBVIOUS
<1>2. PICK c : c = Append(s, Filled(<<1>>, Reciprocal(ns[a].shape[Indexed(ns[a].shape, dim)])))
  OBVIOUS
<1>3. Grown(ns, s, 1, arguments)
  BY <1>1, ReduceRecorded
<1>4. Grown(s, c, 1, arguments)
  BY <1>2, <1>3, ConstantRecorded DEF Grown
<1>5. Grown(c, RecordBinary(c, "mul", Len(s), Len(c)), 1, arguments)
  <2>1. Built(c, arguments) /\ Len(s) \in 1..Len(c) /\ Len(c) \in 1..Len(c)
    BY <1>3, <1>4 DEF Grown
  <2> QED
    BY <2>1, OpsAre, TwoRecorded
<1>6. RecordMeanDim(ns, a, dim) = RecordBinary(c, "mul", Len(s), Len(c))
  BY <1>1, <1>2 DEF RecordMeanDim
<1> QED
  BY <1>3, <1>4, <1>5, <1>6 DEF Grown

LEMMA DivRecorded ==
  ASSUME NEW ns, NEW arguments, Built(ns, arguments), NEW a \in 1..Len(ns), NEW b \in 1..Len(ns)
  PROVE  Built(RecordDiv(ns, a, b), arguments)
<1>1. PICK s : s = RecordUnary(ns, "reciprocal", b)
  OBVIOUS
<1>2. Grown(ns, s, 1, arguments)
  BY <1>1, OpsAre, UnaryRecorded
<1>3. Built(s, arguments) /\ a \in 1..Len(s) /\ Len(s) \in 1..Len(s)
  BY <1>2 DEF Grown
<1>4. Grown(s, RecordBinary(s, "mul", a, Len(s)), 1, arguments)
  BY <1>3, OpsAre, TwoRecorded
<1> QED
  BY <1>1, <1>4 DEF RecordDiv, Grown

LEMMA SoftmaxRecorded ==
  ASSUME NEW ns, NEW arguments, Built(ns, arguments), NEW a \in 1..Len(ns), NEW dim
  PROVE  Built(RecordSoftmax(ns, a, dim), arguments)
<1>1. PICK m : m = RecordReduce(ns, "max_dim", a, dim)
  OBVIOUS
<1>2. PICK s : s = RecordBinary(m, "sub", a, Len(m))
  OBVIOUS
<1>3. PICK e : e = RecordUnary(s, "exp", Len(s))
  OBVIOUS
<1>4. PICK d : d = RecordReduce(e, "sum_dim", Len(e), dim)
  OBVIOUS
<1>5. RecordSoftmax(ns, a, dim) = RecordDiv(d, Len(e), Len(d))
  BY <1>1, <1>2, <1>3, <1>4 DEF RecordSoftmax
<1>6. Grown(ns, m, 1, arguments)
  BY <1>1, ReduceRecorded
<1>7. Grown(m, s, 1, arguments)
  <2>1. Built(m, arguments) /\ a \in 1..Len(m) /\ Len(m) \in 1..Len(m)
    BY <1>6 DEF Grown
  <2> QED
    BY <1>2, <2>1, OpsAre, TwoRecorded
<1>8. Grown(s, e, 1, arguments)
  <2>1. Built(s, arguments) /\ Len(s) \in 1..Len(s)
    BY <1>6, <1>7 DEF Grown
  <2> QED
    BY <1>3, <2>1, OpsAre, UnaryRecorded
<1>9. Grown(e, d, 1, arguments)
  <2>1. Built(e, arguments) /\ Len(e) \in 1..Len(e)
    BY <1>6, <1>7, <1>8 DEF Grown
  <2> QED
    BY <1>4, <2>1, ReduceRecorded
<1>10. Built(d, arguments) /\ Len(e) \in 1..Len(d) /\ Len(d) \in 1..Len(d)
  BY <1>6, <1>7, <1>8, <1>9 DEF Grown
<1> QED
  BY <1>5, <1>10, DivRecorded

LEMMA CrossEntropyRecorded ==
  ASSUME NEW ns, NEW arguments, Built(ns, arguments), NEW a \in 1..Len(ns), NEW t \in 1..Len(ns)
  PROVE  Built(RecordCrossEntropy(ns, a, t), arguments)
<1>1. PICK n \in Nat : n = Len(ns)
  BY BuiltFacts
<1>2. PICK m : m = RecordReduce(ns, "max_dim", a, 2)
  OBVIOUS
<1>3. PICK s : s = RecordBinary(m, "sub", a, Len(m))
  OBVIOUS
<1>4. PICK e : e = RecordUnary(s, "exp", Len(s))
  OBVIOUS
<1>5. PICK u : u = RecordReduce(e, "sum_dim", Len(e), 2)
  OBVIOUS
<1>6. PICK l : l = RecordUnary(u, "log", Len(u))
  OBVIOUS
<1>7. PICK q : q = RecordBinary(l, "add", Len(l), Len(m))
  OBVIOUS
<1>8. PICK p : p = RecordBinary(q, "mul", a, t)
  OBVIOUS
<1>9. PICK k : k = RecordReduce(p, "sum_dim", Len(p), 2)
  OBVIOUS
<1>10. PICK d : d = RecordBinary(k, "sub", Len(q), Len(k))
  OBVIOUS
<1>11. RecordCrossEntropy(ns, a, t) = Record(d, "mean", <<Len(d)>>, <<1>>, << >>)
  BY <1>2, <1>3, <1>4, <1>5, <1>6, <1>7, <1>8, <1>9, <1>10 DEF RecordCrossEntropy
<1>12. Built(m, arguments) /\ Len(m) = n + 1
  BY <1>1, <1>2, ReduceRecorded DEF Grown
<1>13. Built(s, arguments) /\ Len(s) = n + 2
  <2>1. a \in 1..Len(m) /\ Len(m) \in 1..Len(m)
    BY <1>1, <1>12
  <2>2. Grown(m, s, 1, arguments)
    BY <1>3, <1>12, <2>1, OpsAre, TwoRecorded
  <2> QED
    BY <1>12, <2>2 DEF Grown
<1>14. Built(e, arguments) /\ Len(e) = n + 3
  <2>1. Len(s) \in 1..Len(s)
    BY <1>13
  <2>2. Grown(s, e, 1, arguments)
    BY <1>4, <1>13, <2>1, OpsAre, UnaryRecorded
  <2> QED
    BY <1>13, <2>2 DEF Grown
<1>15. Built(u, arguments) /\ Len(u) = n + 4
  <2>1. Len(e) \in 1..Len(e)
    BY <1>14
  <2>2. Grown(e, u, 1, arguments)
    BY <1>5, <1>14, <2>1, ReduceRecorded
  <2> QED
    BY <1>14, <2>2 DEF Grown
<1>16. Built(l, arguments) /\ Len(l) = n + 5
  <2>1. Len(u) \in 1..Len(u)
    BY <1>15
  <2>2. Grown(u, l, 1, arguments)
    BY <1>6, <1>15, <2>1, OpsAre, UnaryRecorded
  <2> QED
    BY <1>15, <2>2 DEF Grown
<1>17. Built(q, arguments) /\ Len(q) = n + 6
  <2>1. Len(l) \in 1..Len(l) /\ Len(m) \in 1..Len(l)
    BY <1>12, <1>16
  <2>2. Grown(l, q, 1, arguments)
    BY <1>7, <1>16, <2>1, OpsAre, TwoRecorded
  <2> QED
    BY <1>16, <2>2 DEF Grown
<1>18. Built(p, arguments) /\ Len(p) = n + 7
  <2>1. a \in 1..Len(q) /\ t \in 1..Len(q)
    BY <1>1, <1>17
  <2>2. Grown(q, p, 1, arguments)
    BY <1>8, <1>17, <2>1, OpsAre, TwoRecorded
  <2> QED
    BY <1>17, <2>2 DEF Grown
<1>19. Built(k, arguments) /\ Len(k) = n + 8
  <2>1. Len(p) \in 1..Len(p)
    BY <1>18
  <2>2. Grown(p, k, 1, arguments)
    BY <1>9, <1>18, <2>1, ReduceRecorded
  <2> QED
    BY <1>18, <2>2 DEF Grown
<1>20. Built(d, arguments) /\ Len(d) = n + 9
  <2>1. Len(q) \in 1..Len(k) /\ Len(k) \in 1..Len(k)
    BY <1>17, <1>19
  <2>2. Grown(k, d, 1, arguments)
    BY <1>10, <1>19, <2>1, OpsAre, TwoRecorded
  <2> QED
    BY <1>19, <2>2 DEF Grown
<1>21. Len(d) \in 1..Len(d)
  BY <1>20
<1>22. Grown(d, Record(d, "mean", <<Len(d)>>, <<1>>, << >>), 1, arguments)
  BY <1>20, <1>21, OpsAre, OneRecorded
<1> QED
  BY <1>11, <1>22 DEF Grown

LEMMA Conv2dRecorded ==
  ASSUME NEW ns, NEW arguments, Built(ns, arguments), NEW x \in 1..Len(ns), NEW w, NEW b, NEW window,
         NEW ms, ms = Coerce(Coerce(ns, w), b)
  PROVE  Built(RecordConv2d(ms, x, Len(ms) - 1, Len(ms), window), arguments)
<1>1. PICK c : c = Coerce(ns, w)
  OBVIOUS
<1>2. Grown(ns, c, 1, arguments) /\ Grown(c, ms, 1, arguments)
  BY <1>1, ConstantRecorded DEF Grown
<1>3. PICK ins, n, shape : /\ n = Len(ms) /\ ins = <<x, n - 1, n>>
                           /\ RecordConv2d(ms, x, n - 1, n, window)
                                = Record(ms, "conv2d", ins, shape, window)
  BY DEF RecordConv2d
<1>4. Built(ms, arguments) /\ n \in Nat /\ x \in 1..n /\ n - 1 \in 1..n /\ n \in 1..n
  BY <1>2, <1>3 DEF Grown
<1>5. Reads(ins, n) /\ Len(ins) = 3
  BY <1>3, <1>4, ReadsUpTo
<1>6. Grown(ms, Append(ms, Node("conv2d", ins, shape, window)), 1, arguments)
  <2>1. PICK op : op = "conv2d"
    OBVIOUS
  <2>2. op # "placeholder" /\ op # "fused_bias_relu" /\ Len(ins) \in Arity(op)
    BY <1>5, <2>1, ArityFacts
  <2>3. Grown(ms, Append(ms, Node(op, ins, shape, window)), 1, arguments)
    BY <1>3, <1>4, <1>5, <2>2, NodeIsAdded
  <2> QED
    BY <2>1, <2>3
<1> QED
  BY <1>3, <1>6 DEF Record, Grown

LEMMA GreatestExists ==
  ASSUME NEW n \in Nat, NEW T \in SUBSET (1..n), T # {}
  PROVE  Max(T) \in T
<1> DEFINE U == {n - i : i \in T}
<1>1. U \in SUBSET Nat /\ U # {}
  <2>1. \A i \in T : n - i \in Nat
    OBVIOUS
  <2>2. PICK i \in T : TRUE
    OBVIOUS
  <2>3. n - i \in U
    OBVIOUS
  <2> QED
    BY <2>1, <2>3
<1>2. Min(U) \in U /\ \A j \in U : Min(U) <= j
  BY <1>1, LeastExists
<1>3. PICK i \in T : n - i <= n - i /\ \A j \in T : n - i <= n - j
  BY <1>2
<1>4. \A j \in T : i >= j
  BY <1>3
<1> QED
  BY <1>3, <1>4 DEF Max

(***************************************************************************)
(* What is true of the graph in every state                                *)
(***************************************************************************)
Sound ==
  /\ vocab \in Vocabularies
  /\ Built(graph.nodes, vocab.arguments)
  /\ graph = [nodes |-> graph.nodes, inputs |-> [k \in DOMAIN vocab.arguments |-> k],
              output |-> graph.output]
  /\ phase # "trace" => graph.output \in DOMAIN graph.nodes

LEMMA SoundGraph ==
  ASSUME Sound
  PROVE  /\ Built(graph.nodes, vocab.arguments) /\ BiasesDiffer(graph.nodes)
         /\ phase # "trace" => IsGraph(graph, vocab.arguments)
         /\ Len(graph.nodes) \in Nat /\ DOMAIN graph.nodes = 1..Len(graph.nodes)
         /\ Len(vocab.arguments) \in Nat \ {0} /\ DOMAIN vocab.arguments = 1..Len(vocab.arguments)
         /\ Len(vocab.arguments) <= Len(graph.nodes)
<1>1. /\ Built(graph.nodes, vocab.arguments) /\ vocab \in Vocabularies
      /\ phase # "trace" => graph.output \in DOMAIN graph.nodes
      /\ graph = [nodes |-> graph.nodes, inputs |-> [k \in DOMAIN vocab.arguments |-> k],
                  output |-> graph.output]
  BY DEF Sound
<1>2. vocab.arguments \in Seq(Seq(Nat)) /\ vocab.arguments # << >>
  BY <1>1, VocabulariesAssumption
<1>3. PICK args, T : args = vocab.arguments /\ T = Seq(Nat)
  OBVIOUS
<1>4. args \in Seq(T) /\ args # << >>
  BY <1>2, <1>3
<1>5. Len(args) # 0
  BY <1>4
<1> QED
  BY <1>1, <1>3, <1>5, BuiltFacts DEF IsGraph, Built

LEMMA ReceiversAre ==
  ASSUME Sound
  PROVE  /\ Values \subseteq 1..Len(graph.nodes)
         /\ Receivers \subseteq Values
<1>1. PICK n \in Nat : n = Len(graph.nodes) /\ DOMAIN graph.nodes = 1..n
  BY SoundGraph
<1>2. Values \in SUBSET (1..n)
  BY <1>1 DEF Values
<1>3. Values # {}
  <2>1. 1 \in DOMAIN vocab.arguments /\ 1 \in 1..n
    BY <1>1, SoundGraph
  <2>2. Placed(graph.nodes[1], 1, vocab.arguments)
    BY <1>1, <2>1, BuiltFacts DEF Sound
  <2>3. graph.nodes[1].op = "placeholder"
    BY <2>1, <2>2, NodeFields DEF Placed
  <2> QED
    BY <1>1, <2>1, <2>3 DEF Values
<1>4. Max(Values) \in Values
  BY <1>2, <1>3, GreatestExists
<1> QED
  BY <1>1, <1>2, <1>4 DEF Receivers

(* The operand of a method, in nodes that end with it when it is captured. *)
LEMMA OthersAre ==
  ASSUME Sound, NEW o \in Others
  PROVE  /\ Built(o[1], vocab.arguments) /\ o[2] \in 1..Len(o[1])
         /\ Receivers \subseteq 1..Len(o[1])
<1>0. PICK n \in Nat : n = Len(graph.nodes)
  BY SoundGraph
<1>1. PICK ns : n = Len(graph.nodes) /\ ns = graph.nodes
  BY <1>0
<1>2. Built(ns, vocab.arguments) /\ Values \subseteq 1..n /\ Receivers \subseteq 1..n
  BY <1>1, SoundGraph, ReceiversAre
<1>3. ASSUME NEW i \in Values, o = <<graph.nodes, i>>
      PROVE  /\ Built(o[1], vocab.arguments) /\ o[2] \in 1..Len(o[1])
             /\ Receivers \subseteq 1..Len(o[1])
  BY <1>1, <1>2, <1>3
<1>4. ASSUME NEW p \in vocab.tensors, o = <<Coerce(graph.nodes, p), Len(graph.nodes) + 1>>
      PROVE  /\ Built(o[1], vocab.arguments) /\ o[2] \in 1..Len(o[1])
             /\ Receivers \subseteq 1..Len(o[1])
  <2>1. PICK ms : ms = Coerce(ns, p)
    OBVIOUS
  <2>2. Built(ms, vocab.arguments) /\ Len(ms) = n + 1
    BY <1>1, <1>2, <2>1, ConstantRecorded DEF Grown
  <2>3. o[1] = ms /\ o[2] = n + 1
    BY <1>1, <1>4, <2>1
  <2> QED
    BY <1>2, <2>2, <2>3
<1> QED
  BY <1>3, <1>4 DEF Others

LEMMA RecordedIsSound ==
  ASSUME Sound, phase = "trace", NEW ns, Built(ns, vocab.arguments), Recorded(ns)
  PROVE  Sound'
<1>1. /\ graph' = [graph EXCEPT !.nodes = ns] /\ vocab' = vocab /\ phase' = phase
  BY DEF Recorded
<1>2. PICK ins : graph = [nodes |-> graph.nodes, inputs |-> ins, output |-> graph.output]
                  /\ ins = [k \in DOMAIN vocab.arguments |-> k]
  BY DEF Sound
<1>3. graph' = [nodes |-> ns, inputs |-> ins, output |-> graph.output]
  BY <1>1, <1>2
<1>4. graph'.nodes = ns /\ graph' = [nodes |-> graph'.nodes, inputs |-> ins, output |-> graph'.output]
  BY <1>3
<1> QED
  BY <1>1, <1>2, <1>4 DEF Sound

LEMMA CallIsSound ==
  ASSUME Sound, CallUnary \/ CallBinary \/ CallDiv \/ CallMatmul \/ CallReduceAll
  PROVE  Sound'
<1>1. /\ Built(graph.nodes, vocab.arguments) /\ Receivers \subseteq 1..Len(graph.nodes)
  BY SoundGraph, ReceiversAre
<1>2. CASE CallUnary
  <2>1. PICK a \in Receivers, op \in Unary \cap vocab.ops : Recorded(RecordUnary(graph.nodes, op, a))
    BY <1>2 DEF CallUnary
  <2>2. Built(RecordUnary(graph.nodes, op, a), vocab.arguments)
    BY <1>1, UnaryRecorded DEF Grown
  <2>3. phase = "trace"
    BY <1>2 DEF CallUnary, Calls
  <2> QED
    BY <2>1, <2>2, <2>3, RecordedIsSound
<1>3. CASE CallBinary
  <2>1. PICK a \in Receivers, o \in Others, op \in {"add", "sub", "mul", "gt", "lt", "eq"} :
          Recorded(RecordBinary(o[1], op, a, o[2]))
    BY <1>3 DEF CallBinary
  <2>2. Built(RecordBinary(o[1], op, a, o[2]), vocab.arguments)
    BY OthersAre, OpsAre, TwoRecorded DEF Grown
  <2>3. phase = "trace"
    BY <1>3 DEF CallBinary, Calls
  <2> QED
    BY <2>1, <2>2, <2>3, RecordedIsSound
<1>4. CASE CallDiv
  <2>1. PICK a \in Receivers, o \in Others : Recorded(RecordDiv(o[1], a, o[2]))
    BY <1>4 DEF CallDiv
  <2>2. Built(RecordDiv(o[1], a, o[2]), vocab.arguments)
    BY OthersAre, DivRecorded
  <2>3. phase = "trace"
    BY <1>4 DEF CallDiv, Calls
  <2> QED
    BY <2>1, <2>2, <2>3, RecordedIsSound
<1>5. CASE CallMatmul
  <2>1. PICK a \in Receivers, o \in Others : Recorded(RecordMatmul(o[1], a, o[2]))
    BY <1>5 DEF CallMatmul
  <2>2. PICK shape : RecordMatmul(o[1], a, o[2]) = Record(o[1], "matmul", <<a, o[2]>>, shape, << >>)
    BY DEF RecordMatmul
  <2>3. Built(Record(o[1], "matmul", <<a, o[2]>>, shape, << >>), vocab.arguments)
    BY OthersAre, OpsAre, TwoRecorded DEF Grown
  <2>4. phase = "trace"
    BY <1>5 DEF CallMatmul, Calls
  <2> QED
    BY <2>1, <2>2, <2>3, <2>4, RecordedIsSound
<1>6. CASE CallReduceAll
  <2>1. PICK a \in Receivers, op \in {"sum", "mean"} :
          Recorded(Record(graph.nodes, op, <<a>>, <<1>>, << >>))
    BY <1>6 DEF CallReduceAll
  <2>2. Built(Record(graph.nodes, op, <<a>>, <<1>>, << >>), vocab.arguments)
    BY <1>1, OpsAre, OneRecorded DEF Grown
  <2>3. phase = "trace"
    BY <1>6 DEF CallReduceAll, Calls
  <2> QED
    BY <2>1, <2>2, <2>3, RecordedIsSound
<1> QED
  BY <1>2, <1>3, <1>4, <1>5, <1>6

LEMMA ReductionIsSound ==
  ASSUME Sound, CallReduceDim \/ CallSoftmax \/ CallCrossEntropy
  PROVE  Sound'
<1>1. /\ Built(graph.nodes, vocab.arguments) /\ Receivers \subseteq 1..Len(graph.nodes)
  BY SoundGraph, ReceiversAre
<1>2. CASE CallReduceDim
  <2>1. PICK a \in Receivers, op \in {"sum_dim", "max_dim", "mean_dim"}, keepdim \in BOOLEAN :
          \E dim \in Indexes(a) :
          LET reduced == IF op = "mean_dim" THEN RecordMeanDim(graph.nodes, a, dim)
                         ELSE RecordReduce(graph.nodes, op, a, dim)
          IN  Recorded(IF keepdim THEN reduced ELSE Squeezed(reduced, dim))
    BY <1>2, Zenon DEF CallReduceDim
  <2>7. PICK dim \in Indexes(a) :
          LET reduced == IF op = "mean_dim" THEN RecordMeanDim(graph.nodes, a, dim)
                         ELSE RecordReduce(graph.nodes, op, a, dim)
          IN  Recorded(IF keepdim THEN reduced ELSE Squeezed(reduced, dim))
    BY <2>1
  <2>2. PICK reduced : reduced = IF op = "mean_dim" THEN RecordMeanDim(graph.nodes, a, dim)
                                 ELSE RecordReduce(graph.nodes, op, a, dim)
    OBVIOUS
  <2>3. Recorded(IF keepdim THEN reduced ELSE Squeezed(reduced, dim))
    BY <2>7, <2>2
  <2>4. Built(reduced, vocab.arguments) /\ Len(reduced) # 0
    <3>1. CASE op = "mean_dim"
      BY <1>1, <2>2, <3>1, MeanDimRecorded DEF Grown
    <3>2. CASE op # "mean_dim"
      BY <1>1, <2>2, <3>2, ReduceRecorded DEF Grown
    <3> QED
      BY <3>1, <3>2
  <2>5. Built(IF keepdim THEN reduced ELSE Squeezed(reduced, dim), vocab.arguments)
    BY <2>4, SqueezedRecorded
  <2>6. phase = "trace"
    BY <1>2 DEF CallReduceDim, Calls
  <2> QED
    BY <2>3, <2>5, <2>6, RecordedIsSound
<1>3. CASE CallSoftmax
  <2>1. PICK a \in Receivers : \E dim \in Indexes(a) : Recorded(RecordSoftmax(graph.nodes, a, dim))
    BY <1>3 DEF CallSoftmax
  <2>4. PICK dim : Recorded(RecordSoftmax(graph.nodes, a, dim))
    BY <2>1
  <2>2. Built(RecordSoftmax(graph.nodes, a, dim), vocab.arguments)
    BY <1>1, SoftmaxRecorded
  <2>3. phase = "trace"
    BY <1>3 DEF CallSoftmax, Calls
  <2> QED
    BY <2>4, <2>2, <2>3, RecordedIsSound
<1>4. CASE CallCrossEntropy
  <2>1. PICK a \in Receivers, o \in Others : Recorded(RecordCrossEntropy(o[1], a, o[2]))
    BY <1>4, Zenon DEF CallCrossEntropy
  <2>2. Built(RecordCrossEntropy(o[1], a, o[2]), vocab.arguments)
    BY OthersAre, CrossEntropyRecorded
  <2>3. phase = "trace"
    BY <1>4 DEF CallCrossEntropy, Calls
  <2> QED
    BY <2>1, <2>2, <2>3, RecordedIsSound
<1> QED
  BY <1>2, <1>3, <1>4

LEMMA MoveIsSound ==
  ASSUME Sound, CallReshape \/ CallTranspose \/ CallSlice \/ CallIndexSelect \/ CallCat \/ CallConv2d
  PROVE  Sound'
<1>1. /\ Built(graph.nodes, vocab.arguments) /\ Receivers \subseteq 1..Len(graph.nodes)
      /\ Values \subseteq 1..Len(graph.nodes)
  BY SoundGraph, ReceiversAre
<1>2. phase = "trace"
  BY DEF CallReshape, CallTranspose, CallSlice, CallIndexSelect, CallCat, CallConv2d, Calls
<1>3. CASE CallConv2d
  <2>1. PICK x \in Receivers, w \in vocab.tensors, b \in vocab.tensors, window \in vocab.windows :
          \E ms \in {Coerce(Coerce(graph.nodes, w), b)} :
            Recorded(RecordConv2d(ms, x, Len(ms) - 1, Len(ms), window))
    BY <1>3 DEF CallConv2d
  <2>3. PICK ms \in {Coerce(Coerce(graph.nodes, w), b)} :
          Recorded(RecordConv2d(ms, x, Len(ms) - 1, Len(ms), window))
    BY <2>1
  <2>2. Built(RecordConv2d(ms, x, Len(ms) - 1, Len(ms), window), vocab.arguments)
    BY <1>1, Conv2dRecorded
  <2> QED
    BY <1>2, <2>3, <2>2, RecordedIsSound
<1>4. CASE CallCat
  <2>1. PICK a \in Receivers, b \in Values :
          \E shape, attrs : Recorded(Record(graph.nodes, "cat", <<a, b>>, shape, attrs))
    BY <1>4 DEF CallCat, RecordCat
  <2>3. PICK shape, attrs : Recorded(Record(graph.nodes, "cat", <<a, b>>, shape, attrs))
    BY <2>1
  <2>2. Built(Record(graph.nodes, "cat", <<a, b>>, shape, attrs), vocab.arguments)
    BY <1>1, OpsAre, TwoRecorded DEF Grown
  <2> QED
    BY <1>2, <2>3, <2>2, RecordedIsSound
<1>5. CASE CallReshape \/ CallTranspose \/ CallSlice \/ CallIndexSelect
  <2>1. \E a \in Receivers, op \in OfOne : \E shape, attrs :
          Recorded(Record(graph.nodes, op, <<a>>, shape, attrs))
    <3>1. CASE CallReshape
      BY <3>1, OpsAre DEF CallReshape, RecordReshape
    <3>2. CASE CallTranspose
      BY <3>2, OpsAre DEF CallTranspose, RecordTranspose
    <3>3. CASE CallSlice
      BY <3>3, OpsAre DEF CallSlice, RecordSlice
    <3>4. CASE CallIndexSelect
      BY <3>4, OpsAre DEF CallIndexSelect, RecordIndexSelect
    <3> QED
      BY <1>5, <3>1, <3>2, <3>3, <3>4
  <2>2. PICK a \in Receivers, op \in OfOne : \E shape, attrs :
          Recorded(Record(graph.nodes, op, <<a>>, shape, attrs))
    BY <2>1
  <2>4. PICK shape, attrs : Recorded(Record(graph.nodes, op, <<a>>, shape, attrs))
    BY <2>2
  <2>3. Built(Record(graph.nodes, op, <<a>>, shape, attrs), vocab.arguments)
    BY <1>1, OneRecorded DEF Grown
  <2> QED
    BY <1>2, <2>4, <2>3, RecordedIsSound
<1> QED
  BY <1>3, <1>4, <1>5

LEMMA TraceIsSound ==
  ASSUME Sound, Trace
  PROVE  Sound'
<1>1. CASE ReturnValue
  <2>1. PICK i \in Receivers : graph' = [graph EXCEPT !.output = i]
    BY <1>1 DEF ReturnValue
  <2>2. vocab' = vocab
    BY <1>1 DEF ReturnValue
  <2>3. PICK ins : graph = [nodes |-> graph.nodes, inputs |-> ins, output |-> graph.output]
                    /\ ins = [k \in DOMAIN vocab.arguments |-> k]
    BY DEF Sound
  <2>4. graph' = [nodes |-> graph.nodes, inputs |-> ins, output |-> i]
    BY <2>1, <2>3
  <2>5. /\ graph'.nodes = graph.nodes /\ graph'.output = i
        /\ graph' = [nodes |-> graph'.nodes, inputs |-> ins, output |-> graph'.output]
    BY <2>4
  <2>6. i \in DOMAIN graph.nodes
    BY SoundGraph, ReceiversAre
  <2> QED
    BY <2>2, <2>3, <2>5, <2>6 DEF Sound
<1> QED
  BY <1>1, CallIsSound, ReductionIsSound, MoveIsSound DEF Trace

(***************************************************************************)
(* The vjp rules                                                           *)
(***************************************************************************)
Longer(ns, ms, arguments) ==
  Built(ms, arguments) /\ Len(ns) \in Nat /\ Len(ms) \in Nat /\ Len(ns) <= Len(ms)

(* A rule for m operands gives each a node that it emitted or found.       *)
IsRule(ns, rule, m, arguments) ==
  /\ Longer(ns, rule.bwd, arguments)
  /\ \A k \in 1..m : rule.grads[k] \in 1..Len(rule.bwd)

LEMMA GrownIsLonger ==
  ASSUME NEW ns, NEW ms, NEW arguments, NEW k \in Nat, Grown(ns, ms, k, arguments)
  PROVE  Longer(ns, ms, arguments)
BY DEF Grown, Longer

LEMMA LongerStill ==
  ASSUME NEW ns, NEW ms, NEW os, NEW arguments, Longer(ns, ms, arguments), Longer(ms, os, arguments)
  PROVE  Longer(ns, os, arguments)
BY DEF Longer

LEMMA OneEmitted ==
  ASSUME NEW ns, NEW arguments, Built(ns, arguments), NEW op \in OfOne, NEW a \in 1..Len(ns),
         NEW shape, NEW attrs
  PROVE  /\ Grown(ns, Emit(ns, op, <<a>>, shape, attrs), 1, arguments)
         /\ Grown(ns, Chain(ns, op, <<a>>, shape), 1, arguments)
<1>1. ASSUME NEW at PROVE Grown(ns, Emit(ns, op, <<a>>, shape, at), 1, arguments)
  BY OneIsAdded DEF Emit
<1> QED
  BY <1>1 DEF Chain

LEMMA TwoEmitted ==
  ASSUME NEW ns, NEW arguments, Built(ns, arguments), NEW op \in OfTwo,
         NEW a \in 1..Len(ns), NEW b \in 1..Len(ns), NEW shape, NEW attrs
  PROVE  /\ Grown(ns, Emit(ns, op, <<a, b>>, shape, attrs), 1, arguments)
         /\ Grown(ns, Chain(ns, op, <<a, b>>, shape), 1, arguments)
<1>1. ASSUME NEW at PROVE Grown(ns, Emit(ns, op, <<a, b>>, shape, at), 1, arguments)
  BY TwoAreAdded DEF Emit
<1> QED
  BY <1>1 DEF Chain

LEMMA FilledAdded ==
  ASSUME NEW ns, NEW arguments, Built(ns, arguments), NEW shape, NEW v
  PROVE  Grown(ns, Append(ns, Filled(shape, v)), 1, arguments)
BY ConstantRecorded

LEMMA EmittedOpsAre ==
  /\ \A op \in {"reduce_to_shape", "conv2d_backward_bias", "broadcast_scalar", "broadcast_to_shape",
                "reshape", "transpose", "slice", "reciprocal", "index_select_backward"} : op \in OfOne
  /\ \A op \in {"add", "sub", "mul", "cat", "matmul_nt", "matmul_tn", "batched_matmul_nt",
                "batched_matmul_tn", "relu_backward", "gelu_backward", "leaky_relu_backward",
                "conv2d_backward_weight", "conv2d_backward_input"} : op \in OfTwo
BY DEF OfOne, OfTwo, Unary

LEMMA LastIsGiven ==
  ASSUME NEW ns, NEW ms, NEW arguments, Longer(ns, ms, arguments), Len(ms) # 0
  PROVE  IsRule(ns, GivesLast(ms), 1, arguments)
<1>1. GivesLast(ms).bwd = ms /\ GivesLast(ms).grads = <<Len(ms)>>
  BY DEF GivesLast, Gives
<1>2. Len(ms) \in 1..Len(ms)
  BY DEF Longer
<1> QED
  BY <1>1, <1>2 DEF IsRule

LEMMA ReducedIfNeeded ==
  ASSUME NEW ns, NEW arguments, Built(ns, arguments), NEW id \in 1..Len(ns), NEW from, NEW to
  PROVE  /\ Longer(ns, ReduceIfNeeded(ns, id, from, to).bwd, arguments)
         /\ ReduceIfNeeded(ns, id, from, to).id \in 1..Len(ReduceIfNeeded(ns, id, from, to).bwd)
<1>1. CASE from = to
  <2>1. ReduceIfNeeded(ns, id, from, to).bwd = ns /\ ReduceIfNeeded(ns, id, from, to).id = id
    BY <1>1 DEF ReduceIfNeeded
  <2> QED
    BY <2>1, BuiltFacts DEF Longer
<1>2. CASE from # to
  <2>1. PICK ms : ms = Emit(ns, "reduce_to_shape", <<id>>, to, << >>)
    OBVIOUS
  <2>2. ReduceIfNeeded(ns, id, from, to).bwd = ms /\ ReduceIfNeeded(ns, id, from, to).id = Len(ns) + 1
    BY <1>2, <2>1 DEF ReduceIfNeeded
  <2>3. Grown(ns, ms, 1, arguments)
    BY <2>1, EmittedOpsAre, OneEmitted
  <2> QED
    BY <2>2, <2>3, GrownIsLonger DEF Grown
<1> QED
  BY <1>1, <1>2

LEMMA BothReduced ==
  ASSUME NEW ns, NEW arguments, Built(ns, arguments), NEW a \in 1..Len(ns), NEW b \in 1..Len(ns),
         NEW out, NEW shapes
  PROVE  IsRule(ns, ReduceBoth(ns, <<a, b>>, out, shapes), 2, arguments)
<1>1. PICK p : p = ReduceIfNeeded(ns, a, out[1], shapes[1])
  OBVIOUS
<1>2. PICK q : q = ReduceIfNeeded(p.bwd, b, out[2], shapes[2])
  OBVIOUS
<1>3. Longer(ns, p.bwd, arguments) /\ p.id \in 1..Len(p.bwd)
  BY <1>1, ReducedIfNeeded
<1>4. Longer(p.bwd, q.bwd, arguments) /\ q.id \in 1..Len(q.bwd)
  <2>1. Built(p.bwd, arguments) /\ b \in 1..Len(p.bwd)
    BY <1>3 DEF Longer
  <2> QED
    BY <1>2, <2>1, ReducedIfNeeded
<1>5. ReduceBoth(ns, <<a, b>>, out, shapes) = Gives(q.bwd, <<p.id, q.id>>)
  BY <1>1, <1>2 DEF ReduceBoth
<1>6. p.id \in 1..Len(q.bwd) /\ q.id \in 1..Len(q.bwd)
  BY <1>3, <1>4 DEF Longer
<1>7. PICK grads : grads = <<p.id, q.id>>
  OBVIOUS
<1>8. \A k \in 1..2 : grads[k] \in 1..Len(q.bwd)
  BY <1>6, <1>7
<1> QED
  BY <1>3, <1>4, <1>5, <1>7, <1>8, LongerStill DEF IsRule, Gives

(* Several nodes at once, none of which reads another.                     *)
AreMore(more, n) ==
  /\ IsSequence(more)
  /\ \A k \in DOMAIN more : /\ more[k].op # "placeholder" /\ more[k].op # "fused_bias_relu"
                            /\ NodeAfter(more[k], n)

LEMMA NodeLater ==
  ASSUME NEW node, NEW n \in Nat, NodeAfter(node, n), NEW m \in Nat, n <= m
  PROVE  NodeAfter(node, m)
<1>1. PICK ins : ins = node.ins
  OBVIOUS
<1>2. Reads(ins, n)
  BY <1>1 DEF NodeAfter
<1>3. \A k \in DOMAIN ins : ins[k] \in 1..m
  BY <1>2 DEF Reads
<1> QED
  BY <1>1, <1>2, <1>3 DEF NodeAfter, Reads

LEMMA ManyAreAdded ==
  ASSUME NEW ns, NEW arguments, Built(ns, arguments), NEW more, AreMore(more, Len(ns))
  PROVE  Grown(ns, ns \o more, Len(more), arguments) /\ Len(more) \in Nat
<1>1. PICK n, na, m, ms : n = Len(ns) /\ na = Len(arguments) /\ m = Len(more) /\ ms = ns \o more
  OBVIOUS
<1>2. /\ IsSequence(ns) /\ n \in Nat /\ DOMAIN ns = 1..n
      /\ na \in Nat /\ DOMAIN arguments = 1..na /\ na <= n /\ IsSequence(arguments)
      /\ \A i \in 1..n : NodeAfter(ns[i], i - 1) /\ Placed(ns[i], i, arguments)
      /\ \A i \in 1..n : ns[i].op = "fused_bias_relu" => ns[i].ins[1] # ns[i].ins[2]
  <2>1. IsSequence(arguments)
    BY DEF Built, AreNodes
  <2> QED
    BY <1>1, <2>1, BuiltFacts DEF Built, BiasesDiffer
<1>3. IsSequence(more) /\ m \in Nat /\ DOMAIN more = 1..m
  BY <1>1, SequenceIsAFunction DEF AreMore
<1>4. /\ IsSequence(ms) /\ Len(ms) = n + m /\ DOMAIN ms = 1..(n + m)
      /\ \A i \in 1..(n + m) : ms[i] = IF i <= n THEN ns[i] ELSE more[i - n]
  BY <1>1, <1>2, <1>3, ConcatAnything
<1>5. ASSUME NEW i \in 1..(n + m)
      PROVE  /\ NodeAfter(ms[i], i - 1) /\ Placed(ms[i], i, arguments)
             /\ ms[i].op = "fused_bias_relu" => ms[i].ins[1] # ms[i].ins[2]
  <2>1. CASE i <= n
    <3>1. i \in 1..n /\ ms[i] = ns[i]
      BY <1>2, <1>4, <2>1
    <3> QED
      BY <1>2, <3>1
  <2>2. CASE ~(i <= n)
    <3>1. /\ ms[i] = more[i - n] /\ i - n \in 1..m /\ i - 1 \in Nat /\ n <= i - 1
          /\ i \notin DOMAIN arguments
      BY <1>2, <1>3, <1>4, <2>2
    <3>2. NodeAfter(ms[i], n) /\ ms[i].op # "placeholder" /\ ms[i].op # "fused_bias_relu"
      BY <1>1, <1>3, <3>1 DEF AreMore
    <3> QED
      BY <1>2, <3>1, <3>2, NodeLater DEF Placed
  <2> QED
    BY <2>1, <2>2
<1>6. AreNodes(ms, arguments)
  BY <1>2, <1>3, <1>4, <1>5 DEF AreNodes
<1>7. BiasesDiffer(ms)
  BY <1>4, <1>5 DEF BiasesDiffer
<1> QED
  BY <1>1, <1>2, <1>3, <1>4, <1>6, <1>7 DEF Grown, Built

LEMMA SumRules ==
  ASSUME NEW ns, NEW arguments, Built(ns, arguments), NEW node, NEW g \in 1..Len(ns), NEW shapes
  PROVE  /\ IsRule(ns, VjpAdd(ns, node, g, shapes), 2, arguments)
         /\ IsRule(ns, VjpSub(ns, node, g, shapes), 2, arguments)
<1>1. IsRule(ns, VjpAdd(ns, node, g, shapes), 2, arguments)
  BY BothReduced DEF VjpAdd
<1>2. PICK zero : zero = Append(ns, Filled(node.shape, 0))
  OBVIOUS
<1>3. PICK negated : negated = Chain(zero, "sub", <<Len(zero), g>>, node.shape)
  OBVIOUS
<1>4. Grown(ns, zero, 1, arguments)
  BY <1>2, FilledAdded
<1>5. Grown(zero, negated, 1, arguments)
  <2>1. Built(zero, arguments) /\ Len(zero) \in 1..Len(zero) /\ g \in 1..Len(zero)
    BY <1>4 DEF Grown
  <2> QED
    BY <1>3, <2>1, EmittedOpsAre, TwoEmitted
<1>6. IsRule(negated, ReduceBoth(negated, <<g, Len(negated)>>, <<node.shape, node.shape>>, shapes), 2, arguments)
  <2>1. Built(negated, arguments) /\ Len(negated) \in 1..Len(negated) /\ g \in 1..Len(negated)
    BY <1>4, <1>5 DEF Grown
  <2> QED
    BY <2>1, BothReduced
<1>7. VjpSub(ns, node, g, shapes) = ReduceBoth(negated, <<g, Len(negated)>>, <<node.shape, node.shape>>, shapes)
  BY <1>2, <1>3 DEF VjpSub
<1>8. Longer(ns, negated, arguments)
  BY <1>4, <1>5, GrownIsLonger, LongerStill
<1> QED
  BY <1>1, <1>6, <1>7, <1>8, LongerStill DEF IsRule

LEMMA TwoThenReduced ==
  ASSUME NEW ns, NEW arguments, Built(ns, arguments), NEW a \in 1..Len(ns), NEW b \in 1..Len(ns),
         NEW c \in 1..Len(ns), NEW d \in 1..Len(ns), NEW p \in OfTwo, NEW q \in OfTwo,
         NEW s, NEW t, NEW out, NEW shapes, NEW full,
         full = Chain(Chain(ns, p, <<a, b>>, s), q, <<c, d>>, t)
  PROVE  IsRule(ns, ReduceBoth(full, <<Len(full) - 1, Len(full)>>, out, shapes), 2, arguments)
<1>1. PICK half : half = Chain(ns, p, <<a, b>>, s)
  OBVIOUS
<1>2. Grown(ns, half, 1, arguments)
  BY <1>1, TwoEmitted
<1>3. Built(half, arguments) /\ c \in 1..Len(half) /\ d \in 1..Len(half)
  BY <1>2 DEF Grown
<1>4. Grown(half, full, 1, arguments)
  BY <1>1, <1>3, TwoEmitted
<1>5. Built(full, arguments) /\ Len(full) - 1 \in 1..Len(full) /\ Len(full) \in 1..Len(full)
  BY <1>2, <1>4, BuiltFacts DEF Grown
<1>6. IsRule(full, ReduceBoth(full, <<Len(full) - 1, Len(full)>>, out, shapes), 2, arguments)
  BY <1>5, BothReduced
<1>7. Longer(ns, full, arguments)
  BY <1>2, <1>4, GrownIsLonger, LongerStill
<1> QED
  BY <1>6, <1>7, LongerStill DEF IsRule

LEMMA ProductRules ==
  ASSUME NEW ns, NEW arguments, Built(ns, arguments), NEW node, NEW g \in 1..Len(ns), NEW shapes,
         node.ins[1] \in 1..Len(ns), node.ins[2] \in 1..Len(ns)
  PROVE  /\ IsRule(ns, VjpMul(ns, node, g, shapes), 2, arguments)
         /\ IsRule(ns, VjpMatmul(ns, node, g, shapes), 2, arguments)
<1>1. PICK a, b : a = node.ins[1] /\ b = node.ins[2]
  OBVIOUS
<1>2. a \in 1..Len(ns) /\ b \in 1..Len(ns)
  BY <1>1
<1>3. IsRule(ns, VjpMul(ns, node, g, shapes), 2, arguments)
  <2>1. PICK full : full = Chain(Chain(ns, "mul", <<g, b>>, node.shape), "mul", <<g, a>>, node.shape)
    OBVIOUS
  <2>2. PICK out : out = <<node.shape, node.shape>>
    OBVIOUS
  <2>3. VjpMul(ns, node, g, shapes) = ReduceBoth(full, <<Len(full) - 1, Len(full)>>, out, shapes)
    BY <1>1, <2>1, <2>2 DEF VjpMul
  <2>4. "mul" \in OfTwo
    BY EmittedOpsAre
  <2>5. IsRule(ns, ReduceBoth(full, <<Len(full) - 1, Len(full)>>, out, shapes), 2, arguments)
    BY <1>2, <2>1, <2>4, TwoThenReduced
  <2> QED
    BY <2>3, <2>5
<1>4. IsRule(ns, VjpMatmul(ns, node, g, shapes), 2, arguments)
  <2>1. PICK p, q, s, t :
          /\ s = FullShape(node.shape, shapes[1]) /\ t = FullShape(node.shape, shapes[2])
          /\ p = IF Len(shapes[1]) = 2 /\ Len(shapes[2]) = 2 THEN "matmul_nt" ELSE "batched_matmul_nt"
          /\ q = IF Len(shapes[1]) = 2 /\ Len(shapes[2]) = 2 THEN "matmul_tn" ELSE "batched_matmul_tn"
    OBVIOUS
  <2>2. p \in OfTwo /\ q \in OfTwo
    BY <2>1, EmittedOpsAre
  <2>3. PICK full, out : full = Chain(Chain(ns, p, <<g, b>>, s), q, <<a, g>>, t) /\ out = <<s, t>>
    OBVIOUS
  <2>4. VjpMatmul(ns, node, g, shapes) = ReduceBoth(full, <<Len(full) - 1, Len(full)>>, out, shapes)
    BY <1>1, <2>1, <2>3 DEF VjpMatmul
  <2>5. IsRule(ns, ReduceBoth(full, <<Len(full) - 1, Len(full)>>, out, shapes), 2, arguments)
    BY <1>2, <2>2, <2>3, TwoThenReduced
  <2> QED
    BY <2>4, <2>5
<1> QED
  BY <1>3, <1>4

LEMMA ConvolutionRule ==
  ASSUME NEW ns, NEW arguments, Built(ns, arguments), NEW node, NEW g \in 1..Len(ns), NEW shapes,
         node.ins[1] \in 1..Len(ns), node.ins[2] \in 1..Len(ns)
  PROVE  IsRule(ns, VjpConv2d(ns, node, g, shapes), 3, arguments)
<1>1. PICK a, b : a = node.ins[1] /\ b = node.ins[2]
  OBVIOUS
<1>2. PICK bias : bias = Chain(ns, "conv2d_backward_bias", <<g>>, shapes[3])
  OBVIOUS
<1>3. PICK weight : weight = Emit(bias, "conv2d_backward_weight", <<a, g>>, shapes[2], node.attrs)
  OBVIOUS
<1>4. PICK input : input = Emit(weight, "conv2d_backward_input", <<b, g>>, shapes[1], node.attrs)
  OBVIOUS
<1>5. Grown(ns, bias, 1, arguments)
  BY <1>2, EmittedOpsAre, OneEmitted
<1>6. Grown(bias, weight, 1, arguments)
  <2>1. Built(bias, arguments) /\ a \in 1..Len(bias) /\ g \in 1..Len(bias)
    BY <1>1, <1>5 DEF Grown
  <2> QED
    BY <1>3, <2>1, EmittedOpsAre, TwoEmitted
<1>7. Grown(weight, input, 1, arguments)
  <2>1. Built(weight, arguments) /\ b \in 1..Len(weight) /\ g \in 1..Len(weight)
    BY <1>1, <1>5, <1>6 DEF Grown
  <2> QED
    BY <1>4, <2>1, EmittedOpsAre, TwoEmitted
<1>8. PICK n \in Nat : n = Len(input) /\ n >= 3
  <2>1. Len(ns) \in Nat
    BY BuiltFacts
  <2> QED
    BY <1>5, <1>6, <1>7, <2>1 DEF Grown
<1>9. PICK grads : grads = <<n, n - 1, n - 2>>
  OBVIOUS
<1>10. \A k \in 1..3 : grads[k] \in 1..n
  BY <1>8, <1>9
<1>11. VjpConv2d(ns, node, g, shapes) = Gives(input, grads)
  BY <1>1, <1>2, <1>3, <1>4, <1>8, <1>9 DEF VjpConv2d
<1>12. Longer(ns, input, arguments)
  BY <1>5, <1>6, <1>7, GrownIsLonger, LongerStill
<1> QED
  BY <1>8, <1>10, <1>11, <1>12 DEF IsRule, Gives

LEMMA OneGiven ==
  ASSUME NEW ns, NEW arguments, Built(ns, arguments), NEW op, NEW shape, NEW attrs,
         NEW a \in 1..Len(ns), NEW b \in 1..Len(ns)
  PROVE  /\ op \in OfOne => IsRule(ns, GivesLast(Emit(ns, op, <<a>>, shape, attrs)), 1, arguments)
         /\ op \in OfOne => IsRule(ns, GivesLast(Chain(ns, op, <<a>>, shape)), 1, arguments)
         /\ op \in OfTwo => IsRule(ns, GivesLast(Emit(ns, op, <<a, b>>, shape, attrs)), 1, arguments)
         /\ op \in OfTwo => IsRule(ns, GivesLast(Chain(ns, op, <<a, b>>, shape)), 1, arguments)
<1>1. ASSUME NEW ms, Grown(ns, ms, 1, arguments) PROVE IsRule(ns, GivesLast(ms), 1, arguments)
  <2>1. Longer(ns, ms, arguments) /\ Len(ms) # 0
    BY <1>1, GrownIsLonger DEF Grown
  <2> QED
    BY <2>1, LastIsGiven
<1> QED
  BY <1>1, OneEmitted, TwoEmitted

LEMMA UnaryRules ==
  ASSUME NEW ns, NEW arguments, Built(ns, arguments), NEW node, NEW g \in 1..Len(ns), NEW shapes,
         node.ins[1] \in 1..Len(ns), NEW out \in 1..Len(ns)
  PROVE  /\ node.op \in {"relu", "gelu", "leaky_relu"} =>
              IsRule(ns, VjpOfInput(ns, node, g), 1, arguments)
         /\ node.op \in {"sum", "mean", "sum_dim"} =>
              IsRule(ns, VjpReduction(ns, node, g, shapes), 1, arguments)
         /\ IsRule(ns, VjpReshape(ns, node, g, shapes), 1, arguments)
         /\ IsRule(ns, VjpTranspose(ns, node, g, shapes), 1, arguments)
         /\ IsRule(ns, VjpIndexSelect(ns, node, g, shapes), 1, arguments)
         /\ IsRule(ns, VjpExp(ns, node, out, g), 1, arguments)
<1>1. PICK a : a = node.ins[1] /\ a \in 1..Len(ns)
  OBVIOUS
<1>2. ASSUME node.op \in {"relu", "gelu", "leaky_relu"}
      PROVE  IsRule(ns, VjpOfInput(ns, node, g), 1, arguments)
  <2>1. PICK op : VjpOfInput(ns, node, g) = GivesLast(Emit(ns, op, <<a, g>>, node.shape, node.attrs))
                  /\ op \in {"relu_backward", "gelu_backward", "leaky_relu_backward"}
    <3>1. CASE node.op = "relu"
      <4>1. VjpOfInput(ns, node, g) = GivesLast(Emit(ns, "relu_backward", <<a, g>>, node.shape, node.attrs))
        BY <1>1, <3>1 DEF VjpOfInput
      <4> QED
        BY <4>1
    <3>2. CASE node.op = "gelu"
      <4>1. VjpOfInput(ns, node, g) = GivesLast(Emit(ns, "gelu_backward", <<a, g>>, node.shape, node.attrs))
        BY <1>1, <3>2 DEF VjpOfInput
      <4> QED
        BY <4>1
    <3>3. CASE node.op = "leaky_relu"
      <4>1. VjpOfInput(ns, node, g) = GivesLast(Emit(ns, "leaky_relu_backward", <<a, g>>, node.shape, node.attrs))
        BY <1>1, <3>3 DEF VjpOfInput
      <4> QED
        BY <4>1
    <3> QED
      BY <1>2, <3>1, <3>2, <3>3
  <2> QED
    BY <1>1, <2>1, EmittedOpsAre, OneGiven
<1>3. ASSUME node.op \in {"sum", "mean", "sum_dim"}
      PROVE  IsRule(ns, VjpReduction(ns, node, g, shapes), 1, arguments)
  <2>1. CASE node.op = "sum"
    <3>1. VjpReduction(ns, node, g, shapes) = GivesLast(Emit(ns, "broadcast_scalar", <<g>>, shapes[1], <<1>>))
      BY <2>1 DEF VjpReduction
    <3> QED
      BY <3>1, EmittedOpsAre, OneGiven
  <2>2. CASE node.op = "mean"
    <3>1. PICK at : VjpReduction(ns, node, g, shapes) = GivesLast(Emit(ns, "broadcast_scalar", <<g>>, shapes[1], at))
      BY <2>2 DEF VjpReduction
    <3> QED
      BY <3>1, EmittedOpsAre, OneGiven
  <2>3. CASE node.op = "sum_dim"
    <3>1. VjpReduction(ns, node, g, shapes) = GivesLast(Chain(ns, "broadcast_to_shape", <<g>>, shapes[1]))
      BY <2>3 DEF VjpReduction
    <3> QED
      BY <3>1, EmittedOpsAre, OneGiven
  <2> QED
    BY <1>3, <2>1, <2>2, <2>3
<1>4. IsRule(ns, VjpReshape(ns, node, g, shapes), 1, arguments)
  BY EmittedOpsAre, OneGiven DEF VjpReshape
<1>5. IsRule(ns, VjpTranspose(ns, node, g, shapes), 1, arguments)
  BY EmittedOpsAre, OneGiven DEF VjpTranspose
<1>6. IsRule(ns, VjpIndexSelect(ns, node, g, shapes), 1, arguments)
  BY EmittedOpsAre, OneGiven DEF VjpIndexSelect
<1>7. IsRule(ns, VjpExp(ns, node, out, g), 1, arguments)
  BY EmittedOpsAre, OneGiven DEF VjpExp
<1> QED
  BY <1>2, <1>3, <1>4, <1>5, <1>6, <1>7

(* Rules that emit a few nodes, each reading what came before.             *)
Extends(ns, ms, arguments) ==
  Built(ms, arguments) /\ Longer(ns, ms, arguments) /\ \A i \in 1..Len(ns) : i \in 1..Len(ms)

LEMMA Start ==
  ASSUME NEW ns, NEW arguments, Built(ns, arguments)
  PROVE  Extends(ns, ns, arguments)
BY BuiltFacts DEF Extends, Longer

LEMMA Further ==
  ASSUME NEW ns, NEW ms, NEW arguments, Extends(ns, ms, arguments),
         NEW os, Grown(ms, os, 1, arguments)
  PROVE  Extends(ns, os, arguments) /\ Len(os) \in 1..Len(os) /\ Len(ms) \in 1..Len(os) \cup {0}
BY DEF Extends, Grown, Longer

LEMMA RuleFromThere ==
  ASSUME NEW ns, NEW ms, NEW arguments, Extends(ns, ms, arguments),
         NEW rule, NEW m, IsRule(ms, rule, m, arguments)
  PROVE  IsRule(ns, rule, m, arguments)
BY DEF Extends, IsRule, Longer

LEMMA FunctionRules ==
  ASSUME NEW ns, NEW arguments, Built(ns, arguments), NEW node, NEW g \in 1..Len(ns),
         node.ins[1] \in 1..Len(ns), NEW out \in 1..Len(ns)
  PROVE  /\ IsRule(ns, VjpSqrt(ns, node, out, g), 1, arguments)
         /\ IsRule(ns, VjpReciprocal(ns, node, out, g), 1, arguments)
         /\ IsRule(ns, VjpLog(ns, node, g), 1, arguments)
         /\ IsRule(ns, VjpTanh(ns, node, out, g), 1, arguments)
         /\ IsRule(ns, VjpSigmoid(ns, node, out, g), 1, arguments)
<1>1. PICK a, s : a = node.ins[1] /\ s = node.shape
  OBVIOUS
<1>2. PICK one, two : one = OfOne /\ two = OfTwo
  OBVIOUS
<1>3. "reciprocal" \in one /\ "mul" \in two /\ "sub" \in two
  BY <1>2, EmittedOpsAre
<1>4. ASSUME NEW ms, Extends(ns, ms, arguments), NEW i \in 1..Len(ms), NEW j \in 1..Len(ms),
             NEW op
      PROVE  /\ op \in one => /\ Extends(ns, Chain(ms, op, <<i>>, s), arguments)
                              /\ Len(Chain(ms, op, <<i>>, s)) \in 1..Len(Chain(ms, op, <<i>>, s))
             /\ op \in two => /\ Extends(ns, Chain(ms, op, <<i, j>>, s), arguments)
                              /\ Len(Chain(ms, op, <<i, j>>, s)) \in 1..Len(Chain(ms, op, <<i, j>>, s))
                              /\ IsRule(ns, GivesLast(Chain(ms, op, <<i, j>>, s)), 1, arguments)
  <2>1. Built(ms, arguments)
    BY <1>4 DEF Extends
  <2>2. op \in one => Grown(ms, Chain(ms, op, <<i>>, s), 1, arguments)
    BY <1>2, <2>1, OneEmitted
  <2>3. op \in two => Grown(ms, Chain(ms, op, <<i, j>>, s), 1, arguments)
    BY <1>2, <2>1, TwoEmitted
  <2>4. op \in two => IsRule(ms, GivesLast(Chain(ms, op, <<i, j>>, s)), 1, arguments)
    BY <1>2, <2>1, OneGiven
  <2> QED
    BY <1>4, <2>2, <2>3, <2>4, Further, RuleFromThere
<1>5. ASSUME NEW ms, Extends(ns, ms, arguments), Len(ms) # 0, NEW shape, NEW v
      PROVE  /\ Extends(ns, Append(ms, Filled(shape, v)), arguments)
             /\ Len(Append(ms, Filled(shape, v))) \in 1..Len(Append(ms, Filled(shape, v)))
             /\ Len(ms) \in 1..Len(Append(ms, Filled(shape, v)))
  <2>1. Built(ms, arguments)
    BY <1>5 DEF Extends
  <2>2. Grown(ms, Append(ms, Filled(shape, v)), 1, arguments)
    BY <2>1, FilledAdded
  <2> QED
    BY <1>5, <2>2, Further
<1>6. ASSUME NEW ms, Extends(ns, ms, arguments)
      PROVE  a \in 1..Len(ms) /\ g \in 1..Len(ms) /\ out \in 1..Len(ms) /\ Len(ms) # 0
  BY <1>1, <1>6 DEF Extends
<1>7. Extends(ns, ns, arguments)
  BY Start
<1>8. IsRule(ns, VjpSqrt(ns, node, out, g), 1, arguments)
  <2>1. PICK p : p = Chain(ns, "reciprocal", <<out>>, s)
    OBVIOUS
  <2>2. PICK q : q = Chain(p, "mul", <<g, Len(p)>>, s)
    OBVIOUS
  <2>3. PICK h : h = Append(q, Filled(<<1>>, Reciprocal(2)))
    OBVIOUS
  <2>4. Extends(ns, p, arguments) /\ Len(p) \in 1..Len(p)
    BY <1>3, <1>4, <1>7, <2>1
  <2>5. Extends(ns, q, arguments) /\ Len(q) \in 1..Len(q)
    BY <1>3, <1>4, <1>6, <2>2, <2>4
  <2>6. Extends(ns, h, arguments) /\ Len(h) \in 1..Len(h) /\ Len(q) \in 1..Len(h)
    BY <1>5, <1>6, <2>3, <2>5
  <2>7. IsRule(ns, GivesLast(Chain(h, "mul", <<Len(q), Len(h)>>, s)), 1, arguments)
    BY <1>3, <1>4, <2>6
  <2> QED
    BY <1>1, <2>1, <2>2, <2>3, <2>7 DEF VjpSqrt
<1>9. IsRule(ns, VjpReciprocal(ns, node, out, g), 1, arguments)
  <2>1. PICK p : p = Chain(ns, "mul", <<out, out>>, s)
    OBVIOUS
  <2>2. PICK q : q = Chain(p, "mul", <<g, Len(p)>>, s)
    OBVIOUS
  <2>3. PICK h : h = Append(q, Filled(s, 0))
    OBVIOUS
  <2>4. Extends(ns, p, arguments) /\ Len(p) \in 1..Len(p)
    BY <1>3, <1>4, <1>7, <2>1
  <2>5. Extends(ns, q, arguments) /\ Len(q) \in 1..Len(q)
    BY <1>3, <1>4, <1>6, <2>2, <2>4
  <2>6. Extends(ns, h, arguments) /\ Len(h) \in 1..Len(h) /\ Len(q) \in 1..Len(h)
    BY <1>5, <1>6, <2>3, <2>5
  <2>7. IsRule(ns, GivesLast(Chain(h, "sub", <<Len(h), Len(q)>>, s)), 1, arguments)
    BY <1>3, <1>4, <2>6
  <2> QED
    BY <1>1, <2>1, <2>2, <2>3, <2>7 DEF VjpReciprocal
<1>10. IsRule(ns, VjpLog(ns, node, g), 1, arguments)
  <2>1. PICK p : p = Chain(ns, "reciprocal", <<a>>, s)
    OBVIOUS
  <2>2. Extends(ns, p, arguments) /\ Len(p) \in 1..Len(p)
    BY <1>1, <1>3, <1>4, <1>7, <2>1
  <2>3. IsRule(ns, GivesLast(Chain(p, "mul", <<g, Len(p)>>, s)), 1, arguments)
    BY <1>3, <1>4, <1>6, <2>2
  <2> QED
    BY <1>1, <2>1, <2>3 DEF VjpLog
<1>11. IsRule(ns, VjpTanh(ns, node, out, g), 1, arguments)
  <2>1. PICK p : p = Chain(ns, "mul", <<out, out>>, s)
    OBVIOUS
  <2>2. PICK q : q = Append(p, Filled(<<1>>, 1))
    OBVIOUS
  <2>3. PICK h : h = Chain(q, "sub", <<Len(q), Len(p)>>, s)
    OBVIOUS
  <2>4. Extends(ns, p, arguments) /\ Len(p) \in 1..Len(p)
    BY <1>3, <1>4, <1>7, <2>1
  <2>5. Extends(ns, q, arguments) /\ Len(q) \in 1..Len(q) /\ Len(p) \in 1..Len(q)
    BY <1>5, <1>6, <2>2, <2>4
  <2>6. Extends(ns, h, arguments) /\ Len(h) \in 1..Len(h)
    BY <1>3, <1>4, <2>3, <2>5
  <2>7. IsRule(ns, GivesLast(Chain(h, "mul", <<g, Len(h)>>, s)), 1, arguments)
    BY <1>3, <1>4, <1>6, <2>6
  <2> QED
    BY <1>1, <2>1, <2>2, <2>3, <2>7 DEF VjpTanh
<1>12. IsRule(ns, VjpSigmoid(ns, node, out, g), 1, arguments)
  <2>1. PICK p : p = Append(ns, Filled(<<1>>, 1))
    OBVIOUS
  <2>2. PICK q : q = Chain(p, "sub", <<Len(p), out>>, s)
    OBVIOUS
  <2>3. PICK h : h = Chain(q, "mul", <<out, Len(q)>>, s)
    OBVIOUS
  <2>4. Extends(ns, p, arguments) /\ Len(p) \in 1..Len(p)
    BY <1>5, <1>6, <1>7, <2>1
  <2>5. Extends(ns, q, arguments) /\ Len(q) \in 1..Len(q)
    BY <1>3, <1>4, <1>6, <2>2, <2>4
  <2>6. Extends(ns, h, arguments) /\ Len(h) \in 1..Len(h)
    BY <1>3, <1>4, <1>6, <2>3, <2>5
  <2>7. IsRule(ns, GivesLast(Chain(h, "mul", <<g, Len(h)>>, s)), 1, arguments)
    BY <1>3, <1>4, <1>6, <2>6
  <2> QED
    BY <1>1, <2>1, <2>2, <2>3, <2>7 DEF VjpSigmoid
<1> QED
  BY <1>8, <1>9, <1>10, <1>11, <1>12

LEMMA FilledIs ==
  ASSUME NEW shape, NEW v, NEW n \in Nat
  PROVE  /\ Filled(shape, v).op # "placeholder" /\ Filled(shape, v).op # "fused_bias_relu"
         /\ NodeAfter(Filled(shape, v), n)
<1>1. PICK node, ins, op : node = Filled(shape, v) /\ ins = << >> /\ op = "constant"
  OBVIOUS
<1>2. node.op = op /\ node.ins = ins /\ node = Node(node.op, node.ins, node.shape, node.attrs)
  BY <1>1 DEF Filled, Node
<1>3. Reads(ins, n) /\ Len(ins) \in Arity(op)
  BY <1>1, ReadsUpTo, ArityFacts
<1>4. NodeAfter(node, n)
  BY <1>2, <1>3 DEF NodeAfter
<1> QED
  BY <1>1, <1>2, <1>4

LEMMA ZerosAreMore ==
  ASSUME NEW shape, NEW v, NEW n \in Nat
  PROVE  /\ AreMore(<<Filled(shape, v)>>, n) /\ Len(<<Filled(shape, v)>>) = 1
         /\ AreMore(<< >>, n) /\ Len(<< >>) = 0
<1>1. PICK node, one, none : node = Filled(shape, v) /\ one = <<node>> /\ none = << >>
  OBVIOUS
<1>2. IsSequence(one) /\ Len(one) = 1 /\ one[1] = node /\ IsSequence(none) /\ Len(none) = 0
  BY <1>1, OneIsASequence
<1>3. DOMAIN one = 1..1 /\ DOMAIN none = 1..0
  BY <1>2, SequenceIsAFunction
<1>4. /\ node.op # "placeholder" /\ node.op # "fused_bias_relu" /\ NodeAfter(node, n)
  BY <1>1, FilledIs
<1>5. \A k \in DOMAIN one : k = 1
  BY <1>3
<1>6. AreMore(one, n)
  BY <1>2, <1>4, <1>5 DEF AreMore
<1>7. AreMore(none, n)
  BY <1>2, <1>3 DEF AreMore
<1> QED
  BY <1>1, <1>2, <1>6, <1>7

LEMMA ReadsConcat ==
  ASSUME NEW s, NEW t, NEW n \in Nat, Reads(s, n), Reads(t, n)
  PROVE  /\ Reads(s \o t, n) /\ Len(s \o t) = Len(s) + Len(t) /\ Len(s) \in Nat /\ Len(t) \in Nat
         /\ \A i \in 1..(Len(s) + Len(t)) : (s \o t)[i] = IF i <= Len(s) THEN s[i] ELSE t[i - Len(s)]
<1>1. PICK a, b, u : a = Len(s) /\ b = Len(t) /\ u = s \o t
  OBVIOUS
<1>2. /\ a \in Nat /\ b \in Nat /\ DOMAIN s = 1..a /\ DOMAIN t = 1..b /\ IsSequence(s) /\ IsSequence(t)
      /\ \A k \in 1..a : s[k] \in 1..n
      /\ \A k \in 1..b : t[k] \in 1..n
  BY <1>1, SequenceIsAFunction DEF Reads
<1>3. /\ IsSequence(u) /\ Len(u) = a + b /\ DOMAIN u = 1..(a + b)
      /\ \A i \in 1..(a + b) : u[i] = IF i <= a THEN s[i] ELSE t[i - a]
  BY <1>1, <1>2, ConcatAnything
<1>4. ASSUME NEW i \in 1..(a + b) PROVE u[i] \in 1..n
  <2>1. CASE i <= a
    BY <1>2, <1>3, <2>1
  <2>2. CASE ~(i <= a)
    BY <1>2, <1>3, <2>2
  <2> QED
    BY <2>1, <2>2
<1> QED
  BY <1>1, <1>2, <1>3, <1>4 DEF Reads

LEMMA PiecesAreCat ==
  ASSUME NEW ns, NEW arguments, Built(ns, arguments), NEW pieces, Reads(pieces, Len(ns)), NEW shape, NEW attrs
  PROVE  IsRule(ns, GivesLast(Emit(ns, "cat", pieces, shape, attrs)), 1, arguments)
<1>1. PICK op : op = "cat"
  OBVIOUS
<1>2. Len(pieces) \in Arity(op) /\ op # "placeholder" /\ op # "fused_bias_relu"
  <2>1. Len(pieces) \in Nat
    BY SequenceIsAFunction DEF Reads
  <2> QED
    BY <1>1, <2>1, ArityFacts
<1>3. Grown(ns, Emit(ns, op, pieces, shape, attrs), 1, arguments)
  BY <1>2, NodeIsAdded DEF Emit
<1>4. Longer(ns, Emit(ns, op, pieces, shape, attrs), arguments) /\ Len(Emit(ns, op, pieces, shape, attrs)) # 0
  BY <1>3, GrownIsLonger DEF Grown
<1> QED
  BY <1>1, <1>4, LastIsGiven

LEMMA SliceRule ==
  ASSUME NEW ns, NEW arguments, Built(ns, arguments), NEW node, NEW g \in 1..Len(ns), NEW shapes
  PROVE  IsRule(ns, VjpSlice(ns, node, g, shapes), 1, arguments)
<1> DEFINE dim == node.attrs[1]
           full == shapes[1][dim]
           zeros(size) == Filled([shapes[1] EXCEPT ![dim] = size], 0)
           before == node.attrs[2] > 0
           behind == node.attrs[3] < full
<1>1. PICK first, last : first = zeros(node.attrs[2]) /\ last = zeros(full - node.attrs[3])
  OBVIOUS
<1>2. PICK pre, post : pre = (IF before THEN <<first>> ELSE << >>) /\ post = (IF behind THEN <<last>> ELSE << >>)
  OBVIOUS
<1>3. PICK n, half, padded : n = Len(ns) /\ half = ns \o pre /\ padded = half \o post
  OBVIOUS
<1>4. PICK pieces : pieces = (IF pre = << >> THEN << >> ELSE <<n + 1>>) \o <<g>>
                               \o (IF post = << >> THEN << >> ELSE <<Len(padded)>>)
  OBVIOUS
<1>5. VjpSlice(ns, node, g, shapes) =
        IF Len(pieces) = 1 THEN Gives(ns, pieces) ELSE GivesLast(Emit(padded, "cat", pieces, shapes[1], <<dim>>))
  BY <1>1, <1>2, <1>3, <1>4 DEF VjpSlice
<1>6. \A m \in Nat : AreMore(<<first>>, m) /\ AreMore(<<last>>, m) /\ AreMore(<< >>, m)
  BY <1>1, ZerosAreMore
<1> HIDE DEF dim, full, zeros, before, behind
<1>7. n \in Nat /\ n # 0 /\ g \in 1..n
  BY <1>3, BuiltFacts
<1>8. /\ pre = << >> \/ pre = <<first>>
      /\ post = << >> \/ post = <<last>>
  BY <1>2
<1>9. <<first>> # << >> /\ <<last>> # << >> /\ Len(<<first>>) = 1 /\ Len(<<last>>) = 1 /\ Len(<< >>) = 0
  BY OneIsASequence
<1>10. Grown(ns, half, Len(pre), arguments) /\ Len(pre) \in Nat
  BY <1>3, <1>6, <1>7, <1>8, ManyAreAdded
<1>11. Built(half, arguments) /\ Len(half) \in Nat /\ Len(half) = n + Len(pre)
  BY <1>3, <1>10 DEF Grown
<1>12. Grown(half, padded, Len(post), arguments) /\ Len(post) \in Nat
  BY <1>3, <1>6, <1>8, <1>11, ManyAreAdded
<1>13. Built(padded, arguments) /\ Len(padded) = n + Len(pre) + Len(post) /\ Longer(ns, padded, arguments)
  BY <1>10, <1>11, <1>12, GrownIsLonger, LongerStill DEF Grown
<1>14. PICK m \in Nat : m = Len(padded)
  BY <1>10, <1>12, <1>13, <1>7
<1>15. /\ m = n + Len(pre) + Len(post)
       /\ pre = << >> => Len(pre) = 0
       /\ pre # << >> => Len(pre) = 1
       /\ post = << >> => Len(post) = 0
       /\ post # << >> => Len(post) = 1
  BY <1>8, <1>9, <1>13, <1>14
<1>16. PICK p, q, mid : /\ p = (IF pre = << >> THEN << >> ELSE <<n + 1>>) /\ mid = <<g>>
                        /\ q = (IF post = << >> THEN << >> ELSE <<m>>) /\ pieces = (p \o mid) \o q
  BY <1>4, <1>14
<1>19. /\ Reads(p, m) /\ Reads(mid, m) /\ Reads(q, m) /\ Len(mid) = 1 /\ mid[1] = g
       /\ Len(p) = 0 \/ Len(p) = 1
  <2>1. g \in 1..m /\ Reads(<< >>, m)
    BY <1>7, <1>14, <1>15, ReadsUpTo
  <2>2. pre # << >> => n + 1 \in 1..m
    BY <1>7, <1>14, <1>15
  <2>3. post # << >> => m \in 1..m
    BY <1>7, <1>14, <1>15
  <2>4. ASSUME NEW x \in 1..m PROVE Reads(<<x>>, m) /\ Len(<<x>>) = 1
    BY ReadsUpTo
  <2>5. Len(<< >>) = 0
    BY ReadsUpTo
  <2>6. PICK x : x = n + 1 /\ (pre # << >> => x \in 1..m)
    BY <2>2
  <2>7. p = IF pre = << >> THEN << >> ELSE <<x>>
    BY <1>16, <2>6
  <2>8. Reads(p, m) /\ (Len(p) = 0 \/ Len(p) = 1)
    BY <2>1, <2>4, <2>5, <2>6, <2>7
  <2>9. Reads(q, m)
    BY <1>16, <2>1, <2>3, <2>4
  <2> QED
    BY <1>16, <2>1, <2>4, <2>8, <2>9, OneIsASequence
<1>20. /\ Reads(p \o mid, m) /\ Len(p \o mid) = Len(p) + 1
       /\ Len(p) = 0 => (p \o mid)[1] = g
  <2>1. 1 \in 1..(Len(p) + Len(mid))
    BY <1>19
  <2>2. PICK pm : pm = p \o mid
    OBVIOUS
  <2>3. /\ Reads(pm, m) /\ Len(pm) = Len(p) + Len(mid) /\ Len(p) \in Nat
        /\ \A i \in 1..(Len(p) + Len(mid)) : pm[i] = IF i <= Len(p) THEN p[i] ELSE mid[i - Len(p)]
    BY <1>19, <2>2, ReadsConcat
  <2>4. pm[1] = IF 1 <= Len(p) THEN p[1] ELSE mid[1 - Len(p)]
    BY <2>1, <2>3
  <2>5. Len(p) = 0 => pm[1] = g
    BY <1>19, <2>4
  <2> QED
    BY <1>19, <2>2, <2>3, <2>5
<1>21. /\ Reads(pieces, m) /\ Len(pieces) = Len(p) + 1 + Len(q) /\ Len(q) \in Nat
       /\ Len(p) = 0 => pieces[1] = g
  <2>1. PICK pm : pm = p \o mid
    OBVIOUS
  <2>2. Reads(pm, m) /\ Len(pm) = Len(p) + 1 /\ Reads(q, m) /\ pieces = pm \o q
    BY <1>16, <1>19, <1>20, <2>1
  <2>3. /\ Reads(pieces, m) /\ Len(pieces) = Len(p) + 1 + Len(q) /\ Len(q) \in Nat
        /\ \A i \in 1..(Len(pm) + Len(q)) : pieces[i] = IF i <= Len(pm) THEN pm[i] ELSE q[i - Len(pm)]
    BY <2>2, ReadsConcat
  <2>4. 1 \in 1..(Len(pm) + Len(q)) /\ 1 <= Len(pm)
    BY <1>19, <2>2, <2>3
  <2> QED
    BY <1>20, <2>1, <2>3, <2>4
<1>17. CASE Len(pieces) = 1
  <2>1. pieces[1] = g
    BY <1>17, <1>19, <1>21
  <2>2. Gives(ns, pieces).bwd = ns /\ Gives(ns, pieces).grads = pieces
    BY DEF Gives
  <2>3. Longer(ns, ns, arguments)
    BY <1>3, <1>7 DEF Longer
  <2> QED
    BY <1>5, <1>17, <2>1, <2>2, <2>3 DEF IsRule
<1>18. CASE Len(pieces) # 1
  <2>1. IsRule(padded, GivesLast(Emit(padded, "cat", pieces, shapes[1], <<dim>>)), 1, arguments)
    BY <1>13, <1>14, <1>21, PiecesAreCat
  <2> QED
    BY <1>5, <1>13, <1>18, <2>1, LongerStill DEF IsRule
<1> QED
  BY <1>17, <1>18

(* One node more for each operand, for it.                                 *)
LEMMA EachGiven ==
  ASSUME NEW ns, NEW arguments, Built(ns, arguments), NEW m \in Nat, NEW more, AreMore(more, Len(ns)),
         DOMAIN more = 1..m, NEW grads, grads = [k \in 1..m |-> Len(ns) + k]
  PROVE  IsRule(ns, Gives(ns \o more, grads), m, arguments)
<1>1. Len(more) = m
  BY SequenceIsAFunction DEF AreMore
<1>2. Grown(ns, ns \o more, m, arguments)
  BY <1>1, ManyAreAdded
<1>3. Longer(ns, ns \o more, arguments) /\ Len(ns \o more) = Len(ns) + m /\ Len(ns) \in Nat
  BY <1>2, GrownIsLonger DEF Grown
<1>4. \A k \in 1..m : grads[k] \in 1..Len(ns \o more)
  BY <1>3
<1>5. Gives(ns \o more, grads).bwd = ns \o more /\ Gives(ns \o more, grads).grads = grads
  BY DEF Gives
<1> QED
  BY <1>3, <1>4, <1>5 DEF IsRule

LEMMA CatAndZeroRules ==
  ASSUME NEW ns, NEW arguments, Built(ns, arguments), NEW node, NEW g \in 1..Len(ns),
         NEW m \in Nat, NEW shapes, DOMAIN shapes = 1..m
  PROVE  /\ IsRule(ns, VjpCat(ns, node, g, shapes), m, arguments)
         /\ IsRule(ns, VjpZero(ns, shapes), m, arguments)
<1>1. IsRule(ns, VjpZero(ns, shapes), m, arguments)
  <2>1. PICK more, grads : /\ more = [k \in DOMAIN shapes |-> Filled(shapes[k], 0)]
                           /\ grads = [k \in DOMAIN shapes |-> Len(ns) + k]
    OBVIOUS
  <2>2. IsSequence(more)
    <3>1. more \in [1..m -> {more[k] : k \in 1..m}]
      BY <2>1
    <3> QED
      BY <3>1, SequenceByDomain
  <2>3. Len(ns) \in Nat
    BY BuiltFacts
  <2>4. \A k \in DOMAIN more : more[k] = Filled(shapes[k], 0)
    BY <2>1
  <2>5. AreMore(more, Len(ns))
    BY <2>2, <2>3, <2>4, FilledIs DEF AreMore
  <2>6. IsRule(ns, Gives(ns \o more, grads), m, arguments)
    BY <2>1, <2>5, EachGiven
  <2> QED
    BY <2>1, <2>6 DEF VjpZero
<1>2. IsRule(ns, VjpCat(ns, node, g, shapes), m, arguments)
  <2> DEFINE dim == node.attrs[1]
  <2> DEFINE offset[k \in DOMAIN shapes] == IF k = 1 THEN 0 ELSE offset[k - 1] + shapes[k - 1][dim]
  <2> DEFINE at(k) == <<dim, offset[k], offset[k] + shapes[k][dim]>>
  <2>1. VjpCat(ns, node, g, shapes) =
          Gives(ns \o [k \in DOMAIN shapes |-> Node("slice", <<g>>, shapes[k], at(k))],
                [k \in DOMAIN shapes |-> Len(ns) + k])
    BY Zenon DEF VjpCat
  <2>2. PICK more : more = [k \in DOMAIN shapes |-> Node("slice", <<g>>, shapes[k], at(k))]
    OBVIOUS
  <2>3. ASSUME NEW k \in DOMAIN more PROVE \E x : more[k] = Node("slice", <<g>>, shapes[k], x)
    BY <2>2
  <2>4. DOMAIN more = 1..m
    BY <2>2
  <2>5. VjpCat(ns, node, g, shapes) = Gives(ns \o more, [k \in DOMAIN shapes |-> Len(ns) + k])
    BY <2>1, <2>2
  <2> HIDE DEF dim, offset, at
  <2>6. PICK grads : grads = [k \in DOMAIN shapes |-> Len(ns) + k]
    OBVIOUS
  <2>7. IsSequence(more)
    <3>1. more = [k \in 1..m |-> more[k]]
      BY <2>2, <2>4
    <3>2. more \in [1..m -> {more[k] : k \in 1..m}]
      BY <3>1
    <3> QED
      BY <3>2, SequenceByDomain
  <2>8. ASSUME NEW k \in DOMAIN more
        PROVE  /\ more[k].op # "placeholder" /\ more[k].op # "fused_bias_relu"
               /\ NodeAfter(more[k], Len(ns))
    <3>1. PICK x, op, ins, shape : /\ more[k] = Node(op, ins, shape, x) /\ op = "slice" /\ ins = <<g>>
      BY <2>3
    <3>2. more[k].op = op /\ more[k].ins = ins
          /\ more[k] = Node(more[k].op, more[k].ins, more[k].shape, more[k].attrs)
      BY <3>1 DEF Node
    <3>3. op \in OfOne /\ Reads(ins, Len(ns)) /\ Len(ins) = 1
      BY <3>1, EmittedOpsAre, ReadsUpTo, BuiltFacts
    <3> QED
      BY <3>2, <3>3, ArityFacts DEF NodeAfter
  <2>9. AreMore(more, Len(ns))
    BY <2>7, <2>8 DEF AreMore
  <2> QED
    BY <2>4, <2>5, <2>6, <2>9, EachGiven
<1> QED
  BY <1>1, <1>2

LEMMA AritiesAre ==
  ASSUME NEW op, NEW m, m \in Arity(op)
  PROVE  /\ op \in {"add", "sub", "mul", "matmul", "gt", "lt", "eq"} => m = 2
         /\ op = "conv2d" => m = 3
         /\ op \in Unary \cup {"sum", "mean", "sum_dim", "max_dim", "reshape", "transpose", "slice",
                               "index_select"} => m = 1
         /\ m \in Nat
<1>1. CASE op \in {"add", "sub", "mul", "matmul", "gt", "lt", "eq"}
  BY <1>1 DEF Arity, Unary
<1>2. CASE op = "conv2d"
  BY <1>2 DEF Arity, Unary
<1>3. CASE op \in Unary \cup {"sum", "mean", "sum_dim", "max_dim", "reshape", "transpose", "slice",
                              "index_select"}
  BY <1>3 DEF Arity, Unary
<1>4. CASE op \in {"placeholder", "constant"}
  BY <1>4 DEF Arity, Unary
<1>5. CASE op \in {"fused_bias_relu", "fused_sub_square"}
  BY <1>5 DEF Arity, Unary
<1>6. CASE op \notin {"add", "sub", "mul", "matmul", "gt", "lt", "eq", "conv2d", "placeholder", "constant",
                      "fused_bias_relu", "fused_sub_square", "sum", "mean", "sum_dim", "max_dim", "reshape",
                      "transpose", "slice", "index_select"} \cup Unary
  BY <1>6 DEF Arity, Unary
<1> QED
  BY <1>1, <1>2, <1>3, <1>4, <1>5, <1>6

RuleInput(ns, node, out, g, shapes, arguments) ==
  /\ Built(ns, arguments) /\ out \in 1..Len(ns) /\ g \in 1..Len(ns)
  /\ Len(node.ins) \in Arity(node.op) /\ DOMAIN node.ins = 1..Len(node.ins)
  /\ \A k \in DOMAIN node.ins : node.ins[k] \in 1..Len(ns)
  /\ DOMAIN shapes = 1..Len(node.ins)

LEMMA VjpIsRule ==
  ASSUME NEW ns, NEW node, NEW out, NEW g, NEW shapes, NEW arguments,
         RuleInput(ns, node, out, g, shapes, arguments), node.op \in Differentiable
  PROVE  IsRule(ns, Vjp(ns, node, out, g, shapes), Len(node.ins), arguments)
<1>1. PICK m, op : m = Len(node.ins) /\ op = node.op
  OBVIOUS
<1>2. /\ Built(ns, arguments) /\ out \in 1..Len(ns) /\ g \in 1..Len(ns) /\ m \in Arity(op)
      /\ \A k \in 1..m : node.ins[k] \in 1..Len(ns)
      /\ DOMAIN shapes = 1..m
  BY <1>1 DEF RuleInput
<1>3. m \in Nat
  BY <1>2, AritiesAre
<1>4. CASE op \in {"add", "sub", "mul", "matmul"}
  <2>1. m = 2
    BY <1>2, <1>4, AritiesAre
  <2>2. node.ins[1] \in 1..Len(ns) /\ node.ins[2] \in 1..Len(ns)
    BY <1>2, <2>1
  <2>3. \/ Vjp(ns, node, out, g, shapes) = VjpAdd(ns, node, g, shapes)
        \/ Vjp(ns, node, out, g, shapes) = VjpSub(ns, node, g, shapes)
        \/ Vjp(ns, node, out, g, shapes) = VjpMul(ns, node, g, shapes)
        \/ Vjp(ns, node, out, g, shapes) = VjpMatmul(ns, node, g, shapes)
    BY <1>1, <1>4 DEF Vjp
  <2> QED
    BY <1>1, <1>2, <2>1, <2>2, <2>3, SumRules, ProductRules
<1>5. CASE op = "conv2d"
  <2>1. m = 3
    BY <1>2, <1>5, AritiesAre
  <2>2. node.ins[1] \in 1..Len(ns) /\ node.ins[2] \in 1..Len(ns)
    BY <1>2, <2>1
  <2>3. Vjp(ns, node, out, g, shapes) = VjpConv2d(ns, node, g, shapes)
    BY <1>1, <1>5 DEF Vjp
  <2> QED
    BY <1>1, <1>2, <2>1, <2>2, <2>3, ConvolutionRule
<1>6. CASE op \in {"relu", "gelu", "leaky_relu", "sum", "mean", "sum_dim", "reshape", "transpose",
                   "index_select", "exp"}
  <2>1. m = 1
    <3>1. op \in Unary \cup {"sum", "mean", "sum_dim", "max_dim", "reshape", "transpose", "slice", "index_select"}
      BY <1>6 DEF Unary
    <3> QED
      BY <1>2, <3>1, AritiesAre
  <2>2. node.ins[1] \in 1..Len(ns)
    BY <1>2, <2>1
  <2>3. \/ op \in {"relu", "gelu", "leaky_relu"} /\ Vjp(ns, node, out, g, shapes) = VjpOfInput(ns, node, g)
        \/ op \in {"sum", "mean", "sum_dim"} /\ Vjp(ns, node, out, g, shapes) = VjpReduction(ns, node, g, shapes)
        \/ Vjp(ns, node, out, g, shapes) = VjpReshape(ns, node, g, shapes)
        \/ Vjp(ns, node, out, g, shapes) = VjpTranspose(ns, node, g, shapes)
        \/ Vjp(ns, node, out, g, shapes) = VjpIndexSelect(ns, node, g, shapes)
        \/ Vjp(ns, node, out, g, shapes) = VjpExp(ns, node, out, g)
    BY <1>1, <1>6 DEF Vjp
  <2> QED
    BY <1>1, <1>2, <2>1, <2>2, <2>3, UnaryRules
<1>7. CASE op \in {"sqrt", "reciprocal", "log", "tanh", "sigmoid", "slice"}
  <2>1. m = 1
    <3>1. op \in Unary \cup {"sum", "mean", "sum_dim", "max_dim", "reshape", "transpose", "slice", "index_select"}
      BY <1>7 DEF Unary
    <3> QED
      BY <1>2, <3>1, AritiesAre
  <2>2. node.ins[1] \in 1..Len(ns)
    BY <1>2, <2>1
  <2>3. \/ Vjp(ns, node, out, g, shapes) = VjpSqrt(ns, node, out, g)
        \/ Vjp(ns, node, out, g, shapes) = VjpReciprocal(ns, node, out, g)
        \/ Vjp(ns, node, out, g, shapes) = VjpLog(ns, node, g)
        \/ Vjp(ns, node, out, g, shapes) = VjpTanh(ns, node, out, g)
        \/ Vjp(ns, node, out, g, shapes) = VjpSigmoid(ns, node, out, g)
        \/ Vjp(ns, node, out, g, shapes) = VjpSlice(ns, node, g, shapes)
    BY <1>1, <1>7 DEF Vjp
  <2> QED
    BY <1>1, <1>2, <2>1, <2>2, <2>3, FunctionRules, SliceRule
<1>8. CASE op \in {"cat", "max_dim", "gt", "lt", "eq"}
  <2>1. \/ Vjp(ns, node, out, g, shapes) = VjpCat(ns, node, g, shapes)
        \/ Vjp(ns, node, out, g, shapes) = VjpZero(ns, shapes)
    BY <1>1, <1>8 DEF Vjp
  <2> QED
    BY <1>1, <1>2, <1>3, <2>1, CatAndZeroRules
<1> QED
  BY <1>1, <1>4, <1>5, <1>6, <1>7, <1>8 DEF Differentiable

(***************************************************************************)
(* grad()                                                                  *)
(***************************************************************************)
(* The walk has emitted a program, and knows cotangents of reached nodes.  *)
Walking(g, args, reached, walk) ==
  /\ Longer(g.nodes, walk.bwd, args)
  /\ walk = [bwd |-> walk.bwd, cot |-> [i \in DOMAIN g.nodes |-> walk.cot[i]]]
  /\ \A i \in DOMAIN g.nodes :
       walk.cot[i] # 0 => walk.cot[i] \in 1..Len(walk.bwd) /\ i \in reached

LEMMA WalkIs ==
  ASSUME NEW g, NEW args, NEW reached, NEW bwd, NEW cot, Longer(g.nodes, bwd, args),
         cot = [i \in DOMAIN g.nodes |-> cot[i]],
         \A i \in DOMAIN g.nodes : cot[i] # 0 => cot[i] \in 1..Len(bwd) /\ i \in reached
  PROVE  Walking(g, args, reached, [bwd |-> bwd, cot |-> cot])
<1>1. PICK walk : walk = [bwd |-> bwd, cot |-> cot]
  OBVIOUS
<1>2. walk.bwd = bwd /\ walk.cot = cot
  BY <1>1
<1> QED
  BY <1>1, <1>2 DEF Walking

LEMMA AccumulateWalks ==
  ASSUME NEW g, NEW args, NEW reached, NEW walk, Walking(g, args, reached, walk),
         NEW i \in DOMAIN g.nodes, i \in reached, NEW id \in 1..Len(walk.bwd), NEW shape
  PROVE  /\ Walking(g, args, reached, Accumulate(walk, i, id, shape))
         /\ Len(walk.bwd) <= Len(Accumulate(walk, i, id, shape).bwd)
<1>1. PICK bwd, cot : bwd = walk.bwd /\ cot = walk.cot
  OBVIOUS
<1>2. /\ Longer(g.nodes, bwd, args) /\ Built(bwd, args) /\ Len(bwd) \in Nat
      /\ cot = [k \in DOMAIN g.nodes |-> cot[k]] /\ walk = [bwd |-> bwd, cot |-> cot]
      /\ \A k \in DOMAIN g.nodes : cot[k] # 0 => cot[k] \in 1..Len(bwd) /\ k \in reached
  BY <1>1 DEF Walking, Longer
<1>3. CASE cot[i] = 0
  <2>1. PICK new : new = [cot EXCEPT ![i] = id]
    OBVIOUS
  <2>2. Accumulate(walk, i, id, shape) = [bwd |-> bwd, cot |-> new]
    BY <1>1, <1>2, <1>3, <2>1 DEF Accumulate
  <2>3. \A k \in DOMAIN g.nodes : new[k] = IF k = i THEN id ELSE cot[k]
    BY <1>2, <2>1
  <2>4. new = [k \in DOMAIN g.nodes |-> new[k]]
    BY <1>2, <2>1
  <2>5. \A k \in DOMAIN g.nodes : new[k] # 0 => new[k] \in 1..Len(bwd) /\ k \in reached
    BY <1>1, <1>2, <2>3
  <2> QED
    BY <1>1, <1>2, <2>2, <2>4, <2>5, WalkIs
<1>4. CASE cot[i] # 0
  <2>1. PICK ms : ms = Chain(bwd, "add", <<cot[i], id>>, shape)
    OBVIOUS
  <2>2. PICK new : new = [cot EXCEPT ![i] = Len(bwd) + 1]
    OBVIOUS
  <2>3. Accumulate(walk, i, id, shape) = [bwd |-> ms, cot |-> new]
    BY <1>1, <1>2, <1>4, <2>1, <2>2 DEF Accumulate
  <2>4. \A k \in DOMAIN g.nodes : new[k] = IF k = i THEN Len(bwd) + 1 ELSE cot[k]
    BY <1>2, <2>2
  <2>5. new = [k \in DOMAIN g.nodes |-> new[k]]
    BY <1>2, <2>2
  <2>6. Grown(bwd, ms, 1, args)
    <3>1. cot[i] \in 1..Len(bwd) /\ id \in 1..Len(bwd) /\ "add" \in OfTwo
      BY <1>1, <1>2, <1>4, EmittedOpsAre
    <3> QED
      BY <1>2, <2>1, <3>1, TwoEmitted
  <2>7. Len(ms) = Len(bwd) + 1 /\ Longer(bwd, ms, args)
    BY <2>6, GrownIsLonger DEF Grown
  <2>8. Longer(g.nodes, ms, args)
    BY <1>2, <2>7, LongerStill
  <2>9. \A k \in DOMAIN g.nodes : new[k] # 0 => new[k] \in 1..Len(ms) /\ k \in reached
    <3> SUFFICES ASSUME NEW k \in DOMAIN g.nodes, new[k] # 0
                 PROVE  new[k] \in 1..Len(ms) /\ k \in reached
      OBVIOUS
    <3>1. CASE k = i
      <4>1. new[k] = Len(bwd) + 1
        BY <2>4, <3>1
      <4> QED
        BY <1>2, <2>7, <3>1, <4>1
    <3>2. CASE k # i
      <4>1. new[k] = cot[k]
        BY <2>4, <3>2
      <4>2. cot[k] \in 1..Len(bwd) /\ k \in reached
        BY <1>2, <4>1
      <4> QED
        BY <1>2, <2>7, <4>1, <4>2
    <3> QED
      BY <3>1, <3>2
  <2>10. Walking(g, args, reached, [bwd |-> ms, cot |-> new])
    BY <2>5, <2>8, <2>9, WalkIs
  <2>11. Len(bwd) <= Len(ms) /\ [bwd |-> ms, cot |-> new].bwd = ms
    BY <1>2, <2>7
  <2> QED
    BY <1>1, <2>3, <2>10, <2>11
<1> QED
  BY <1>3, <1>4

Accumulating(ins, rule, cot, shapes, m, after) ==
  after = [k \in 0..m |->
             IF k = 0 THEN [bwd |-> rule.bwd, cot |-> cot]
             ELSE Accumulate(after[k - 1], ins[k], rule.grads[k], shapes[k])]

LEMMA AccumulatingExists ==
  ASSUME NEW ins, NEW rule, NEW cot, NEW shapes, NEW n \in Nat
  PROVE  \E after : Accumulating(ins, rule, cot, shapes, n, after)
<1> DEFINE first == [bwd |-> rule.bwd, cot |-> cot]
<1> DEFINE S == {m \in Nat : \E after : Accumulating(ins, rule, cot, shapes, m, after)}
<1>1. 0 \in S
  <2>1. Accumulating(ins, rule, cot, shapes, 0, [k \in 0..0 |-> first])
    BY DEF Accumulating
  <2> QED
    BY <2>1
<1> HIDE DEF first
<1>2. ASSUME NEW m \in Nat, m \in S PROVE m + 1 \in S
  <2>1. PICK f : Accumulating(ins, rule, cot, shapes, m, f)
    BY <1>2
  <2> DEFINE next(k, before) == Accumulate(before, ins[k], rule.grads[k], shapes[k])
  <2> DEFINE h == [k \in 0..(m + 1) |-> IF k = m + 1 THEN next(m + 1, f[m]) ELSE f[k]]
  <2>2. ASSUME NEW k \in 0..(m + 1)
        PROVE  h[k] = IF k = 0 THEN first ELSE next(k, h[k - 1])
    <3>1. CASE k = m + 1
      <4>1. k # 0 /\ k - 1 = m /\ m \in 0..(m + 1) /\ m # m + 1
        BY <3>1
      <4>2. h[m] = f[m]
        BY <4>1
      <4>3. h[k] = next(k, f[m])
        BY <3>1
      <4> HIDE DEF h, next
      <4> QED
        BY <4>1, <4>2, <4>3
    <3>2. CASE k # m + 1
      <4>1. k \in 0..m /\ (k # 0 => k - 1 \in 0..(m + 1) /\ k - 1 # m + 1)
        BY <3>2
      <4>2. h[k] = f[k] /\ (k # 0 => h[k - 1] = f[k - 1])
        BY <3>2, <4>1
      <4>3. f[k] = IF k = 0 THEN first ELSE next(k, f[k - 1])
        BY <2>1, <4>1 DEF Accumulating, first
      <4> HIDE DEF h, next
      <4> QED
        BY <4>2, <4>3
    <3> QED
      BY <3>1, <3>2
  <2>3. h = [k \in 0..(m + 1) |-> IF k = 0 THEN first ELSE next(k, h[k - 1])]
    <3>1. h = [k \in 0..(m + 1) |-> h[k]]
      OBVIOUS
    <3> HIDE DEF h, next
    <3> QED
      BY <2>2, <3>1
  <2> HIDE DEF h
  <2>4. Accumulating(ins, rule, cot, shapes, m + 1, h)
    BY <2>3 DEF Accumulating, first
  <2> QED
    BY <2>4
<1> HIDE DEF S
<1>3. n \in S
  BY <1>1, <1>2, SetInduction
<1> QED
  BY <1>3 DEF S

(* A node whose cotangent is known passes it on to nodes that are reached. *)
LEMMA VisitWalks ==
  ASSUME NEW g, NEW args, IsGraph(g, args), NEW reached,
         \A j \in reached : /\ Operands(g.nodes[j]) \subseteq reached
                            /\ IsLeaf(g.nodes[j]) \/ g.nodes[j].op \in Differentiable,
         NEW walk, Walking(g, args, reached, walk), NEW i \in DOMAIN g.nodes
  PROVE  Walking(g, args, reached, Visit(g.nodes, walk, i))
<1>1. PICK node, ins, cot : node = g.nodes[i] /\ ins = node.ins /\ cot = walk.cot
  OBVIOUS
<1>2. PICK m \in Nat : m = Len(ins) /\ DOMAIN ins = 1..m
  BY <1>1, NodeFacts
<1>3. PICK shapes : shapes = [k \in DOMAIN ins |-> g.nodes[ins[k]].shape]
  OBVIOUS
<1>4. PICK rule : rule = Vjp(walk.bwd, node, i, cot[i], shapes)
  OBVIOUS
<1> DEFINE f == CHOOSE after : Accumulating(ins, rule, cot, shapes, Len(ins), after)
<1>5. Visit(g.nodes, walk, i) = IF cot[i] = 0 \/ IsLeaf(node) THEN walk ELSE f[Len(ins)]
  <2>1. Visit(g.nodes, walk, i) =
          IF walk.cot[i] = 0 \/ IsLeaf(g.nodes[i]) THEN walk
          ELSE (CHOOSE after :
                  Accumulating(g.nodes[i].ins,
                    Vjp(walk.bwd, g.nodes[i], i, walk.cot[i],
                        [k \in DOMAIN g.nodes[i].ins |-> g.nodes[g.nodes[i].ins[k]].shape]),
                    walk.cot, [k \in DOMAIN g.nodes[i].ins |-> g.nodes[g.nodes[i].ins[k]].shape],
                    Len(g.nodes[i].ins), after))[Len(g.nodes[i].ins)]
    BY Zenon DEF Visit, Accumulating
  <2> QED
    BY <1>1, <1>3, <1>4, <2>1, Zenon
<1>6. Accumulating(ins, rule, cot, shapes, m, f)
  BY <1>2, AccumulatingExists
<1> HIDE DEF f
<1>7. CASE cot[i] = 0 \/ IsLeaf(node)
  BY <1>5, <1>7
<1>8. CASE ~(cot[i] = 0 \/ IsLeaf(node))
  <2>1. /\ Longer(g.nodes, walk.bwd, args) /\ i \in reached
        /\ cot[i] \in 1..Len(walk.bwd) /\ cot = [k \in DOMAIN g.nodes |-> cot[k]]
    BY <1>1, <1>8 DEF Walking
  <2>2. node.op \in Differentiable /\ Operands(node) \subseteq reached
    BY <1>1, <1>8, <2>1
  <2>3. /\ \A k \in 1..m : ins[k] \in 1..(i - 1) /\ ins[k] \in DOMAIN g.nodes /\ ins[k] \in reached
        /\ Len(ins) \in Arity(node.op)
    BY <1>1, <1>2, <2>2, NodeFacts DEF Operands
  <2>4. DOMAIN g.nodes = 1..Len(g.nodes) /\ Len(g.nodes) \in Nat
    BY GraphFacts
  <2>5. RuleInput(walk.bwd, node, i, cot[i], shapes, args)
    <3>1. \A k \in 1..Len(g.nodes) : k \in 1..Len(walk.bwd)
      BY <2>1, <2>4 DEF Longer
    <3>2. i \in 1..Len(walk.bwd) /\ \A k \in 1..m : ins[k] \in 1..Len(walk.bwd)
      BY <2>3, <2>4, <3>1
    <3>3. Built(walk.bwd, args) /\ DOMAIN shapes = 1..m
      BY <1>2, <1>3, <2>1 DEF Longer
    <3> QED
      BY <1>1, <1>2, <2>1, <2>3, <3>2, <3>3 DEF RuleInput
  <2>6. IsRule(walk.bwd, rule, m, args)
    BY <1>1, <1>2, <1>4, <2>2, <2>5, VjpIsRule
  <2>7. /\ Longer(walk.bwd, rule.bwd, args) /\ Longer(g.nodes, rule.bwd, args)
        /\ \A k \in 1..m : rule.grads[k] \in 1..Len(rule.bwd)
    <3>1. Longer(walk.bwd, rule.bwd, args)
      BY <2>6 DEF IsRule
    <3>2. Longer(g.nodes, rule.bwd, args)
      BY <2>1, <3>1, LongerStill
    <3> QED
      BY <2>6, <3>1, <3>2 DEF IsRule
  <2> DEFINE Good(k) == Walking(g, args, reached, f[k]) /\ Len(rule.bwd) <= Len(f[k].bwd)
  <2> DEFINE S == {k \in 0..m : Good(k)}
  <2>8. 0 \in S
    <3>1. f[0] = [bwd |-> rule.bwd, cot |-> cot]
      BY <1>6 DEF Accumulating
    <3>2. \A k \in DOMAIN g.nodes : cot[k] # 0 => cot[k] \in 1..Len(rule.bwd) /\ k \in reached
      <4>1. \A k \in DOMAIN g.nodes : cot[k] # 0 => cot[k] \in 1..Len(walk.bwd) /\ k \in reached
        BY <1>1 DEF Walking
      <4> QED
        BY <2>7, <4>1 DEF Longer
    <3>3. Walking(g, args, reached, f[0])
      BY <2>1, <2>7, <3>1, <3>2, WalkIs
    <3>4. Len(rule.bwd) <= Len(f[0].bwd)
      BY <2>7, <3>1 DEF Longer
    <3> QED
      BY <3>3, <3>4
  <2>9. ASSUME NEW k \in 0..(m - 1), k \in S PROVE k + 1 \in S
    <3>1. PICK j \in 1..m : j = k + 1 /\ k = j - 1
      OBVIOUS
    <3>2. f[j] = Accumulate(f[k], ins[j], rule.grads[j], shapes[j])
      <4>1. j \in 0..m /\ j # 0 /\ j - 1 = k
        BY <3>1
      <4> QED
        BY <1>6, <4>1 DEF Accumulating
    <3>3. Walking(g, args, reached, f[k]) /\ Len(rule.bwd) <= Len(f[k].bwd)
      BY <2>9
    <3>4. Len(f[k].bwd) \in Nat /\ Len(rule.bwd) \in Nat
      BY <2>7, <3>3 DEF Walking, Longer
    <3>5. rule.grads[j] \in 1..Len(f[k].bwd)
      BY <2>7, <3>3, <3>4
    <3>6. Walking(g, args, reached, f[j]) /\ Len(f[k].bwd) <= Len(f[j].bwd)
      BY <2>3, <3>2, <3>3, <3>5, AccumulateWalks
    <3>7. Len(f[j].bwd) \in Nat
      BY <3>6 DEF Walking, Longer
    <3>8. Len(rule.bwd) <= Len(f[j].bwd)
      BY <3>3, <3>4, <3>6, <3>7
    <3> QED
      BY <3>1, <3>6, <3>8
  <2> HIDE DEF S
  <2>10. m \in S
    BY <2>8, <2>9, BoundedInduction
  <2>11. Walking(g, args, reached, f[m])
    BY <2>10 DEF S
  <2> QED
    BY <1>2, <1>5, <1>8, <2>11
<1> QED
  BY <1>7, <1>8

WalkFrom(g) ==
  [bwd |-> Append(g.nodes, Filled(g.nodes[g.output].shape, 1)),
   cot |-> [k \in 1..Len(g.nodes) |-> IF k = g.output THEN Len(g.nodes) + 1 ELSE 0]]

WalkingBack(g, n, low, walk) ==
  walk = [i \in low..(n + 1) |-> IF i = n + 1 THEN WalkFrom(g) ELSE Visit(g.nodes, walk[i + 1], i)]

LEMMA WalkingBackExists ==
  ASSUME NEW g, NEW n \in Nat
  PROVE  \E walk : WalkingBack(g, n, 1, walk)
<1> DEFINE S == {m \in 0..n : \E f : WalkingBack(g, n, (n + 1) - m, f)}
<1>1. 0 \in S
  <2> DEFINE f == [i \in (n + 1)..(n + 1) |-> WalkFrom(g)]
  <2>1. f = [i \in (n + 1)..(n + 1) |->
               IF i = n + 1 THEN WalkFrom(g) ELSE Visit(g.nodes, f[i + 1], i)]
    BY \A i \in (n + 1)..(n + 1) : i = n + 1
  <2> HIDE DEF f
  <2>2. WalkingBack(g, n, n + 1, f)
    BY <2>1 DEF WalkingBack
  <2>3. (n + 1) - 0 = n + 1
    OBVIOUS
  <2> QED
    BY <2>2, <2>3
<1>2. ASSUME NEW m \in 0..(n - 1), m \in S PROVE m + 1 \in S
  <2>1. PICK low : low = (n + 1) - m
    OBVIOUS
  <2>2. PICK f : WalkingBack(g, n, low, f)
    BY <1>2, <2>1
  <2>3. low \in 2..(n + 1) /\ (n + 1) - (m + 1) = low - 1
    BY <2>1
  <2> DEFINE next(i, above) == Visit(g.nodes, above, i)
  <2> DEFINE h == [i \in (low - 1)..(n + 1) |-> IF i = low - 1 THEN next(i, f[low]) ELSE f[i]]
  <2>4. ASSUME NEW i \in (low - 1)..(n + 1)
        PROVE  h[i] = IF i = n + 1 THEN WalkFrom(g) ELSE next(i, h[i + 1])
    <3>1. CASE i = low - 1
      <4>1. i # n + 1 /\ i + 1 = low /\ low \in (low - 1)..(n + 1) /\ low # low - 1
        BY <2>3, <3>1
      <4>2. h[low] = f[low]
        BY <4>1
      <4>3. h[i] = next(i, f[low])
        BY <3>1
      <4> HIDE DEF h, next
      <4> QED
        BY <4>1, <4>2, <4>3
    <3>2. CASE i # low - 1
      <4>1. i \in low..(n + 1) /\ (i # n + 1 => i + 1 \in (low - 1)..(n + 1) /\ i + 1 # low - 1)
        BY <2>3, <3>2
      <4>2. h[i] = f[i] /\ (i # n + 1 => h[i + 1] = f[i + 1])
        BY <3>2, <4>1
      <4>3. f[i] = IF i = n + 1 THEN WalkFrom(g) ELSE next(i, f[i + 1])
        BY <2>2, <4>1 DEF WalkingBack
      <4> HIDE DEF h, next
      <4> QED
        BY <4>2, <4>3
    <3> QED
      BY <3>1, <3>2
  <2>5. h = [i \in (low - 1)..(n + 1) |-> IF i = n + 1 THEN WalkFrom(g) ELSE next(i, h[i + 1])]
    <3>1. h = [i \in (low - 1)..(n + 1) |-> h[i]]
      OBVIOUS
    <3> HIDE DEF h, next
    <3> QED
      BY <2>4, <3>1
  <2> HIDE DEF h
  <2>6. WalkingBack(g, n, low - 1, h)
    BY <2>5 DEF WalkingBack
  <2> QED
    BY <2>3, <2>6
<1> HIDE DEF S
<1>3. n \in S
  <2>1. \A k \in 0..n : k \in S
    BY <1>1, <1>2, BoundedInduction
  <2> QED
    BY <2>1
<1>4. (n + 1) - n = 1
  OBVIOUS
<1> QED
  BY <1>3, <1>4 DEF S

(* What grad needs of the nodes between the output and the leaves.         *)
HasRules(g, reached) ==
  \A j \in reached : /\ Operands(g.nodes[j]) \subseteq reached
                     /\ IsLeaf(g.nodes[j]) \/ g.nodes[j].op \in Differentiable

LEMMA ReverseWalkWalks ==
  ASSUME NEW g, NEW args, IsGraph(g, args), BiasesDiffer(g.nodes), NEW reached, HasRules(g, reached),
         g.output \in reached
  PROVE  Walking(g, args, reached, ReverseWalk(g))
<1>1. PICK n \in Nat : n = Len(g.nodes) /\ DOMAIN g.nodes = 1..n
  BY GraphFacts
<1> DEFINE f == CHOOSE walk : WalkingBack(g, Len(g.nodes), 1, walk)
<1>2. ReverseWalk(g) = f[1]
  BY Zenon DEF ReverseWalk, WalkingBack, WalkFrom
<1>3. WalkingBack(g, n, 1, f)
  BY <1>1, WalkingBackExists
<1> HIDE DEF f
<1>4. f[n + 1] = WalkFrom(g)
  BY <1>3 DEF WalkingBack
<1>5. ASSUME NEW i \in 1..n PROVE f[i] = Visit(g.nodes, f[i + 1], i)
  <2>1. i \in 1..(n + 1) /\ i # n + 1
    OBVIOUS
  <2> QED
    BY <1>3, <2>1 DEF WalkingBack
<1>6. Walking(g, args, reached, WalkFrom(g))
  <2>1. PICK ns, ms, cot : /\ ns = g.nodes /\ ms = Append(g.nodes, Filled(g.nodes[g.output].shape, 1))
                           /\ cot = [k \in 1..n |-> IF k = g.output THEN n + 1 ELSE 0]
    OBVIOUS
  <2>2. Built(ns, args)
    BY <2>1 DEF Built, IsGraph
  <2>3. Grown(ns, ms, 1, args)
    BY <2>1, <2>2, FilledAdded
  <2>4. Longer(ns, ms, args) /\ Len(ms) = n + 1
    BY <1>1, <2>1, <2>3, GrownIsLonger DEF Grown
  <2>5. cot = [i \in DOMAIN g.nodes |-> cot[i]]
    BY <1>1, <2>1
  <2>6. \A i \in DOMAIN g.nodes : cot[i] # 0 => cot[i] \in 1..Len(ms) /\ i \in reached
    <3> SUFFICES ASSUME NEW i \in DOMAIN g.nodes, cot[i] # 0
                 PROVE  cot[i] \in 1..Len(ms) /\ i \in reached
      OBVIOUS
    <3>1. cot[i] = IF i = g.output THEN n + 1 ELSE 0
      BY <1>1, <2>1
    <3>2. i = g.output /\ cot[i] = n + 1
      BY <3>1
    <3> QED
      BY <2>4, <3>2
  <2>7. Walking(g, args, reached, [bwd |-> ms, cot |-> cot])
    BY <2>1, <2>4, <2>5, <2>6, WalkIs
  <2> QED
    BY <1>1, <2>1, <2>7 DEF WalkFrom
<1> DEFINE S == {m \in 0..n : Walking(g, args, reached, f[(n + 1) - m])}
<1>7. 0 \in S
  <2>1. (n + 1) - 0 = n + 1
    OBVIOUS
  <2> QED
    BY <1>4, <1>6, <2>1
<1>8. ASSUME NEW m \in 0..(n - 1), m \in S PROVE m + 1 \in S
  <2>1. PICK i \in 1..n : i + 1 = (n + 1) - m /\ i = (n + 1) - (m + 1)
    <3>1. n - m \in 1..n /\ (n - m) + 1 = (n + 1) - m /\ n - m = (n + 1) - (m + 1)
      OBVIOUS
    <3> QED
      BY <3>1
  <2>2. PICK above : above = f[i + 1]
    OBVIOUS
  <2>3. Walking(g, args, reached, above)
    BY <1>8, <2>1, <2>2
  <2>4. Walking(g, args, reached, Visit(g.nodes, above, i))
    BY <1>1, <2>3, VisitWalks DEF HasRules
  <2>5. Walking(g, args, reached, f[i])
    BY <1>5, <2>2, <2>4
  <2> QED
    BY <2>1, <2>5
<1> HIDE DEF S
<1>9. n \in S
  <2>1. \A k \in 0..n : k \in S
    BY <1>7, <1>8, BoundedInduction
  <2> QED
    BY <2>1
<1>10. (n + 1) - n = 1
  OBVIOUS
<1> QED
  BY <1>2, <1>9, <1>10 DEF S

GatherNext(g, wrt, walk, k, before) ==
  LET cot   == walk.cot[wrt[k]]
      zeros == Append(before.bwd, Filled(g.nodes[wrt[k]].shape, 0))
  IN  IF cot # 0 THEN Gives(before.bwd, Append(before.grads, cot))
      ELSE Gives(zeros, Append(before.grads, Len(zeros)))

Gathering(g, wrt, walk, m, result) ==
  result = [k \in 0..m |-> IF k = 0 THEN Gives(walk.bwd, << >>)
                           ELSE GatherNext(g, wrt, walk, k, result[k - 1])]

LEMMA GatheringExists ==
  ASSUME NEW g, NEW wrt, NEW walk, NEW n \in Nat
  PROVE  \E result : Gathering(g, wrt, walk, n, result)
<1> DEFINE first == Gives(walk.bwd, << >>)
<1> DEFINE S == {m \in Nat : \E result : Gathering(g, wrt, walk, m, result)}
<1>1. 0 \in S
  <2>1. Gathering(g, wrt, walk, 0, [k \in 0..0 |-> first])
    BY DEF Gathering
  <2> QED
    BY <2>1
<1> HIDE DEF first
<1>2. ASSUME NEW m \in Nat, m \in S PROVE m + 1 \in S
  <2>1. PICK f : Gathering(g, wrt, walk, m, f)
    BY <1>2
  <2> DEFINE next(k, before) == GatherNext(g, wrt, walk, k, before)
  <2> DEFINE h == [k \in 0..(m + 1) |-> IF k = m + 1 THEN next(m + 1, f[m]) ELSE f[k]]
  <2>2. ASSUME NEW k \in 0..(m + 1)
        PROVE  h[k] = IF k = 0 THEN first ELSE next(k, h[k - 1])
    <3>1. CASE k = m + 1
      <4>1. k # 0 /\ k - 1 = m /\ m \in 0..(m + 1) /\ m # m + 1
        BY <3>1
      <4>2. h[m] = f[m]
        BY <4>1
      <4>3. h[k] = next(k, f[m])
        BY <3>1
      <4> HIDE DEF h, next
      <4> QED
        BY <4>1, <4>2, <4>3
    <3>2. CASE k # m + 1
      <4>1. k \in 0..m /\ (k # 0 => k - 1 \in 0..(m + 1) /\ k - 1 # m + 1)
        BY <3>2
      <4>2. h[k] = f[k] /\ (k # 0 => h[k - 1] = f[k - 1])
        BY <3>2, <4>1
      <4>3. f[k] = IF k = 0 THEN first ELSE next(k, f[k - 1])
        BY <2>1, <4>1 DEF Gathering, first
      <4> HIDE DEF h, next
      <4> QED
        BY <4>2, <4>3
    <3> QED
      BY <3>1, <3>2
  <2>3. h = [k \in 0..(m + 1) |-> IF k = 0 THEN first ELSE next(k, h[k - 1])]
    <3>1. h = [k \in 0..(m + 1) |-> h[k]]
      OBVIOUS
    <3> HIDE DEF h, next
    <3> QED
      BY <2>2, <3>1
  <2> HIDE DEF h
  <2>4. Gathering(g, wrt, walk, m + 1, h)
    BY <2>3 DEF Gathering, first
  <2> QED
    BY <2>4
<1> HIDE DEF S
<1>3. n \in S
  BY <1>1, <1>2, SetInduction
<1> QED
  BY <1>3 DEF S

(* k gradients, each a node of the program.                                *)
Gathers(g, args, all, k) ==
  Longer(g.nodes, all.bwd, args) /\ Reads(all.grads, Len(all.bwd)) /\ Len(all.grads) = k

LEMMA OneMoreRead ==
  ASSUME NEW ids, NEW n \in Nat, Reads(ids, n), NEW m \in Nat, n <= m, NEW id \in 1..m
  PROVE  Reads(Append(ids, id), m) /\ Len(Append(ids, id)) = Len(ids) + 1 /\ Len(ids) \in Nat
<1>1. IsSequence(ids) /\ \A k \in DOMAIN ids : ids[k] \in 1..n
  BY DEF Reads
<1>2. PICK more : more = Append(ids, id)
  OBVIOUS
<1>3. /\ IsSequence(more) /\ Len(more) = Len(ids) + 1 /\ DOMAIN more = 1..(Len(ids) + 1)
      /\ \A k \in 1..(Len(ids) + 1) : more[k] = IF k = Len(ids) + 1 THEN id ELSE ids[k]
      /\ Len(ids) \in Nat /\ DOMAIN ids = 1..Len(ids)
  BY <1>1, <1>2, AppendToAnything, SequenceIsAFunction
<1>4. ASSUME NEW k \in DOMAIN more PROVE more[k] \in 1..m
  <2>1. CASE k = Len(ids) + 1
    BY <1>3, <2>1
  <2>2. CASE k # Len(ids) + 1
    <3>1. k \in DOMAIN ids /\ more[k] = ids[k]
      BY <1>3, <2>2
    <3> QED
      BY <1>1, <3>1
  <2> QED
    BY <2>1, <2>2
<1> QED
  BY <1>2, <1>3, <1>4 DEF Reads

LEMMA GatheredIs ==
  ASSUME NEW g, NEW args, IsGraph(g, args), NEW reached, NEW walk, Walking(g, args, reached, walk),
         NEW wrt, Reads(wrt, Len(g.nodes))
  PROVE  Gathers(g, args, Gathered(g, wrt, walk), Len(wrt))
<1>1. PICK n \in Nat : n = Len(wrt) /\ DOMAIN wrt = 1..n
  BY SequenceIsAFunction DEF Reads
<1>2. \A k \in 1..n : wrt[k] \in DOMAIN g.nodes
  BY <1>1, GraphFacts DEF Reads
<1> DEFINE f == CHOOSE result : Gathering(g, wrt, walk, Len(wrt), result)
<1>3. Gathered(g, wrt, walk) = f[Len(wrt)]
  BY Zenon DEF Gathered, Gathering, GatherNext
<1>4. Gathering(g, wrt, walk, n, f)
  BY <1>1, GatheringExists
<1> HIDE DEF f
<1> DEFINE Good(k) == Gathers(g, args, f[k], k) /\ Len(walk.bwd) <= Len(f[k].bwd)
<1> DEFINE S == {k \in 0..n : Good(k)}
<1>5. 0 \in S
  <2>1. f[0] = Gives(walk.bwd, << >>)
    BY <1>4 DEF Gathering
  <2>2. f[0].bwd = walk.bwd /\ f[0].grads = << >>
    BY <2>1 DEF Gives
  <2>3. IsSequence(<< >>) /\ Len(<< >>) = 0 /\ DOMAIN << >> = 1..0
    BY OneIsASequence, SequenceIsAFunction
  <2>4. Longer(g.nodes, walk.bwd, args) /\ Len(walk.bwd) \in Nat
    BY DEF Walking, Longer
  <2> QED
    BY <2>2, <2>3, <2>4 DEF Gathers, Reads
<1>6. ASSUME NEW k \in 0..(n - 1), k \in S PROVE k + 1 \in S
  <2>1. PICK j \in 1..n : j = k + 1 /\ k = j - 1
    OBVIOUS
  <2>2. PICK bwd, grads, cot, i : bwd = f[k].bwd /\ grads = f[k].grads /\ i = wrt[j] /\ cot = walk.cot[i]
    OBVIOUS
  <2>3. PICK zeros : zeros = Append(bwd, Filled(g.nodes[i].shape, 0))
    OBVIOUS
  <2>4. f[j] = IF cot # 0 THEN Gives(bwd, Append(grads, cot)) ELSE Gives(zeros, Append(grads, Len(zeros)))
    <3>1. j \in 0..n /\ j # 0 /\ j - 1 = k
      BY <2>1
    <3>2. f[j] = GatherNext(g, wrt, walk, j, f[k])
      BY <1>4, <3>1 DEF Gathering
    <3> QED
      BY <2>2, <2>3, <3>2 DEF GatherNext
  <2>5. /\ Longer(g.nodes, bwd, args) /\ Reads(grads, Len(bwd)) /\ Len(grads) = k
        /\ Len(walk.bwd) <= Len(bwd) /\ Len(bwd) \in Nat /\ Built(bwd, args)
        /\ Len(walk.bwd) \in Nat
    BY <1>6, <2>2 DEF Gathers, Longer, Walking
  <2>6. CASE cot # 0
    <3>1. cot \in 1..Len(walk.bwd)
      BY <1>2, <2>2, <2>6 DEF Walking
    <3>2. cot \in 1..Len(bwd)
      BY <2>5, <3>1
    <3>3. f[j].bwd = bwd /\ f[j].grads = Append(grads, cot)
      BY <2>4, <2>6 DEF Gives
    <3>5. PICK m \in Nat : m = Len(bwd)
      BY <2>5
    <3>6. Reads(grads, m) /\ m <= m /\ cot \in 1..m
      BY <2>5, <3>2, <3>5
    <3>7. Reads(Append(grads, cot), m) /\ Len(Append(grads, cot)) = Len(grads) + 1
      BY <3>6, OneMoreRead
    <3>4. Reads(f[j].grads, Len(bwd)) /\ Len(f[j].grads) = j
      BY <2>1, <2>5, <3>3, <3>5, <3>7
    <3> QED
      BY <2>1, <2>5, <3>3, <3>4 DEF Gathers
  <2>7. CASE cot = 0
    <3>1. Grown(bwd, zeros, 1, args)
      BY <2>3, <2>5, FilledAdded
    <3>2. Longer(bwd, zeros, args) /\ Len(zeros) = Len(bwd) + 1
      BY <3>1, GrownIsLonger DEF Grown
    <3>3. Longer(g.nodes, zeros, args) /\ Len(zeros) \in Nat /\ Len(zeros) \in 1..Len(zeros)
      BY <2>5, <3>2, LongerStill DEF Longer
    <3>4. f[j].bwd = zeros /\ f[j].grads = Append(grads, Len(zeros))
      BY <2>4, <2>7 DEF Gives
    <3>5. Len(bwd) <= Len(zeros) /\ Len(walk.bwd) <= Len(zeros)
      BY <2>5, <3>2
    <3>7. PICK m \in Nat, q \in Nat : m = Len(bwd) /\ q = Len(zeros)
      BY <2>5, <3>3
    <3>8. Reads(grads, m) /\ m <= q /\ q \in 1..q
      BY <2>5, <3>3, <3>5, <3>7
    <3>9. Reads(Append(grads, q), q) /\ Len(Append(grads, q)) = Len(grads) + 1
      BY <3>8, OneMoreRead
    <3>6. Reads(f[j].grads, Len(zeros)) /\ Len(f[j].grads) = j
      BY <2>1, <2>5, <3>4, <3>7, <3>9
    <3> QED
      BY <2>1, <3>3, <3>4, <3>5, <3>6 DEF Gathers
  <2> QED
    BY <2>6, <2>7
<1> HIDE DEF S
<1>7. \A k \in 0..n : k \in S
  <2>1. \A k \in 0..(n - 1) : k \in S => k + 1 \in S
    BY <1>6
  <2> QED
    BY <1>5, <2>1, BoundedInduction
<1>8. n \in S
  BY <1>7
<1> QED
  BY <1>1, <1>3, <1>8 DEF S

(* grad returns a graph on the same arguments.                             *)
LEMMA GradIsAGraph ==
  ASSUME NEW g, NEW args, IsGraph(g, args), BiasesDiffer(g.nodes), NEW reached, HasRules(g, reached),
         g.output \in reached, NEW wrt, Reads(wrt, Len(g.nodes))
  PROVE  IsGraph(Grad(g, wrt), args) /\ BiasesDiffer(Grad(g, wrt).nodes)
<1>1. PICK all : all = Gathered(g, wrt, ReverseWalk(g))
  OBVIOUS
<1>2. PICK bwd, grads : bwd = all.bwd /\ grads = all.grads
  OBVIOUS
<1>3. Gathers(g, args, all, Len(wrt))
  BY <1>1, ReverseWalkWalks, GatheredIs
<1>4. Longer(g.nodes, bwd, args) /\ Built(bwd, args) /\ Reads(grads, Len(bwd)) /\ Len(bwd) \in Nat
  BY <1>2, <1>3 DEF Gathers, Longer
<1>5. PICK tupled : tupled = Emit(bwd, "tuple", grads, << >>, << >>)
  OBVIOUS
<1>6. Grown(bwd, tupled, 1, args)
  <2>1. Len(grads) \in Nat
    BY <1>4, SequenceIsAFunction DEF Reads
  <2>2. Len(grads) \in Arity("tuple")
    BY <2>1 DEF Arity, Unary
  <2> QED
    BY <1>4, <1>5, <2>2, NodeIsAdded DEF Emit
<1>7. g.inputs = [k \in DOMAIN args |-> k]
  BY GraphFacts
<1>8. PICK h : h = Grad(g, wrt)
  OBVIOUS
<1>9. h = [nodes  |-> IF Len(grads) = 1 THEN bwd ELSE tupled,
           inputs |-> [k \in DOMAIN args |-> k],
           output |-> IF Len(grads) = 1 THEN grads[1] ELSE Len(tupled)]
  BY <1>1, <1>2, <1>5, <1>7, <1>8 DEF Grad, Returned
<1>10. CASE Len(grads) = 1
  <2>1. grads[1] \in 1..Len(bwd)
    <3>1. 1 \in DOMAIN grads
      BY <1>4, <1>10, SequenceIsAFunction DEF Reads
    <3> QED
      BY <1>4, <3>1 DEF Reads
  <2>2. h = [nodes |-> bwd, inputs |-> [k \in DOMAIN args |-> k], output |-> grads[1]]
    BY <1>9, <1>10
  <2>3. AreNodes(bwd, args) /\ BiasesDiffer(bwd) /\ grads[1] \in DOMAIN bwd
    BY <1>4, <2>1, BuiltFacts DEF Built
  <2> QED
    BY <1>8, <2>2, <2>3 DEF IsGraph
<1>11. CASE Len(grads) # 1
  <2>1. h = [nodes |-> tupled, inputs |-> [k \in DOMAIN args |-> k], output |-> Len(tupled)]
    BY <1>9, <1>11
  <2>2. Built(tupled, args) /\ Len(tupled) \in 1..Len(tupled)
    BY <1>6 DEF Grown
  <2>3. AreNodes(tupled, args) /\ BiasesDiffer(tupled) /\ Len(tupled) \in DOMAIN tupled
    BY <2>2, BuiltFacts DEF Built
  <2> QED
    BY <1>8, <2>1, <2>3 DEF IsGraph
<1> QED
  BY <1>10, <1>11

(***************************************************************************)
(* The rewrites keep what is true of the graph                             *)
(***************************************************************************)
LEMMA FollowersDiffer ==
  ASSUME NEW g, NEW h, NEW shapes, IsGraph(g, shapes), IsGraph(h, shapes), BiasesDiffer(g.nodes),
         NEW where \in [DOMAIN h.nodes -> DOMAIN g.nodes], NEW j \in DOMAIN h.nodes,
         Follows(g, h, where, j), h.nodes[j].op = "fused_bias_relu"
  PROVE  h.nodes[j].ins[1] # h.nodes[j].ins[2]
<1>1. PICK new, old : new = h.nodes[j] /\ old = g.nodes[where[j]]
  OBVIOUS
<1>2. /\ old.op = "fused_bias_relu" /\ DOMAIN new.ins = DOMAIN old.ins
      /\ \A k \in DOMAIN new.ins : where[new.ins[k]] = old.ins[k]
  BY <1>1 DEF Follows
<1>3. old.ins[1] # old.ins[2]
  BY <1>1, <1>2 DEF BiasesDiffer
<1>4. 1 \in DOMAIN new.ins /\ 2 \in DOMAIN new.ins
  <2>1. Len(new.ins) \in {2}
    BY <1>1, NodeFacts, ZenonT(60) DEF Arity, Unary
  <2> QED
    BY <1>1, <2>1, NodeFacts
<1> QED
  BY <1>1, <1>2, <1>3, <1>4

LEMMA EliminationIsBuilt ==
  ASSUME NEW g, NEW shapes, IsGraph(g, shapes), BiasesDiffer(g.nodes)
  PROVE  /\ IsGraph(DeadCodeElimination(g), shapes) /\ BiasesDiffer(DeadCodeElimination(g).nodes)
         /\ OnlyLive(DeadCodeElimination(g))
<1>1. PICK h, where : h = DeadCodeElimination(g) /\ Eliminated(g, shapes, h, where)
  BY EliminationFollows
<1>2. /\ IsGraph(h, shapes) /\ OnlyLive(h) /\ where \in [DOMAIN h.nodes -> DOMAIN g.nodes]
      /\ \A j \in DOMAIN h.nodes : Follows(g, h, where, j)
  BY <1>1 DEF Eliminated
<1>3. BiasesDiffer(h.nodes)
  BY <1>2, FollowersDiffer DEF BiasesDiffer
<1> QED
  BY <1>1, <1>2, <1>3

LEMMA FusionIsBuilt ==
  ASSUME NEW g, NEW shapes, IsGraph(g, shapes), BiasesDiffer(g.nodes)
  PROVE  IsGraph(ElementwiseFusion(g), shapes) /\ BiasesDiffer(ElementwiseFusion(g).nodes)
<1>1. PICK h, where : h = ElementwiseFusion(g) /\ Fused(g, shapes, h, where)
  BY FusionFollows
<1>2. /\ IsGraph(h, shapes) /\ where \in [DOMAIN h.nodes -> DOMAIN g.nodes]
      /\ \A j \in DOMAIN h.nodes : FusedNode(g, h, where, j)
  BY <1>1 DEF Fused
<1>3. ASSUME NEW j \in DOMAIN h.nodes, h.nodes[j].op = "fused_bias_relu"
      PROVE  h.nodes[j].ins[1] # h.nodes[j].ins[2]
  <2>1. CASE \E a : FusedSingle(g, h, where, j, a)
    <3>1. Follows(g, h, where, j)
      BY <2>1 DEF FusedSingle
    <3> QED
      BY <1>2, <1>3, <3>1, FollowersDiffer
  <2>2. CASE \E a, b : FusedPair(g, h, where, j, a, b)
    <3>1. PICK a, b : FusedPair(g, h, where, j, a, b)
      BY <2>2
    <3>2. PICK ins, old : ins = h.nodes[j].ins /\ old = g.nodes[a].ins
      OBVIOUS
    <3>3. /\ ClassifyPair(g, a, b) = "fused_bias_relu"
          /\ DOMAIN ins = DOMAIN old /\ \A k \in DOMAIN ins : where[ins[k]] = old[k]
          /\ DOMAIN old = 1..2
      BY <1>3, <3>1, <3>2 DEF FusedPair, PairFacts
    <3>4. g.nodes[old[1]].shape # g.nodes[old[2]].shape
      BY <3>2, <3>3 DEF ClassifyPair
    <3>5. where[ins[1]] = old[1] /\ where[ins[2]] = old[2]
      BY <3>3
    <3> QED
      BY <3>2, <3>4, <3>5
  <2> QED
    BY <1>2, <2>1, <2>2 DEF FusedNode
<1> QED
  BY <1>1, <1>2, <1>3 DEF BiasesDiffer

LEMMA GraphIsSound ==
  ASSUME Sound, vocab' = vocab, IsGraph(graph', vocab.arguments), BiasesDiffer(graph'.nodes)
  PROVE  Sound'
<1>1. PICK h, args : h = graph' /\ args = vocab.arguments
  OBVIOUS
<1>2. /\ h = [nodes |-> h.nodes, inputs |-> [k \in DOMAIN args |-> k], output |-> h.output]
      /\ AreNodes(h.nodes, args) /\ h.output \in DOMAIN h.nodes
  BY <1>1 DEF IsGraph
<1>3. vocab \in Vocabularies
  BY DEF Sound
<1> QED
  BY <1>1, <1>2, <1>3 DEF Sound, Built

(* Differentiate asks for the leaves, or for the first argument.           *)
LEMMA AskedFor ==
  ASSUME NEW g, NEW args, IsGraph(g, args), NEW wrt \in {LeavesOf(g), << 1 >>}
  PROVE  Reads(wrt, Len(g.nodes))
<1>1. PICK n \in Nat : n = Len(g.nodes) /\ DOMAIN g.nodes = 1..n /\ n # 0
  <2>1. PICK n \in Nat : n = Len(g.nodes)
    BY GraphFacts
  <2>2. DOMAIN g.nodes = 1..n /\ g.output \in 1..n
    BY <2>1, GraphFacts
  <2> QED
    BY <2>1, <2>2
<1>2. CASE wrt = LeavesOf(g)
  <2>1. PICK ids : ids = {i \in DOMAIN g.nodes : IsLeaf(g.nodes[i])} /\ wrt = InOrder(ids, n)
    BY <1>1, <1>2 DEF LeavesOf
  <2>2. Lists(wrt, ids, n)
    BY <2>1, InOrderLists
  <2>3. wrt \in Seq(Nat) /\ \A k \in DOMAIN wrt : wrt[k] \in 1..n
    BY <2>2 DEF Lists
  <2> QED
    BY <1>1, <2>3, SequenceOfAnything DEF Reads
<1>3. CASE wrt = <<1>>
  <2>1. IsSequence(wrt) /\ Len(wrt) = 1 /\ wrt[1] = 1
    BY <1>3, OneIsASequence
  <2>2. DOMAIN wrt = 1..1
    BY <2>1, SequenceIsAFunction
  <2> QED
    BY <1>1, <2>1, <2>2 DEF Reads
<1> QED
  BY <1>2, <1>3

LEMMA RewriteIsSound ==
  ASSUME Sound, Rewrite
  PROVE  Sound'
<1>1. vocab' = vocab /\ phase = "passes"
  BY DEF Rewrite, Fuse, Eliminate, Differentiate, Applies
<1>2. IsGraph(graph, vocab.arguments) /\ BiasesDiffer(graph.nodes)
  BY <1>1, SoundGraph
<1>3. CASE Fuse
  <2>1. graph' = ElementwiseFusion(graph)
    BY <1>3 DEF Fuse
  <2> QED
    BY <1>1, <1>2, <2>1, FusionIsBuilt, GraphIsSound
<1>4. CASE Eliminate
  <2>1. graph' = DeadCodeElimination(graph)
    BY <1>4 DEF Eliminate
  <2> QED
    BY <1>1, <1>2, <2>1, EliminationIsBuilt, GraphIsSound
<1>5. CASE Differentiate
  <2>1. PICK wrt \in {LeavesOf(graph), <<1>>} : graph' = Grad(graph, wrt)
    BY <1>5 DEF Differentiate, Asked
  <2>2. PICK reached : reached = ReachedFrom(graph, {graph.output})
    OBVIOUS
  <2>3. \A i \in reached : IsLeaf(graph.nodes[i]) \/ graph.nodes[i].op \in Differentiable
    BY <1>5, <2>2 DEF Differentiate
  <2>4. ReachedAbove(graph, {graph.output}, 1, reached)
    <3>1. {graph.output} \in SUBSET DOMAIN graph.nodes
      BY <1>2 DEF IsGraph
    <3> QED
      BY <1>2, <2>2, <3>1, ReachedIsClosed
  <2>5. /\ graph.output \in reached /\ reached \subseteq DOMAIN graph.nodes
        /\ \A j \in reached : j >= 1 => Operands(graph.nodes[j]) \subseteq reached
    BY <2>4 DEF ReachedAbove
  <2>6. \A j \in reached : j >= 1
    <3>1. PICK n \in Nat : DOMAIN graph.nodes = 1..n
      BY <1>2, GraphFacts
    <3> QED
      BY <2>5, <3>1
  <2>7. HasRules(graph, reached)
    BY <2>3, <2>5, <2>6 DEF HasRules
  <2> QED
    BY <1>1, <1>2, <2>1, <2>5, <2>7, AskedFor, GradIsAGraph, GraphIsSound
<1> QED
  BY <1>3, <1>4, <1>5 DEF Rewrite

(***************************************************************************)
(* The invariant                                                           *)
(***************************************************************************)
(* vars and phase, apart from the graph; while it traces, nothing has been *)
(* applied yet.                                                            *)
Staged ==
  /\ phase \in {"trace", "passes", "metal"}
  /\ called \in 0..vocab.maxCalls
  /\ IsSequence(passes) /\ \A k \in DOMAIN passes : passes[k] \in {"fuse", "dce", "grad"}
  /\ phase = "trace" => passes = << >>

(* What the rewrite before has left behind.                                *)
JustRewritten ==
  /\ JustApplied({"fuse"}) => NoPairIsLeft(graph)
  /\ JustApplied({"dce"}) => OnlyLive(graph)

IInv == Sound /\ Staged /\ JustRewritten

LEMMA NothingIsThere ==
  IsSequence(<< >>) /\ Len(<< >>) = 0 /\ \A k \in DOMAIN << >> : FALSE
<1>1. IsSequence(<< >>) /\ Len(<< >>) = 0
  BY OneIsASequence
<1>2. DOMAIN << >> = 1..0
  BY <1>1, SequenceIsAFunction
<1> QED
  BY <1>1, <1>2

LEMMA StartIsSound ==
  ASSUME Init
  PROVE  IInv
<1>1. /\ vocab \in Vocabularies /\ phase = "trace" /\ called = 0 /\ passes = << >>
      /\ graph = [nodes  |-> [k \in DOMAIN vocab.arguments |->
                                Node("placeholder", << >>, vocab.arguments[k], << >>)],
                  inputs |-> [k \in DOMAIN vocab.arguments |-> k],
                  output |-> 0]
  BY DEF Init, PipelineInit, TraceInit
<1>2. PICK args, T : args = vocab.arguments /\ T = Seq(Nat) /\ args \in Seq(T)
  BY <1>1, VocabulariesAssumption
<1>3. PICK n \in Nat : n = Len(args) /\ DOMAIN args = 1..n /\ IsSequence(args)
  BY <1>2, SequenceOfAnything, SequenceIsAFunction
<1>4. PICK ns : ns = [k \in DOMAIN args |-> Node("placeholder", << >>, args[k], << >>)]
  OBVIOUS
<1>5. IsSequence(ns) /\ Len(ns) = n /\ DOMAIN ns = 1..n
  <2>1. PICK U : U = {ns[k] : k \in 1..n}
    OBVIOUS
  <2>2. ns \in [1..n -> U]
    BY <1>3, <1>4, <2>1
  <2> QED
    BY <2>2, SequenceByDomain
<1>6. ASSUME NEW i \in 1..n PROVE NodeAfter(ns[i], i - 1) /\ Placed(ns[i], i, args)
  <2>1. ns[i] = Node("placeholder", << >>, args[i], << >>)
    BY <1>3, <1>4
  <2>2. Reads(<< >>, i - 1) /\ Len(<< >>) = 0
    BY NothingIsThere, Zenon DEF Reads
  <2>3. 0 \in Arity("placeholder")
    BY DEF Arity, Unary
  <2> QED
    BY <1>3, <2>1, <2>2, <2>3, NodeFields DEF NodeAfter, Placed
<1>7. AreNodes(ns, args)
  BY <1>3, <1>5, <1>6 DEF AreNodes
<1>8. BiasesDiffer(ns)
  <2>1. \A i \in 1..n : ns[i].op = "placeholder"
    BY <1>3, <1>4, NodeFields
  <2> QED
    BY <1>5, <2>1 DEF BiasesDiffer
<1>9. graph.nodes = ns /\ graph = [nodes |-> graph.nodes, inputs |-> [k \in DOMAIN vocab.arguments |-> k],
                                    output |-> graph.output]
  BY <1>1, <1>2, <1>4
<1>10. Sound
  BY <1>1, <1>2, <1>7, <1>8, <1>9 DEF Sound, Built
<1>11. Staged
  <2>1. vocab.maxCalls \in Nat
    BY <1>1, VocabulariesAssumption
  <2> QED
    BY <1>1, <2>1, NothingIsThere DEF Staged
<1>12. JustRewritten
  BY <1>1 DEF JustRewritten, JustApplied
<1> QED
  BY <1>10, <1>11, <1>12 DEF IInv

(* A method is called, or the function returns.                            *)
Goes ==
  /\ vocab' = vocab /\ phase = "trace"
  /\ \/ phase' = "trace" /\ called < vocab.maxCalls /\ called' = called + 1
     \/ phase' = "passes" /\ called' = called /\ graph'.nodes = graph.nodes

LEMMA TraceGoes ==
  ASSUME Sound, Trace
  PROVE  Goes
<1>0. ASSUME NEW ns, Recorded(ns), phase = "trace", called < vocab.maxCalls
      PROVE  Goes
  BY <1>0 DEF Recorded, Goes
<1>1. CASE CallUnary
  BY <1>0, <1>1 DEF CallUnary, Calls
<1>2. CASE CallBinary
  BY <1>0, <1>2 DEF CallBinary, Calls
<1>3. CASE CallDiv
  BY <1>0, <1>3 DEF CallDiv, Calls
<1>4. CASE CallMatmul
  BY <1>0, <1>4 DEF CallMatmul, Calls
<1>5. CASE CallReduceAll
  BY <1>0, <1>5 DEF CallReduceAll, Calls
<1>6. CASE CallReduceDim
  BY <1>0, <1>6, Zenon DEF CallReduceDim, Calls
<1>7. CASE CallSoftmax
  BY <1>0, <1>7 DEF CallSoftmax, Calls
<1>8. CASE CallCrossEntropy
  BY <1>0, <1>8 DEF CallCrossEntropy, Calls
<1>9. CASE CallReshape
  BY <1>0, <1>9 DEF CallReshape, Calls
<1>10. CASE CallTranspose
  BY <1>0, <1>10 DEF CallTranspose, Calls
<1>11. CASE CallSlice
  BY <1>0, <1>11 DEF CallSlice, Calls
<1>12. CASE CallIndexSelect
  BY <1>0, <1>12 DEF CallIndexSelect, Calls
<1>13. CASE CallCat
  BY <1>0, <1>13 DEF CallCat, Calls
<1>14. CASE CallConv2d
  BY <1>0, <1>14, Zenon DEF CallConv2d, Calls
<1>15. CASE ReturnValue
  <2>1. PICK i \in Receivers : graph' = [graph EXCEPT !.output = i]
    BY <1>15 DEF ReturnValue
  <2>2. graph = [nodes |-> graph.nodes, inputs |-> [k \in DOMAIN vocab.arguments |-> k],
                 output |-> graph.output]
    BY DEF Sound
  <2>3. graph'.nodes = graph.nodes
    BY <2>1, <2>2
  <2> QED
    BY <1>15, <2>3 DEF ReturnValue, Goes
<1> QED
  BY <1>1, <1>2, <1>3, <1>4, <1>5, <1>6, <1>7, <1>8, <1>9, <1>10, <1>11, <1>12, <1>13, <1>14, <1>15
  DEF Trace

LEMMA OneMorePass ==
  ASSUME Staged, NEW pass \in {"fuse", "dce", "grad"}, Applies(pass)
  PROVE  /\ Staged' /\ Last(passes') = pass /\ phase = "passes" /\ phase' = "passes" /\ vocab' = vocab
<1>1. PICK old, n : old = passes /\ n = Len(passes)
  OBVIOUS
<1>2. /\ IsSequence(old) /\ \A k \in DOMAIN old : old[k] \in {"fuse", "dce", "grad"}
      /\ n \in Nat /\ DOMAIN old = 1..n
  BY <1>1, SequenceIsAFunction DEF Staged
<1>3. PICK new : new = Append(old, pass)
  OBVIOUS
<1>4. /\ IsSequence(new) /\ Len(new) = n + 1 /\ DOMAIN new = 1..(n + 1)
      /\ \A k \in 1..(n + 1) : new[k] = IF k = n + 1 THEN pass ELSE old[k]
  BY <1>1, <1>2, <1>3, AppendToAnything
<1>5. \A k \in DOMAIN new : new[k] \in {"fuse", "dce", "grad"}
  BY <1>2, <1>4
<1>6. Last(new) = pass
  BY <1>2, <1>4 DEF Last
<1>7. /\ passes' = new /\ phase = "passes" /\ phase' = phase /\ vocab' = vocab /\ called' = called
  BY <1>1, <1>3 DEF Applies
<1> QED
  BY <1>4, <1>5, <1>6, <1>7 DEF Staged

LEMMA StepIsSound ==
  ASSUME IInv, [Next]_vars
  PROVE  IInv'
<1>1. Sound /\ Staged /\ JustRewritten
  BY DEF IInv
<1>2. CASE Tracing
  <2>1. Trace /\ passes' = passes
    BY <1>2 DEF Tracing
  <2>2. Sound' /\ Goes
    BY <1>1, <2>1, TraceIsSound, TraceGoes
  <2>3. passes = << >>
    BY <1>1, <2>2 DEF Staged, Goes
  <2>4. vocab.maxCalls \in Nat
    BY <1>1, VocabulariesAssumption DEF Sound
  <2>5. Staged'
    BY <1>1, <2>1, <2>2, <2>3, <2>4 DEF Staged, Goes
  <2>6. JustRewritten'
    BY <2>1, <2>3 DEF JustRewritten, JustApplied
  <2> QED
    BY <2>2, <2>5, <2>6 DEF IInv
<1>3. CASE Rewrite
  <2>1. Sound'
    BY <1>1, <1>3, RewriteIsSound
  <2>2. PICK pass \in {"fuse", "dce", "grad"} :
          /\ Applies(pass)
          /\ pass = "fuse" => graph' = ElementwiseFusion(graph)
          /\ pass = "dce" => graph' = DeadCodeElimination(graph)
    BY <1>3 DEF Rewrite, Fuse, Eliminate, Differentiate
  <2>3. Staged' /\ Last(passes') = pass /\ phase = "passes"
    BY <1>1, <2>2, OneMorePass
  <2>4. IsGraph(graph, vocab.arguments) /\ BiasesDiffer(graph.nodes)
    BY <1>1, <2>3, SoundGraph
  <2>5. /\ pass = "fuse" => NoPairIsLeft(graph')
        /\ pass = "dce" => OnlyLive(graph')
    BY <2>2, <2>4, EliminationIsBuilt, FusionMissesNothing
  <2>6. JustRewritten'
    BY <2>3, <2>5 DEF JustRewritten, JustApplied
  <2> QED
    BY <2>1, <2>3, <2>6 DEF IInv
<1>4. CASE StartMetal
  <2>1. /\ phase = "passes" /\ phase' = "metal" /\ vocab' = vocab /\ graph' = graph
        /\ called' = called /\ passes' = passes
    BY <1>4 DEF StartMetal
  <2>2. Sound'
    BY <1>1, <2>1 DEF Sound
  <2>3. Staged'
    BY <1>1, <2>1 DEF Staged
  <2>4. JustRewritten'
    BY <2>1 DEF JustRewritten, JustApplied
  <2> QED
    BY <2>2, <2>3, <2>4 DEF IInv
<1>5. CASE UNCHANGED pipelineVars
  BY <1>1, <1>5 DEF IInv, Sound, Staged, JustRewritten, JustApplied, pipelineVars
<1>6. CASE UNCHANGED vars
  BY <1>5, <1>6 DEF vars
<1>7. ASSUME NEW i \in DOMAIN graph.nodes, MetalLeaf(i) \/ ExtendChain(i) \/ BeginChain(i) \/ Dispatch(i)
      PROVE  UNCHANGED pipelineVars
  BY <1>7 DEF MetalLeaf, ExtendChain, BeginChain, Dispatch, NextNode
<1>8. CASE MetalReturns \/ MetalRaises
  BY <1>5, <1>8 DEF MetalReturns, MetalRaises
<1> QED
  BY <1>2, <1>3, <1>4, <1>5, <1>6, <1>7, <1>8 DEF Next, Metal

(* The invariant of the pipeline: whatever is traced, rewritten and        *)
(* differentiated, in any order, the graph is one, and what the last       *)
(* rewrite promises holds of it.                                           *)
THEOREM GraphsAreSound == Spec => []IInv
<1>1. Init => IInv
  BY StartIsSound
<1>2. IInv /\ [Next]_vars => IInv'
  BY StepIsSound
<1> QED
  BY <1>1, <1>2, PTL DEF Spec

(* Every graph that trace() builds or a rewrite returns has dense ids in   *)
(* topological order, its placeholders listed once and in argument order   *)
(* (kir.py:55-79).                                                         *)
THEOREM GraphsAreTopological == Spec => []KirTypeOK
<1>1. IInv => KirTypeOK
  <2> SUFFICES ASSUME IInv PROVE KirTypeOK
    OBVIOUS
  <2>1. Sound /\ Staged
    BY DEF IInv
  <2>2. ToSet(passes) \subseteq {"fuse", "dce", "grad"}
    BY <2>1 DEF Staged, ToSet
  <2>3. PICK n, args, ns : n = Len(graph.nodes) /\ args = vocab.arguments /\ ns = graph.nodes
    OBVIOUS
  <2>4. /\ n \in Nat /\ DOMAIN ns = 1..n /\ Built(ns, args) /\ DOMAIN args \subseteq 1..n
    <3>1. /\ n \in Nat /\ DOMAIN ns = 1..n /\ Built(ns, args)
          /\ Len(args) \in Nat /\ DOMAIN args = 1..Len(args) /\ Len(args) <= n
      BY <2>1, <2>3, SoundGraph
    <3> QED
      BY <3>1
  <2>5. \A i \in 1..n : NodeAfter(ns[i], i - 1) /\ Placed(ns[i], i, args)
    BY <2>4, BuiltFacts
  <2>6. ASSUME NEW i \in DOMAIN ns PROVE Operands(ns[i]) \subseteq 1..(i - 1)
    <3>1. Reads(ns[i].ins, i - 1)
      BY <2>4, <2>5 DEF NodeAfter
    <3> QED
      BY <3>1 DEF Reads, Operands
  <2>7. ToSet(graph.inputs) = {i \in DOMAIN ns : ns[i].op = "placeholder"}
    <3>1. graph.inputs = [k \in DOMAIN args |-> k]
      BY <2>1, <2>3 DEF Sound
    <3>2. ToSet(graph.inputs) = DOMAIN args
      BY <3>1 DEF ToSet
    <3>3. \A i \in 1..n : ns[i].op = "placeholder" <=> i \in DOMAIN args
      BY <2>5, NodeFields DEF Placed
    <3> QED
      BY <2>4, <3>2, <3>3
  <2> QED
    BY <2>1, <2>2, <2>3, <2>6, <2>7 DEF KirTypeOK, Sound, Staged
<1> QED
  BY <1>1, GraphsAreSound, PTL

(* After elementwise_fusion no pair with a fused kernel is left whose      *)
(* first value only the second reads (kir.py:630-735).                     *)
THEOREM FusionMissesNoPair == Spec => []FusionIsComplete
<1>1. IInv => FusionIsComplete
  BY DEF IInv, JustRewritten, FusionIsComplete, NoPairIsLeft
<1> QED
  BY <1>1, GraphsAreSound, PTL

(* dead_code_elimination leaves only what the output needs, and no rewrite *)
(* changes the calling convention (kir.py:848-877).                        *)
THEOREM EliminationKeepsWhatIsNeeded == Spec => []OnlyDeadCodeGoes
<1>1. IInv => OnlyDeadCodeGoes
  <2> SUFFICES ASSUME IInv PROVE OnlyDeadCodeGoes
    OBVIOUS
  <2>1. Sound /\ JustRewritten
    BY DEF IInv
  <2>2. PICK n, args, ns : n = Len(graph.nodes) /\ args = vocab.arguments /\ ns = graph.nodes
    OBVIOUS
  <2>3. /\ n \in Nat /\ DOMAIN ns = 1..n /\ Built(ns, args) /\ DOMAIN args \subseteq 1..n
        /\ IsSequence(args)
    <3>1. /\ n \in Nat /\ DOMAIN ns = 1..n /\ Built(ns, args)
          /\ Len(args) \in Nat /\ DOMAIN args = 1..Len(args) /\ Len(args) <= n
      BY <2>1, <2>2, SoundGraph
    <3> QED
      BY <3>1 DEF Built, AreNodes
  <2>4. \A i \in DOMAIN args : ns[i].shape = args[i]
    <3>1. \A i \in 1..n : Placed(ns[i], i, args)
      BY <2>3, BuiltFacts
    <3> QED
      BY <2>3, <3>1, NodeFields DEF Placed
  <2>5. graph.inputs = [k \in DOMAIN args |-> k]
    BY <2>1, <2>2 DEF Sound
  <2>6. [k \in DOMAIN graph.inputs |-> graph.nodes[graph.inputs[k]].shape] = [k \in DOMAIN args |-> args[k]]
    BY <2>2, <2>4, <2>5
  <2>7. args = [k \in DOMAIN args |-> args[k]]
    BY <2>3, SequenceIsAFunction
  <2>8. JustApplied({"dce"}) => OnlyLive(graph)
    BY <2>1 DEF JustRewritten
  <2> QED
    BY <2>2, <2>6, <2>7, <2>8 DEF OnlyDeadCodeGoes, OnlyLive
<1> QED
  BY <1>1, GraphsAreSound, PTL

(***************************************************************************)
(* run_metal: which values it has                                          *)
(***************************************************************************)
(* Kind, of any graph.                                                     *)
KindOf(g, i) ==
  LET node == g.nodes[i]
  IN  IF node.op = "fused_bias_relu" THEN "bias_relu"
      ELSE IF node.op = "add" /\ IsBiasShape(g.nodes[node.ins[1]].shape, g.nodes[node.ins[2]].shape)
      THEN "add_bias"
      ELSE "none"

Adds(g, i) == ~IsLeaf(g.nodes[i]) /\ KindOf(g, i) # "none"

(* Before its turn comes, node p is followed by a bias addition.           *)
TakenBefore(g, i, p) ==
  \E j \in 1..(p - 1) : Adds(g, i) /\ Adds(g, j) /\ g.nodes[j].ins[1] = i

(* The pending chain, and where the value of every node before p is.       *)
Pending(g, p, b, c, ci) ==
  /\ p \in 1..(Len(g.nodes) + 1) /\ IsSequence(c)
  /\ \A k \in DOMAIN c :
       /\ c[k].node \in 1..(p - 1) /\ Adds(g, c[k].node)
       /\ g.nodes[c[k].node].ins[1] = IF k = 1 THEN ci ELSE c[k - 1].node
  /\ c # << >> => ci \in DOMAIN b \/ TakenBefore(g, ci, c[1].node)
  /\ \A i \in DOMAIN g.nodes : g.nodes[i].op = "placeholder" => i \in DOMAIN b
  /\ \A i \in 1..(p - 1) :
       i \in DOMAIN b \/ (c # << >> /\ i = Last(c).node) \/ TakenBefore(g, i, p)

LEMMA KindIs ==
  ASSUME NEW i
  PROVE  Kind(i) = KindOf(graph, i)
BY DEF Kind, KindOf

LEMMA AddsFacts ==
  ASSUME NEW g, NEW args, IsGraph(g, args), BiasesDiffer(g.nodes), NEW i \in DOMAIN g.nodes, Adds(g, i)
  PROVE  /\ g.nodes[i].op \in {"fused_bias_relu", "add"}
         /\ Len(g.nodes[i].ins) = 2 /\ DOMAIN g.nodes[i].ins = 1..2
         /\ g.nodes[i].ins[1] # g.nodes[i].ins[2]
         /\ g.nodes[i].ins[1] \in 1..(i - 1) /\ g.nodes[i].ins[2] \in 1..(i - 1)
         /\ Operands(g.nodes[i]) = {g.nodes[i].ins[1], g.nodes[i].ins[2]}
<1>1. PICK node, ins : node = g.nodes[i] /\ ins = node.ins
  OBVIOUS
<1>2. node.op \in {"fused_bias_relu", "add"}
  BY <1>1 DEF Adds, KindOf
<1>3. Len(ins) \in Arity(node.op) /\ DOMAIN ins = 1..Len(ins)
  BY <1>1, NodeFacts
<1>4. Len(ins) = 2
  BY <1>2, <1>3 DEF Arity, Unary
<1>5. DOMAIN ins = 1..2 /\ 1 \in DOMAIN ins /\ 2 \in DOMAIN ins
  BY <1>3, <1>4
<1>6. ins[1] \in 1..(i - 1) /\ ins[2] \in 1..(i - 1)
  BY <1>1, <1>5, NodeFacts
<1>7. ins[1] # ins[2]
  <2>1. CASE node.op = "fused_bias_relu"
    BY <1>1, <2>1 DEF BiasesDiffer
  <2>2. CASE node.op # "fused_bias_relu"
    <3>1. IsBiasShape(g.nodes[ins[1]].shape, g.nodes[ins[2]].shape)
      BY <1>1, <2>2 DEF Adds, KindOf
    <3> QED
      BY <3>1 DEF IsBiasShape
  <2> QED
    BY <2>1, <2>2
<1>8. Operands(node) = {ins[1], ins[2]}
  <2>1. Operands(node) = {ins[k] : k \in {1, 2}}
    <3>1. DOMAIN node.ins = {1, 2}
      BY <1>1, <1>5
    <3> QED
      BY <1>1, <3>1 DEF Operands
  <2> QED
    BY <2>1
<1> QED
  BY <1>1, <1>2, <1>4, <1>5, <1>6, <1>7, <1>8

LEMMA TakenEarlier ==
  ASSUME NEW g, NEW i, NEW p \in Nat, NEW q \in Nat, p <= q, TakenBefore(g, i, p)
  PROVE  TakenBefore(g, i, q)
BY DEF TakenBefore

LEMMA EmptyIfNone ==
  ASSUME NEW s, IsSequence(s), Len(s) = 0
  PROVE  s = << >>
BY DEF IsSequence

(* A leaf, once its value is there.                                        *)
LEMMA LeafIsPending ==
  ASSUME NEW g, NEW args, IsGraph(g, args), NEW p \in DOMAIN g.nodes, NEW b, NEW c, NEW ci,
         Pending(g, p, b, c, ci), NEW d, DOMAIN b \subseteq DOMAIN d, p \in DOMAIN d, NEW q \in Nat, q = p + 1
  PROVE  Pending(g, q, d, c, ci)
<1>1. PICK n \in Nat : n = Len(g.nodes) /\ DOMAIN g.nodes = 1..n
  BY GraphFacts
<1>2. p \in 1..n /\ q \in 1..(n + 1) /\ p <= q
  BY <1>1
<1>3. ASSUME NEW i \in 1..(q - 1)
      PROVE  i \in DOMAIN d \/ (c # << >> /\ i = Last(c).node) \/ TakenBefore(g, i, q)
  <2>1. CASE i = p
    BY <2>1
  <2>2. CASE i # p
    <3>1. i \in 1..(p - 1)
      BY <1>2, <2>2
    <3>2. i \in DOMAIN b \/ (c # << >> /\ i = Last(c).node) \/ TakenBefore(g, i, p)
      BY <3>1 DEF Pending
    <3> QED
      BY <1>2, <3>2, TakenEarlier
  <2> QED
    BY <2>1, <2>2
<1>4. \A k \in DOMAIN c : c[k].node \in 1..(q - 1)
  <2>1. \A k \in DOMAIN c : c[k].node \in 1..(p - 1)
    BY DEF Pending
  <2> QED
    BY <1>2, <2>1
<1> QED
  BY <1>1, <1>2, <1>3, <1>4 DEF Pending

(* A bias addition that continues the chain.                               *)
LEMMA ChainIsPending ==
  ASSUME NEW g, NEW args, IsGraph(g, args), NEW p \in DOMAIN g.nodes, NEW b, NEW c, NEW ci,
         Pending(g, p, b, c, ci), NEW q \in Nat, q = p + 1,
         Adds(g, p), c # << >>, g.nodes[p].ins[1] = Last(c).node, NEW step, step.node = p
  PROVE  Pending(g, q, b, Append(c, step), ci)
<1>1. PICK n \in Nat : n = Len(g.nodes) /\ DOMAIN g.nodes = 1..n
  BY GraphFacts
<1>2. p \in 1..n /\ q \in 1..(n + 1) /\ p <= q
  BY <1>1
<1>3. PICK m \in Nat : m = Len(c) /\ DOMAIN c = 1..m /\ IsSequence(c)
  BY SequenceIsAFunction DEF Pending
<1>4. m # 0
  BY <1>3, EmptyIfNone
<1>5. PICK d : d = Append(c, step)
  OBVIOUS
<1>6. /\ IsSequence(d) /\ Len(d) = m + 1 /\ DOMAIN d = 1..(m + 1)
      /\ \A k \in 1..(m + 1) : d[k] = IF k = m + 1 THEN step ELSE c[k]
  BY <1>3, <1>5, AppendToAnything
<1>7. Last(c) = c[m] /\ Last(d) = step /\ d # << >> /\ d[1] = c[1]
  <2>1. d # << >>
    BY <1>3, <1>6, NothingIsThere
  <2> QED
    BY <1>3, <1>4, <1>6, <2>1 DEF Last
<1>8. ASSUME NEW k \in DOMAIN d
      PROVE  /\ d[k].node \in 1..(q - 1) /\ Adds(g, d[k].node)
             /\ g.nodes[d[k].node].ins[1] = IF k = 1 THEN ci ELSE d[k - 1].node
  <2>1. CASE k = m + 1
    <3>1. d[k] = step /\ k # 1 /\ k - 1 = m /\ d[k - 1] = c[m]
      BY <1>3, <1>4, <1>6, <2>1
    <3> QED
      BY <1>2, <1>7, <3>1
  <2>2. CASE k # m + 1
    <3>1. k \in DOMAIN c /\ d[k] = c[k] /\ (k # 1 => d[k - 1] = c[k - 1])
      BY <1>3, <1>6, <2>2
    <3>2. /\ c[k].node \in 1..(p - 1) /\ Adds(g, c[k].node)
          /\ g.nodes[c[k].node].ins[1] = IF k = 1 THEN ci ELSE c[k - 1].node
      BY <3>1 DEF Pending
    <3> QED
      BY <1>2, <3>1, <3>2
  <2> QED
    BY <2>1, <2>2
<1>9. ASSUME NEW i \in 1..(q - 1)
      PROVE  i \in DOMAIN b \/ (d # << >> /\ i = Last(d).node) \/ TakenBefore(g, i, q)
  <2>1. CASE i = p
    BY <1>7, <2>1
  <2>2. CASE i # p
    <3>1. i \in 1..(p - 1)
      BY <1>2, <2>2
    <3>2. i \in DOMAIN b \/ (c # << >> /\ i = Last(c).node) \/ TakenBefore(g, i, p)
      BY <3>1 DEF Pending
    <3>3. i = Last(c).node => TakenBefore(g, i, q)
      <4>1. m \in DOMAIN c
        BY <1>3, <1>4
      <4>2. Adds(g, c[m].node)
        BY <4>1 DEF Pending
      <4>3. p \in 1..(q - 1)
        BY <1>2
      <4> QED
        BY <1>7, <4>2, <4>3 DEF TakenBefore
    <3> QED
      BY <1>2, <3>2, <3>3, TakenEarlier
  <2> QED
    BY <2>1, <2>2
<1>10. /\ ci \in DOMAIN b \/ TakenBefore(g, ci, d[1].node)
       /\ \A i \in DOMAIN g.nodes : g.nodes[i].op = "placeholder" => i \in DOMAIN b
  BY <1>7 DEF Pending
<1> QED
  BY <1>1, <1>2, <1>5, <1>6, <1>8, <1>9, <1>10 DEF Pending

(* After a flush every value is there that no bias addition has taken.     *)
LEMMA FlushedIsThere ==
  ASSUME NEW g, NEW p, NEW b, NEW c, NEW ci, Pending(g, p, b, c, ci), NEW d, DOMAIN b \subseteq DOMAIN d,
         c # << >> => Last(c).node \in DOMAIN d
  PROVE  /\ \A i \in DOMAIN g.nodes : g.nodes[i].op = "placeholder" => i \in DOMAIN d
         /\ \A i \in 1..(p - 1) : i \in DOMAIN d \/ TakenBefore(g, i, p)
BY DEF Pending

LEMMA OthersArePending ==
  ASSUME NEW g, NEW args, IsGraph(g, args), NEW p \in DOMAIN g.nodes, NEW d,
         \A i \in DOMAIN g.nodes : g.nodes[i].op = "placeholder" => i \in DOMAIN d,
         \A i \in 1..(p - 1) : i \in DOMAIN d \/ TakenBefore(g, i, p),
         NEW q \in Nat, q = p + 1
  PROVE  /\ p \in DOMAIN d => Pending(g, q, d, << >>, 0)
         /\ \A step : /\ step.node = p /\ Adds(g, p) /\ g.nodes[p].ins[1] \in 1..(p - 1)
                      => Pending(g, q, d, <<step>>, g.nodes[p].ins[1])
<1>1. PICK n \in Nat : n = Len(g.nodes) /\ DOMAIN g.nodes = 1..n
  BY GraphFacts
<1>2. p \in 1..n /\ q \in 1..(n + 1) /\ p <= q
  BY <1>1
<1>3. ASSUME NEW i \in 1..(q - 1), i # p PROVE i \in DOMAIN d \/ TakenBefore(g, i, q)
  <2>1. i \in 1..(p - 1)
    BY <1>2, <1>3
  <2> QED
    BY <1>2, <2>1, TakenEarlier
<1>4. ASSUME p \in DOMAIN d PROVE Pending(g, q, d, << >>, 0)
  <2>1. IsSequence(<< >>) /\ \A k \in DOMAIN << >> : FALSE
    BY NothingIsThere
  <2>2. \A i \in 1..(q - 1) : i \in DOMAIN d \/ TakenBefore(g, i, q)
    BY <1>3, <1>4
  <2> QED
    BY <1>1, <1>2, <2>1, <2>2, Zenon DEF Pending
<1>5. ASSUME NEW step, step.node = p, Adds(g, p), g.nodes[p].ins[1] \in 1..(p - 1)
      PROVE  Pending(g, q, d, <<step>>, g.nodes[p].ins[1])
  <2>1. PICK c : c = <<step>>
    OBVIOUS
  <2>2. IsSequence(c) /\ Len(c) = 1 /\ c[1] = step
    BY <2>1, OneIsASequence
  <2>3. DOMAIN c = {1} /\ c # << >> /\ Last(c) = step
    <3>1. DOMAIN c = 1..1 /\ c # << >>
      BY <2>2, SequenceIsAFunction, NothingIsThere
    <3> QED
      BY <2>2, <3>1 DEF Last
  <2>4. \A i \in 1..(q - 1) : i \in DOMAIN d \/ i = Last(c).node \/ TakenBefore(g, i, q)
    BY <1>3, <1>5, <2>3
  <2>5. p \in 1..(q - 1)
    BY <1>2
  <2> QED
    BY <1>1, <1>2, <1>5, <2>1, <2>2, <2>3, <2>4, <2>5 DEF Pending
<1> QED
  BY <1>4, <1>5

LEMMA FlushedDomain ==
  ASSUME CanFlush
  PROVE  /\ DOMAIN bound \subseteq DOMAIN Flushed
         /\ DOMAIN Flushed \subseteq DOMAIN bound \cup {Last(chain).node}
         /\ chain # << >> => Last(chain).node \in DOMAIN Flushed
         /\ chain = << >> => Flushed = bound
<1>1. CASE chain = << >>
  BY <1>1 DEF Flushed
<1>2. CASE chain # << >>
  <2>1. PICK x : x = ChainResult
    OBVIOUS
  <2>2. Flushed = [i \in DOMAIN bound \cup {Last(chain).node} |-> IF i = Last(chain).node THEN x ELSE bound[i]]
    BY <1>2, <2>1 DEF Flushed
  <2> QED
    BY <1>2, <2>2
<1> QED
  BY <1>1, <1>2

(* Two readers of a bias addition, one of which may continue it.           *)
Retaken(g) ==
  \E i \in DOMAIN g.nodes :
    /\ Adds(g, i)
    /\ \E j \in DOMAIN g.nodes :
         Adds(g, j) /\ g.nodes[j].ins[1] = i /\ Consumers(g, i) \ {j} # {}

LEMMA TakenAndRead ==
  ASSUME NEW g, NEW args, IsGraph(g, args), NEW i, NEW p \in 1..(Len(g.nodes) + 1),
         TakenBefore(g, i, p), i \in DOMAIN g.nodes,
         IF p \in DOMAIN g.nodes THEN i \in Operands(g.nodes[p]) ELSE i = g.output
  PROVE  Retaken(g)
<1>1. PICK n \in Nat : n = Len(g.nodes) /\ DOMAIN g.nodes = 1..n
  BY GraphFacts
<1>2. PICK j \in 1..(p - 1) : Adds(g, i) /\ Adds(g, j) /\ g.nodes[j].ins[1] = i
  BY DEF TakenBefore
<1>3. p \in 1..(n + 1) /\ j \in 1..n /\ j # p
  BY <1>1
<1>4. CASE p \in DOMAIN g.nodes
  <2>1. p \in Consumers(g, i)
    BY <1>4 DEF Consumers
  <2> QED
    BY <1>1, <1>2, <1>3, <2>1 DEF Retaken
<1>5. CASE p \notin DOMAIN g.nodes
  <2>1. 0 \in Consumers(g, i) /\ 0 # j
    BY <1>3, <1>5 DEF Consumers
  <2> QED
    BY <1>1, <1>2, <1>3, <2>1 DEF Retaken
<1> QED
  BY <1>4, <1>5

LEMMA MissingIsRetaken ==
  ASSUME Sound, phase = "metal", Pending(graph, pos, bound, chain, chainInput), Missing
  PROVE  Retaken(graph)
<1>1. PICK g, args : g = graph /\ args = vocab.arguments
  OBVIOUS
<1>2. IsGraph(g, args) /\ BiasesDiffer(g.nodes)
  BY <1>1, SoundGraph
<1>3. PICK n \in Nat : n = Len(g.nodes) /\ DOMAIN g.nodes = 1..n
  BY <1>2, GraphFacts
<1>4. pos \in 1..(n + 1)
  BY <1>1, <1>3 DEF Pending
<1>5. PICK p \in 1..(n + 1) : p = pos
  BY <1>4
<1>6. g.output \in 1..n
  BY <1>2, <1>3, GraphFacts
<1>7. CASE ~CanFlush
  <2>1. chain # << >> /\ chainInput \notin DOMAIN bound
    BY <1>7 DEF CanFlush
  <2>2. PICK m \in Nat : m = Len(chain) /\ DOMAIN chain = 1..m /\ m # 0
    <3>1. IsSequence(chain)
      BY DEF Pending
    <3> QED
      BY <2>1, <3>1, SequenceIsAFunction, EmptyIfNone
  <2>3. 1 \in DOMAIN chain
    BY <2>2
  <2>4. PICK first : first = chain[1].node
    OBVIOUS
  <2>5. /\ first \in 1..(p - 1) /\ Adds(g, first) /\ g.nodes[first].ins[1] = chainInput
        /\ TakenBefore(g, chainInput, first)
    BY <1>1, <1>5, <2>1, <2>3, <2>4 DEF Pending
  <2>6. first \in DOMAIN g.nodes /\ first \in 1..(Len(g.nodes) + 1)
    BY <1>3, <1>5, <2>5
  <2>7. chainInput \in 1..(first - 1) /\ chainInput \in Operands(g.nodes[first])
    <3>1. /\ g.nodes[first].ins[1] \in 1..(first - 1)
          /\ Operands(g.nodes[first]) = {g.nodes[first].ins[1], g.nodes[first].ins[2]}
      BY <1>2, <2>5, <2>6, AddsFacts
    <3> QED
      BY <2>5, <3>1
  <2>8. chainInput \in DOMAIN g.nodes
    BY <1>3, <2>6, <2>7
  <2> QED
    BY <1>1, <1>2, <2>5, <2>6, <2>7, <2>8, TakenAndRead
<1>8. CASE CanFlush
  <2>1. /\ DOMAIN bound \subseteq DOMAIN Flushed
        /\ chain # << >> => Last(chain).node \in DOMAIN Flushed
    BY <1>8, FlushedDomain
  <2>2. PICK flushed : flushed = Flushed
    OBVIOUS
  <2>3. ASSUME NEW i \in 1..(p - 1), i \notin DOMAIN flushed PROVE TakenBefore(g, i, p)
    BY <1>1, <1>5, <2>1, <2>2, <2>3, FlushedIsThere
  <2>4. ASSUME NEW i \in 1..(p - 1), i \notin DOMAIN flushed,
               IF p \in DOMAIN g.nodes THEN i \in Operands(g.nodes[p]) ELSE i = g.output
        PROVE  Retaken(g)
    <3>1. i \in DOMAIN g.nodes /\ p \in 1..(Len(g.nodes) + 1)
      BY <1>3
    <3> QED
      BY <1>2, <2>3, <2>4, <3>1, TakenAndRead
  <2>5. CASE p > n
    <3>1. p = n + 1 /\ p \notin DOMAIN g.nodes
      BY <1>3, <2>5
    <3>2. g.output \notin DOMAIN flushed
      BY <1>1, <1>3, <1>5, <1>8, <2>2, <2>5 DEF Missing
    <3>3. g.output \in 1..(p - 1)
      BY <1>6, <3>1
    <3> QED
      BY <1>1, <2>4, <3>1, <3>2, <3>3
  <2>6. CASE ~(p > n)
    <3>1. p \in DOMAIN g.nodes
      BY <1>3, <2>6
    <3>2. PICK node : node = g.nodes[p]
      OBVIOUS
    <3>3. /\ ~IsLeaf(node)
          /\ IF KindOf(g, p) # "none"
             THEN IF Continues(p) THEN node.ins[2] \notin DOMAIN bound
                  ELSE node.ins[2] \notin DOMAIN flushed
             ELSE ~(Operands(node) \subseteq DOMAIN flushed)
      BY <1>1, <1>3, <1>5, <1>8, <2>2, <2>6, <3>2, KindIs DEF Missing
    <3>4. CASE KindOf(g, p) = "none"
      <4>1. PICK i \in Operands(node) : i \notin DOMAIN flushed
        BY <3>3, <3>4
      <4>2. i \in 1..(p - 1)
        BY <1>2, <3>1, <3>2, <4>1, NodeFacts DEF Operands
      <4> QED
        BY <1>1, <2>4, <3>1, <3>2, <4>1, <4>2
    <3>5. CASE KindOf(g, p) # "none"
      <4>1. Adds(g, p)
        BY <3>2, <3>3, <3>5 DEF Adds
      <4>2. PICK i : i = node.ins[2]
        OBVIOUS
      <4>3. i \in 1..(p - 1) /\ i \in Operands(node) /\ node.ins[1] # i
        <5>1. /\ g.nodes[p].ins[2] \in 1..(p - 1) /\ g.nodes[p].ins[1] # g.nodes[p].ins[2]
              /\ Operands(g.nodes[p]) = {g.nodes[p].ins[1], g.nodes[p].ins[2]}
          BY <1>2, <3>1, <4>1, AddsFacts
        <5> QED
          BY <3>2, <4>2, <5>1
      <4>4. CASE Continues(p)
        <5>1. node.ins[1] = Last(chain).node /\ i \notin DOMAIN bound
          BY <1>1, <3>2, <3>3, <3>5, <4>2, <4>4 DEF Continues
        <5>2. TakenBefore(g, i, p)
          BY <1>1, <1>5, <4>3, <5>1 DEF Pending
        <5>3. i \in DOMAIN g.nodes /\ p \in 1..(Len(g.nodes) + 1)
          BY <1>3, <4>3
        <5> QED
          BY <1>1, <1>2, <3>1, <3>2, <4>3, <5>2, <5>3, TakenAndRead
      <4>5. CASE ~Continues(p)
        BY <1>1, <2>4, <3>1, <3>2, <3>3, <3>5, <4>2, <4>3, <4>5
      <4> QED
        BY <4>4, <4>5
    <3> QED
      BY <3>4, <3>5
  <2> QED
    BY <2>5, <2>6
<1> QED
  BY <1>7, <1>8

(***************************************************************************)
(* ... and that it goes on having them                                     *)
(***************************************************************************)
LEMMA FirstIsPending ==
  ASSUME Sound, StartMetal, chain = << >>
  PROVE  Pending(graph', pos', bound', chain', chainInput')
<1>1. /\ phase = "passes" /\ graph' = graph /\ pos' = 1 /\ chain' = << >> /\ chainInput' = chainInput
      /\ DOMAIN bound' = ToSet(graph.inputs)
  BY DEF StartMetal
<1>2. PICK g, args : g = graph /\ args = vocab.arguments
  OBVIOUS
<1>3. IsGraph(g, args)
  BY <1>1, <1>2, SoundGraph
<1>4. PICK n \in Nat : n = Len(g.nodes) /\ DOMAIN g.nodes = 1..n
  BY <1>3, GraphFacts
<1>5. ASSUME NEW i \in DOMAIN g.nodes, g.nodes[i].op = "placeholder" PROVE i \in ToSet(g.inputs)
  <2>1. i \in DOMAIN args
    BY <1>3, <1>5, NodeFacts DEF Placed
  <2>2. g.inputs = [k \in DOMAIN args |-> k]
    BY <1>3, GraphFacts
  <2> QED
    BY <2>1, <2>2 DEF ToSet
<1>6. 1 \in 1..(n + 1) /\ \A i \in 1..(1 - 1) : FALSE
  BY <1>4
<1>7. IsSequence(<< >>) /\ \A k \in DOMAIN << >> : FALSE
  BY NothingIsThere
<1>8. PICK d, ci : d = bound' /\ ci = chainInput /\ DOMAIN d = ToSet(g.inputs)
  BY <1>1, <1>2
<1>9. Pending(g, 1, d, << >>, ci)
  BY <1>4, <1>5, <1>6, <1>7, <1>8, Zenon DEF Pending
<1> QED
  BY <1>1, <1>2, <1>8, <1>9

LEMMA TurnIsPending ==
  ASSUME Sound, phase = "metal", Pending(graph, pos, bound, chain, chainInput), NEW i \in DOMAIN graph.nodes,
         MetalLeaf(i) \/ ExtendChain(i) \/ BeginChain(i) \/ Dispatch(i)
  PROVE  Pending(graph', pos', bound', chain', chainInput')
<1>1. i = pos /\ pos' = pos + 1 /\ graph' = graph
  BY DEF MetalLeaf, ExtendChain, BeginChain, Dispatch, Turn, NextNode, pipelineVars
<1>2. PICK g, args : g = graph /\ args = vocab.arguments
  OBVIOUS
<1>3. IsGraph(g, args) /\ BiasesDiffer(g.nodes)
  BY <1>2, SoundGraph
<1>4. PICK n \in Nat : n = Len(g.nodes) /\ DOMAIN g.nodes = 1..n
  BY <1>3, GraphFacts
<1>5. PICK p \in DOMAIN g.nodes : p = i
  BY <1>2
<1>6. PICK q \in Nat : q = p + 1 /\ q = pos'
  BY <1>1, <1>4, <1>5
<1>7. PICK b, c, ci : b = bound /\ c = chain /\ ci = chainInput
  OBVIOUS
<1>8. Pending(g, p, b, c, ci)
  BY <1>1, <1>2, <1>5, <1>7
<1>9. CASE MetalLeaf(i)
  <2>1. PICK d : d = bound'
    OBVIOUS
  <2>2. /\ chain' = c /\ chainInput' = ci /\ IsLeaf(g.nodes[p])
        /\ d = IF g.nodes[p].op = "constant" THEN With(b, p, ConstantValue(g.nodes[p])) ELSE b
    BY <1>2, <1>5, <1>7, <1>9, <2>1 DEF MetalLeaf
  <2>3. DOMAIN b \subseteq DOMAIN d /\ p \in DOMAIN d
    <3>1. CASE g.nodes[p].op = "constant"
      BY <2>2, <3>1 DEF With
    <3>2. CASE g.nodes[p].op # "constant"
      <4>1. g.nodes[p].op = "placeholder"
        BY <2>2, <3>2 DEF IsLeaf
      <4> QED
        BY <1>8, <2>2, <3>2, <4>1 DEF Pending
    <3> QED
      BY <3>1, <3>2
  <2>4. Pending(g, q, d, c, ci)
    BY <1>3, <1>6, <1>8, <2>3, LeafIsPending
  <2> QED
    BY <1>1, <1>2, <1>6, <2>1, <2>2, <2>4
<1>10. CASE ExtendChain(i)
  <2>1. PICK step : step = Step(i, bound)
    OBVIOUS
  <2>2. /\ chain' = Append(c, step) /\ chainInput' = ci /\ bound' = b
        /\ ~IsLeaf(g.nodes[p]) /\ Kind(i) # "none" /\ Continues(i)
    BY <1>2, <1>5, <1>7, <1>10, <2>1 DEF ExtendChain
  <2>3. Adds(g, p) /\ c # << >> /\ g.nodes[p].ins[1] = Last(c).node /\ step.node = p
    BY <1>2, <1>5, <1>7, <2>1, <2>2, KindIs DEF Adds, Continues, Step
  <2>4. Pending(g, q, b, Append(c, step), ci)
    BY <1>3, <1>6, <1>8, <2>3, ChainIsPending
  <2> QED
    BY <1>1, <1>2, <1>6, <2>2, <2>4
<1>11. CASE BeginChain(i) \/ Dispatch(i)
  <2>1. CanFlush
    BY <1>11 DEF BeginChain, Dispatch
  <2>2. PICK flushed : flushed = Flushed
    OBVIOUS
  <2>3. DOMAIN b \subseteq DOMAIN flushed /\ (c # << >> => Last(c).node \in DOMAIN flushed)
    BY <1>7, <2>1, <2>2, FlushedDomain
  <2>4. CASE BeginChain(i)
    <3>1. PICK step : step = Step(i, flushed)
      OBVIOUS
    <3>2. /\ chain' = <<step>> /\ chainInput' = g.nodes[p].ins[1] /\ bound' = flushed
          /\ ~IsLeaf(g.nodes[p]) /\ Kind(i) # "none"
      BY <1>2, <1>5, <2>2, <2>4, <3>1 DEF BeginChain
    <3>3. Adds(g, p) /\ step.node = p
      BY <1>2, <1>5, <3>1, <3>2, KindIs DEF Adds, Step
    <3>4. g.nodes[p].ins[1] \in 1..(p - 1)
      BY <1>3, <3>3, AddsFacts
    <3>5. /\ \A k \in DOMAIN g.nodes : g.nodes[k].op = "placeholder" => k \in DOMAIN flushed
          /\ \A k \in 1..(p - 1) : k \in DOMAIN flushed \/ TakenBefore(g, k, p)
      BY <1>8, <2>3, FlushedIsThere
    <3>6. Pending(g, q, flushed, <<step>>, g.nodes[p].ins[1])
      BY <1>3, <1>6, <3>3, <3>4, <3>5, OthersArePending
    <3> QED
      BY <1>1, <1>2, <1>6, <3>2, <3>6
  <2>5. CASE Dispatch(i)
    <3>1. PICK d, x : d = bound' /\ d = With(flushed, p, x)
      BY <1>5, <2>2, <2>5 DEF Dispatch
    <3>2. chain' = << >> /\ chainInput' = 0
      BY <2>5 DEF Dispatch
    <3>3. DOMAIN flushed \subseteq DOMAIN d /\ p \in DOMAIN d
      BY <3>1 DEF With
    <3>4. DOMAIN b \subseteq DOMAIN d /\ (c # << >> => Last(c).node \in DOMAIN d)
      BY <2>3, <3>3
    <3>5. /\ \A k \in DOMAIN g.nodes : g.nodes[k].op = "placeholder" => k \in DOMAIN d
          /\ \A k \in 1..(p - 1) : k \in DOMAIN d \/ TakenBefore(g, k, p)
      BY <1>8, <3>4, FlushedIsThere
    <3>6. Pending(g, q, d, << >>, 0)
      BY <1>3, <1>6, <3>3, <3>5, OthersArePending
    <3> QED
      BY <1>1, <1>2, <1>6, <3>1, <3>2, <3>6
  <2> QED
    BY <1>11, <2>4, <2>5
<1> QED
  BY <1>9, <1>10, <1>11

(* Until run_metal is called nothing is pending, and as long as it runs    *)
(* the values are where Pending says.                                      *)
MetalHeld ==
  /\ phase # "metal" => outcome = "idle" /\ chain = << >>
  /\ outcome = "running" => Pending(graph, pos, bound, chain, chainInput)

MInv == IInv /\ MetalHeld

LEMMA MetalStepHolds ==
  ASSUME MInv, [Next]_vars
  PROVE  MInv'
<1>1. IInv /\ MetalHeld /\ Sound
  BY DEF MInv, IInv
<1>2. IInv'
  BY <1>1, StepIsSound
<1>3. CASE (Tracing \/ Rewrite) /\ UNCHANGED metalVars
  <2>1. phase # "metal"
    BY <1>1, <1>3, TraceGoes DEF Tracing, Goes, Rewrite, Fuse, Eliminate, Differentiate, Applies
  <2>2. outcome = "idle" /\ chain = << >> /\ outcome' = outcome /\ chain' = chain
    BY <1>1, <1>3, <2>1 DEF MetalHeld, metalVars
  <2>3. MetalHeld'
    BY <2>2 DEF MetalHeld
  <2> QED
    BY <1>2, <2>3 DEF MInv
<1>4. CASE StartMetal
  <2>1. phase = "passes" /\ phase' = "metal" /\ outcome' = "running"
    BY <1>4 DEF StartMetal
  <2>2. chain = << >>
    BY <1>1, <2>1 DEF MetalHeld
  <2>3. Pending(graph', pos', bound', chain', chainInput')
    BY <1>1, <1>4, <2>2, FirstIsPending
  <2>4. MetalHeld'
    BY <2>1, <2>3 DEF MetalHeld
  <2> QED
    BY <1>2, <2>4 DEF MInv
<1>5. ASSUME outcome = "running"
      PROVE  phase = "metal" /\ Pending(graph, pos, bound, chain, chainInput)
  BY <1>1, <1>5 DEF MetalHeld
<1>6. ASSUME NEW i \in DOMAIN graph.nodes, MetalLeaf(i) \/ ExtendChain(i) \/ BeginChain(i) \/ Dispatch(i)
      PROVE  MInv'
  <2>1. outcome = "running" /\ outcome' = "running" /\ phase' = phase
    BY <1>6 DEF MetalLeaf, ExtendChain, BeginChain, Dispatch, Turn, NextNode, pipelineVars
  <2>2. Pending(graph', pos', bound', chain', chainInput')
    BY <1>1, <1>5, <1>6, <2>1, TurnIsPending
  <2>3. MetalHeld'
    BY <1>5, <2>1, <2>2 DEF MetalHeld
  <2> QED
    BY <1>2, <2>3 DEF MInv
<1>7. CASE MetalReturns
  <2>1. outcome = "running" /\ outcome' = "returned" /\ phase' = phase
    BY <1>7 DEF MetalReturns, pipelineVars
  <2>2. MetalHeld'
    BY <1>5, <2>1 DEF MetalHeld
  <2> QED
    BY <1>2, <2>2 DEF MInv
<1>8. CASE MetalRaises
  <2>1. outcome = "running" /\ outcome' = "raised" /\ phase' = phase
    BY <1>8 DEF MetalRaises, pipelineVars
  <2>3. MetalHeld'
    BY <1>5, <2>1 DEF MetalHeld
  <2> QED
    BY <1>2, <2>3 DEF MInv
<1>9. CASE UNCHANGED vars
  <2>1. /\ phase' = phase /\ outcome' = outcome /\ chain' = chain /\ graph' = graph /\ pos' = pos
        /\ bound' = bound /\ chainInput' = chainInput
    BY <1>9 DEF vars, pipelineVars, metalVars
  <2>2. MetalHeld'
    BY <1>1, <2>1 DEF MetalHeld
  <2> QED
    BY <1>2, <2>2 DEF MInv
<1> QED
  BY <1>3, <1>4, <1>6, <1>7, <1>8, <1>9 DEF Next, Metal

(* Until run_metal has passed a node it has or can make its value, unless  *)
(* a bias addition took it up (kir.py:1648-1667).                          *)
THEOREM MetalHoldsItsValues == Spec => []MInv
<1>1. Init => MInv
  <2>1. Init => IInv
    BY StartIsSound
  <2>2. Init => MetalHeld
    BY DEF Init, MetalHeld
  <2> QED
    BY <2>1, <2>2 DEF MInv
<1>2. MInv /\ [Next]_vars => MInv'
  BY MetalStepHolds
<1> QED
  BY <1>1, <1>2, PTL DEF Spec

(***************************************************************************)
(* The rewrites and the value a graph computes                             *)
(***************************************************************************)
(* The arguments a graph is run on follow from the calling convention.     *)
LEMMA ArgumentsAre ==
  ASSUME NEW g, NEW args, IsGraph(g, args)
  PROVE  Arguments(g) = [k \in DOMAIN args |-> Argument(k, args[k])]
<1>1. PICK ins : ins = g.inputs /\ ins = [k \in DOMAIN args |-> k]
  BY GraphFacts
<1>2. ASSUME NEW k \in DOMAIN args PROVE g.nodes[k].shape = args[k]
  <2>1. k \in DOMAIN g.nodes
    <3>1. /\ DOMAIN g.nodes = 1..Len(g.nodes) /\ DOMAIN args = 1..Len(args) /\ Len(args) <= Len(g.nodes)
          /\ Len(args) \in Nat /\ Len(g.nodes) \in Nat
      BY GraphFacts
    <3> QED
      BY <3>1
  <2>2. g.nodes[k] = Node("placeholder", << >>, args[k], << >>)
    BY <2>1, NodeFacts DEF Placed
  <2> QED
    BY <2>2, NodeFields
<1>3. Arguments(g) = [k \in DOMAIN ins |-> Argument(ins[k], g.nodes[ins[k]].shape)]
  BY <1>1 DEF Arguments
<1>4. DOMAIN ins = DOMAIN args /\ \A k \in DOMAIN args : ins[k] = k
  BY <1>1
<1> QED
  BY <1>2, <1>3, <1>4

(* A graph that runs, runs on tensors.                                     *)
LEMMA HonestGraphIsNumeric ==
  ASSUME Sound, phase = "passes", ShapesAreHonest, Runs(graph)
  PROVE  Numeric(graph, RunValues(graph))
<1>1. PICK g, vals : g = graph /\ vals = RunValues(g)
  OBVIOUS
<1>2. PICK n \in Nat : DOMAIN g.nodes = 1..n /\ n = Len(g.nodes)
  BY <1>1, SoundGraph
<1>3. Len(vals) = n
  BY <1>1, <1>2 DEF Runs, RunsOn, RunValues
<1>4. \A i \in DOMAIN g.nodes :
        i <= Len(vals) => IF g.nodes[i].op = "tuple" THEN Consumers(g, i) = {0} ELSE IsTensor(vals[i])
  BY <1>1 DEF ShapesAreHonest
<1>5. ASSUME NEW i \in DOMAIN g.nodes, NEW j \in DOMAIN g.nodes, i \in Operands(g.nodes[j])
      PROVE  IsTensor(vals[i])
  <2>1. j \in Consumers(g, i)
    BY <1>5 DEF Consumers
  <2>2. j # 0 /\ i <= Len(vals)
    BY <1>2, <1>3
  <2> QED
    BY <1>4, <2>1, <2>2
<1> QED
  BY <1>1, <1>5 DEF Numeric

(* The graph runs as before, on the same arguments.                        *)
RunsAlike(h, g) ==
  RunsOn(h, Arguments(h)) /\ Run(h) = Run(g)

LEMMA RewriteRunsAlike ==
  ASSUME NEW g, NEW args, IsGraph(g, args), RunsOn(g, Arguments(g)), Numeric(g, RunValues(g))
  PROVE  RunsAlike(ElementwiseFusion(g), g) /\ RunsAlike(DeadCodeElimination(g), g)
<1>1. PICK arguments : arguments = Arguments(g)
  OBVIOUS
<1>2. RunsOn(g, arguments) /\ Numeric(g, ValuesOn(g, arguments)) /\ Run(g) = RunOn(g, arguments)
  BY <1>1 DEF RunValues, Run
<1>3. ASSUME NEW h, IsGraph(h, args) PROVE Arguments(h) = arguments
  BY <1>1, <1>3, ArgumentsAre
<1>4. ASSUME NEW h, IsGraph(h, args), RunsOn(h, arguments), RunOn(h, arguments) = RunOn(g, arguments)
      PROVE  RunsAlike(h, g)
  BY <1>2, <1>3, <1>4 DEF RunsAlike, Run
<1>5. PICK f, d : f = ElementwiseFusion(g) /\ d = DeadCodeElimination(g)
  OBVIOUS
<1>6. IsGraph(f, args) /\ RunsOn(f, arguments) /\ RunOn(f, arguments) = RunOn(g, arguments)
  BY <1>2, <1>5, FusionRuns
<1>7. IsGraph(d, args) /\ RunsOn(d, arguments) /\ RunOn(d, arguments) = RunOn(g, arguments)
  BY <1>2, <1>5, EliminationRuns
<1> QED
  BY <1>4, <1>5, <1>6, <1>7

(* The graph computes what it is to compute, if that is anything.          *)
Meant == phase # "trace" /\ meaning # << >> => Outcome(graph) = meaning

LEMMA OutcomeIs ==
  ASSUME NEW g
  PROVE  /\ Outcome(g) # << >> <=> Runs(g)
         /\ Runs(g) => Outcome(g) = <<Run(g)>>
<1>1. CASE Runs(g)
  <2>1. PICK x : x = Run(g)
    OBVIOUS
  <2>2. <<x>> # << >>
    OBVIOUS
  <2> QED
    BY <1>1, <2>1, <2>2 DEF Outcome
<1>2. CASE ~Runs(g)
  BY <1>2 DEF Outcome
<1> QED
  BY <1>1, <1>2

LEMMA StepKeepsMeaning ==
  ASSUME IInv, Meant, ShapesAreHonest, [Next]_vars
  PROVE  Meant'
<1>1. Sound /\ Staged
  BY DEF IInv
<1>4. CASE Tracing
  <2>1. Trace /\ meaning' = IF phase' = "passes" THEN Outcome(graph') ELSE meaning
    BY <1>4 DEF Tracing
  <2>2. phase' = "trace" \/ phase' = "passes"
    BY <1>1, <2>1, TraceGoes DEF Goes
  <2> QED
    BY <2>1, <2>2 DEF Meant
<1>5. CASE Rewrite
  <2>1. PICK pass \in {"fuse", "dce", "grad"} :
          /\ Applies(pass)
          /\ pass = "fuse" => graph' = ElementwiseFusion(graph) /\ meaning' = meaning
          /\ pass = "dce" => graph' = DeadCodeElimination(graph) /\ meaning' = meaning
          /\ pass = "grad" => meaning' = Outcome(graph')
    BY <1>5 DEF Rewrite, Fuse, Eliminate, Differentiate
  <2>2. Last(passes') = pass /\ phase = "passes" /\ phase' = "passes"
    BY <1>1, <2>1, OneMorePass
  <2>3. CASE pass = "grad"
    BY <2>1, <2>3 DEF Meant
  <2>4. CASE pass # "grad"
    <3> SUFFICES ASSUME meaning' # << >> PROVE Outcome(graph') = meaning'
      BY DEF Meant
    <3>1. meaning' = meaning /\ Outcome(graph) = meaning
      BY <2>1, <2>2, <2>4 DEF Meant
    <3>2. Runs(graph)
      BY <3>1, OutcomeIs
    <3>3. RunsOn(graph, Arguments(graph)) /\ Numeric(graph, RunValues(graph))
      BY <1>1, <2>2, <3>2, HonestGraphIsNumeric DEF Runs
    <3>4. IsGraph(graph, vocab.arguments)
      BY <1>1, <2>2, SoundGraph
    <3>5. RunsAlike(graph', graph)
      BY <2>1, <2>4, <3>3, <3>4, RewriteRunsAlike
    <3>6. Runs(graph') /\ Run(graph') = Run(graph)
      BY <3>5 DEF RunsAlike, Runs
    <3> QED
      BY <3>1, <3>2, <3>6, OutcomeIs
  <2> QED
    BY <2>3, <2>4
<1>6. CASE StartMetal
  <2>1. phase = "passes" /\ phase' = "metal" /\ graph' = graph /\ meaning' = meaning
    BY <1>6 DEF StartMetal
  <2> QED
    BY <2>1 DEF Meant
<1>7. CASE UNCHANGED pipelineVars
  BY <1>7 DEF Meant, pipelineVars
<1>8. ASSUME NEW i \in DOMAIN graph.nodes, MetalLeaf(i) \/ ExtendChain(i) \/ BeginChain(i) \/ Dispatch(i)
      PROVE  UNCHANGED pipelineVars
  BY <1>8 DEF MetalLeaf, ExtendChain, BeginChain, Dispatch, NextNode
<1>9. CASE MetalReturns \/ MetalRaises
  BY <1>7, <1>9 DEF MetalReturns, MetalRaises
<1>10. CASE UNCHANGED vars
  BY <1>7, <1>10 DEF vars
<1> QED
  BY <1>4, <1>5, <1>6, <1>7, <1>8, <1>9, <1>10 DEF Next, Metal

(* The graph computes what it is to compute after any rewrites, as long as *)
(* shapes are honest, which TLC checks of the operators' tables.           *)
THEOREM MeaningIsKept == Spec /\ []ShapesAreHonest => []Meant
<1>1. Init => Meant
  BY DEF Init, PipelineInit, TraceInit, Meant
<1>2. IInv /\ Meant /\ ShapesAreHonest /\ [Next]_vars => Meant'
  BY StepKeepsMeaning
<1> QED
  BY <1>1, <1>2, GraphsAreSound, PTL DEF Spec

(* Under the same hypothesis, fusion and elimination, in any order, before *)
(* or after grad, leave the value a graph computes as it was               *)
(* (kir.py:409-413).                                                       *)
THEOREM RewritesKeepMeaning == Spec /\ []ShapesAreHonest => []PassesKeepMeaning
<1>1. Meant => PassesKeepMeaning
  BY DEF Meant, PassesKeepMeaning, JustApplied
<1> QED
  BY <1>1, MeaningIsKept, PTL

(***************************************************************************)
(* run_metal: the values it has                                            *)
(***************************************************************************)
LEMMA LinkIs ==
  ASSUME NEW x, NEW step, step.kind \in {"bias_relu", "add_bias"}
  PROVE  Link(x, step) = IF step.kind = "bias_relu" THEN BiasRelu(x, step.bias) ELSE SumOf(x, step.bias)
<1>1. CASE step.kind = "bias_relu"
  <2>1. Link(x, step) = BiasRelu(x, step.bias)
    BY <1>1 DEF Link, BiasRelu, Pairwise, Tensor
  <2> QED
    BY <1>1, <2>1
<1>2. CASE step.kind = "add_bias"
  <2>1. Link(x, step) = SumOf(x, step.bias)
    BY <1>2 DEF Link, SumOf, Pairwise, Tensor
  <2> QED
    BY <1>2, <2>1
<1> QED
  BY <1>1, <1>2

(* A bias addition is a link of the chain it becomes part of.              *)
LEMMA AdditionLinks ==
  ASSUME NEW g, NEW args, IsGraph(g, args), BiasesDiffer(g.nodes), NEW arguments, NEW vals,
         Computes(g, arguments, vals), NEW i \in DOMAIN g.nodes, Adds(g, i),
         NEW step, step.kind = KindOf(g, i), step.bias = vals[g.nodes[i].ins[2]]
  PROVE  Link(vals[g.nodes[i].ins[1]], step) = vals[i]
<1>1. PICK node, v, x, y : /\ node = g.nodes[i] /\ v = OperandValues(node, vals)
                           /\ x = vals[node.ins[1]] /\ y = vals[node.ins[2]]
  OBVIOUS
<1>2. v[1] = x /\ v[2] = y
  <2>1. DOMAIN node.ins = 1..2
    BY <1>1, AddsFacts
  <2>2. 1 \in DOMAIN node.ins /\ 2 \in DOMAIN node.ins
    BY <2>1
  <2> QED
    BY <1>1, <2>2 DEF OperandValues
<1>3. vals[i] = Eval(node, v)
  <2>1. Makes(g, arguments, i, vals, vals[i]) /\ ~IsLeaf(node)
    BY <1>1 DEF Computes, Adds
  <2> QED
    BY <1>1, <2>1 DEF Makes
<1>4. CASE node.op = "fused_bias_relu"
  <2>1. step.kind = "bias_relu"
    BY <1>1, <1>4 DEF KindOf
  <2>2. vals[i] = BiasRelu(x, y)
    BY <1>2, <1>3, <1>4, OperatorsAre DEF Eval
  <2> QED
    BY <1>1, <2>1, <2>2, LinkIs
<1>5. CASE node.op # "fused_bias_relu"
  <2>1. node.op = "add" /\ step.kind = "add_bias"
    BY <1>1, <1>5 DEF Adds, KindOf
  <2>2. vals[i] = SumOf(x, y)
    BY <1>2, <1>3, <2>1, OperatorsAre DEF Eval
  <2> QED
    BY <1>1, <2>1, <2>2, LinkIs
<1> QED
  BY <1>4, <1>5

Linking(c, start, n, result) ==
  result = [k \in 0..n |-> IF k = 0 THEN start ELSE Link(result[k - 1], c[k])]

LEMMA LinkingExists ==
  ASSUME NEW c, NEW start, NEW n \in Nat
  PROVE  \E result : Linking(c, start, n, result)
<1> DEFINE S == {m \in Nat : \E result : Linking(c, start, m, result)}
<1>1. 0 \in S
  <2>1. Linking(c, start, 0, [k \in 0..0 |-> start])
    BY DEF Linking
  <2> QED
    BY <2>1
<1>2. ASSUME NEW m \in Nat, m \in S PROVE m + 1 \in S
  <2>1. PICK f : Linking(c, start, m, f)
    BY <1>2
  <2> DEFINE h == [k \in 0..(m + 1) |-> IF k = m + 1 THEN Link(f[m], c[m + 1]) ELSE f[k]]
  <2>2. ASSUME NEW k \in 0..(m + 1)
        PROVE  h[k] = IF k = 0 THEN start ELSE Link(h[k - 1], c[k])
    <3>1. CASE k = m + 1
      <4>1. k # 0 /\ k - 1 = m /\ m \in 0..(m + 1) /\ m # m + 1
        BY <3>1
      <4>2. h[m] = f[m]
        BY <4>1
      <4>3. h[k] = Link(f[m], c[k])
        BY <3>1
      <4> HIDE DEF h
      <4> QED
        BY <4>1, <4>2, <4>3
    <3>2. CASE k # m + 1
      <4>1. k \in 0..m /\ (k # 0 => k - 1 \in 0..(m + 1) /\ k - 1 # m + 1)
        BY <3>2
      <4>2. h[k] = f[k] /\ (k # 0 => h[k - 1] = f[k - 1])
        BY <3>2, <4>1
      <4>3. f[k] = IF k = 0 THEN start ELSE Link(f[k - 1], c[k])
        BY <2>1, <4>1 DEF Linking
      <4> HIDE DEF h
      <4> QED
        BY <4>2, <4>3
    <3> QED
      BY <3>1, <3>2
  <2>3. h = [k \in 0..(m + 1) |-> IF k = 0 THEN start ELSE Link(h[k - 1], c[k])]
    <3>1. h = [k \in 0..(m + 1) |-> h[k]]
      OBVIOUS
    <3> HIDE DEF h
    <3> QED
      BY <2>2, <3>1
  <2> HIDE DEF h
  <2>4. Linking(c, start, m + 1, h)
    BY <2>3 DEF Linking
  <2> QED
    BY <2>4
<1> HIDE DEF S
<1>3. Nat \subseteq S
  BY <1>1, <1>2, SetInduction
<1> QED
  BY <1>3 DEF S

(* What run_metal has is what run() computes, and the chain is of the      *)
(* additions it stands for.                                                *)
Agrees(g, vals, b) == \A j \in DOMAIN b : j \in DOMAIN g.nodes /\ b[j] = vals[j]

Awaits(g, vals, c) ==
  \A k \in DOMAIN c : /\ c[k].kind = KindOf(g, c[k].node)
                      /\ c[k].bias = vals[g.nodes[c[k].node].ins[2]]

LEMMA ChainIsItsLastValue ==
  ASSUME NEW g, NEW args, IsGraph(g, args), BiasesDiffer(g.nodes), NEW arguments, NEW vals,
         Computes(g, arguments, vals), NEW p, Pending(g, p, bound, chain, chainInput),
         Agrees(g, vals, bound), Awaits(g, vals, chain), chain # << >>, chainInput \in DOMAIN bound
  PROVE  ChainResult = vals[Last(chain).node] /\ Last(chain).node \in DOMAIN g.nodes
<1>1. PICK m \in Nat : m = Len(chain) /\ DOMAIN chain = 1..m /\ m # 0
  BY SequenceIsAFunction, EmptyIfNone DEF Pending
<1> DEFINE f == CHOOSE result : Linking(chain, bound[chainInput], Len(chain), result)
<1>2. ChainResult = f[Len(chain)]
  BY Zenon DEF ChainResult, Linking
<1>3. Linking(chain, bound[chainInput], m, f)
  BY <1>1, LinkingExists
<1> HIDE DEF f
<1>4. PICK c, start : c = chain /\ start = chainInput
  OBVIOUS
<1>5. \A k \in 0..m : f[k] = IF k = 0 THEN vals[start] ELSE Link(f[k - 1], c[k])
  <2>1. bound[chainInput] = vals[start]
    BY <1>4 DEF Agrees
  <2> QED
    BY <1>3, <1>4, <2>1 DEF Linking
<1>6. ASSUME NEW k \in 1..m
      PROVE  /\ c[k].node \in DOMAIN g.nodes /\ Adds(g, c[k].node)
             /\ g.nodes[c[k].node].ins[1] = IF k = 1 THEN start ELSE c[k - 1].node
             /\ c[k].kind = KindOf(g, c[k].node) /\ c[k].bias = vals[g.nodes[c[k].node].ins[2]]
  <2>1. PICK n \in Nat : n = Len(g.nodes) /\ DOMAIN g.nodes = 1..n
    BY GraphFacts
  <2>2. /\ p \in 1..(n + 1) /\ c[k].node \in 1..(p - 1) /\ Adds(g, c[k].node)
        /\ g.nodes[c[k].node].ins[1] = IF k = 1 THEN start ELSE c[k - 1].node
    BY <1>1, <1>4, <2>1 DEF Pending
  <2>3. c[k].node \in DOMAIN g.nodes
    BY <2>1, <2>2
  <2>4. c[k].kind = KindOf(g, c[k].node) /\ c[k].bias = vals[g.nodes[c[k].node].ins[2]]
    BY <1>1, <1>4 DEF Awaits
  <2> QED
    BY <2>2, <2>3, <2>4
<1> DEFINE S == {k \in 0..m : f[k] = IF k = 0 THEN vals[start] ELSE vals[c[k].node]}
<1>7. 0 \in S
  BY <1>5
<1>8. ASSUME NEW k \in 0..(m - 1), k \in S PROVE k + 1 \in S
  <2>1. PICK q \in 1..m : q = k + 1 /\ q - 1 = k
    BY <1>1
  <2>2. PICK i \in DOMAIN g.nodes : i = c[q].node
    BY <1>6, <2>1
  <2>3. f[k] = vals[g.nodes[i].ins[1]]
    <3>1. g.nodes[i].ins[1] = IF q = 1 THEN start ELSE c[q - 1].node
      BY <1>6, <2>1, <2>2
    <3>2. f[k] = IF k = 0 THEN vals[start] ELSE vals[c[k].node]
      BY <1>8
    <3> QED
      BY <2>1, <3>1, <3>2
  <2>4. PICK step : step = c[q]
    OBVIOUS
  <2>5. Adds(g, i) /\ step.kind = KindOf(g, i) /\ step.bias = vals[g.nodes[i].ins[2]]
    BY <1>6, <2>1, <2>2, <2>4
  <2>6. Link(vals[g.nodes[i].ins[1]], step) = vals[i]
    BY <2>5, AdditionLinks
  <2>7. f[q] = Link(f[k], step)
    BY <1>5, <2>1, <2>4
  <2>8. f[q] = vals[c[q].node] /\ q # 0 /\ q \in 0..m
    BY <2>1, <2>2, <2>3, <2>6, <2>7, SMTT(60)
  <2> QED
    BY <2>1, <2>8
<1> HIDE DEF S
<1>9. m \in S
  <2>1. \A k \in 0..m : k \in S
    BY <1>7, <1>8, BoundedInduction
  <2> QED
    BY <2>1
<1>10. f[m] = vals[c[m].node]
  BY <1>1, <1>9 DEF S
<1>11. Last(chain) = c[m]
  BY <1>1, <1>4 DEF Last
<1> QED
  BY <1>1, <1>2, <1>6, <1>10, <1>11

(* ... and so a flush stores what the chain stands for.                    *)
LEMMA FlushedAgrees ==
  ASSUME NEW g, NEW args, IsGraph(g, args), BiasesDiffer(g.nodes), NEW arguments, NEW vals,
         Computes(g, arguments, vals), NEW p, Pending(g, p, bound, chain, chainInput),
         Agrees(g, vals, bound), Awaits(g, vals, chain)
  PROVE  Agrees(g, vals, Flushed)
<1>1. CASE chain = << >> \/ ~CanFlush
  BY <1>1 DEF Flushed
<1>2. CASE chain # << >> /\ CanFlush
  <2>1. PICK x, last : x = ChainResult /\ last = Last(chain).node
    OBVIOUS
  <2>2. x = vals[last] /\ last \in DOMAIN g.nodes
    BY <1>2, <2>1, ChainIsItsLastValue DEF CanFlush
  <2>3. Flushed = [i \in DOMAIN bound \cup {last} |-> IF i = last THEN x ELSE bound[i]]
    BY <1>2, <2>1 DEF Flushed
  <2> QED
    BY <2>2, <2>3 DEF Agrees
<1> QED
  BY <1>1, <1>2

(***************************************************************************)
(* run_metal: every step keeps them                                        *)
(***************************************************************************)
(* What run() makes of a leaf and of an operator.                          *)
LEMMA ValuesAre ==
  ASSUME NEW g, NEW args, IsGraph(g, args), NEW vals, Computes(g, Arguments(g), vals), NEW i \in DOMAIN g.nodes
  PROVE  /\ i \in DOMAIN args => vals[i] = Argument(i, args[i]) /\ g.nodes[i].shape = args[i]
         /\ g.nodes[i].op = "constant" => vals[i] = ConstantValue(g.nodes[i])
         /\ ~IsLeaf(g.nodes[i]) => vals[i] = Eval(g.nodes[i], OperandValues(g.nodes[i], vals))
<1>1. PICK node, arguments : node = g.nodes[i] /\ arguments = Arguments(g)
  OBVIOUS
<1>2. Makes(g, arguments, i, vals, vals[i])
  BY <1>1 DEF Computes
<1>3. ASSUME i \in DOMAIN args
      PROVE  vals[i] = Argument(i, args[i]) /\ node.shape = args[i]
  <2>1. node = Node("placeholder", << >>, args[i], << >>)
    BY <1>1, <1>3, NodeFacts DEF Placed
  <2>2. node.op = "placeholder" /\ node.shape = args[i]
    BY <2>1, NodeFields
  <2>3. vals[i] = arguments[CHOOSE k \in DOMAIN g.inputs : g.inputs[k] = i]
    BY <1>1, <1>2, <2>2 DEF Makes
  <2>4. g.inputs = [k \in DOMAIN args |-> k]
    BY GraphFacts
  <2>5. (CHOOSE k \in DOMAIN g.inputs : g.inputs[k] = i) = i
    BY <1>3, <2>4
  <2>6. arguments = [k \in DOMAIN args |-> Argument(k, args[k])]
    BY <1>1, ArgumentsAre
  <2> QED
    BY <1>3, <2>2, <2>3, <2>5, <2>6
<1>4. node.op = "constant" => vals[i] = ConstantValue(node)
  BY <1>1, <1>2 DEF Makes
<1>5. ~IsLeaf(node) => vals[i] = Eval(node, OperandValues(node, vals))
  BY <1>1, <1>2 DEF Makes
<1> QED
  BY <1>1, <1>3, <1>4, <1>5

(* The graph runs, and the values are right.                               *)
Right(g, b, c) ==
  RunsOn(g, Arguments(g)) => Agrees(g, RunValues(g), b) /\ Awaits(g, RunValues(g), c)

LEMMA FirstIsRight ==
  ASSUME Sound, StartMetal, chain = << >>
  PROVE  Right(graph', bound', chain')
<1>1. /\ phase = "passes" /\ graph' = graph /\ chain' = << >>
      /\ bound' = [i \in ToSet(graph.inputs) |->
                     Argument(CHOOSE k \in DOMAIN graph.inputs : graph.inputs[k] = i, graph.nodes[i].shape)]
  BY DEF StartMetal
<1>2. PICK g, args, b : g = graph /\ args = vocab.arguments /\ b = bound'
  OBVIOUS
<1>3. IsGraph(g, args)
  BY <1>1, <1>2, SoundGraph
<1> SUFFICES ASSUME RunsOn(g, Arguments(g))
             PROVE  Agrees(g, RunValues(g), b) /\ Awaits(g, RunValues(g), << >>)
  BY <1>1, <1>2 DEF Right
<1>4. PICK vals : vals = RunValues(g) /\ Computes(g, Arguments(g), vals)
  BY <1>3, RunIsComputed DEF RunValues
<1>5. g.inputs = [k \in DOMAIN args |-> k]
  BY <1>3, GraphFacts
<1>6. ToSet(g.inputs) = DOMAIN args
  BY <1>5, ZenonT(60) DEF ToSet
<1>7. ASSUME NEW j \in DOMAIN args
      PROVE  j \in DOMAIN g.nodes /\ b[j] = vals[j]
  <2>1. j \in DOMAIN g.nodes
    <3>1. /\ DOMAIN g.nodes = 1..Len(g.nodes) /\ DOMAIN args = 1..Len(args) /\ Len(args) <= Len(g.nodes)
          /\ Len(args) \in Nat /\ Len(g.nodes) \in Nat
      BY <1>3, GraphFacts
    <3> QED
      BY <3>1
  <2>2. (CHOOSE k \in DOMAIN g.inputs : g.inputs[k] = j) = j
    BY <1>5
  <2>3. b[j] = Argument(j, g.nodes[j].shape)
    BY <1>1, <1>2, <1>6, <2>2
  <2> QED
    BY <1>3, <1>4, <2>1, <2>3, ValuesAre
<1>8. DOMAIN b = DOMAIN args
  BY <1>1, <1>2, <1>6
<1>9. Awaits(g, vals, << >>)
  BY NothingIsThere DEF Awaits
<1> QED
  BY <1>4, <1>7, <1>8, <1>9 DEF Agrees

LEMMA TurnIsRight ==
  ASSUME Sound, phase = "metal", Pending(graph, pos, bound, chain, chainInput), Right(graph, bound, chain),
         NEW i \in DOMAIN graph.nodes, MetalLeaf(i) \/ ExtendChain(i) \/ BeginChain(i) \/ Dispatch(i)
  PROVE  Right(graph', bound', chain')
<1>1. i = pos /\ graph' = graph
  BY DEF MetalLeaf, ExtendChain, BeginChain, Dispatch, Turn, NextNode, pipelineVars
<1>2. PICK g, args, b, c : g = graph /\ args = vocab.arguments /\ b = bound /\ c = chain
  OBVIOUS
<1>3. IsGraph(g, args) /\ BiasesDiffer(g.nodes)
  BY <1>2, SoundGraph
<1> SUFFICES ASSUME RunsOn(g, Arguments(g))
             PROVE  Agrees(g, RunValues(g), bound') /\ Awaits(g, RunValues(g), chain')
  BY <1>1, <1>2 DEF Right
<1>4. PICK vals : vals = RunValues(g) /\ Computes(g, Arguments(g), vals)
  BY <1>3, RunIsComputed DEF RunValues
<1>5. Agrees(g, vals, b) /\ Awaits(g, vals, c)
  BY <1>2, <1>4 DEF Right
<1>6. PICK p, node : p \in DOMAIN g.nodes /\ p = i /\ node = g.nodes[p]
  BY <1>2
<1>7. CASE MetalLeaf(i)
  <2>1. /\ chain' = c
        /\ bound' = IF node.op = "constant" THEN With(b, p, ConstantValue(node)) ELSE b
    BY <1>2, <1>6, <1>7 DEF MetalLeaf
  <2>2. node.op = "constant" => vals[p] = ConstantValue(node)
    BY <1>3, <1>4, <1>6, ValuesAre
  <2>3. Agrees(g, vals, bound')
    BY <1>5, <1>6, <2>1, <2>2 DEF Agrees, With
  <2> QED
    BY <1>4, <1>5, <2>1, <2>3
<1>8. PICK flushed : flushed = Flushed /\ Agrees(g, vals, flushed)
  BY <1>2, <1>3, <1>4, <1>5, FlushedAgrees
<1>9. ASSUME NEW d, Agrees(g, vals, d), node.ins[2] \in DOMAIN d
      PROVE  /\ Step(i, d).node = p /\ Step(i, d).kind = KindOf(g, p) /\ Step(i, d).bias = vals[node.ins[2]]
  <2>1. d[node.ins[2]] = vals[node.ins[2]]
    BY <1>9 DEF Agrees
  <2> QED
    BY <1>2, <1>6, <2>1, KindIs DEF Step
<1>10. CASE ExtendChain(i)
  <2>1. chain' = Append(c, Step(i, b)) /\ bound' = b /\ node.ins[2] \in DOMAIN b
    BY <1>2, <1>6, <1>10 DEF ExtendChain
  <2>2. PICK step : /\ step = Step(i, b)
                    /\ step.node = p /\ step.kind = KindOf(g, p) /\ step.bias = vals[g.nodes[p].ins[2]]
    BY <1>5, <1>6, <1>9, <2>1
  <2>3. PICK m, d : m = Len(c) /\ d = Append(c, step)
    OBVIOUS
  <2>4. /\ DOMAIN c = 1..m /\ m \in Nat /\ DOMAIN d = 1..(m + 1)
        /\ \A k \in 1..(m + 1) : d[k] = IF k = m + 1 THEN step ELSE c[k]
    <3>1. IsSequence(c)
      BY <1>2 DEF Pending
    <3> QED
      BY <2>3, <3>1, AppendToAnything, SequenceIsAFunction
  <2>5. ASSUME NEW k \in DOMAIN d
        PROVE  d[k].kind = KindOf(g, d[k].node) /\ d[k].bias = vals[g.nodes[d[k].node].ins[2]]
    <3>1. CASE k = m + 1
      BY <2>2, <2>4, <3>1
    <3>2. CASE k # m + 1
      <4>1. k \in DOMAIN c /\ d[k] = c[k]
        BY <2>4, <3>2
      <4> QED
        BY <1>5, <4>1 DEF Awaits
    <3> QED
      BY <3>1, <3>2
  <2>6. Awaits(g, vals, d)
    BY <2>5 DEF Awaits
  <2> QED
    BY <1>4, <1>5, <2>1, <2>2, <2>3, <2>6
<1>11. CASE BeginChain(i)
  <2>1. chain' = <<Step(i, flushed)>> /\ bound' = flushed /\ node.ins[2] \in DOMAIN flushed
    BY <1>2, <1>6, <1>8, <1>11 DEF BeginChain
  <2>2. PICK step : /\ step = Step(i, flushed)
                    /\ step.node = p /\ step.kind = KindOf(g, p) /\ step.bias = vals[g.nodes[p].ins[2]]
    BY <1>6, <1>8, <1>9, <2>1
  <2>3. PICK d : d = <<step>> /\ DOMAIN d = 1..1 /\ d[1] = step
    BY OneIsASequence, SequenceIsAFunction
  <2>4. Awaits(g, vals, d)
    BY <2>2, <2>3 DEF Awaits
  <2> QED
    BY <1>4, <1>8, <2>1, <2>2, <2>3, <2>4
<1>12. CASE Dispatch(i)
  <2>1. /\ chain' = << >> /\ ~IsLeaf(node) /\ Operands(node) \subseteq DOMAIN flushed
        /\ bound' = With(flushed, p, Eval(node, [k \in DOMAIN node.ins |-> flushed[node.ins[k]]]))
    BY <1>2, <1>6, <1>8, <1>12 DEF Dispatch, Given
  <2>2. ASSUME NEW k \in DOMAIN node.ins PROVE flushed[node.ins[k]] = vals[node.ins[k]]
    <3>1. node.ins[k] \in DOMAIN flushed
      BY <2>1 DEF Operands
    <3> QED
      BY <1>8, <3>1 DEF Agrees
  <2>3. [k \in DOMAIN node.ins |-> flushed[node.ins[k]]] = OperandValues(node, vals)
    BY <2>2 DEF OperandValues
  <2>4. bound' = With(flushed, p, vals[p])
    BY <1>3, <1>4, <1>6, <2>1, <2>3, ValuesAre
  <2>5. Agrees(g, vals, bound')
    BY <1>6, <1>8, <2>4 DEF Agrees, With
  <2>6. Awaits(g, vals, << >>)
    BY NothingIsThere DEF Awaits
  <2> QED
    BY <1>4, <2>1, <2>5, <2>6
<1> QED
  BY <1>7, <1>10, <1>11, <1>12

(* As long as run_metal runs, what it has is right, and so is what it      *)
(* returns, if the graph runs at all.                                      *)
MetalComputesRun ==
  outcome = "returned" /\ RunsOn(graph, Arguments(graph)) => bound[graph.output] = Run(graph)

(* ... and when it raises, the graph does not run, or a bias addition is   *)
(* read besides the one that continues it.                                 *)
RaisesRetaken ==
  outcome = "raised" /\ RunsOn(graph, Arguments(graph)) => Retaken(graph)

RInv ==
  /\ MInv /\ (outcome = "running" => Right(graph, bound, chain))
  /\ MetalComputesRun /\ RaisesRetaken

(* No operator raises of a graph that runs.                                *)
LEMMA RefusedStops ==
  ASSUME Sound, phase = "metal", Pending(graph, pos, bound, chain, chainInput), Right(graph, bound, chain),
         RunsOn(graph, Arguments(graph)), Refused
  PROVE  FALSE
<1>1. PICK g, args, p, node : g = graph /\ args = vocab.arguments /\ p = pos /\ node = g.nodes[p]
  OBVIOUS
<1>2. IsGraph(g, args) /\ BiasesDiffer(g.nodes)
  BY <1>1, SoundGraph
<1>3. PICK vals : vals = RunValues(g) /\ Computes(g, Arguments(g), vals)
  BY <1>1, <1>2, RunIsComputed DEF RunValues
<1>4. Agrees(g, vals, bound) /\ Awaits(g, vals, chain)
  BY <1>1, <1>3 DEF Right
<1>5. PICK flushed : flushed = Flushed /\ Agrees(g, vals, flushed)
  BY <1>1, <1>2, <1>3, <1>4, FlushedAgrees
<1>6. PICK n \in Nat : n = Len(g.nodes) /\ DOMAIN g.nodes = 1..n
  BY <1>2, GraphFacts
<1>7. /\ p \in DOMAIN g.nodes /\ ~IsLeaf(node) /\ Kind(pos) = "none" /\ ~Missing
      /\ ~Fits(node, [k \in DOMAIN node.ins |-> flushed[node.ins[k]]])
  BY <1>1, <1>5 DEF Refused, Given
<1>8. Operands(node) \subseteq DOMAIN flushed
  <2>1. ~(p > n)
    BY <1>6, <1>7
  <2> QED
    BY <1>1, <1>5, <1>6, <1>7, <2>1 DEF Missing
<1>9. ASSUME NEW k \in DOMAIN node.ins PROVE flushed[node.ins[k]] = vals[node.ins[k]]
  <2>1. node.ins[k] \in DOMAIN flushed
    BY <1>8 DEF Operands
  <2> QED
    BY <1>5, <2>1 DEF Agrees
<1>10. [k \in DOMAIN node.ins |-> flushed[node.ins[k]]] = OperandValues(node, vals)
  BY <1>9 DEF OperandValues
<1>11. Fits(node, OperandValues(node, vals))
  <2>1. Makes(g, Arguments(g), p, vals, vals[p])
    BY <1>3, <1>7 DEF Computes
  <2> QED
    BY <1>1, <1>7, <2>1 DEF Makes
<1> QED
  BY <1>7, <1>10, <1>11

LEMMA MetalStepIsRight ==
  ASSUME RInv, [Next]_vars
  PROVE  RInv'
<1>1. MInv /\ Sound /\ MetalHeld
  BY DEF RInv, MInv, IInv
<1>2. MInv'
  BY <1>1, MetalStepHolds
<1>3. ASSUME outcome = "running"
      PROVE  phase = "metal" /\ Pending(graph, pos, bound, chain, chainInput) /\ Right(graph, bound, chain)
  BY <1>1, <1>3 DEF MetalHeld, RInv
<1>4. CASE (Tracing \/ Rewrite) /\ UNCHANGED metalVars
  <2>1. phase # "metal"
    BY <1>1, <1>4, TraceGoes DEF Tracing, Goes, Rewrite, Fuse, Eliminate, Differentiate, Applies
  <2>2. outcome = "idle" /\ outcome' = outcome
    BY <1>1, <1>4, <2>1 DEF MetalHeld, metalVars
  <2> QED
    BY <1>2, <2>2 DEF RInv, MetalComputesRun, RaisesRetaken
<1>5. CASE StartMetal
  <2>1. phase = "passes" /\ outcome' = "running"
    BY <1>5 DEF StartMetal
  <2>2. chain = << >>
    BY <1>1, <2>1 DEF MetalHeld
  <2>3. Right(graph', bound', chain')
    BY <1>1, <1>5, <2>2, FirstIsRight
  <2> QED
    BY <1>2, <2>1, <2>3 DEF RInv, MetalComputesRun, RaisesRetaken
<1>6. ASSUME NEW i \in DOMAIN graph.nodes, MetalLeaf(i) \/ ExtendChain(i) \/ BeginChain(i) \/ Dispatch(i)
      PROVE  RInv'
  <2>1. outcome = "running" /\ outcome' = "running"
    BY <1>6 DEF MetalLeaf, ExtendChain, BeginChain, Dispatch, Turn, NextNode
  <2>2. Right(graph', bound', chain')
    BY <1>1, <1>3, <1>6, <2>1, TurnIsRight
  <2> QED
    BY <1>2, <2>1, <2>2 DEF RInv, MetalComputesRun, RaisesRetaken
<1>7. CASE MetalReturns
  <2>1. /\ outcome = "running" /\ outcome' = "returned" /\ graph' = graph /\ bound' = Flushed
        /\ graph.output \in DOMAIN Flushed
    BY <1>7 DEF MetalReturns, pipelineVars
  <2>2. ASSUME RunsOn(graph, Arguments(graph)) PROVE bound'[graph.output] = Run(graph)
    <3>1. PICK g, args : g = graph /\ args = vocab.arguments
      OBVIOUS
    <3>2. IsGraph(g, args) /\ BiasesDiffer(g.nodes)
      BY <1>1, <1>3, <2>1, <3>1, SoundGraph
    <3>3. PICK vals : vals = RunValues(g) /\ Computes(g, Arguments(g), vals)
      BY <2>2, <3>1, <3>2, RunIsComputed DEF RunValues
    <3>4. Agrees(g, vals, bound) /\ Awaits(g, vals, chain) /\ Pending(g, pos, bound, chain, chainInput)
      BY <1>3, <2>1, <2>2, <3>1, <3>3 DEF Right
    <3>5. Agrees(g, vals, Flushed)
      BY <3>2, <3>3, <3>4, FlushedAgrees
    <3>6. bound'[g.output] = vals[g.output]
      BY <2>1, <3>1, <3>5 DEF Agrees
    <3> QED
      BY <3>1, <3>3, <3>6 DEF Run, RunOn, RunValues
  <2> QED
    BY <1>2, <2>1, <2>2 DEF RInv, MetalComputesRun, RaisesRetaken
<1>8. CASE MetalRaises
  <2>1. outcome = "running" /\ outcome' = "raised" /\ graph' = graph /\ (Missing \/ Refused)
    BY <1>8 DEF MetalRaises, pipelineVars
  <2>2. ASSUME RunsOn(graph, Arguments(graph)) PROVE Retaken(graph)
    BY <1>1, <1>3, <2>1, <2>2, MissingIsRetaken, RefusedStops
  <2> QED
    BY <1>2, <2>1, <2>2 DEF RInv, MetalComputesRun, RaisesRetaken
<1>9. CASE UNCHANGED vars
  <2>1. outcome' = outcome /\ graph' = graph /\ bound' = bound /\ chain' = chain
    BY <1>9 DEF vars, pipelineVars, metalVars
  <2> QED
    BY <1>2, <2>1 DEF RInv, MetalComputesRun, RaisesRetaken
<1> QED
  BY <1>4, <1>5, <1>6, <1>7, <1>8, <1>9 DEF Next, Metal

(* Every value run_metal has is the one run() computes for that node, and  *)
(* every link of the pending chain has the kind and the bias of its node.  *)
THEOREM MetalValuesAreRight == Spec => []RInv
<1>1. Init => RInv
  <2>1. Init => MInv
    <3>1. Init => IInv
      BY StartIsSound
    <3>2. Init => MetalHeld
      BY DEF Init, MetalHeld
    <3> QED
      BY <3>1, <3>2 DEF MInv
  <2>2. Init => outcome = "idle"
    BY DEF Init
  <2> QED
    BY <2>1, <2>2 DEF RInv, MetalComputesRun, RaisesRetaken
<1>2. RInv /\ [Next]_vars => RInv'
  BY MetalStepIsRight
<1> QED
  BY <1>1, <1>2, PTL DEF Spec

(* run_metal returns what run() returns for every graph that runs, with no *)
(* further hypothesis: chains are sent in order, before anything reads     *)
(* them, with the biases they were given (kir.py:1587-1593).               *)
THEOREM MetalIsTheReference == Spec => []MetalComputesRun
<1>1. RInv => MetalComputesRun
  BY DEF RInv
<1> QED
  BY <1>1, MetalValuesAreRight, PTL

(* run_metal raises for no other reason, where the graph runs, than a bias *)
(* addition that another one continues and that is read a second time      *)
(* (kir.py:1660-1667).                                                     *)
THEOREM OnlyChainsMakeMetalRaise == Spec => []MetalRaisesOnlyOnChains
<1>1. RInv => MetalRaisesOnlyOnChains
  <2> SUFFICES ASSUME RInv, outcome = "raised", Runs(graph)
               PROVE  \E i \in DOMAIN graph.nodes : ReadBesidesItsChain(i)
    BY DEF MetalRaisesOnlyOnChains
  <2>1. PICK i \in DOMAIN graph.nodes :
          /\ Adds(graph, i)
          /\ \E j \in DOMAIN graph.nodes :
               Adds(graph, j) /\ graph.nodes[j].ins[1] = i /\ Consumers(graph, i) \ {j} # {}
    BY DEF RInv, RaisesRetaken, Runs, Retaken
  <2>2. PICK j \in DOMAIN graph.nodes :
          Adds(graph, j) /\ graph.nodes[j].ins[1] = i /\ Consumers(graph, i) \ {j} # {}
    BY <2>1
  <2>3. /\ ~IsLeaf(graph.nodes[i]) /\ Kind(i) # "none"
        /\ ~IsLeaf(graph.nodes[j]) /\ Kind(j) # "none"
    BY <2>1, <2>2, KindIs DEF Adds
  <2>4. ReadBesidesItsChain(i)
    BY <2>2, <2>3 DEF ReadBesidesItsChain
  <2> QED
    BY <2>4
<1> QED
  BY <1>1, MetalValuesAreRight, PTL

(* Under the same hypothesis run_metal, when it returns, returns the value *)
(* of the graph that was traced, or of its gradient program, whatever      *)
(* rewrites came between (kir.py:1587-1593).                               *)
THEOREM MetalKeepsMeaning == Spec /\ []ShapesAreHonest => []MetalMatchesRun
<1>1. RInv /\ Meant => MetalMatchesRun
  <2> SUFFICES ASSUME RInv, Meant, outcome = "returned", meaning # << >>
               PROVE  <<bound[graph.output]>> = meaning
    BY DEF MetalMatchesRun
  <2>1. phase = "metal"
    BY DEF RInv, MInv, MetalHeld
  <2>2. Outcome(graph) = meaning /\ Runs(graph) /\ Outcome(graph) = <<Run(graph)>>
    BY <2>1, OutcomeIs DEF Meant
  <2> QED
    BY <2>2 DEF RInv, MetalComputesRun, Runs
<1> QED
  BY <1>1, MetalValuesAreRight, MeaningIsKept, PTL

(* A step of fusion or elimination from a graph that runs on tensors leads  *)
(* to one that runs and returns the same.                                  *)
RewritesKeepTheValue ==
  Fuse \/ Eliminate =>
    (RunsOn(graph, Arguments(graph)) /\ Numeric(graph, RunValues(graph)) => RunsAlike(graph', graph))

(* No step of fusion or elimination changes the value of a graph that runs *)
(* on tensors: with no hypothesis on the vocabulary, on grad or on the     *)
(* shapes recorded.                                                        *)
THEOREM RewritesRunAlike == Spec => [][RewritesKeepTheValue]_vars
<1>1. IInv => RewritesKeepTheValue
  <2> SUFFICES ASSUME IInv, Fuse \/ Eliminate, RunsOn(graph, Arguments(graph)), Numeric(graph, RunValues(graph))
               PROVE  RunsAlike(graph', graph)
    BY DEF RewritesKeepTheValue
  <2>1. Sound /\ phase = "passes"
    BY DEF IInv, Fuse, Eliminate, Applies
  <2>2. IsGraph(graph, vocab.arguments)
    BY <2>1, SoundGraph
  <2>3. graph' = ElementwiseFusion(graph) \/ graph' = DeadCodeElimination(graph)
    BY DEF Fuse, Eliminate
  <2> QED
    BY <2>2, <2>3, RewriteRunsAlike
<1>2. IInv /\ [Next]_vars => [RewritesKeepTheValue]_vars
  BY <1>1
<1> QED
  BY <1>2, GraphsAreSound, PTL DEF Spec
==============================================================================
