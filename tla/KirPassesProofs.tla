--------------------------- MODULE KirPassesProofs ---------------------------
(***************************************************************************)
(* What dead_code_elimination and elementwise_fusion make of a graph, for  *)
(* every graph: another graph, with the same placeholders, whose nodes     *)
(* follow those they stand for, so that it computes the same value; fusion *)
(* leaves no pair that has a kernel and a single reader.                   *)
(***************************************************************************)
EXTENDS KirPasses, TensorProofs, FiniteSetTheorems

(***************************************************************************)
(* Graphs                                                                  *)
(***************************************************************************)
(* How many operands an operator may have, where anything depends on it.   *)
Arity(op) ==
  CASE op \in {"placeholder", "constant"} -> {0}
    [] op \in {"add", "sub", "mul", "matmul", "gt", "lt", "eq",
               "fused_bias_relu", "fused_sub_square"} -> {2}
    [] op \in Unary \cup {"sum", "mean", "sum_dim", "max_dim", "reshape", "transpose", "slice",
                          "index_select"} -> {1}
    [] op = "conv2d" -> {3}
    [] OTHER -> Nat

Reads(ins, n) == IsSequence(ins) /\ \A k \in DOMAIN ins : ins[k] \in 1..n

(* A node that reads some of the first n.                                  *)
NodeAfter(node, n) ==
  /\ node = Node(node.op, node.ins, node.shape, node.attrs)
  /\ Reads(node.ins, n) /\ Len(node.ins) \in Arity(node.op)

(* The first nodes are the placeholders, of these shapes.                  *)
Placed(node, i, arguments) ==
  IF i \in DOMAIN arguments THEN node = Node("placeholder", << >>, arguments[i], << >>)
  ELSE node.op # "placeholder"

AreNodes(ns, arguments) ==
  /\ IsSequence(ns) /\ IsSequence(arguments) /\ Len(arguments) <= Len(ns)
  /\ \A i \in DOMAIN ns : NodeAfter(ns[i], i - 1) /\ Placed(ns[i], i, arguments)

IsGraph(g, arguments) ==
  /\ g = [nodes |-> g.nodes, inputs |-> [k \in DOMAIN arguments |-> k], output |-> g.output]
  /\ AreNodes(g.nodes, arguments) /\ g.output \in DOMAIN g.nodes

LEMMA NodeFields ==
  ASSUME NEW op, NEW ins, NEW shape, NEW attrs, NEW x
  PROVE  /\ Node(op, ins, shape, attrs).op = op /\ Node(op, ins, shape, attrs).ins = ins
         /\ Node(op, ins, shape, attrs).shape = shape /\ Node(op, ins, shape, attrs).attrs = attrs
         /\ [Node(op, ins, shape, attrs) EXCEPT !.ins = x] = Node(op, x, shape, attrs)
BY DEF Node

LEMMA GraphFacts ==
  ASSUME NEW g, NEW arguments, IsGraph(g, arguments)
  PROVE  /\ g.inputs = [k \in DOMAIN arguments |-> k] /\ AreNodes(g.nodes, arguments)
         /\ IsSequence(g.nodes) /\ Len(g.nodes) \in Nat /\ DOMAIN g.nodes = 1..Len(g.nodes)
         /\ IsSequence(arguments) /\ Len(arguments) \in Nat /\ DOMAIN arguments = 1..Len(arguments)
         /\ Len(arguments) <= Len(g.nodes) /\ g.output \in 1..Len(g.nodes)
<1>1. g.inputs = [k \in DOMAIN arguments |-> k] /\ AreNodes(g.nodes, arguments)
  BY DEF IsGraph
<1>2. IsSequence(g.nodes) /\ IsSequence(arguments)
  BY <1>1 DEF AreNodes
<1>3. /\ Len(g.nodes) \in Nat /\ DOMAIN g.nodes = 1..Len(g.nodes)
      /\ Len(arguments) \in Nat /\ DOMAIN arguments = 1..Len(arguments)
  BY <1>2, SequenceIsAFunction
<1> QED
  BY <1>1, <1>2, <1>3 DEF AreNodes, IsGraph

LEMMA NodeFacts ==
  ASSUME NEW g, NEW arguments, IsGraph(g, arguments), NEW i \in DOMAIN g.nodes
  PROVE  /\ g.nodes[i] = Node(g.nodes[i].op, g.nodes[i].ins, g.nodes[i].shape, g.nodes[i].attrs)
         /\ IsSequence(g.nodes[i].ins) /\ DOMAIN g.nodes[i].ins = 1..Len(g.nodes[i].ins)
         /\ Len(g.nodes[i].ins) \in Nat /\ Len(g.nodes[i].ins) \in Arity(g.nodes[i].op)
         /\ \A k \in DOMAIN g.nodes[i].ins :
              g.nodes[i].ins[k] \in 1..(i - 1) /\ g.nodes[i].ins[k] \in DOMAIN g.nodes
         /\ Placed(g.nodes[i], i, arguments)
         /\ i \in Nat \ {0} /\ i \in 1..Len(g.nodes)
<1>1. NodeAfter(g.nodes[i], i - 1) /\ Placed(g.nodes[i], i, arguments)
  BY DEF IsGraph, AreNodes
<1>2. PICK ins : ins = g.nodes[i].ins
  OBVIOUS
<1>3. IsSequence(ins) /\ \A k \in DOMAIN ins : ins[k] \in 1..(i - 1)
  BY <1>1, <1>2 DEF NodeAfter, Reads
<1>4. DOMAIN ins = 1..Len(ins) /\ Len(ins) \in Nat
  BY <1>3, SequenceIsAFunction
<1>5. DOMAIN g.nodes = 1..Len(g.nodes) /\ Len(g.nodes) \in Nat
  BY GraphFacts
<1>6. \A k \in DOMAIN ins : ins[k] \in DOMAIN g.nodes
  BY <1>3, <1>5
<1>7. g.nodes[i] = Node(g.nodes[i].op, ins, g.nodes[i].shape, g.nodes[i].attrs) /\ Len(ins) \in Arity(g.nodes[i].op)
  BY <1>1, <1>2 DEF NodeAfter
<1> QED
  BY <1>1, <1>2, <1>3, <1>4, <1>5, <1>6, <1>7

(***************************************************************************)
(* run(): the values it computes                                           *)
(***************************************************************************)
OperandValues(node, vals) == [k \in DOMAIN node.ins |-> vals[node.ins[k]]]

(* What run() makes of node n, when it has those before.                   *)
Makes(g, arguments, n, vals, value) ==
  LET node == g.nodes[n]
  IN  /\ node.op = "placeholder" => value = arguments[CHOOSE k \in DOMAIN g.inputs : g.inputs[k] = n]
      /\ node.op = "constant" => value = ConstantValue(node)
      /\ ~IsLeaf(node) =>
           /\ Fits(node, OperandValues(node, vals))
           /\ value = Eval(node, OperandValues(node, vals))

(* The values of all nodes, none of which raises.                          *)
Computes(g, arguments, vals) ==
  /\ IsSequence(vals) /\ Len(vals) = Len(g.nodes)
  /\ \A n \in DOMAIN g.nodes : Makes(g, arguments, n, vals, vals[n])

Valuing(g, arguments, n, value) ==
  value = [m \in 0..n |->
             IF m = 0 THEN << >>
             ELSE CHOOSE after \in {WithNode(g, arguments, m, before) : before \in {value[m - 1]}} : TRUE]

LEMMA NextValues ==
  ASSUME NEW g, NEW arguments, NEW m, NEW before
  PROVE  (CHOOSE after \in {WithNode(g, arguments, m, b) : b \in {before}} : TRUE)
           = WithNode(g, arguments, m, before)
<1>1. {WithNode(g, arguments, m, b) : b \in {before}} = {WithNode(g, arguments, m, before)}
  OBVIOUS
<1> QED
  BY <1>1

LEMMA ValuingExists ==
  ASSUME NEW g, NEW arguments, NEW n \in Nat
  PROVE  \E value : Valuing(g, arguments, n, value)
<1> DEFINE S == {m \in Nat : \E value : Valuing(g, arguments, m, value)}
<1>1. 0 \in S
  <2>1. Valuing(g, arguments, 0, [m \in 0..0 |-> << >>])
    BY DEF Valuing
  <2> QED
    BY <2>1
<1>2. ASSUME NEW m \in Nat, m \in S PROVE m + 1 \in S
  <2>1. PICK f : Valuing(g, arguments, m, f)
    BY <1>2
  <2> DEFINE next(k, before) == CHOOSE after \in {WithNode(g, arguments, k, b) : b \in {before}} : TRUE
  <2> DEFINE h == [k \in 0..(m + 1) |-> IF k = m + 1 THEN next(m + 1, f[m]) ELSE f[k]]
  <2>2. ASSUME NEW k \in 0..(m + 1)
        PROVE  h[k] = IF k = 0 THEN << >> ELSE next(k, h[k - 1])
    <3>1. CASE k = m + 1
      <4>1. k # 0 /\ k - 1 = m /\ m \in 0..(m + 1) /\ m # m + 1
        BY <3>1
      <4>2. h[m] = f[m]
        BY <4>1
      <4>3. h[k] = next(k, f[m])
        BY <3>1
      <4> HIDE DEF h, next
      <4> QED
        BY <4>1, <4>2, <4>3
    <3>2. CASE k # m + 1
      <4>1. k \in 0..m /\ (k # 0 => k - 1 \in 0..(m + 1) /\ k - 1 # m + 1)
        BY <3>2
      <4>2. h[k] = f[k] /\ (k # 0 => h[k - 1] = f[k - 1])
        BY <3>2, <4>1
      <4>3. f[k] = IF k = 0 THEN << >> ELSE next(k, f[k - 1])
        BY <2>1, <4>1 DEF Valuing
      <4> HIDE DEF h, next
      <4> QED
        BY <4>2, <4>3
    <3> QED
      BY <3>1, <3>2
  <2>3. h = [k \in 0..(m + 1) |-> IF k = 0 THEN << >> ELSE next(k, h[k - 1])]
    <3>1. h = [k \in 0..(m + 1) |-> h[k]]
      OBVIOUS
    <3> HIDE DEF h, next
    <3> QED
      BY <2>2, <3>1
  <2>4. Valuing(g, arguments, m + 1, h)
    BY <2>3 DEF Valuing
  <2> HIDE DEF h
  <2> QED
    BY <2>4
<1> HIDE DEF S
<1>3. n \in S
  BY <1>1, <1>2, SetInduction
<1> QED
  BY <1>3 DEF S

LEMMA ValuesUnfold ==
  ASSUME NEW g, NEW arguments, NEW n \in Nat, n = Len(g.nodes)
  PROVE  \E value :
           /\ ValuesOn(g, arguments) = value[n] /\ value[0] = << >>
           /\ \A m \in 1..n : value[m] = WithNode(g, arguments, m, value[m - 1])
<1> DEFINE f == CHOOSE value : Valuing(g, arguments, Len(g.nodes), value)
<1>1. ValuesOn(g, arguments) = f[Len(g.nodes)]
  BY Zenon DEF ValuesOn, Valuing
<1>2. Valuing(g, arguments, n, f)
  BY ValuingExists
<1> HIDE DEF f
<1>3. f[0] = << >>
  BY <1>2 DEF Valuing
<1>4. ASSUME NEW m \in 1..n PROVE f[m] = WithNode(g, arguments, m, f[m - 1])
  <2>1. f[m] = CHOOSE after \in {WithNode(g, arguments, m, b) : b \in {f[m - 1]}} : TRUE
    <3>1. m \in 0..n /\ m # 0
      OBVIOUS
    <3> QED
      BY <3>1, <1>2 DEF Valuing
  <2> QED
    BY <2>1, NextValues
<1> QED
  BY <1>1, <1>3, <1>4

Ran(g, arguments, n, before, after) ==
  after = before \/ \E x : Makes(g, arguments, n, before, x) /\ after = Append(before, x)

LEMMA NodeRuns ==
  ASSUME NEW g, NEW arguments, NEW n \in Nat, NEW before, Len(before) = n - 1
  PROVE  /\ Ran(g, arguments, n, before, WithNode(g, arguments, n, before))
         /\ \A x : Makes(g, arguments, n, before, x) => WithNode(g, arguments, n, before) = Append(before, x)
<1> SUFFICES /\ \A x : Makes(g, arguments, n, before, x) => WithNode(g, arguments, n, before) = Append(before, x)
             /\ \/ WithNode(g, arguments, n, before) = before
                \/ \E x : /\ Makes(g, arguments, n, before, x)
                          /\ WithNode(g, arguments, n, before) = Append(before, x)
  BY DEF Ran
<1> DEFINE node == g.nodes[n]
<1> DEFINE v == OperandValues(node, before)
<1> DEFINE argument == arguments[CHOOSE k \in DOMAIN g.inputs : g.inputs[k] = n]
<1>1. ~ (Len(before) < n - 1)
  OBVIOUS
<1>2. WithNode(g, arguments, n, before)
        = CASE node.op = "placeholder" -> Append(before, argument)
            [] node.op = "constant" -> Append(before, ConstantValue(node))
            [] OTHER -> IF Fits(node, v) THEN Append(before, Eval(node, v)) ELSE before
  BY <1>1 DEF WithNode, OperandValues
<1>3. \A x : Makes(g, arguments, n, before, x) <=>
        /\ node.op = "placeholder" => x = argument
        /\ node.op = "constant" => x = ConstantValue(node)
        /\ node.op \notin {"placeholder", "constant"} => Fits(node, v) /\ x = Eval(node, v)
  BY DEF Makes, IsLeaf
<1> HIDE DEF node, v, argument
<1>4. CASE node.op = "placeholder"
  <2>1. WithNode(g, arguments, n, before) = Append(before, argument)
    BY <1>1, <1>2, <1>4
  <2> QED
    BY <2>1, <1>3, <1>4
<1>5. CASE node.op = "constant"
  <2>1. WithNode(g, arguments, n, before) = Append(before, ConstantValue(node))
    BY <1>1, <1>2, <1>5
  <2> QED
    BY <2>1, <1>3, <1>5
<1>6. CASE node.op \notin {"placeholder", "constant"}
  <2>1. WithNode(g, arguments, n, before) = IF Fits(node, v) THEN Append(before, Eval(node, v)) ELSE before
    BY <1>1, <1>2, <1>6
  <2> QED
    BY <2>1, <1>3, <1>6
<1> QED
  BY <1>4, <1>5, <1>6

LEMMA StoppedRun ==
  ASSUME NEW g, NEW arguments, NEW n \in Nat, NEW before, Len(before) < n - 1
  PROVE  WithNode(g, arguments, n, before) = before
BY DEF WithNode

(* A node reads earlier ones only.                                         *)
LEMMA MakesFromAgreeing ==
  ASSUME NEW g, NEW shapes, IsGraph(g, shapes), NEW arguments, NEW n \in DOMAIN g.nodes,
         NEW a, NEW b, \A j \in 1..(n - 1) : a[j] = b[j], NEW x, Makes(g, arguments, n, a, x)
  PROVE  Makes(g, arguments, n, b, x)
<1>1. \A k \in DOMAIN g.nodes[n].ins : g.nodes[n].ins[k] \in 1..(n - 1)
  BY NodeFacts
<1>2. OperandValues(g.nodes[n], a) = OperandValues(g.nodes[n], b)
  BY <1>1 DEF OperandValues
<1> QED
  BY <1>2 DEF Makes

(* The values so far are the first values of all.                          *)
Prefix(vals, n) == [j \in 1..n |-> vals[j]]

LEMMA PrefixGrows ==
  ASSUME NEW vals, IsSequence(vals), NEW n \in 1..Len(vals)
  PROVE  /\ Prefix(vals, n) = Append(Prefix(vals, n - 1), vals[n])
         /\ Len(Prefix(vals, n - 1)) = n - 1
<1> DEFINE T == {vals[j] : j \in DOMAIN vals}
<1> DEFINE p == Prefix(vals, n - 1)
<1>1. DOMAIN vals = 1..Len(vals) /\ Len(vals) \in Nat
  BY SequenceIsAFunction
<1>2. p \in [1..(n - 1) -> T]
  BY <1>1 DEF Prefix
<1>3. n - 1 \in Nat
  BY <1>1
<1>4. IsSequence(p) /\ Len(p) = n - 1
  BY <1>2, <1>3, SequenceByDomain
<1>5. /\ IsSequence(Append(p, vals[n])) /\ DOMAIN Append(p, vals[n]) = 1..((n - 1) + 1)
      /\ \A i \in 1..((n - 1) + 1) : Append(p, vals[n])[i] = IF i = (n - 1) + 1 THEN vals[n] ELSE p[i]
  BY <1>4, AppendToAnything
<1>6. Append(p, vals[n]) \in [1..n -> {Append(p, vals[n])[i] : i \in 1..n}]
  <2>1. Append(p, vals[n]) \in [DOMAIN Append(p, vals[n]) -> {Append(p, vals[n])[i] : i \in DOMAIN Append(p, vals[n])}]
    BY <1>5, SequenceIsAFunction
  <2>2. (n - 1) + 1 = n
    BY <1>1
  <2> QED
    BY <2>1, <2>2, <1>5
<1>7. \A i \in 1..n : Append(p, vals[n])[i] = vals[i]
  <2> SUFFICES ASSUME NEW i \in 1..n PROVE Append(p, vals[n])[i] = vals[i]
    OBVIOUS
  <2>1. Append(p, vals[n])[i] = IF i = n THEN vals[n] ELSE p[i]
    BY <1>1, <1>5
  <2>2. i # n => p[i] = vals[i]
    BY <1>1 DEF Prefix
  <2> HIDE DEF p
  <2> QED
    BY <2>1, <2>2
<1>8. Prefix(vals, n) = [i \in 1..n |-> Append(p, vals[n])[i]]
  BY <1>7 DEF Prefix
<1> HIDE DEF p
<1>9. Append(p, vals[n]) = [i \in 1..n |-> Append(p, vals[n])[i]]
  BY <1>6
<1> QED
  BY <1>4, <1>8, <1>9 DEF p

LEMMA ComputedIsRun ==
  ASSUME NEW g, NEW shapes, IsGraph(g, shapes), NEW arguments, NEW vals, Computes(g, arguments, vals)
  PROVE  ValuesOn(g, arguments) = vals
<1>1. PICK n \in Nat : n = Len(g.nodes)
  BY GraphFacts
<1>2. PICK value : /\ ValuesOn(g, arguments) = value[n] /\ value[0] = << >>
                   /\ \A m \in 1..n : value[m] = WithNode(g, arguments, m, value[m - 1])
  BY <1>1, ValuesUnfold
<1>3. IsSequence(vals) /\ Len(vals) = n /\ \A m \in DOMAIN g.nodes : Makes(g, arguments, m, vals, vals[m])
  BY <1>1 DEF Computes
<1>4. DOMAIN g.nodes = 1..n /\ DOMAIN vals = 1..n
  BY <1>1, <1>3, GraphFacts, SequenceIsAFunction
<1> DEFINE S == {m \in 0..n : value[m] = Prefix(vals, m)}
<1>5. 0 \in S
  <2>1. Prefix(vals, 0) = << >>
    BY DEF Prefix
  <2> QED
    BY <2>1, <1>2
<1>6. ASSUME NEW m \in 0..(n - 1), m \in S PROVE m + 1 \in S
  <2>1. m + 1 \in 1..n /\ (m + 1) - 1 = m
    OBVIOUS
  <2>2. /\ Prefix(vals, m + 1) = Append(Prefix(vals, m), vals[m + 1])
        /\ Len(Prefix(vals, m)) = m
    BY <2>1, <1>3, PrefixGrows
  <2>3. \A j \in 1..m : vals[j] = Prefix(vals, m)[j]
    BY DEF Prefix
  <2>4. Makes(g, arguments, m + 1, vals, vals[m + 1])
    BY <1>3, <1>4, <2>1
  <2>5. Makes(g, arguments, m + 1, Prefix(vals, m), vals[m + 1])
    BY <1>4, <2>1, <2>3, <2>4, MakesFromAgreeing
  <2>6. WithNode(g, arguments, m + 1, Prefix(vals, m)) = Append(Prefix(vals, m), vals[m + 1])
    <3>1. Len(Prefix(vals, m)) = (m + 1) - 1 /\ m + 1 \in Nat
      BY <2>1, <2>2
    <3> QED
      BY <3>1, <2>5, NodeRuns
  <2>7. value[m + 1] = WithNode(g, arguments, m + 1, value[m])
    BY <1>2, <2>1
  <2> QED
    BY <1>6, <2>1, <2>2, <2>6, <2>7
<1> HIDE DEF S
<1>7. n \in S
  BY <1>5, <1>6, BoundedInduction
<1>8. value[n] = Prefix(vals, n)
  BY <1>7 DEF S
<1>9. Prefix(vals, n) = vals
  <2>1. vals = [j \in 1..n |-> vals[j]]
    BY <1>3, <1>4, SequenceIsAFunction
  <2> QED
    BY <2>1 DEF Prefix
<1> QED
  BY <1>2, <1>8, <1>9

LEMMA RunIsComputed ==
  ASSUME NEW g, NEW shapes, IsGraph(g, shapes), NEW arguments, RunsOn(g, arguments)
  PROVE  Computes(g, arguments, ValuesOn(g, arguments))
<1>1. PICK n \in Nat : n = Len(g.nodes)
  BY GraphFacts
<1>2. PICK value : /\ ValuesOn(g, arguments) = value[n] /\ value[0] = << >>
                   /\ \A m \in 1..n : value[m] = WithNode(g, arguments, m, value[m - 1])
  BY <1>1, ValuesUnfold
<1>3. Len(value[n]) = n
  BY <1>1, <1>2 DEF RunsOn
<1>4. DOMAIN g.nodes = 1..n
  BY <1>1, GraphFacts
<1> DEFINE Good(m) == /\ IsSequence(value[m]) /\ Len(value[m]) = m
                      /\ \A j \in 1..m : Makes(g, arguments, j, value[m], value[m][j])
<1> DEFINE S == {m \in 0..n : Good(m) \/ Len(value[m]) < m}
<1>5. 0 \in S
  <2>1. IsSequence(<< >>) /\ Len(<< >>) = 0
    BY DEF IsSequence
  <2> QED
    BY <2>1, <1>2
<1>6. ASSUME NEW m \in 0..(n - 1), m \in S PROVE m + 1 \in S
  <2>1. m + 1 \in 1..n /\ m + 1 \in Nat /\ (m + 1) - 1 = m /\ m + 1 \in DOMAIN g.nodes
    BY <1>4
  <2>2. value[m + 1] = WithNode(g, arguments, m + 1, value[m])
    BY <1>2, <2>1
  <2>3. CASE Len(value[m]) < m
    <3>1. value[m + 1] = value[m]
      BY <2>1, <2>2, <2>3, StoppedRun
    <3>2. Len(value[m]) < m + 1 \/ Len(value[m]) \notin Nat
      BY <2>3
    <3> QED
      BY <2>1, <2>3, <3>1, <3>2
  <2>4. CASE Good(m)
    <3>1. Len(value[m]) = (m + 1) - 1
      BY <2>1, <2>4
    <3>2. CASE value[m + 1] = value[m]
      BY <2>1, <3>1, <3>2
    <3>3. CASE \E x : Makes(g, arguments, m + 1, value[m], x) /\ value[m + 1] = Append(value[m], x)
      <4>1. PICK x : Makes(g, arguments, m + 1, value[m], x) /\ value[m + 1] = Append(value[m], x)
        BY <3>3
      <4>2. /\ IsSequence(value[m + 1]) /\ Len(value[m + 1]) = m + 1
            /\ \A i \in 1..(m + 1) : value[m + 1][i] = IF i = m + 1 THEN x ELSE value[m][i]
        BY <2>4, <4>1, AppendToAnything
      <4>3. ASSUME NEW j \in 1..(m + 1) PROVE Makes(g, arguments, j, value[m + 1], value[m + 1][j])
        <5>1. \A i \in 1..(j - 1) : value[m][i] = value[m + 1][i]
          <6>1. \A i \in 1..(j - 1) : i \in 1..(m + 1) /\ i # m + 1
            OBVIOUS
          <6> QED
            BY <4>2, <6>1
        <5>2. Makes(g, arguments, j, value[m], value[m + 1][j])
          <6>1. CASE j = m + 1
            <7>1. value[m + 1][m + 1] = x
              BY <4>2, <2>1
            <7> QED
              BY <6>1, <4>1, <7>1
          <6>2. CASE j # m + 1
            <7>1. j \in 1..m
              BY <6>2
            <7>2. value[m + 1][j] = value[m][j]
              BY <4>2, <6>2
            <7> QED
              BY <2>4, <7>1, <7>2
          <6> QED
            BY <6>1, <6>2
        <5>3. j \in DOMAIN g.nodes
          BY <1>4, <2>1
        <5> QED
          BY <5>1, <5>2, <5>3, MakesFromAgreeing
      <4> QED
        BY <2>1, <4>2, <4>3
    <3>4. Ran(g, arguments, m + 1, value[m], WithNode(g, arguments, m + 1, value[m]))
      BY <2>1, <3>1, NodeRuns
    <3> QED
      BY <2>2, <3>2, <3>3, <3>4 DEF Ran
  <2> QED
    BY <2>3, <2>4, <1>6
<1> HIDE DEF S
<1>7. n \in S
  BY <1>5, <1>6, BoundedInduction
<1>8. Good(n)
  BY <1>3, <1>7 DEF S
<1> QED
  BY <1>1, <1>2, <1>4, <1>8 DEF Computes

(***************************************************************************)
(* A graph whose nodes follow those of another                             *)
(***************************************************************************)
Follows(g, h, where, j) ==
  LET new == h.nodes[j]
      old == g.nodes[where[j]]
  IN  /\ new.op = old.op /\ new.attrs = old.attrs /\ new.shape = old.shape
      /\ DOMAIN new.ins = DOMAIN old.ins
      /\ \A k \in DOMAIN new.ins : where[new.ins[k]] = old.ins[k]
      /\ old.op = "placeholder" => where[j] = j

ValuesFrom(vals, where) == [j \in DOMAIN where |-> vals[where[j]]]

LEMMA FollowerMakes ==
  ASSUME NEW g, NEW h, NEW shapes, IsGraph(g, shapes), IsGraph(h, shapes),
         NEW arguments, NEW vals, Computes(g, arguments, vals),
         NEW where \in [DOMAIN h.nodes -> DOMAIN g.nodes],
         NEW j \in DOMAIN h.nodes, Follows(g, h, where, j)
  PROVE  Makes(h, arguments, j, ValuesFrom(vals, where), ValuesFrom(vals, where)[j])
<1> DEFINE new == h.nodes[j]
<1> DEFINE old == g.nodes[where[j]]
<1>1. /\ new.op = old.op /\ new.attrs = old.attrs /\ new.shape = old.shape
      /\ DOMAIN new.ins = DOMAIN old.ins
      /\ \A k \in DOMAIN new.ins : where[new.ins[k]] = old.ins[k]
      /\ old.op = "placeholder" => where[j] = j
  BY DEF Follows
<1>2. Makes(g, arguments, where[j], vals, vals[where[j]])
  BY DEF Computes
<1>3. h.inputs = g.inputs
  BY GraphFacts
<1>4. ValuesFrom(vals, where)[j] = vals[where[j]]
  BY DEF ValuesFrom
<1>5. OperandValues(new, ValuesFrom(vals, where)) = OperandValues(old, vals)
  <2>1. \A k \in DOMAIN new.ins : new.ins[k] \in DOMAIN h.nodes
    BY NodeFacts
  <2>2. \A k \in DOMAIN new.ins : ValuesFrom(vals, where)[new.ins[k]] = vals[where[new.ins[k]]]
    BY <2>1 DEF ValuesFrom
  <2> HIDE DEF new, old
  <2> QED
    BY <1>1, <2>2 DEF OperandValues
<1>6. /\ IsLeaf(new) = IsLeaf(old) /\ ConstantValue(new) = ConstantValue(old)
      /\ \A v : Fits(new, v) = Fits(old, v) /\ Eval(new, v) = Eval(old, v)
  <2> HIDE DEF new, old
  <2> QED
    BY <1>1 DEF IsLeaf, ConstantValue, Fits, Eval
<1>7. /\ old.op = "placeholder" =>
           vals[where[j]] = arguments[CHOOSE k \in DOMAIN g.inputs : g.inputs[k] = where[j]]
      /\ old.op = "constant" => vals[where[j]] = ConstantValue(old)
      /\ ~IsLeaf(old) => /\ Fits(old, OperandValues(old, vals))
                         /\ vals[where[j]] = Eval(old, OperandValues(old, vals))
  BY <1>2 DEF Makes
<1>8. Makes(h, arguments, j, ValuesFrom(vals, where), ValuesFrom(vals, where)[j]) =
        /\ new.op = "placeholder" =>
             ValuesFrom(vals, where)[j] = arguments[CHOOSE k \in DOMAIN h.inputs : h.inputs[k] = j]
        /\ new.op = "constant" => ValuesFrom(vals, where)[j] = ConstantValue(new)
        /\ ~IsLeaf(new) =>
             /\ Fits(new, OperandValues(new, ValuesFrom(vals, where)))
             /\ ValuesFrom(vals, where)[j] = Eval(new, OperandValues(new, ValuesFrom(vals, where)))
  BY DEF Makes
<1> HIDE DEF new, old
<1> QED
  BY <1>1, <1>3, <1>4, <1>5, <1>6, <1>7, <1>8

(* When every node makes what the node it stands for makes, running the    *)
(* new graph gives that node's value.                                      *)
LEMMA FollowersRun ==
  ASSUME NEW g, NEW h, NEW shapes, IsGraph(g, shapes), IsGraph(h, shapes),
         NEW arguments, NEW vals, Computes(g, arguments, vals),
         NEW where \in [DOMAIN h.nodes -> DOMAIN g.nodes], where[h.output] = g.output,
         \A j \in DOMAIN h.nodes :
           Makes(h, arguments, j, ValuesFrom(vals, where), ValuesFrom(vals, where)[j])
  PROVE  RunsOn(h, arguments) /\ RunOn(h, arguments) = RunOn(g, arguments)
<1> DEFINE new == ValuesFrom(vals, where)
<1>1. DOMAIN h.nodes = 1..Len(h.nodes) /\ Len(h.nodes) \in Nat /\ h.output \in DOMAIN h.nodes
  BY GraphFacts
<1>2. new \in [1..Len(h.nodes) -> {vals[i] : i \in DOMAIN g.nodes}]
  BY <1>1 DEF ValuesFrom
<1>3. IsSequence(new) /\ Len(new) = Len(h.nodes)
  BY <1>1, <1>2, SequenceByDomain
<1>4. Computes(h, arguments, new)
  BY <1>3 DEF Computes
<1>5. ValuesOn(h, arguments) = new
  BY <1>4, ComputedIsRun
<1>6. ValuesOn(g, arguments) = vals
  BY ComputedIsRun
<1>7. new[h.output] = vals[g.output]
  BY <1>1 DEF ValuesFrom
<1> QED
  BY <1>3, <1>5, <1>6, <1>7 DEF RunsOn, RunOn

(***************************************************************************)
(* dead_code_elimination: the new ids                                      *)
(***************************************************************************)
Remapping(kept, n, r) == r = [i \in 0..n |-> IF i = 0 THEN 0 ELSE r[i - 1] + (IF i \in kept THEN 1 ELSE 0)]

LEMMA RemappingExists ==
  ASSUME NEW kept, NEW n \in Nat
  PROVE  \E r : Remapping(kept, n, r)
<1> DEFINE S == {m \in Nat : \E r : Remapping(kept, m, r)}
<1>1. 0 \in S
  <2>1. Remapping(kept, 0, [i \in 0..0 |-> 0])
    BY DEF Remapping
  <2> QED
    BY <2>1
<1>2. ASSUME NEW m \in Nat, m \in S PROVE m + 1 \in S
  <2>1. PICK f : Remapping(kept, m, f)
    BY <1>2
  <2> DEFINE h == [i \in 0..(m + 1) |->
                     IF i = m + 1 THEN f[m] + (IF m + 1 \in kept THEN 1 ELSE 0) ELSE f[i]]
  <2>2. ASSUME NEW i \in 0..(m + 1)
        PROVE  h[i] = IF i = 0 THEN 0 ELSE h[i - 1] + (IF i \in kept THEN 1 ELSE 0)
    <3>1. CASE i = m + 1
      <4>1. i # 0 /\ i - 1 = m /\ m \in 0..(m + 1) /\ m # m + 1
        BY <3>1
      <4>2. h[m] = f[m]
        BY <4>1
      <4>3. h[i] = f[m] + (IF i \in kept THEN 1 ELSE 0)
        BY <3>1
      <4> HIDE DEF h
      <4> QED
        BY <4>1, <4>2, <4>3
    <3>2. CASE i # m + 1
      <4>1. i \in 0..m /\ (i # 0 => i - 1 \in 0..(m + 1) /\ i - 1 # m + 1)
        BY <3>2
      <4>2. h[i] = f[i] /\ (i # 0 => h[i - 1] = f[i - 1])
        BY <3>2, <4>1
      <4>3. f[i] = IF i = 0 THEN 0 ELSE f[i - 1] + (IF i \in kept THEN 1 ELSE 0)
        BY <2>1, <4>1 DEF Remapping
      <4> HIDE DEF h
      <4> QED
        BY <4>2, <4>3
    <3> QED
      BY <3>1, <3>2
  <2>3. h = [i \in 0..(m + 1) |-> IF i = 0 THEN 0 ELSE h[i - 1] + (IF i \in kept THEN 1 ELSE 0)]
    <3>1. h = [i \in 0..(m + 1) |-> h[i]]
      OBVIOUS
    <3> HIDE DEF h
    <3> QED
      BY <2>2, <3>1
  <2> HIDE DEF h
  <2>4. Remapping(kept, m + 1, h)
    BY <2>3 DEF Remapping
  <2> QED
    BY <2>4
<1> HIDE DEF S
<1>3. n \in S
  BY <1>1, <1>2, SetInduction
<1> QED
  BY <1>3 DEF S

(* It counts what is kept.                                                 *)
Counts(kept, r, m) ==
  /\ r[m] \in 0..m /\ IsFiniteSet(kept \cap 1..m) /\ Cardinality(kept \cap 1..m) = r[m]
  /\ \A i \in 0..m : r[i] \in 0..r[m] /\ (i < m /\ m \in kept => r[i] < r[m])
  /\ \A i \in kept \cap 1..m : r[i] \in 1..r[m]
  /\ \A j \in 1..r[m] : \E i \in kept \cap 1..m : r[i] = j

LEMMA RemappingCounts ==
  ASSUME NEW kept, NEW n \in Nat, NEW r, Remapping(kept, n, r)
  PROVE  \A m \in 0..n : Counts(kept, r, m)
<1> DEFINE S == {m \in 0..n : Counts(kept, r, m)}
<1>1. 0 \in S
  <2>1. kept \cap 1..0 = {}
    OBVIOUS
  <2>2. r[0] = 0
    BY DEF Remapping
  <2>3. IsFiniteSet(kept \cap 1..0) /\ Cardinality(kept \cap 1..0) = 0
    BY <2>1, FS_EmptySet
  <2> QED
    BY <2>1, <2>2, <2>3 DEF Counts
<1>2. ASSUME NEW m \in 0..(n - 1), m \in S PROVE m + 1 \in S
  <2>1. m + 1 \in 0..n /\ m + 1 # 0 /\ (m + 1) - 1 = m
    OBVIOUS
  <2>2. r[m + 1] = r[m] + (IF m + 1 \in kept THEN 1 ELSE 0)
    BY <2>1 DEF Remapping
  <2>3. Counts(kept, r, m)
    BY <1>2
  <2>4. /\ r[m] \in 0..m /\ IsFiniteSet(kept \cap 1..m) /\ Cardinality(kept \cap 1..m) = r[m]
        /\ \A i \in 0..m : r[i] \in 0..r[m]
        /\ \A i \in kept \cap 1..m : r[i] \in 1..r[m]
        /\ \A j \in 1..r[m] : \E i \in kept \cap 1..m : r[i] = j
    BY <2>3 DEF Counts
  <2>5. CASE m + 1 \in kept
    <3>1. r[m + 1] = r[m] + 1
      BY <2>2, <2>5
    <3>2. kept \cap 1..(m + 1) = (kept \cap 1..m) \cup {m + 1} /\ m + 1 \notin kept \cap 1..m
      BY <2>5
    <3>3. IsFiniteSet(kept \cap 1..(m + 1)) /\ Cardinality(kept \cap 1..(m + 1)) = r[m + 1]
      <4>1. PICK T : T = kept \cap 1..m
        OBVIOUS
      <4>2. IsFiniteSet(T \cup {m + 1}) /\ Cardinality(T \cup {m + 1}) = Cardinality(T) + 1
        BY <2>4, <3>2, <4>1, FS_AddElement, ZenonT(60)
      <4> QED
        BY <2>4, <3>1, <3>2, <4>1, <4>2
    <3>4. \A i \in 0..(m + 1) : r[i] \in 0..r[m + 1] /\ (i < m + 1 => r[i] < r[m + 1])
      <4> SUFFICES ASSUME NEW i \in 0..(m + 1) PROVE r[i] \in 0..r[m + 1] /\ (i < m + 1 => r[i] < r[m + 1])
        OBVIOUS
      <4>1. CASE i = m + 1
        BY <2>4, <3>1, <4>1
      <4>2. CASE i \in 0..m
        <5>1. r[i] \in 0..r[m]
          BY <2>4, <4>2
        <5> QED
          BY <2>4, <3>1, <5>1
      <4> QED
        BY <4>1, <4>2
    <3>5. \A i \in kept \cap 1..(m + 1) : r[i] \in 1..r[m + 1]
      <4> SUFFICES ASSUME NEW i \in kept \cap 1..(m + 1) PROVE r[i] \in 1..r[m + 1]
        OBVIOUS
      <4>1. CASE i = m + 1
        BY <2>4, <3>1, <4>1
      <4>2. CASE i \in kept \cap 1..m
        <5>1. r[i] \in 1..r[m]
          BY <2>4, <4>2
        <5> QED
          BY <2>4, <3>1, <5>1
      <4> QED
        BY <3>2, <4>1, <4>2
    <3>6. \A j \in 1..r[m + 1] : \E i \in kept \cap 1..(m + 1) : r[i] = j
      <4> SUFFICES ASSUME NEW j \in 1..r[m + 1] PROVE \E i \in kept \cap 1..(m + 1) : r[i] = j
        OBVIOUS
      <4>1. CASE j = r[m + 1]
        BY <2>5, <4>1
      <4>2. CASE j # r[m + 1]
        <5>1. j \in 1..r[m]
          BY <2>4, <3>1, <4>2
        <5>2. PICK i \in kept \cap 1..m : r[i] = j
          BY <2>4, <5>1
        <5> QED
          BY <5>2
      <4> QED
        BY <4>1, <4>2
    <3>7. r[m + 1] \in 0..(m + 1)
      BY <2>4, <3>1
    <3> QED
      BY <2>1, <3>3, <3>4, <3>5, <3>6, <3>7 DEF Counts
  <2>6. CASE m + 1 \notin kept
    <3>1. r[m + 1] = r[m]
      BY <2>2, <2>4, <2>6
    <3>2. kept \cap 1..(m + 1) = kept \cap 1..m
      BY <2>6
    <3>3. \A i \in 0..(m + 1) : r[i] \in 0..r[m + 1]
      <4> SUFFICES ASSUME NEW i \in 0..(m + 1) PROVE r[i] \in 0..r[m + 1]
        OBVIOUS
      <4>1. CASE i = m + 1
        BY <2>4, <3>1, <4>1
      <4>2. CASE i \in 0..m
        BY <2>4, <3>1, <4>2
      <4> QED
        BY <4>1, <4>2
    <3>4. r[m + 1] \in 0..(m + 1)
      BY <2>4, <3>1
    <3> QED
      BY <2>1, <2>4, <2>6, <3>1, <3>2, <3>3, <3>4 DEF Counts
  <2> QED
    BY <2>5, <2>6
<1> HIDE DEF S
<1>3. \A m \in 0..n : m \in S
  BY <1>1, <1>2, BoundedInduction
<1> QED
  BY <1>3 DEF S

(***************************************************************************)
(* dead_code_elimination: what is kept                                     *)
(***************************************************************************)
Reaching(g, start, n, low, reached) ==
  reached = [i \in low..(n + 1) |->
               IF i = n + 1 THEN start
               ELSE IF i \in reached[i + 1] THEN reached[i + 1] \cup Operands(g.nodes[i])
               ELSE reached[i + 1]]

LEMMA ReachingExists ==
  ASSUME NEW g, NEW start, NEW n \in Nat
  PROVE  \E reached : Reaching(g, start, n, 1, reached)
<1> DEFINE S == {m \in 0..n : \E f : Reaching(g, start, n, (n + 1) - m, f)}
<1>1. 0 \in S
  <2> DEFINE f == [i \in (n + 1)..(n + 1) |-> start]
  <2>1. f = [i \in (n + 1)..(n + 1) |->
               IF i = n + 1 THEN start
               ELSE IF i \in f[i + 1] THEN f[i + 1] \cup Operands(g.nodes[i]) ELSE f[i + 1]]
    BY \A i \in (n + 1)..(n + 1) : i = n + 1
  <2> HIDE DEF f
  <2>2. Reaching(g, start, n, n + 1, f)
    BY <2>1 DEF Reaching
  <2>3. (n + 1) - 0 = n + 1
    OBVIOUS
  <2> QED
    BY <2>2, <2>3
<1>2. ASSUME NEW m \in 0..(n - 1), m \in S PROVE m + 1 \in S
  <2>1. PICK low : low = (n + 1) - m
    OBVIOUS
  <2>2. PICK f : Reaching(g, start, n, low, f)
    BY <1>2, <2>1
  <2>3. low \in 2..(n + 1) /\ (n + 1) - (m + 1) = low - 1
    BY <2>1
  <2> DEFINE next(i, above) == IF i \in above THEN above \cup Operands(g.nodes[i]) ELSE above
  <2> DEFINE h == [i \in (low - 1)..(n + 1) |-> IF i = low - 1 THEN next(i, f[low]) ELSE f[i]]
  <2>4. ASSUME NEW i \in (low - 1)..(n + 1)
        PROVE  h[i] = IF i = n + 1 THEN start ELSE next(i, h[i + 1])
    <3>1. CASE i = low - 1
      <4>1. i # n + 1 /\ i + 1 = low /\ low \in (low - 1)..(n + 1) /\ low # low - 1
        BY <2>3, <3>1
      <4>2. h[low] = f[low]
        BY <4>1
      <4>3. h[i] = next(i, f[low])
        BY <3>1
      <4> HIDE DEF h, next
      <4> QED
        BY <4>1, <4>2, <4>3
    <3>2. CASE i # low - 1
      <4>1. i \in low..(n + 1) /\ (i # n + 1 => i + 1 \in (low - 1)..(n + 1) /\ i + 1 # low - 1)
        BY <2>3, <3>2
      <4>2. h[i] = f[i] /\ (i # n + 1 => h[i + 1] = f[i + 1])
        BY <3>2, <4>1
      <4>3. f[i] = IF i = n + 1 THEN start ELSE next(i, f[i + 1])
        BY <2>2, <4>1 DEF Reaching
      <4> HIDE DEF h, next
      <4> QED
        BY <4>2, <4>3
    <3> QED
      BY <3>1, <3>2
  <2>5. h = [i \in (low - 1)..(n + 1) |-> IF i = n + 1 THEN start ELSE next(i, h[i + 1])]
    <3>1. h = [i \in (low - 1)..(n + 1) |-> h[i]]
      OBVIOUS
    <3> HIDE DEF h, next
    <3> QED
      BY <2>4, <3>1
  <2> HIDE DEF h
  <2>6. Reaching(g, start, n, low - 1, h)
    BY <2>5 DEF Reaching
  <2> QED
    BY <2>3, <2>6
<1> HIDE DEF S
<1>3. n \in S
  BY <1>1, <1>2, BoundedInduction
<1>4. (n + 1) - n = 1
  OBVIOUS
<1> QED
  BY <1>3, <1>4 DEF S

(* What is reached from the nodes at or above i.                           *)
ReachedAbove(g, start, i, kept) ==
  /\ kept \subseteq DOMAIN g.nodes /\ start \subseteq kept
  /\ \A j \in kept : j >= i => Operands(g.nodes[j]) \subseteq kept
  /\ \A j \in kept : j \in start \/ \E k \in kept : j \in Operands(g.nodes[k])

LEMMA ReachedIsClosed ==
  ASSUME NEW g, NEW shapes, IsGraph(g, shapes), NEW start \in SUBSET DOMAIN g.nodes
  PROVE  ReachedAbove(g, start, 1, ReachedFrom(g, start))
<1>1. PICK n \in Nat : n = Len(g.nodes) /\ DOMAIN g.nodes = 1..n
  BY GraphFacts
<1> DEFINE f == CHOOSE reached : Reaching(g, start, Len(g.nodes), 1, reached)
<1>2. ReachedFrom(g, start) = f[1]
  BY Zenon DEF ReachedFrom, Reaching
<1>3. Reaching(g, start, n, 1, f)
  BY <1>1, ReachingExists
<1> HIDE DEF f
<1>4. f[n + 1] = start
  BY <1>3 DEF Reaching
<1>5. ASSUME NEW i \in 1..n
      PROVE  f[i] = IF i \in f[i + 1] THEN f[i + 1] \cup Operands(g.nodes[i]) ELSE f[i + 1]
  <2>1. i \in 1..(n + 1) /\ i # n + 1
    OBVIOUS
  <2> QED
    BY <1>3, <2>1 DEF Reaching
<1> DEFINE S == {m \in 0..n : ReachedAbove(g, start, (n + 1) - m, f[(n + 1) - m])}
<1>6. 0 \in S
  <2>1. \A j \in start : ~ (j >= n + 1)
    BY <1>1
  <2>2. ReachedAbove(g, start, n + 1, f[n + 1])
    BY <1>4, <2>1 DEF ReachedAbove
  <2>3. (n + 1) - 0 = n + 1
    OBVIOUS
  <2> QED
    BY <2>2, <2>3
<1>7. ASSUME NEW m \in 0..(n - 1), m \in S PROVE m + 1 \in S
  <2>1. PICK i \in 1..n : i + 1 = (n + 1) - m /\ i = (n + 1) - (m + 1)
    <3>1. n - m \in 1..n /\ (n - m) + 1 = (n + 1) - m /\ n - m = (n + 1) - (m + 1)
      OBVIOUS
    <3> QED
      BY <3>1
  <2>2. ReachedAbove(g, start, i + 1, f[i + 1])
    BY <1>7, <2>1
  <2>3. PICK above : above = f[i + 1]
    OBVIOUS
  <2>4. /\ above \subseteq DOMAIN g.nodes /\ start \subseteq above
        /\ \A j \in above : j >= i + 1 => Operands(g.nodes[j]) \subseteq above
        /\ \A j \in above : j \in start \/ \E k \in above : j \in Operands(g.nodes[k])
    BY <2>2, <2>3 DEF ReachedAbove
  <2>5. \A j \in above : j \in Nat
    BY <1>1, <2>4
  <2>6. CASE i \in above
    <3>1. f[i] = above \cup Operands(g.nodes[i])
      BY <1>5, <2>3, <2>6
    <3>2. Operands(g.nodes[i]) \subseteq 1..(i - 1)
      <4>1. \A k \in DOMAIN g.nodes[i].ins : g.nodes[i].ins[k] \in 1..(i - 1)
        BY <1>1, NodeFacts
      <4> QED
        BY <4>1 DEF Operands
    <3>3. f[i] \subseteq DOMAIN g.nodes
      BY <1>1, <2>4, <3>1, <3>2
    <3>4. \A j \in f[i] : j >= i => Operands(g.nodes[j]) \subseteq f[i]
      <4> SUFFICES ASSUME NEW j \in f[i], j >= i PROVE Operands(g.nodes[j]) \subseteq f[i]
        OBVIOUS
      <4>1. j \in above
        BY <3>1, <3>2
      <4>2. CASE j = i
        BY <3>1, <4>2
      <4>3. CASE j # i
        <5>1. j >= i + 1
          BY <2>5, <4>1, <4>3
        <5> QED
          BY <2>4, <3>1, <4>1, <5>1
      <4> QED
        BY <4>2, <4>3
    <3>5. \A j \in f[i] : j \in start \/ \E k \in f[i] : j \in Operands(g.nodes[k])
      <4> SUFFICES ASSUME NEW j \in f[i], j \notin start PROVE \E k \in f[i] : j \in Operands(g.nodes[k])
        OBVIOUS
      <4>1. CASE j \in above
        <5>1. PICK k \in above : j \in Operands(g.nodes[k])
          BY <2>4, <4>1
        <5> QED
          BY <3>1, <5>1
      <4>2. CASE j \notin above
        BY <2>6, <3>1, <4>2
      <4> QED
        BY <4>1, <4>2
    <3>6. ReachedAbove(g, start, i, f[i])
      BY <2>4, <3>1, <3>3, <3>4, <3>5 DEF ReachedAbove
    <3> QED
      BY <2>1, <3>6
  <2>7. CASE i \notin above
    <3>1. f[i] = above
      BY <1>5, <2>3, <2>7
    <3>2. \A j \in above : j >= i => j >= i + 1
      BY <2>5, <2>7
    <3>3. ReachedAbove(g, start, i, f[i])
      BY <2>4, <3>1, <3>2 DEF ReachedAbove
    <3> QED
      BY <2>1, <3>3
  <2> QED
    BY <2>6, <2>7
<1> HIDE DEF S
<1>8. n \in S
  BY <1>6, <1>7, BoundedInduction
<1>9. (n + 1) - n = 1
  OBVIOUS
<1> QED
  BY <1>2, <1>8, <1>9 DEF S

(* Everything the output needs and every placeholder, and nothing else.    *)
KeptFacts(g, shapes, kept) ==
  /\ kept \subseteq DOMAIN g.nodes /\ g.output \in kept /\ DOMAIN shapes \subseteq kept
  /\ \A j \in kept : Operands(g.nodes[j]) \subseteq kept
  /\ \A j \in kept : j \in DOMAIN shapes \/ j = g.output \/ \E k \in kept : j \in Operands(g.nodes[k])

LEMMA KeptIs ==
  ASSUME NEW g, NEW shapes, IsGraph(g, shapes)
  PROVE  KeptFacts(g, shapes, Kept(g))
<1> DEFINE start == ToSet(g.inputs) \cup {g.output}
<1>1. /\ g.inputs = [k \in DOMAIN shapes |-> k] /\ DOMAIN g.nodes = 1..Len(g.nodes) /\ Len(g.nodes) \in Nat
      /\ DOMAIN shapes = 1..Len(shapes) /\ Len(shapes) \in Nat /\ Len(shapes) <= Len(g.nodes)
      /\ g.output \in 1..Len(g.nodes)
  BY GraphFacts
<1>2. start = DOMAIN shapes \cup {g.output}
  <2>1. ToSet(g.inputs) = DOMAIN shapes
    BY <1>1 DEF ToSet
  <2> QED
    BY <2>1
<1>3. start \in SUBSET DOMAIN g.nodes
  BY <1>1, <1>2
<1>4. Kept(g) = ReachedFrom(g, start)
  BY DEF Kept
<1> HIDE DEF start
<1>5. ReachedAbove(g, start, 1, Kept(g))
  BY <1>3, <1>4, ReachedIsClosed
<1>6. \A j \in Kept(g) : j >= 1
  BY <1>1, <1>5 DEF ReachedAbove
<1> QED
  BY <1>2, <1>5, <1>6 DEF ReachedAbove, KeptFacts

(* The new ids are dense, in the old order, and the placeholders' do not   *)
(* change.                                                                 *)
Renumbers(shapes, kept, c, r, old) ==
  /\ c \in Nat /\ old \in [1..c -> kept]
  /\ \A j \in 1..c : r[old[j]] = j
  /\ \A i \in kept : r[i] \in 1..c /\ old[r[i]] = i
  /\ \A i \in kept : \A k \in kept : k < i => r[k] \in 1..(r[i] - 1)
  /\ \A i \in DOMAIN shapes : r[i] = i /\ i \in 1..c /\ old[i] = i

LEMMA Renumbering ==
  ASSUME NEW g, NEW shapes, IsGraph(g, shapes), NEW r, Remapping(Kept(g), Len(g.nodes), r)
  PROVE  Renumbers(shapes, Kept(g), Cardinality(Kept(g)), r,
                   [j \in 1..Cardinality(Kept(g)) |-> CHOOSE i \in Kept(g) : r[i] = j])
<1>0. PICK n \in Nat : n = Len(g.nodes)
  BY GraphFacts
<1>1. PICK kept : n = Len(g.nodes) /\ kept = Kept(g)
  BY <1>0
<1>2. PICK c : c = r[n]
  OBVIOUS
<1>3. /\ DOMAIN g.nodes = 1..n /\ DOMAIN shapes = 1..Len(shapes) /\ Len(shapes) \in 0..n
      /\ kept \subseteq 1..n /\ DOMAIN shapes \subseteq kept
  <2>1. KeptFacts(g, shapes, kept)
    BY <1>1, KeptIs
  <2>2. kept \subseteq DOMAIN g.nodes /\ DOMAIN shapes \subseteq kept
    BY <2>1 DEF KeptFacts
  <2>3. /\ DOMAIN g.nodes = 1..n /\ DOMAIN shapes = 1..Len(shapes) /\ Len(shapes) \in Nat
        /\ Len(shapes) <= n
    BY <1>1, GraphFacts
  <2> QED
    BY <2>2, <2>3
<1>4. \A m \in 0..n : Counts(kept, r, m)
  BY <1>1, RemappingCounts
<1>5. kept \cap 1..n = kept /\ n \in 0..n
  BY <1>3
<1>6. /\ c \in Nat /\ Cardinality(kept) = c
      /\ \A i \in kept : r[i] \in 1..c /\ \A j \in 1..c : \E k \in kept : r[k] = j
  BY <1>2, <1>4, <1>5 DEF Counts
<1>7. ASSUME NEW i \in kept, NEW k \in kept, k < i PROVE r[k] \in 1..(r[i] - 1)
  <2>1. i \in 0..n /\ k \in 0..i /\ i \in Nat
    BY <1>3, <1>7
  <2>2. r[k] < r[i]
    BY <1>4, <1>7, <2>1 DEF Counts
  <2> QED
    BY <1>6, <2>2
<1> DEFINE old == [j \in 1..c |-> CHOOSE i \in kept : r[i] = j]
<1>8. ASSUME NEW j \in 1..c PROVE old[j] \in kept /\ r[old[j]] = j
  <2>1. \E i \in kept : r[i] = j
    <3>1. 1 \in 1..c
      BY <1>6
    <3> QED
      BY <1>2, <1>4, <1>5 DEF Counts
  <2> QED
    BY <2>1
<1>9. ASSUME NEW i \in kept, NEW k \in kept, r[i] = r[k] PROVE i = k
  <2>1. i \in Int /\ k \in Int /\ r[i] \in Int
    BY <1>3, <1>6
  <2>2. ~ (r[i] \in 1..(r[k] - 1)) /\ ~ (r[k] \in 1..(r[i] - 1))
    BY <1>9, <2>1
  <2> QED
    BY <1>7, <2>1, <2>2
<1>10. old \in [1..c -> kept]
  BY <1>8
<1> HIDE DEF old
<1>11. \A i \in kept : r[i] \in 1..c /\ old[r[i]] = i
  <2> SUFFICES ASSUME NEW i \in kept PROVE r[i] \in 1..c /\ old[r[i]] = i
    OBVIOUS
  <2>1. r[i] \in 1..c
    BY <1>6
  <2>2. old[r[i]] \in kept /\ r[old[r[i]]] = r[i]
    BY <1>8, <2>1
  <2> QED
    BY <1>9, <2>1, <2>2
<1>12. ASSUME NEW i \in DOMAIN shapes PROVE r[i] = i
  <2>1. i \in 0..n /\ 1..i \subseteq kept /\ i \in Nat
    BY <1>3
  <2>2. kept \cap 1..i = 1..i
    BY <2>1
  <2>3. Cardinality(1..i) = i
    BY <2>1, FS_Interval
  <2> QED
    BY <1>4, <2>1, <2>2, <2>3 DEF Counts
<1>13. \A i \in DOMAIN shapes : r[i] = i /\ i \in 1..c /\ old[i] = i
  BY <1>3, <1>11, <1>12
<1>14. Renumbers(shapes, kept, c, r, old)
  BY <1>6, <1>7, <1>8, <1>10, <1>11, <1>13 DEF Renumbers
<1> QED
  BY <1>1, <1>6, <1>14 DEF old

LEMMA EliminationUnfolds ==
  ASSUME NEW g, NEW shapes, IsGraph(g, shapes)
  PROVE  \E r, old, c :
           /\ Renumbers(shapes, Kept(g), c, r, old)
           /\ DeadCodeElimination(g) =
                [nodes  |-> [j \in 1..c |->
                               [g.nodes[old[j]] EXCEPT !.ins = [k \in DOMAIN @ |-> r[@[k]]]]],
                 inputs |-> [k \in DOMAIN g.inputs |-> r[g.inputs[k]]],
                 output |-> r[g.output]]
<1> DEFINE r == CHOOSE r : Remapping(Kept(g), Len(g.nodes), r)
<1>1. Remapping(Kept(g), Len(g.nodes), r)
  BY GraphFacts, RemappingExists
<1>2. DeadCodeElimination(g) =
        [nodes  |-> [j \in 1..Cardinality(Kept(g)) |->
                       [g.nodes[CHOOSE i \in Kept(g) : r[i] = j] EXCEPT !.ins = [k \in DOMAIN @ |-> r[@[k]]]]],
         inputs |-> [k \in DOMAIN g.inputs |-> r[g.inputs[k]]],
         output |-> r[g.output]]
  BY Zenon DEF DeadCodeElimination, Remapping
<1> HIDE DEF r
<1> DEFINE c == Cardinality(Kept(g))
<1> DEFINE old == [j \in 1..c |-> CHOOSE i \in Kept(g) : r[i] = j]
<1>3. Renumbers(shapes, Kept(g), c, r, old)
  BY <1>1, Renumbering
<1>4. [j \in 1..c |-> [g.nodes[old[j]] EXCEPT !.ins = [k \in DOMAIN @ |-> r[@[k]]]]]
        = [j \in 1..c |-> [g.nodes[CHOOSE i \in Kept(g) : r[i] = j] EXCEPT !.ins = [k \in DOMAIN @ |-> r[@[k]]]]]
  <2> DEFINE chosen(j) == CHOOSE i \in Kept(g) : r[i] = j
  <2> DEFINE moved(i) == [g.nodes[i] EXCEPT !.ins = [k \in DOMAIN @ |-> r[@[k]]]]
  <2>1. \A j \in 1..c : old[j] = chosen(j)
    OBVIOUS
  <2> HIDE DEF c, old, chosen, moved
  <2>2. [j \in 1..c |-> moved(old[j])] = [j \in 1..c |-> moved(chosen(j))]
    BY <2>1
  <2> QED
    BY <2>2, Zenon DEF chosen, moved
<1>5. DeadCodeElimination(g) =
        [nodes  |-> [j \in 1..c |-> [g.nodes[old[j]] EXCEPT !.ins = [k \in DOMAIN @ |-> r[@[k]]]]],
         inputs |-> [k \in DOMAIN g.inputs |-> r[g.inputs[k]]],
         output |-> r[g.output]]
  BY <1>2, <1>4, Zenon
<1> HIDE DEF c, old
<1> QED
  BY <1>3, <1>5, Zenon

(* What every rewrite is to be: a graph for the same arguments.            *)
OnlyLive(h) ==
  \A i \in DOMAIN h.nodes :
    \/ h.nodes[i].op = "placeholder"
    \/ i = h.output
    \/ \E j \in DOMAIN h.nodes : i \in Operands(h.nodes[j])

Eliminated(g, shapes, h, where) ==
  /\ IsGraph(h, shapes) /\ OnlyLive(h)
  /\ where \in [DOMAIN h.nodes -> DOMAIN g.nodes] /\ where[h.output] = g.output
  /\ \A j \in DOMAIN h.nodes : Follows(g, h, where, j)

LEMMA EliminationFollows ==
  ASSUME NEW g, NEW shapes, IsGraph(g, shapes)
  PROVE  \E where : Eliminated(g, shapes, DeadCodeElimination(g), where)
<1>1. PICK h, kept : h = DeadCodeElimination(g) /\ kept = Kept(g)
  OBVIOUS
<1>2. PICK r, old, c :
        /\ Renumbers(shapes, kept, c, r, old)
        /\ h = [nodes  |-> [j \in 1..c |->
                              [g.nodes[old[j]] EXCEPT !.ins = [k \in DOMAIN @ |-> r[@[k]]]]],
                inputs |-> [k \in DOMAIN g.inputs |-> r[g.inputs[k]]],
                output |-> r[g.output]]
  BY <1>1, EliminationUnfolds
<1>3. /\ c \in Nat /\ old \in [1..c -> kept]
      /\ \A j \in 1..c : r[old[j]] = j
      /\ \A i \in kept : r[i] \in 1..c /\ old[r[i]] = i
      /\ \A i \in kept : \A k \in kept : k < i => r[k] \in 1..(r[i] - 1)
      /\ \A i \in DOMAIN shapes : r[i] = i /\ i \in 1..c /\ old[i] = i
  BY <1>2 DEF Renumbers
<1>4. /\ kept \subseteq DOMAIN g.nodes /\ g.output \in kept /\ DOMAIN shapes \subseteq kept
      /\ \A j \in kept : Operands(g.nodes[j]) \subseteq kept
      /\ \A j \in kept : j \in DOMAIN shapes \/ j = g.output \/ \E k \in kept : j \in Operands(g.nodes[k])
  BY <1>1, KeptIs DEF KeptFacts
<1>5. /\ g.inputs = [k \in DOMAIN shapes |-> k] /\ IsSequence(shapes)
      /\ DOMAIN shapes = 1..Len(shapes) /\ Len(shapes) \in Nat /\ DOMAIN g.nodes = 1..Len(g.nodes)
      /\ Len(g.nodes) \in Nat
  BY GraphFacts
<1> DEFINE moved(j) == [g.nodes[old[j]] EXCEPT !.ins = [k \in DOMAIN @ |-> r[@[k]]]]
<1>6. /\ h.nodes = [j \in 1..c |-> moved(j)]
      /\ h.inputs = [k \in DOMAIN g.inputs |-> r[g.inputs[k]]] /\ h.output = r[g.output]
      /\ h = [nodes |-> h.nodes, inputs |-> h.inputs, output |-> h.output]
  <2> HIDE DEF moved
  <2> USE DEF moved
  <2> QED
    BY <1>2
<1>7. ASSUME NEW j \in 1..c
      PROVE  /\ h.nodes[j] = Node(g.nodes[old[j]].op, [k \in DOMAIN g.nodes[old[j]].ins |-> r[g.nodes[old[j]].ins[k]]],
                                  g.nodes[old[j]].shape, g.nodes[old[j]].attrs)
             /\ \A k \in DOMAIN g.nodes[old[j]].ins :
                  /\ g.nodes[old[j]].ins[k] \in kept /\ r[g.nodes[old[j]].ins[k]] \in 1..(j - 1)
                  /\ old[r[g.nodes[old[j]].ins[k]]] = g.nodes[old[j]].ins[k]
  <2>1. old[j] \in kept /\ old[j] \in DOMAIN g.nodes
    BY <1>3, <1>4
  <2>2. PICK node : node = g.nodes[old[j]]
    OBVIOUS
  <2>3. node = Node(node.op, node.ins, node.shape, node.attrs)
    BY <2>1, <2>2, NodeFacts
  <2>4. moved(j) = [node EXCEPT !.ins = [k \in DOMAIN node.ins |-> r[node.ins[k]]]]
    BY <2>2
  <2>5. moved(j) = Node(node.op, [k \in DOMAIN node.ins |-> r[node.ins[k]]], node.shape, node.attrs)
    <3> HIDE DEF moved
    <3>1. [Node(node.op, node.ins, node.shape, node.attrs) EXCEPT !.ins = [k \in DOMAIN node.ins |-> r[node.ins[k]]]]
            = Node(node.op, [k \in DOMAIN node.ins |-> r[node.ins[k]]], node.shape, node.attrs)
      BY NodeFields
    <3> QED
      BY <2>3, <2>4, <3>1
  <2>6. \A k \in DOMAIN node.ins : node.ins[k] \in 1..(old[j] - 1) /\ node.ins[k] \in kept
    <3>1. \A k \in DOMAIN node.ins : node.ins[k] \in 1..(old[j] - 1)
      BY <2>1, <2>2, NodeFacts
    <3>2. \A k \in DOMAIN node.ins : node.ins[k] \in kept
      BY <1>4, <2>1, <2>2 DEF Operands
    <3> QED
      BY <3>1, <3>2
  <2>7. old[j] \in Nat /\ r[old[j]] = j
    BY <1>3, <1>5, <2>1
  <2>8. \A k \in DOMAIN node.ins : r[node.ins[k]] \in 1..(j - 1) /\ old[r[node.ins[k]]] = node.ins[k]
    <3> SUFFICES ASSUME NEW k \in DOMAIN node.ins
                 PROVE r[node.ins[k]] \in 1..(j - 1) /\ old[r[node.ins[k]]] = node.ins[k]
      OBVIOUS
    <3>1. node.ins[k] \in kept /\ node.ins[k] < old[j]
      BY <2>6, <2>7
    <3> QED
      BY <1>3, <2>1, <2>7, <3>1
  <2>9. h.nodes[j] = moved(j)
    BY <1>6
  <2> HIDE DEF moved
  <2> QED
    BY <2>2, <2>5, <2>6, <2>8, <2>9
<1> HIDE DEF moved
<1>8. DOMAIN h.nodes = 1..c
  BY <1>6
<1>9. IsSequence(h.nodes) /\ Len(h.nodes) = c
  <2>1. PICK s : s = h.nodes
    OBVIOUS
  <2>2. s = [j \in 1..c |-> s[j]]
    BY <1>6, <2>1
  <2>3. s \in [1..c -> {s[j] : j \in 1..c}]
    BY <2>2
  <2> QED
    BY <1>3, <2>1, <2>3, SequenceByDomain, ZenonT(60)
<1>10. ASSUME NEW j \in 1..c
       PROVE  NodeAfter(h.nodes[j], j - 1) /\ Placed(h.nodes[j], j, shapes) /\ Follows(g, h, old, j)
  <2>1. PICK node, ins : node = g.nodes[old[j]] /\ ins = [k \in DOMAIN node.ins |-> r[node.ins[k]]]
    OBVIOUS
  <2>2. old[j] \in kept /\ old[j] \in DOMAIN g.nodes /\ r[old[j]] = j
    BY <1>3, <1>4
  <2>3. /\ node = Node(node.op, node.ins, node.shape, node.attrs) /\ IsSequence(node.ins)
        /\ DOMAIN node.ins = 1..Len(node.ins) /\ Len(node.ins) \in Nat /\ Len(node.ins) \in Arity(node.op)
        /\ Placed(node, old[j], shapes)
    BY <2>1, <2>2, NodeFacts
  <2>4. /\ h.nodes[j] = Node(node.op, ins, node.shape, node.attrs)
        /\ \A k \in DOMAIN node.ins : ins[k] \in 1..(j - 1) /\ old[ins[k]] = node.ins[k]
    BY <1>7, <2>1, ZenonT(60)
  <2>5. /\ h.nodes[j].op = node.op /\ h.nodes[j].ins = ins
        /\ h.nodes[j].shape = node.shape /\ h.nodes[j].attrs = node.attrs
    BY <2>4, NodeFields
  <2>6. DOMAIN ins = DOMAIN node.ins /\ ins \in [1..Len(node.ins) -> 1..(j - 1)]
    BY <2>1, <2>3, <2>4
  <2>7. IsSequence(ins) /\ Len(ins) = Len(node.ins)
    BY <2>3, <2>6, SequenceByDomain
  <2>8. NodeAfter(h.nodes[j], j - 1)
    BY <2>3, <2>4, <2>5, <2>6, <2>7 DEF NodeAfter, Reads
  <2>9. j \in DOMAIN shapes <=> old[j] \in DOMAIN shapes
    BY <1>3, <2>2
  <2>10. j \in DOMAIN shapes => old[j] = j
    BY <1>3
  <2>11. Placed(h.nodes[j], j, shapes)
    <3>1. CASE j \in DOMAIN shapes
      <4>1. node = Node("placeholder", << >>, shapes[j], << >>)
        BY <2>3, <2>10, <3>1 DEF Placed
      <4>2. node.op = "placeholder" /\ node.ins = << >> /\ node.shape = shapes[j] /\ node.attrs = << >>
        BY <4>1, NodeFields
      <4>3. ins = << >>
        BY <2>1, <4>2
      <4> QED
        BY <2>4, <3>1, <4>2, <4>3 DEF Placed
    <3>2. CASE j \notin DOMAIN shapes
      BY <2>3, <2>5, <2>9, <3>2 DEF Placed
    <3> QED
      BY <3>1, <3>2
  <2>12. Follows(g, h, old, j)
    <3>1. node.op = "placeholder" => old[j] = j
      BY <2>3, <2>9, <2>10 DEF Placed
    <3> QED
      BY <2>1, <2>4, <2>5, <2>6, <3>1 DEF Follows
  <2> QED
    BY <2>8, <2>11, <2>12
<1>11. IsGraph(h, shapes)
  <2>1. h.inputs = [k \in DOMAIN shapes |-> k]
    BY <1>3, <1>5, <1>6
  <2>2. h.output \in DOMAIN h.nodes
    BY <1>3, <1>4, <1>6, <1>8
  <2>3. Len(shapes) <= Len(h.nodes)
    <3>1. CASE Len(shapes) = 0
      BY <1>3, <1>9, <3>1
    <3>2. CASE Len(shapes) # 0
      <4>1. Len(shapes) \in DOMAIN shapes
        BY <1>5, <3>2
      <4>2. Len(shapes) \in 1..c
        BY <1>3, <4>1
      <4> QED
        BY <1>3, <1>9, <4>2
    <3> QED
      BY <3>1, <3>2
  <2> QED
    BY <1>5, <1>6, <1>8, <1>9, <1>10, <2>1, <2>2, <2>3 DEF IsGraph, AreNodes
<1>12. OnlyLive(h)
  <2> SUFFICES ASSUME NEW i \in 1..c, h.nodes[i].op # "placeholder", i # h.output
               PROVE \E j \in 1..c : i \in Operands(h.nodes[j])
    BY <1>8 DEF OnlyLive
  <2>1. old[i] \in kept /\ r[old[i]] = i
    BY <1>3
  <2>2. old[i] # g.output
    BY <1>6, <2>1
  <2>3. old[i] \notin DOMAIN shapes
    <3>1. i \in DOMAIN shapes => h.nodes[i].op = "placeholder"
      BY <1>10, NodeFields DEF Placed
    <3> QED
      BY <1>3, <2>1, <3>1
  <2>4. PICK k \in kept : old[i] \in Operands(g.nodes[k])
    BY <1>4, <2>1, <2>2, <2>3
  <2>5. r[k] \in 1..c /\ old[r[k]] = k
    BY <1>3
  <2>6. PICK m \in DOMAIN g.nodes[k].ins : old[i] = g.nodes[k].ins[m]
    BY <2>4 DEF Operands
  <2>7. h.nodes[r[k]].ins = [m1 \in DOMAIN g.nodes[k].ins |-> r[g.nodes[k].ins[m1]]]
    <3>1. h.nodes[r[k]] = Node(g.nodes[old[r[k]]].op, [m1 \in DOMAIN g.nodes[old[r[k]]].ins |-> r[g.nodes[old[r[k]]].ins[m1]]],
                               g.nodes[old[r[k]]].shape, g.nodes[old[r[k]]].attrs)
      BY <1>7, <2>5
    <3> QED
      BY <2>5, <3>1, NodeFields
  <2>8. h.nodes[r[k]].ins[m] = i
    BY <2>1, <2>6, <2>7
  <2> QED
    BY <2>5, <2>7, <2>8 DEF Operands
<1>13. old \in [DOMAIN h.nodes -> DOMAIN g.nodes] /\ old[h.output] = g.output
  BY <1>3, <1>4, <1>6, <1>8
<1>14. Eliminated(g, shapes, h, old)
  BY <1>8, <1>10, <1>11, <1>12, <1>13 DEF Eliminated
<1> QED
  BY <1>1, <1>14

(* Running what is left gives what running all of it gave.                 *)
LEMMA EliminationRuns ==
  ASSUME NEW g, NEW shapes, IsGraph(g, shapes), NEW arguments, RunsOn(g, arguments)
  PROVE  /\ IsGraph(DeadCodeElimination(g), shapes) /\ OnlyLive(DeadCodeElimination(g))
         /\ RunsOn(DeadCodeElimination(g), arguments)
         /\ RunOn(DeadCodeElimination(g), arguments) = RunOn(g, arguments)
<1>1. PICK h : h = DeadCodeElimination(g)
  OBVIOUS
<1>2. PICK where : Eliminated(g, shapes, h, where)
  BY <1>1, EliminationFollows
<1>3. Computes(g, arguments, ValuesOn(g, arguments))
  BY RunIsComputed
<1>4. /\ IsGraph(h, shapes) /\ OnlyLive(h)
      /\ where \in [DOMAIN h.nodes -> DOMAIN g.nodes] /\ where[h.output] = g.output
      /\ \A j \in DOMAIN h.nodes : Follows(g, h, where, j)
  BY <1>2 DEF Eliminated
<1>5. \A j \in DOMAIN h.nodes :
        Makes(h, arguments, j, ValuesFrom(ValuesOn(g, arguments), where),
              ValuesFrom(ValuesOn(g, arguments), where)[j])
  BY <1>3, <1>4, FollowerMakes
<1>6. RunsOn(h, arguments) /\ RunOn(h, arguments) = RunOn(g, arguments)
  BY <1>3, <1>4, <1>5, FollowersRun
<1> QED
  BY <1>1, <1>4, <1>6

(***************************************************************************)
(* elementwise_fusion: the groups are chains                               *)
(***************************************************************************)
LEMMA LeastExists ==
  ASSUME NEW T \in SUBSET Nat, T # {}
  PROVE  Min(T) \in T /\ \A i \in T : Min(T) <= i
<1> DEFINE R == {ss \in Nat \X Nat : ss[1] < ss[2]}
<1>1. IsWellFoundedOn(R, Nat)
  BY NatLessThanWellFounded DEF OpToRel
<1>2. \E x \in T : \A y \in T : ~ (<<y, x>> \in R)
  <2> HIDE DEF R
  <2> QED
    BY <1>1, WFMin
<1>3. PICK x \in T : \A y \in T : ~ (<<y, x>> \in R)
  BY <1>2
<1>4. \A y \in T : x =< y
  <2> SUFFICES ASSUME NEW y \in T PROVE x <= y
    OBVIOUS
  <2>1. <<y, x>> \in Nat \X Nat
    OBVIOUS
  <2>2. ~ (y < x)
    BY <1>3, <2>1
  <2> QED
    BY <2>2
<1> HIDE DEF R
<1> QED
  BY <1>4 DEF Min

LEMMA SoleConsumer ==
  ASSUME NEW g, NEW shapes, IsGraph(g, shapes), NEW k, NEW i \in DOMAIN g.nodes,
         k \in Operands(g.nodes[i]), SingleUse(g, k)
  PROVE  Consumers(g, k) = {i}
<1>1. i \in Consumers(g, k)
  BY DEF Consumers
<1>2. PICK T : T = Consumers(g, k)
  OBVIOUS
<1>3. IsFiniteSet(T)
  <2>1. PICK n \in Nat : DOMAIN g.nodes = 1..n
    BY GraphFacts
  <2>2. T \in SUBSET (0..n)
    BY <1>2, <2>1 DEF Consumers
  <2>3. IsFiniteSet(0..n)
    BY FS_Interval
  <2> QED
    BY <2>2, <2>3, FS_Subset
<1>4. Cardinality(T) = 1
  BY <1>2 DEF SingleUse
<1>5. \E x : T = {x}
  BY <1>3, <1>4, FS_Singleton
<1> QED
  BY <1>1, <1>2, <1>5

(* Only i reads a, the operand whose group it joins.                       *)
Joins(g, i, a) ==
  /\ a = MergeInto(g, i) /\ a \in 1..(i - 1) /\ a \in DOMAIN g.nodes
  /\ a \in Operands(g.nodes[i]) /\ Fusable(g, a) /\ Consumers(g, a) = {i}

LEMMA MergeFacts ==
  ASSUME NEW g, NEW shapes, IsGraph(g, shapes), NEW i \in DOMAIN g.nodes, MergeInto(g, i) # 0
  PROVE  Joins(g, i, MergeInto(g, i))
<1>1. PICK ins : ins = g.nodes[i].ins
  OBVIOUS
<1> DEFINE join == {k \in DOMAIN ins : Fusable(g, ins[k]) /\ SingleUse(g, ins[k])}
<1>2. MergeInto(g, i) = IF join = {} THEN 0 ELSE ins[Min(join)]
  BY <1>1 DEF MergeInto
<1>3. join # {} /\ MergeInto(g, i) = ins[Min(join)]
  BY <1>2
<1>4. /\ DOMAIN ins \subseteq Nat
      /\ \A k \in DOMAIN ins : ins[k] \in 1..(i - 1) /\ ins[k] \in DOMAIN g.nodes
  BY <1>1, NodeFacts
<1>5. Min(join) \in join
  <2>1. join \in SUBSET Nat
    BY <1>4
  <2> HIDE DEF join
  <2> QED
    BY <1>3, <2>1, LeastExists
<1>6. PICK k \in DOMAIN ins : MergeInto(g, i) = ins[k] /\ Fusable(g, ins[k]) /\ SingleUse(g, ins[k])
  BY <1>3, <1>5
<1>7. ins[k] \in Operands(g.nodes[i])
  BY <1>1 DEF Operands
<1>8. Consumers(g, ins[k]) = {i}
  BY <1>6, <1>7, SoleConsumer
<1> QED
  BY <1>4, <1>6, <1>7, <1>8 DEF Joins

(* ... and every operand like that is the one.                             *)
LEMMA MergesWhenItCan ==
  ASSUME NEW g, NEW shapes, IsGraph(g, shapes), NEW i \in DOMAIN g.nodes, NEW a,
         g.nodes[i].ins # << >>, \A k \in DOMAIN g.nodes[i].ins : g.nodes[i].ins[k] = a,
         Fusable(g, a), SingleUse(g, a)
  PROVE  MergeInto(g, i) = a
<1>1. PICK ins : ins = g.nodes[i].ins
  OBVIOUS
<1> DEFINE join == {k \in DOMAIN ins : Fusable(g, ins[k]) /\ SingleUse(g, ins[k])}
<1>2. MergeInto(g, i) = IF join = {} THEN 0 ELSE ins[Min(join)]
  BY <1>1 DEF MergeInto
<1>3. join = DOMAIN ins /\ DOMAIN ins \in SUBSET Nat
  BY <1>1, NodeFacts
<1>4. DOMAIN ins # {}
  <2>1. IsSequence(ins) /\ Len(ins) \in Nat /\ DOMAIN ins = 1..Len(ins)
    BY <1>1, NodeFacts
  <2>2. Len(ins) # 0
    BY <1>1, <2>1, EmptySeq DEF IsSequence
  <2>3. 1 \in 1..Len(ins)
    BY <2>1, <2>2
  <2> HIDE DEF join
  <2> QED
    BY <2>1, <2>3
<1>5. Min(DOMAIN ins) \in DOMAIN ins
  BY <1>3, <1>4, LeastExists
<1> HIDE DEF join
<1> QED
  BY <1>1, <1>2, <1>3, <1>4, <1>5

Grouping(g, n, group) ==
  group = [i \in 1..n |-> IF ~Fusable(g, i) THEN 0
                          ELSE IF MergeInto(g, i) = 0 THEN i ELSE group[MergeInto(g, i)]]

LEMMA GroupingExists ==
  ASSUME NEW g, NEW shapes, IsGraph(g, shapes), NEW n \in 0..Len(g.nodes)
  PROVE  \E group : Grouping(g, n, group)
<1>1. DOMAIN g.nodes = 1..Len(g.nodes) /\ Len(g.nodes) \in Nat
  BY GraphFacts
<1> DEFINE S == {m \in 0..Len(g.nodes) : \E group : Grouping(g, m, group)}
<1>2. 0 \in S
  <2>1. Grouping(g, 0, [i \in 1..0 |-> 0])
    BY DEF Grouping
  <2> QED
    BY <1>1, <2>1
<1>3. ASSUME NEW m \in 0..(Len(g.nodes) - 1), m \in S PROVE m + 1 \in S
  <2>1. PICK f : Grouping(g, m, f)
    BY <1>3
  <2> DEFINE value(i, h) == IF ~Fusable(g, i) THEN 0
                            ELSE IF MergeInto(g, i) = 0 THEN i ELSE h[MergeInto(g, i)]
  <2> DEFINE h == [i \in 1..(m + 1) |-> IF i = m + 1 THEN value(m + 1, f) ELSE f[i]]
  <2>2. ASSUME NEW i \in 1..(m + 1) PROVE h[i] = value(i, h)
    <3>1. i \in DOMAIN g.nodes
      BY <1>1
    <3>2. MergeInto(g, i) # 0 => MergeInto(g, i) \in 1..(i - 1)
      BY <3>1, MergeFacts DEF Joins
    <3>3. MergeInto(g, i) # 0 => h[MergeInto(g, i)] = f[MergeInto(g, i)] /\ MergeInto(g, i) \in 1..m
      BY <3>2
    <3>4. CASE i = m + 1
      <4>1. h[i] = value(i, f)
        BY <3>4
      <4> HIDE DEF h
      <4> QED
        BY <3>3, <4>1
    <3>5. CASE i # m + 1
      <4>1. h[i] = f[i] /\ i \in 1..m
        BY <3>5
      <4>2. f[i] = value(i, f)
        BY <2>1, <4>1 DEF Grouping
      <4> HIDE DEF h
      <4> QED
        BY <3>3, <4>1, <4>2
    <3> QED
      BY <3>4, <3>5
  <2>3. h = [i \in 1..(m + 1) |-> value(i, h)]
    <3>1. h = [i \in 1..(m + 1) |-> h[i]]
      OBVIOUS
    <3> HIDE DEF h, value
    <3> QED
      BY <2>2, <3>1
  <2> HIDE DEF h
  <2>4. Grouping(g, m + 1, h)
    BY <2>3 DEF Grouping
  <2>5. m + 1 \in 0..Len(g.nodes)
    BY <1>1
  <2> QED
    BY <2>4, <2>5
<1> HIDE DEF S
<1>4. n \in S
  BY <1>1, <1>2, <1>3, BoundedInduction
<1> QED
  BY <1>4 DEF S

(* A group is named by its first member, where it starts; every other      *)
(* member joins one before it.                                             *)
Groups(g, group) ==
  \A i \in DOMAIN g.nodes :
    /\ ~Fusable(g, i) => group[i] = 0
    /\ Fusable(g, i) => group[i] \in 1..i
    /\ Fusable(g, i) /\ MergeInto(g, i) = 0 => group[i] = i
    /\ Fusable(g, i) /\ MergeInto(g, i) # 0 =>
         group[i] = group[MergeInto(g, i)] /\ group[i] # i

LEMMA GroupsAre ==
  ASSUME NEW g, NEW shapes, IsGraph(g, shapes)
  PROVE  Groups(g, GroupOf(g))
<1>1. PICK n \in Nat : n = Len(g.nodes) /\ DOMAIN g.nodes = 1..n
  BY GraphFacts
<1> DEFINE f == CHOOSE group : Grouping(g, n, group)
<1>2. GroupOf(g) = CHOOSE group : group = [i \in DOMAIN g.nodes |->
                                             IF ~Fusable(g, i) THEN 0
                                             ELSE IF MergeInto(g, i) = 0 THEN i ELSE group[MergeInto(g, i)]]
  BY Zenon DEF GroupOf
<1>3. GroupOf(g) = f
  BY <1>1, <1>2 DEF Grouping
<1>4. Grouping(g, n, f)
  <2>1. n \in 0..Len(g.nodes)
    BY <1>1
  <2> QED
    BY <2>1, GroupingExists
<1> HIDE DEF f
<1>5. ASSUME NEW i \in 1..n
      PROVE  f[i] = IF ~Fusable(g, i) THEN 0 ELSE IF MergeInto(g, i) = 0 THEN i ELSE f[MergeInto(g, i)]
  BY <1>4 DEF Grouping
<1> DEFINE Good(i) == /\ ~Fusable(g, i) => f[i] = 0
                      /\ Fusable(g, i) => f[i] \in 1..i
                      /\ Fusable(g, i) /\ MergeInto(g, i) = 0 => f[i] = i
                      /\ Fusable(g, i) /\ MergeInto(g, i) # 0 => f[i] = f[MergeInto(g, i)] /\ f[i] # i
<1> DEFINE S == {m \in 0..n : \A i \in 1..m : Good(i)}
<1>6. 0 \in S
  OBVIOUS
<1>7. ASSUME NEW m \in 0..(n - 1), m \in S PROVE m + 1 \in S
  <2>1. m + 1 \in 1..n /\ \A i \in 1..(m + 1) : i \in 1..m \/ i = m + 1
    OBVIOUS
  <2>2. PICK k : k = MergeInto(g, m + 1)
    OBVIOUS
  <2>3. k # 0 => k \in 1..m /\ Fusable(g, k)
    <3>1. k # 0 => Joins(g, m + 1, k)
      BY <1>1, <2>1, <2>2, MergeFacts
    <3> QED
      BY <3>1 DEF Joins
  <2>4. k # 0 => f[k] \in 1..k
    BY <1>7, <2>3
  <2>5. f[m + 1] = IF ~Fusable(g, m + 1) THEN 0 ELSE IF k = 0 THEN m + 1 ELSE f[k]
    BY <1>5, <2>1, <2>2
  <2>6. Good(m + 1)
    BY <2>2, <2>3, <2>4, <2>5
  <2> QED
    BY <1>7, <2>1, <2>6
<1> HIDE DEF S
<1>8. n \in S
  BY <1>6, <1>7, BoundedInduction
<1>9. \A i \in 1..n : Good(i)
  BY <1>8 DEF S
<1> QED
  BY <1>1, <1>3, <1>9 DEF Groups

(* Of two members of a group the one before has a successor, which reads   *)
(* it, no later than the other.                                            *)
Succeeded(g, group, c, m) ==
  \E d \in DOMAIN g.nodes :
    Fusable(g, d) /\ MergeInto(g, d) = c /\ c < d /\ d <= m /\ group[d] = group[c]

LEMMA Succession ==
  ASSUME NEW g, NEW shapes, IsGraph(g, shapes), NEW group, Groups(g, group),
         NEW c \in DOMAIN g.nodes, NEW m \in DOMAIN g.nodes, c < m, group[c] = group[m], group[c] # 0
  PROVE  Succeeded(g, group, c, m)
<1>1. PICK n \in Nat : n = Len(g.nodes) /\ DOMAIN g.nodes = 1..n
  BY GraphFacts
<1> DEFINE S == {k \in 0..n : \A e \in 1..k : \A b \in 1..(e - 1) :
                   group[b] = group[e] /\ group[b] # 0 => Succeeded(g, group, b, e)}
<1>2. 0 \in S
  OBVIOUS
<1>3. ASSUME NEW k \in 0..(n - 1), k \in S PROVE k + 1 \in S
  <2>1. k + 1 \in 1..n /\ \A e \in 1..(k + 1) : e \in 1..k \/ e = k + 1
    OBVIOUS
  <2>2. ASSUME NEW b \in 1..k, group[b] = group[k + 1], group[b] # 0
        PROVE  Succeeded(g, group, b, k + 1)
    <3>1. b \in DOMAIN g.nodes /\ k + 1 \in DOMAIN g.nodes /\ b \in Nat
      BY <1>1, <2>1
    <3>2. Fusable(g, k + 1) /\ Fusable(g, b) /\ group[b] \in 1..b
      BY <2>2, <3>1 DEF Groups
    <3>3. MergeInto(g, k + 1) # 0
      <4>1. group[k + 1] # k + 1
        BY <2>2, <3>2
      <4> QED
        BY <3>1, <3>2, <4>1 DEF Groups
    <3>4. PICK e : e = MergeInto(g, k + 1)
      OBVIOUS
    <3>5. Joins(g, k + 1, e)
      BY <3>1, <3>3, <3>4, MergeFacts
    <3>6. e \in 1..k /\ e \in DOMAIN g.nodes /\ Consumers(g, e) = {k + 1}
      BY <3>5 DEF Joins
    <3>7. group[e] = group[k + 1]
      BY <3>1, <3>2, <3>3, <3>4 DEF Groups
    <3>8. CASE e = b
      BY <2>2, <3>1, <3>2, <3>4, <3>8 DEF Succeeded
    <3>9. CASE b < e
      <4>1. b \in 1..(e - 1)
        BY <3>6, <3>9
      <4>2. Succeeded(g, group, b, e)
        BY <1>3, <2>2, <3>6, <3>7, <4>1
      <4>3. PICK d \in DOMAIN g.nodes :
              Fusable(g, d) /\ MergeInto(g, d) = b /\ b < d /\ d <= e /\ group[d] = group[b]
        BY <4>2 DEF Succeeded
      <4>4. d <= k + 1
        BY <1>1, <3>6, <4>3
      <4> QED
        BY <4>3, <4>4 DEF Succeeded
    <3>10. CASE e < b
      <4>1. e \in 1..(b - 1) /\ b \in 1..k
        BY <3>6, <3>10
      <4>2. Succeeded(g, group, e, b)
        BY <1>3, <2>2, <3>7, <4>1
      <4>3. PICK d \in DOMAIN g.nodes : Fusable(g, d) /\ MergeInto(g, d) = e /\ d <= b
        BY <4>2 DEF Succeeded
      <4>4. Joins(g, d, e)
        <5>1. MergeInto(g, d) # 0
          BY <3>6, <4>3
        <5> QED
          BY <4>3, <5>1, MergeFacts
      <4>5. Consumers(g, e) = {d}
        BY <4>4 DEF Joins
      <4>6. d = k + 1
        BY <3>6, <4>5
      <4> QED
        BY <4>3, <4>6
    <3> QED
      BY <3>1, <3>6, <3>8, <3>9, <3>10
  <2>3. ASSUME NEW e \in 1..(k + 1), NEW b \in 1..(e - 1), group[b] = group[e], group[b] # 0
        PROVE  Succeeded(g, group, b, e)
    <3>1. CASE e \in 1..k
      BY <1>3, <2>3, <3>1
    <3>2. CASE e = k + 1
      <4>1. b \in 1..k
        BY <3>2
      <4> QED
        BY <2>2, <2>3, <3>2, <4>1
    <3> QED
      BY <2>1, <3>1, <3>2
  <2> QED
    BY <2>1, <2>3
<1> HIDE DEF S
<1>4. n \in S
  BY <1>2, <1>3, BoundedInduction
<1>5. m \in 1..n /\ c \in 1..(m - 1)
  BY <1>1
<1> QED
  BY <1>4, <1>5 DEF S

(***************************************************************************)
(* The members of a group, in order                                        *)
(***************************************************************************)
Listing(ids, n, list) ==
  list = [i \in 0..n |-> IF i = 0 THEN << >>
                         ELSE IF i \in ids THEN Append(list[i - 1], i) ELSE list[i - 1]]

LEMMA ListingExists ==
  ASSUME NEW ids, NEW n \in Nat
  PROVE  \E list : Listing(ids, n, list)
<1> DEFINE S == {m \in Nat : \E list : Listing(ids, m, list)}
<1>1. 0 \in S
  <2>1. Listing(ids, 0, [i \in 0..0 |-> << >>])
    BY DEF Listing
  <2> QED
    BY <2>1
<1>2. ASSUME NEW m \in Nat, m \in S PROVE m + 1 \in S
  <2>1. PICK f : Listing(ids, m, f)
    BY <1>2
  <2> DEFINE next(i, before) == IF i \in ids THEN Append(before, i) ELSE before
  <2> DEFINE h == [i \in 0..(m + 1) |-> IF i = m + 1 THEN next(m + 1, f[m]) ELSE f[i]]
  <2>2. ASSUME NEW i \in 0..(m + 1)
        PROVE  h[i] = IF i = 0 THEN << >> ELSE next(i, h[i - 1])
    <3>1. CASE i = m + 1
      <4>1. i # 0 /\ i - 1 = m /\ m \in 0..(m + 1) /\ m # m + 1
        BY <3>1
      <4>2. h[m] = f[m]
        BY <4>1
      <4>3. h[i] = next(i, f[m])
        BY <3>1
      <4> HIDE DEF h, next
      <4> QED
        BY <4>1, <4>2, <4>3
    <3>2. CASE i # m + 1
      <4>1. i \in 0..m /\ (i # 0 => i - 1 \in 0..(m + 1) /\ i - 1 # m + 1)
        BY <3>2
      <4>2. h[i] = f[i] /\ (i # 0 => h[i - 1] = f[i - 1])
        BY <3>2, <4>1
      <4>3. f[i] = IF i = 0 THEN << >> ELSE next(i, f[i - 1])
        BY <2>1, <4>1 DEF Listing
      <4> HIDE DEF h, next
      <4> QED
        BY <4>2, <4>3
    <3> QED
      BY <3>1, <3>2
  <2>3. h = [i \in 0..(m + 1) |-> IF i = 0 THEN << >> ELSE next(i, h[i - 1])]
    <3>1. h = [i \in 0..(m + 1) |-> h[i]]
      OBVIOUS
    <3> HIDE DEF h, next
    <3> QED
      BY <2>2, <3>1
  <2> HIDE DEF h
  <2>4. Listing(ids, m + 1, h)
    BY <2>3 DEF Listing
  <2> QED
    BY <2>4
<1> HIDE DEF S
<1>3. n \in S
  BY <1>1, <1>2, SetInduction
<1> QED
  BY <1>3 DEF S

(* L lists the ids up to m, each once, smaller ones first.                 *)
Lists(L, ids, m) ==
  /\ L \in Seq(Nat) /\ DOMAIN L = 1..Len(L) /\ Len(L) \in Nat
  /\ \A k \in DOMAIN L : L[k] \in ids /\ L[k] \in 1..m
  /\ \A i \in 1..m : i \in ids => \E k \in DOMAIN L : L[k] = i
  /\ \A k \in DOMAIN L : \A q \in DOMAIN L : k < q => L[k] < L[q]

LEMMA InOrderLists ==
  ASSUME NEW ids, NEW n \in Nat
  PROVE  Lists(InOrder(ids, n), ids, n)
<1> DEFINE f == CHOOSE list : Listing(ids, n, list)
<1>1. InOrder(ids, n) = f[n]
  BY Zenon DEF InOrder, Listing
<1>2. Listing(ids, n, f)
  BY ListingExists
<1> HIDE DEF f
<1> DEFINE S == {m \in 0..n : Lists(f[m], ids, m)}
<1>3. 0 \in S
  <2>1. f[0] = << >>
    BY <1>2 DEF Listing
  <2>2. Lists(<< >>, ids, 0)
    BY DEF Lists
  <2> QED
    BY <2>1, <2>2
<1>4. ASSUME NEW m \in 0..(n - 1), m \in S PROVE m + 1 \in S
  <2>1. m + 1 \in 0..n /\ m + 1 # 0 /\ (m + 1) - 1 = m
    OBVIOUS
  <2>2. f[m + 1] = IF m + 1 \in ids THEN Append(f[m], m + 1) ELSE f[m]
    BY <1>2, <2>1 DEF Listing
  <2>3. PICK L : L = f[m]
    OBVIOUS
  <2>4. /\ L \in Seq(Nat) /\ DOMAIN L = 1..Len(L) /\ Len(L) \in Nat
        /\ \A k \in DOMAIN L : L[k] \in ids /\ L[k] \in 1..m
        /\ \A i \in 1..m : i \in ids => \E k \in DOMAIN L : L[k] = i
        /\ \A k \in DOMAIN L : \A q \in DOMAIN L : k < q => L[k] < L[q]
    BY <1>4, <2>3 DEF Lists
  <2>5. \A i \in 1..(m + 1) : i \in 1..m \/ i = m + 1
    OBVIOUS
  <2>6. CASE m + 1 \notin ids
    <3>1. f[m + 1] = L
      BY <2>2, <2>3, <2>6
    <3>2. Lists(L, ids, m + 1)
      BY <2>4, <2>5, <2>6 DEF Lists
    <3> QED
      BY <2>1, <3>1, <3>2
  <2>7. CASE m + 1 \in ids
    <3>1. PICK A : A = Append(L, m + 1)
      OBVIOUS
    <3>2. /\ A \in Seq(Nat) /\ Len(A) = Len(L) + 1 /\ DOMAIN A = 1..(Len(L) + 1)
          /\ \A k \in 1..(Len(L) + 1) : A[k] = IF k = Len(L) + 1 THEN m + 1 ELSE L[k]
      <4>1. IsSequence(L)
        BY <2>4, SequenceOfAnything
      <4>2. A \in Seq(Nat)
        BY <2>4, <3>1
      <4> QED
        BY <3>1, <4>1, <4>2, AppendToAnything
    <3>3. \A k \in DOMAIN A : A[k] \in ids /\ A[k] \in 1..(m + 1)
      <4> SUFFICES ASSUME NEW k \in DOMAIN A PROVE A[k] \in ids /\ A[k] \in 1..(m + 1)
        OBVIOUS
      <4>1. CASE k = Len(L) + 1
        <5>1. A[k] = m + 1
          BY <3>2, <4>1
        <5> QED
          BY <2>7, <5>1
      <4>2. CASE k # Len(L) + 1
        <5>1. k \in DOMAIN L
          BY <2>4, <3>2, <4>2
        <5>2. L[k] \in ids /\ L[k] \in 1..m
          BY <2>4, <5>1
        <5> QED
          BY <3>2, <4>2, <5>2
      <4> QED
        BY <4>1, <4>2
    <3>4. \A i \in 1..(m + 1) : i \in ids => \E k \in DOMAIN A : A[k] = i
      <4> SUFFICES ASSUME NEW i \in 1..(m + 1), i \in ids PROVE \E k \in DOMAIN A : A[k] = i
        OBVIOUS
      <4>1. CASE i = m + 1
        <5>1. Len(L) + 1 \in DOMAIN A /\ A[Len(L) + 1] = i
          BY <2>4, <3>2, <4>1
        <5> QED
          BY <5>1
      <4>2. CASE i # m + 1
        <5>1. PICK k \in DOMAIN L : L[k] = i
          BY <2>4, <2>5, <4>2
        <5>2. k \in DOMAIN A /\ A[k] = i
          BY <2>4, <3>2, <5>1
        <5> QED
          BY <5>2
      <4> QED
        BY <4>1, <4>2
    <3>5. \A k \in DOMAIN A : \A q \in DOMAIN A : k < q => A[k] < A[q]
      <4> SUFFICES ASSUME NEW k \in DOMAIN A, NEW q \in DOMAIN A, k < q PROVE A[k] < A[q]
        OBVIOUS
      <4>1. k \in DOMAIN L /\ A[k] = L[k]
        BY <2>4, <3>2, SMTT(60)
      <4>2. L[k] \in 1..m
        BY <2>4, <4>1
      <4>3. CASE q = Len(L) + 1
        <5>1. A[q] = m + 1
          BY <3>2, <4>3
        <5>2. L[k] < m + 1
          BY <4>2
        <5> QED
          BY <4>1, <5>1, <5>2
      <4>4. CASE q # Len(L) + 1
        <5>1. q \in DOMAIN L /\ A[q] = L[q]
          BY <2>4, <3>2, <4>4
        <5> QED
          BY <2>4, <4>1, <5>1
      <4> QED
        BY <4>3, <4>4
    <3>6. Lists(A, ids, m + 1)
      BY <2>4, <3>2, <3>3, <3>4, <3>5 DEF Lists
    <3> QED
      BY <2>1, <2>2, <2>3, <2>7, <3>1, <3>6
  <2> QED
    BY <2>6, <2>7
<1> HIDE DEF S
<1>5. n \in S
  BY <1>3, <1>4, BoundedInduction
<1> QED
  BY <1>1, <1>5 DEF S

MembersOf(g, group, i) == {j \in DOMAIN g.nodes : group[j] = group[i]}

(* Each member of a group but the first joins the one before it; nothing   *)
(* joins the last.                                                         *)
IsChain(g, L) ==
  /\ \A k \in DOMAIN L : L[k] \in DOMAIN g.nodes /\ Fusable(g, L[k])
  /\ \A k \in DOMAIN L : k + 1 \in DOMAIN L => MergeInto(g, L[k + 1]) = L[k]
  /\ \A k \in DOMAIN L : \A b \in DOMAIN g.nodes :
       Fusable(g, b) /\ MergeInto(g, b) = L[k] => k + 1 \in DOMAIN L /\ b = L[k + 1]

LEMMA ListedChain ==
  ASSUME NEW g, NEW shapes, IsGraph(g, shapes), NEW group, Groups(g, group),
         NEW i \in DOMAIN g.nodes, group[i] # 0, NEW L, Lists(L, MembersOf(g, group, i), Len(g.nodes))
  PROVE  IsChain(g, L)
<1>1. PICK n \in Nat : n = Len(g.nodes) /\ DOMAIN g.nodes = 1..n
  BY GraphFacts
<1>2. /\ DOMAIN L = 1..Len(L) /\ Len(L) \in Nat
      /\ \A k \in DOMAIN L : L[k] \in 1..n /\ group[L[k]] = group[i]
      /\ \A j \in 1..n : group[j] = group[i] => \E k \in DOMAIN L : L[k] = j
      /\ \A k \in DOMAIN L : \A q \in DOMAIN L : k < q => L[k] < L[q]
  BY <1>1 DEF Lists, MembersOf
<1>3. \A k \in DOMAIN L : L[k] \in DOMAIN g.nodes /\ Fusable(g, L[k])
  BY <1>1, <1>2 DEF Groups
<1>4. ASSUME NEW d \in DOMAIN g.nodes, NEW b \in DOMAIN g.nodes,
             MergeInto(g, d) = MergeInto(g, b), MergeInto(g, b) # 0
      PROVE  d = b
  <2>1. Consumers(g, MergeInto(g, b)) = {b}
    BY <1>4, MergeFacts DEF Joins
  <2>2. Consumers(g, MergeInto(g, d)) = {d}
    BY <1>4, MergeFacts DEF Joins
  <2> QED
    BY <1>4, <2>1, <2>2
<1>5. ASSUME NEW k \in DOMAIN L, k + 1 \in DOMAIN L PROVE MergeInto(g, L[k + 1]) = L[k]
  <2>1. L[k] \in DOMAIN g.nodes /\ L[k + 1] \in DOMAIN g.nodes /\ L[k] < L[k + 1]
    BY <1>1, <1>2, <1>5
  <2>2. Succeeded(g, group, L[k], L[k + 1])
    BY <1>2, <1>5, <2>1, Succession
  <2>3. PICK d \in DOMAIN g.nodes :
          /\ Fusable(g, d) /\ MergeInto(g, d) = L[k] /\ L[k] < d /\ d <= L[k + 1]
          /\ group[d] = group[L[k]]
    BY <2>2 DEF Succeeded
  <2>4. PICK q \in DOMAIN L : L[q] = d
    BY <1>1, <1>2, <2>3
  <2>5. q = k + 1
    <3>1. L[k] \in Nat /\ L[k + 1] \in Nat /\ L[q] \in Nat /\ L[k] < L[q] /\ L[q] <= L[k + 1]
      BY <1>2, <1>5, <2>3, <2>4
    <3>2. ~ (q < k) /\ q # k
      BY <1>2, <3>1
    <3>3. ~ (k + 1 < q)
      BY <1>2, <1>5, <3>1
    <3> QED
      BY <1>2, <3>2, <3>3
  <2> QED
    BY <2>3, <2>4, <2>5
<1>6. ASSUME NEW k \in DOMAIN L, NEW b \in DOMAIN g.nodes, Fusable(g, b), MergeInto(g, b) = L[k]
      PROVE  k + 1 \in DOMAIN L /\ b = L[k + 1]
  <2>1. MergeInto(g, b) # 0 /\ L[k] \in Nat
    BY <1>2, <1>6
  <2>2. Joins(g, b, L[k])
    BY <1>6, <2>1, MergeFacts
  <2>3. L[k] < b /\ b \in Nat
    BY <1>1, <2>1, <2>2 DEF Joins
  <2>4. group[b] = group[L[k]]
    BY <1>6, <2>1 DEF Groups
  <2>5. PICK q \in DOMAIN L : L[q] = b
    BY <1>1, <1>2, <2>4
  <2>6. k < q
    <3>1. ~ (q < k) /\ q # k
      BY <1>2, <2>1, <2>3, <2>5
    <3> QED
      BY <1>2, <3>1
  <2>7. k + 1 \in DOMAIN L
    BY <1>2, <2>6
  <2>8. MergeInto(g, L[k + 1]) = L[k]
    BY <1>5, <2>7
  <2>9. L[k + 1] = b
    BY <1>3, <1>4, <1>6, <2>1, <2>7, <2>8
  <2> QED
    BY <2>7, <2>9
<1> QED
  BY <1>3, <1>5, <1>6 DEF IsChain

(***************************************************************************)
(* elementwise_fusion: what is emitted                                     *)
(***************************************************************************)
LEMMA ConcatAnything ==
  ASSUME NEW s, NEW t, IsSequence(s), IsSequence(t)
  PROVE  /\ IsSequence(s \o t) /\ Len(s \o t) = Len(s) + Len(t)
         /\ DOMAIN (s \o t) = 1..(Len(s) + Len(t))
         /\ \A i \in 1..(Len(s) + Len(t)) : (s \o t)[i] = IF i <= Len(s) THEN s[i] ELSE t[i - Len(s)]
         /\ s \o << >> = s
         /\ \A x : Append(s, x) = s \o <<x>>
         /\ \A u : IsSequence(u) => (s \o t) \o u = s \o (t \o u)
<1> DEFINE T == {s[k] : k \in DOMAIN s} \cup {t[k] : k \in DOMAIN t}
<1>1. s \in Seq(T) /\ t \in Seq(T)
  BY SeqMonotonic DEF IsSequence
<1> HIDE DEF T
<1>2. /\ s \o t \in Seq(T) /\ Len(s \o t) = Len(s) + Len(t)
      /\ \A i \in 1..(Len(s) + Len(t)) : (s \o t)[i] = IF i <= Len(s) THEN s[i] ELSE t[i - Len(s)]
  BY <1>1, ConcatProperties
<1>3. IsSequence(s \o t) /\ DOMAIN (s \o t) = 1..(Len(s) + Len(t))
  <2>1. IsSequence(s \o t)
    BY <1>2, SequenceOfAnything
  <2> QED
    BY <1>2, <2>1, SequenceIsAFunction
<1>4. s \o << >> = s
  BY <1>1, ConcatEmptySeq
<1>5. ASSUME NEW x PROVE Append(s, x) = s \o <<x>>
  <2> DEFINE U == T \cup {x}
  <2>1. s \in Seq(U) /\ x \in U
    BY <1>1, SeqMonotonic
  <2> HIDE DEF U
  <2> QED
    BY <2>1, AppendIsConcat
<1>6. ASSUME NEW u, IsSequence(u) PROVE (s \o t) \o u = s \o (t \o u)
  <2> DEFINE U == T \cup {u[k] : k \in DOMAIN u}
  <2>1. s \in Seq(U) /\ t \in Seq(U) /\ u \in Seq(U)
    BY <1>1, <1>6, SeqMonotonic DEF IsSequence
  <2> HIDE DEF U
  <2> QED
    BY <2>1, ConcatAssociative
<1> QED
  BY <1>2, <1>3, <1>4, <1>5, <1>6

LEMMA OneIsASequence ==
  ASSUME NEW x
  PROVE  IsSequence(<<x>>) /\ Len(<<x>>) = 1 /\ <<x>>[1] = x /\ IsSequence(<< >>) /\ Len(<< >>) = 0
BY DEF IsSequence

Single(a) == [op |-> "none", members |-> <<a>>]

Pair(g, a, b) == [op |-> ClassifyPair(g, a, b), members |-> <<a, b>>]

(* A node alone, when no pair was missed ...                               *)
IsSingle(g, segment, a) ==
  /\ segment = Single(a) /\ a \in DOMAIN g.nodes
  /\ \A b \in DOMAIN g.nodes : Fusable(g, b) /\ MergeInto(g, b) = a => ClassifyPair(g, a, b) = "none"

(* ... or two that have a kernel.                                          *)
IsPair(g, segment, a, b) ==
  /\ segment = Pair(g, a, b) /\ a \in DOMAIN g.nodes /\ b \in DOMAIN g.nodes
  /\ Fusable(g, a) /\ Fusable(g, b) /\ MergeInto(g, b) = a /\ ClassifyPair(g, a, b) # "none"

IsSegment(g, segment) ==
  (\E a : IsSingle(g, segment, a)) \/ (\E a, b : IsPair(g, segment, a, b))

Members(segment) == ToSet(segment.members)

First(segment) == segment.members[1]

(* The segments emitted for the nodes in done.                             *)
Laid(g, segments, done) ==
  /\ IsSequence(segments)
  /\ \A t \in DOMAIN segments : IsSegment(g, segments[t]) /\ Members(segments[t]) \subseteq done
  /\ \A i \in done : \E t \in DOMAIN segments : i \in Members(segments[t])
  /\ \A t \in DOMAIN segments : \A u \in DOMAIN segments : \A i \in Members(segments[t]) :
       i \in Members(segments[u]) => t = u
  /\ \A t \in DOMAIN segments : \A c \in Operands(g.nodes[First(segments[t])]) :
       \E u \in 1..(t - 1) : c \in Members(segments[u])

LEMMA LaidAppend ==
  ASSUME NEW g, NEW segments, NEW done, Laid(g, segments, done), NEW segment, IsSegment(g, segment),
         Members(segment) \cap done = {}, Operands(g.nodes[First(segment)]) \subseteq done,
         NEW after, after = done \cup Members(segment)
  PROVE  Laid(g, Append(segments, segment), after)
<1>1. PICK m, A : m = Len(segments) /\ A = Append(segments, segment)
  OBVIOUS
<1>2. /\ IsSequence(segments) /\ m \in Nat /\ DOMAIN segments = 1..m
      /\ \A t \in 1..m : IsSegment(g, segments[t]) /\ Members(segments[t]) \subseteq done
      /\ \A i \in done : \E t \in 1..m : i \in Members(segments[t])
      /\ \A t \in 1..m : \A u \in 1..m : \A i \in Members(segments[t]) :
           i \in Members(segments[u]) => t = u
      /\ \A t \in 1..m : \A c \in Operands(g.nodes[First(segments[t])]) :
           \E u \in 1..(t - 1) : c \in Members(segments[u])
  <2>1. IsSequence(segments)
    BY DEF Laid
  <2>2. m \in Nat /\ DOMAIN segments = 1..m
    BY <1>1, <2>1, SequenceIsAFunction
  <2> QED
    BY <2>1, <2>2 DEF Laid
<1>3. /\ IsSequence(A) /\ DOMAIN A = 1..(m + 1)
      /\ \A t \in 1..(m + 1) : A[t] = IF t = m + 1 THEN segment ELSE segments[t]
  BY <1>1, <1>2, AppendToAnything
<1>4. A[m + 1] = segment /\ m + 1 \in 1..(m + 1)
  BY <1>2, <1>3
<1>5. ASSUME NEW t \in 1..m PROVE A[t] = segments[t] /\ t \in 1..(m + 1)
  BY <1>2, <1>3
<1>6. \A t \in 1..(m + 1) : t \in 1..m \/ t = m + 1
  BY <1>2
<1>7. ASSUME NEW t \in 1..(m + 1) PROVE IsSegment(g, A[t]) /\ Members(A[t]) \subseteq after
  <2>1. CASE t = m + 1
    BY <1>4, <2>1
  <2>2. CASE t \in 1..m
    BY <1>2, <1>5, <2>2
  <2> QED
    BY <1>6, <2>1, <2>2
<1>8. ASSUME NEW i \in after PROVE \E t \in 1..(m + 1) : i \in Members(A[t])
  <2>1. CASE i \in done
    <3>1. PICK t \in 1..m : i \in Members(segments[t])
      BY <1>2, <2>1
    <3> QED
      BY <1>5, <3>1
  <2>2. CASE i \in Members(segment)
    BY <1>4, <2>2
  <2> QED
    BY <2>1, <2>2
<1>9. ASSUME NEW t \in 1..(m + 1), NEW u \in 1..(m + 1), NEW i \in Members(A[t]), i \in Members(A[u])
      PROVE  t = u
  <2>1. CASE t = m + 1 /\ u = m + 1
    BY <2>1
  <2>2. CASE t \in 1..m /\ u \in 1..m
    BY <1>2, <1>5, <1>9, <2>2
  <2>3. CASE t \in 1..m /\ u = m + 1
    BY <1>2, <1>4, <1>5, <1>9, <2>3
  <2>4. CASE t = m + 1 /\ u \in 1..m
    BY <1>2, <1>4, <1>5, <1>9, <2>4
  <2> QED
    BY <1>6, <2>1, <2>2, <2>3, <2>4
<1>10. ASSUME NEW t \in 1..(m + 1), NEW c \in Operands(g.nodes[First(A[t])])
       PROVE  \E u \in 1..(t - 1) : c \in Members(A[u])
  <2>1. CASE t \in 1..m
    <3>1. PICK u \in 1..(t - 1) : c \in Members(segments[u])
      BY <1>2, <1>5, <1>10, <2>1
    <3>2. u \in 1..m
      BY <1>2, <2>1, <3>1
    <3> QED
      BY <1>5, <3>1, <3>2
  <2>2. CASE t = m + 1
    <3>1. c \in done
      BY <1>4, <2>2
    <3>2. PICK u \in 1..m : c \in Members(segments[u])
      BY <1>2, <3>1
    <3>3. u \in 1..(t - 1)
      BY <1>2, <2>2
    <3> QED
      BY <1>5, <3>2, <3>3
  <2> QED
    BY <1>6, <2>1, <2>2
<1> QED
  BY <1>1, <1>3, <1>7, <1>8, <1>9, <1>10 DEF Laid

(***************************************************************************)
(* _segment_group                                                          *)
(***************************************************************************)
Pattern(g, L, k) == IF k < Len(L) THEN ClassifyPair(g, L[k], L[k + 1]) ELSE "none"

SegmentsAt(g, L, k, next, later) ==
  IF k > Len(L) THEN << >>
  ELSE IF Pattern(g, L, k) # "none" THEN <<Pair(g, L[k], L[k + 1])>> \o later
  ELSE <<Single(L[k])>> \o next

Segmenting(g, L, low, from) ==
  from = [k \in low..(Len(L) + 2) |-> SegmentsAt(g, L, k, from[k + 1], from[k + 2])]

LEMMA SegmentingExists ==
  ASSUME NEW g, NEW L, Len(L) \in Nat
  PROVE  \E from : Segmenting(g, L, 1, from)
<1>1. PICK n \in Nat : n = Len(L)
  OBVIOUS
<1> DEFINE S == {m \in 0..n : \E f : Segmenting(g, L, (n + 1) - m, f)}
<1>2. ASSUME NEW k, k \in {n + 1, n + 2}, NEW a, NEW b PROVE SegmentsAt(g, L, k, a, b) = << >>
  BY <1>1, <1>2 DEF SegmentsAt
<1>3. 0 \in S
  <2> DEFINE f == [k \in (n + 1)..(n + 2) |-> << >>]
  <2>1. \A k \in (n + 1)..(n + 2) : k \in {n + 1, n + 2}
    OBVIOUS
  <2>2. f = [k \in (n + 1)..(n + 2) |-> SegmentsAt(g, L, k, f[k + 1], f[k + 2])]
    <3>1. \A k \in (n + 1)..(n + 2) : SegmentsAt(g, L, k, f[k + 1], f[k + 2]) = << >>
      BY <1>2, <2>1
    <3>2. \A k \in (n + 1)..(n + 2) : f[k] = << >>
      OBVIOUS
    <3>3. f = [k \in (n + 1)..(n + 2) |-> f[k]]
      OBVIOUS
    <3> HIDE DEF f
    <3> QED
      BY <3>1, <3>2, <3>3
  <2> HIDE DEF f
  <2>3. Segmenting(g, L, n + 1, f)
    BY <1>1, <2>2 DEF Segmenting
  <2>4. (n + 1) - 0 = n + 1
    OBVIOUS
  <2> QED
    BY <2>3, <2>4
<1>4. ASSUME NEW m \in 0..(n - 1), m \in S PROVE m + 1 \in S
  <2>1. PICK low : low = (n + 1) - m
    OBVIOUS
  <2>2. PICK f : Segmenting(g, L, low, f)
    BY <1>4, <2>1
  <2>3. low \in 2..(n + 1) /\ (n + 1) - (m + 1) = low - 1
    BY <2>1
  <2> DEFINE h == [k \in (low - 1)..(n + 2) |->
                     IF k = low - 1 THEN SegmentsAt(g, L, k, f[low], f[low + 1]) ELSE f[k]]
  <2>4. ASSUME NEW k \in (low - 1)..(n + 2)
        PROVE  h[k] = SegmentsAt(g, L, k, h[k + 1], h[k + 2])
    <3>1. CASE k = low - 1
      <4>1. /\ k + 1 = low /\ low \in (low - 1)..(n + 2) /\ low # low - 1
            /\ k + 2 = low + 1 /\ low + 1 \in (low - 1)..(n + 2) /\ low + 1 # low - 1
        BY <2>3, <3>1
      <4>2. h[low] = f[low] /\ h[low + 1] = f[low + 1]
        BY <4>1
      <4>3. h[k] = SegmentsAt(g, L, k, f[low], f[low + 1])
        BY <3>1
      <4> HIDE DEF h
      <4> QED
        BY <4>1, <4>2, <4>3
    <3>2. CASE k # low - 1
      <4>1. k \in low..(n + 2)
        BY <2>3, <3>2
      <4>2. h[k] = f[k]
        BY <3>2
      <4>3. f[k] = SegmentsAt(g, L, k, f[k + 1], f[k + 2])
        BY <1>1, <2>2, <4>1 DEF Segmenting
      <4>4. CASE k \in {n + 1, n + 2}
        <5> HIDE DEF h
        <5> QED
          BY <1>2, <4>2, <4>3, <4>4
      <4>5. CASE k \notin {n + 1, n + 2}
        <5>1. /\ k + 1 \in (low - 1)..(n + 2) /\ k + 1 # low - 1
              /\ k + 2 \in (low - 1)..(n + 2) /\ k + 2 # low - 1
          BY <2>3, <4>1, <4>5
        <5>2. h[k + 1] = f[k + 1] /\ h[k + 2] = f[k + 2]
          BY <5>1
        <5> HIDE DEF h
        <5> QED
          BY <4>2, <4>3, <5>2
      <4> QED
        BY <4>4, <4>5
    <3> QED
      BY <3>1, <3>2
  <2>5. h = [k \in (low - 1)..(n + 2) |-> SegmentsAt(g, L, k, h[k + 1], h[k + 2])]
    <3>1. h = [k \in (low - 1)..(n + 2) |-> h[k]]
      OBVIOUS
    <3> HIDE DEF h
    <3> QED
      BY <2>4, <3>1
  <2> HIDE DEF h
  <2>6. Segmenting(g, L, low - 1, h)
    BY <1>1, <2>5 DEF Segmenting
  <2> QED
    BY <2>3, <2>6
<1> HIDE DEF S
<1>5. \A m \in 0..n : m \in S
  BY <1>3, <1>4, BoundedInduction
<1>6. n \in 0..n /\ (n + 1) - n = 1
  OBVIOUS
<1> QED
  BY <1>5, <1>6 DEF S

LEMMA SegmentsUnfold ==
  ASSUME NEW g, NEW L, Len(L) \in Nat
  PROVE  \E from :
           /\ Segments(g, L) = from[1]
           /\ \A k \in 1..(Len(L) + 2) : /\ IsSequence(from[k])
                                         /\ from[k] = SegmentsAt(g, L, k, from[k + 1], from[k + 2])
<1>1. PICK n \in Nat : n = Len(L)
  OBVIOUS
<1> DEFINE f == CHOOSE from : Segmenting(g, L, 1, from)
<1>2. Segments(g, L) = f[1]
  BY Zenon DEF Segments, Segmenting, SegmentsAt, Pattern, Pair, Single
<1>3. Segmenting(g, L, 1, f)
  BY SegmentingExists
<1> HIDE DEF f
<1>4. ASSUME NEW k \in 1..(n + 2) PROVE f[k] = SegmentsAt(g, L, k, f[k + 1], f[k + 2])
  BY <1>1, <1>3 DEF Segmenting
<1> DEFINE S == {m \in 0..n : IsSequence(f[(n + 2) - m]) /\ IsSequence(f[(n + 1) - m])}
<1>5. 0 \in S
  <2>1. /\ n + 1 \in 1..(n + 2) /\ n + 2 \in 1..(n + 2) /\ n + 1 > n /\ n + 2 > n
        /\ (n + 2) - 0 = n + 2 /\ (n + 1) - 0 = n + 1
    OBVIOUS
  <2>2. f[n + 1] = << >> /\ f[n + 2] = << >>
    BY <1>1, <1>4, <2>1 DEF SegmentsAt
  <2>3. IsSequence(f[(n + 2) - 0]) /\ IsSequence(f[(n + 1) - 0])
    BY <2>1, <2>2, OneIsASequence
  <2> QED
    BY <2>3
<1>6. ASSUME NEW m \in 0..(n - 1), m \in S PROVE m + 1 \in S
  <2>1. PICK k \in 1..n : k = (n + 1) - (m + 1) /\ k + 1 = (n + 1) - m /\ k + 2 = (n + 2) - m
                          /\ k + 1 = (n + 2) - (m + 1)
    <3>1. n - m \in 1..n /\ n - m = (n + 1) - (m + 1) /\ (n - m) + 1 = (n + 1) - m
          /\ (n - m) + 2 = (n + 2) - m /\ (n - m) + 1 = (n + 2) - (m + 1)
      OBVIOUS
    <3> QED
      BY <3>1
  <2>2. IsSequence(f[k + 1]) /\ IsSequence(f[k + 2])
    BY <1>6, <2>1
  <2>3. f[k] = SegmentsAt(g, L, k, f[k + 1], f[k + 2])
    BY <1>4, <2>1
  <2>4. IsSequence(f[k])
    BY <2>2, <2>3, OneIsASequence, ConcatAnything DEF SegmentsAt
  <2> QED
    BY <2>1, <2>2, <2>4
<1> HIDE DEF S
<1>7. \A m \in 0..n : m \in S
  BY <1>5, <1>6, BoundedInduction
<1>8. ASSUME NEW k \in 1..(n + 2) PROVE IsSequence(f[k])
  <2>1. CASE k = n + 2
    <3>1. 0 \in S /\ (n + 2) - 0 = n + 2
      BY <1>7
    <3> QED
      BY <2>1, <3>1 DEF S
  <2>2. CASE k # n + 2
    <3>1. (n + 1) - k \in 0..n /\ (n + 1) - ((n + 1) - k) = k
      BY <2>2
    <3>2. (n + 1) - k \in S
      BY <1>7, <3>1
    <3> QED
      BY <3>1, <3>2 DEF S
  <2> QED
    BY <2>1, <2>2
<1> QED
  BY <1>1, <1>2, <1>4, <1>8

Ready(g, L, done) ==
  \A k \in DOMAIN L : /\ L[k] \notin done
                      /\ Operands(g.nodes[L[k]]) \subseteq done \cup {L[p] : p \in 1..(k - 1)}

LEMMA SegmentsLay ==
  ASSUME NEW g, NEW L, IsChain(g, L), NEW ids, NEW n, Lists(L, ids, n), NEW segments, NEW done,
         Laid(g, segments, done), Ready(g, L, done), NEW after, after = done \cup ToSet(L)
  PROVE  Laid(g, segments \o Segments(g, L), after)
<1>1. PICK m \in Nat : m = Len(L)
  BY DEF Lists
<1>2. /\ DOMAIN L = 1..m /\ \A k \in 1..m : \A q \in 1..m : k < q => L[k] < L[q]
      /\ \A k \in 1..m : L[k] \in Nat
  <2>1. DOMAIN L = 1..m /\ L \in Seq(Nat)
    BY <1>1 DEF Lists
  <2>2. \A k \in 1..m : L[k] \in Nat
    BY <1>1, <2>1, ElementOfSeq
  <2> QED
    BY <2>1, <2>2 DEF Lists
<1>3. PICK from :
        /\ Segments(g, L) = from[1]
        /\ \A k \in 1..(m + 2) : IsSequence(from[k]) /\ from[k] = SegmentsAt(g, L, k, from[k + 1], from[k + 2])
  BY <1>1, SegmentsUnfold
<1> DEFINE Before(k) == done \cup {L[p] : p \in 1..(k - 1)}
<1> DEFINE At(k) == \E acc : Laid(g, acc, Before(k)) /\ acc \o from[k] = segments \o from[1]
<1>4. ASSUME NEW k \in 1..m, At(k) PROVE At(k + 1) \/ (k + 2 <= m + 1 /\ At(k + 2))
  <2>1. PICK acc : Laid(g, acc, Before(k)) /\ acc \o from[k] = segments \o from[1]
    BY <1>4
  <2>2. IsSequence(acc)
    BY <2>1 DEF Laid
  <2>3. /\ k \in 1..(m + 2) /\ k + 1 \in 1..(m + 2) /\ k + 2 \in 1..(m + 2) /\ ~ (k > m)
        /\ (k + 1) - 1 = k /\ (k + 2) - 1 = k + 1
    OBVIOUS
  <2>4. from[k] = IF Pattern(g, L, k) # "none" THEN <<Pair(g, L[k], L[k + 1])>> \o from[k + 2]
                  ELSE <<Single(L[k])>> \o from[k + 1]
    BY <1>1, <1>3, <2>3 DEF SegmentsAt
  <2>5. ASSUME NEW segment, NEW later, IsSequence(later), from[k] = <<segment>> \o later
        PROVE  Append(acc, segment) \o later = segments \o from[1]
    <3>1. IsSequence(<<segment>>)
      BY OneIsASequence
    <3>2. Append(acc, segment) = acc \o <<segment>>
      BY <2>2, <3>1, ConcatAnything
    <3>3. (acc \o <<segment>>) \o later = acc \o (<<segment>> \o later)
      BY <2>2, <2>5, <3>1, ConcatAnything
    <3> QED
      BY <2>1, <2>5, <3>2, <3>3
  <2>6. ASSUME NEW q \in 1..m, q >= k PROVE L[q] \notin Before(k)
    <3>1. L[q] \notin done
      BY <1>2 DEF Ready
    <3>2. ASSUME NEW p \in 1..(k - 1) PROVE L[p] # L[q]
      <4>1. p \in 1..m /\ p < q
        BY <2>6
      <4> QED
        BY <1>2, <4>1
    <3> QED
      BY <3>1, <3>2
  <2>7. Operands(g.nodes[L[k]]) \subseteq Before(k)
    BY <1>2 DEF Ready
  <2>8. L[k] \in DOMAIN g.nodes /\ Fusable(g, L[k])
    BY <1>2 DEF IsChain
  <2>9. CASE Pattern(g, L, k) # "none"
    <3>1. k < m /\ k + 1 \in 1..m /\ ClassifyPair(g, L[k], L[k + 1]) # "none"
      BY <1>1, <2>9 DEF Pattern
    <3>2. PICK segment : segment = Pair(g, L[k], L[k + 1])
      OBVIOUS
    <3>3. Members(segment) = {L[k], L[k + 1]} /\ First(segment) = L[k]
      BY <3>2 DEF Pair, Members, First, ToSet
    <3>4. IsPair(g, segment, L[k], L[k + 1])
      BY <1>2, <2>8, <3>1, <3>2 DEF IsPair, IsChain
    <3>5. IsSegment(g, segment)
      BY <3>4 DEF IsSegment
    <3>6. Members(segment) \cap Before(k) = {}
      <4>1. L[k] \notin Before(k) /\ L[k + 1] \notin Before(k)
        BY <2>6, <3>1
      <4> HIDE DEF Before
      <4> QED
        BY <3>3, <4>1
    <3>7. Before(k + 2) = Before(k) \cup Members(segment)
      <4>1. \A p \in 1..(k + 1) : p \in 1..(k - 1) \/ p = k \/ p = k + 1
        OBVIOUS
      <4> QED
        BY <2>3, <3>3, <4>1
    <3>8. Laid(g, Append(acc, segment), Before(k + 2))
      <4> HIDE DEF Before
      <4> QED
        BY <2>1, <2>7, <3>3, <3>5, <3>6, <3>7, LaidAppend
    <3>9. Append(acc, segment) \o from[k + 2] = segments \o from[1]
      BY <1>3, <2>3, <2>4, <2>5, <2>9, <3>2
    <3>10. At(k + 2)
      <4> HIDE DEF Before
      <4> QED
        BY <3>8, <3>9
    <3>11. k + 2 <= m + 1
      BY <3>1
    <3> HIDE DEF At
    <3> QED
      BY <3>10, <3>11
  <2>10. CASE Pattern(g, L, k) = "none"
    <3>2. PICK segment : segment = Single(L[k])
      OBVIOUS
    <3>3. Members(segment) = {L[k]} /\ First(segment) = L[k]
      BY <3>2 DEF Single, Members, First, ToSet
    <3>4. IsSingle(g, segment, L[k])
      <4> SUFFICES ASSUME NEW b \in DOMAIN g.nodes, Fusable(g, b), MergeInto(g, b) = L[k]
                   PROVE  ClassifyPair(g, L[k], b) = "none"
        BY <2>8, <3>2 DEF IsSingle
      <4>1. k + 1 \in 1..m /\ b = L[k + 1]
        BY <1>2 DEF IsChain
      <4> QED
        BY <1>1, <2>10, <4>1 DEF Pattern
    <3>5. IsSegment(g, segment)
      BY <3>4 DEF IsSegment
    <3>6. Members(segment) \cap Before(k) = {}
      <4>1. L[k] \notin Before(k)
        BY <2>6
      <4> HIDE DEF Before
      <4> QED
        BY <3>3, <4>1
    <3>7. Before(k + 1) = Before(k) \cup Members(segment)
      <4>1. \A p \in 1..k : p \in 1..(k - 1) \/ p = k
        OBVIOUS
      <4> QED
        BY <2>3, <3>3, <4>1
    <3>8. Laid(g, Append(acc, segment), Before(k + 1))
      <4> HIDE DEF Before
      <4> QED
        BY <2>1, <2>7, <3>3, <3>5, <3>6, <3>7, LaidAppend
    <3>9. Append(acc, segment) \o from[k + 1] = segments \o from[1]
      BY <1>3, <2>3, <2>4, <2>5, <2>10, <3>2
    <3> QED
      BY <3>8, <3>9
  <2> QED
    BY <2>9, <2>10
<1> DEFINE S == {q \in 0..m : \E k \in (q + 1)..(m + 1) : At(k)}
<1>5. 0 \in S
  <2>1. Before(1) = done
    OBVIOUS
  <2>2. At(1)
    BY <2>1
  <2>3. 1 \in (0 + 1)..(m + 1)
    OBVIOUS
  <2> HIDE DEF At
  <2> QED
    BY <2>2, <2>3
<1>6. ASSUME NEW q \in 0..(m - 1), q \in S PROVE q + 1 \in S
  <2> HIDE DEF At
  <2>1. PICK k \in (q + 1)..(m + 1) : At(k)
    BY <1>6
  <2>2. CASE k >= q + 2
    BY <2>1, <2>2
  <2>3. CASE k = q + 1
    <3>1. k \in 1..m
      BY <2>3
    <3>2. At(k + 1) \/ (k + 2 <= m + 1 /\ At(k + 2))
      BY <1>4, <2>1, <3>1
    <3> QED
      BY <2>3, <3>1, <3>2
  <2> QED
    BY <2>1, <2>2, <2>3
<1> HIDE DEF S
<1>7. m \in S
  BY <1>5, <1>6, BoundedInduction
<1>8. At(m + 1)
  <2> HIDE DEF At
  <2> QED
    BY <1>7 DEF S
<1>9. PICK acc : Laid(g, acc, Before(m + 1)) /\ acc \o from[m + 1] = segments \o from[1]
  BY <1>8
<1>10. from[m + 1] = << >>
  <2>1. m + 1 \in 1..(m + 2) /\ m + 1 > m
    OBVIOUS
  <2> QED
    BY <1>1, <1>3, <2>1 DEF SegmentsAt
<1>11. acc = segments \o from[1]
  <2>1. IsSequence(acc)
    BY <1>9 DEF Laid
  <2>2. acc \o << >> = acc
    BY <2>1, ConcatAnything
  <2> QED
    BY <1>9, <1>10, <2>2
<1>12. Before(m + 1) = after
  BY <1>2 DEF ToSet
<1> QED
  BY <1>3, <1>9, <1>11, <1>12

(* What has been emitted when the loop is past node i.                     *)
Done(g, group, i) ==
  {j \in DOMAIN g.nodes : IF group[j] = 0 THEN j <= i
                          ELSE \A m \in DOMAIN g.nodes : group[m] = group[j] => m <= i}

LEMMA OperandsAreDone ==
  ASSUME NEW g, NEW shapes, IsGraph(g, shapes), NEW group, Groups(g, group),
         NEW i \in DOMAIN g.nodes, NEW a \in DOMAIN g.nodes, a <= i,
         NEW c \in Operands(g.nodes[a]), group[c] = 0 \/ group[c] # group[a]
  PROVE  c \in Done(g, group, i - 1)
<1>1. PICK n \in Nat : n = Len(g.nodes) /\ DOMAIN g.nodes = 1..n
  BY GraphFacts
<1>2. c \in 1..(a - 1)
  BY NodeFacts DEF Operands
<1>3. c \in DOMAIN g.nodes /\ c <= i - 1 /\ c \in Nat
  BY <1>1, <1>2
<1>4. ASSUME group[c] # 0, NEW m \in DOMAIN g.nodes, group[m] = group[c] PROVE m <= i - 1
  <2>1. SUFFICES ASSUME m > c PROVE FALSE
    BY <1>1, <1>3
  <2>2. Succeeded(g, group, c, m)
    BY <1>1, <1>3, <1>4, <2>1, Succession
  <2>3. PICK d \in DOMAIN g.nodes : MergeInto(g, d) = c /\ group[d] = group[c]
    BY <2>2 DEF Succeeded
  <2>4. Consumers(g, c) = {d}
    BY <1>2, <2>3, MergeFacts DEF Joins
  <2>5. a \in Consumers(g, c)
    BY DEF Consumers
  <2> QED
    BY <1>4, <2>3, <2>4, <2>5
<1> QED
  BY <1>3, <1>4 DEF Done

LEMMA EmittedLays ==
  ASSUME NEW g, NEW shapes, IsGraph(g, shapes), NEW group, Groups(g, group),
         NEW i \in DOMAIN g.nodes, NEW segments, Laid(g, segments, Done(g, group, i - 1))
  PROVE  Laid(g, segments \o EmittedAt(g, group, i), Done(g, group, i))
<1>1. PICK n \in Nat : n = Len(g.nodes) /\ DOMAIN g.nodes = 1..n
  BY GraphFacts
<1>2. PICK before, after : before = Done(g, group, i - 1) /\ after = Done(g, group, i)
  OBVIOUS
<1>3. PICK L : L = InOrder({j \in DOMAIN g.nodes : group[j] = group[i]}, n)
  OBVIOUS
<1>4. Lists(L, MembersOf(g, group, i), n)
  BY <1>1, <1>3, InOrderLists DEF MembersOf
<1>5. /\ DOMAIN L = 1..Len(L) /\ Len(L) \in Nat
      /\ \A k \in DOMAIN L : L[k] \in 1..n /\ group[L[k]] = group[i]
      /\ \A j \in 1..n : group[j] = group[i] => \E k \in DOMAIN L : L[k] = j
      /\ \A k \in DOMAIN L : \A q \in DOMAIN L : k < q => L[k] < L[q]
  BY <1>1, <1>4 DEF Lists, MembersOf
<1>6. EmittedAt(g, group, i) = IF group[i] = 0 \/ Len(L) < 2 THEN <<Single(i)>>
                               ELSE IF i = Last(L) THEN Segments(g, L) ELSE << >>
  BY <1>1, <1>3 DEF EmittedAt, Single
<1>7. group[i] # 0 => IsChain(g, L)
  BY <1>1, <1>4, ListedChain
<1>8. IsSequence(segments)
  BY DEF Laid
<1>9. ASSUME NEW j \in DOMAIN g.nodes, group[j] # group[i] PROVE j \in after <=> j \in before
  <2>1. \A m \in DOMAIN g.nodes : group[m] = group[j] => m # i
    BY <1>9
  <2>2. j # i
    BY <1>9
  <2>3. \A m \in 1..n : m # i => (m <= i <=> m <= i - 1)
    BY <1>1
  <2> QED
    BY <1>1, <1>2, <2>1, <2>2, <2>3 DEF Done
<1>10. CASE group[i] = 0 \/ Len(L) < 2
  <2>1. PICK segment : segment = Single(i)
    OBVIOUS
  <2>2. Members(segment) = {i} /\ First(segment) = i
    BY <2>1 DEF Single, Members, First, ToSet
  <2>3. group[i] # 0 => \A j \in DOMAIN g.nodes : group[j] = group[i] => j = i
    <3> SUFFICES ASSUME group[i] # 0, NEW j \in DOMAIN g.nodes, group[j] = group[i] PROVE j = i
      OBVIOUS
    <3>1. PICK k \in DOMAIN L : L[k] = j
      BY <1>1, <1>5
    <3>2. PICK q \in DOMAIN L : L[q] = i
      BY <1>1, <1>5
    <3>3. k = q
      BY <1>5, <1>10
    <3> QED
      BY <3>1, <3>2, <3>3
  <2>4. IsSingle(g, segment, i)
    <3> SUFFICES ASSUME NEW b \in DOMAIN g.nodes, Fusable(g, b), MergeInto(g, b) = i
                 PROVE  FALSE
      BY <2>1 DEF IsSingle
    <3>1. i # 0
      BY <1>1
    <3>2. Fusable(g, i) /\ i \in 1..(b - 1)
      BY <3>1, MergeFacts DEF Joins
    <3>3. group[i] # 0 /\ group[b] = group[i]
      BY <3>1, <3>2 DEF Groups
    <3>4. b = i
      BY <2>3, <3>3
    <3> QED
      BY <1>1, <3>2, <3>4
  <2>5. IsSegment(g, segment)
    BY <2>4 DEF IsSegment
  <2>6. i \notin before
    BY <1>1, <1>2 DEF Done
  <2>7. Operands(g.nodes[i]) \subseteq before
    <3> SUFFICES ASSUME NEW c \in Operands(g.nodes[i]) PROVE c \in before
      OBVIOUS
    <3>1. c \in 1..(i - 1)
      BY NodeFacts DEF Operands
    <3>2. group[c] = 0 \/ group[c] # group[i]
      BY <1>1, <2>3, <3>1
    <3>3. i <= i
      BY <1>1
    <3> QED
      BY <1>2, <3>2, <3>3, OperandsAreDone
  <2>8. after = before \cup Members(segment)
    <3>1. i \in after
      BY <1>1, <1>2, <2>3 DEF Done
    <3>2. ASSUME NEW j \in DOMAIN g.nodes, group[j] = group[i], j # i PROVE j \in after <=> j \in before
      <4>1. group[j] = 0
        BY <2>3, <3>2
      <4> QED
        BY <1>1, <1>2, <3>2, <4>1 DEF Done
    <3>3. after \subseteq DOMAIN g.nodes /\ before \subseteq DOMAIN g.nodes
      BY <1>2 DEF Done
    <3> QED
      BY <1>9, <2>2, <3>1, <3>2, <3>3
  <2>9. Laid(g, Append(segments, segment), after)
    BY <1>2, <2>2, <2>5, <2>6, <2>7, <2>8, LaidAppend
  <2>10. Append(segments, segment) = segments \o <<segment>>
    BY <1>8, OneIsASequence, ConcatAnything
  <2> QED
    BY <1>2, <1>6, <1>10, <2>1, <2>9, <2>10
<1>11. CASE group[i] # 0 /\ Len(L) >= 2 /\ i = Last(L)
  <2>1. Len(L) \in DOMAIN L /\ L[Len(L)] = i
    BY <1>5, <1>11 DEF Last
  <2>2. \A k \in DOMAIN L : L[k] <= i
    BY <1>1, <1>5, <2>1
  <2>3. ToSet(L) = {j \in DOMAIN g.nodes : group[j] = group[i]}
    BY <1>1, <1>5 DEF ToSet
  <2>4. Ready(g, L, before)
    <3> SUFFICES ASSUME NEW k \in DOMAIN L
                 PROVE  /\ L[k] \notin before
                        /\ Operands(g.nodes[L[k]]) \subseteq before \cup {L[p] : p \in 1..(k - 1)}
      BY DEF Ready
    <3>1. L[k] \in DOMAIN g.nodes /\ group[L[k]] = group[i] /\ L[k] <= i /\ L[k] \in Nat
      BY <1>1, <1>5, <2>2
    <3>2. L[k] \notin before
      BY <1>1, <1>2, <1>11, <3>1 DEF Done
    <3>3. ASSUME NEW c \in Operands(g.nodes[L[k]]), c \notin before PROVE c \in {L[p] : p \in 1..(k - 1)}
      <4>1. c \in 1..(L[k] - 1)
        BY <3>1, NodeFacts DEF Operands
      <4>2. group[c] = group[i]
        BY <1>2, <3>1, <3>3, OperandsAreDone
      <4>3. c \in 1..n
        BY <1>1, <3>1, <4>1
      <4>4. PICK p \in DOMAIN L : L[p] = c
        BY <1>5, <4>2, <4>3
      <4>5. p < k
        <5>1. ~ (k < p) /\ p # k
          BY <1>5, <3>1, <4>1, <4>4
        <5> QED
          BY <1>5, <5>1
      <4>6. p \in 1..(k - 1)
        BY <1>5, <4>5
      <4> QED
        BY <4>4, <4>6
    <3> QED
      BY <3>2, <3>3
  <2>5. after = before \cup ToSet(L)
    <3>1. ASSUME NEW j \in DOMAIN g.nodes, group[j] = group[i] PROVE j \in after
      <4>1. \A m \in DOMAIN g.nodes : group[m] = group[j] => m <= i
        <5> SUFFICES ASSUME NEW m \in DOMAIN g.nodes, group[m] = group[j] PROVE m <= i
          OBVIOUS
        <5>1. PICK k \in DOMAIN L : L[k] = m
          BY <1>1, <1>5, <3>1
        <5> QED
          BY <2>2, <5>1
      <4> QED
        BY <1>2, <1>11, <3>1, <4>1 DEF Done
    <3>2. after \subseteq DOMAIN g.nodes /\ before \subseteq DOMAIN g.nodes
      BY <1>2 DEF Done
    <3> QED
      BY <1>9, <2>3, <3>1, <3>2
  <2>6. Laid(g, segments \o Segments(g, L), after)
    BY <1>2, <1>4, <1>7, <1>11, <2>4, <2>5, SegmentsLay
  <2>7. ~ (group[i] = 0 \/ Len(L) < 2)
    BY <1>5, <1>11
  <2> QED
    BY <1>2, <1>6, <1>11, <2>6, <2>7
<1>12. CASE group[i] # 0 /\ Len(L) >= 2 /\ i # Last(L)
  <2>1. Len(L) \in DOMAIN L /\ L[Len(L)] = Last(L)
    BY <1>5, <1>12 DEF Last
  <2>2. PICK k \in DOMAIN L : L[k] = i
    BY <1>1, <1>5
  <2>3. Last(L) \in DOMAIN g.nodes /\ group[Last(L)] = group[i] /\ i < Last(L)
    <3>1. k < Len(L)
      BY <1>5, <1>12, <2>1, <2>2
    <3> QED
      BY <1>1, <1>5, <2>1, <2>2, <3>1
  <2>4. ASSUME NEW j \in DOMAIN g.nodes, group[j] = group[i] PROVE j \notin after /\ j \notin before
    <3>1. ~ (Last(L) <= i) /\ ~ (Last(L) <= i - 1)
      BY <1>1, <2>3
    <3> QED
      BY <1>2, <1>12, <2>3, <2>4, <3>1 DEF Done
  <2>5. after = before
    <3>1. after \subseteq DOMAIN g.nodes /\ before \subseteq DOMAIN g.nodes
      BY <1>2 DEF Done
    <3> QED
      BY <1>9, <2>4, <3>1
  <2>6. segments \o << >> = segments
    BY <1>8, ConcatAnything
  <2>7. EmittedAt(g, group, i) = << >>
    BY <1>5, <1>6, <1>12
  <2> QED
    BY <1>2, <2>5, <2>6, <2>7
<1> QED
  BY <1>5, <1>10, <1>11, <1>12

Emitting(g, group, n, emitted) ==
  emitted = [i \in 0..n |-> IF i = 0 THEN << >> ELSE emitted[i - 1] \o EmittedAt(g, group, i)]

LEMMA EmittingExists ==
  ASSUME NEW g, NEW group, NEW n \in Nat
  PROVE  \E emitted : Emitting(g, group, n, emitted)
<1> DEFINE S == {m \in Nat : \E emitted : Emitting(g, group, m, emitted)}
<1>1. 0 \in S
  <2>1. Emitting(g, group, 0, [i \in 0..0 |-> << >>])
    BY DEF Emitting
  <2> QED
    BY <2>1
<1>2. ASSUME NEW m \in Nat, m \in S PROVE m + 1 \in S
  <2>1. PICK f : Emitting(g, group, m, f)
    BY <1>2
  <2> DEFINE h == [i \in 0..(m + 1) |-> IF i = m + 1 THEN f[m] \o EmittedAt(g, group, m + 1) ELSE f[i]]
  <2>2. ASSUME NEW i \in 0..(m + 1)
        PROVE  h[i] = IF i = 0 THEN << >> ELSE h[i - 1] \o EmittedAt(g, group, i)
    <3>1. CASE i = m + 1
      <4>1. i # 0 /\ i - 1 = m /\ m \in 0..(m + 1) /\ m # m + 1
        BY <3>1
      <4>2. h[m] = f[m]
        BY <4>1
      <4>3. h[i] = f[m] \o EmittedAt(g, group, i)
        BY <3>1
      <4> HIDE DEF h
      <4> QED
        BY <4>1, <4>2, <4>3
    <3>2. CASE i # m + 1
      <4>1. i \in 0..m /\ (i # 0 => i - 1 \in 0..(m + 1) /\ i - 1 # m + 1)
        BY <3>2
      <4>2. h[i] = f[i] /\ (i # 0 => h[i - 1] = f[i - 1])
        BY <3>2, <4>1
      <4>3. f[i] = IF i = 0 THEN << >> ELSE f[i - 1] \o EmittedAt(g, group, i)
        BY <2>1, <4>1 DEF Emitting
      <4> HIDE DEF h
      <4> QED
        BY <4>2, <4>3
    <3> QED
      BY <3>1, <3>2
  <2>3. h = [i \in 0..(m + 1) |-> IF i = 0 THEN << >> ELSE h[i - 1] \o EmittedAt(g, group, i)]
    <3>1. h = [i \in 0..(m + 1) |-> h[i]]
      OBVIOUS
    <3> HIDE DEF h
    <3> QED
      BY <2>2, <3>1
  <2> HIDE DEF h
  <2>4. Emitting(g, group, m + 1, h)
    BY <2>3 DEF Emitting
  <2> QED
    BY <2>4
<1> HIDE DEF S
<1>3. n \in S
  BY <1>1, <1>2, SetInduction
<1> QED
  BY <1>3 DEF S

LEMMA EmittedIsASequence ==
  ASSUME NEW g, NEW shapes, IsGraph(g, shapes), NEW group, Groups(g, group), NEW i \in DOMAIN g.nodes
  PROVE  /\ IsSequence(EmittedAt(g, group, i))
         /\ i \in DOMAIN shapes => EmittedAt(g, group, i) = <<Single(i)>>
<1>1. PICK n \in Nat : n = Len(g.nodes) /\ DOMAIN g.nodes = 1..n
  BY GraphFacts
<1>2. PICK L : L = InOrder({j \in DOMAIN g.nodes : group[j] = group[i]}, n)
  OBVIOUS
<1>3. EmittedAt(g, group, i) = IF group[i] = 0 \/ Len(L) < 2 THEN <<Single(i)>>
                               ELSE IF i = Last(L) THEN Segments(g, L) ELSE << >>
  BY <1>1, <1>2 DEF EmittedAt, Single
<1>4. Len(L) \in Nat
  BY <1>2, InOrderLists DEF Lists
<1>5. IsSequence(Segments(g, L))
  <2>1. 1 \in 1..(Len(L) + 2)
    BY <1>4
  <2> QED
    BY <1>4, <2>1, SegmentsUnfold
<1>6. IsSequence(EmittedAt(g, group, i))
  BY <1>3, <1>5, OneIsASequence
<1>7. ASSUME i \in DOMAIN shapes PROVE EmittedAt(g, group, i) = <<Single(i)>>
  <2>1. g.nodes[i].op = "placeholder"
    BY <1>7, NodeFacts, NodeFields DEF Placed
  <2>2. ~Fusable(g, i)
    BY <2>1 DEF Fusable
  <2>3. group[i] = 0
    BY <2>2 DEF Groups
  <2> QED
    BY <1>3, <2>3
<1> QED
  BY <1>6, <1>7

(* The placeholders come first, each on its own.                           *)
Leading(shapes, segments) ==
  \A t \in DOMAIN shapes : t \in DOMAIN segments /\ segments[t] = Single(t)

RemapOf(g, segments) ==
  [i \in DOMAIN g.nodes |-> CHOOSE s \in DOMAIN segments : i \in ToSet(segments[s].members)]

Rewritten(g, segments, s) ==
  LET first == g.nodes[segments[s].members[1]]
      last  == g.nodes[Last(segments[s].members)]
      ins   == [k \in DOMAIN first.ins |-> RemapOf(g, segments)[first.ins[k]]]
  IN  IF segments[s].op = "none" THEN [first EXCEPT !.ins = ins]
      ELSE Node(segments[s].op, ins, last.shape, << >>)

Rebuilt(g, segments) ==
  [nodes  |-> [s \in DOMAIN segments |-> Rewritten(g, segments, s)],
   inputs |-> [k \in DOMAIN g.inputs |-> RemapOf(g, segments)[g.inputs[k]]],
   output |-> RemapOf(g, segments)[g.output]]

FusionOf(g, shapes, segments) ==
  /\ Laid(g, segments, DOMAIN g.nodes) /\ Leading(shapes, segments)
  /\ ElementwiseFusion(g) = Rebuilt(g, segments)

LEMMA FusionUnfolds ==
  ASSUME NEW g, NEW shapes, IsGraph(g, shapes)
  PROVE  \E segments : FusionOf(g, shapes, segments)
<1>0. PICK n \in Nat, na \in Nat : n = Len(g.nodes) /\ na = Len(shapes)
  BY GraphFacts
<1>1. PICK group :
        /\ n = Len(g.nodes) /\ DOMAIN g.nodes = 1..n /\ na = Len(shapes) /\ DOMAIN shapes = 1..na
        /\ na <= n /\ group = GroupOf(g)
  BY <1>0, GraphFacts
<1>2. Groups(g, group)
  BY <1>1, GroupsAre
<1> DEFINE f == CHOOSE emitted : Emitting(g, GroupOf(g), Len(g.nodes), emitted)
<1>3. ElementwiseFusion(g) = Rebuilt(g, f[Len(g.nodes)])
  BY Zenon DEF ElementwiseFusion, Emitting, Rebuilt, Rewritten, RemapOf
<1>4. Emitting(g, group, n, f)
  BY <1>1, EmittingExists
<1> HIDE DEF f
<1>5. f[0] = << >>
  BY <1>4 DEF Emitting
<1>6. ASSUME NEW i \in 0..(n - 1) PROVE f[i + 1] = f[i] \o EmittedAt(g, group, i + 1)
  <2>1. i + 1 \in 0..n /\ i + 1 # 0 /\ (i + 1) - 1 = i
    OBVIOUS
  <2> QED
    BY <1>4, <2>1 DEF Emitting
<1> DEFINE Good(i) == /\ Laid(g, f[i], Done(g, group, i))
                      /\ i <= na => Len(f[i]) = i
                      /\ \A t \in 1..na : t <= i => t \in DOMAIN f[i] /\ f[i][t] = Single(t)
<1> DEFINE S == {i \in 0..n : Good(i)}
<1>7. 0 \in S
  <2>1. Done(g, group, 0) = {}
    BY <1>1 DEF Done
  <2>2. Laid(g, << >>, {})
    <3>1. IsSequence(<< >>) /\ Len(<< >>) = 0
      BY OneIsASequence
    <3>2. DOMAIN << >> = {}
      BY <3>1, SequenceIsAFunction
    <3> QED
      BY <3>1, <3>2, Zenon DEF Laid
  <2>3. Len(<< >>) = 0 /\ \A t \in 1..na : ~ (t <= 0)
    OBVIOUS
  <2>4. Good(0)
    BY <1>5, <2>1, <2>2, <2>3
  <2> QED
    BY <2>4
<1>8. ASSUME NEW i \in 0..(n - 1), i \in S PROVE i + 1 \in S
  <2>1. i + 1 \in DOMAIN g.nodes /\ i + 1 \in 0..n /\ (i + 1) - 1 = i
    BY <1>1
  <2>2. PICK s, e : s = f[i] /\ e = EmittedAt(g, group, i + 1)
    OBVIOUS
  <2>3. /\ Laid(g, s, Done(g, group, i)) /\ (i <= na => Len(s) = i)
        /\ \A t \in 1..na : t <= i => t \in DOMAIN s /\ s[t] = Single(t)
    BY <1>8, <2>2
  <2>4. f[i + 1] = s \o e
    BY <1>6, <2>2
  <2>5. Laid(g, s \o e, Done(g, group, i + 1))
    BY <1>2, <2>1, <2>2, <2>3, EmittedLays
  <2>6. IsSequence(s) /\ IsSequence(e)
    BY <1>2, <2>1, <2>2, <2>3, EmittedIsASequence DEF Laid
  <2>7. /\ Len(s \o e) = Len(s) + Len(e) /\ DOMAIN (s \o e) = 1..(Len(s) + Len(e))
        /\ \A t \in 1..(Len(s) + Len(e)) : (s \o e)[t] = IF t <= Len(s) THEN s[t] ELSE e[t - Len(s)]
        /\ Len(s) \in Nat /\ Len(e) \in Nat /\ DOMAIN s = 1..Len(s)
    BY <2>6, ConcatAnything, SequenceIsAFunction
  <2>8. i + 1 <= na => e = <<Single(i + 1)>>
    BY <1>1, <1>2, <2>1, <2>2, EmittedIsASequence
  <2>9. i + 1 <= na => Len(s) = i /\ Len(e) = 1 /\ e[1] = Single(i + 1)
    <3>1. i + 1 <= na => i <= na
      BY <1>1
    <3> QED
      BY <2>3, <2>8, <3>1, OneIsASequence
  <2>10. i + 1 <= na => Len(s \o e) = i + 1
    BY <2>7, <2>9
  <2>11. ASSUME NEW t \in 1..na, t <= i + 1 PROVE t \in DOMAIN (s \o e) /\ (s \o e)[t] = Single(t)
    <3>1. CASE t <= i
      <4>1. t \in 1..Len(s) /\ s[t] = Single(t)
        BY <2>3, <2>7, <3>1
      <4>2. t \in 1..(Len(s) + Len(e))
        BY <2>7, <4>1
      <4> QED
        BY <2>7, <4>1, <4>2
    <3>2. CASE t = i + 1
      <4>1. Len(s) = i /\ Len(e) = 1 /\ e[1] = Single(t)
        BY <2>9, <3>2
      <4>2. t \in 1..(Len(s) + Len(e)) /\ ~ (t <= Len(s)) /\ t - Len(s) = 1
        BY <3>2, <4>1
      <4> QED
        BY <2>7, <4>1, <4>2
    <3> QED
      BY <2>11, <3>1, <3>2
  <2>12. Good(i + 1)
    BY <2>4, <2>5, <2>10, <2>11
  <2> QED
    BY <2>1, <2>12
<1> HIDE DEF S
<1>9. n \in S
  BY <1>7, <1>8, BoundedInduction
<1>10. Good(n)
  BY <1>9 DEF S
<1>11. Done(g, group, n) = DOMAIN g.nodes
  <2>1. \A j \in DOMAIN g.nodes : j <= n
    BY <1>1
  <2> QED
    BY <2>1 DEF Done
<1>12. Leading(shapes, f[n])
  <2>1. \A t \in 1..na : t <= n
    BY <1>1
  <2> QED
    BY <1>1, <1>10, <2>1 DEF Leading
<1> QED
  BY <1>1, <1>3, <1>10, <1>11, <1>12 DEF FusionOf

(***************************************************************************)
(* elementwise_fusion: the graph it returns                                *)
(***************************************************************************)
(* The node whose value a segment computes.                                *)
Result(segment) == Last(segment.members)

IsAlone(g, segment, a) ==
  /\ IsSingle(g, segment, a) /\ segment.op = "none" /\ Members(segment) = {a}
  /\ First(segment) = a /\ Result(segment) = a

IsJoined(g, segment, a, b) ==
  /\ IsPair(g, segment, a, b) /\ segment.op = ClassifyPair(g, a, b) /\ segment.op # "none"
  /\ Members(segment) = {a, b} /\ First(segment) = a /\ Result(segment) = b

LEMMA SegmentFacts ==
  ASSUME NEW g, NEW segment, IsSegment(g, segment)
  PROVE  (\E a : IsAlone(g, segment, a)) \/ (\E a, b : IsJoined(g, segment, a, b))
<1>1. CASE \E a : IsSingle(g, segment, a)
  <2>1. PICK a : IsSingle(g, segment, a)
    BY <1>1
  <2>2. segment = [op |-> "none", members |-> <<a>>]
    BY <2>1 DEF IsSingle, Single
  <2>3. segment.op = "none" /\ segment.members = <<a>>
    BY <2>2
  <2>4. Members(segment) = {a} /\ First(segment) = a /\ Result(segment) = a
    BY <2>3 DEF Members, ToSet, First, Result, Last
  <2> QED
    BY <2>1, <2>3, <2>4 DEF IsAlone
<1>2. CASE \E a, b : IsPair(g, segment, a, b)
  <2>1. PICK a, b : IsPair(g, segment, a, b)
    BY <1>2
  <2>2. segment = [op |-> ClassifyPair(g, a, b), members |-> <<a, b>>] /\ ClassifyPair(g, a, b) # "none"
    BY <2>1 DEF IsPair, Pair
  <2>3. segment.op = ClassifyPair(g, a, b) /\ segment.members = <<a, b>>
    BY <2>2
  <2>4. Members(segment) = {a, b} /\ First(segment) = a /\ Result(segment) = b
    BY <2>3 DEF Members, ToSet, First, Result, Last
  <2> QED
    BY <2>1, <2>2, <2>3, <2>4 DEF IsJoined
<1> QED
  BY <1>1, <1>2 DEF IsSegment

(* What _classify_pair recognises.                                         *)
IsBiasRelu(g, a, b) ==
  /\ ClassifyPair(g, a, b) = "fused_bias_relu"
  /\ g.nodes[a].op = "add" /\ g.nodes[b].op = "relu"
  /\ g.nodes[g.nodes[a].ins[1]].shape # g.nodes[g.nodes[a].ins[2]].shape

IsSubSquare(g, a, b) ==
  /\ ClassifyPair(g, a, b) = "fused_sub_square"
  /\ g.nodes[a].op = "sub" /\ g.nodes[b].op = "mul" /\ g.nodes[b].ins = <<a, a>>

LEMMA ClassifiedPair ==
  ASSUME NEW g, NEW a, NEW b
  PROVE  /\ ClassifyPair(g, a, b) # "none" <=> IsBiasRelu(g, a, b) \/ IsSubSquare(g, a, b)
         /\ ClassifyPair(g, a, b) \in {"none", "fused_bias_relu", "fused_sub_square"}
BY DEF ClassifyPair, IsBiasRelu, IsSubSquare

LEMMA Arities ==
  ASSUME NEW op, NEW m, m \in Arity(op)
  PROVE  /\ op \in {"add", "sub", "mul"} => m = 2
         /\ op = "relu" => m = 1
<1>1. CASE op \in {"add", "sub", "mul"}
  BY <1>1 DEF Arity, Unary
<1>2. CASE op = "relu"
  BY <1>2 DEF Arity, Unary
<1> QED
  BY <1>1, <1>2

(* A pair's first node is read by the second only, and the second reads    *)
(* nothing else.                                                           *)
PairFacts(g, a, b) ==
  /\ a \in DOMAIN g.nodes /\ b \in DOMAIN g.nodes /\ a < b
  /\ Fusable(g, a) /\ Consumers(g, a) = {b} /\ Operands(g.nodes[b]) = {a}
  /\ IsBiasRelu(g, a, b) \/ IsSubSquare(g, a, b)
  /\ Len(g.nodes[a].ins) = 2 /\ DOMAIN g.nodes[a].ins = 1..2

LEMMA PairIs ==
  ASSUME NEW g, NEW shapes, IsGraph(g, shapes), NEW segment, NEW a, NEW b, IsPair(g, segment, a, b)
  PROVE  PairFacts(g, a, b)
<1>1. a \in DOMAIN g.nodes /\ b \in DOMAIN g.nodes /\ MergeInto(g, b) = a /\ ClassifyPair(g, a, b) # "none"
  BY DEF IsPair
<1>2. a \in Nat \ {0} /\ b \in Nat
  BY <1>1, NodeFacts
<1>3. Joins(g, b, a)
  BY <1>1, <1>2, MergeFacts
<1>4. a < b /\ a \in Operands(g.nodes[b]) /\ Fusable(g, a) /\ Consumers(g, a) = {b}
  BY <1>2, <1>3 DEF Joins
<1>5. IsBiasRelu(g, a, b) \/ IsSubSquare(g, a, b)
  BY <1>1, ClassifiedPair
<1>6. Len(g.nodes[a].ins) = 2 /\ DOMAIN g.nodes[a].ins = 1..2
  <2>1. Len(g.nodes[a].ins) \in Arity(g.nodes[a].op) /\ DOMAIN g.nodes[a].ins = 1..Len(g.nodes[a].ins)
    BY <1>1, NodeFacts
  <2>2. g.nodes[a].op \in {"add", "sub"}
    BY <1>5 DEF IsBiasRelu, IsSubSquare
  <2> QED
    BY <2>1, <2>2, Arities
<1>7. Operands(g.nodes[b]) = {a}
  <2>1. CASE IsBiasRelu(g, a, b)
    <3>1. Len(g.nodes[b].ins) \in Arity(g.nodes[b].op) /\ DOMAIN g.nodes[b].ins = 1..Len(g.nodes[b].ins)
      BY <1>1, NodeFacts
    <3>2. g.nodes[b].op = "relu"
      BY <2>1 DEF IsBiasRelu
    <3>3. Len(g.nodes[b].ins) = 1
      <4>1. PICK op, m : op = g.nodes[b].op /\ m = Len(g.nodes[b].ins)
        OBVIOUS
      <4>2. m \in Arity(op) /\ op = "relu"
        BY <3>1, <3>2, <4>1
      <4> QED
        BY <4>1, <4>2, Arities
    <3>4. DOMAIN g.nodes[b].ins = {1}
      BY <3>1, <3>3
    <3> QED
      BY <1>4, <3>4 DEF Operands
  <2>2. CASE IsSubSquare(g, a, b)
    BY <2>2 DEF IsSubSquare, Operands
  <2> QED
    BY <1>5, <2>1, <2>2
<1> QED
  BY <1>1, <1>4, <1>5, <1>6, <1>7 DEF PairFacts

LEMMA RemapFacts ==
  ASSUME NEW g, NEW segments, Laid(g, segments, DOMAIN g.nodes), NEW i \in DOMAIN g.nodes
  PROVE  /\ RemapOf(g, segments)[i] \in DOMAIN segments
         /\ i \in Members(segments[RemapOf(g, segments)[i]])
         /\ \A s \in DOMAIN segments : i \in Members(segments[s]) => RemapOf(g, segments)[i] = s
<1>1. PICK t \in DOMAIN segments : i \in Members(segments[t])
  BY DEF Laid
<1>2. RemapOf(g, segments)[i] = CHOOSE s \in DOMAIN segments : i \in Members(segments[s])
  BY DEF RemapOf, Members
<1>3. /\ RemapOf(g, segments)[i] \in DOMAIN segments
      /\ i \in Members(segments[RemapOf(g, segments)[i]])
  BY <1>1, <1>2
<1> QED
  BY <1>3 DEF Laid

(* What a segment reads, and what the caller reads, are results of         *)
(* segments.                                                               *)
LEMMA OnlyResultsAreRead ==
  ASSUME NEW g, NEW shapes, IsGraph(g, shapes), NEW segments, Laid(g, segments, DOMAIN g.nodes),
         NEW u \in DOMAIN segments, NEW c \in Members(segments[u]),
         \/ c = g.output
         \/ \E s \in DOMAIN segments : s # u /\ c \in Operands(g.nodes[First(segments[s])])
  PROVE  c = Result(segments[u])
<1>1. IsSegment(g, segments[u])
  BY DEF Laid
<1>2. CASE \E a : IsAlone(g, segments[u], a)
  BY <1>2 DEF IsAlone
<1>3. CASE \E a, b : IsJoined(g, segments[u], a, b)
  <2>1. PICK a, b : IsJoined(g, segments[u], a, b)
    BY <1>3
  <2>2. c \in {a, b} /\ Result(segments[u]) = b /\ Members(segments[u]) = {a, b} /\ IsPair(g, segments[u], a, b)
    BY <2>1 DEF IsJoined
  <2>3. PairFacts(g, a, b)
    BY <2>2, PairIs
  <2>4. Consumers(g, a) = {b} /\ b \in Nat \ {0}
    BY <2>3, NodeFacts DEF PairFacts
  <2>5. SUFFICES ASSUME c = a PROVE FALSE
    BY <2>2
  <2>6. CASE c = g.output
    <3>1. 0 \in Consumers(g, a)
      BY <2>5, <2>6 DEF Consumers
    <3> QED
      BY <2>4, <3>1
  <2>7. CASE \E s \in DOMAIN segments : s # u /\ c \in Operands(g.nodes[First(segments[s])])
    <3>1. PICK s \in DOMAIN segments : s # u /\ a \in Operands(g.nodes[First(segments[s])])
      BY <2>5, <2>7
    <3>2. IsSegment(g, segments[s])
      BY DEF Laid
    <3>3. First(segments[s]) \in Members(segments[s]) /\ First(segments[s]) \in DOMAIN g.nodes
      BY <3>2, SegmentFacts DEF IsAlone, IsJoined, IsSingle, IsPair
    <3>4. First(segments[s]) \in Consumers(g, a)
      BY <3>1, <3>3 DEF Consumers
    <3>5. First(segments[s]) = b
      BY <2>4, <3>4
    <3>6. b \in Members(segments[s]) /\ b \in Members(segments[u])
      BY <2>2, <3>3, <3>5
    <3> QED
      BY <3>1, <3>6 DEF Laid
  <2> QED
    BY <2>6, <2>7
<1> QED
  BY <1>1, <1>2, <1>3, SegmentFacts

Ends(segments) == [s \in DOMAIN segments |-> Result(segments[s])]

NewIns(g, segments, a) ==
  [k \in DOMAIN g.nodes[a].ins |-> RemapOf(g, segments)[g.nodes[a].ins[k]]]

(* The operands ins name, in the new numbers, what node a reads.           *)
Renamed(g, where, ins, a, n) ==
  /\ Reads(ins, n) /\ Len(ins) = Len(g.nodes[a].ins) /\ DOMAIN ins = DOMAIN g.nodes[a].ins
  /\ \A k \in DOMAIN ins : where[ins[k]] = g.nodes[a].ins[k]

LEMMA OperandsAreRenamed ==
  ASSUME NEW g, NEW shapes, IsGraph(g, shapes), NEW segments, Laid(g, segments, DOMAIN g.nodes),
         NEW s \in DOMAIN segments, NEW a \in DOMAIN g.nodes, a = First(segments[s])
  PROVE  Renamed(g, Ends(segments), NewIns(g, segments, a), a, s - 1)
<1>1. PICK old, ins, n : old = g.nodes[a].ins /\ ins = NewIns(g, segments, a) /\ n = Len(old)
  OBVIOUS
<1>2. IsSequence(old) /\ DOMAIN old = 1..n /\ n \in Nat
  BY <1>1, NodeFacts
<1>3. DOMAIN ins = 1..n /\ \A k \in 1..n : ins[k] = RemapOf(g, segments)[old[k]]
  BY <1>1, <1>2 DEF NewIns
<1>4. DOMAIN segments = 1..Len(segments) /\ Len(segments) \in Nat
  BY SequenceIsAFunction DEF Laid
<1>5. ASSUME NEW k \in 1..n
      PROVE  ins[k] \in 1..(s - 1) /\ Ends(segments)[ins[k]] = old[k]
  <2>1. PICK c : c = old[k]
    OBVIOUS
  <2>2. c \in Operands(g.nodes[a]) /\ c \in DOMAIN g.nodes
    BY <1>1, <1>2, <2>1, NodeFacts DEF Operands
  <2>3. PICK u \in 1..(s - 1) : c \in Members(segments[u])
    BY <2>2 DEF Laid
  <2>4. u \in DOMAIN segments /\ u # s
    BY <1>4, <2>3
  <2>5. RemapOf(g, segments)[c] = u
    BY <2>2, <2>3, <2>4, RemapFacts
  <2>6. c = Result(segments[u])
    BY <2>2, <2>3, <2>4, OnlyResultsAreRead
  <2>7. Ends(segments)[u] = c
    BY <2>4, <2>6 DEF Ends
  <2> QED
    BY <1>3, <2>1, <2>3, <2>5, <2>7
<1>6. ins \in [1..n -> 1..(s - 1)]
  <2>1. ins = [k \in 1..n |-> ins[k]]
    BY <1>1, <1>2, <1>3 DEF NewIns
  <2> QED
    BY <1>5, <2>1
<1>7. IsSequence(ins) /\ Len(ins) = n
  BY <1>2, <1>6, SequenceByDomain
<1> QED
  BY <1>1, <1>2, <1>3, <1>5, <1>7 DEF Renamed, Reads

(* A node of h is one of g, with its operands renamed ...                  *)
FusedSingle(g, h, where, s, a) ==
  /\ where[s] = a /\ a \in DOMAIN g.nodes /\ Follows(g, h, where, s)
  /\ \A b \in DOMAIN g.nodes : Fusable(g, b) /\ MergeInto(g, b) = a => ClassifyPair(g, a, b) = "none"

(* ... or a pair that only its second node stands for.                     *)
FusedPair(g, h, where, s, a, b) ==
  /\ where[s] = b /\ PairFacts(g, a, b) /\ \A t \in DOMAIN h.nodes : where[t] # a
  /\ h.nodes[s].op = ClassifyPair(g, a, b) /\ h.nodes[s].attrs = << >>
  /\ h.nodes[s].shape = g.nodes[b].shape
  /\ DOMAIN h.nodes[s].ins = DOMAIN g.nodes[a].ins
  /\ \A k \in DOMAIN h.nodes[s].ins : where[h.nodes[s].ins[k]] = g.nodes[a].ins[k]

FusedNode(g, h, where, s) ==
  (\E a : FusedSingle(g, h, where, s, a)) \/ (\E a, b : FusedPair(g, h, where, s, a, b))

Fused(g, shapes, h, where) ==
  /\ IsGraph(h, shapes)
  /\ where \in [DOMAIN h.nodes -> DOMAIN g.nodes] /\ where[h.output] = g.output
  /\ \A s \in DOMAIN h.nodes : \A t \in DOMAIN h.nodes : where[s] = where[t] => s = t
  /\ \A s \in DOMAIN h.nodes : FusedNode(g, h, where, s)
  /\ \A c \in DOMAIN g.nodes : \E s \in DOMAIN h.nodes :
       where[s] = c \/ \E b : FusedPair(g, h, where, s, c, b)

LEMMA LeadingSegment ==
  ASSUME NEW shapes, NEW segments, Leading(shapes, segments), NEW t \in DOMAIN shapes
  PROVE  /\ t \in DOMAIN segments /\ segments[t].op = "none" /\ First(segments[t]) = t
         /\ Members(segments[t]) = {t}
<1>1. t \in DOMAIN segments /\ segments[t] = Single(t)
  BY DEF Leading
<1>2. Single(t).op = "none" /\ Single(t).members = <<t>>
  BY DEF Single
<1>3. ToSet(<<t>>) = {t} /\ <<t>>[1] = t
  BY DEF ToSet
<1> QED
  BY <1>1, <1>2, <1>3 DEF First, Members

LEMMA SingleIsRewritten ==
  ASSUME NEW g, NEW shapes, IsGraph(g, shapes), NEW segments, Laid(g, segments, DOMAIN g.nodes),
         Leading(shapes, segments), NEW s \in DOMAIN segments, NEW a, IsAlone(g, segments[s], a),
         NEW h, h.nodes = [t \in DOMAIN segments |-> Rewritten(g, segments, t)]
  PROVE  /\ NodeAfter(h.nodes[s], s - 1) /\ Placed(h.nodes[s], s, shapes)
         /\ FusedSingle(g, h, Ends(segments), s, a)
<1>1. /\ a \in DOMAIN g.nodes /\ segments[s].op = "none" /\ segments[s] = Single(a)
      /\ First(segments[s]) = a /\ Result(segments[s]) = a /\ Members(segments[s]) = {a}
  BY DEF IsAlone, IsSingle
<1>2. PICK node, ins : node = g.nodes[a] /\ ins = NewIns(g, segments, a)
  OBVIOUS
<1>3. h.nodes[s] = Node(node.op, ins, node.shape, node.attrs)
  <2>1. h.nodes[s] = [node EXCEPT !.ins = ins]
    <3>1. h.nodes[s] = Rewritten(g, segments, s)
      OBVIOUS
    <3>2. segments[s].members[1] = a
      BY <1>1 DEF First
    <3> QED
      BY Zenon, <1>1, <1>2, <3>1, <3>2 DEF Rewritten, NewIns
  <2>2. node = Node(node.op, node.ins, node.shape, node.attrs)
    BY <1>1, <1>2, NodeFacts
  <2>3. [Node(node.op, node.ins, node.shape, node.attrs) EXCEPT !.ins = ins]
          = Node(node.op, ins, node.shape, node.attrs)
    BY NodeFields
  <2> QED
    BY <2>1, <2>2, <2>3, Zenon
<1>4. Renamed(g, Ends(segments), ins, a, s - 1)
  BY <1>1, <1>2, OperandsAreRenamed
<1>5. /\ h.nodes[s].op = node.op /\ h.nodes[s].ins = ins
      /\ h.nodes[s].shape = node.shape /\ h.nodes[s].attrs = node.attrs
  BY <1>3, NodeFields
<1>6. NodeAfter(h.nodes[s], s - 1)
  <2>1. Len(node.ins) \in Arity(node.op)
    BY <1>1, <1>2, NodeFacts
  <2>2. Len(ins) \in Arity(node.op) /\ Reads(ins, s - 1)
    BY <1>2, <1>4, <2>1 DEF Renamed
  <2> QED
    BY <1>3, <1>5, <2>2 DEF NodeAfter
<1>7. Placed(node, a, shapes)
  BY <1>1, <1>2, NodeFacts
<1>8. s \in DOMAIN shapes => a = s
  BY <1>1, LeadingSegment
<1>9. a \in DOMAIN shapes => a = s
  <2>1. a \in DOMAIN shapes => a \in DOMAIN segments /\ a \in Members(segments[a])
    BY LeadingSegment
  <2> QED
    BY <1>1, <2>1 DEF Laid
<1>10. Placed(h.nodes[s], s, shapes)
  <2>1. CASE s \in DOMAIN shapes
    <3>1. node = Node("placeholder", << >>, shapes[s], << >>)
      BY <1>7, <1>8, <2>1 DEF Placed
    <3>2. node.ins = << >>
      BY <3>1, NodeFields
    <3>3. ins = << >>
      <4>1. Len(ins) = 0 /\ IsSequence(ins)
        BY <1>2, <1>4, <3>2 DEF Renamed, Reads
      <4> QED
        BY <4>1 DEF IsSequence
    <3>4. h.nodes[s] = node
      BY <1>2, <1>3, <3>2, <3>3, <1>1, NodeFacts
    <3> QED
      BY <2>1, <3>1, <3>4 DEF Placed
  <2>2. CASE s \notin DOMAIN shapes
    <3>1. a \notin DOMAIN shapes
      BY <1>9, <2>2
    <3>2. node.op # "placeholder"
      BY <1>7, <3>1 DEF Placed
    <3> QED
      BY <1>5, <2>2, <3>2 DEF Placed
  <2> QED
    BY <2>1, <2>2
<1>11. Follows(g, h, Ends(segments), s)
  <2>1. Ends(segments)[s] = a
    BY <1>1 DEF Ends
  <2>2. node.op = "placeholder" => a = s
    BY <1>7, <1>9 DEF Placed
  <2> QED
    BY <1>2, <1>4, <1>5, <2>1, <2>2 DEF Follows, Renamed
<1>12. FusedSingle(g, h, Ends(segments), s, a)
  <2>1. Ends(segments)[s] = a
    BY <1>1 DEF Ends
  <2> QED
    BY <1>1, <1>11, <2>1 DEF FusedSingle, IsAlone, IsSingle
<1> QED
  BY <1>6, <1>10, <1>12

LEMMA EndsAre ==
  ASSUME NEW g, NEW segments, Laid(g, segments, DOMAIN g.nodes), NEW t \in DOMAIN segments
  PROVE  /\ Ends(segments)[t] = Result(segments[t]) /\ Result(segments[t]) \in Members(segments[t])
         /\ Ends(segments)[t] \in DOMAIN g.nodes
         /\ \A i \in Members(segments[t]) : \A u \in DOMAIN segments :
              i \in Members(segments[u]) => t = u
<1>1. IsSegment(g, segments[t])
  BY DEF Laid
<1>2. Result(segments[t]) \in Members(segments[t]) /\ Result(segments[t]) \in DOMAIN g.nodes
  BY <1>1, SegmentFacts DEF IsAlone, IsJoined, IsSingle, IsPair
<1>3. Ends(segments)[t] = Result(segments[t])
  BY DEF Ends
<1> QED
  BY <1>2, <1>3 DEF Laid

LEMMA PairIsRewritten ==
  ASSUME NEW g, NEW shapes, IsGraph(g, shapes), NEW segments, Laid(g, segments, DOMAIN g.nodes),
         Leading(shapes, segments), NEW s \in DOMAIN segments, NEW a, NEW b,
         IsJoined(g, segments[s], a, b),
         NEW h, h.nodes = [t \in DOMAIN segments |-> Rewritten(g, segments, t)]
  PROVE  /\ NodeAfter(h.nodes[s], s - 1) /\ Placed(h.nodes[s], s, shapes)
         /\ FusedPair(g, h, Ends(segments), s, a, b)
<1>1. /\ segments[s].op = ClassifyPair(g, a, b) /\ segments[s].op # "none"
      /\ First(segments[s]) = a /\ Result(segments[s]) = b /\ Members(segments[s]) = {a, b}
      /\ IsPair(g, segments[s], a, b)
  BY DEF IsJoined
<1>2. PairFacts(g, a, b)
  BY <1>1, PairIs
<1>3. a \in DOMAIN g.nodes /\ b \in DOMAIN g.nodes /\ a # b /\ Len(g.nodes[a].ins) = 2
  BY <1>2, NodeFacts DEF PairFacts
<1>4. PICK op, ins : op = ClassifyPair(g, a, b) /\ ins = NewIns(g, segments, a)
  OBVIOUS
<1>5. op \in {"fused_bias_relu", "fused_sub_square"}
  BY <1>1, <1>4, ClassifiedPair
<1>6. h.nodes[s] = Node(op, ins, g.nodes[b].shape, << >>)
  <2>1. h.nodes[s] = Rewritten(g, segments, s)
    OBVIOUS
  <2>2. segments[s].members[1] = a /\ Last(segments[s].members) = b
    BY <1>1 DEF First, Result
  <2> QED
    BY Zenon, <1>1, <1>4, <2>1, <2>2 DEF Rewritten, NewIns
<1>7. Renamed(g, Ends(segments), ins, a, s - 1)
  BY <1>1, <1>3, <1>4, OperandsAreRenamed
<1>8. /\ h.nodes[s].op = op /\ h.nodes[s].ins = ins
      /\ h.nodes[s].shape = g.nodes[b].shape /\ h.nodes[s].attrs = << >>
  BY <1>6, NodeFields
<1>9. NodeAfter(h.nodes[s], s - 1)
  <2>1. 2 \in Arity(op)
    BY <1>5 DEF Arity, Unary
  <2>2. Len(ins) \in Arity(op) /\ Reads(ins, s - 1)
    BY <1>3, <1>7, <2>1 DEF Renamed
  <2> QED
    BY <1>6, <1>8, <2>2 DEF NodeAfter
<1>10. Placed(h.nodes[s], s, shapes)
  <2>1. s \notin DOMAIN shapes
    BY <1>1, LeadingSegment
  <2> QED
    BY <1>5, <1>8, <2>1 DEF Placed
<1>11. FusedPair(g, h, Ends(segments), s, a, b)
  <2>1. Ends(segments)[s] = b
    BY <1>1, EndsAre
  <2>2. ASSUME NEW t \in DOMAIN h.nodes, Ends(segments)[t] = a PROVE FALSE
    <3>1. t \in DOMAIN segments
      OBVIOUS
    <3>2. a \in Members(segments[t]) /\ a \in Members(segments[s])
      BY <1>1, <2>2, <3>1, EndsAre
    <3>3. t = s
      BY <3>1, <3>2, EndsAre, ZenonT(60)
    <3> QED
      BY <1>3, <2>1, <2>2, <3>3
  <2> QED
    BY <1>2, <1>4, <1>7, <1>8, <2>1, <2>2 DEF FusedPair, Renamed
<1> QED
  BY <1>9, <1>10, <1>11

LEMMA FusionFollows ==
  ASSUME NEW g, NEW shapes, IsGraph(g, shapes)
  PROVE  \E where : Fused(g, shapes, ElementwiseFusion(g), where)
<1>1. PICK segments : FusionOf(g, shapes, segments)
  BY FusionUnfolds
<1>2. Laid(g, segments, DOMAIN g.nodes) /\ Leading(shapes, segments)
  BY <1>1 DEF FusionOf
<1>3. PICK h : h = ElementwiseFusion(g)
  OBVIOUS
<1>4. PICK remap : remap = RemapOf(g, segments)
  OBVIOUS
<1>5. h = [nodes  |-> [s \in DOMAIN segments |-> Rewritten(g, segments, s)],
           inputs |-> [k \in DOMAIN g.inputs |-> remap[g.inputs[k]]],
           output |-> remap[g.output]]
  BY Zenon, <1>1, <1>3, <1>4 DEF FusionOf, Rebuilt
<1>6. /\ h.nodes = [s \in DOMAIN segments |-> Rewritten(g, segments, s)]
      /\ h.inputs = [k \in DOMAIN g.inputs |-> remap[g.inputs[k]]]
      /\ h.output = remap[g.output]
      /\ h = [nodes |-> h.nodes, inputs |-> h.inputs, output |-> h.output]
  BY <1>5
<1>7. PICK m \in Nat : DOMAIN segments = 1..m /\ m = Len(segments)
  BY <1>2, SequenceIsAFunction DEF Laid
<1>8. DOMAIN h.nodes = 1..m
  BY <1>6, <1>7
<1>9. IsSequence(h.nodes) /\ Len(h.nodes) = m
  <2>1. h.nodes \in [1..m -> {h.nodes[k] : k \in 1..m}]
    <3>1. h.nodes = [k \in 1..m |-> h.nodes[k]]
      BY <1>6, <1>7
    <3> QED
      BY <3>1
  <2> QED
    BY <2>1, SequenceByDomain
<1>10. PICK where : where = Ends(segments)
  OBVIOUS
<1>11. ASSUME NEW s \in 1..m
       PROVE  NodeAfter(h.nodes[s], s - 1) /\ Placed(h.nodes[s], s, shapes) /\ FusedNode(g, h, where, s)
  <2>1. s \in DOMAIN segments /\ IsSegment(g, segments[s])
    BY <1>2, <1>7 DEF Laid
  <2>2. CASE \E a : IsAlone(g, segments[s], a)
    <3>1. PICK a : IsAlone(g, segments[s], a)
      BY <2>2
    <3> QED
      BY <1>2, <1>6, <1>10, <2>1, <3>1, SingleIsRewritten DEF FusedNode
  <2>3. CASE \E a, b : IsJoined(g, segments[s], a, b)
    <3>1. PICK a, b : IsJoined(g, segments[s], a, b)
      BY <2>3
    <3> QED
      BY <1>2, <1>6, <1>10, <2>1, <3>1, PairIsRewritten DEF FusedNode
  <2> QED
    BY <2>1, <2>2, <2>3, SegmentFacts
<1>12. where \in [DOMAIN h.nodes -> DOMAIN g.nodes]
  <2>1. \A s \in 1..m : where[s] \in DOMAIN g.nodes
    BY <1>2, <1>7, <1>10, EndsAre
  <2>2. where = [s \in 1..m |-> where[s]]
    BY <1>7, <1>10 DEF Ends
  <2> QED
    BY <1>8, <2>1, <2>2
<1>13. h.output \in DOMAIN h.nodes /\ where[h.output] = g.output
  <2>1. g.output \in DOMAIN g.nodes
    BY GraphFacts
  <2>2. PICK u : u = remap[g.output]
    OBVIOUS
  <2>3. u \in DOMAIN segments /\ g.output \in Members(segments[u])
    BY <1>2, <1>4, <2>1, <2>2, RemapFacts
  <2>4. g.output = Result(segments[u])
    BY <1>2, <2>3, OnlyResultsAreRead
  <2>5. where[u] = Result(segments[u])
    BY <1>2, <1>10, <2>3, EndsAre
  <2> QED
    BY <1>6, <1>7, <1>8, <2>2, <2>3, <2>4, <2>5
<1>14. h.inputs = [k \in DOMAIN shapes |-> k] /\ IsSequence(shapes) /\ Len(shapes) <= m
  <2>1. /\ g.inputs = [k \in DOMAIN shapes |-> k] /\ IsSequence(shapes) /\ Len(shapes) \in Nat
        /\ DOMAIN shapes = 1..Len(shapes) /\ Len(shapes) <= Len(g.nodes) /\ DOMAIN g.nodes = 1..Len(g.nodes)
        /\ Len(g.nodes) \in Nat
    BY GraphFacts
  <2>2. DOMAIN g.inputs = DOMAIN shapes /\ \A k \in DOMAIN shapes : g.inputs[k] = k
    BY <2>1
  <2>3. ASSUME NEW k \in DOMAIN shapes PROVE k \in DOMAIN segments /\ remap[k] = k
    <3>1. k \in DOMAIN g.nodes
      BY <2>1
    <3>2. k \in DOMAIN segments /\ k \in Members(segments[k])
      BY <1>2, LeadingSegment
    <3> QED
      BY <1>2, <1>4, <3>1, <3>2, RemapFacts
  <2>4. h.inputs = [k \in DOMAIN shapes |-> k]
    BY <1>6, <2>2, <2>3
  <2>5. Len(shapes) <= m
    <3>1. \A k \in 1..Len(shapes) : k \in 1..m
      BY <1>7, <2>1, <2>3
    <3>2. Len(shapes) = 0 \/ Len(shapes) \in 1..Len(shapes)
      BY <2>1
    <3> QED
      BY <2>1, <3>1, <3>2
  <2> QED
    BY <2>1, <2>4, <2>5
<1>15. IsGraph(h, shapes)
  <2>1. AreNodes(h.nodes, shapes)
    BY <1>8, <1>9, <1>11, <1>14 DEF AreNodes
  <2> QED
    BY <1>6, <1>13, <1>14, <2>1 DEF IsGraph
<1>16. ASSUME NEW s \in DOMAIN h.nodes, NEW t \in DOMAIN h.nodes, where[s] = where[t] PROVE s = t
  <2>1. s \in DOMAIN segments /\ t \in DOMAIN segments
    BY <1>7, <1>8
  <2>2. where[s] \in Members(segments[s]) /\ where[s] \in Members(segments[t])
    BY <1>2, <1>10, <1>16, <2>1, EndsAre
  <2> QED
    BY <1>2, <2>1, <2>2, EndsAre
<1>17. ASSUME NEW c \in DOMAIN g.nodes
       PROVE  \E s \in DOMAIN h.nodes : where[s] = c \/ \E b : FusedPair(g, h, where, s, c, b)
  <2>1. PICK s \in DOMAIN segments : c \in Members(segments[s])
    BY <1>2 DEF Laid
  <2>2. IsSegment(g, segments[s]) /\ s \in DOMAIN h.nodes
    BY <1>2, <1>7, <1>8 DEF Laid
  <2>3. CASE \E a : IsAlone(g, segments[s], a)
    <3>1. PICK a : IsAlone(g, segments[s], a)
      BY <2>3
    <3>2. c \in {a} /\ Result(segments[s]) = a
      BY <2>1, <3>1 DEF IsAlone
    <3>3. where[s] = c
      BY <1>2, <1>10, <2>1, <3>2, EndsAre
    <3> QED
      BY <2>2, <3>3
  <2>4. CASE \E a, b : IsJoined(g, segments[s], a, b)
    <3>1. PICK a, b : IsJoined(g, segments[s], a, b)
      BY <2>4
    <3>2. c \in {a, b} /\ Result(segments[s]) = b
      BY <2>1, <3>1 DEF IsJoined
    <3>3. FusedPair(g, h, where, s, a, b)
      BY <1>2, <1>6, <1>10, <3>1, PairIsRewritten
    <3>4. where[s] = b
      BY <3>3 DEF FusedPair
    <3> QED
      BY <2>2, <3>2, <3>3, <3>4
  <2> QED
    BY <2>2, <2>3, <2>4, SegmentFacts
<1> QED
  BY <1>3, <1>11, <1>8, <1>12, <1>13, <1>15, <1>16, <1>17 DEF Fused

(* A node of the fused graph records the shape of the node it stands for.  *)
LEMMA FusedNodeIs ==
  ASSUME NEW g, NEW shapes, NEW h, NEW where, Fused(g, shapes, h, where), NEW s \in DOMAIN h.nodes
  PROVE  /\ where[s] \in DOMAIN g.nodes /\ h.nodes[s].shape = g.nodes[where[s]].shape
         /\ \/ FusedSingle(g, h, where, s, where[s])
            \/ /\ h.nodes[s].op \in {"fused_bias_relu", "fused_sub_square"}
               /\ \E a : FusedPair(g, h, where, s, a, where[s])
<1>1. where[s] \in DOMAIN g.nodes /\ FusedNode(g, h, where, s)
  BY DEF Fused
<1>2. CASE \E a : FusedSingle(g, h, where, s, a)
  <2>1. PICK a : FusedSingle(g, h, where, s, a)
    BY <1>2
  <2>2. a = where[s] /\ Follows(g, h, where, s)
    BY <2>1 DEF FusedSingle
  <2>3. h.nodes[s].shape = g.nodes[where[s]].shape
    BY <2>2 DEF Follows
  <2> QED
    BY <1>1, <2>1, <2>2, <2>3
<1>3. CASE \E a, b : FusedPair(g, h, where, s, a, b)
  <2>1. PICK a, b : FusedPair(g, h, where, s, a, b)
    BY <1>3
  <2>2. b = where[s] /\ h.nodes[s].shape = g.nodes[b].shape /\ h.nodes[s].op = ClassifyPair(g, a, b)
        /\ PairFacts(g, a, b)
    BY <2>1 DEF FusedPair
  <2>3. h.nodes[s].op \in {"fused_bias_relu", "fused_sub_square"}
    BY <2>2, ClassifiedPair DEF PairFacts, IsBiasRelu, IsSubSquare
  <2> QED
    BY <1>1, <2>1, <2>2, <2>3
<1> QED
  BY <1>1, <1>2, <1>3 DEF FusedNode

(* The operands' shapes are what they were.                                *)
LEMMA FusedOperands ==
  ASSUME NEW g, NEW shapes, IsGraph(g, shapes), NEW h, NEW where, Fused(g, shapes, h, where),
         NEW s \in DOMAIN h.nodes, FusedSingle(g, h, where, s, where[s])
  PROVE  /\ h.nodes[s].op = g.nodes[where[s]].op
         /\ DOMAIN h.nodes[s].ins = DOMAIN g.nodes[where[s]].ins
         /\ \A k \in DOMAIN h.nodes[s].ins :
              /\ h.nodes[s].ins[k] \in DOMAIN h.nodes
              /\ where[h.nodes[s].ins[k]] = g.nodes[where[s]].ins[k]
              /\ h.nodes[h.nodes[s].ins[k]].shape = g.nodes[g.nodes[where[s]].ins[k]].shape
<1>1. Follows(g, h, where, s) /\ IsGraph(h, shapes)
  BY DEF FusedSingle, Fused
<1>2. \A k \in DOMAIN h.nodes[s].ins : h.nodes[s].ins[k] \in DOMAIN h.nodes
  BY <1>1, NodeFacts
<1>3. /\ h.nodes[s].op = g.nodes[where[s]].op /\ DOMAIN h.nodes[s].ins = DOMAIN g.nodes[where[s]].ins
      /\ \A k \in DOMAIN h.nodes[s].ins : where[h.nodes[s].ins[k]] = g.nodes[where[s]].ins[k]
  BY <1>1 DEF Follows
<1>4. \A k \in DOMAIN h.nodes[s].ins :
        h.nodes[h.nodes[s].ins[k]].shape = g.nodes[where[h.nodes[s].ins[k]]].shape
  BY <1>2, FusedNodeIs
<1> QED
  BY <1>2, <1>3, <1>4

(* What alone reads a node of the fused graph alone reads what the node    *)
(* stands for.                                                             *)
LEMMA FusedReaders ==
  ASSUME NEW g, NEW shapes, IsGraph(g, shapes), NEW h, NEW where, Fused(g, shapes, h, where),
         NEW i \in DOMAIN h.nodes, NEW j \in DOMAIN h.nodes, i \in Operands(h.nodes[j]),
         FusedSingle(g, h, where, j, where[j]), SingleUse(h, i)
  PROVE  Consumers(g, where[i]) = {where[j]} /\ SingleUse(g, where[i])
<1>1. IsGraph(h, shapes)
  BY DEF Fused
<1>2. Consumers(h, i) = {j}
  BY <1>1, SoleConsumer
<1>3. PICK a, b : a = where[i] /\ b = where[j]
  OBVIOUS
<1>4. a \in DOMAIN g.nodes /\ b \in DOMAIN g.nodes /\ j \in Nat \ {0} /\ b \in Nat \ {0}
  BY <1>1, <1>3, NodeFacts DEF Fused
<1>5. b \in Consumers(g, a)
  <2>1. PICK k \in DOMAIN h.nodes[j].ins : h.nodes[j].ins[k] = i
    BY DEF Operands
  <2>2. k \in DOMAIN g.nodes[b].ins /\ g.nodes[b].ins[k] = a
    BY <1>3, <2>1, FusedOperands
  <2> QED
    BY <1>4, <2>2 DEF Consumers, Operands
<1>6. ASSUME NEW c \in Consumers(g, a) PROVE c = b
  <2>1. (c = 0 /\ g.output = a) \/ (c \in DOMAIN g.nodes /\ a \in Operands(g.nodes[c]))
    BY DEF Consumers
  <2>2. CASE c = 0 /\ g.output = a
    <3>1. where[h.output] = where[i] /\ h.output \in DOMAIN h.nodes
      BY <1>1, <1>3, <2>2 DEF Fused, IsGraph
    <3>2. h.output = i
      BY <3>1 DEF Fused
    <3>3. 0 \in Consumers(h, i)
      BY <3>2 DEF Consumers
    <3> QED
      BY <1>2, <1>4, <3>3
  <2>3. CASE c \in DOMAIN g.nodes /\ a \in Operands(g.nodes[c])
    <3>1. PICK t \in DOMAIN h.nodes : where[t] = c \/ \E d : FusedPair(g, h, where, t, c, d)
      BY <2>3 DEF Fused
    <3>2. CASE where[t] = c
      <4>1. CASE FusedSingle(g, h, where, t, c)
        <5>1. PICK k \in DOMAIN g.nodes[c].ins : g.nodes[c].ins[k] = a
          BY <2>3 DEF Operands
        <5>2. /\ k \in DOMAIN h.nodes[t].ins /\ where[h.nodes[t].ins[k]] = a
              /\ h.nodes[t].ins[k] \in DOMAIN h.nodes
          BY <3>2, <4>1, <5>1, FusedOperands
        <5>3. h.nodes[t].ins[k] = i
          BY <1>3, <5>2 DEF Fused
        <5>4. t \in Consumers(h, i)
          BY <5>2, <5>3 DEF Consumers, Operands
        <5> QED
          BY <1>2, <1>3, <3>2, <5>4
      <4>2. CASE \E d : FusedPair(g, h, where, t, d, c)
        <5>1. PICK d : FusedPair(g, h, where, t, d, c)
          BY <4>2
        <5>2. Operands(g.nodes[c]) = {d} /\ where[i] # d
          BY <5>1 DEF FusedPair, PairFacts
        <5> QED
          BY <1>3, <2>3, <5>2
      <4> QED
        BY <3>2, <4>1, <4>2, FusedNodeIs
    <3>3. CASE \E d : FusedPair(g, h, where, t, c, d)
      <4>1. PICK d : FusedPair(g, h, where, t, c, d)
        BY <3>3
      <4>2. PICK k \in DOMAIN g.nodes[c].ins : g.nodes[c].ins[k] = a
        BY <2>3 DEF Operands
      <4>3. k \in DOMAIN h.nodes[t].ins /\ where[h.nodes[t].ins[k]] = a
        BY <4>1, <4>2 DEF FusedPair
      <4>4. h.nodes[t].ins[k] \in DOMAIN h.nodes
        BY <1>1, <4>3, NodeFacts
      <4>5. h.nodes[t].ins[k] = i
        BY <1>3, <4>3, <4>4 DEF Fused
      <4>6. t \in Consumers(h, i)
        BY <4>3, <4>5 DEF Consumers, Operands
      <4>7. t = j /\ where[t] = d
        BY <1>2, <4>1, <4>6 DEF FusedPair
      <4>8. Follows(g, h, where, j)
        BY DEF FusedSingle
      <4>9. h.nodes[j].op = g.nodes[b].op /\ h.nodes[j].op = ClassifyPair(g, c, b) /\ PairFacts(g, c, b)
        BY <1>3, <4>1, <4>7, <4>8 DEF FusedPair, Follows
      <4>10. g.nodes[b].op \in {"relu", "mul"} /\ ClassifyPair(g, c, b) \in {"fused_bias_relu", "fused_sub_square"}
        BY <4>9 DEF PairFacts, IsBiasRelu, IsSubSquare
      <4> QED
        BY <4>9, <4>10
    <3> QED
      BY <3>1, <3>2, <3>3
  <2> QED
    BY <2>1, <2>2, <2>3
<1>7. Consumers(g, a) = {b}
  BY <1>5, <1>6
<1>8. SingleUse(g, a)
  <2>1. Cardinality({b}) = 1
    BY FS_Singleton
  <2> QED
    BY <1>7, <2>1 DEF SingleUse
<1> QED
  BY <1>3, <1>7, <1>8

(* No pair with a kernel is left whose first value only the second reads.  *)
NoPairIsLeft(h) ==
  \A i, j \in DOMAIN h.nodes :
    /\ h.nodes[i].op \in {"add", "sub"} /\ Fusable(h, i)
    /\ i \in Operands(h.nodes[j])
    /\ ClassifyPair(h, i, j) # "none"
    => ~SingleUse(h, i)

LEMMA FusionMissesNothing ==
  ASSUME NEW g, NEW shapes, IsGraph(g, shapes)
  PROVE  NoPairIsLeft(ElementwiseFusion(g))
<1>1. PICK h, where : h = ElementwiseFusion(g) /\ Fused(g, shapes, h, where)
  BY FusionFollows
<1>2. SUFFICES ASSUME NEW i \in DOMAIN h.nodes, NEW j \in DOMAIN h.nodes,
                      h.nodes[i].op \in {"add", "sub"}, Fusable(h, i), i \in Operands(h.nodes[j]),
                      ClassifyPair(h, i, j) # "none", SingleUse(h, i)
               PROVE  FALSE
  BY <1>1 DEF NoPairIsLeft
<1>3. IsBiasRelu(h, i, j) \/ IsSubSquare(h, i, j)
  BY <1>2, ClassifiedPair
<1>4. h.nodes[j].op \in {"relu", "mul"}
  BY <1>3 DEF IsBiasRelu, IsSubSquare
<1>5. PICK a, b : a = where[i] /\ b = where[j]
  OBVIOUS
<1>6. FusedSingle(g, h, where, i, a) /\ FusedSingle(g, h, where, j, b)
  BY <1>1, <1>2, <1>4, <1>5, FusedNodeIs
<1>7. /\ h.nodes[i].op = g.nodes[a].op /\ h.nodes[j].op = g.nodes[b].op
      /\ DOMAIN h.nodes[i].ins = DOMAIN g.nodes[a].ins /\ DOMAIN h.nodes[j].ins = DOMAIN g.nodes[b].ins
      /\ \A k \in DOMAIN h.nodes[i].ins :
           h.nodes[h.nodes[i].ins[k]].shape = g.nodes[g.nodes[a].ins[k]].shape
      /\ \A k \in DOMAIN h.nodes[j].ins : where[h.nodes[j].ins[k]] = g.nodes[b].ins[k]
  BY <1>1, <1>5, <1>6, FusedOperands, SMTT(60)
<1>8. SingleUse(g, a) /\ a \in DOMAIN g.nodes /\ b \in DOMAIN g.nodes
  <2>1. a \in DOMAIN g.nodes /\ b \in DOMAIN g.nodes
    BY <1>6 DEF FusedSingle
  <2> QED
    BY <1>1, <1>2, <1>5, <1>6, <2>1, FusedReaders
<1>9. DOMAIN g.nodes[a].ins = 1..2
  <2>1. DOMAIN g.nodes[a].ins = 1..Len(g.nodes[a].ins) /\ Len(g.nodes[a].ins) \in Arity(g.nodes[a].op)
    BY <1>8, NodeFacts
  <2>2. PICK op, m : op = g.nodes[a].op /\ m = Len(g.nodes[a].ins)
    OBVIOUS
  <2>3. op \in {"add", "sub", "mul"} /\ m \in Arity(op)
    BY <1>2, <1>7, <2>1, <2>2
  <2>4. m = 2
    BY <2>3, Arities
  <2> QED
    BY <2>1, <2>2, <2>4
<1>10. /\ h.nodes[h.nodes[i].ins[1]].shape = g.nodes[g.nodes[a].ins[1]].shape
       /\ h.nodes[h.nodes[i].ins[2]].shape = g.nodes[g.nodes[a].ins[2]].shape
  BY <1>7, <1>9, SMTT(60)
<1>11. Fusable(g, a)
  BY <1>2, <1>7, <1>10 DEF Fusable
<1>12. /\ g.nodes[b].ins # << >> /\ \A k \in DOMAIN g.nodes[b].ins : g.nodes[b].ins[k] = a
       /\ Fusable(g, b) /\ ClassifyPair(g, a, b) # "none"
  <2>1. CASE IsBiasRelu(h, i, j)
    <3>1. /\ g.nodes[b].op = "relu" /\ g.nodes[a].op = "add"
          /\ g.nodes[g.nodes[a].ins[1]].shape # g.nodes[g.nodes[a].ins[2]].shape
      BY <1>7, <1>10, <2>1 DEF IsBiasRelu
    <3>2. Fusable(g, b) /\ ClassifyPair(g, a, b) # "none"
      BY <3>1 DEF Fusable, ClassifyPair
    <3>3. DOMAIN g.nodes[b].ins = 1..Len(g.nodes[b].ins) /\ Len(g.nodes[b].ins) \in Arity(g.nodes[b].op)
      BY <1>8, NodeFacts
    <3>4. DOMAIN g.nodes[b].ins = {1}
      <4>1. PICK op, m : op = g.nodes[b].op /\ m = Len(g.nodes[b].ins)
        OBVIOUS
      <4>2. op = "relu" /\ m \in Arity(op)
        BY <3>1, <3>3, <4>1
      <4>3. m = 1
        BY <4>2, Arities
      <4> QED
        BY <3>3, <4>1, <4>3
    <3>5. PICK k \in DOMAIN h.nodes[j].ins : h.nodes[j].ins[k] = i
      BY <1>2 DEF Operands
    <3>6. g.nodes[b].ins[1] = a
      BY <1>5, <1>7, <3>4, <3>5, SMTT(60)
    <3>7. g.nodes[b].ins # << >>
      <4>1. DOMAIN << >> = {}
        BY OneIsASequence, SequenceIsAFunction
      <4> QED
        BY <3>4, <4>1
    <3> QED
      BY <3>2, <3>4, <3>6, <3>7
  <2>2. CASE IsSubSquare(h, i, j)
    <3>1. g.nodes[b].op = "mul" /\ g.nodes[a].op = "sub" /\ h.nodes[j].ins = <<i, i>>
      BY <1>7, <2>2 DEF IsSubSquare
    <3>2. DOMAIN h.nodes[j].ins = 1..2 /\ h.nodes[j].ins[1] = i /\ h.nodes[j].ins[2] = i
      BY <3>1
    <3>3. DOMAIN g.nodes[b].ins = 1..2 /\ g.nodes[b].ins[1] = a /\ g.nodes[b].ins[2] = a
      BY <1>5, <1>7, <3>2, SMTT(60)
    <3>4. g.nodes[b].ins = <<a, a>>
      <4>1. IsSequence(g.nodes[b].ins) /\ Len(g.nodes[b].ins) = 2
        <5>1. IsSequence(g.nodes[b].ins) /\ DOMAIN g.nodes[b].ins = 1..Len(g.nodes[b].ins)
              /\ Len(g.nodes[b].ins) \in Arity(g.nodes[b].op)
          BY <1>8, NodeFacts
        <5>2. PICK op, m : op = g.nodes[b].op /\ m = Len(g.nodes[b].ins)
          OBVIOUS
        <5>3. op = "mul" /\ m \in Arity(op)
          BY <3>1, <5>1, <5>2
        <5>4. m = 2
          BY <5>3, Arities
        <5> QED
          BY <5>1, <5>2, <5>4
      <4> QED
        BY <3>3, <4>1 DEF IsSequence
    <3>5. Fusable(g, b) /\ ClassifyPair(g, a, b) # "none"
      BY <3>1, <3>3, <3>4 DEF Fusable, ClassifyPair
    <3>6. g.nodes[b].ins # << >>
      BY <3>4
    <3>7. \A k \in DOMAIN g.nodes[b].ins : k = 1 \/ k = 2
      BY <3>3
    <3> QED
      BY <3>3, <3>5, <3>6, <3>7
  <2> QED
    BY <1>3, <2>1, <2>2
<1>13. MergeInto(g, b) = a
  BY <1>8, <1>11, <1>12, MergesWhenItCan
<1> QED
  BY <1>6, <1>8, <1>12, <1>13 DEF FusedSingle

(* What the operators that fusion deals with compute.                      *)
SumOf(t, u) == Pairwise(t, u, LAMBDA x, y : x + y)

DifferenceOf(t, u) == Pairwise(t, u, LAMBDA x, y : x - y)

ProductOf(t, u) == Pairwise(t, u, LAMBDA x, y : x * y)

Rectified(t, slope) == Elementwise(t, LAMBDA x : Function("relu", slope, x))

BiasRelu(t, u) == Pairwise(t, u, LAMBDA x, b : Function("relu", 0, (x + b) % P))

SubSquare(t, u) == Pairwise(t, u, LAMBDA x, y : (x - y) * (x - y))

LEMMA ReadsOfBoth ==
  ASSUME NEW t, NEW u, IsTensor(t), IsTensor(u), Compatible(t.shape, u.shape),
         NEW i \in Indices(BroadcastShapes(t.shape, u.shape))
  PROVE  Read(t, i) \in Numbers /\ Read(u, i) \in Numbers
<1>1. PICK a, b, s : a = t.shape /\ b = u.shape /\ s = BroadcastShapes(a, b)
  OBVIOUS
<1>2. IsShape(a) /\ IsShape(b)
  BY <1>1 DEF IsTensor, IsShape
<1>3. IsShape(s) /\ \A axis \in 1..4 : Size(s, axis) = LargerSize(a, b, axis)
  BY <1>1, <1>2, BroadcastSizes
<1>4. ASSUME NEW axis \in 1..4
      PROVE  /\ Size(a, axis) = 1 \/ Size(a, axis) = Size(s, axis)
             /\ Size(b, axis) = 1 \/ Size(b, axis) = Size(s, axis)
  <2>1. Size(a, axis) = Size(b, axis) \/ Size(a, axis) = 1 \/ Size(b, axis) = 1
    BY <1>1 DEF Compatible, Axes
  <2>2. Size(a, axis) \in Nat \ {0} /\ Size(b, axis) \in Nat \ {0}
    BY <1>2, SizesArePositive
  <2> QED
    BY <1>3, <2>1, <2>2 DEF LargerSize
<1> QED
  BY <1>1, <1>3, <1>4, ReadsWithin

(* A sum, rectified, is the rectified sum that one kernel computes.        *)
LEMMA BiasReluIs ==
  ASSUME NEW t, NEW u, IsTensor(t), IsTensor(u), Compatible(t.shape, u.shape), NEW slope
  PROVE  Rectified(SumOf(t, u), slope) = BiasRelu(t, u)
<1>1. PICK s : s = BroadcastShapes(t.shape, u.shape)
  OBVIOUS
<1> DEFINE f == [i \in Indices(s) |-> (Read(t, i) + Read(u, i)) % P]
<1>2. f \in [Indices(s) -> Numbers]
  <2>1. ASSUME NEW i \in Indices(s) PROVE (Read(t, i) + Read(u, i)) % P \in Numbers
    <3>1. Read(t, i) \in Numbers /\ Read(u, i) \in Numbers
      BY <1>1, ReadsOfBoth
    <3>2. Read(t, i) + Read(u, i) \in Int
      BY <3>1, NumberModP
    <3> QED
      BY <3>2, ModIsNumber
  <2> QED
    BY <2>1
<1>3. SumOf(t, u) = [shape |-> s, at |-> f]
  <2>1. SumOf(t, u)
          = [shape |-> s, at |-> CHOOSE at \in {f} : at \in [Indices(s) -> Numbers]]
    BY <1>1 DEF SumOf, Pairwise, Tensor
  <2> HIDE DEF f
  <2>2. (CHOOSE at \in {f} : at \in [Indices(s) -> Numbers]) = f
    BY <1>2, OneCandidate
  <2> QED
    BY <2>1, <2>2
<1>4. \A x : Function("relu", slope, x) = Function("relu", 0, x)
  BY DEF Function
<1> DEFINE r == [i \in Indices(s) |-> Function("relu", slope, f[i]) % P]
<1> DEFINE q == [i \in Indices(s) |-> Function("relu", 0, (Read(t, i) + Read(u, i)) % P) % P]
<1>5. r = q
  BY <1>4
<1>6. Rectified([shape |-> s, at |-> f], slope)
        = [shape |-> s, at |-> CHOOSE at \in {r} : at \in [Indices(s) -> Numbers]]
  BY DEF Rectified, Elementwise, Tensor
<1>7. BiasRelu(t, u) = [shape |-> s, at |-> CHOOSE at \in {q} : at \in [Indices(s) -> Numbers]]
  BY <1>1 DEF BiasRelu, Pairwise, Tensor
<1> QED
  BY <1>3, <1>5, <1>6, <1>7

LEMMA BroadcastToItself ==
  ASSUME NEW s, IsShape(s)
  PROVE  BroadcastShapes(s, s) = s /\ \A i \in Indices(s) : Narrowed(s, i) = i
<1>1. PICK t : t = BroadcastShapes(s, s)
  OBVIOUS
<1>2. IsShape(t) /\ Len(t) = Len(s) /\ \A axis \in 1..4 : Size(t, axis) = Size(s, axis)
  BY <1>1, BroadcastSizes DEF LargerSize
<1>3. PICK n \in 0..4 : n = Len(s)
  BY ShapeFacts
<1>4. ASSUME NEW d \in 1..n PROVE t[d] = s[d]
  <2>1. PICK axis \in 1..4 : axis = d + 4 - n
    <3>1. d + 4 - n \in 1..4
      BY <1>3
    <3> QED
      BY <3>1
  <2>2. axis - 4 + n = d /\ d >= 1
    BY <1>3, <2>1
  <2>3. Size(t, axis) = t[d] /\ Size(s, axis) = s[d]
    BY <1>2, <1>3, <2>2, SizesArePositive
  <2> QED
    BY <1>2, <2>3
<1>5. t = s
  <2>1. PICK T : T = Nat \ {0}
    OBVIOUS
  <2>2. t \in Seq(T) /\ s \in Seq(T) /\ Len(t) = n /\ Len(s) = n
    BY <1>2, <1>3, <2>1 DEF IsShape
  <2> QED
    BY <1>4, <2>2, SeqEqual
<1>6. ASSUME NEW i \in Indices(s) PROVE Narrowed(s, i) = i
  <2>1. /\ i = <<i[1], i[2], i[3], i[4]>>
        /\ i[1] \in 1..Size(s, 1) /\ i[2] \in 1..Size(s, 2) /\ i[3] \in 1..Size(s, 3) /\ i[4] \in 1..Size(s, 4)
    BY IndexIs
  <2>2. ASSUME NEW x, NEW m, x \in 1..m PROVE (IF m = 1 THEN 1 ELSE x) = x
    <3>1. CASE m = 1
      BY <2>2, <3>1
    <3> QED
      BY <3>1
  <2>3. /\ (IF Size(s, 1) = 1 THEN 1 ELSE i[1]) = i[1] /\ (IF Size(s, 2) = 1 THEN 1 ELSE i[2]) = i[2]
        /\ (IF Size(s, 3) = 1 THEN 1 ELSE i[3]) = i[3] /\ (IF Size(s, 4) = 1 THEN 1 ELSE i[4]) = i[4]
    BY <2>1, <2>2
  <2> QED
    BY <2>1, <2>3 DEF Narrowed
<1> QED
  BY <1>1, <1>5, <1>6

LEMMA SquareModP ==
  ASSUME NEW d \in Int
  PROVE  ((d % P) * (d % P)) % P = (d * d) % P
<1>1. PICK r \in Int : r = d % P
  BY PAssumption, ModIsNumber DEF Numbers
<1>2. ((d % P) * r) % P = (d * r) % P
  BY ModInProduct
<1>3. (r * d) % P = (d * d) % P
  <2>1. ((d % P) * d) % P = (d * d) % P
    BY ModInProduct
  <2> QED
    BY <1>1, <2>1
<1>4. r * d = d * r
  OBVIOUS
<1> QED
  BY <1>1, <1>2, <1>3, <1>4

(* A difference, times itself, is the square that one kernel computes.     *)
LEMMA SubSquareIs ==
  ASSUME NEW t, NEW u, IsTensor(t), IsTensor(u), Compatible(t.shape, u.shape)
  PROVE  ProductOf(DifferenceOf(t, u), DifferenceOf(t, u)) = SubSquare(t, u)
<1>1. PICK a : a = DifferenceOf(t, u)
  OBVIOUS
<1>2. PICK s : s = BroadcastShapes(t.shape, u.shape)
  OBVIOUS
<1>3. IsShape(s)
  <2>1. IsShape(t.shape) /\ IsShape(u.shape)
    BY DEF IsTensor, IsShape
  <2> QED
    BY <1>2, <2>1, BroadcastSizes
<1> DEFINE f == [i \in Indices(s) |-> (Read(t, i) - Read(u, i)) % P]
<1>4. \A i \in Indices(s) : Read(t, i) - Read(u, i) \in Int
  <2>1. \A i \in Indices(s) : Read(t, i) \in Int /\ Read(u, i) \in Int
    BY <1>2, ReadsOfBoth, NumberModP
  <2> QED
    BY <2>1
<1>5. f \in [Indices(s) -> Numbers]
  BY <1>4, ModIsNumber
<1>6. a = [shape |-> s, at |-> f]
  <2>1. a = [shape |-> s, at |-> CHOOSE at \in {f} : at \in [Indices(s) -> Numbers]]
    BY <1>1, <1>2 DEF DifferenceOf, Pairwise, Tensor
  <2> HIDE DEF f
  <2>2. (CHOOSE at \in {f} : at \in [Indices(s) -> Numbers]) = f
    BY <1>5, OneCandidate
  <2> QED
    BY <2>1, <2>2
<1>7. a.shape = s /\ \A i \in Indices(s) : Read(a, i) = (Read(t, i) - Read(u, i)) % P
  <2>1. a.shape = s /\ a.at = f
    BY <1>6
  <2>2. \A i \in Indices(s) : Narrowed(s, i) = i
    BY <1>3, BroadcastToItself
  <2> QED
    BY <2>1, <2>2 DEF Read
<1> DEFINE r == [i \in Indices(s) |-> (Read(a, i) * Read(a, i)) % P]
<1> DEFINE q == [i \in Indices(s) |-> ((Read(t, i) - Read(u, i)) * (Read(t, i) - Read(u, i))) % P]
<1>8. r = q
  <2>1. ASSUME NEW i \in Indices(s)
        PROVE  (Read(a, i) * Read(a, i)) % P = ((Read(t, i) - Read(u, i)) * (Read(t, i) - Read(u, i))) % P
    <3>1. PICK d \in Int : d = Read(t, i) - Read(u, i)
      BY <1>4
    <3>2. Read(a, i) = d % P
      BY <1>7, <3>1
    <3> QED
      BY <3>1, <3>2, SquareModP
  <2> QED
    BY <2>1
<1>9. ProductOf(a, a)
        = [shape |-> s, at |-> CHOOSE at \in {r} : at \in [Indices(s) -> Numbers]]
  <2>1. BroadcastShapes(a.shape, a.shape) = s
    BY <1>3, <1>7, BroadcastToItself
  <2> QED
    BY <2>1 DEF ProductOf, Pairwise, Tensor
<1>10. SubSquare(t, u)
        = [shape |-> s, at |-> CHOOSE at \in {q} : at \in [Indices(s) -> Numbers]]
  BY <1>2 DEF SubSquare, Pairwise, Tensor
<1> QED
  BY <1>1, <1>8, <1>9, <1>10

LEMMA OperatorsAre ==
  ASSUME NEW at, NEW shape, NEW v
  PROVE  /\ Operator("add", at, shape, v) = SumOf(v[1], v[2])
         /\ Operator("sub", at, shape, v) = DifferenceOf(v[1], v[2])
         /\ Operator("mul", at, shape, v) = ProductOf(v[1], v[2])
         /\ Operator("relu", at, shape, v) = Rectified(v[1], at[1])
         /\ Operator("fused_bias_relu", at, shape, v) = BiasRelu(v[1], v[2])
         /\ Operator("fused_sub_square", at, shape, v) = SubSquare(v[1], v[2])
<1>1. Operator("add", at, shape, v) = SumOf(v[1], v[2])
  BY DEF Operator, Unary, SumOf
<1>2. Operator("sub", at, shape, v) = DifferenceOf(v[1], v[2])
  BY DEF Operator, Unary, DifferenceOf
<1>3. Operator("mul", at, shape, v) = ProductOf(v[1], v[2])
  BY DEF Operator, Unary, ProductOf
<1>4. Operator("relu", at, shape, v) = Rectified(v[1], at[1])
  BY DEF Operator, Unary, Rectified
<1>5. Operator("fused_bias_relu", at, shape, v) = BiasRelu(v[1], v[2])
  BY DEF Operator, Unary, BiasRelu
<1>6. Operator("fused_sub_square", at, shape, v) = SubSquare(v[1], v[2])
  BY DEF Operator, Unary, SubSquare
<1> QED
  BY <1>1, <1>2, <1>3, <1>4, <1>5, <1>6

LEMMA AcceptsAre ==
  ASSUME NEW at, NEW v
  PROVE  /\ Accepts("add", at, v) <=> Compatible(v[1].shape, v[2].shape)
         /\ Accepts("sub", at, v) <=> Compatible(v[1].shape, v[2].shape)
         /\ Accepts("fused_bias_relu", at, v) /\ Accepts("fused_sub_square", at, v)
BY DEF Accepts

(* What an operator reads is a tensor of numbers.                          *)
Numeric(g, vals) ==
  \A i \in DOMAIN g.nodes : \A j \in DOMAIN g.nodes :
    i \in Operands(g.nodes[j]) => IsTensor(vals[i])

LEMMA PairMakes ==
  ASSUME NEW g, NEW h, NEW shapes, IsGraph(g, shapes), IsGraph(h, shapes),
         NEW arguments, NEW vals, Computes(g, arguments, vals), Numeric(g, vals),
         NEW where \in [DOMAIN h.nodes -> DOMAIN g.nodes],
         NEW j \in DOMAIN h.nodes, NEW a, NEW b, FusedPair(g, h, where, j, a, b)
  PROVE  Makes(h, arguments, j, ValuesFrom(vals, where), ValuesFrom(vals, where)[j])
<1>1. /\ where[j] = b /\ PairFacts(g, a, b) /\ h.nodes[j].op = ClassifyPair(g, a, b)
      /\ DOMAIN h.nodes[j].ins = DOMAIN g.nodes[a].ins
      /\ \A k \in DOMAIN h.nodes[j].ins : where[h.nodes[j].ins[k]] = g.nodes[a].ins[k]
  BY DEF FusedPair
<1>2. a \in DOMAIN g.nodes /\ b \in DOMAIN g.nodes /\ DOMAIN g.nodes[a].ins = 1..2
  BY <1>1 DEF PairFacts
<1>3. PICK w, v, x, y : /\ w = ValuesFrom(vals, where) /\ v = OperandValues(g.nodes[a], vals)
                        /\ x = v[1] /\ y = v[2]
  OBVIOUS
<1>4. w[j] = vals[b]
  BY <1>1, <1>3 DEF ValuesFrom
<1>5. OperandValues(h.nodes[j], w) = v
  <2>1. ASSUME NEW k \in DOMAIN h.nodes[j].ins
        PROVE  w[h.nodes[j].ins[k]] = vals[g.nodes[a].ins[k]]
    <3>1. h.nodes[j].ins[k] \in DOMAIN h.nodes
      BY NodeFacts
    <3> QED
      BY <1>1, <1>3, <3>1 DEF ValuesFrom
  <2> QED
    BY <1>1, <1>3, <2>1 DEF OperandValues
<1>6. Makes(g, arguments, a, vals, vals[a]) /\ Makes(g, arguments, b, vals, vals[b])
  BY <1>2 DEF Computes
<1>7. g.nodes[a].op \in {"add", "sub"} /\ g.nodes[b].op \in {"relu", "mul"}
  BY <1>1 DEF PairFacts, IsBiasRelu, IsSubSquare
<1>8. ~IsLeaf(g.nodes[a]) /\ ~IsLeaf(g.nodes[b])
  BY <1>7 DEF IsLeaf
<1>9. Fits(g.nodes[a], v) /\ vals[a] = Eval(g.nodes[a], v)
  BY <1>3, <1>6, <1>8 DEF Makes
<1>10. vals[b] = Eval(g.nodes[b], OperandValues(g.nodes[b], vals))
  BY <1>6, <1>8 DEF Makes
<1>11. IsTensor(x) /\ IsTensor(y)
  <2>1. 1 \in DOMAIN g.nodes[a].ins /\ 2 \in DOMAIN g.nodes[a].ins
    BY <1>2
  <2>2. x = vals[g.nodes[a].ins[1]] /\ y = vals[g.nodes[a].ins[2]]
    BY <1>3, <2>1 DEF OperandValues
  <2>3. /\ g.nodes[a].ins[1] \in Operands(g.nodes[a]) /\ g.nodes[a].ins[2] \in Operands(g.nodes[a])
        /\ g.nodes[a].ins[1] \in DOMAIN g.nodes /\ g.nodes[a].ins[2] \in DOMAIN g.nodes
    BY <1>2, <2>1, NodeFacts DEF Operands
  <2> QED
    BY <1>2, <2>2, <2>3 DEF Numeric
<1>12. Compatible(x.shape, y.shape)
  BY <1>3, <1>7, <1>9, AcceptsAre DEF Fits
<1>13. h.nodes[j].op \in {"fused_bias_relu", "fused_sub_square"}
  BY <1>1 DEF PairFacts, IsBiasRelu, IsSubSquare
<1>14. h.nodes[j].op # "placeholder" /\ h.nodes[j].op # "constant" /\ Fits(h.nodes[j], v)
  BY <1>13, AcceptsAre DEF Fits
<1>15. vals[b] = Eval(h.nodes[j], v)
  <2>1. CASE IsBiasRelu(g, a, b)
    <3>1. g.nodes[a].op = "add" /\ g.nodes[b].op = "relu" /\ h.nodes[j].op = "fused_bias_relu"
      BY <1>1, <2>1 DEF IsBiasRelu
    <3>2. vals[a] = SumOf(x, y)
      BY <1>3, <1>9, <3>1, OperatorsAre DEF Eval
    <3>3. 1 \in DOMAIN g.nodes[b].ins /\ g.nodes[b].ins[1] = a
      <4>1. DOMAIN g.nodes[b].ins = 1..Len(g.nodes[b].ins) /\ Len(g.nodes[b].ins) \in Arity(g.nodes[b].op)
        BY <1>2, NodeFacts
      <4>2. PICK op, m : op = g.nodes[b].op /\ m = Len(g.nodes[b].ins)
        OBVIOUS
      <4>3. op = "relu" /\ m \in Arity(op)
        BY <3>1, <4>1, <4>2
      <4>4. m = 1
        BY <4>3, Arities
      <4>5. 1 \in DOMAIN g.nodes[b].ins
        BY <4>1, <4>2, <4>4
      <4>6. g.nodes[b].ins[1] \in Operands(g.nodes[b]) /\ Operands(g.nodes[b]) = {a}
        BY <1>1, <4>5 DEF Operands, PairFacts
      <4> QED
        BY <4>5, <4>6
    <3>4. OperandValues(g.nodes[b], vals)[1] = vals[a]
      BY <3>3 DEF OperandValues
    <3>5. PICK slope : slope = g.nodes[b].attrs[1]
      OBVIOUS
    <3>6. vals[b] = Rectified(vals[a], slope)
      BY <1>10, <3>1, <3>4, <3>5, OperatorsAre DEF Eval
    <3>7. vals[b] = BiasRelu(x, y)
      BY <1>11, <1>12, <3>2, <3>6, BiasReluIs
    <3>8. Eval(h.nodes[j], v) = BiasRelu(x, y)
      BY <1>3, <3>1, OperatorsAre DEF Eval
    <3> QED
      BY <3>7, <3>8
  <2>2. CASE IsSubSquare(g, a, b)
    <3>1. /\ g.nodes[a].op = "sub" /\ g.nodes[b].op = "mul" /\ h.nodes[j].op = "fused_sub_square"
          /\ g.nodes[b].ins = <<a, a>>
      BY <1>1, <2>2 DEF IsSubSquare
    <3>2. vals[a] = DifferenceOf(x, y)
      BY <1>3, <1>9, <3>1, OperatorsAre DEF Eval
    <3>3. OperandValues(g.nodes[b], vals)[1] = vals[a] /\ OperandValues(g.nodes[b], vals)[2] = vals[a]
      BY <3>1 DEF OperandValues
    <3>4. vals[b] = ProductOf(vals[a], vals[a])
      BY <1>10, <3>1, <3>3, OperatorsAre DEF Eval
    <3>5. vals[b] = SubSquare(x, y)
      BY <1>11, <1>12, <3>2, <3>4, SubSquareIs
    <3>6. Eval(h.nodes[j], v) = SubSquare(x, y)
      BY <1>3, <3>1, OperatorsAre DEF Eval
    <3> QED
      BY <3>5, <3>6
  <2> QED
    BY <1>1, <2>1, <2>2 DEF PairFacts
<1> QED
  BY <1>3, <1>4, <1>5, <1>14, <1>15 DEF Makes

(* Running what fusion makes of a graph gives what running the graph gave. *)
LEMMA FusionRuns ==
  ASSUME NEW g, NEW shapes, IsGraph(g, shapes), NEW arguments, RunsOn(g, arguments),
         Numeric(g, ValuesOn(g, arguments))
  PROVE  /\ IsGraph(ElementwiseFusion(g), shapes) /\ NoPairIsLeft(ElementwiseFusion(g))
         /\ RunsOn(ElementwiseFusion(g), arguments)
         /\ RunOn(ElementwiseFusion(g), arguments) = RunOn(g, arguments)
<1>1. PICK h, vals : h = ElementwiseFusion(g) /\ vals = ValuesOn(g, arguments)
  OBVIOUS
<1>2. PICK where : Fused(g, shapes, h, where)
  BY <1>1, FusionFollows
<1>3. Computes(g, arguments, vals)
  BY <1>1, RunIsComputed
<1>4. /\ IsGraph(h, shapes)
      /\ where \in [DOMAIN h.nodes -> DOMAIN g.nodes] /\ where[h.output] = g.output
  BY <1>2 DEF Fused
<1>5. ASSUME NEW j \in DOMAIN h.nodes
      PROVE  Makes(h, arguments, j, ValuesFrom(vals, where), ValuesFrom(vals, where)[j])
  <2>1. FusedNode(g, h, where, j)
    BY <1>2 DEF Fused
  <2>2. ASSUME NEW a, FusedSingle(g, h, where, j, a)
        PROVE  Makes(h, arguments, j, ValuesFrom(vals, where), ValuesFrom(vals, where)[j])
    <3>1. Follows(g, h, where, j)
      BY <2>2 DEF FusedSingle
    <3> QED
      BY <1>3, <1>4, <3>1, FollowerMakes
  <2>3. ASSUME NEW a, NEW b, FusedPair(g, h, where, j, a, b)
        PROVE  Makes(h, arguments, j, ValuesFrom(vals, where), ValuesFrom(vals, where)[j])
    BY <1>1, <1>3, <1>4, <2>3, PairMakes
  <2> QED
    BY <2>1, <2>2, <2>3 DEF FusedNode
<1>6. RunsOn(h, arguments) /\ RunOn(h, arguments) = RunOn(g, arguments)
  BY <1>3, <1>4, <1>5, FollowersRun
<1> QED
  BY <1>1, <1>4, <1>6, FusionMissesNothing
==============================================================================
