---------------------------- MODULE KirPipeline ----------------------------
(***************************************************************************)
(* A graph from its trace through the rewrites a caller applies to it, in  *)
(* any order: elementwise_fusion, dead_code_elimination, grad.  grad is    *)
(* applied where it raises nothing: to a graph with a scalar output whose  *)
(* operators have vjp rules, that is, before fusion, and whose sizes are   *)
(* positive (those a conv2d records may not be, and 1.0 / n divides by     *)
(* their product).  What is traced or rewritten may raise when it runs.    *)
(***************************************************************************)
EXTENDS KirTrace, KirPasses, KirGrad

VARIABLES
  passes,     \* the rewrites applied so far
  meaning     \* history: the value the graph is to compute, if it has one

pipelineVars == <<vocab, graph, phase, called, passes, meaning>>

PipelineInit == TraceInit /\ passes = << >> /\ meaning = << >>

(* What run() returns, as a sequence of one, or nothing when it raises.    *)
Outcome(g) == IF Runs(g) THEN <<Run(g)>> ELSE << >>

Tracing ==
  /\ Trace
  /\ meaning' = IF phase' = "passes" THEN Outcome(graph') ELSE meaning
  /\ UNCHANGED passes

(* A caller applies each rewrite at most once here.                        *)
Applies(pass) ==
  /\ phase = "passes"
  /\ pass \in vocab.passes \ ToSet(passes)
  /\ passes' = Append(passes, pass)
  /\ UNCHANGED <<vocab, phase, called>>

Fuse ==
  /\ Applies("fuse")
  /\ graph' = ElementwiseFusion(graph)
  /\ UNCHANGED meaning

Eliminate ==
  /\ Applies("dce")
  /\ graph' = DeadCodeElimination(graph)
  /\ UNCHANGED meaning

(***************************************************************************)
(* The reference for grad: forward-mode differentiation.  The tangent of a *)
(* node is its derivative with respect to element e of leaf w, by the      *)
(* rules of calculus; max and the comparisons count as constants.          *)
(***************************************************************************)
Linear == {"add", "sub", "sum", "mean", "sum_dim", "reshape", "transpose", "slice", "cat",
           "index_select"}

Product(node, v, d) ==
  LET left  == Eval(node, [v EXCEPT ![1] = d[1]])
      right == Eval(node, [v EXCEPT ![2] = d[2]])
  IN  Pairwise(left, right, LAMBDA x, y : x + y)

(* conv2d is a product of its first two operands plus its third.           *)
Convolution(node, v, d) ==
  LET none  == Elementwise(v[3], LAMBDA x : 0)
      left  == Eval(node, <<d[1], v[2], d[3]>>)
      right == Eval(node, <<v[1], d[2], none>>)
  IN  Pairwise(left, right, LAMBDA x, y : x + y)

NodeTangent(node, value, v, d) ==
  CASE node.op \in Linear -> Eval(node, d)
    [] node.op \in {"mul", "matmul"} -> Product(node, v, d)
    [] node.op = "conv2d" -> Convolution(node, v, d)
    [] node.op \in Unary  -> Pairwise(v[1], d[1], LAMBDA x, dx :
                               SlopeAt(node.op, node.attrs[1], x) * dx)
    [] OTHER              -> Elementwise(value, LAMBDA x : 0)

OutputTangent(g, values, w, e) ==
  LET tangent[n \in 0..Len(g.nodes)] ==
        IF n = 0 THEN << >>
        ELSE LET before == tangent[n - 1]
                 node   == g.nodes[n]
                 v      == [k \in DOMAIN node.ins |-> values[node.ins[k]]]
                 d      == [k \in DOMAIN node.ins |-> before[node.ins[k]]]
             IN  Append(before,
                   IF n = w THEN Tensor(node.shape, LAMBDA i : IF i = e THEN 1 ELSE 0)
                   ELSE IF IsLeaf(node) THEN Tensor(node.shape, LAMBDA i : 0)
                   ELSE NodeTangent(node, values[n], v, d))
  IN  tangent[Len(g.nodes)][g.output].at[<<1, 1, 1, 1>>]

Derivative(g, w) ==
  LET values == RunValues(g)
  IN  Tensor(g.nodes[w].shape, LAMBDA e : OutputTangent(g, values, w, e))

(* What the gradient program is to return: one gradient, or a tuple.       *)
Gradients(g, wrt) ==
  IF Len(wrt) = 1 THEN Derivative(g, wrt[1])
  ELSE [k \in DOMAIN wrt |-> Derivative(g, wrt[k])]

LeavesOf(g) == InOrder({i \in DOMAIN g.nodes : IsLeaf(g.nodes[i])}, Len(g.nodes))

(* What a caller asks the gradients of: everything, or the first argument. *)
Asked(g) == {LeavesOf(g), <<1>>}

Differentiate ==
  /\ Applies("grad")
  /\ Numel(graph.nodes[graph.output].shape) = 1
  /\ \A i \in ReachedFrom(graph, {graph.output}) :
       /\ IsLeaf(graph.nodes[i]) \/ graph.nodes[i].op \in Differentiable
       /\ \A d \in DOMAIN graph.nodes[i].shape : graph.nodes[i].shape[d] > 0
  /\ \E wrt \in Asked(graph) : graph' = Grad(graph, wrt)
  /\ meaning' = Outcome(graph')

Rewrite == Fuse \/ Eliminate \/ Differentiate

(***************************************************************************)
(* Properties                                                              *)
(***************************************************************************)
(* The rewrite that has just been applied is one of these.                 *)
JustApplied(rewrites) == phase = "passes" /\ passes # << >> /\ Last(passes) \in rewrites

(* Graph invariants every consumer of a graph relies on: dense ids in      *)
(* topological order, placeholders listed once and in argument order.      *)
KirTypeOK ==
  /\ vocab \in Vocabularies
  /\ phase \in {"trace", "passes", "metal"}
  /\ called \in 0..vocab.maxCalls
  /\ ToSet(passes) \subseteq {"fuse", "dce", "grad"}
  /\ \A i \in DOMAIN graph.nodes : Operands(graph.nodes[i]) \subseteq 1..(i - 1)
  /\ ToSet(graph.inputs) = {i \in DOMAIN graph.nodes : graph.nodes[i].op = "placeholder"}
  /\ phase # "trace" => graph.output \in DOMAIN graph.nodes

(* The nodes that are recorded unchecked.  A reduction of a negative       *)
(* dimension (kir.py:214-258) and a conv2d whose bias or kernel does not   *)
(* fit (kir.py:194-208) raise when they run; a kernel that overhangs by    *)
(* less than the stride gives size 1 where 0 is recorded.  Two vjp labels  *)
(* are wrong: the product with a constant of shape [1] of a value without  *)
(* axes (kir.py:1295-1353), and the gradient of a bias with more axes than *)
(* one (kir.py:1188).                                                      *)
Unchecked(i) ==
  LET node   == graph.nodes[i]
      ofEach == [k \in DOMAIN node.ins |-> graph.nodes[node.ins[k]].shape]
  IN  \/ node.op \in {"sum_dim", "max_dim"} /\ node.attrs[1] < 0
      \/ /\ node.op = "conv2d"
         /\ Numel(ofEach[3]) # node.shape[2] \/ \E d \in {3, 4} : node.shape[d] < 1
      \/ node.op \in {"mul", "sub"} /\ node.shape = << >> /\ <<1>> \in Range(ofEach)
      \/ node.op = "conv2d_backward_bias" /\ Len(node.shape) # 1

(* Running a graph gives what it records, in the trace, in the gradient    *)
(* program and after a rewrite: every value that is made is a tensor of    *)
(* numbers with at most four axes (or the tuple that grad returns, which   *)
(* no node reads), and where a value does not have the shape its node      *)
(* records, or its operator raises, that node is one of the unchecked or   *)
(* reads one of which this is so already.  So the tracer's rules agree     *)
(* with the C++ core (kir.py:91-98) save for these, and the vjp rules      *)
(* label what they emit correctly, from which the backward operators take  *)
(* their result's shape (kir.py:464-483).                                  *)
ShapesAreHonest ==
  phase = "passes" =>
    LET values   == RunValues(graph)
        tuple(i) == graph.nodes[i].op = "tuple"
        parts(i) == i > Len(values) \/ (~tuple(i) /\ values[i].shape # graph.nodes[i].shape)
    IN  \A i \in DOMAIN graph.nodes :
          /\ i <= Len(values) =>
               IF tuple(i) THEN Consumers(graph, i) = {0} ELSE IsTensor(values[i])
          /\ i <= Len(values) + 1 /\ parts(i) =>
               Unchecked(i) \/ \E j \in Operands(graph.nodes[i]) : parts(j)

(* Fusion and dead code elimination, in either order, before or after      *)
(* grad, leave the value the graph computes as it was (kir.py:409-413).    *)
PassesKeepMeaning ==
  JustApplied({"fuse", "dce"}) /\ meaning # << >> => Outcome(graph) = meaning

(* The gradient program of a graph that runs does so too, and computes the *)
(* derivative of the output with respect to every node asked for, zero     *)
(* where there is no path, whatever way the paths part and meet            *)
(* (kir.py:1477-1499).  Compared are the numbers in memory order: the      *)
(* gradient of a value without axes may come with one.                     *)
InMemory(t) == [p \in 1..Numel(t.shape) |-> AtPosition(t, p)]

GivesGradients(g, wrt, value) ==
  LET expected == Gradients(g, wrt)
  IN  IF Len(wrt) = 1 THEN InMemory(value) = InMemory(expected)
      ELSE \A k \in DOMAIN wrt : InMemory(value[k]) = InMemory(expected[k])

GradIsDerivative ==
  [][passes' # passes /\ Last(passes') = "grad" /\ Runs(graph) =>
       /\ Runs(graph')
       /\ \A wrt \in Asked(graph) :
            graph' = Grad(graph, wrt) => GivesGradients(graph, wrt, Run(graph'))]_pipelineVars

(* Greedy grouping and segmentation miss nothing: after fusion no pair     *)
(* with a fused kernel is left whose first value only the second reads.    *)
FusionIsComplete ==
  JustApplied({"fuse"}) =>
    \A i, j \in DOMAIN graph.nodes :
      /\ graph.nodes[i].op \in {"add", "sub"} /\ Fusable(graph, i)
      /\ i \in Operands(graph.nodes[j])
      /\ ClassifyPair(graph, i, j) # "none"
      => ~SingleUse(graph, i)

(* Dead code elimination leaves what the output needs and the calling      *)
(* convention: every placeholder stays, in its place (kir.py:848-855).     *)
OnlyDeadCodeGoes ==
  /\ [k \in DOMAIN graph.inputs |-> graph.nodes[graph.inputs[k]].shape] = vocab.arguments
  /\ JustApplied({"dce"}) =>
       \A i \in DOMAIN graph.nodes :
         \/ graph.nodes[i].op = "placeholder"
         \/ i = graph.output
         \/ \E j \in DOMAIN graph.nodes : i \in Operands(graph.nodes[j])
=============================================================================
