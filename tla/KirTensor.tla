----------------------------- MODULE KirTensor -----------------------------
(***************************************************************************)
(* Tensors and operators, with numbers in the field of integers modulo a   *)
(* prime: addition, multiplication and division are exact there, so two    *)
(* graphs that compute the same function agree, and the rules of the       *)
(* derivative hold as they do for real numbers.  exp, log, sqrt, tanh,     *)
(* sigmoid and gelu stand for themselves only through their derivatives;   *)
(* here each is some table.                                                *)
(*                                                                         *)
(* A tensor is a record: shape, a sequence of sizes, and at, its element   *)
(* at every index.  Every index has four axes, aligned at the right as     *)
(* broadcasting aligns them; axes a shape does not have are of size 1.     *)
(***************************************************************************)
EXTENDS Integers, Sequences, FiniteSetsExt

CONSTANT P             \* a prime, larger than any number of elements

ASSUME PAssumption == P \in Nat /\ P > 2

Numbers == 0..(P - 1)

(* What being a prime comes to here: there is division.                    *)
ASSUME PrimeAssumption == \A x \in 1..(P - 1) : \E y \in Numbers : (x * y) % P = 1

Axes == 1..4

Axis(shape, dim) == dim + 4 - Len(shape)

Size(shape, axis) ==
  LET d == axis - 4 + Len(shape) IN IF d >= 1 THEN shape[d] ELSE 1

Indices(shape) ==
  (1..Size(shape, 1)) \X (1..Size(shape, 2)) \X (1..Size(shape, 3)) \X (1..Size(shape, 4))

Numel(shape) == Size(shape, 1) * Size(shape, 2) * Size(shape, 3) * Size(shape, 4)

(* The CHOOSE has one candidate: it makes TLC compute the elements once,   *)
(* where it would otherwise do so whenever one is read.                    *)
Tensor(shape, element(_)) ==
  [shape |-> shape,
   at |-> CHOOSE at \in {[i \in Indices(shape) |-> element(i) % P]} :
            at \in [Indices(shape) -> Numbers]]

IsTensor(t) ==
  /\ t.shape \in Seq(Nat \ {0}) /\ Len(t.shape) <= 4
  /\ t.at \in [Indices(t.shape) -> Numbers]

(* Where a tensor of this shape is read for index i of a larger one.       *)
Narrowed(shape, i) ==
  <<IF Size(shape, 1) = 1 THEN 1 ELSE i[1], IF Size(shape, 2) = 1 THEN 1 ELSE i[2],
    IF Size(shape, 3) = 1 THEN 1 ELSE i[3], IF Size(shape, 4) = 1 THEN 1 ELSE i[4]>>

Read(t, i) == t.at[Narrowed(t.shape, i)]

(* broadcast_shapes of the C++ core, which decides what really comes out.  *)
BroadcastShapes(a, b) ==
  LET larger(axis) == IF Size(a, axis) > Size(b, axis) THEN Size(a, axis) ELSE Size(b, axis)
      rank == IF Len(a) > Len(b) THEN Len(a) ELSE Len(b)
  IN  SubSeq(<<larger(1), larger(2), larger(3), larger(4)>>, 5 - rank, 4)

Compatible(a, b) ==
  \A axis \in Axes : Size(a, axis) = Size(b, axis) \/ 1 \in {Size(a, axis), Size(b, axis)}

Reciprocal(x) == IF x % P = 0 THEN 0 ELSE CHOOSE y \in Numbers : (x * y) % P = 1

Positive(x) == 2 * x < P /\ x > 0

SumOver(S, term(_)) == MapThenSumSet(term, S)

Pairwise(a, b, f(_, _)) ==
  Tensor(BroadcastShapes(a.shape, b.shape), LAMBDA i : f(Read(a, i), Read(b, i)))

Elementwise(a, f(_)) == Tensor(a.shape, LAMBDA i : f(a.at[i]))

ReduceToShape(a, shape) ==
  Tensor(shape, LAMBDA i :
    SumOver({j \in Indices(a.shape) : Narrowed(shape, j) = i}, LAMBDA j : a.at[j]))

BroadcastToShape(a, shape) == Tensor(shape, LAMBDA i : Read(a, i))

Swapped(s, x, y) == [s EXCEPT ![x] = s[y], ![y] = s[x]]

WithoutDim(shape, dim) == [shape EXCEPT ![dim] = 1]

(* Row-major position of an index, which reshape keeps.                    *)
Position(shape, i) ==
  ((((i[1] - 1) * Size(shape, 2) + i[2] - 1) * Size(shape, 3)) + i[3] - 1)
    * Size(shape, 4) + i[4]

AtPosition(a, p) == a.at[CHOOSE j \in Indices(a.shape) : Position(a.shape, j) = p]

Reshape(a, shape) == Tensor(shape, LAMBDA i : AtPosition(a, Position(shape, i)))

(* Two tensors read side by side in memory order, for as long as the first.*)
InStep(a, b, f(_, _)) ==
  Tensor(a.shape, LAMBDA i : f(a.at[i], AtPosition(b, Position(a.shape, i))))

Transpose(a, d0, d1) ==
  Tensor(Swapped(a.shape, d0, d1), LAMBDA i :
    a.at[Swapped(i, Axis(a.shape, d0), Axis(a.shape, d1))])

(* Elements start + 1 to stop along dim.                                   *)
Slice(a, dim, start, stop) ==
  Tensor([a.shape EXCEPT ![dim] = stop - start], LAMBDA i :
    a.at[[i EXCEPT ![Axis(a.shape, dim)] = @ + start]])

Cat2(a, b, dim) ==
  LET axis == Axis(a.shape, dim)
      size == a.shape[dim]
  IN  Tensor([a.shape EXCEPT ![dim] = @ + b.shape[dim]], LAMBDA i :
        IF i[axis] <= size THEN a.at[i] ELSE b.at[[i EXCEPT ![axis] = @ - size]])

Cat(ts, dim) ==
  LET joined[k \in DOMAIN ts] == IF k = 1 THEN ts[1] ELSE Cat2(joined[k - 1], ts[k], dim)
  IN  joined[Len(ts)]

IndexSelect(a, dim, picks) ==
  LET axis == Axis(a.shape, dim)
  IN  Tensor([a.shape EXCEPT ![dim] = Len(picks)], LAMBDA i :
        a.at[[i EXCEPT ![axis] = picks[i[axis]]]])

(* The scatter-add: an index picked twice receives both contributions.     *)
IndexSelectBackward(g, dim, picks, shape) ==
  LET axis == Axis(shape, dim)
  IN  Tensor(shape, LAMBDA i :
        SumOver({k \in DOMAIN picks : picks[k] = i[axis]},
                LAMBDA k : g.at[[i EXCEPT ![axis] = k]]))

(* matmul, and its two transposed forms, over broadcast batch axes.        *)
MatMul(a, b, transposeA, transposeB) ==
  LET batch(s) == SubSeq(s, 1, Len(s) - 2)
      rows(s)  == s[Len(s) - 1]
      cols(s)  == s[Len(s)]
      m     == IF transposeA THEN cols(a.shape) ELSE rows(a.shape)
      inner == IF transposeA THEN rows(a.shape) ELSE cols(a.shape)
      n     == IF transposeB THEN rows(b.shape) ELSE cols(b.shape)
      left(i, k)  == IF transposeA THEN <<i[1], i[2], k, i[3]>> ELSE <<i[1], i[2], i[3], k>>
      right(i, k) == IF transposeB THEN <<i[1], i[2], i[4], k>> ELSE <<i[1], i[2], k, i[4]>>
  IN  Tensor(BroadcastShapes(batch(a.shape), batch(b.shape)) \o <<m, n>>, LAMBDA i :
        SumOver(1..inner, LAMBDA k : Read(a, left(i, k)) * Read(b, right(i, k))))

(* conv2d.  A window is its stride and padding.  What output index i reads *)
(* of the input through weight index k: im2col's ih and iw, which may lie  *)
(* in the padding, where a zero is read.                                   *)
Under(i, k, window) ==
  <<i[1], k[2], (i[3] - 1) * window[1] + k[3] - window[2],
                (i[4] - 1) * window[1] + k[4] - window[2]>>

(* Integer division as in C++, which drops the fraction.                   *)
Truncated(x, y) == IF x < 0 THEN -((-x) \div y) ELSE x \div y

ConvolvedSize(x, w, window, d) == Truncated(x[d] + 2 * window[2] - w[d], window[1]) + 1

(* The bias is read in memory order, whatever its shape.                   *)
Conv2d(x, w, b, window) ==
  LET size(d) == ConvolvedSize(x.shape, w.shape, window, d)
  IN  Tensor(<<x.shape[1], w.shape[1], size(3), size(4)>>, LAMBDA i :
        AtPosition(b, i[2])
          + SumOver({k \in Indices(w.shape) : k[1] = i[2] /\ Under(i, k, window) \in Indices(x.shape)},
                    LAMBDA k : w.at[k] * x.at[Under(i, k, window)]))

Conv2dBackwardBias(g) ==
  Tensor(<<g.shape[2]>>, LAMBDA i :
    SumOver({j \in Indices(g.shape) : j[2] = i[4]}, LAMBDA j : g.at[j]))

Conv2dBackwardWeight(x, g, shape, window) ==
  Tensor(shape, LAMBDA k :
    SumOver({i \in Indices(g.shape) : i[2] = k[1] /\ Under(i, k, window) \in Indices(x.shape)},
            LAMBDA i : g.at[i] * x.at[Under(i, k, window)]))

Conv2dBackwardInput(w, g, shape, window) ==
  Tensor(shape, LAMBDA j :
    SumOver({ik \in Indices(g.shape) \X Indices(w.shape) :
               ik[2][1] = ik[1][2] /\ Under(ik[1], ik[2], window) = j},
            LAMBDA ik : w.at[ik[2]] * g.at[ik[1]]))

(* Functions of one number and their derivatives.                          *)
Unary == {"relu", "leaky_relu", "gelu", "reciprocal", "sqrt", "exp", "log", "tanh", "sigmoid"}

Function(op, slope, x) ==
  CASE op = "relu"       -> IF Positive(x) THEN x ELSE 0
    [] op = "leaky_relu" -> IF Positive(x) THEN x ELSE slope * x
    [] op = "reciprocal" -> Reciprocal(x)
    [] op = "sqrt"       -> 2 * x + 3
    [] op = "exp"        -> x * x + 2
    [] op = "log"        -> 3 * x + 1
    [] op = "tanh"       -> x * x + x + 3
    [] op = "sigmoid"    -> 4 * x + 2
    [] op = "gelu"       -> x * x + 5

GeluSlope(x) == 5 * x + 4

SlopeAt(op, slope, x) ==
  LET y == Function(op, slope, x)
  IN  CASE op = "relu"       -> IF Positive(x) THEN 1 ELSE 0
        [] op = "leaky_relu" -> IF Positive(x) THEN 1 ELSE slope
        [] op = "reciprocal" -> -(Reciprocal(x) * Reciprocal(x))
        [] op = "sqrt"       -> Reciprocal(2 * y)
        [] op = "exp"        -> y
        [] op = "log"        -> Reciprocal(x)
        [] op = "tanh"       -> 1 - y * y
        [] op = "sigmoid"    -> y * (1 - y)
        [] op = "gelu"       -> GeluSlope(x)
=============================================================================
