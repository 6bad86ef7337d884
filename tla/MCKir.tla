------------------------------- MODULE MCKir -------------------------------
(***************************************************************************)
(* The instances of KirPipeline and MetalRun.  Captured tensors: 1 a bias  *)
(* row, 2 a square matrix, 3 a column, 4 a scalar, 5 a batch of rows, 6, 7 *)
(* and 8 the weights of convolutions, whose biases are 1, 3 and 4.         *)
(***************************************************************************)
EXTENDS MetalRun

MCShapeOf == << <<2>>, <<2, 2>>, <<2, 1>>, <<1>>, <<2, 1, 2>>, <<2, 1, 1, 1>>,
                <<2, 1, 2, 1>>, <<2, 1, 3, 1>> >>

Vocabulary(arguments, ops, tensors, maxCalls, rewrites) ==
  [arguments |-> arguments, ops |-> ops, tensors |-> tensors, maxCalls |-> maxCalls,
   shapes |-> {<<4>>, <<2>>, <<1, 2>>}, dims |-> {1, 2}, windows |-> {<<1, 0>>},
   passes |-> rewrites, chain |-> FALSE, metal |-> FALSE]

Chained(v) == [v EXCEPT !.chain = TRUE]

OnMetal(v) == [v EXCEPT !.metal = TRUE]

(* Elementwise programs, which fusion rewrites and run_metal chains: all   *)
(* those of three calls, and chains of four.                               *)
Layers == OnMetal(Vocabulary(<< <<1, 2>> >>, {"add", "relu", "mul"}, {1}, 3, {"fuse", "dce"}))

Losses == Vocabulary(<< <<1, 2>>, <<1, 2>> >>, {"sub", "mul"}, {}, 3, {"fuse", "dce"})

Deep == Chained(OnMetal(Vocabulary(<< <<1, 2>> >>, {"add", "relu"}, {1}, 4, {"fuse", "dce"})))

(* Differentiable programs.                                                *)
Formulas == Chained(
  Vocabulary(<< <<2>> >>, Unary \cup {"add", "sub", "mul", "div", "sum"}, {4}, 3, {"grad"}))

Meeting ==
  Vocabulary(<< <<2>> >>, {"mul", "sub", "mean"}, {}, 3, {"grad", "fuse", "dce"})

Broadcasting ==
  Vocabulary(<< <<2>>, <<1>> >>, {"mul", "mean"}, {}, 3, {"grad"})

Reducing == Chained(
  Vocabulary(<< <<2, 2>> >>, {"sum_dim", "max_dim", "mean_dim", "reshape", "mul", "sum"}, {1}, 3,
             {"grad"}))

Picking == Chained(
  Vocabulary(<< <<2, 2>> >>, {"slice", "cat", "index_select", "transpose", "sum"}, {}, 3,
             {"grad"}))

Heads == Chained(
  Vocabulary(<< <<2, 2>> >>, {"matmul", "softmax", "cross_entropy", "gt", "lt", "eq", "mean"},
             {1, 2, 3, 5}, 2,
             {"grad"}))

Batches == Chained(
  Vocabulary(<< <<2, 1, 2>> >>, {"matmul", "transpose", "mul", "sum"}, {2, 5}, 3, {"grad"}))

Convolutions == Chained(
  Vocabulary(<< <<1, 1, 2, 1>> >>, {"conv2d", "leaky_relu", "mul", "sum"}, {1, 6}, 3, {"grad"}))

(* Strides and paddings, kernels that overhang, biases that do not fit.    *)
Windows ==
  [Chained(Vocabulary(<< <<1, 1, 2, 1>> >>, {"conv2d", "sum"}, {1, 3, 4, 6, 7, 8}, 2, {"grad"}))
     EXCEPT !.windows = {1, 2} \X {0, 1}]

(* Dimensions counted from the end, and further than there are; values     *)
(* without axes.                                                           *)
Negative == Chained(
  [Vocabulary(<< <<2, 2>> >>, {"sum_dim", "max_dim", "mean_dim", "softmax", "sum"}, {}, 2, {"grad"})
     EXCEPT !.dims = {-3, -2, -1}])

NegativeOnMetal ==
  [OnMetal(Vocabulary(<< <<2, 2>> >>, {"max_dim", "add"}, {1}, 2, {"dce"})) EXCEPT !.dims = {-1, 1}]

Axisless == Chained(
  Vocabulary(<< <<2>>, << >> >>, Unary \cup {"add", "sub", "mul", "sum"}, {}, 2, {"grad", "dce"}))

MCVocabularies ==
  {Layers, Losses, Deep, Formulas, Meeting, Broadcasting, Reducing, Picking, Heads,
   Batches, Convolutions, Windows, Negative, NegativeOnMetal, Axisless}
=============================================================================
