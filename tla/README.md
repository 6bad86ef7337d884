# Formal models of KansaiML

KansaiML is a small machine-learning framework: a C++ tensor core with eager
autograd, Python modules and optimizers over it, and *KIR*, a traced graph
representation with its own executors, passes and memory planner. This directory
holds TLA+ models of the parts whose correctness rests on order, sharing and
reuse rather than on arithmetic, the TLC runs that check them on small instances,
and proofs, checked by TLAPS, that the main properties hold for every instance.

Paths below are relative to the repository root; `kir.py` is
`python/kansai/kir.py`, and the other Python modules named without a directory are
beside it; `Tensor.cpp`, `GradOps.cpp` and `StoragePool.cpp` are in `core/src/`.

    tlc -workers 2 -config MCPlannedRun.cfg  MCPlannedRun    # planner, executor, pool
    tlc -workers 2 -config MCAutograd.cfg    MCAutograd      # backward, no_grad, checkpoint
    tlc -workers 2 -config MCKir.cfg         MCKir           # tracer, passes, grad, run_metal
    tlc -workers 2 -config MCDistributed.cfg MCDistributed   # dtensor_run, dtensor_grad
    tlc -workers 2 -config MCSession.cfg     MCSession       # a training session
    tlapm PlannedRunProofs.tla                               # and the other *Proofs modules

## 1. The system

| Component | State it keeps | Operations | Talks to |
|---|---|---|---|
| Memory planner (`kir.py:884-954`) | `last_use`, `slot_of`, `slot_busy_until`, `free_slots` | `plan_memory` | the traced graph; `run_planned` follows its `last_use` |
| Planned executor (`kir.py:957-1068`) | the `values` dict of a call | `run_planned` | planner, pool, eager operators, the caller that keeps results |
| Storage pool (`StoragePool.cpp`) | `free_list_`, `total_allocated_`; the thread's active pool | `acquire`, `release`, `release_to_pool` | every operator that makes an output while a pool is active |
| KIR graph and tracer (`kir.py:1-445`) | node list, output id | `add`, `placeholder`, `TraceValue`'s methods, `cat`, `trace` | all executors and passes |
| Reference interpreter and `jit` (`kir.py:448-555`) | `values`; cache by shapes | `run`, `jit` | eager operators, the traced module's tensors |
| Fusion, dead code elimination (`kir.py:556-877`) | rewritten graphs | `elementwise_fusion`, `run_fused`, `dead_code_elimination` | graph, fused kernels |
| KIR autodiff (`kir.py:1070-1557`) | gradient node per forward node | `grad`, a vjp rule per operator, `find_constant` | graph |
| Metal executor (`kir.py:1558-1836`) | `values`, pending elementwise chain | `run_metal` | GPU operators |
| Eager autograd engine (`Tensor.cpp:1112-1174`) | `grad_node`, `.grad`; per call: `visited`, `topo`, `grad_map` | `backward`, `zero_grad`, each operator's recording | operators' `backward_fn`, the grad-enabled flag |
| Eager operators (`Tensor.cpp`, `GradOps.cpp`) | - | forward operators, backward operators, broadcasting | kernels |
| `no_grad`, `checkpoint` (`__init__.py:50-152`) | `previous` of each open block; the custom node | enter/exit, forward, recomputation in backward | engine (re-enters `backward`) |
| Optimizers and schedulers (`optim.py`) | moments, step counts, learning rates | `step`, `zero_grad`, `clip_grad_norm_` | parameters' `.grad` and data, in place |
| Modules (`nn.py`) | parameters, training flag, running statistics | `forward`, `named_parameters`, `train`/`eval` | engine, serialization, optimizers |
| Serialization (`serialize.py`) | checkpoint file; attributes of modules | `save`, `load` | modules; optimizers and traces that name the old tensors |
| Distributed (`distributed.py`) | one thread per shard, results and errors lists, shards | `DTensor.from_tensor`, `to_tensor`, `dtensor_run`, `dtensor_grad` | graphs, `grad`, fusion, `run`, `run_metal` |
| Data loading (`data.py`) | a generator per iterator: indices, position | iteration, `len` | the training loop |
| Quantization (`quantize.py`) | int8 copy of a weight and its scale | `quantize_symmetric`, `QLinear` | modules |
| Training loop (`examples/tinyshakespeare`) | step count | zero_grad, backward, clip, step, schedule | all of the above |
| CPU and Metal kernels, bindings, downloads, build | - | - | - |

What makes it hard:

* **Reuse of storage.** The pool hands a buffer to a second node while other
  tensors may still name it. Nothing is reference counted: safety rests on
  `last_use`, the order of "compute, then release the operands", on removing a
  released operand from `values`, and on what callers do with results.
* **Sharing of storage.** Gradients are handed on by reference: a leaf's first
  `.grad` is the walk's own tensor, `add` returns the incoming gradient for both
  operands.
* **Order on a DAG.** `backward` has to see every reader of a tensor before the
  tensor itself, for any way paths part and meet.
* **Failure in the middle.** An operator raises inside a planned call; a
  checkpoint's recomputation raises half-way through the walk.
* **Long sequences of legal calls.** Results kept, fed back, given back or
  dropped between planned calls; several `backward` calls with `zero_grad`,
  clipping, `no_grad` blocks and more forward operators between them.
* **Names for tensors.** A parameter is named by the module's attribute, by an
  optimizer's list, by a traced graph's constant and, in a checkpoint, by its path.
  `step` writes through the tensor, `load` replaces the attribute: what else names
  the tensor follows in the one case and stays behind in the other.
* **Rewrites of graphs.** Fusion, dead code elimination and `grad` renumber nodes and
  label what they emit with shapes nobody recomputes.
* **Files.** `save` truncates and then writes; the process can stop anywhere.
* **Threads.** `distributed.py` runs shards in threads; the grad flag and the
  active pool are per thread. Everything else is single-threaded: operators
  release the interpreter lock, but `backward` is one call of the binding that
  keeps it (`python/bindings.cpp:53-60`).

`PROJECT.json` lists the hazards at their lines, each with the properties that
would notice it going wrong or the reason none does yet.

## 2. Modules

    KirGraph ── MemoryPlanner ── PlannedRun (refines KirReference) ── MCPlannedRun, MCPlannedDocs
                                     └── PlannedRunProofs

    GradTape ── Autograd ── GradClipping ── MCAutograd, MCAutogradDocs
                                  └── AutogradProofs

    KirTensor ── KirRun ─┬─ KirTrace ──┬── KirPipeline ── MetalRun ── MCKir, MCKirDocs
        │                ├─ KirPasses ─┤                     └── KirPipelineProofs
        │                │      └── KirPassesProofs ────────────────┘
        │                └─ KirGrad ───┴── DistributedRun ── MCDistributed(Docs)
        │                ParallelCalls ─────┘  (refines OneAnswer)
        │                                   └── DistributedProofs
        └── Optimizers ───────────────────────┐
                   ModuleTree ── Checkpoint ──┼── Session ── MCSession
                   DataLoader, Quantization ──┘      └── SessionProofs

    DataInduction: induction over numbers and sequences, used by all the proofs
    TensorProofs: arithmetic modulo P and broadcasting, used by those of KIR and of Session

### Planner, executor and pool

`KirGraph` is the dense SSA graph of `trace()`: operands precede readers, leaves
are placeholders or constants. "compute" stands for every operator, since each
draws one output buffer and reads its operands. Values are terms
(`Apply(i, operands)`), so two values are equal exactly if they were computed the
same way from the same leaves. Sizes are numbers of pages.

`MemoryPlanner` is `plan_memory`, one action per loop iteration. `MarkOperands`
and `PinOutput` are the liveness loop and the pinning of the output; `SkipLeaf`,
`ReuseSlot` and `OpenSlot` the iterations of the greedy loop. `free_slots` is a
stack; it is represented by the iteration at which each slot joined (`freedAt`),
from which `MostRecentlyFreed` recovers what `pop()` returns. Node indices count
from 1, so the code's `last_use[output] = len(nodes)` is `n + 1`.

`PlannedRun` runs the plan and then any number of calls. `Begin` binds the
arguments (the caller's own tensors or results it still holds) after the
`requires_grad` assertion; `BindLeaf` and `ComputeInFreeBuffer` /
`ComputeInNewBuffer` are an iteration of the node loop, with `acquire`'s first-fit
scan, the zeroing of the new tensor *before* the kernel reads its operands, and
the tape an operand that requires grad leaves behind; `ReleaseOperand` and
`NextNode` are the release loop; `Return` and `Raise` leave through the `finally`.
`GiveBack` is `release_to_pool`, `Drop` a caller that lets a result go. A storage
is an integer (positive: pool buffer; negative: the caller's tensor or a
parameter), `mem` its content. `ref`, `args` and `saved` are history variables: what
`run()` would hold, the arguments, and what GradNodes kept.

`KirReference` is what a caller may assume of any executor: a call returns the
value `run()` gives or raises, and a value once returned stays what it is.
`PlannedRun!Reference` maps an executor result to *what its storage holds now*,
so overwriting a held result is not a step of the abstract specification.

### Eager autograd

`GradTape` is the forward side. User code is a *program*: tensors in the order
they are computed, each with its operands. Since gradients are linear in the
incoming gradient, one number per operand stands for an operator's derivative;
different primes make every way of routing gradients give a different sum. Slope 1
is a gradient handed through by reference (`add` of equal shapes), slope 0 an
input a checkpoint's `fn` ignores. `Operator` records when the flag is on and an
operand requires grad; `Checkpoint` records whatever the flag says, as the code
does; `EnterNoGrad`/`ExitNoGrad` save and restore the flag. `Derivative` is the
reference: the chain rule along the recorded operators, from the leaf up, where the
engine works down from the result.

`Autograd` is `Tensor::backward`. `Backward(r)` is the call; `Descend` and
`Finish` are the steps of the recursive lambda `visit`, its recursion being the
stack `frames`; `PassBy`, `TakeLeaf`, `TakeOperator`, `TakeCheckpoint` and
`CheckpointFails` are an iteration of the reverse walk; `Spread` one iteration of
the loop that adds a `backward_fn`'s results into `grad_map`. A gradient is a tensor
with a name (its position in `value`); `gradMap` and `grad` hold names, so sharing
is visible. `checkpoint`'s `backward_fn` re-enters `backward` on the recomputed
segment and returns before the outer walk goes on: `Recompute` gives the result of
that inner call, which also adds to captured parameters. Where the code raises
(`r.grad` is `None`, which the binding cannot convert), the walk ends where it
stands and `Surface` returns to the caller. `due` is a history variable: the sum of
the derivatives of the tensors `backward` was called on since the parameter's last
`zero_grad`. After an exception there is no amount a parameter should hold, so
`Surface` starts `due` from what it does hold; clipping does the same.

`GradClipping` adds `clip_grad_norm_` between calls: one in-place multiplication
per parameter that has a gradient.

### KIR: trace, passes, gradients, Metal

`KirTensor` is what eager operators compute, forward and backward, on numbers modulo
a prime `P`. In that field sums, products and quotients are exact and the rules of
the derivative hold, so two graphs that compute the same function give the same
tensor and a wrong rule gives another one. Functions such as `exp`, `sqrt` or `gelu` are
tables with a consistent derivative. Tensors carry their shape; broadcasting,
reducing to a shape, batched matmul, transposition, slices, concatenation and selection
follow `Tensor.cpp` and `GradOps.cpp`. Backward operators take their result's shape from the
label of their node, as the code does.

`KirRun` is a graph with its whole operator vocabulary and `run`/`run_fused`.
`KirTrace` is `TraceValue`: one action per family of methods, each with the nodes it
records, composed methods included (`div`, `softmax`, `cross_entropy`, `mean(dim)`), and with the
checks the method makes and no others. The tracer refuses less than the operators that run in its place
(divergence 9): `sum`, `mean`, `max` and `softmax` take a negative dimension, `conv2d` takes any bias
and any kernel, `cross_entropy` whatever its parts take. So a recorded graph may raise when it runs, and
`Fits` in `KirRun` says when each operator does. A *vocabulary* fixes the arguments, operators,
captured tensors, dimensions to reduce and windows (stride and padding) a traced function may use. `KirGrad` is `grad` with every vjp rule and its
accumulation; `KirPasses` is `dead_code_elimination` and `elementwise_fusion` (greedy
grouping, segmentation into kernels, emission at the group's tail). `KirPipeline` lets a
caller apply them to a trace in any order, with `meaning` the value that the graph is to
compute: what `run` gives for the trace, or for the gradient program once `grad` has made it, and
nothing where `run` raises. The reference for `grad` itself is *forward* differentiation, which
shares nothing with the vjp rules.

`MetalRun` runs `run_metal` on a fused graph, one action per node: `ExtendChain`,
`BeginChain`, `Dispatch` with the flush that precedes it, `MetalReturns`, and
`MetalRaises` where a value is not in the dict or an operator refuses its operands.

### Distributed

`ParallelCalls` is `_run_parallel`: `StartThread`, `ThreadReturns`, `ThreadRaises`,
`JoinThread`, then `RaiseFirst` or `ReturnResults`. `DistributedRun` puts `dtensor_run` and
`dtensor_grad` around it: `Split` (one argument a step), `Launch`, the threads, `Finish`
with gathering or the all-reduce. What a device makes of its shards does not
depend on the interleaving (threads share only the graph, built before they start), so it is
computed once per request. A device may fail. `OneAnswer` is the
promise: one answer, that of one device with the whole arguments, or the error of the first
device that fails; `AnswersLikeOneDevice` is that specification with its liveness.

### A training session

`ModuleTree` is `nn.Module` as objects with attributes on a heap of tensors;
`named_parameters` and `train` walk it, `SetByPath` assigns. `Checkpoint` is `save`, writing
unit after unit into a truncated file, and `load`, one parameter a step with every
check that can refuse; `Restart` is a process that ends anywhere. `Optimizers` is SGD,
Adam, AdamW and the schedulers in the arithmetic of `KirTensor`. `DataLoader` is the generator,
with several iterators over one loader. `Quantization` is `quantize_symmetric` on exact
fractions. `Session` composes them as the examples do: `TrainOnBatch` is one turn of
the loop (`zero_grad`, `backward`, clipped gradients, `step`, the schedule, all in
one action since one thread runs them), `EndEpoch`/`BeginEpoch`/`Break` its ends; and between
two turns a call through `jit`, `train()`/`eval()`, a quantized copy, a look at the data
by another iterator, `save`, `load`, a new optimizer, a crash.

## 3. Runs

| Run | Result | Question |
|---|---|---|
| `planned_run` | passes, 722,778 states | Is the plan right, does `run_planned` compute what `run()` computes, and do results survive? |
| `autograd` | passes, 416,471 states | Does every parameter get exactly the gradient it is owed? |
| `kir` | passes, 245,693 states | Do traces, rewrites, gradients and run_metal mean what they should? |
| `distributed` | passes, 2,724 states | Do many devices answer as one, in every interleaving and with failures? |
| `session` | passes, 33,021 states | Does training keep hold of the model through files, traces, modes and crashes? |
| `warm_pool` | violation | Does the pool stop allocating after a call or two? |
| `pooled_tape` | violation | Is a result of `run_planned` safe to call `backward` on? |
| `shared_gradient` | violation | Does clipping scale every gradient once? |
| `checkpoint_no_grad` | violation | Does `no_grad` suppress all recording? |
| `checkpoint_capture` | violation | Does a checkpoint give the gradients of the plain call? |
| `metal_chain` | violation | Does `run_metal` run what `run` runs? |
| `distributed_loss` | violation | Do summed shards give the gradient of a mean? |

`planned_run` covers **every** graph of up to 4 nodes (any leaves, one or two
operands, any output, buffers of 1 or 2 pages) and two calls with all choices of
arguments, failures, gifts back and drops. Four nodes are what it takes for a
buffer to be released, reused and released again while another one is live, for a
slot to have two tenants, and for the output to be a leaf, a dead node or an
operand. Two calls are what it takes to find the pool warm, or short of
buffers lost by a failure, with an earlier result held or passed in. Properties:
`TypeOK`, `LastUseIsLast` and `SlotsDisjoint` (the plan), `SlotsArePeak`
(`num_slots` is the peak number of live buffers, `kir.py:913`: the greedy
assignment is optimal), `NoAliasing` (a buffer is free once and not while used),
`ValuesMatchRun` (every bound value is `run()`'s), `ResultsStable`,
`PoolGrowsWithinPlan` (buffers of one size: whenever `run_planned` mallocs, what is
within reach is at most `num_slots`, the operands this node reads last, the held results and
the dead nodes) and `RefinesReference`. The pool itself has no such bound: a caller that keeps
many results and gives them all back leaves more buffers than any plan needs. What follows
from the plan is when the pool may grow; with operators of two operands the slack is
the `num_slots + 2` of `tests/test_kir_memory_planner.py:94`.

`autograd` covers every program of two operators over one parameter, every program
of one operator over two leaves, and three programs of five tensors whose paths
part and meet again (twice in a row; over a long and a short arm; through two
checkpoints that capture one parameter). An operator has its own slopes, is
an addition, a checkpoint, or a checkpoint that ignores an input. Two `backward`
calls on any tensors, two levels of `no_grad` anywhere between them, one clipping,
any `zero_grad`. Two calls are needed for accumulation and for a second
walk over a used tape; two blocks for nesting. `Coefficient` = 1009 is no sum of
products of the slopes in use, so a scaled gradient cannot pass for another.
Properties: `AutogradTypeOK`; `GradIsDue` (between calls each parameter
holds exactly its due, during and after a failing call never more);
`TopoIsSorted`; `ConsumedIsFinal` (no gradient arrives for a tensor whose gradient
has been used); `HeldGradientsKeep` (no call writes in a gradient that exists);
`NoGradRestores`; `BackwardReturns`.

`kir` covers every function of up to three calls (chains of four for elementwise layers,
of two for heads) over fifteen vocabularies, each built around one part of the operator set:
elementwise layers and losses for fusion and Metal, formulas of unary functions,
paths that meet, broadcasting operands, reductions, slices and selections, matrix heads
with softmax and cross entropy, batched matmul, convolution; and four around what the tracer does
not check: values without axes, negative dimensions (under every rewrite, and on Metal), and
convolutions whose stride is 1 or 2, padding 0 or 1, kernel 1 to 3 rows high, overhanging its input or
not, and whose bias has the right number of elements, a wrong one, or more axes than one. Sizes are 1 and 2,
which is what broadcasting tells apart. Three calls
let a value have two readers, a chain have an interior and a tail, a gradient
arrive along two paths; four let a fused chain start again inside a group. `P` = 7 exceeds the
number of elements, so means exist. Properties: `KirTypeOK` (ids are dense and ordered,
placeholders all there); `ShapesAreHonest` (in traces, rewrites and gradient programs, a value
has the shape its node records, and its operator does not raise, unless the node is one of those that
are recorded unchecked, `Unchecked`, or reads one that went wrong before it: divergences 9 and 10 are all there is, and
each of `Unchecked`'s cases occurs); `PassesKeepMeaning`; `GradIsDerivative` (an action property: the step that
differentiates a graph which runs leads to one which runs and gives the derivatives);
`FusionIsComplete` (no fusable pair is left); `OnlyDeadCodeGoes`; `MetalMatchesRun`;
`MetalRaisesOnlyOnChains` (for a graph `run` computes, the defect of divergence 6 is the only one).

`distributed` takes nine calls (a layer, a gate on two sharded batches, gradients of sum and
mean losses for weight, bias and batch) on one to three devices, with every subset of them
failing: replicated, one row on three devices (empty shards), three rows on two devices
(uneven shards), four rows along either dimension, and two meshes in one call. Properties:
`ParallelTypeOK`, `NobodyLeftBehind` (no thread outlives the call), `ResultsInOrder`,
`FirstErrorIsRaised`, `ShardsAreTheArgument`, and the refinement `AnswersLikeOneDevice`.

`session` takes plans of up to five steps: every optimizer with gradients that come and go
and a weight under two names; every schedule past its end, with warm-ups of none, one and two
steps; `jit`, modes and quantization between steps; files of six architectures (equal, other
numbers, a transposed weight, a missing parameter, one module twice, one tensor twice) with a
stop anywhere; six loaders, short and empty ones included. Three steps are what a moment
needs to decay twice, two saves what a torn file needs to replace a whole one. Properties:
`LoadedIsSaved` (a `load` that returns gave exactly what the last `save` had to write),
`RefusedLoadIsAPrefix`, `LearningReachesTheModel` (the optimizer's tensors are the
module's, unless a `load` came since), `JitMatchesEager` (a kept graph reads the
current parameters, unless a `load` or a change of mode came since),
`MomentumIsDecayedSum`, `BiasIsCorrected` (for parameters that had the same gradient in every step),
`ScheduleIsClosedForm` (the rate is that of the documented schedule, a ramp from 0 included, after every
`step()` of the scheduler, and before the first one where there is no warm-up: divergence 8 is the case left out),
`EverySampleOnce`, `QuantizedIsClose`, `TrainingEnds`.

`MaxCalls`, `MaxNodes`, `MaxBytes`, `MaxOps`, `MaxBlocks`, `MaxBackwards`, `MaxClips`, a
vocabulary's `maxCalls` and a plan's counts bound the instances and stand for nothing in the
code. Deadlock checking is off because a caller may stop, and does when a bound is
reached.

**Fairness.** The planner, the executor and KIR have none: only safety is claimed of them.
`Autograd` assumes weak fairness of `Engine`, the steps inside a call of `backward`.
The call is synchronous C++ under the interpreter lock and no other code runs until
it returns, so it keeps taking steps. Nothing is assumed of the caller, who may
never call anything. `DistributedRun` assumes it of each thread (the operating system runs a
thread that can run) and of the calling thread. `Session` assumes it of a `save` or `load` in
progress and of the iterator of the `for` loop; nothing is assumed of saves, crashes or
other calls, which a plan allows only so often.

### Where the code differs from what it says

1. **The pool can grow in every one of the first calls** (`warm_pool`). `acquire`
   takes the first buffer that is big *enough*, so a small node can take the buffer
   a larger node needs later in the call. With `relu, transpose, matmul, matmul` and
   two sizes, driven by the test's own loop, the fourth call still allocates
   (five buffers for `num_slots` = 2). `StoragePool.cpp:7-10` and `kir.py:917-920` promise
   convergence "after the first call or two". Values stay right.
2. **The forward-only guard misses constants** (`pooled_tape`). `kir.py:1005` checks
   the arguments, but a traced module's parameters are constants of the graph and
   require grad: the result's tape refers to pool buffers that were reused.
3. **Clipping scales a shared gradient twice** (`shared_gradient`). Two parameters
   that meet in `add` end up with the same tensor as `.grad`.
4. **`checkpoint` records inside `no_grad`** (`checkpoint_no_grad`).
5. **`checkpoint` over inputs that need no gradient drops the gradients of what `fn`
   captures** (`checkpoint_capture`), where `tests/test_checkpoint.py:15-17` says the
   gradients match the plain call exactly.

6. **`run_metal` forgets the interior of a chain** (`metal_chain`). A flush stores the last
   value only (`kir.py:1665`). For three bias additions of which the first or second is read
   again, by a later node or as the output, it raises `KeyError`, although `kir.py:1587-1590`
   calls it "Like run_fused(), ... same KIR graph, same op vocabulary".
7. **Summed shards are not the mean's gradient when the loss reads a parameter
   directly** (`distributed_loss`). The gradient graph broadcasts to the full batch's shape
   (`kir.py:1202-1216`) whatever the shard's; with `mean(x + b)` no operator on the way brings it
   back, every device returns the full gradient of `b`, and their sum is it times the number
   of devices. `distributed.py:337-341` says the sum "reconstructs the true full-batch-mean
   gradient directly". With a `relu` in between the promise holds (`distributed`).

The next three have no run of their own; the property named is stated so as to leave exactly them out.

8. **The first batch of a warm-up runs at the full rate** (`ScheduleIsClosedForm`).
   `optim.py:282-291` has `LinearWarmup` ramp "from 0", so that no un-warmed rate is "applied directly to a
   freshly-initialized" model "at step 0". Its constructor sets no rate (`optim.py:304-309`), so until the
   first `step()`, which the training loop makes after the first batch, `optimizer.lr` is the peak.
9. **The tracer records calls that raise when they run** (`ShapesAreHonest`), where `kir.py:116-118` says that its methods
   mirror `kansai.Tensor` exactly. A negative dimension of `sum`, `mean`, `max` and `softmax` is a Python
   index like any other (`kir.py:214-249`) and "dim out of range" to the operator (`Tensor.cpp:834`);
   `conv2d` looks neither at the number of elements of its bias nor at the sign of its result's size
   (`kir.py:194-208`, `Tensor.cpp:494-500`). Where a kernel overhangs its padded input by less than the stride, Python's
   `//` rounds down to a size of 0 and the division of C++ to 1: the operator runs and gives a shape the
   graph does not record, where `kir.py:91-98` says of broadcasting that the two "must agree exactly". And traced
   `cross_entropy` (`kir.py:303-314`) takes operands with more axes than two or that merely broadcast, which
   the eager method refuses (`Tensor.cpp:915-918`).
10. **Two vjp labels are wrong** (`ShapesAreHonest`). The rules of `sqrt`, `tanh` and `sigmoid` multiply by a
   constant of shape `[1]` and label the product with the value's own shape (`kir.py:1285-1353`), which for a
   value without axes is not the product's: the gradient comes back with one axis. That of a `conv2d` bias is
   labelled with the bias's shape (`kir.py:1188`) and comes back with one axis however many the
   bias has. The numbers are right (`GradIsDerivative`).
## 4. Proofs

All for every value of the constants: every set of well-formed graphs, programs, requests,
models and plans, any number of calls, blocks, clippings, threads, devices and iterators. What is
assumed of the constants is stated in the modules that declare them, and TLC evaluates all of
it in the runs:

* `GraphsAssumption`, `ProgramsAssumption`: what `trace()` and eager execution guarantee by
  construction (operands exist before their readers, leaves read nothing);
* `OutcomesAssumption`, `ErrorsAssumption`: an exception is not the `None` that
  `_run_parallel` fills its lists with, and the exceptions a request may end in are exceptions;
* `JobsAssumption`: a request has a device and an argument, tensors have at most four axes and none of
  them is empty, a placement is `Replicate()` or a dimension of its argument;
* `LoadersAssumption` (`range` refuses a step of 0), `IteratorsAssumption`;
* `ArchitecturesAssumption`, `PlansAssumption`, `GradientsAssumption`: a model is a tree of objects
  over tensors, an optimizer is one of `optim.py`'s, its hyperparameters are numbers, a ramp is shorter
  than the field, `step_size` is not 0, and a gradient has a number for each of its parameter's;
* `PrimeAssumption`: there is division in the field (used by the ramp of `LinearWarmup`);
  `LevelsAssumption`: there is a level besides 0;
* `VocabulariesAssumption`: what is traced has an argument, and arguments have shapes;
* that the bounds are natural numbers.

**Induction.** The library's induction theorems take the property as an operator, which no
prover here can instantiate. `DataInduction` states induction with the property as a *set*
(`SetInduction`, `BoundedInduction`), so that a recursive function, being a `CHOOSE` of a function
that satisfies its equation, can be shown to exist by extending it one argument at a time, and
reasoned about by the equation from then on. The derivative of the engine, the values of `run()`, the flattening
of shards and of a model's parameters, and the sequences the code builds by
appending are all treated in this way.

**`PlannedRunProofs`** (`RunInvariant`, `TypeCorrect`, `LastUseCorrect`,
`PlanCorrect`, `PoolNeverAliases`, `SameValuesAsRun`, `ResultsSurvive`, `SlotsAreThePeak`,
`PoolFollowsThePlan`, `PlannedImplementsRun`). `PlanInv` adds
to the planner's properties what its loops have established so far: `LivenessInv`
(an entry of `last_use` is at or past every reader seen so far and before the
loop index) and `SlotsInv` (a slot is busy at least until its tenants die, and a free
slot has no living tenant). `NoAliasing` and `ValuesMatchRun` are not inductive: the
step that computes a node needs its operands to be bound still, which follows from
`BindingInv`: every node that is read later (`StillNeeded`: its `last_use` lies ahead)
is bound, computed nodes live in pool buffers, nothing is bound between calls,
and the caller's own tensors are never written. `RunInv` is the conjunction, proved
with one lemma per action.
`PlannedImplementsRun` is the refinement of `KirReference`: with `RunInv`, and with
`AgreesWithRun` (what the call has bound is what `run()` has for that node), each step is a
step of the abstract specification or one its caller cannot see.
`OptimalInv` says why the greedy assignment is optimal: the slot opened last was opened because the
tenants of all others were alive, and two living nodes have two slots, so slots inject
into living nodes and the other way round. `PoolInv` is what makes the pool follow the plan: nothing computed stays
bound past its last use (`NothingLingers`), what an argument names is a held result or the caller's own,
and the pool mallocs for computed nodes only; when it mallocs, every buffer is bound or held, and the bound ones
that are read later are as many as slots.

**`AutogradProofs`** (`TopologicalOrder`, `WalkNeverComesBack`,
`BackwardWritesNothing`, `NoGradIsRestored`, and below). That `topo` is sorted needs the stack of
visits in progress (`StackInv`): its tensors descend, so a frame can never meet
itself; each frame's inputs before its position are finished, save the last one,
which may be the frame above it; and `visited` is exactly what is finished or on the
stack. So when a frame is done all its inputs are in `topo`, and a visited input
that is met again cannot be a frame. `PhaseInv` ties `gradsIn` to the operands of the
tensor whose turn it is; with it, what `Spread` adds is for an operand, which stands
earlier in `topo` than everything consumed. For `no_grad`, `BlocksInv` says that only the
outermost open block remembers TRUE.

The second half of the module (`GradientIsWhatIsOwed`, `AutogradTypes`). That each call adds exactly the
derivative is an invariant of the walk, `BalanceInv`: what a parameter holds, plus what it is *still
owed*, is what is due, where what is still owed is the sum, over the tensors whose gradient has not been used, of that
gradient times the tensor's derivative with respect to the parameter (found by the forward chain
rule), and over the shares of the operator at hand that have not been spread. Taking an
operator moves its gradient from the first sum to the second by the chain rule; spreading
moves a share back; a leaf's turn pays the parameter. The equation needs the topological order
(a gradient that has been used never grows again), `TapeInv` (an operator that ran while
recording and is not on the tape has no parameter below it, so nothing is lost
where the walk passes by) and, for a call that raises, that every debt is a natural number, so what is
held never exceeds what is due.

**`DistributedProofs`** (`ParallelTypesHold`, `NobodyIsLeftBehind`, `ResultsComeInOrder`,
`FirstErrorComesOut` for `_run_parallel` alone; `DevicesHaveSlots`, `DevicesAreAwaited`,
`ShardsGiveTheArgument`, `OrderDoesNotMatter`, `DevicesAnswerAsOne` for whole requests).
`ParallelInv` says for every thread what its place in the lists is
(`ThreadAccounted`: untouched until it ends, then its result or its exception and nothing in the
other list, and it has been started if it is not waiting), and for the caller how far it has come
(`CallerAccounted`: when it looks at the errors, every thread has ended). Only the two together
are inductive: that nobody is left behind needs that join goes through all the threads that were
started. `ShardsGiveTheArgument` rests on the arithmetic of `_chunk_sizes` (the sizes add up, for
every extent and number of devices, empty shards included) and on where concatenation along a
dimension puts each index. `DevicesAnswerAsOne` is the safety part of the refinement of
`OneAnswer`, under a hypothesis on the requests, `SplitsOverTheBatch`: that the graph accepts its
shards and that what it makes of them, put together, is what it makes of the whole.
TLC shows every job of the `distributed` run to answer so; the mean loss of divergence 7 does
not, and cannot. `OrderDoesNotMatter` needs no hypothesis.

**`SessionProofs`** (`EpochsAreComplete`; `OptimizersLearnTheModel`,
`TracesStayCurrent`, `SessionEpochsAreComplete`, `QuantizationIsClose`, `RatesFollowTheSchedule`,
`MomentumSums`, `MomentsAreUnbiased`, `LoadsAreWhole`, `RefusalsLeaveAPrefix`). `LoaderInv` says that an iterator has advanced by
whole batches (`Advanced`) and that the samples it has handed out are the first ones of its own
order (`HandedOut`). That the next batch is new follows from the order's being injective; that
the number of batches is `__len__`'s, from division with remainder. `SessionInv` carries it through
a session, and adds that the module stays a tree over the heap while `load` replaces tensors one at
a time (`ModelInv`; `FileInv` says what is on the disk and what a call has still to write or
load, so that what `load` puts in place is a tensor of an architecture's size), that
`named_parameters` then lists what the optimizer was given, and that a trace's
constants are the tensors the module had when it was made: `step` writes through those names,
`load` does not. `RateInv` says that the scheduler has been stepped as often as the optimizer and
that the rate is the closed form (`CurrentLr`: before the first step it is the rate the optimizer was made
with); the step that needs care is the one after the ramp,
where the inner scheduler takes over a rate that is `base` again only because there is division in the
field. The bound of the quantizer is arithmetic on division with remainder.

What the optimizers remember is `HistoryInv`: for each parameter (`Learned`), its history
of gradients `given` is well formed, SGD's buffer is their decayed sum, and, if they have all
been the same number `c` in each of the `t` steps, Adam's moments are the parts `1 - beta1^t` of `c` and
`1 - beta2^t` of its square. The first part of the module has the lemmas it rests on:
whatever the kind, one `step()` leaves the parameters without a gradient as they were and makes
each of the others remember its own gradient and nothing else (`StepIs`, by induction over the loop of
`EveryParam`, for AdamW over two of them); appending a gradient to a history decays the sum of the
others (`DecayedSumSteps`); the part grows from `1 - b^t` to `1 - b^(t+1)` (`MomentSteps`); a
step of the scheduler keeps the closed form (`SchedulerStepIs`). A tensor that two
attributes share is in `params` twice and remembered twice, at each position by itself: `add_` moves
only the heap, so updating it at one position leaves what the others remember.

That a file comes back whole is `FilesInv`. What is on the disk is the beginning of the image of the last
`save`, and with what is left to write, all of it (`FileIsWritten`); while `load` is at work, as
many parameters as it has passed are entries of that `save` and the others are what they were
(`Loading`, `LoadedTo`). Two arguments carry it. About the file: the offset in the header is where an entry begins among the
floats (`DataSlices`), so what is read there is that entry, or shorter than the header says
(`ReadsTheEntry`), which `load` refuses. About the tree: every name leads, by `getattr` and
indexing, to the attribute that holds its tensor, and `_set_by_path` changes that attribute and no
other name's (`NamesAfterSet`, by induction over the objects from the last one up, on two trees
at once). Both theorems have two hypotheses. `IndicesAreTold`: `str(i)` tells
the indices of a list apart, which no prover knows of `ToString`. `UntiedArchitectures`: no two names
lead to one attribute of one object, as they do when a *module* is reached twice; a weight under
two names is fine, that is two attributes with one tensor. TLC evaluates `Untied` for the six architectures of
`session` (`OneIsTied`): it holds of all but the tied one.

**`KirPassesProofs`, `KirPipelineProofs`** (`GraphsAreTopological`, `FusionMissesNoPair`,
`EliminationKeepsWhatIsNeeded`, `RewritesRunAlike`, `RewritesKeepMeaning`; `MetalIsTheReference`,
`OnlyChainsMakeMetalRaise`, `MetalKeepsMeaning`). The first module is about graphs and the two rewrites, the second
about the pipeline that applies them and `run_metal`. What is inductive is `IInv`: every graph on
the way is `Sound` (densely numbered, operands earlier than what uses them, placeholders first,
each operator with the arguments it takes), `Staged` (which graphs exist at which stage, and that the gradient's
graph starts with the traced one), and `JustRewritten` (a rewritten graph is the rewrite of one that was sound).
Soundness of what `grad` adds is one lemma per operator of `_vjp`, and an induction over the walk.

A rewrite is compared node by node: each new node `Follow`s the nodes it stands for. For
elimination that is one renumbered node; for fusion it is the group that `resolve` puts it
in. Groups are chains, each member joined to the one before it, and the segments are laid out so that the
operands of a group are done before it. A fused node makes what its two made, because the second
reads the first and nothing else reads it, so `Calc` of the new graph is `Calc` of the old
along the numbering: `RewritesRunAlike` says so of every step that rewrites, for any placeholder
values, with no hypothesis.

For `run_metal`, `MInv` adds where each value is (`Pending`: in `values`; `Retaken`: made again when a fused
node is undone). Only the bias addition that another fusion continues is ever missing, which is
why nothing else makes `run_metal` raise where `run` does not; this too has no hypothesis. `RInv` adds that what is there
is what `run()` has for that node (`MetalComputesRun`), so that an operator which refuses its operands here
does so in `run()` (`RefusedStops`).

`RewritesKeepMeaning` and `MetalKeepsMeaning` speak of the graph as it was traced, or as `grad` made it, through all
the rewrites after that. They start from one fact about the operators themselves, `[]ShapesAreHonest`, which the `kir`
run checks for its vocabularies: it is what makes the values of a graph that runs tensors of numbers, on which a
fused kernel does what its two operators do. They say that then no rewrite and no executor changes the value. That the value of
the gradient program is the derivative is `GradIsDerivative`, and not part of them.

**Model-checked only.** `BackwardReturns`, `TrainingEnds` and that the answer *comes* in
`AnswersLikeOneDevice` are liveness. Of the tied model `LoadedIsSaved` and `RefusedLoadIsAPrefix` are
checked in the run and not proved, and they could not be without a hypothesis: a file of an untied model
loaded into a tied one of the same names passes every check of `load` and leaves the weight with the second of two tensors.
`ShapesAreHonest` and `GradIsDerivative` are arithmetic over each operator of the whole set, the second
over tables that stand for `exp` and its like, so they depend on what the tables hold.

## 5. Abstractions and assumptions

* Numbers are uninterpreted terms in the planner's model, derivatives in the engine's,
  residues modulo a prime in KIR, distribution and optimizers. Rounding, overflow and the order in
  which floating-point sums are taken are therefore outside all models; comparisons in the
  field are those of the residues. `max(dim)` compares residues, and its derivative is taken to be
  zero, as `_vjp_max_dim` has it.
* `exp`, `log`, `sqrt`, `tanh`, `sigmoid`, `gelu` and the cosine of the schedule are tables:
  nothing is claimed of them but the relation of a function to its derivative.
* The weight and bias of a `conv2d` are captured tensors, an `index_select` takes two indices, a `cat` two
  values; `max_pool2d` is left out. A caller asks `grad` only of graphs whose recorded sizes are positive:
  `1.0 / n` divides by their product, and a size that is not comes from divergence 9 alone.
* The derivative that operators hand back in the eager model does not depend on the operands'
  values, so an `add_` on a tensor the tape still refers to is outside it.
* A caller hands `release_to_pool` results of computed nodes only, and once, as the
  comments in `kir.py` ask; the function itself cannot tell. A pool belongs
  to one thread.
* An operator that raises does so before it has an output (shape checks come first).
  `num_allocated` would also count a buffer whose `malloc` failed.
* Comparison operators never record and so behave as data leaves.
* `checkpoint`: `fn` is pure, is more than a bare addition (so the gradients it gives
  back are its own tensors), captures leaves only, and contains no checkpoint. Dropout
  and BatchNorm inside `fn` are listed as a hazard.
* What the GPU computes is what the CPU operator does. In `DistributedRun` a Metal device runs
  the fused graph as `run_metal` does when it does not raise (divergence 6).
* A file's unit is the magic, the length, the header, or one float; sizes and offsets are
  counted in floats. JSON and bytes are not modelled, so a file cut inside its header is one
  without a header: both are refused.
* A gradient in `Session` is one of a few vectors, already clipped; which parameters the loss
  reaches is chosen anew each step. `random.shuffle` may give any order.
* Some recursive or expensive expressions are written `CHOOSE` over a set of one candidate,
  so that TLC evaluates them once; the value is that of the candidate.

**Not modelled.** CPU kernels and Metal shaders (floating-point loops without state), the bindings'
conversions and the process-wide reference to the active pool, build files, downloads; the layers'
own forward arithmetic and BatchNorm's running statistics; the int8 matmul; evaluation, generation and
logging of the examples.

## 6. Plan

1. **Done**: planner, executor and pool (A); eager autograd, `no_grad`, `checkpoint`,
   clipping (B); KIR's tracer, passes, `grad` and `run_metal` (C); distributed execution (D);
   modules, checkpoints, `jit`, optimizers, schedules, data, quantization and the loop that uses
   them (E, F).
2. **Done, proofs**: every safety invariant but two (section 4 says which and why), the action
   properties, both refinements, and that elimination, fusion and `run_metal` keep the value of every graph.
   **Next**: `ShapesAreHonest` from a typing of the operator set.
3. **Next, models.** The tape under `add_`, BatchNorm's statistics inside `checkpoint` and `jit`,
   `max_pool2d`.
