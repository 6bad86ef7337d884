--------------------------- MODULE DistributedRun ---------------------------
(***************************************************************************)
(* dtensor_run and dtensor_grad of python/kansai/distributed.py: arguments *)
(* split over a mesh, the graph or its gradient run on every device by a   *)
(* thread of its own, the results put together.                            *)
(*                                                                         *)
(* A request is what a caller asks for, a record                           *)
(*   grad       dtensor_grad, or dtensor_run followed by to_tensor         *)
(*   graph      the traced graph                                           *)
(*   wrt        the nodes whose gradients are wanted                       *)
(*   outs       the placement of every gradient, or of the output          *)
(*   arguments  tensors, and their placements: 0 for Replicate(), d for    *)
(*   placed     Shard(d)                                                   *)
(*   mesh       the devices, "cpu" or "metal", and whether all DTensors    *)
(*   oneMesh    share it                                                   *)
(*   broken     the devices whose backend fails                            *)
(***************************************************************************)
EXTENDS KirPasses, KirGrad, ParallelCalls

CONSTANTS
  Jobs,         \* the requests there may be
  Pending,
  ShapeError, MeshError,      \* exceptions, and
  DeviceErrors                \* device -> the exception of its backend

ASSUME ErrorsAssumption ==
  {ShapeError, MeshError} \cup {DeviceErrors[i] : i \in DOMAIN DeviceErrors} \subseteq Errors

VARIABLES
  job,          \* the request,
  comes,        \* what each device makes of its shards, and
  due,          \* what one device makes of the whole: given with the job
  stage,        \* "split", "launch", "parallel", "returned" or "raised"
  shards,       \* the DTensors made so far: argument -> device -> tensor
  answer        \* what the caller gets: tensors, an exception, or Pending

request == <<job, comes, due>>

vars == <<parallelVars, request, stage, shards, answer>>

Devices(j) == DOMAIN j.mesh

(***************************************************************************)
(* Splitting and gathering                                                 *)
(***************************************************************************)
(* Mutation of ChunkSizes: the remainder is dropped.                       *)
EqualChunks(total, n) == [i \in 1..n |-> total \div n]

ChunkSizes(total, n) ==
  [i \in 1..n |-> IF i <= total % n THEN total \div n + 1 ELSE total \div n]

(* How much of the dimension the pieces before the i-th take.              *)
Offset(sizes, i) ==
  LET offset[k \in 1..i] == IF k = 1 THEN 0 ELSE offset[k - 1] + sizes[k - 1] IN offset[i]

SplitTensor(t, dim, n) ==
  LET sizes == ChunkSizes(t.shape[dim], n)
  IN  [i \in 1..n |-> Slice(t, dim, Offset(sizes, i), Offset(sizes, i) + sizes[i])]

(* Tensor.slice refuses an empty range: more devices than rows.            *)
SplitFits(t, placement, n) == placement # 0 => t.shape[placement] >= n

FromTensor(t, placement, n) ==
  IF placement = 0 THEN [i \in 1..n |-> t] ELSE SplitTensor(t, placement, n)

CatFits(ts, dim) ==
  \A k \in DOMAIN ts :
    /\ Len(ts[k].shape) = Len(ts[1].shape)
    /\ \A d \in DOMAIN ts[1].shape : d # dim => ts[k].shape[d] = ts[1].shape[d]

ToTensor(ts, placement) ==
  IF placement = 0 THEN ts[1] ELSE IF CatFits(ts, placement) THEN Cat(ts, placement) ELSE ShapeError

(* Mutation of AllReduceSum: the first device's gradient is taken.         *)
FirstOf(ts) == ts[1]

AllReduceSum(ts) ==
  Tensor(ts[1].shape, LAMBDA i :
    SumOver(DOMAIN ts, LAMBDA k : AtPosition(ts[k], Position(ts[1].shape, i))))

(***************************************************************************)
(* The devices                                                             *)
(***************************************************************************)
Program(j) == IF j.grad THEN Grad(j.graph, j.wrt) ELSE j.graph

(* run_metal is given the fused program, and runs it as run() does.        *)
Lowered(g, device) == IF device = "metal" THEN ElementwiseFusion(g) ELSE g

(* What a program makes of its inputs, as a sequence: a tuple's members,   *)
(* or the one output.                                                      *)
Outcome(g, inputs) ==
  IF ~RunsOn(g, inputs) THEN ShapeError
  ELSE IF g.nodes[g.output].op = "tuple" THEN RunOn(g, inputs)
  ELSE <<RunOn(g, inputs)>>

DeviceOutcome(j, i, inputs) ==
  IF i \in j.broken THEN DeviceErrors[i] ELSE Outcome(Lowered(Program(j), j.mesh[i]), inputs)

ShardsFit(j) ==
  \A k \in DOMAIN j.arguments : SplitFits(j.arguments[k], j.placed[k], Len(j.mesh))

(* What the callables that a job hands to _run_parallel come to.           *)
WorkOf(j) ==
  IF ~ShardsFit(j) THEN << >> ELSE
  [i \in Devices(j) |->
     DeviceOutcome(j, i, [k \in DOMAIN j.arguments |->
       FromTensor(j.arguments[k], j.placed[k], Len(j.mesh))[i]])]

Together(ts, placement, grad) ==
  IF grad /\ placement = 0 THEN AllReduceSum(ts) ELSE ToTensor(ts, placement)

Combined(j, outs) ==
  [w \in DOMAIN j.outs |-> Together([i \in DOMAIN outs |-> outs[i][w]], j.outs[w], j.grad)]

(* One device, given the whole arguments, or the first failure.            *)
SingleDevice(j) ==
  IF ~ShardsFit(j) THEN ShapeError
  ELSE IF ~j.oneMesh THEN MeshError
  ELSE IF j.broken # {} THEN DeviceErrors[Min(j.broken)]
  ELSE Outcome(Program(j), j.arguments)

(* Tensors as KirTensor has them: of up to four axes, none of them empty.  *)
IsArgument(t) ==
  /\ t.shape \in Seq(Nat \ {0}) /\ Len(t.shape) \in Axes
  /\ t.at \in [Indices(t.shape) -> Numbers]
  /\ t = [shape |-> t.shape, at |-> t.at]

(* There is a device and an argument, a placement is Replicate() or a      *)
(* dimension of its argument, a device that fails has its exception, and   *)
(* what a device computes or raises is something a thread may come to.     *)
ASSUME JobsAssumption ==
  \A j \in Jobs :
    /\ j.mesh \in Seq({"cpu", "metal"}) /\ j.mesh # << >>
    /\ j.arguments \in Seq({j.arguments[k] : k \in DOMAIN j.arguments}) /\ j.arguments # << >>
    /\ \A k \in DOMAIN j.arguments :
         IsArgument(j.arguments[k]) /\ j.placed[k] \in 0..Len(j.arguments[k].shape)
    /\ j.broken \subseteq DOMAIN j.mesh \cap DOMAIN DeviceErrors
    /\ WorkOf(j) \in Seq(Outcomes)

(* Both for every job: what does not change while the threads run.         *)
Comes == [j \in Jobs |-> WorkOf(j)]

Due == [j \in Jobs |-> SingleDevice(j)]

(***************************************************************************)
(* The state machine                                                       *)
(***************************************************************************)
Init ==
  /\ job \in Jobs
  /\ comes = Comes[job]
  /\ due = Due[job]
  /\ stage = "split"
  /\ shards = << >>
  /\ answer = Pending
  /\ work = << >> /\ thread = << >> /\ results = << >> /\ errors = << >>
  /\ started = 0 /\ joined = 0 /\ caller = "starting" /\ raised = None

Raises(e) == stage' = "raised" /\ answer' = e

(* DTensor.from_tensor, for the next argument.                             *)
Split ==
  LET k == Len(shards) + 1
      n == Len(job.mesh)
  IN  /\ stage = "split" /\ k <= Len(job.arguments)
      /\ IF SplitFits(job.arguments[k], job.placed[k], n)
         THEN /\ shards' = Append(shards, FromTensor(job.arguments[k], job.placed[k], n))
              /\ stage' = IF k = Len(job.arguments) THEN "launch" ELSE "split"
              /\ UNCHANGED answer
         ELSE Raises(ShapeError) /\ UNCHANGED shards
      /\ UNCHANGED <<request, parallelVars>>

(* Up to _run_parallel: everything the threads share is built before.      *)
Launch ==
  /\ stage = "launch"
  /\ IF job.oneMesh
     THEN /\ stage' = "parallel"
          /\ work' = comes
          /\ thread' = Begins(job.mesh).thread
          /\ results' = Begins(job.mesh).results
          /\ errors' = Begins(job.mesh).errors
          /\ UNCHANGED answer
     ELSE Raises(MeshError) /\ UNCHANGED <<work, thread, results, errors>>
  /\ UNCHANGED <<request, shards, started, joined, caller, raised>>

RunParallel(step) == stage = "parallel" /\ step /\ UNCHANGED <<request, stage, shards, answer>>

(* _run_parallel has come back: DTensor and to_tensor, or the collectives. *)
Finish ==
  /\ stage = "parallel" /\ caller = "returned"
  /\ stage' = "returned"
  /\ answer' = Combined(job, results)
  /\ UNCHANGED <<request, shards, parallelVars>>

PassOn ==
  /\ stage = "parallel" /\ caller = "raised"
  /\ Raises(raised)
  /\ UNCHANGED <<request, shards, parallelVars>>

CallerSteps == Split \/ Launch \/ RunParallel(Caller) \/ Finish \/ PassOn

ThreadSteps(i) == i \in Callables /\ RunParallel(Thread(i))

AnyDevice == UNION {Devices(j) : j \in Jobs}

Next == CallerSteps \/ \E i \in AnyDevice : ThreadSteps(i)

(* The operating system runs every thread that can run.                    *)
Spec ==
  Init /\ [][Next]_vars /\ WF_vars(CallerSteps) /\ \A i \in AnyDevice : WF_vars(ThreadSteps(i))

(***************************************************************************)
(* Properties                                                              *)
(***************************************************************************)
(* The shards of an argument are the argument: no row lost or repeated,    *)
(* and their sizes differ by at most one (distributed.py:132-135, 157-176).*)
ShardsAreTheArgument ==
  \A k \in DOMAIN shards :
    /\ ToTensor(shards[k], job.placed[k]) = job.arguments[k]
    /\ job.placed[k] # 0 =>
         \A i, j \in DOMAIN shards[k] :
           shards[k][i].shape[job.placed[k]] - shards[k][j].shape[job.placed[k]] \in {-1, 0, 1}

(* Whatever order the threads run in, the caller gets what one device      *)
(* would have computed from the whole batch, or the error of the first     *)
(* device that fails; and it does get it (distributed.py:219-227, 292-316).*)
Single == INSTANCE OneAnswer

AnswersLikeOneDevice == Single!Spec
=============================================================================
