------------------------------- MODULE Session -------------------------------
(***************************************************************************)
(* A training session: the loop of examples/tinyshakespeare over a         *)
(* DataLoader, with an optimizer and a scheduler, in a process that also   *)
(* saves and loads the model, runs it through jit, quantizes a weight,     *)
(* switches between train() and eval(), looks at the data with an iterator *)
(* of its own, and that may be stopped and started again.                  *)
(*                                                                         *)
(* A plan gives the hyperparameters, total (TOTAL_STEPS), and how often    *)
(* everything else is done.                                                *)
(***************************************************************************)
EXTENDS Checkpoint, Optimizers, DataLoader, Quantization

CONSTANTS
  Plans,
  Dropouts,     \* the objects that are Dropout layers
  Masks,        \* what a Dropout may draw
  Gradients,    \* number, length of a parameter -> a gradient, clipped
  Untraced      \* a shape jit has not met yet

(* Models are trees of objects over tensors of numbers.                    *)
ASSUME ArchitecturesAssumption ==
  \A a \in Architectures :
    /\ a.heap \in Seq([shape : Seq(Nat), flat : Seq(Numbers), requires_grad : BOOLEAN])
    /\ IsModel(a.attrs, a.heap)

(* The optimizers and schedulers are those of optim.py, with numbers for   *)
(* what are floats there; P is larger than what a ramp divides by.         *)
ASSUME PlansAssumption ==
  \A p \in Plans :
    /\ p.optimizer.kind \in {"sgd", "adam", "adamw"}
    /\ {p.optimizer.lr, p.optimizer.momentum, p.optimizer.beta1, p.optimizer.beta2,
        p.optimizer.eps, p.optimizer.decay} \subseteq Numbers
    /\ p.schedule.warmup \in 0..(P - 1) /\ p.schedule.step_size \in Nat \ {0}
    /\ {p.schedule.gamma, p.schedule.eta_min} \subseteq Numbers /\ p.schedule.t_max \in Nat

Sizes == {Len(c.flat) : c \in UNION {Range(a.heap) : a \in Architectures}}

(* A gradient has a number for each of the parameter's.                    *)
ASSUME GradientsAssumption ==
  \A p \in Plans : \A number \in p.numbers, n \in Sizes :
    Gradients[number][n] \in [1..n -> Numbers]

ASSUME IteratorsAssumption == {"main", "peek"} \subseteq Iterators

VARIABLES
  plan,
  opt, sched,
  made,         \* load() calls when the optimizer was made
  grads,        \* tensor -> its gradient, or << >>
  given,        \* position in opt.params -> the gradients it had, in order
  calls,        \* step() calls of this optimizer
  step,         \* and of the loop
  loop,         \* "training" or "over"
  training,     \* object -> its training flag
  cache,        \* jit's cache: shape -> the trace, or Untraced
  loads,        \* load() calls of this process
  quantized,    \* the QTensor made last, with the weight it was made from
  spent         \* what is used up of the plan's saves, loads, and so on

optimVars == <<opt, sched, made, given, calls>>

sessionVars ==
  <<plan, optimVars, grads, step, loop, training, cache, loads, quantized, spent>>

vars == <<checkpointVars, loaderVars, sessionVars>>

Main == "main"

Peek == "peek"

Shapes == {"full", "short"}

(***************************************************************************)
(* The process                                                             *)
(***************************************************************************)
(* An optimizer and a scheduler for the parameters named, and what a       *)
(* process holds that has just built its model.                            *)
Optimizing(named, tensors) ==
  [opt   |-> MakeOptimizer(plan.optimizer, named, tensors),
   sched |-> MakeScheduler(plan.schedule, plan.optimizer.lr),
   given |-> [i \in DOMAIN named |-> << >>]]

InTraining(objects) == [o \in DOMAIN objects |-> TRUE]

Nothing ==
  [saves |-> 0, loads |-> 0, stops |-> 0, jits |-> 0, modes |-> 0, quants |-> 0, makes |-> 0]

Init ==
  /\ plan \in Plans
  /\ CheckpointInit /\ [attrs |-> attrs, heap |-> heap] \in plan.builds
  /\ LoaderInit /\ loader = plan.loader
  /\ LET new == Optimizing(Parameters, heap)
     IN  opt = new.opt /\ sched = new.sched /\ given = new.given
  /\ made = 0 /\ calls = 0 /\ loads = 0 /\ step = 0 /\ loop = "training"
  /\ grads = [t \in DOMAIN heap |-> << >>]
  /\ training = InTraining(attrs)
  /\ cache = [shape \in Shapes |-> Untraced]
  /\ quantized = << >> /\ spent = Nothing

Spend(what, most) == spent[what] < most /\ spent' = [spent EXCEPT ![what] = @ + 1]

(***************************************************************************)
(* The loop                                                                *)
(***************************************************************************)
(* model.zero_grad(), backward(): the module's own tensors lose their      *)
(* gradients, and those that the loss reaches get new ones.  A tensor that *)
(* load() has put aside keeps the one it had.                              *)
Backward(reached, number) ==
  [t \in DOMAIN heap |->
     IF \E i \in reached : Parameters[i] = t THEN Gradients[number][Len(heap[t].flat)]
     ELSE IF t \in Range(Parameters) \/ t \notin DOMAIN grads THEN << >>
     ELSE grads[t]]

(* One turn of the loop body, on the next batch.                           *)
TrainOnBatch ==
  /\ io = Idle /\ loop = "training" /\ step < plan.total
  /\ Yield(Main)
  /\ \E reached \in plan.reach, number \in plan.numbers :
       LET grad  == Backward(reached \cap DOMAIN Parameters, number)
           after == OptimizerStep([opt |-> opt, heap |-> heap], grad)
           next  == SchedulerStep(sched, after.opt.lr)
       IN  /\ grads' = grad
           /\ heap' = after.heap
           /\ opt' = [after.opt EXCEPT !.lr = next.lr]
           /\ sched' = next.sched
           /\ given' = [i \in DOMAIN given |->
                          IF grad[opt.params[i]] = << >> THEN given[i]
                          ELSE Append(given[i], grad[opt.params[i]])]
  /\ step' = step + 1 /\ calls' = calls + 1
  /\ said' = "nothing"
  /\ UNCHANGED <<attrs, disk, io, attempted, before, plan, made, loop, training, cache, loads,
                 quantized, spent>>

(* Mutation of FreshIterator: the exhausted one is asked again.            *)
SameIterator(e) == UNCHANGED loaderVars

FreshIterator(e) ==
  /\ state' = [state EXCEPT ![e] = "fresh"]
  /\ indices' = [indices EXCEPT ![e] = Unshuffled]
  /\ start' = [start EXCEPT ![e] = 0]
  /\ yielded' = [yielded EXCEPT ![e] = 0]
  /\ seen' = [seen EXCEPT ![e] = [s \in Samples |-> 0]]
  /\ UNCHANGED loader

(* The for loop ends with its iterator, and another one begins if there is *)
(* something left to do.                                                   *)
EndEpoch ==
  /\ io = Idle /\ loop = "training"
  /\ Stop(Main)
  /\ loop' = IF step < plan.total THEN "training" ELSE "over"
  /\ UNCHANGED <<checkpointVars, plan, optimVars, grads, step, training, cache, loads,
                 quantized, spent>>

BeginEpoch ==
  /\ io = Idle /\ loop = "training" /\ state[Main] = "exhausted"
  /\ FreshIterator(Main)
  /\ UNCHANGED <<checkpointVars, sessionVars>>

(* One batch more than needed is drawn before the loop breaks.             *)
Break ==
  /\ io = Idle /\ loop = "training" /\ step = plan.total
  /\ Yield(Main)
  /\ loop' = "over"
  /\ UNCHANGED <<checkpointVars, plan, optimVars, grads, step, training, cache, loads,
                 quantized, spent>>

TrainingLoop == TrainOnBatch \/ EndEpoch \/ BeginEpoch \/ Break

(* What every one of them does with the iterator of the for loop.          *)
Iterating ==
  /\ io = Idle /\ loop = "training"
  /\ Yield(Main) \/ Stop(Main) \/ (state[Main] = "exhausted" /\ FreshIterator(Main))

(***************************************************************************)
(* What else is done with the model                                        *)
(***************************************************************************)
(* A trace holds the parameters themselves, and a mask if Dropout drew one.*)
MasksIn(modes) == IF \E o \in Dropouts \cap Reached : modes[o] THEN Masks ELSE {"none"}

(* Mutation of Trace: the graph holds what the parameters are worth now.   *)
TraceCopies(mask) ==
  [tensors |-> << >>, flats |-> [i \in DOMAIN Parameters |-> heap[Parameters[i]].flat],
   mask |-> mask, loads |-> loads, training |-> training]

Trace(mask) ==
  [tensors |-> Parameters, flats |-> << >>, mask |-> mask, loads |-> loads, training |-> training]

(* What the graph's constants are worth now.                               *)
Replayed(trace) ==
  IF trace.flats = << >> THEN [i \in DOMAIN trace.tensors |-> heap[trace.tensors[i]].flat]
  ELSE trace.flats

CallJit(shape) ==
  /\ io = Idle /\ cache[shape] = Untraced
  /\ Spend("jits", plan.jits)
  /\ \E mask \in MasksIn(training) : cache' = [cache EXCEPT ![shape] = Trace(mask)]
  /\ UNCHANGED <<checkpointVars, loaderVars, plan, optimVars, grads, step, loop, training,
                 loads, quantized>>

(* train(mode), eval()                                                     *)
SetMode(mode) ==
  /\ io = Idle
  /\ Spend("modes", plan.modes)
  /\ training' = [o \in DOMAIN training |-> IF o \in Reached THEN mode ELSE training[o]]
  /\ UNCHANGED <<checkpointVars, loaderVars, plan, optimVars, grads, step, loop, cache,
                 loads, quantized>>

(* An optimizer for the parameters as they are now: what _set_by_path      *)
(* tells its callers to do after a load().                                 *)
MakeOptimizerAgain ==
  /\ io = Idle
  /\ Spend("makes", plan.makes)
  /\ LET new == Optimizing(Parameters, heap)
     IN  opt' = new.opt /\ sched' = new.sched /\ given' = new.given
  /\ made' = loads /\ calls' = 0
  /\ UNCHANGED <<checkpointVars, loaderVars, plan, grads, step, loop, training, cache,
                 loads, quantized>>

Signed(x) == IF 2 * x > P THEN x - P ELSE x

(* QLinear(linear), QTensor.from_tensor                                    *)
Quantize ==
  /\ io = Idle
  /\ Spend("quants", plan.quants)
  /\ \E i \in DOMAIN Parameters :
       LET flat == [k \in DOMAIN heap[Parameters[i]].flat |-> Signed(heap[Parameters[i]].flat[k])]
       IN  quantized' = <<flat, QuantizeSymmetric(flat)>>
  /\ UNCHANGED <<checkpointVars, loaderVars, plan, optimVars, grads, step, loop, training,
                 cache, loads>>

(* next() on another iterator over the same loader.                        *)
LookAtData ==
  /\ io = Idle /\ plan.peeks
  /\ Yield(Peek) \/ Stop(Peek)
  /\ UNCHANGED <<checkpointVars, sessionVars>>

Save ==
  /\ OpenForSave /\ Spend("saves", plan.saves)
  /\ UNCHANGED <<loaderVars, plan, optimVars, grads, step, loop, training, cache, loads, quantized>>

Load ==
  /\ OpenForLoad /\ Spend("loads", plan.loads)
  /\ loads' = loads + 1
  /\ UNCHANGED <<loaderVars, plan, optimVars, grads, step, loop, training, cache, quantized>>

GoOn == (Write \/ LoadParameter) /\ UNCHANGED <<loaderVars, sessionVars>>

(* The process stops; the next one builds a model, an optimizer, a loader. *)
Reboot ==
  /\ Spend("stops", plan.stops)
  /\ Restart /\ [attrs |-> attrs', heap |-> heap'] \in plan.builds
  /\ \E named \in {Parameters'} :
       LET new == Optimizing(named, heap')
       IN  opt' = new.opt /\ sched' = new.sched /\ given' = new.given
  /\ made' = 0 /\ calls' = 0 /\ loads' = 0 /\ step' = 0 /\ loop' = "training"
  /\ grads' = [t \in DOMAIN heap' |-> << >>]
  /\ training' = InTraining(attrs')
  /\ cache' = [shape \in Shapes |-> Untraced]
  /\ quantized' = << >>
  /\ state' = [e \in Iterators |-> "fresh"]
  /\ indices' = [e \in Iterators |-> Unshuffled]
  /\ start' = [e \in Iterators |-> 0]
  /\ yielded' = [e \in Iterators |-> 0]
  /\ seen' = [e \in Iterators |-> [s \in Samples |-> 0]]
  /\ UNCHANGED <<loader, plan>>

Next ==
  \/ TrainingLoop
  \/ \E shape \in Shapes : CallJit(shape)
  \/ \E mode \in BOOLEAN : SetMode(mode)
  \/ MakeOptimizerAgain \/ Quantize \/ LookAtData
  \/ Save \/ Load \/ GoOn \/ Reboot

(* One thread runs it all: it goes on with what it does, and the for loop  *)
(* with its iterator.                                                      *)
Spec == Init /\ [][Next]_vars /\ WF_vars(GoOn) /\ WF_loaderVars(Iterating)

(***************************************************************************)
(* Properties                                                              *)
(***************************************************************************)
(* The optimizer holds the tensors that the module's forward reads and     *)
(* backward gives gradients to, in the order of named_parameters, however  *)
(* many steps it has made, unless a load() has put others there since it   *)
(* was made (optim.py:31-45, 113-130, serialize.py:89-114).                *)
LearningReachesTheModel == made = loads => opt.params = Parameters

(* A graph that jit keeps gives what the module gives now, also after      *)
(* optimizer steps, unless a load() or a train() or eval() came between    *)
(* (kir.py:22-30, 536-555).                                                *)
JitMatchesEager ==
  \A shape \in DOMAIN cache :
    LET trace == cache[shape]
    IN  trace # Untraced /\ trace.loads = loads /\ trace.training = training =>
          /\ Replayed(trace) = [i \in DOMAIN Parameters |-> heap[Parameters[i]].flat]
          /\ trace.mask \in MasksIn(training)

(* The momentum buffer of a parameter is the sum of its own gradients,     *)
(* each decayed once for every later one, whichever parameters took part   *)
(* in which step (optim.py:35-49).                                         *)
MomentumIsDecayedSum ==
  plan.optimizer.kind = "sgd" /\ plan.optimizer.momentum # 0 =>
    \A i \in DOMAIN given :
      IF given[i] = << >> THEN opt.buf[i] = << >>
      ELSE \A k \in DOMAIN given[i][1] :
             opt.buf[i][k] = DecayedSum(given[i], k, opt.momentum)

(* The moments of a parameter that had the same gradient c at every step   *)
(* are, after the bias correction, c and its square (optim.py:94-135).     *)
BiasIsCorrected ==
  plan.optimizer.kind \in {"adam", "adamw"} =>
    \A i \in DOMAIN given :
      Len(given[i]) = calls /\ (\A n \in DOMAIN given[i] : given[i][n] = given[i][1]) =>
        \A c \in Range(given[i]) :
          /\ opt.m[i] = Scaled(c, 1 - Power(opt.beta1, opt.t))
          /\ opt.v[i] = Scaled(Times(c, c), 1 - Power(opt.beta2, opt.t))

(* The rate is that of the schedule after as many calls as steps: a ramp   *)
(* from 0 that ends at the rate the optimizer was made with, and then the  *)
(* decay from there (optim.py:239-316).  It does not hold, and is not      *)
(* claimed, before the first call of a warm-up: LinearWarmup sets no rate  *)
(* when it is made, so the first batch is trained on at the full rate, not *)
(* at 0 (optim.py:282-284, 303-307).                                       *)
ScheduleIsClosedForm ==
  calls > 0 \/ sched.warmup = 0 => opt.lr = ScheduledLr(sched, calls)

(* Every weight is at most half a step of the quantization away from what  *)
(* it is dequantized to (quantize.py:28-33, 47-75).                        *)
QuantizedIsClose == quantized # << >> => IsClose(quantized[1], quantized[2])

(* A run over a loader that yields anything comes to an end, whatever is   *)
(* done besides (train_shakespeare.py:211-224).                            *)
TrainingEnds == NumBatches > 0 => <>(loop = "over")
=============================================================================
