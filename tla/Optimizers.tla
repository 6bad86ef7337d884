----------------------------- MODULE Optimizers -----------------------------
(***************************************************************************)
(* SGD, Adam, AdamW and the schedulers of python/kansai/optim.py, on a     *)
(* heap of tensors that they change in place.  Numbers are those of        *)
(* KirTensor.  An optimizer is a record                                    *)
(*   kind             "sgd", "adam" or "adamw"                             *)
(*   params           the tensors it was given, in order                   *)
(*   lr, momentum, nesterov, beta1, beta2, eps, decay                      *)
(*   t, buf, m, v     what it remembers, per position in params; << >> for *)
(*                    a buffer that is None                                *)
(* and a scheduler a record of its kind, its parameters, base (the lr when *)
(* it was made), epoch (how often it was stepped) and after, the epoch of  *)
(* the scheduler LinearWarmup hands over to.                               *)
(***************************************************************************)
EXTENDS KirTensor, SequencesExt

(* As in KirTensor, a CHOOSE with one candidate.                           *)
Flat(n, element(_)) ==
  CHOOSE s \in {[k \in 1..n |-> element(k) % P]} : s \in [1..n -> Numbers]

Plus(x, y) == Flat(Len(x), LAMBDA k : x[k] + y[k])

Times(x, y) == Flat(Len(x), LAMBDA k : x[k] * y[k])

Scaled(x, c) == Flat(Len(x), LAMBDA k : x[k] * c)

Zeros(x) == Flat(Len(x), LAMBDA k : 0)

Power(b, n) ==
  LET power[k \in 0..n] == IF k = 0 THEN 1 ELSE (b * power[k - 1]) % P IN power[n]

(***************************************************************************)
(* Optimizers: one parameter's part of step(), at position i, with the     *)
(* gradient g, of s, the record of the optimizer (opt) and the heap.       *)
(***************************************************************************)
(* Mutation of AddInPlace: the sum is a new tensor.                        *)
AddToCopy(s, i, x, alpha) ==
  LET p == s.opt.params[i]
  IN  [opt |-> [s.opt EXCEPT !.params[i] = Len(s.heap) + 1],
       heap |-> Append(s.heap, [s.heap[p] EXCEPT !.flat = Plus(@, Scaled(x, alpha))])]

AddInPlace(s, i, x, alpha) ==
  [s EXCEPT !.heap[s.opt.params[i]].flat = Plus(@, Scaled(x, alpha))]

(* Mutation of Buffered: a first gradient is decayed already.              *)
BufferedFromZero(s, i, g) ==
  IF s.opt.buf[i] = << >> THEN Scaled(g, s.opt.momentum)
  ELSE Plus(Scaled(s.opt.buf[i], s.opt.momentum), g)

Buffered(s, i, g) ==
  IF s.opt.buf[i] = << >> THEN g ELSE Plus(Scaled(s.opt.buf[i], s.opt.momentum), g)

SgdParam(s, i, g) ==
  LET buf    == Buffered(s, i, g)
      update == IF s.opt.nesterov THEN Plus(g, Scaled(buf, s.opt.momentum)) ELSE buf
  IN  IF s.opt.momentum = 0 THEN AddInPlace(s, i, g, -s.opt.lr)
      ELSE AddInPlace([s EXCEPT !.opt.buf[i] = buf], i, update, -s.opt.lr)

AdamParam(s, i, g) ==
  LET opt    == s.opt
      m      == Plus(Scaled(opt.m[i], opt.beta1), Scaled(g, 1 - opt.beta1))
      v      == Plus(Scaled(opt.v[i], opt.beta2), Scaled(Times(g, g), 1 - opt.beta2))
      v_hat  == Scaled(v, Reciprocal(1 - Power(opt.beta2, opt.t)))
      denom  == Flat(Len(v), LAMBDA k : Function("sqrt", 0, v_hat[k]) + opt.eps)
      rate   == opt.lr * Reciprocal(1 - Power(opt.beta1, opt.t))
      update == Flat(Len(m), LAMBDA k : m[k] * Reciprocal(denom[k]) * rate)
  IN  AddInPlace([s EXCEPT !.opt.m[i] = m, !.opt.v[i] = v], i, update, -1)

DecayParam(s, i, g) == AddInPlace(s, i, s.heap[s.opt.params[i]].flat, -(s.opt.lr * s.opt.decay))

Updated(rule, s, i, g) ==
  CASE rule = "sgd"   -> SgdParam(s, i, g)
    [] rule = "adam"  -> AdamParam(s, i, g)
    [] rule = "decay" -> DecayParam(s, i, g)

(* A loop over params, skipping those without a gradient.                  *)
EveryParam(s, grad, rule) ==
  LET after[i \in 0..Len(s.opt.params)] ==
        IF i = 0 THEN s
        ELSE IF grad[s.opt.params[i]] = << >> THEN after[i - 1]
        ELSE Updated(rule, after[i - 1], i, grad[s.opt.params[i]])
  IN  after[Len(s.opt.params)]

(* Mutation of Counted: t counts the parameters that are updated.          *)
CountedPerParam(opt, grad) ==
  [opt EXCEPT !.t = @ + Cardinality({i \in DOMAIN opt.params : grad[opt.params[i]] # << >>})]

Counted(opt, grad) == [opt EXCEPT !.t = @ + 1]

OptimizerStep(s, grad) ==
  CASE s.opt.kind = "sgd"   -> EveryParam(s, grad, "sgd")
    [] s.opt.kind = "adam"  -> EveryParam([s EXCEPT !.opt = Counted(@, grad)], grad, "adam")
    [] s.opt.kind = "adamw" ->
         LET decayed == IF s.opt.decay = 0 THEN s ELSE EveryParam(s, grad, "decay")
         IN  EveryParam([decayed EXCEPT !.opt = Counted(@, grad)], grad, "adam")

(* The constructors.                                                       *)
MakeOptimizer(hyper, params, tensors) ==
  LET zeros == [i \in DOMAIN params |-> Zeros(tensors[params[i]].flat)]
  IN  [kind |-> hyper.kind, lr |-> hyper.lr, momentum |-> hyper.momentum,
       nesterov |-> hyper.nesterov, beta1 |-> hyper.beta1, beta2 |-> hyper.beta2,
       eps |-> hyper.eps, decay |-> hyper.decay, params |-> params, t |-> 0,
       buf |-> [i \in DOMAIN params |-> << >>], m |-> zeros, v |-> zeros]

(* The k-th numbers of gs, each decayed once for every later one.          *)
DecayedSum(gs, k, b) ==
  LET sum[n \in 0..Len(gs)] ==
        IF n = 0 THEN 0 ELSE sum[n - 1] + gs[n][k] * Power(b, Len(gs) - n)
  IN  sum[Len(gs)] % P

(***************************************************************************)
(* Schedulers: what step() makes of the scheduler and the optimizer's lr.  *)
(***************************************************************************)
(* (1 + cos(pi k / n)) / 2, of which only the ends matter.                 *)
HalfCosine(k, n) == IF k = 0 THEN 1 ELSE IF k = n THEN 0 ELSE k * k + 3

Decayed(kind, s, epoch, lr) ==
  CASE kind = "step"   -> IF epoch % s.step_size = 0 THEN (lr * s.gamma) % P ELSE lr
    [] kind = "cosine" ->
         LET k == IF epoch < s.t_max THEN epoch ELSE s.t_max
         IN  (s.eta_min + (s.base - s.eta_min) * HalfCosine(k, s.t_max)) % P
    [] OTHER -> lr

(* Mutation of InWarmup: the last step of the ramp is left out.            *)
InShortWarmup(s, epoch) == epoch < s.warmup

InWarmup(s, epoch) == epoch <= s.warmup

(* LinearWarmup when warmup > 0, over the scheduler named by kind.         *)
SchedulerStep(s, lr) ==
  LET epoch == s.epoch + 1
  IN  IF s.warmup > 0 /\ InWarmup(s, epoch)
      THEN [sched |-> [s EXCEPT !.epoch = epoch],
            lr |-> (s.base * epoch * Reciprocal(s.warmup)) % P]
      ELSE [sched |-> [s EXCEPT !.epoch = epoch, !.after = @ + 1],
            lr |-> Decayed(s.kind, s, s.after + 1, lr)]

MakeScheduler(plan, lr) ==
  [kind |-> plan.kind, warmup |-> plan.warmup, step_size |-> plan.step_size,
   gamma |-> plan.gamma, t_max |-> plan.t_max, eta_min |-> plan.eta_min,
   base |-> lr, epoch |-> 0, after |-> 0]

(* The lr after n calls, as the schedules document it (optim.py:239-306):  *)
(* a ramp from 0 to base, and past it the decay from base.                 *)
ScheduledLr(s, n) ==
  LET calls == IF n > s.warmup THEN n - s.warmup ELSE 0
  IN  IF s.warmup > 0 /\ n <= s.warmup THEN (s.base * n * Reciprocal(s.warmup)) % P
      ELSE CASE s.kind = "step" -> (s.base * Power(s.gamma, calls \div s.step_size)) % P
             [] s.kind = "cosine" ->
                  IF calls = 0 THEN s.base
                  ELSE (s.eta_min + (s.base - s.eta_min)
                          * HalfCosine(IF calls < s.t_max THEN calls ELSE s.t_max, s.t_max)) % P
             [] OTHER -> s.base
=============================================================================
