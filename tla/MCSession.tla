----------------------------- MODULE MCSession -----------------------------
(***************************************************************************)
(* The instance of Session.  Every model has five objects: a root, two     *)
(* embeddings tok and pos, a head, and a Dropout.                          *)
(***************************************************************************)
EXTENDS Session

MCDropouts == {5}

MCMasks == {"mask1", "mask2"}

(* number -> length of the parameter -> gradient                           *)
MCGradients == << << <<1>>, <<1, 2>> >>, << <<3>>, <<0, 5>> >> >>

Weight(shape, flat) == [shape |-> shape, flat |-> flat, requires_grad |-> TRUE]

Buffer(flat) == [shape |-> <<Len(flat)>>, flat |-> flat, requires_grad |-> FALSE]

Leaf(tensor) == <<Attribute("weight", "tensor", <<tensor>>)>>

(* tok, pos, the list of blocks with the head and something that is not a  *)
(* Module, a mask, the Dropout.                                            *)
Tree(tok, pos, items) ==
  << <<Attribute("size", "other", << >>), Attribute("tok", "module", <<tok>>),
       Attribute("pos", "module", <<pos>>), Attribute("blocks", "list", items),
       Attribute("mask", "tensor", <<4>>), Attribute("drop", "module", <<5>>)>>,
     Leaf(1), Leaf(2), Leaf(3), <<Attribute("p", "other", << >>)>> >>

Heap(tok, pos, head) == <<tok, pos, head, Buffer(<<0>>)>>

Model(pos) ==
  [attrs |-> Tree(2, 3, <<0, 4>>), heap |-> Heap(Weight(<<1, 1>>, <<2>>), pos, Weight(<<1, 1>>, <<4>>))]

Plain == Model(Weight(<<1, 2>>, <<3, 5>>))

(* The same with other numbers, with pos the other way round, without a    *)
(* head, with one embedding in both places, with one weight in two places. *)
Reseeded == Model(Weight(<<1, 2>>, <<5, 0>>))

Turned == Model(Weight(<<2, 1>>, <<1, 5>>))

Headless == [Plain EXCEPT !.attrs = Tree(2, 3, <<0>>)]

Tied == [Plain EXCEPT !.attrs = Tree(3, 3, <<0, 4>>)]

Shared == [Plain EXCEPT !.attrs[2] = Leaf(3)]

MCArchitectures == {Plain, Reseeded, Turned, Headless, Tied, Shared}

(* Two names of the tied model lead to one attribute; those of the shared  *)
(* weight lead to two.                                                     *)
ASSUME OneIsTied == \A a \in MCArchitectures : Untied(a.attrs, a.heap) <=> a # Tied

(***************************************************************************)
(* Plans                                                                   *)
(***************************************************************************)
Loader(n, batch_size, shuffle, drop_last) ==
  [n |-> n, batch_size |-> batch_size, shuffle |-> shuffle, drop_last |-> drop_last]

TwoBatches == Loader(3, 2, FALSE, FALSE)

Hyper(kind, momentum, nesterov, decay) ==
  [kind |-> kind, lr |-> 2, momentum |-> momentum, nesterov |-> nesterov,
   beta1 |-> 3, beta2 |-> 5, eps |-> 1, decay |-> decay]

Plainly == Hyper("sgd", 0, FALSE, 0)

Optimizers ==
  {Plainly, Hyper("sgd", 3, FALSE, 0), Hyper("sgd", 3, TRUE, 0),
   Hyper("adam", 0, FALSE, 0), Hyper("adamw", 0, FALSE, 3), Hyper("adamw", 0, FALSE, 0)}

Schedule(kind, warmup) ==
  [kind |-> kind, warmup |-> warmup, step_size |-> 2, gamma |-> 3, t_max |-> 2, eta_min |-> 1]

Constant == Schedule("none", 0)

Schedules == {Schedule(kind, warmup) : kind \in {"none", "step", "cosine"}, warmup \in 0..2}

Quiet ==
  [loader |-> TwoBatches, optimizer |-> Plainly, schedule |-> Constant, total |-> 1,
   builds |-> {Plain}, reach |-> {1..4}, numbers |-> {1}, saves |-> 0, loads |-> 0,
   stops |-> 0, jits |-> 0, modes |-> 0, quants |-> 0, makes |-> 0, peeks |-> FALSE]

(* Every optimizer, over parameters that come and go, one of them tied.    *)
Learning ==
  {[Quiet EXCEPT !.optimizer = o, !.total = 3, !.builds = {Plain, Shared},
                 !.reach = {1..4, {1}}, !.numbers = {1, 2}, !.makes = 1] : o \in Optimizers}

(* Every schedule, past its end.                                           *)
Scheduled ==
  {[Quiet EXCEPT !.optimizer.kind = "adamw", !.optimizer.decay = 3, !.schedule = s, !.total = 5] :
     s \in Schedules}

(* The model in use while it learns, and while it is loaded.               *)
InUse ==
  {[Quiet EXCEPT !.total = 2, !.jits = 2, !.modes = 2, !.quants = 1],
   [Quiet EXCEPT !.builds = {Tied}, !.jits = 1, !.saves = 1, !.loads = 1, !.makes = 1],
   [Quiet EXCEPT !.numbers = {1, 2}, !.total = 2, !.quants = 2]}

(* Files of models that fit, and of others.                                *)
Files ==
  {[Quiet EXCEPT !.builds = {Plain, Reseeded}, !.saves = 2, !.loads = 1, !.stops = 1],
   [Quiet EXCEPT !.builds = MCArchitectures, !.saves = 1, !.loads = 1, !.stops = 1],
   [Quiet EXCEPT !.saves = 1, !.loads = 2, !.makes = 1]}

(* Loaders: shuffled or not, with a short batch, without it, with nothing. *)
OverData ==
  {[Quiet EXCEPT !.loader = loaded, !.total = 3, !.peeks = TRUE] :
     loaded \in {Loader(3, 2, TRUE, FALSE), Loader(3, 2, TRUE, TRUE), Loader(4, 2, FALSE, TRUE),
                 Loader(2, 3, TRUE, FALSE), Loader(2, 3, FALSE, TRUE), Loader(0, 1, TRUE, FALSE)}}

MCPlans == Learning \cup Scheduled \cup InUse \cup Files \cup OverData

MCLoaders == {p.loader : p \in MCPlans}
=============================================================================
