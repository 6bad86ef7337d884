------------------------------ MODULE Autograd ------------------------------
(***************************************************************************)
(* Tensor::backward (core/src/Tensor.cpp) over the tape of GradTape: a     *)
(* depth-first topological sort, a walk over it in reverse that hands each *)
(* tensor's gradient to its operands, and the accumulation into the        *)
(* leaves.  The binding keeps the interpreter lock, so no user code runs   *)
(* between two steps of one call; checkpoint's backward_fn re-enters       *)
(* backward on the recomputed segment before the walk goes on.             *)
(*                                                                         *)
(* A gradient is a tensor of its own, named by its position in "value".    *)
(* grad and gradMap hold such names, so two leaves can share one.          *)
(***************************************************************************)
EXTENDS GradTape

CONSTANT MaxBackwards    \* calls of backward() in a behaviour

ASSUME MaxBackwardsAssumption == MaxBackwards \in Nat

None == 0                \* grad is nullptr

VARIABLES pc,            \* "caller", "sort", "walk", "spread" or "raised"
          frames,        \* the calls of visit in progress, innermost last
          visited,
          topo,
          gradMap,
          at,            \* position in topo of the tensor whose turn it is
          gradsIn,       \* what backward_fn returned, not yet spread
          grad,          \* tensor -> its .grad
          value,         \* gradient tensor -> what its storage holds
          backwards,     \* history: calls made
          due            \* history: tensor -> the sum of what calls owe it

engineVars == <<pc, frames, visited, topo, gradMap, at, gradsIn>>

vars == <<tapeVars, engineVars, grad, value, backwards, due>>

(* node->inputs, empty for a tensor without a GradNode.                    *)
Inputs(t) == IF t \in tape THEN prog.ins[t] ELSE << >>

(* visit(t) about to look at its k-th input.                               *)
Frame(t, k) == [tensor |-> t, next |-> k]

Held(t) == IF grad[t] = None THEN 0 ELSE value[grad[t]]

Current == topo[at]

Incoming == gradMap[Current]

Init ==
  /\ TapeInit
  /\ pc = "caller"
  /\ frames = << >> /\ visited = {} /\ topo = << >>
  /\ gradMap = << >> /\ at = 0 /\ gradsIn = << >>
  /\ grad = [t \in Tensors(prog) |-> None]
  /\ value = << >>
  /\ backwards = 0
  /\ due = [t \in Tensors(prog) |-> 0]

-----------------------------------------------------------------------------
(* The caller.                                                             *)

Compute ==
  /\ pc = "caller"
  /\ Forward
  /\ UNCHANGED <<engineVars, grad, value, backwards, due>>

ZeroGrad(t) ==
  /\ pc = "caller"
  /\ grad[t] # None
  /\ grad' = [grad EXCEPT ![t] = None]
  /\ due' = [due EXCEPT ![t] = 0]
  /\ UNCHANGED <<tapeVars, engineVars, value, backwards>>

(* What the call owes every parameter: nothing under no_grad, where leaves *)
(* are passed by, else the derivative along the operators that recorded.   *)
(* A checkpoint recorded if an input asked for it; an operator without     *)
(* such an input has no parameter below it.                                *)
Recorded == (tracked \ prog.ckpt) \cup (tape \cap prog.ckpt)

Owed(r, t) ==
  IF enabled /\ t \in prog.params THEN Derivative(Recorded, t)[r] ELSE 0

Backward(r) ==
  /\ pc = "caller"
  /\ backwards < MaxBackwards
  /\ r <= made
  /\ value' = Append(value, 1)
  /\ gradMap' = [t \in {r} |-> Len(value')]
  /\ visited' = {r}
  /\ frames' = <<Frame(r, 1)>>
  /\ pc' = "sort"
  /\ backwards' = backwards + 1
  /\ due' = [t \in Tensors(prog) |-> due[t] + Owed(r, t)]
  /\ UNCHANGED <<tapeVars, topo, at, gradsIn, grad>>

-----------------------------------------------------------------------------
(* visit: the depth-first sort, post-order.                                *)

(* Mutations of Descend: a tensor reached twice is visited twice; and the  *)
(* loop over the inputs does not get past one that was visited before.     *)
DescendAgain ==
  /\ pc = "sort"
  /\ LET t == Last(frames).tensor
         k == Last(frames).next
     IN  /\ k <= Len(Inputs(t))
         /\ frames' = Front(frames) \o <<Frame(t, k + 1), Frame(Inputs(t)[k], 1)>>
         /\ visited' = visited \cup {Inputs(t)[k]}
  /\ UNCHANGED <<tapeVars, pc, topo, gradMap, at, gradsIn, grad, value, backwards, due>>

DescendStuck ==
  /\ pc = "sort"
  /\ LET t == Last(frames).tensor
         k == Last(frames).next
     IN  /\ k <= Len(Inputs(t))
         /\ frames' = IF Inputs(t)[k] \in visited THEN frames
                      ELSE Front(frames) \o <<Frame(t, k + 1), Frame(Inputs(t)[k], 1)>>
         /\ visited' = visited \cup {Inputs(t)[k]}
  /\ UNCHANGED <<tapeVars, pc, topo, gradMap, at, gradsIn, grad, value, backwards, due>>

Descend ==
  /\ pc = "sort"
  /\ LET t == Last(frames).tensor
         k == Last(frames).next
     IN  /\ k <= Len(Inputs(t))
         /\ LET next   == Inputs(t)[k]
                resume == Append(Front(frames), Frame(t, k + 1))
            IN  frames' = IF next \in visited THEN resume
                          ELSE Append(resume, Frame(next, 1))
         /\ visited' = visited \cup {Inputs(t)[k]}
  /\ UNCHANGED <<tapeVars, pc, topo, gradMap, at, gradsIn, grad, value, backwards, due>>

(* Mutation of Finish: the walk starts from the other end.                 *)
FinishAtFront ==
  /\ pc = "sort"
  /\ Last(frames).next > Len(Inputs(Last(frames).tensor))
  /\ topo' = <<Last(frames).tensor>> \o topo
  /\ frames' = Front(frames)
  /\ IF frames' = << >>
     THEN pc' = "walk" /\ at' = Len(topo')
     ELSE UNCHANGED <<pc, at>>
  /\ UNCHANGED <<tapeVars, visited, gradMap, gradsIn, grad, value, backwards, due>>

Finish ==
  /\ pc = "sort"
  /\ Last(frames).next > Len(Inputs(Last(frames).tensor))
  /\ topo' = Append(topo, Last(frames).tensor)
  /\ frames' = Front(frames)
  /\ IF frames' = << >>
     THEN pc' = "walk" /\ at' = Len(topo')
     ELSE UNCHANGED <<pc, at>>
  /\ UNCHANGED <<tapeVars, visited, gradMap, gradsIn, grad, value, backwards, due>>

-----------------------------------------------------------------------------
(* The walk, from the root back.                                           *)

Walking ==
  /\ pc = "walk"
  /\ at > 0
  /\ UNCHANGED <<tapeVars, frames, visited, topo, backwards, due>>

Accumulates(t) == t \in prog.params /\ t \notin tape /\ enabled

(* Nothing arrived, or a leaf that takes no gradient.                      *)
PassBy ==
  /\ Walking
  /\ Current \notin DOMAIN gradMap
     \/ (Current \notin tape /\ ~Accumulates(Current))
  /\ at' = at - 1
  /\ UNCHANGED <<pc, gradMap, gradsIn, grad, value>>

(* Mutations of TakeLeaf: a later gradient replaces the first; and it is   *)
(* added in the storage of the first.                                      *)
TakeLeafOverwrite ==
  /\ Walking
  /\ Current \in DOMAIN gradMap
  /\ Accumulates(Current)
  /\ grad' = [grad EXCEPT ![Current] = Incoming]
  /\ at' = at - 1
  /\ UNCHANGED <<pc, gradMap, gradsIn, value>>

TakeLeafInPlace ==
  /\ Walking
  /\ Current \in DOMAIN gradMap
  /\ Accumulates(Current)
  /\ IF grad[Current] = None
     THEN /\ grad' = [grad EXCEPT ![Current] = Incoming]
          /\ UNCHANGED value
     ELSE /\ value' = [value EXCEPT ![grad[Current]] = @ + value[Incoming]]
          /\ UNCHANGED grad
  /\ at' = at - 1
  /\ UNCHANGED <<pc, gradMap, gradsIn>>

(* The first gradient of a leaf is kept as it is, later ones are added     *)
(* into a new tensor.                                                      *)
TakeLeaf ==
  /\ Walking
  /\ Current \in DOMAIN gradMap
  /\ Accumulates(Current)
  /\ IF grad[Current] = None
     THEN /\ grad' = [grad EXCEPT ![Current] = Incoming]
          /\ UNCHANGED value
     ELSE /\ value' = Append(value, Held(Current) + value[Incoming])
          /\ grad' = [grad EXCEPT ![Current] = Len(value')]
  /\ at' = at - 1
  /\ UNCHANGED <<pc, gradMap, gradsIn>>

(* An operator's backward_fn: a new tensor per operand, except where the   *)
(* incoming gradient itself is the answer.                                 *)
TakeOperator ==
  /\ Walking
  /\ Current \in DOMAIN gradMap
  /\ Current \in tape \ prog.ckpt
  /\ LET slope == prog.slope[Current]
     IN  /\ value' = value \o [k \in DOMAIN slope |-> slope[k] * value[Incoming]]
         /\ gradsIn' = [k \in DOMAIN slope |->
                          IF slope[k] = 1 THEN Incoming ELSE Len(value) + k]
  /\ pc' = "spread"
  /\ UNCHANGED <<gradMap, at, grad>>

(* checkpoint's backward_fn runs fn again on detached inputs and calls     *)
(* backward on the result.  That inner walk leaves a gradient on every     *)
(* input that asked for one and that fn uses, and adds to the parameters   *)
(* fn captures.  Each of these gradients is a tensor of its own, as it is  *)
(* when fn is more than a bare addition.                                   *)
Needed(k) == RequiresGrad(prog.ins[Current][k])

Unanswered == {k \in DOMAIN prog.ins[Current] : Needed(k) /\ prog.slope[Current][k] = 0}

InputGradients ==
  [k \in DOMAIN prog.ins[Current] |->
     IF Needed(k) THEN prog.slope[Current][k] * value[Incoming] ELSE 0]

Reached(t) == t \in prog.params \cap Captured(prog, Current)

CaptureGradients ==
  [t \in Tensors(prog) |->
     IF Reached(t) THEN Held(t) + prog.capture[Current][t] * value[Incoming] ELSE 0]

Recompute ==
  LET inputs == Len(value) + Len(InputGradients)
  IN  /\ value' = value \o InputGradients \o CaptureGradients
      /\ grad' = [t \in Tensors(prog) |-> IF Reached(t) THEN inputs + t ELSE grad[t]]

TakeCheckpoint ==
  /\ Walking
  /\ Current \in DOMAIN gradMap
  /\ Current \in tape \cap prog.ckpt
  /\ enabled
  /\ Unanswered = {}
  /\ Recompute
  /\ gradsIn' = [k \in DOMAIN prog.ins[Current] |-> Len(value) + k]
  /\ pc' = "spread"
  /\ UNCHANGED <<gradMap, at>>

(* r.grad is None for an input fn ignores, and for all of them under       *)
(* no_grad, where the second run records nothing: None is not a Tensor,    *)
(* the conversion raises, and the walk ends where it stands.               *)
CheckpointFails ==
  /\ Walking
  /\ Current \in DOMAIN gradMap
  /\ Current \in tape \cap prog.ckpt
  /\ ~enabled \/ Unanswered # {}
  /\ IF enabled THEN Recompute ELSE UNCHANGED <<value, grad>>
  /\ pc' = "raised"
  /\ UNCHANGED <<gradMap, at, gradsIn>>

Store(t, g) == [u \in DOMAIN gradMap \cup {t} |-> IF u = t THEN g ELSE gradMap[u]]

(* One operand's share: the first is kept, later ones are added.           *)
Spread ==
  /\ pc = "spread"
  /\ LET t     == Inputs(Current)[Len(Inputs(Current)) - Len(gradsIn) + 1]
         share == Head(gradsIn)
     IN  IF t \in DOMAIN gradMap
         THEN /\ value' = Append(value, value[gradMap[t]] + value[share])
              /\ gradMap' = Store(t, Len(value'))
         ELSE /\ gradMap' = Store(t, share)
              /\ UNCHANGED value
  /\ gradsIn' = Tail(gradsIn)
  /\ IF gradsIn' = << >>
     THEN pc' = "walk" /\ at' = at - 1
     ELSE UNCHANGED <<pc, at>>
  /\ UNCHANGED <<tapeVars, frames, visited, topo, grad, backwards, due>>

(* Mutation of Leave: grad_map outlives its call.                          *)
LeaveKeepingGradients ==
  /\ pc' = "caller"
  /\ frames' = << >> /\ visited' = {} /\ topo' = << >>
  /\ at' = 0 /\ gradsIn' = << >>
  /\ UNCHANGED <<tapeVars, grad, value, backwards, gradMap>>

Leave ==
  /\ pc' = "caller"
  /\ frames' = << >> /\ visited' = {} /\ topo' = << >>
  /\ gradMap' = << >> /\ at' = 0 /\ gradsIn' = << >>
  /\ UNCHANGED <<tapeVars, grad, value, backwards>>

EndBackward ==
  /\ pc = "walk"
  /\ at = 0
  /\ Leave
  /\ UNCHANGED due

(* The exception reaches the caller; what the leaves hold by then is all   *)
(* there is to go on from.                                                 *)
Surface ==
  /\ pc = "raised"
  /\ Leave
  /\ due' = [t \in Tensors(prog) |-> Held(t)]

Engine ==
  \/ Descend
  \/ Finish
  \/ PassBy
  \/ TakeLeaf
  \/ TakeOperator
  \/ TakeCheckpoint
  \/ CheckpointFails
  \/ Spread
  \/ EndBackward
  \/ Surface

Next ==
  \/ Compute
  \/ \E t \in Tensors(prog) : ZeroGrad(t) \/ Backward(t)
  \/ Engine

(* backward() is one synchronous call: once entered, it runs.              *)
Spec == Init /\ [][Next]_vars /\ WF_vars(Engine)

-----------------------------------------------------------------------------
(* Properties.                                                             *)

GradientNames == 0..Len(value)

AutogradTypeOK ==
  /\ WellFormedProgram(prog)
  /\ made \in 0..prog.n
  /\ tape \subseteq 1..made /\ tracked \subseteq 1..made
  /\ enabled \in BOOLEAN
  /\ blocks \in Seq(BOOLEAN) /\ Len(blocks) <= MaxBlocks
  /\ pc \in {"caller", "sort", "walk", "spread", "raised"}
  /\ frames \in Seq([tensor : Tensors(prog), next : Nat \ {0}])
  /\ visited \subseteq 1..made
  /\ topo \in Seq(visited)
  /\ at \in 0..Len(topo)
  /\ DOMAIN gradMap \subseteq visited
  /\ \A t \in DOMAIN gradMap : gradMap[t] \in GradientNames \ {None}
  /\ gradsIn \in Seq(GradientNames \ {None})
  /\ grad \in [Tensors(prog) -> GradientNames]
  /\ value \in Seq(Nat)
  /\ backwards \in 0..MaxBackwards
  /\ due \in [Tensors(prog) -> Nat]

(* After every call, whatever came before it, each parameter's .grad is    *)
(* the sum of the derivatives of the tensors backward() was called on:     *)
(* no path of the DAG is lost or counted twice, through readers shared by  *)
(* several operators, operands used twice, checkpoints and captured        *)
(* parameters (Tensor.cpp:1144-1173).  While a call runs, and when it      *)
(* raises half-way, no parameter holds more than it is owed.               *)
GradIsDue ==
  \A t \in Tensors(prog) :
    /\ Held(t) <= due[t]
    /\ pc = "caller" => Held(t) = due[t]

(* What the walk relies on (Tensor.cpp:1147): topo holds every tensor that *)
(* visit reached, once, and the operands of a recorded tensor before it.   *)
TopoIsSorted ==
  /\ \A i, j \in DOMAIN topo : topo[i] = topo[j] => i = j
  /\ \A i \in DOMAIN topo : \A k \in DOMAIN Inputs(topo[i]) :
       \E j \in 1..(i - 1) : topo[j] = Inputs(topo[i])[k]
  /\ pc \in {"walk", "spread"} => Range(topo) = visited

(* Once a tensor's gradient has been used, by its backward_fn or by the    *)
(* leaf that keeps it, nothing more arrives for it: the walk never has to  *)
(* come back (the comment at Tensor.cpp:1114-1117).                        *)
Consumed ==
  {topo[j] : j \in (at + 1)..Len(topo)} \cup (IF pc = "spread" THEN {Current} ELSE {})

Arrived(t) == IF t \in DOMAIN gradMap THEN gradMap[t] ELSE None

ConsumedIsFinal ==
  [][({pc, pc'} \subseteq {"walk", "spread"}) =>
       \A t \in Consumed : Arrived(t)' = Arrived(t)]_vars

(* A gradient the caller got hold of is never changed by a later call,     *)
(* although leaves, gradMap and backward_fn share gradient tensors         *)
(* (Tensor.cpp:1156-1159).                                                 *)
HeldGradientsKeep ==
  [][pc # "caller" => \A g \in DOMAIN value : value'[g] = value[g]]_vars

(* The flag is off exactly inside a no_grad block, however blocks nest     *)
(* (__init__.py:68-72: an inner block must not turn recording back on).    *)
NoGradRestores == enabled <=> blocks = << >>

(* backward() returns or raises on every program.                          *)
BackwardReturns == pc # "caller" ~> pc = "caller"
=============================================================================
