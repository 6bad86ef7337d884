---------------------------- MODULE GradClipping ----------------------------
(***************************************************************************)
(* clip_grad_norm_ (python/kansai/optim.py) between two calls of           *)
(* backward().  Scaling by clip_coef is multiplication by Coefficient, a   *)
(* number that is no sum of derivatives.                                   *)
(***************************************************************************)
EXTENDS Autograd

CONSTANTS MaxClips, Coefficient

ASSUME ClippingAssumption == MaxClips \in Nat /\ Coefficient \in Nat \ {0, 1}

VARIABLE clips           \* history: calls that scaled

clipVars == <<vars, clips>>

Clipped == {t \in prog.params : grad[t] # None}

Power(k) ==
  LET power[i \in 0..k] == IF i = 0 THEN 1 ELSE Coefficient * power[i - 1]
  IN  power[k]

(* g.add_(g, alpha = clip_coef - 1) for every parameter in turn, in the    *)
(* storage of its gradient.  Whether the norm asks for it is up to the     *)
(* numbers.                                                                *)
ClipGrads ==
  /\ pc = "caller"
  /\ clips < MaxClips
  /\ Clipped # {}
  /\ value' = [g \in DOMAIN value |->
                 value[g] * Power(Cardinality({t \in Clipped : grad[t] = g}))]
  /\ clips' = clips + 1
  /\ due' = [t \in Tensors(prog) |-> IF grad[t] = None THEN 0 ELSE value'[grad[t]]]
  /\ UNCHANGED <<tapeVars, engineVars, grad, backwards>>

ClipInit == Init /\ clips = 0

ClipNext == ClipGrads \/ (Next /\ UNCHANGED clips)

ClipSpec == ClipInit /\ [][ClipNext]_clipVars /\ WF_clipVars(Engine /\ UNCHANGED clips)

(* Clipping scales every gradient by the same factor, once                 *)
(* (optim.py:184-187).                                                     *)
ClipScalesOnce ==
  [][clips' # clips => \A t \in Clipped : Held(t)' = Coefficient * Held(t)]_clipVars
=============================================================================
