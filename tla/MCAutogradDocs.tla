--------------------------- MODULE MCAutogradDocs ---------------------------
(***************************************************************************)
(* Three programs on which checkpoint, no_grad and gradient clipping do    *)
(* other than their comments say.                                          *)
(***************************************************************************)
EXTENDS GradClipping

(* loss = f(a + b) for two parameters of equal shape.                      *)
SharedGradient ==
  {[n       |-> 4,
    ins     |-> << << >>, << >>, <<1, 2>>, <<3>> >>,
    slope   |-> << << >>, << >>, <<1, 1>>, <<5>> >>,
    params  |-> {1, 2},
    ckpt    |-> {},
    capture |-> << >>]}

(* loss = f(checkpoint(layer, x)) where layer closes over its weight, the  *)
(* parameter 2: x is data in the first program, a parameter in the second. *)
CheckpointOver(params) ==
  [n       |-> 4,
   ins     |-> << << >>, << >>, <<1>>, <<3>> >>,
   slope   |-> << << >>, << >>, <<2>>, <<5>> >>,
   params  |-> params,
   ckpt    |-> {3},
   capture |-> (3 :> (2 :> 3))]

CheckpointedData == {CheckpointOver({2})}

CheckpointedParameter == {CheckpointOver({1, 2})}

(* No operator that runs inside a no_grad block extends the tape           *)
(* (__init__.py:52-53).                                                    *)
NoTapeInNoGrad == [][~enabled => tape' = tape]_vars

(* Gradients through a checkpointed call are those of the plain call, in   *)
(* which fn's operators record themselves (tests/test_checkpoint.py:14-16).*)
CheckpointMatchesPlain ==
  [][pc = "walk" /\ pc' = "caller" /\ enabled /\ backwards = 1 =>
       \A t \in prog.params : Held(t) = Derivative(tracked, t)[Last(topo)]]_vars
=============================================================================
