----------------------------- MODULE MCKirDocs -----------------------------
(***************************************************************************)
(* What the docs and comments of kir.py say, where the code does something *)
(* else, on the smallest vocabulary that shows it.                         *)
(***************************************************************************)
EXTENDS MetalRun

MCShapeOf == << <<2>> >>

(* Layers without activations: three bias additions, one after another.    *)
Affine ==
  [arguments |-> << <<1, 2>> >>, ops |-> {"add", "mul"}, tensors |-> {1}, maxCalls |-> 3,
   shapes |-> {}, dims |-> {}, windows |-> {}, passes |-> {"fuse"}, chain |-> FALSE, metal |-> TRUE]

MCVocabularies == {Affine}

(* "Like run_fused(), but ... a different backend underneath": run_metal   *)
(* runs every graph that run() does (kir.py:1587-1593).                    *)
MetalNeverRaises == outcome # "raised"
=============================================================================
