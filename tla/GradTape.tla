------------------------------ MODULE GradTape ------------------------------
(***************************************************************************)
(* The forward side of eager autograd: operators that record themselves on *)
(* the tape (every operator of Tensor.cpp does it as add does), no_grad    *)
(* blocks and checkpoint (python/kansai/__init__.py).                      *)
(*                                                                         *)
(* What user code computes is a program, a record                          *)
(*   n        number of tensors, in the order they are computed            *)
(*   ins      tensor -> sequence of the tensors it is computed from        *)
(*   params   the leaves with requires_grad                                *)
(*   slope    tensor -> its derivative with respect to each operand        *)
(*   ckpt     the tensors that are the output of checkpoint(fn, *inputs)   *)
(*   capture  such a tensor -> what fn closes over: leaf -> derivative     *)
(* Gradients are linear in the incoming gradient, so one number per edge   *)
(* is enough to tell every way of routing them apart: distinct slopes make *)
(* distinct sums.  A slope of 1 is a gradient handed through as it is      *)
(* (addition of equal shapes), a slope of 0 an input that fn ignores.      *)
(***************************************************************************)
EXTENDS Naturals, Sequences, SequencesExt

CONSTANTS Programs,      \* the programs under consideration
          MaxBlocks      \* how deep no_grad blocks nest

VARIABLES prog,          \* the program user code runs
          made,          \* how many of its tensors exist
          tape,          \* the tensors that have a GradNode
          enabled,       \* the thread's grad-enabled flag
          blocks,        \* "previous" of every no_grad block that is open
          tracked        \* history: what was computed while enabled

tapeVars == <<prog, made, tape, enabled, blocks, tracked>>

Tensors(p) == 1..p.n

Leaves(p) == {i \in Tensors(p) : p.ins[i] = << >>}

Captured(p, i) == IF i \in p.ckpt THEN DOMAIN p.capture[i] ELSE {}

WellFormedProgram(p) ==
  /\ p.n \in Nat \ {0}
  /\ DOMAIN p.ins = Tensors(p) /\ DOMAIN p.slope = Tensors(p)
  /\ \A i \in Tensors(p) :
        /\ p.ins[i] \in Seq(Nat)
        /\ \A k \in DOMAIN p.ins[i] : p.ins[i][k] \in 1..(i - 1)
        /\ p.slope[i] \in Seq(Nat) /\ DOMAIN p.slope[i] = DOMAIN p.ins[i]
        /\ i \notin p.ckpt => \A k \in DOMAIN p.slope[i] : p.slope[i][k] > 0
  /\ p.params \subseteq Leaves(p)
  /\ p.ckpt \subseteq Tensors(p) \ Leaves(p)
  /\ DOMAIN p.capture = p.ckpt
  /\ \A i \in p.ckpt :
        /\ DOMAIN p.capture[i] \subseteq Leaves(p)
        /\ \A c \in DOMAIN p.capture[i] : c < i /\ p.capture[i][c] \in Nat \ {0}

ASSUME ProgramsAssumption == \A p \in Programs : WellFormedProgram(p)

ASSUME MaxBlocksAssumption == MaxBlocks \in Nat

RequiresGrad(i) == i \in prog.params \cup tape

NeedsGrad(i) == \E k \in DOMAIN prog.ins[i] : RequiresGrad(prog.ins[i][k])

TapeInit ==
  /\ prog \in Programs
  /\ made = 0
  /\ tape = {}
  /\ enabled = TRUE
  /\ blocks = << >>
  /\ tracked = {}

(* The next tensor of the program comes into being.                        *)
Produce(i) ==
  /\ i = made + 1
  /\ i \in Tensors(prog)
  /\ made' = i
  /\ tracked' = IF enabled THEN tracked \cup ({i} \ Leaves(prog)) ELSE tracked
  /\ UNCHANGED <<prog, enabled, blocks>>

CreateLeaf(i) ==
  /\ Produce(i)
  /\ i \in Leaves(prog)
  /\ UNCHANGED tape

(* Any operator of Tensor.cpp: the GradNode is attached when an input      *)
(* requires grad and the thread records.                                   *)
Operator(i) ==
  /\ Produce(i)
  /\ i \notin Leaves(prog) \cup prog.ckpt
  /\ tape' = IF NeedsGrad(i) /\ enabled THEN tape \cup {i} ELSE tape

(* checkpoint: fn runs once under no_grad, which restores the flag; then   *)
(* the custom GradNode is attached if one of the inputs requires grad,     *)
(* whatever the flag says.                                                 *)
Checkpoint(i) ==
  /\ Produce(i)
  /\ i \in prog.ckpt
  /\ tape' = IF NeedsGrad(i) THEN tape \cup {i} ELSE tape

EnterNoGrad ==
  /\ Len(blocks) < MaxBlocks
  /\ blocks' = Append(blocks, enabled)
  /\ enabled' = FALSE
  /\ UNCHANGED <<prog, made, tape, tracked>>

(* Mutation of ExitNoGrad: leaving a block turns recording back on.        *)
ExitNoGradAlways ==
  /\ blocks # << >>
  /\ enabled' = TRUE
  /\ blocks' = Front(blocks)
  /\ UNCHANGED <<prog, made, tape, tracked>>

ExitNoGrad ==
  /\ blocks # << >>
  /\ enabled' = Last(blocks)
  /\ blocks' = Front(blocks)
  /\ UNCHANGED <<prog, made, tape, tracked>>

Forward ==
  \/ \E i \in Tensors(prog) : CreateLeaf(i) \/ Operator(i) \/ Checkpoint(i)
  \/ EnterNoGrad
  \/ ExitNoGrad

(***************************************************************************)
(* The derivative of every tensor with respect to leaf t, along the        *)
(* operators in the set recorded: the chain rule from the leaf up, where   *)
(* backward() works from the result down.                                  *)
(***************************************************************************)
SumTo(term, n) ==
  LET sum[k \in 0..n] == IF k = 0 THEN 0 ELSE sum[k - 1] + term[k]
  IN  sum[n]

CapturedSlope(i, t) == IF t \in Captured(prog, i) THEN prog.capture[i][t] ELSE 0

Derivative(recorded, t) ==
  LET d[i \in Tensors(prog)] ==
        IF i = t THEN 1
        ELSE IF i \notin recorded THEN 0
        ELSE CapturedSlope(i, t)
               + SumTo([k \in DOMAIN prog.ins[i] |-> prog.slope[i][k] * d[prog.ins[i][k]]],
                       Len(prog.ins[i]))
  IN  d
=============================================================================
