------------------------------ MODULE PlannedRun ------------------------------
(***************************************************************************)
(* run_planned() of python/kansai/kir.py driving a StoragePool             *)
(* (core/src/StoragePool.cpp), call after call, with the plan that         *)
(* plan_memory() made.  The plan's loops run first (MemoryPlanner); then   *)
(* a caller starts calls, hands results back to the pool with              *)
(* release_to_pool(), drops them, or passes them to a later call.          *)
(*                                                                         *)
(* A storage is an integer: b > 0 is the b-th buffer the pool malloc'ed,   *)
(* -i the caller's tensor or parameter behind leaf i of the graph, 0 no    *)
(* storage at all.  mem gives every storage its present content.           *)
(***************************************************************************)
EXTENDS MemoryPlanner, SequencesExt

CONSTANT MaxCalls      \* bound on the number of calls of run_planned

ASSUME MaxCallsAssumption == MaxCalls \in Nat

VARIABLES
  calls,       \* calls of run_planned started so far
  values,      \* run_planned's dict: node -> storage of its tensor, or Unbound
  opnd,        \* position of the release loop in node.inputs
  bufBytes,    \* sizes of the buffers malloc'ed so far, by number
  freeList,    \* StoragePool::free_list_
  mem,         \* storage -> content
  held,        \* call -> its result, while the caller keeps it
  ref,         \* history: node -> the value run() holds for it in this call
  saved,       \* history: node -> what the GradNodes behind it keep for backward
  args         \* history: placeholder -> value of the argument of this call

runVars == <<calls, values, opnd, bufBytes, freeList, mem, held, ref, saved, args>>

vars == <<planVars, runVars>>

Unbound == 0

Allocated == Len(bufBytes)      \* StoragePool::num_allocated()

Placeholders == {i \in Nodes(graph) : graph.op[i] = "placeholder"}

NothingBound == [i \in Nodes(graph) |-> Unbound]

NoValue == [i \in Nodes(graph) |-> << >>]

NothingSaved == [i \in Nodes(graph) |-> {}]

(* requires_grad of node i's tensor: an operator's result requires grad    *)
(* when an operand does, and then its GradNode keeps its operands.         *)
RequiresGrad(i) == i \in graph.trainable \/ saved[i] # {}

Init ==
  /\ PlanInit
  /\ calls = 0
  /\ values = NothingBound
  /\ opnd = 1
  /\ bufBytes = << >>
  /\ freeList = << >>
  /\ mem = [s \in {-i : i \in Nodes(graph)} |-> Leaf(-s)]
  /\ held = << >>
  /\ ref = NoValue
  /\ saved = NothingSaved
  /\ args = << >>

Plan == PlanNext /\ UNCHANGED runVars

-----------------------------------------------------------------------------
(* A call: bind the arguments.  Each is a tensor of the caller's own or a  *)
(* result still held (choice 0, or the call it came from); one that        *)
(* requires grad is refused by the assertion before anything happens.      *)
Begin ==
  /\ pc = "idle"
  /\ calls < MaxCalls
  /\ \E choice \in [Placeholders -> {0} \cup {c \in DOMAIN held : ~held[c].rg}] :
       /\ values' = [i \in Nodes(graph) |->
                       IF i \notin Placeholders THEN Unbound
                       ELSE IF choice[i] = 0 THEN -i ELSE held[choice[i]].loc]
       /\ args' = [i \in Placeholders |->
                     IF choice[i] = 0 THEN Leaf(i) ELSE held[choice[i]].val]
  /\ ref' = [i \in Nodes(graph) |-> IF i \in Placeholders THEN args'[i] ELSE << >>]
  /\ calls' = calls + 1
  /\ pc' = "exec"
  /\ idx' = 1
  /\ UNCHANGED <<graph, lastUse, slotOf, numSlots, busyUntil, freedAt,
                 opnd, bufBytes, freeList, mem, held, saved>>

(* A placeholder is bound already; a constant binds to its parameter.      *)
BindLeaf ==
  /\ pc = "exec"
  /\ idx <= graph.n
  /\ IsLeaf(graph, idx)
  /\ IF graph.op[idx] = "constant"
     THEN /\ values' = [values EXCEPT ![idx] = -idx]
          /\ ref' = [ref EXCEPT ![idx] = Leaf(idx)]
     ELSE UNCHANGED <<values, ref>>
  /\ idx' = idx + 1
  /\ UNCHANGED <<graph, pc, lastUse, slotOf, numSlots, busyUntil, freedAt,
                 calls, opnd, bufBytes, freeList, mem, held, saved, args>>

(* The operator of node idx writes its result into buffer b: the storage   *)
(* is zeroed when the output tensor is made, and only then does the kernel *)
(* read the operands.                                                      *)
WriteResult(b) ==
  LET operands == graph.ins[idx]
      zeroed   == [s \in DOMAIN mem \cup {b} |-> IF s = b THEN Zeroed ELSE mem[s]]
      result   == Apply(idx, [k \in DOMAIN operands |-> zeroed[values[operands[k]]]])
      tracked  == \E i \in Operands(graph, idx) : RequiresGrad(i)
      kept     == {[loc |-> values[i], val |-> mem[values[i]]] : i \in Operands(graph, idx)}
  IN  /\ mem' = [zeroed EXCEPT ![b] = result]
      /\ values' = [values EXCEPT ![idx] = b]
      /\ ref' = [ref EXCEPT ![idx] =
                   Apply(idx, [k \in DOMAIN operands |-> ref[operands[k]]])]
      /\ saved' = [saved EXCEPT ![idx] =
                     IF tracked
                     THEN kept \cup UNION {saved[i] : i \in Operands(graph, idx)}
                     ELSE {}]
      /\ pc' = "release"
      /\ opnd' = 1

Computing == pc = "exec" /\ idx <= graph.n /\ ~IsLeaf(graph, idx)

(* Mutation of Fits: a buffer of exactly the right size is passed over.    *)
FitsStrictly(b) == bufBytes[b] > graph.bytes[idx]

Fits(b) == bufBytes[b] >= graph.bytes[idx]

(* Mutation of ComputeInFreeBuffer: the buffer found is not erased from    *)
(* the free list.                                                          *)
ComputeInListedBuffer ==
  /\ Computing
  /\ \E p \in DOMAIN freeList :
       /\ Fits(freeList[p])
       /\ \A q \in 1..(p - 1) : ~Fits(freeList[q])
       /\ WriteResult(freeList[p])
  /\ UNCHANGED <<graph, idx, lastUse, slotOf, numSlots, busyUntil, freedAt,
                 calls, bufBytes, freeList, held, args>>

(* StoragePool::acquire, first fit ...                                     *)
ComputeInFreeBuffer ==
  /\ Computing
  /\ \E p \in DOMAIN freeList :
       /\ Fits(freeList[p])
       /\ \A q \in 1..(p - 1) : ~Fits(freeList[q])
       /\ freeList' = RemoveAt(freeList, p)
       /\ WriteResult(freeList[p])
  /\ UNCHANGED <<graph, idx, lastUse, slotOf, numSlots, busyUntil, freedAt,
                 calls, bufBytes, held, args>>

(* ... and malloc when nothing fits.                                       *)
ComputeInNewBuffer ==
  /\ Computing
  /\ \A p \in DOMAIN freeList : ~Fits(freeList[p])
  /\ bufBytes' = Append(bufBytes, graph.bytes[idx])
  /\ WriteResult(Allocated + 1)
  /\ UNCHANGED <<graph, idx, lastUse, slotOf, numSlots, busyUntil, freedAt,
                 calls, freeList, held, args>>

(* Mutations of ReleaseOperand: the operand stays in values after its      *)
(* release; and the release is a node early, at any reader.                *)
ReleaseOperandKeepBound ==
  /\ pc = "release"
  /\ opnd <= Len(graph.ins[idx])
  /\ LET inp == graph.ins[idx][opnd]
     IN  IF ~IsLeaf(graph, inp) /\ lastUse[inp] = idx
         THEN freeList' = Append(freeList, values[inp])
         ELSE UNCHANGED freeList
  /\ opnd' = opnd + 1
  /\ UNCHANGED <<graph, pc, idx, lastUse, slotOf, numSlots, busyUntil, freedAt,
                 calls, values, bufBytes, mem, held, ref, saved, args>>

ReleaseOperandAtAnyUse ==
  /\ pc = "release"
  /\ opnd <= Len(graph.ins[idx])
  /\ LET inp == graph.ins[idx][opnd]
     IN  IF ~IsLeaf(graph, inp)
         THEN freeList' = Append(freeList, values[inp])
         ELSE UNCHANGED freeList
  /\ opnd' = opnd + 1
  /\ UNCHANGED <<graph, pc, idx, lastUse, slotOf, numSlots, busyUntil, freedAt,
                 calls, values, bufBytes, mem, held, ref, saved, args>>

(* One iteration of the loop over node.inputs that follows each node.      *)
ReleaseOperand ==
  /\ pc = "release"
  /\ opnd <= Len(graph.ins[idx])
  /\ LET inp == graph.ins[idx][opnd]
     IN  IF ~IsLeaf(graph, inp) /\ lastUse[inp] = idx /\ values[inp] # Unbound
         THEN /\ freeList' = Append(freeList, values[inp])
              /\ values' = [values EXCEPT ![inp] = Unbound]
         ELSE UNCHANGED <<freeList, values>>
  /\ opnd' = opnd + 1
  /\ UNCHANGED <<graph, pc, idx, lastUse, slotOf, numSlots, busyUntil, freedAt,
                 calls, bufBytes, mem, held, ref, saved, args>>

NextNode ==
  /\ pc = "release"
  /\ opnd > Len(graph.ins[idx])
  /\ pc' = "exec"
  /\ idx' = idx + 1
  /\ UNCHANGED <<graph, lastUse, slotOf, numSlots, busyUntil, freedAt,
                 calls, values, opnd, bufBytes, freeList, mem, held, ref, saved, args>>

(* The dict of values dies with the call, whether it returns or raises;    *)
(* what it still held and did not hand to the caller or the pool is freed. *)
LeaveCall ==
  /\ pc' = "idle"
  /\ values' = NothingBound
  /\ ref' = NoValue
  /\ saved' = NothingSaved
  /\ args' = << >>
  /\ UNCHANGED <<graph, idx, lastUse, slotOf, numSlots, busyUntil, freedAt,
                 calls, opnd, bufBytes, freeList, mem>>

(* The caller receives the tensor of the output node.                      *)
HandOver ==
  held' = [c \in DOMAIN held \cup {calls} |->
             IF c = calls
             THEN [loc   |-> values[graph.out],
                   val   |-> ref[graph.out],
                   rg    |-> RequiresGrad(graph.out),
                   saved |-> saved[graph.out]]
             ELSE held[c]]

(* Mutation of Return: the output goes back to the pool like any other     *)
(* buffer although the caller receives it.                                 *)
ReturnAndRelease ==
  /\ pc = "exec"
  /\ idx > graph.n
  /\ HandOver
  /\ freeList' = IF IsLeaf(graph, graph.out) THEN freeList
                 ELSE Append(freeList, values[graph.out])
  /\ pc' = "idle"
  /\ values' = NothingBound
  /\ ref' = NoValue
  /\ saved' = NothingSaved
  /\ args' = << >>
  /\ UNCHANGED <<graph, idx, lastUse, slotOf, numSlots, busyUntil, freedAt,
                 calls, opnd, bufBytes, mem>>

Return ==
  /\ pc = "exec"
  /\ idx > graph.n
  /\ HandOver
  /\ LeaveCall

(* An operator rejects its operands' shapes, or memory runs out, before it *)
(* has an output: the exception leaves the loop through the finally.       *)
Raise ==
  /\ Computing
  /\ UNCHANGED held
  /\ LeaveCall

-----------------------------------------------------------------------------
(* release_to_pool() on the result of call c.  The caller owns the result  *)
(* of a computed node only, and gives a storage back once: a result that   *)
(* is one of its own tensors, or that another held result shares, stays.   *)
GiveBack(c) ==
  /\ pc = "idle"
  /\ c \in DOMAIN held
  /\ held[c].loc > 0
  /\ \A d \in DOMAIN held \ {c} : held[d].loc # held[c].loc
  /\ freeList' = Append(freeList, held[c].loc)
  /\ held' = [d \in DOMAIN held \ {c} |-> held[d]]
  /\ UNCHANGED <<planVars, calls, values, opnd, bufBytes, mem, ref, saved, args>>

(* The caller lets the result of call c go without telling the pool.       *)
Drop(c) ==
  /\ pc = "idle"
  /\ c \in DOMAIN held
  /\ held' = [d \in DOMAIN held \ {c} |-> held[d]]
  /\ UNCHANGED <<planVars, calls, values, opnd, bufBytes, freeList, mem, ref, saved, args>>

Call ==
  \/ Begin
  \/ BindLeaf
  \/ ComputeInFreeBuffer
  \/ ComputeInNewBuffer
  \/ ReleaseOperand
  \/ NextNode
  \/ Return
  \/ Raise

Caller == \E c \in 1..MaxCalls : GiveBack(c) \/ Drop(c)

Next == Plan \/ Call \/ Caller

Spec == Init /\ [][Next]_vars

-----------------------------------------------------------------------------
(* The type invariant of the runtime's variables.                          *)
RunTypeOK ==
  /\ calls \in 0..MaxCalls
  /\ values \in [Nodes(graph) -> -graph.n..Allocated]
  /\ opnd \in Nat \ {0}
  /\ bufBytes \in Seq(Nat)
  /\ freeList \in Seq(1..Allocated)
  /\ DOMAIN mem = {-i : i \in Nodes(graph)} \cup 1..Allocated
  /\ DOMAIN ref = Nodes(graph)
  /\ DOMAIN held \subseteq 1..calls
  /\ \A c \in DOMAIN held : held[c].loc \in DOMAIN mem

TypeOK ==
  /\ pc \in {"liveness", "slots", "idle", "exec", "release"}
  /\ PlanTypeOK
  /\ RunTypeOK

(* A buffer in the pool's free list is in it once, and nobody still uses   *)
(* it: no tensor of the running call and no result a caller holds.  Any    *)
(* two computed nodes alive in a call own different buffers, and none of   *)
(* them is an argument's, a parameter's or a held result's                 *)
(* (StoragePool.hpp: never handing out a buffer someone still references). *)
NoAliasing ==
  /\ \A p, q \in DOMAIN freeList : p # q => freeList[p] # freeList[q]
  /\ \A p \in DOMAIN freeList :
        /\ \A i \in Nodes(graph) : values[i] # freeList[p]
        /\ \A c \in DOMAIN held : held[c].loc # freeList[p]
  /\ \A i \in Nodes(graph) : ~IsLeaf(graph, i) /\ values[i] # Unbound =>
        /\ \A j \in Nodes(graph) \ {i} : values[j] # values[i]
        /\ \A c \in DOMAIN held : held[c].loc # values[i]

(* Whatever run_planned's dict still binds holds exactly the value run()   *)
(* computes for that node, at every point of the call (kir.py:957-963).    *)
ValuesMatchRun ==
  \A i \in Nodes(graph) : values[i] # Unbound => mem[values[i]] = ref[i]

(* A result keeps its value for as long as the caller holds it, whatever   *)
(* later calls do with the pool (kir.py:988-996).                          *)
ResultsStable ==
  \A c \in DOMAIN held : mem[held[c].loc] = held[c].val

(* Backward through a held result would read what forward computed: no     *)
(* buffer a GradNode keeps has been overwritten (kir.py:964-971).          *)
TapeIntact ==
  \A c \in DOMAIN held : \A s \in held[c].saved : mem[s.loc] = s.val

(* Buffers that are still within someone's reach: in the pool, bound in    *)
(* the running call, or held.                                              *)
Reachable ==
  {b \in 1..Allocated :
     \/ \E p \in DOMAIN freeList : freeList[p] = b
     \/ \E i \in Nodes(graph) : values[i] = b
     \/ \E c \in DOMAIN held : held[c].loc = b}

DeadNodes == {i \in Nodes(graph) : ~IsLeaf(graph, i) /\ lastUse[i] = 0}

Uniform == \A i, j \in Nodes(graph) :
             ~IsLeaf(graph, i) /\ ~IsLeaf(graph, j) => graph.bytes[i] = graph.bytes[j]

(* The computed operands whose buffers node i hands on when it has run.    *)
ReadLast(i) == {j \in Operands(graph, i) : ~IsLeaf(graph, j) /\ lastUse[j] = i}

(* With buffers of one size the pool does not outgrow the plan: whenever   *)
(* run_planned mallocs, what is within reach then is no more than the      *)
(* plan's slots, the operands the node reads last (it takes its buffer     *)
(* before theirs are released), the results the caller keeps, and the      *)
(* nodes nothing reads, which stay bound to the end of the call            *)
(* (tests/test_kir_memory_planner.py:94 allows num_slots + 2).             *)
PoolGrowsWithinPlan ==
  [][bufBytes' # bufBytes /\ Uniform =>
       Cardinality(Reachable') <=
         numSlots + Cardinality(ReadLast(idx)) + Cardinality(DOMAIN held)
                  + Cardinality(DeadNodes)]_vars

(* After the first call or two the pool has all the buffers it will need   *)
(* (StoragePool.cpp:6-10, kir.py:917-920).                                 *)
WarmAfterTwoCalls ==
  [][calls > 2 => bufBytes' = bufBytes]_vars

-----------------------------------------------------------------------------
(* The executor's state as its caller sees it: a result is what its        *)
(* storage holds now, not what was in it when the call returned.           *)
Reference ==
  INSTANCE KirReference WITH
    running <- pc \in {"exec", "release"},
    results <- [c \in DOMAIN held |-> mem[held[c].loc]]

(* To the caller run_planned is any executor: each call returns the value  *)
(* run() gives or raises, and a value once returned stays what it is       *)
(* (kir.py:957-963, 988-996).                                              *)
RefinesReference == Reference!Spec
=============================================================================
