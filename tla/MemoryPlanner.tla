---------------------------- MODULE MemoryPlanner ----------------------------
(***************************************************************************)
(* plan_memory() of python/kansai/kir.py: a liveness pass over the node    *)
(* list followed by a greedy, linear-scan slot assignment.  Both loops are *)
(* state machines here, one action per iteration, so that what they        *)
(* establish is proved by induction over their own steps.                  *)
(*                                                                         *)
(* Indices count from 1, so the code's last_use[output] = len(nodes) is    *)
(* n + 1 here, and 0 marks a node that has no entry in last_use.  Slots    *)
(* count from 0 as in the code.                                            *)
(***************************************************************************)
EXTENDS KirGraph, Integers, FiniteSets

VARIABLES
  graph,       \* the graph being planned; chosen once
  pc,          \* "liveness", "slots", then "idle" once the plan is made
  idx,         \* the loop variable of the running loop
  lastUse,     \* last_use: node -> index of its last reader, 0 if absent
  slotOf,      \* slot_of: node -> slot, NoSlot if it owns no buffer
  numSlots,    \* next_slot: number of slots opened so far
  busyUntil,   \* slot_busy_until: slot -> index its tenant lives to
  freedAt      \* slot -> iteration that put it in free_slots, 0 if not there

planVars == <<graph, pc, idx, lastUse, slotOf, numSlots, busyUntil, freedAt>>

NoSlot == -1

Slots == 0..(numSlots - 1)

(* The last index at which node i's buffer is needed: its last reader, or  *)
(* its own index when nothing reads it.                                    *)
LiveUntil(i) == IF lastUse[i] = 0 THEN i ELSE lastUse[i]

PlanInit ==
  /\ graph \in Graphs
  /\ pc = "liveness"
  /\ idx = 1
  /\ lastUse = [i \in Nodes(graph) |-> 0]
  /\ slotOf = [i \in Nodes(graph) |-> NoSlot]
  /\ numSlots = 0
  /\ busyUntil = << >>
  /\ freedAt = << >>

(* Mutation of MarkOperands: the first reader wins, not the last.          *)
MarkFirstReader ==
  /\ pc = "liveness"
  /\ idx <= graph.n
  /\ lastUse' = [i \in Nodes(graph) |->
                   IF i \in Operands(graph, idx) /\ lastUse[i] = 0 THEN idx ELSE lastUse[i]]
  /\ idx' = idx + 1
  /\ UNCHANGED <<graph, pc, slotOf, numSlots, busyUntil, freedAt>>

(* One iteration of the liveness loop: every operand of the node is        *)
(* (re)marked as last read here.                                           *)
MarkOperands ==
  /\ pc = "liveness"
  /\ idx <= graph.n
  /\ lastUse' = [i \in Nodes(graph) |->
                   IF i \in Operands(graph, idx) THEN idx ELSE lastUse[i]]
  /\ idx' = idx + 1
  /\ UNCHANGED <<graph, pc, slotOf, numSlots, busyUntil, freedAt>>

(* After the loop the output is pinned past the last node.                 *)
PinOutput ==
  /\ pc = "liveness"
  /\ idx > graph.n
  /\ lastUse' = [lastUse EXCEPT ![graph.out] = graph.n + 1]
  /\ pc' = "slots"
  /\ idx' = 1
  /\ UNCHANGED <<graph, slotOf, numSlots, busyUntil, freedAt>>

(* Mutations of FreedAfterScan: the comparison with the loop index is off  *)
(* by one, in either direction.                                            *)
FreedTooEarly ==
  [s \in Slots |-> IF freedAt[s] = 0 /\ busyUntil[s] <= idx + 1 THEN idx ELSE freedAt[s]]

FreedTooLate ==
  [s \in Slots |-> IF freedAt[s] = 0 /\ busyUntil[s] < idx THEN idx ELSE freedAt[s]]

(* free_slots after the scan that opens an iteration: a slot whose tenant  *)
(* is dead by now joins it, unless it is there already.  The list is       *)
(* represented by the iteration at which each slot joined.                 *)
FreedAfterScan ==
  [s \in Slots |-> IF freedAt[s] = 0 /\ busyUntil[s] <= idx THEN idx ELSE freedAt[s]]

(* free_slots.pop(): the slot that joined last; within one scan slots join *)
(* in the order they were opened.                                          *)
MostRecentlyFreed(freed, s) ==
  /\ freed[s] # 0
  /\ \A t \in DOMAIN freed :
        freed[t] # 0 => freed[t] < freed[s] \/ (freed[t] = freed[s] /\ t <= s)

SkipLeaf ==
  /\ pc = "slots"
  /\ idx <= graph.n
  /\ IsLeaf(graph, idx)
  /\ freedAt' = FreedAfterScan
  /\ idx' = idx + 1
  /\ UNCHANGED <<graph, pc, lastUse, slotOf, numSlots, busyUntil>>

ReuseSlot ==
  /\ pc = "slots"
  /\ idx <= graph.n
  /\ ~IsLeaf(graph, idx)
  /\ \E s \in Slots :
        /\ MostRecentlyFreed(FreedAfterScan, s)
        /\ slotOf' = [slotOf EXCEPT ![idx] = s]
        /\ busyUntil' = [busyUntil EXCEPT ![s] = LiveUntil(idx)]
        /\ freedAt' = [FreedAfterScan EXCEPT ![s] = 0]
  /\ idx' = idx + 1
  /\ UNCHANGED <<graph, pc, lastUse, numSlots>>

(* Mutation of OpenSlot: next_slot is not advanced.                        *)
OpenSlotUncounted ==
  /\ pc = "slots"
  /\ idx <= graph.n
  /\ ~IsLeaf(graph, idx)
  /\ \A s \in Slots : FreedAfterScan[s] = 0
  /\ slotOf' = [slotOf EXCEPT ![idx] = numSlots]
  /\ idx' = idx + 1
  /\ UNCHANGED <<graph, pc, lastUse, numSlots, busyUntil, freedAt>>

OpenSlot ==
  /\ pc = "slots"
  /\ idx <= graph.n
  /\ ~IsLeaf(graph, idx)
  /\ \A s \in Slots : FreedAfterScan[s] = 0
  /\ slotOf' = [slotOf EXCEPT ![idx] = numSlots]
  /\ busyUntil' = [s \in 0..numSlots |->
                     IF s = numSlots THEN LiveUntil(idx) ELSE busyUntil[s]]
  /\ freedAt' = [s \in 0..numSlots |-> 0]
  /\ numSlots' = numSlots + 1
  /\ idx' = idx + 1
  /\ UNCHANGED <<graph, pc, lastUse>>

PlanDone ==
  /\ pc = "slots"
  /\ idx > graph.n
  /\ pc' = "idle"
  /\ UNCHANGED <<graph, idx, lastUse, slotOf, numSlots, busyUntil, freedAt>>

PlanNext ==
  MarkOperands \/ PinOutput \/ SkipLeaf \/ ReuseSlot \/ OpenSlot \/ PlanDone

PlanSpec == PlanInit /\ [][PlanNext]_planVars

-----------------------------------------------------------------------------
(* A plan that another component may rely on exists from here on.          *)
Planned == pc \notin {"liveness", "slots"}

(* The type invariant of the planner's variables.                          *)
PlanTypeOK ==
  /\ WellFormed(graph)
  /\ idx \in 1..(graph.n + 1)
  /\ lastUse \in [Nodes(graph) -> 0..(graph.n + 1)]
  /\ numSlots \in 0..graph.n
  /\ slotOf \in [Nodes(graph) -> -1..(numSlots - 1)]
  /\ DOMAIN busyUntil = Slots
  /\ \A s \in Slots : busyUntil[s] \in Nat
  /\ DOMAIN freedAt = Slots
  /\ \A s \in Slots : freedAt[s] \in Nat

(* No node is read after the index the plan calls its last use, and the    *)
(* output's last use lies past every node: the fact run_planned's release  *)
(* timing rests on (kir.py:923-931).                                       *)
LastUseIsLast ==
  Planned =>
    /\ lastUse[graph.out] = graph.n + 1
    /\ \A i, j \in Nodes(graph) : i \in Operands(graph, j) => j <= lastUse[i]

(* Two nodes share a slot only if the earlier one is dead by the time the  *)
(* later one is produced (kir.py:898-902, the greedy loop 938-951).        *)
SlotsDisjoint ==
  \A i, j \in Nodes(graph) :
    i < j /\ slotOf[i] # NoSlot /\ slotOf[i] = slotOf[j] => LiveUntil(i) <= j

(* The computed nodes alive at index i under the plan's rule, which lets a *)
(* node take over the slot of an operand it reads last.                    *)
AliveAt(i) ==
  {j \in 1..i : ~IsLeaf(graph, j) /\ (j = i \/ LiveUntil(j) > i)}

(* num_slots is "the peak count of buffers ever live at once"              *)
(* (kir.py:913-914): the greedy assignment is optimal.                     *)
SlotsArePeak ==
  Planned =>
    /\ \A i \in Nodes(graph) : ~IsLeaf(graph, i) => Cardinality(AliveAt(i)) <= numSlots
    /\ numSlots > 0 =>
         \E i \in Nodes(graph) : ~IsLeaf(graph, i) /\ Cardinality(AliveAt(i)) = numSlots
=============================================================================
