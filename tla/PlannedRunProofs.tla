-------------------------- MODULE PlannedRunProofs ---------------------------
(***************************************************************************)
(* The plan is right for every traced graph: no node is read after its     *)
(* last use, nodes whose lifetimes overlap never share a slot, and there   *)
(* are as many slots as nodes alive at the busiest point, no more.         *)
(* run_planned never hands out a buffer that is still in use and computes  *)
(* what run() computes, for every choice of buffer sizes, any number of    *)
(* calls, and wherever a call raises.                                      *)
(***************************************************************************)
EXTENDS PlannedRun, DataInduction, FiniteSetTheorems

(***************************************************************************)
(* plan_memory                                                             *)
(***************************************************************************)

(* What the liveness loop has established so far.                          *)
LivenessInv ==
  /\ \A i \in Nodes(graph) : lastUse[i] = 0 \/ lastUse[i] > i
  /\ pc = "liveness" =>
       /\ \A i, j \in Nodes(graph) : j < idx /\ i \in Operands(graph, j) => j <= lastUse[i]
       /\ \A i \in Nodes(graph) : lastUse[i] < idx /\ slotOf[i] = NoSlot
  /\ pc # "liveness" =>
       /\ lastUse[graph.out] = graph.n + 1
       /\ \A i, j \in Nodes(graph) : i \in Operands(graph, j) => j <= lastUse[i]

(* A slot is busy at least as long as every node that was given it, and a  *)
(* slot in the free list has no living tenant.                             *)
SlotsInv ==
  /\ \A i \in Nodes(graph) : slotOf[i] # NoSlot => LiveUntil(i) <= busyUntil[slotOf[i]]
  /\ pc = "slots" =>
       /\ \A i \in Nodes(graph) : slotOf[i] # NoSlot => i < idx
       /\ \A s \in Slots : freedAt[s] # 0 => busyUntil[s] <= idx

PlanInv ==
  /\ PlanTypeOK
  /\ numSlots < idx \/ pc # "slots"
  /\ pc = "liveness" => numSlots = 0
  /\ LivenessInv
  /\ SlotsInv
  /\ SlotsDisjoint

(* Operands are nodes that precede their reader.                           *)
LEMMA OperandsPrecede ==
  ASSUME NEW g, WellFormed(g), NEW j \in Nodes(g), NEW i \in Operands(g, j)
  PROVE  i \in Nodes(g) /\ i < j
BY DEF WellFormed, Operands, Nodes

(* A graph has nodes, and its output is one of them.                       *)
LEMMA GraphFacts ==
  ASSUME NEW g, WellFormed(g)
  PROVE  g.n \in Nat /\ g.n >= 1 /\ Nodes(g) = 1..g.n /\ g.out \in 1..g.n
BY DEF WellFormed, Nodes

(* The initial plan satisfies the invariant.                               *)
LEMMA PlanInitInv == PlanInit => PlanInv
<1> SUFFICES ASSUME PlanInit PROVE PlanInv
  OBVIOUS
<1>1. /\ WellFormed(graph)
      /\ graph.n \in Nat /\ graph.n >= 1 /\ Nodes(graph) = 1..graph.n
  BY GraphsAssumption, GraphFacts DEF PlanInit
<1>2. PlanTypeOK
  BY <1>1 DEF PlanInit, PlanTypeOK, Slots, NoSlot
<1>3. QED
  BY <1>1, <1>2 DEF PlanInit, PlanInv, LivenessInv, SlotsInv, SlotsDisjoint,
                    Slots, NoSlot

(* Preserved by an iteration of the liveness loop: the indices only grow,  *)
(* so the last marking is the last reader.                                 *)
LEMMA MarkOperandsInv == PlanInv /\ MarkOperands => PlanInv'
<1> SUFFICES ASSUME PlanInv, MarkOperands PROVE PlanInv'
  OBVIOUS
<1> USE DEF PlanInv, MarkOperands
<1>1. /\ WellFormed(graph) /\ graph' = graph /\ idx \in 1..graph.n
      /\ graph.n \in Nat /\ graph.n >= 1 /\ Nodes(graph) = 1..graph.n
  BY GraphFacts DEF PlanTypeOK
<1>2. PlanTypeOK'
  BY <1>1 DEF PlanTypeOK, Slots
<1>3. LivenessInv'
  BY <1>1, OperandsPrecede DEF LivenessInv, PlanTypeOK
<1>4. SlotsInv' /\ SlotsDisjoint'
  BY <1>1 DEF SlotsInv, SlotsDisjoint, LivenessInv, LiveUntil, Slots
<1>5. QED
  BY <1>2, <1>3, <1>4

(* Preserved when the output is pinned past the last node.                 *)
LEMMA PinOutputInv == PlanInv /\ PinOutput => PlanInv'
<1> SUFFICES ASSUME PlanInv, PinOutput PROVE PlanInv'
  OBVIOUS
<1> USE DEF PlanInv, PinOutput
<1>1. /\ WellFormed(graph) /\ graph' = graph /\ graph.out \in 1..graph.n
      /\ graph.n \in Nat /\ graph.n >= 1 /\ Nodes(graph) = 1..graph.n
  BY GraphFacts DEF PlanTypeOK
<1>2. PlanTypeOK'
  BY <1>1 DEF PlanTypeOK, Slots
<1>3. LivenessInv'
  BY <1>1 DEF LivenessInv, PlanTypeOK
<1>4. SlotsInv' /\ SlotsDisjoint'
  BY <1>1 DEF SlotsInv, SlotsDisjoint, LivenessInv, LiveUntil, Slots, PlanTypeOK
<1>5. QED
  BY <1>2, <1>3, <1>4

(* Preserved when a leaf passes: only the free list may have grown.        *)
LEMMA SkipLeafInv == PlanInv /\ SkipLeaf => PlanInv'
<1> SUFFICES ASSUME PlanInv, SkipLeaf PROVE PlanInv'
  OBVIOUS
<1> USE DEF PlanInv, SkipLeaf
<1>1. /\ WellFormed(graph) /\ graph' = graph /\ idx \in 1..graph.n
      /\ graph.n \in Nat /\ graph.n >= 1 /\ Nodes(graph) = 1..graph.n
  BY GraphFacts DEF PlanTypeOK
<1>2. PlanTypeOK'
  BY <1>1 DEF PlanTypeOK, Slots, FreedAfterScan
<1>3. LivenessInv' /\ SlotsDisjoint'
  BY <1>1 DEF LivenessInv, SlotsDisjoint, LiveUntil
<1>4. SlotsInv'
  BY <1>1, SMTT(60) DEF SlotsInv, LiveUntil, Slots, FreedAfterScan, PlanTypeOK
<1>5. QED
  BY <1>2, <1>3, <1>4 DEF PlanTypeOK

(* What every reader of the invariant needs of the graph.                  *)
LEMMA BaseFacts ==
  ASSUME PlanInv
  PROVE  /\ WellFormed(graph) /\ idx \in 1..(graph.n + 1)
         /\ graph.n \in Nat /\ graph.n >= 1 /\ Nodes(graph) = 1..graph.n
         /\ graph.out \in 1..graph.n
<1>1. WellFormed(graph) /\ idx \in 1..(graph.n + 1)
  BY DEF PlanInv, PlanTypeOK
<1>2. QED
  BY <1>1, GraphFacts

(* The scan at the head of an iteration frees dead tenants' slots only.    *)
LEMMA ScanFacts ==
  ASSUME PlanInv, pc = "slots"
  PROVE  /\ FreedAfterScan \in [Slots -> Nat]
         /\ \A s \in Slots : FreedAfterScan[s] # 0 => busyUntil[s] <= idx
BY GraphFacts DEF PlanInv, PlanTypeOK, SlotsInv, FreedAfterScan

(* A node's buffer is needed at its own index, at least.                   *)
LEMMA LiveUntilFacts ==
  ASSUME PlanInv, NEW i \in Nodes(graph)
  PROVE  LiveUntil(i) \in Nat /\ i <= LiveUntil(i)
BY GraphFacts DEF PlanInv, PlanTypeOK, LivenessInv, LiveUntil

(* Preserved when a freed slot is given away: its former tenants are dead  *)
(* at idx, where the new one begins.                                       *)
LEMMA ReuseSlotInv == PlanInv /\ ReuseSlot => PlanInv'
<1> SUFFICES ASSUME PlanInv, ReuseSlot PROVE PlanInv'
  OBVIOUS
<1>1. /\ WellFormed(graph) /\ graph' = graph /\ idx \in 1..graph.n
      /\ graph.n \in Nat /\ graph.n >= 1 /\ Nodes(graph) = 1..graph.n
  BY BaseFacts DEF ReuseSlot
<1>2. PICK s \in Slots :
         /\ MostRecentlyFreed(FreedAfterScan, s)
         /\ slotOf' = [slotOf EXCEPT ![idx] = s]
         /\ busyUntil' = [busyUntil EXCEPT ![s] = LiveUntil(idx)]
         /\ freedAt' = [FreedAfterScan EXCEPT ![s] = 0]
  BY DEF ReuseSlot
<1>3. /\ pc = "slots" /\ pc' = pc /\ idx' = idx + 1 /\ lastUse' = lastUse
      /\ numSlots' = numSlots /\ Slots' = Slots /\ numSlots \in 0..graph.n
      /\ numSlots < idx /\ Slots = 0..(numSlots - 1)
  BY DEF ReuseSlot, Slots, PlanInv, PlanTypeOK
<1>4. /\ slotOf \in [Nodes(graph) -> -1..(numSlots - 1)]
      /\ busyUntil[s] <= idx /\ idx <= LiveUntil(idx) /\ LiveUntil(idx) \in Nat
  BY <1>1, <1>2, <1>3, ScanFacts, LiveUntilFacts DEF MostRecentlyFreed, PlanInv, PlanTypeOK
<1>5. \A i \in Nodes(graph) : LiveUntil(i)' = LiveUntil(i) /\ LiveUntil(i) \in Nat
  BY <1>1, <1>3, LiveUntilFacts DEF LiveUntil
<1>6. \A i \in Nodes(graph) : slotOf'[i] = IF i = idx THEN s ELSE slotOf[i]
  BY <1>1, <1>2, <1>4
<1>7. /\ DOMAIN busyUntil' = Slots /\ DOMAIN freedAt' = Slots
      /\ \A t \in Slots : busyUntil'[t] = IF t = s THEN LiveUntil(idx) ELSE busyUntil[t]
      /\ \A t \in Slots : freedAt'[t] = IF t = s THEN 0 ELSE FreedAfterScan[t]
      /\ \A t \in Slots : busyUntil[t] \in Nat /\ FreedAfterScan[t] \in Nat
  BY <1>2, <1>3, ScanFacts DEF PlanInv, PlanTypeOK
<1>8. PlanTypeOK'
  <2>1. slotOf' \in [Nodes(graph) -> -1..(numSlots - 1)]
    BY <1>1, <1>2, <1>3, <1>4
  <2>2. \A t \in Slots : busyUntil'[t] \in Nat /\ freedAt'[t] \in Nat
    BY <1>4, <1>7
  <2>3. lastUse' \in [Nodes(graph) -> 0..(graph.n + 1)] /\ idx' \in 1..(graph.n + 1)
    BY <1>1, <1>3 DEF PlanInv, PlanTypeOK
  <2>4. QED
    BY <1>1, <1>3, <1>7, <2>1, <2>2, <2>3 DEF PlanTypeOK
<1>9. LivenessInv'
  BY <1>1, <1>3 DEF LivenessInv, PlanTypeOK, PlanInv
<1>10. \A i \in Nodes(graph) : slotOf[i] # NoSlot =>
          slotOf[i] \in Slots /\ LiveUntil(i) <= busyUntil[slotOf[i]] /\ i < idx
  BY <1>1, <1>3, <1>4 DEF PlanInv, SlotsInv, NoSlot
<1>11. SlotsInv'
  <2>1. ASSUME NEW i \in Nodes(graph), slotOf'[i] # NoSlot
        PROVE  LiveUntil(i)' <= busyUntil'[slotOf'[i]] /\ i < idx'
    <3>1. CASE i = idx
      BY <1>1, <1>2, <1>3, <1>4, <1>5, <1>6, <1>7, <3>1
    <3>2. CASE i # idx
      <4>1. /\ slotOf'[i] = slotOf[i] /\ slotOf[i] \in Slots
            /\ LiveUntil(i) <= busyUntil[slotOf[i]] /\ i < idx
        BY <1>6, <1>10, <2>1, <3>2
      <4>2. busyUntil[slotOf[i]] <= busyUntil'[slotOf[i]]
        BY <1>1, <1>4, <1>7, <4>1
      <4>3. busyUntil'[slotOf[i]] \in Nat /\ busyUntil[slotOf[i]] \in Nat
        BY <1>4, <1>7, <4>1
      <4>4. QED
        BY <1>1, <1>3, <1>5, <4>1, <4>2, <4>3
    <3>3. QED
      BY <3>1, <3>2
  <2>2. ASSUME NEW t \in Slots, freedAt'[t] # 0
        PROVE  busyUntil'[t] <= idx'
    BY <1>1, <1>3, <1>7, <2>2, ScanFacts
  <2>3. QED
    BY <1>1, <1>3, <2>1, <2>2 DEF SlotsInv
<1>12. SlotsDisjoint'
  <2> SUFFICES ASSUME NEW i \in Nodes(graph), NEW j \in Nodes(graph), i < j,
                      slotOf'[i] # NoSlot, slotOf'[i] = slotOf'[j]
               PROVE  LiveUntil(i)' <= j
    BY <1>1 DEF SlotsDisjoint
  <2>1. CASE j = idx
    BY <1>1, <1>2, <1>4, <1>5, <1>6, <1>7, <1>10, <2>1
  <2>2. CASE i = idx
    BY <1>1, <1>2, <1>6, <1>10, <1>3, <2>2 DEF NoSlot
  <2>3. CASE i # idx /\ j # idx
    BY <1>5, <1>6, <2>3 DEF SlotsDisjoint, PlanInv
  <2>4. QED
    BY <2>1, <2>2, <2>3
<1>13. QED
  BY <1>1, <1>3, <1>8, <1>9, <1>11, <1>12 DEF PlanInv

(* Preserved when a slot is opened: nobody had it before.                  *)
LEMMA OpenSlotInv == PlanInv /\ OpenSlot => PlanInv'
<1> SUFFICES ASSUME PlanInv, OpenSlot PROVE PlanInv'
  OBVIOUS
<1>1. /\ WellFormed(graph) /\ graph' = graph /\ idx \in 1..graph.n
      /\ graph.n \in Nat /\ graph.n >= 1 /\ Nodes(graph) = 1..graph.n
  BY BaseFacts DEF OpenSlot
<1>2. /\ pc = "slots" /\ pc' = pc /\ idx' = idx + 1 /\ lastUse' = lastUse
      /\ numSlots \in 0..graph.n /\ numSlots' = numSlots + 1 /\ numSlots < idx
      /\ Slots = 0..(numSlots - 1) /\ Slots' = 0..numSlots
  BY <1>1 DEF OpenSlot, Slots, PlanInv, PlanTypeOK
<1>3. \A i \in Nodes(graph) :
         LiveUntil(i)' = LiveUntil(i) /\ LiveUntil(i) \in Nat /\ i <= LiveUntil(i)
  BY <1>1, <1>2, LiveUntilFacts DEF LiveUntil
<1>4. /\ slotOf \in [Nodes(graph) -> -1..(numSlots - 1)]
      /\ \A i \in Nodes(graph) : slotOf'[i] = IF i = idx THEN numSlots ELSE slotOf[i]
  BY <1>1 DEF OpenSlot, PlanInv, PlanTypeOK
<1>5. /\ DOMAIN busyUntil' = 0..numSlots /\ DOMAIN freedAt' = 0..numSlots
      /\ \A t \in 0..numSlots :
           /\ busyUntil'[t] = IF t = numSlots THEN LiveUntil(idx) ELSE busyUntil[t]
           /\ freedAt'[t] = 0
      /\ \A t \in Slots : busyUntil[t] \in Nat
  BY DEF OpenSlot, PlanInv, PlanTypeOK
<1>6. \A i \in Nodes(graph) : slotOf[i] # NoSlot =>
         slotOf[i] \in Slots /\ LiveUntil(i) <= busyUntil[slotOf[i]] /\ i < idx
  BY <1>1, <1>2, <1>4 DEF PlanInv, SlotsInv, NoSlot
<1>7. PlanTypeOK'
  <2>1. slotOf' \in [Nodes(graph) -> -1..numSlots]
    BY <1>1, <1>2, <1>4 DEF OpenSlot
  <2>2. \A t \in 0..numSlots : busyUntil'[t] \in Nat /\ freedAt'[t] \in Nat
    BY <1>1, <1>2, <1>3, <1>5
  <2>3. numSlots' - 1 = numSlots /\ numSlots' \in 0..graph.n /\ idx' \in 1..(graph.n + 1)
    BY <1>1, <1>2
  <2>4. lastUse' \in [Nodes(graph) -> 0..(graph.n + 1)]
    BY <1>2 DEF PlanInv, PlanTypeOK
  <2>5. QED
    BY <1>1, <1>2, <1>5, <2>1, <2>2, <2>3, <2>4 DEF PlanTypeOK
<1>8. LivenessInv'
  BY <1>1, <1>2 DEF LivenessInv, PlanTypeOK, PlanInv
<1>9. SlotsInv'
  <2>1. ASSUME NEW i \in Nodes(graph), slotOf'[i] # NoSlot
        PROVE  LiveUntil(i)' <= busyUntil'[slotOf'[i]] /\ i < idx'
    BY <1>1, <1>2, <1>3, <1>4, <1>5, <1>6, <2>1
  <2>2. QED
    BY <1>1, <1>2, <1>5, <2>1 DEF SlotsInv
<1>10. SlotsDisjoint'
  <2> SUFFICES ASSUME NEW i \in Nodes(graph), NEW j \in Nodes(graph), i < j,
                      slotOf'[i] # NoSlot, slotOf'[i] = slotOf'[j]
               PROVE  LiveUntil(i)' <= j
    BY <1>1 DEF SlotsDisjoint
  <2>1. CASE i = idx \/ j = idx
    BY <1>1, <1>2, <1>4, <1>6, <2>1 DEF NoSlot
  <2>2. CASE i # idx /\ j # idx
    BY <1>3, <1>4, <2>2 DEF SlotsDisjoint, PlanInv
  <2>3. QED
    BY <2>1, <2>2
<1>11. QED
  BY <1>1, <1>2, <1>7, <1>8, <1>9, <1>10 DEF PlanInv

(* Preserved when the plan is finished.                                    *)
LEMMA PlanDoneInv == PlanInv /\ PlanDone => PlanInv'
BY DEF PlanInv, PlanDone, PlanTypeOK, LivenessInv, SlotsInv, SlotsDisjoint, LiveUntil, Slots

(* Every step of plan_memory preserves the invariant.                      *)
LEMMA PlanNextInv == PlanInv /\ PlanNext => PlanInv'
BY MarkOperandsInv, PinOutputInv, SkipLeafInv, ReuseSlotInv, OpenSlotInv, PlanDoneInv
   DEF PlanNext

(* A step that leaves a finished plan alone preserves it too, whatever it  *)
(* does with pc and idx: this is how the executors use the plan.           *)
LEMMA PlanFrame ==
  ASSUME PlanInv, Planned, Planned', idx' \in 1..(graph.n + 1),
         UNCHANGED <<graph, lastUse, slotOf, numSlots, busyUntil, freedAt>>
  PROVE  PlanInv'
BY DEF PlanInv, Planned, PlanTypeOK, LivenessInv, SlotsInv, SlotsDisjoint, LiveUntil, Slots

(* What a finished plan tells its users.                                   *)
LEMMA PlanFacts == PlanInv => LastUseIsLast /\ SlotsDisjoint
BY DEF PlanInv, LivenessInv, LastUseIsLast, Planned
-----------------------------------------------------------------------------
(* Slots go to computed nodes, in the order of the node list, and to all   *)
(* of them.                                                                *)
GivenInv ==
  /\ \A i \in Nodes(graph) : slotOf[i] # NoSlot => ~IsLeaf(graph, i)
  /\ pc # "liveness" =>
       \A i \in Nodes(graph) :
          ~IsLeaf(graph, i) /\ (pc = "slots" => i < idx) => slotOf[i] # NoSlot

(* A slot is busy for as long as some node that was given it, not longer.  *)
TenantInv ==
  \A s \in Slots : \E j \in Nodes(graph) : slotOf[j] = s /\ busyUntil[s] = LiveUntil(j)

(* Node i has an owner alive for every slot there is.                      *)
FillsSlots(i) == \A s \in Slots : \E j \in AliveAt(i) : slotOf[j] = s

(* Why the peak is reached: the slot opened last was opened because the    *)
(* tenants of all the others were alive.                                   *)
PeakInv ==
  numSlots > 0 =>
    \E i \in Nodes(graph) : ~IsLeaf(graph, i) /\ (pc = "slots" => i < idx) /\ FillsSlots(i)

OptimalInv == GivenInv /\ TenantInv /\ PeakInv

(* Before the slots loop there are no slots.                               *)
LEMMA PlanInitOptimal == PlanInit => OptimalInv
<1> SUFFICES ASSUME PlanInit PROVE OptimalInv
  OBVIOUS
<1>1. graph.n \in Nat /\ Nodes(graph) = 1..graph.n
  BY GraphsAssumption, GraphFacts DEF PlanInit
<1>2. QED
  BY <1>1 DEF PlanInit, OptimalInv, GivenInv, TenantInv, PeakInv, Slots, NoSlot

(* The liveness loop gives no slot away.                                   *)
LEMMA LivenessOptimal ==
  ASSUME PlanInv, OptimalInv, MarkOperands \/ PinOutput
  PROVE  OptimalInv'
<1>1. /\ pc = "liveness" /\ UNCHANGED <<graph, slotOf, numSlots, busyUntil>>
      /\ numSlots = 0 /\ \A i \in Nodes(graph) : slotOf[i] = NoSlot
      /\ pc' = "liveness" \/ (pc' = "slots" /\ idx' = 1)
  BY DEF MarkOperands, PinOutput, PlanInv, LivenessInv
<1>2. Slots' = {} /\ Nodes(graph) = 1..graph.n /\ graph.n \in Nat
  BY <1>1, BaseFacts DEF Slots
<1>3. GivenInv'
  BY <1>1, <1>2 DEF GivenInv
<1>4. TenantInv' /\ PeakInv'
  BY <1>1, <1>2 DEF TenantInv, PeakInv
<1>5. QED
  BY <1>3, <1>4 DEF OptimalInv

(* Who is alive at a node depends on the nodes before it only, and later   *)
(* assignments do not move them.                                           *)
LEMMA FillsSlotsStays ==
  ASSUME PlanInv, NEW i \in Nodes(graph), FillsSlots(i),
         UNCHANGED <<graph, lastUse, numSlots>>,
         \A j \in 1..i : slotOf'[j] = slotOf[j]
  PROVE  FillsSlots(i)'
<1>1. Slots' = Slots /\ AliveAt(i)' = AliveAt(i)
  BY DEF Slots, AliveAt, LiveUntil
<1>2. \A j \in AliveAt(i) : slotOf'[j] = slotOf[j]
  BY DEF AliveAt
<1>3. QED
  BY <1>1, <1>2 DEF FillsSlots

(* A leaf gets no slot, and a finished plan gives none.                    *)
LEMMA SkipOptimal ==
  ASSUME PlanInv, OptimalInv, SkipLeaf \/ PlanDone
  PROVE  OptimalInv'
<1>1. /\ pc = "slots" /\ UNCHANGED <<graph, lastUse, slotOf, numSlots, busyUntil>>
      /\ \/ pc' = "slots" /\ idx' = idx + 1 /\ IsLeaf(graph, idx)
         \/ pc' = "idle" /\ idx > graph.n
  BY DEF SkipLeaf, PlanDone
<1>2. Nodes(graph) = 1..graph.n /\ graph.n \in Nat /\ idx \in 1..(graph.n + 1)
  BY BaseFacts
<1>3. GivenInv'
  BY <1>1, <1>2 DEF OptimalInv, GivenInv
<1>4. TenantInv'
  BY <1>1 DEF OptimalInv, TenantInv, Slots, LiveUntil
<1>5. PeakInv'
  <2> SUFFICES ASSUME numSlots > 0
               PROVE  \E i \in Nodes(graph) :
                        ~IsLeaf(graph, i) /\ (pc' = "slots" => i < idx') /\ FillsSlots(i)'
    BY <1>1 DEF PeakInv
  <2>1. PICK i \in Nodes(graph) : ~IsLeaf(graph, i) /\ i < idx /\ FillsSlots(i)
    BY <1>1 DEF OptimalInv, PeakInv
  <2>2. FillsSlots(i)'
    BY <1>1, <2>1, FillsSlotsStays
  <2>3. QED
    BY <1>1, <1>2, <2>1, <2>2
<1>6. QED
  BY <1>3, <1>4, <1>5 DEF OptimalInv

(* A reused slot has a new tenant, and the peak stays where it was.        *)
LEMMA ReuseSlotOptimal ==
  ASSUME PlanInv, OptimalInv, ReuseSlot
  PROVE  OptimalInv'
<1>1. /\ pc = "slots" /\ pc' = pc /\ idx' = idx + 1 /\ ~IsLeaf(graph, idx)
      /\ UNCHANGED <<graph, lastUse, numSlots>> /\ Slots' = Slots
  BY DEF ReuseSlot, Slots
<1>2. Nodes(graph) = 1..graph.n /\ graph.n \in Nat /\ idx \in 1..graph.n
  BY BaseFacts DEF ReuseSlot
<1>3. PICK s \in Slots : /\ slotOf' = [slotOf EXCEPT ![idx] = s]
                        /\ busyUntil' = [busyUntil EXCEPT ![s] = LiveUntil(idx)]
  BY DEF ReuseSlot
<1>4. /\ DOMAIN slotOf = Nodes(graph) /\ DOMAIN busyUntil = Slots /\ s # NoSlot
      /\ slotOf[idx] = NoSlot
  <2>1. DOMAIN slotOf = Nodes(graph) /\ DOMAIN busyUntil = Slots
    BY DEF PlanInv, PlanTypeOK
  <2>2. s # NoSlot
    BY DEF Slots, NoSlot, PlanInv, PlanTypeOK
  <2>3. slotOf[idx] = NoSlot
    BY <1>1, <1>2 DEF PlanInv, SlotsInv
  <2>4. QED
    BY <2>1, <2>2, <2>3
<1>5. GivenInv'
  BY <1>1, <1>2, <1>3, <1>4 DEF OptimalInv, GivenInv
<1>6. TenantInv'
  <2> SUFFICES ASSUME NEW t \in Slots
               PROVE  \E j \in Nodes(graph) : slotOf'[j] = t /\ busyUntil'[t] = LiveUntil(j)'
    BY <1>1 DEF TenantInv
  <2>1. \A j \in Nodes(graph) : LiveUntil(j)' = LiveUntil(j)
    BY <1>1 DEF LiveUntil
  <2>2. CASE t = s
    BY <1>2, <1>3, <1>4, <2>1, <2>2
  <2>3. CASE t # s
    <3>1. PICK j \in Nodes(graph) : slotOf[j] = t /\ busyUntil[t] = LiveUntil(j)
      BY DEF OptimalInv, TenantInv
    <3>2. j # idx
      BY <1>4, <3>1 DEF Slots, NoSlot
    <3>3. QED
      BY <1>3, <1>4, <2>1, <2>3, <3>1, <3>2
  <2>4. QED
    BY <2>2, <2>3
<1>7. PeakInv'
  <2> SUFFICES ASSUME numSlots > 0
               PROVE  \E i \in Nodes(graph) : ~IsLeaf(graph, i) /\ i < idx' /\ FillsSlots(i)'
    BY <1>1 DEF PeakInv
  <2>1. PICK i \in Nodes(graph) : ~IsLeaf(graph, i) /\ i < idx /\ FillsSlots(i)
    BY <1>1 DEF OptimalInv, PeakInv
  <2>2. \A j \in 1..i : slotOf'[j] = slotOf[j]
    BY <1>2, <1>3, <1>4, <2>1
  <2>3. FillsSlots(i)'
    BY <1>1, <2>1, <2>2, FillsSlotsStays
  <2>4. QED
    BY <1>1, <1>2, <2>1, <2>3
<1>8. QED
  BY <1>5, <1>6, <1>7 DEF OptimalInv

(* A slot is opened at a node where the tenants of all the others live on: *)
(* that node is the new peak.                                              *)
LEMMA OpenSlotOptimal ==
  ASSUME PlanInv, OptimalInv, OpenSlot
  PROVE  OptimalInv'
<1>1. /\ pc = "slots" /\ pc' = pc /\ idx' = idx + 1 /\ ~IsLeaf(graph, idx)
      /\ UNCHANGED <<graph, lastUse>> /\ Slots' = 0..numSlots
      /\ numSlots \in Nat /\ Slots = 0..(numSlots - 1)
  BY DEF OpenSlot, Slots, PlanInv, PlanTypeOK
<1>2. Nodes(graph) = 1..graph.n /\ graph.n \in Nat /\ idx \in 1..graph.n
  BY BaseFacts DEF OpenSlot
<1>3. /\ slotOf' = [slotOf EXCEPT ![idx] = numSlots]
      /\ busyUntil' = [s \in 0..numSlots |->
                         IF s = numSlots THEN LiveUntil(idx) ELSE busyUntil[s]]
  BY DEF OpenSlot
<1>4. DOMAIN slotOf = Nodes(graph) /\ numSlots # NoSlot /\ slotOf[idx] = NoSlot
  BY <1>1, <1>2 DEF PlanInv, PlanTypeOK, SlotsInv, NoSlot
<1>5. \A j \in Nodes(graph) : LiveUntil(j)' = LiveUntil(j)
  BY <1>1 DEF LiveUntil
<1>6. \A s \in Slots : \E j \in Nodes(graph) :
         /\ slotOf[j] = s /\ busyUntil[s] = LiveUntil(j)
         /\ slotOf'[j] = s /\ j < idx /\ ~IsLeaf(graph, j)
  <2> SUFFICES ASSUME NEW s \in Slots
               PROVE  \E j \in Nodes(graph) :
                         /\ slotOf[j] = s /\ busyUntil[s] = LiveUntil(j)
                         /\ slotOf'[j] = s /\ j < idx /\ ~IsLeaf(graph, j)
    OBVIOUS
  <2>1. PICK j \in Nodes(graph) : slotOf[j] = s /\ busyUntil[s] = LiveUntil(j)
    BY DEF OptimalInv, TenantInv
  <2>2. slotOf[j] # NoSlot
    BY <1>1, <2>1 DEF NoSlot
  <2>3. j < idx /\ ~IsLeaf(graph, j)
    BY <1>1, <2>2 DEF PlanInv, SlotsInv, OptimalInv, GivenInv
  <2>4. QED
    BY <1>2, <1>3, <1>4, <2>1, <2>3
<1>7. GivenInv'
  BY <1>1, <1>2, <1>3, <1>4 DEF OptimalInv, GivenInv
<1>8. TenantInv'
  <2> SUFFICES ASSUME NEW t \in 0..numSlots
               PROVE  \E j \in Nodes(graph) : slotOf'[j] = t /\ busyUntil'[t] = LiveUntil(j)'
    BY <1>1 DEF TenantInv
  <2>1. CASE t = numSlots
    BY <1>2, <1>3, <1>4, <1>5, <2>1
  <2>2. CASE t # numSlots
    <3>1. t \in Slots
      BY <1>1, <2>2
    <3>2. QED
      BY <1>3, <1>5, <1>6, <2>2, <3>1
  <2>3. QED
    BY <2>1, <2>2
<1>9. PeakInv'
  <2>1. PICK here \in Nodes(graph) : here = idx
    BY <1>2
  <2>2. \A s \in Slots : busyUntil[s] > here
    <3> SUFFICES ASSUME NEW s \in Slots PROVE busyUntil[s] > here
      OBVIOUS
    <3>1. FreedAfterScan[s] = 0 /\ busyUntil[s] \in Nat
      BY DEF OpenSlot, PlanInv, PlanTypeOK
    <3>2. QED
      BY <1>2, <2>1, <3>1 DEF FreedAfterScan
  <2>3. AliveAt(here)' = {j \in 1..here : ~IsLeaf(graph, j) /\ (j = here \/ LiveUntil(j)' > here)}
    BY <1>1 DEF AliveAt
  <2>4. here \in AliveAt(here)' /\ slotOf'[here] = numSlots
    BY <1>1, <1>2, <1>3, <1>4, <2>1, <2>3
  <2>5. \A s \in Slots : \E j \in AliveAt(here)' : slotOf'[j] = s
    <3> SUFFICES ASSUME NEW s \in Slots PROVE \E j \in AliveAt(here)' : slotOf'[j] = s
      OBVIOUS
    <3>1. PICK j \in Nodes(graph) :
             /\ busyUntil[s] = LiveUntil(j) /\ slotOf'[j] = s
             /\ j < idx /\ ~IsLeaf(graph, j)
      BY <1>6
    <3>2. LiveUntil(j)' > here /\ j \in 1..here
      BY <1>2, <1>5, <2>1, <2>2, <3>1
    <3>3. QED
      BY <2>3, <3>1, <3>2
  <2>6. FillsSlots(here)'
    <3>1. \A s \in 0..numSlots : s = numSlots \/ s \in Slots
      BY <1>1
    <3>2. QED
      BY <1>1, <2>4, <2>5, <3>1 DEF FillsSlots
  <2>7. here < idx'
    BY <1>1, <1>2, <2>1
  <2>8. QED
    BY <1>1, <2>1, <2>6, <2>7 DEF PeakInv
<1>10. QED
  BY <1>7, <1>8, <1>9 DEF OptimalInv

(* Every step of plan_memory keeps the assignment optimal.                 *)
LEMMA PlanNextOptimal == PlanInv /\ OptimalInv /\ PlanNext => OptimalInv'
BY LivenessOptimal, SkipOptimal, ReuseSlotOptimal, OpenSlotOptimal DEF PlanNext

(* A step that leaves a finished plan alone keeps it optimal.              *)
LEMMA OptimalFrame ==
  ASSUME OptimalInv, Planned, Planned',
         UNCHANGED <<graph, lastUse, slotOf, numSlots, busyUntil>>
  PROVE  OptimalInv'
BY DEF OptimalInv, GivenInv, TenantInv, PeakInv, FillsSlots, AliveAt, LiveUntil, Slots, Planned

(* The plan has as many slots as nodes are alive at the busiest point: the *)
(* nodes alive at one point own different slots, and at the peak all.      *)
LEMMA OptimalFacts == PlanInv /\ OptimalInv => SlotsArePeak
<1> SUFFICES ASSUME PlanInv, OptimalInv, Planned
             PROVE  /\ \A i \in Nodes(graph) :
                         ~IsLeaf(graph, i) => Cardinality(AliveAt(i)) <= numSlots
                    /\ numSlots > 0 =>
                         \E i \in Nodes(graph) :
                            ~IsLeaf(graph, i) /\ Cardinality(AliveAt(i)) = numSlots
  BY DEF SlotsArePeak
<1>1. /\ graph.n \in Nat /\ Nodes(graph) = 1..graph.n /\ numSlots \in Nat
      /\ Slots = 0..(numSlots - 1) /\ slotOf \in [Nodes(graph) -> -1..(numSlots - 1)]
  BY BaseFacts DEF PlanInv, PlanTypeOK, Slots
<1>2. IsFiniteSet(Slots) /\ Cardinality(Slots) = numSlots
  <2>1. IsFiniteSet(Slots)
        /\ Cardinality(Slots) = IF 0 > numSlots - 1 THEN 0 ELSE numSlots - 1 - 0 + 1
    BY <1>1, FS_Interval
  <2>2. QED
    BY <1>1, <2>1
<1>3. ASSUME NEW i \in Nodes(graph)
      PROVE  [j \in AliveAt(i) |-> slotOf[j]] \in Injection(AliveAt(i), Slots)
  <2>1. \A j \in AliveAt(i) : j \in Nodes(graph) /\ j <= i /\ slotOf[j] # NoSlot
    <3>1. \A j \in AliveAt(i) : j \in 1..i /\ ~IsLeaf(graph, j)
      BY DEF AliveAt
    <3>2. QED
      BY <1>1, <3>1 DEF OptimalInv, GivenInv, Planned
  <2>2. \A j \in AliveAt(i) : slotOf[j] \in Slots
    BY <1>1, <2>1 DEF NoSlot
  <2>3. \A j, k \in AliveAt(i) : j < k => slotOf[j] # slotOf[k]
    <3> SUFFICES ASSUME NEW j \in AliveAt(i), NEW k \in AliveAt(i), j < k,
                        slotOf[j] = slotOf[k]
                 PROVE  FALSE
      OBVIOUS
    <3>1. LiveUntil(j) <= k /\ LiveUntil(j) \in Nat
      BY <2>1, LiveUntilFacts DEF PlanInv, SlotsDisjoint
    <3>2. j # i /\ k <= i
      BY <1>1, <2>1
    <3>3. LiveUntil(j) > i
      BY <3>2 DEF AliveAt
    <3>4. QED
      BY <1>1, <2>1, <3>1, <3>2, <3>3
  <2>4. \A j, k \in AliveAt(i) : slotOf[j] = slotOf[k] => j = k
    BY <1>1, <2>1, <2>3
  <2>5. QED
    BY <2>2, <2>4 DEF Injection, IsInjective
<1>4. \A i \in Nodes(graph) : Cardinality(AliveAt(i)) <= numSlots
  BY <1>2, <1>3, FS_Injection
<1>5. ASSUME NEW i \in Nodes(graph), FillsSlots(i)
      PROVE  Cardinality(AliveAt(i)) = numSlots
  <2>1. [j \in AliveAt(i) |-> slotOf[j]] \in Surjection(AliveAt(i), Slots)
    BY <1>3, <1>5 DEF FillsSlots, Surjection, Injection
  <2>2. QED
    BY <1>2, <1>3, <2>1, FS_Injection
<1>6. QED
  BY <1>4, <1>5 DEF OptimalInv, PeakInv
-----------------------------------------------------------------------------
(* last_use never points at a node that does not read the value: it is     *)
(* absent, the pin of the output, or an actual reader.                     *)
LastUseIsAUse ==
  \A i \in Nodes(graph) :
     \/ lastUse[i] \in {0, graph.n + 1}
     \/ lastUse[i] \in Nodes(graph) /\ i \in Operands(graph, lastUse[i])

LEMMA PlanInitUses == PlanInit => LastUseIsAUse
BY DEF PlanInit, LastUseIsAUse

(* Only the liveness loop writes last_use, and only at a reader.           *)
LEMMA PlanNextUses == PlanInv /\ LastUseIsAUse /\ PlanNext => LastUseIsAUse'
<1> SUFFICES ASSUME PlanInv, LastUseIsAUse, PlanNext PROVE LastUseIsAUse'
  OBVIOUS
<1>1. DOMAIN lastUse = Nodes(graph) /\ Nodes(graph) = 1..graph.n /\ graph.n \in Nat
      /\ idx \in 1..(graph.n + 1)
  BY BaseFacts DEF PlanInv, PlanTypeOK
<1>2. CASE MarkOperands
  BY <1>1, <1>2 DEF MarkOperands, LastUseIsAUse
<1>3. CASE PinOutput
  BY <1>1, <1>3 DEF PinOutput, LastUseIsAUse
<1>4. CASE UNCHANGED <<graph, lastUse>>
  BY <1>4 DEF LastUseIsAUse
<1>5. QED
  BY <1>2, <1>3, <1>4 DEF PlanNext, SkipLeaf, ReuseSlot, OpenSlot, PlanDone

(***************************************************************************)
(* run_planned, the pool and the caller                                    *)
(***************************************************************************)

InCall == pc \in {"exec", "release"}

(* Nodes whose tensor the call must still have: computed or bound so far,  *)
(* and with a use ahead of the point the call has reached.                 *)
StillNeeded(i) ==
  \/ pc = "exec" /\ i < idx /\ lastUse[i] >= idx
  \/ pc = "release" /\ i <= idx /\ lastUse[i] > idx

(* What the executor keeps between two steps besides the safety            *)
(* properties: everything still needed is bound, nothing is bound between  *)
(* calls, tensors of computed nodes live in the pool's buffers, and the    *)
(* caller's own tensors are intact.                                        *)
BindingInv ==
  /\ InCall => /\ calls > 0
               /\ calls \notin DOMAIN held
               /\ \A i \in Placeholders : values[i] # Unbound
               /\ \A i \in Nodes(graph) :
                    StillNeeded(i) \/ (i < idx /\ IsLeaf(graph, i)) => values[i] # Unbound
  /\ ~InCall => \A i \in Nodes(graph) : values[i] = Unbound
  /\ \A i \in Nodes(graph) : ~IsLeaf(graph, i) /\ values[i] # Unbound => values[i] > 0
  /\ \A i \in Nodes(graph) : values[i] # Unbound => values[i] \in DOMAIN mem
  /\ \A i \in Nodes(graph) : mem[-i] = Leaf(i)
  /\ pc = "release" => idx <= graph.n /\ ~IsLeaf(graph, idx)

RunInv ==
  /\ PlanInv
  /\ pc \in {"liveness", "slots", "idle", "exec", "release"}
  /\ RunTypeOK
  /\ BindingInv
  /\ NoAliasing
  /\ ValuesMatchRun
  /\ ResultsStable

-----------------------------------------------------------------------------
(* What a sequence over S holds is in S.                                   *)
LEMMA ElementIsTyped ==
  ASSUME NEW S, NEW s \in Seq(S), NEW p \in DOMAIN s
  PROVE  s[p] \in S
OBVIOUS

(* A sequence over S is one over every larger set.                         *)
LEMMA SeqIsMonotone ==
  ASSUME NEW S, NEW T, S \subseteq T, NEW s \in Seq(S)
  PROVE  s \in Seq(T)
OBVIOUS

(* What every reader of the invariant needs of the graph and the types.    *)
LEMMA RunFacts ==
  ASSUME RunInv
  PROVE  /\ WellFormed(graph) /\ idx \in 1..(graph.n + 1)
         /\ graph.n \in Nat /\ graph.n >= 1 /\ Nodes(graph) = 1..graph.n
         /\ graph.out \in 1..graph.n
         /\ Allocated \in Nat
         /\ \A i \in Nodes(graph) : values[i] \in Int /\ lastUse[i] \in Nat
<1>1. PlanInv
  BY DEF RunInv
<1>2. Allocated \in Nat
  BY DEF RunInv, RunTypeOK, Allocated
<1>3. \A i \in Nodes(graph) : lastUse[i] \in Nat
  BY <1>1, BaseFacts DEF PlanInv, PlanTypeOK
<1>4. QED
  BY <1>1, <1>2, <1>3, BaseFacts DEF RunInv, RunTypeOK

(* Storages are the caller's (negative) and the pool's (positive); what    *)
(* the free list, the caller and the running call refer to is one of them. *)
LEMMA StorageFacts ==
  ASSUME RunInv
  PROVE  /\ \A s \in DOMAIN mem : s # 0 /\ s \in -graph.n..Allocated
         /\ \A i \in Nodes(graph) : -i \in DOMAIN mem /\ -i < 0 /\ mem[-i] = Leaf(i)
         /\ \A b \in 1..Allocated : b \in DOMAIN mem
         /\ \A p \in DOMAIN freeList : freeList[p] \in 1..Allocated
         /\ \A c \in DOMAIN held : held[c].loc \in DOMAIN mem
<1>1. /\ graph.n \in Nat /\ Nodes(graph) = 1..graph.n /\ Allocated \in Nat
      /\ DOMAIN mem = {-i : i \in Nodes(graph)} \cup 1..Allocated
  BY RunFacts DEF RunInv, RunTypeOK
<1>2. \A s \in DOMAIN mem : s # 0 /\ s \in -graph.n..Allocated
  BY <1>1
<1>3. \A p \in DOMAIN freeList : freeList[p] \in 1..Allocated
  BY ElementIsTyped DEF RunInv, RunTypeOK
<1>4. \A i \in Nodes(graph) : -i \in DOMAIN mem /\ -i < 0
  BY <1>1
<1>5. \A b \in 1..Allocated : b \in DOMAIN mem
  BY <1>1
<1>6. \A i \in Nodes(graph) : mem[-i] = Leaf(i)
  BY DEF RunInv, BindingInv
<1>7. \A c \in DOMAIN held : held[c].loc \in DOMAIN mem
  BY DEF RunInv, RunTypeOK
<1>8. QED
  BY <1>2, <1>3, <1>4, <1>5, <1>6, <1>7

(* Every operand of the node being computed is bound when it is read.      *)
LEMMA OperandsBound ==
  ASSUME RunInv, pc = "exec", idx <= graph.n, NEW i \in Operands(graph, idx)
  PROVE  i \in Nodes(graph) /\ i < idx /\ values[i] # Unbound
<1>1. idx \in Nodes(graph) /\ WellFormed(graph) /\ PlanInv
  BY RunFacts DEF RunInv
<1>2. i \in Nodes(graph) /\ i < idx
  BY <1>1, OperandsPrecede
<1>3. idx <= lastUse[i]
  BY <1>1, <1>2 DEF PlanInv, LivenessInv
<1>4. StillNeeded(i)
  BY <1>2, <1>3, RunFacts DEF StillNeeded, RunInv, PlanInv, PlanTypeOK
<1>5. QED
  BY <1>2, <1>4 DEF RunInv, BindingInv, InCall

(* Before the plan is made nothing is bound, pooled or held.               *)
LEMMA InitRunInv == Init => RunInv
<1> SUFFICES ASSUME Init PROVE RunInv
  OBVIOUS
<1>1. PlanInv /\ pc = "liveness"
  BY PlanInitInv DEF Init, PlanInit
<1>2. /\ graph.n \in Nat /\ graph.n >= 1 /\ Nodes(graph) = 1..graph.n
  BY <1>1, BaseFacts
<1>3. RunTypeOK
  BY <1>2, MaxCallsAssumption DEF Init, RunTypeOK, NothingBound, Unbound, Allocated, NoValue
<1>4. BindingInv
  BY <1>1, <1>2 DEF Init, BindingInv, NothingBound, InCall, Unbound
<1>5. NoAliasing /\ ValuesMatchRun /\ ResultsStable
  BY <1>2 DEF Init, NoAliasing, ValuesMatchRun, ResultsStable, NothingBound
<1>6. QED
  BY <1>1, <1>3, <1>4, <1>5 DEF RunInv

(* The planner touches none of the executor's variables.                   *)
LEMMA PlanStepInv == RunInv /\ Plan => RunInv'
<1> SUFFICES ASSUME RunInv, Plan PROVE RunInv'
  OBVIOUS
<1>1. /\ graph' = graph /\ pc \in {"liveness", "slots"}
      /\ pc' \in {"liveness", "slots", "idle"}
  BY DEF Plan, PlanNext, MarkOperands, PinOutput, SkipLeaf, ReuseSlot, OpenSlot, PlanDone
<1>2. PlanInv'
  BY PlanNextInv DEF RunInv, Plan
<1>3. UNCHANGED runVars
  BY DEF Plan
<1>4. RunTypeOK' /\ NoAliasing' /\ ValuesMatchRun' /\ ResultsStable'
  BY <1>1, <1>3 DEF RunInv, runVars, RunTypeOK, NoAliasing, ValuesMatchRun, ResultsStable,
                    Allocated
<1>5. BindingInv'
  BY <1>1, <1>3 DEF RunInv, runVars, BindingInv, InCall
<1>6. QED
  BY <1>1, <1>2, <1>4, <1>5 DEF RunInv

(* A call binds placeholders to the caller's own tensors or to results it  *)
(* holds: both are intact, and neither is in the free list.                *)
LEMMA BeginInv == RunInv /\ Begin => RunInv'
<1> SUFFICES ASSUME RunInv, Begin PROVE RunInv'
  OBVIOUS
<1>1. PICK choice \in [Placeholders -> {0} \cup {c \in DOMAIN held : ~held[c].rg}] :
         /\ values' = [i \in Nodes(graph) |->
                         IF i \notin Placeholders THEN Unbound
                         ELSE IF choice[i] = 0 THEN -i ELSE held[choice[i]].loc]
         /\ args' = [i \in Placeholders |->
                       IF choice[i] = 0 THEN Leaf(i) ELSE held[choice[i]].val]
  BY DEF Begin
<1>2. /\ pc = "idle" /\ pc' = "exec" /\ idx' = 1 /\ calls' = calls + 1 /\ calls < MaxCalls
      /\ UNCHANGED <<graph, lastUse, slotOf, numSlots, busyUntil, freedAt,
                     opnd, bufBytes, freeList, mem, held, saved>>
  BY DEF Begin
<1>3. PlanInv'
  BY <1>2, RunFacts, PlanFrame DEF RunInv, Planned
<1>4. \A i \in Nodes(graph) :
         /\ i \notin Placeholders => values'[i] = Unbound
         /\ i \in Placeholders =>
              \/ values'[i] = -i /\ args'[i] = Leaf(i)
              \/ \E c \in DOMAIN held : values'[i] = held[c].loc /\ args'[i] = held[c].val
  BY <1>1 DEF Placeholders
<1>5. \A c \in DOMAIN held : held[c].loc \in DOMAIN mem /\ held[c].loc # 0
                            /\ held[c].loc \in -graph.n..Allocated
  BY StorageFacts
<1>6. \A i \in Nodes(graph) :
         values'[i] # Unbound => values'[i] \in DOMAIN mem /\ values'[i] \in -graph.n..Allocated
  BY <1>4, <1>5, StorageFacts
<1>7. RunTypeOK'
  <2>1. values' \in [Nodes(graph) -> -graph.n..Allocated]
    BY <1>1, <1>6, RunFacts DEF Unbound
  <2>2. DOMAIN ref' = Nodes(graph)
    BY DEF Begin
  <2>3. QED
    BY <1>2, <2>1, <2>2, MaxCallsAssumption DEF RunInv, RunTypeOK, Allocated
<1>8. BindingInv'
  <2>1. calls' > 0 /\ calls' \notin DOMAIN held
    BY <1>2 DEF RunInv, RunTypeOK
  <2>2. \A i \in Placeholders : values'[i] # Unbound
    BY <1>4, <1>5, RunFacts DEF Placeholders, Unbound
  <2>3. \A i \in Nodes(graph) : ~IsLeaf(graph, i) => values'[i] = Unbound
    BY <1>4 DEF IsLeaf, Placeholders
  <2>4. \A i \in Nodes(graph) : ~(i < idx') /\ ~StillNeeded(i)'
    BY <1>2, RunFacts DEF StillNeeded
  <2>5. QED
    BY <1>2, <1>6, <2>1, <2>2, <2>3, <2>4 DEF BindingInv, RunInv, InCall, Placeholders
<1>9. NoAliasing'
  <2>1. \A i \in Nodes(graph) : ~IsLeaf(graph, i) => values'[i] = Unbound
    BY <1>4 DEF IsLeaf, Placeholders
  <2>2. \A p \in DOMAIN freeList, i \in Nodes(graph) : values'[i] # freeList[p]
    <3> SUFFICES ASSUME NEW p \in DOMAIN freeList, NEW i \in Nodes(graph)
                 PROVE  values'[i] # freeList[p]
      OBVIOUS
    <3>1. freeList[p] \in 1..Allocated /\ -i < 0
      BY StorageFacts
    <3>2. values'[i] = Unbound \/ values'[i] = -i
          \/ \E c \in DOMAIN held : values'[i] = held[c].loc
      BY <1>4
    <3>3. \A c \in DOMAIN held : held[c].loc # freeList[p]
      BY DEF RunInv, NoAliasing
    <3>4. QED
      BY <3>1, <3>2, <3>3, RunFacts DEF Unbound
  <2>3. QED
    BY <1>2, <2>1, <2>2 DEF NoAliasing, RunInv
<1>10. ValuesMatchRun'
  BY <1>2, <1>4 DEF Begin, ValuesMatchRun, RunInv, BindingInv, ResultsStable, Placeholders
<1>11. ResultsStable'
  BY <1>2 DEF ResultsStable, RunInv
<1>12. QED
  BY <1>2, <1>3, <1>7, <1>8, <1>9, <1>10, <1>11 DEF RunInv

(* A constant binds to a parameter, never to a buffer of the pool.         *)
LEMMA BindLeafInv == RunInv /\ BindLeaf => RunInv'
<1> SUFFICES ASSUME RunInv, BindLeaf PROVE RunInv'
  OBVIOUS
<1>1. /\ pc = "exec" /\ pc' = pc /\ idx <= graph.n /\ idx' = idx + 1 /\ IsLeaf(graph, idx)
      /\ UNCHANGED <<graph, lastUse, slotOf, numSlots, busyUntil, freedAt,
                     calls, opnd, bufBytes, freeList, mem, held, saved, args>>
  BY DEF BindLeaf
<1>2. idx \in Nodes(graph) /\ idx' \in 1..(graph.n + 1)
  BY <1>1, RunFacts
<1>3. PlanInv'
  BY <1>1, <1>2, PlanFrame DEF RunInv, Planned
<1>4. \A i \in Nodes(graph) :
         \/ values'[i] = values[i] /\ ref'[i] = ref[i]
         \/ i = idx /\ values'[i] = -i /\ ref'[i] = Leaf(i)
  BY <1>2, RunFacts DEF BindLeaf, RunInv, RunTypeOK
<1>5. values'[idx] # Unbound
  <2>1. CASE graph.op[idx] = "constant"
    BY <1>2, <2>1, StorageFacts DEF BindLeaf, RunInv, RunTypeOK, Unbound
  <2>2. CASE graph.op[idx] # "constant"
    BY <1>1, <1>2, <2>2 DEF BindLeaf, IsLeaf, Placeholders, RunInv, BindingInv, InCall
  <2>3. QED
    BY <2>1, <2>2
<1>6. RunTypeOK'
  <2>1. values' \in [Nodes(graph) -> -graph.n..Allocated]
    <3>1. -idx \in -graph.n..Allocated
      BY <1>2, StorageFacts
    <3>2. QED
      BY <1>2, <3>1 DEF BindLeaf, RunInv, RunTypeOK
  <2>2. DOMAIN ref' = Nodes(graph)
    BY DEF BindLeaf, RunInv, RunTypeOK
  <2>3. QED
    BY <1>1, <2>1, <2>2 DEF RunInv, RunTypeOK, Allocated
<1>7. BindingInv'
  <2>1. \A i \in Placeholders : values'[i] # Unbound
    BY <1>1, <1>4, <1>5 DEF RunInv, BindingInv, InCall, Placeholders
  <2>2. \A i \in Nodes(graph) :
           StillNeeded(i)' \/ (i < idx' /\ IsLeaf(graph, i)) => values'[i] # Unbound
    <3> SUFFICES ASSUME NEW i \in Nodes(graph),
                        StillNeeded(i)' \/ (i < idx' /\ IsLeaf(graph, i))
                 PROVE  values'[i] # Unbound
      OBVIOUS
    <3>1. CASE i = idx
      BY <1>5, <3>1
    <3>2. CASE i # idx
      <4>1. StillNeeded(i) \/ (i < idx /\ IsLeaf(graph, i))
        BY <1>1, <1>2, <3>2, RunFacts, SMTT(30) DEF StillNeeded, RunInv, PlanInv, PlanTypeOK
      <4>2. values[i] # Unbound
        BY <1>1, <4>1 DEF RunInv, BindingInv, InCall
      <4>3. QED
        BY <1>4, <3>2, <4>2
    <3>3. QED
      BY <3>1, <3>2
  <2>3. \A i \in Nodes(graph) : ~IsLeaf(graph, i) => values'[i] = values[i]
    BY <1>1, <1>4
  <2>4. \A i \in Nodes(graph) : values'[i] # Unbound => values'[i] \in DOMAIN mem
    BY <1>4, StorageFacts DEF RunInv, BindingInv
  <2>5. QED
    BY <1>1, <2>1, <2>2, <2>3, <2>4 DEF RunInv, BindingInv, InCall, Placeholders
<1>8. NoAliasing'
  <2>1. \A p \in DOMAIN freeList, i \in Nodes(graph) : values'[i] # freeList[p]
    <3> SUFFICES ASSUME NEW p \in DOMAIN freeList, NEW i \in Nodes(graph)
                 PROVE  values'[i] # freeList[p]
      OBVIOUS
    <3>1. freeList[p] \in 1..Allocated /\ -i < 0
      BY StorageFacts
    <3>2. values[i] # freeList[p]
      BY DEF RunInv, NoAliasing
    <3>3. QED
      BY <1>4, <3>1, <3>2, RunFacts
  <2>2. \A i \in Nodes(graph) : ~IsLeaf(graph, i) => values'[i] = values[i]
    BY <1>1, <1>4
  <2>3. \A i, j \in Nodes(graph) :
           ~IsLeaf(graph, i) /\ values'[i] # Unbound /\ j # i => values'[j] # values'[i]
    <3> SUFFICES ASSUME NEW i \in Nodes(graph), NEW j \in Nodes(graph),
                        ~IsLeaf(graph, i), values'[i] # Unbound, j # i
                 PROVE  values'[j] # values'[i]
      OBVIOUS
    <3>1. values'[i] = values[i] /\ values[i] > 0 /\ values[j] # values[i]
      BY <2>2 DEF RunInv, BindingInv, NoAliasing
    <3>2. -j < 0 /\ values[i] \in Int
      BY StorageFacts, RunFacts
    <3>3. QED
      BY <1>4, <3>1, <3>2, RunFacts
  <2>4. QED
    BY <1>1, <2>1, <2>2, <2>3 DEF RunInv, NoAliasing
<1>9. ValuesMatchRun'
  BY <1>1, <1>4, StorageFacts DEF RunInv, ValuesMatchRun
<1>10. ResultsStable'
  BY <1>1 DEF ResultsStable, RunInv
<1>11. QED
  BY <1>1, <1>3, <1>6, <1>7, <1>8, <1>9, <1>10 DEF RunInv

(* Erasing an element from a sequence without duplicates leaves the other  *)
(* ones, each once.                                                        *)
LEMMA RemoveAtFacts ==
  ASSUME NEW S, NEW s \in Seq(S), NEW p \in DOMAIN s,
         \A q, r \in DOMAIN s : q # r => s[q] # s[r]
  PROVE  LET t == RemoveAt(s, p)
         IN  /\ t \in Seq(S)
             /\ \A q, r \in DOMAIN t : q # r => t[q] # t[r]
             /\ \A q \in DOMAIN t : t[q] # s[p] /\ \E r \in DOMAIN s : t[q] = s[r]
<1> DEFINE t == RemoveAt(s, p)
<1>1. p \in 1..Len(s) /\ Len(s) \in Nat /\ DOMAIN s = 1..Len(s)
  OBVIOUS
<1>2. t \in Seq(S) /\ Len(t) = Len(s) - 1 /\ DOMAIN t = 1..(Len(s) - 1)
  <2>1. /\ SubSeq(s, 1, p - 1) \in Seq(S) /\ Len(SubSeq(s, 1, p - 1)) = p - 1
        /\ SubSeq(s, p + 1, Len(s)) \in Seq(S) /\ Len(SubSeq(s, p + 1, Len(s))) = Len(s) - p
    BY ONLY <1>1, s \in Seq(S)
  <2>2. t \in Seq(S) /\ Len(t) = (p - 1) + (Len(s) - p)
    BY ONLY <2>1 DEF t, RemoveAt
  <2>3. \A a, b \in Nat : a - 1 + (b - a) = b - 1
    OBVIOUS
  <2>4. Len(t) = Len(s) - 1
    BY <2>2, <2>3, <1>1
  <2> QED BY ONLY <2>2, <2>4
<1>3. \A q \in DOMAIN t : t[q] = IF q < p THEN s[q] ELSE s[q + 1]
  <2> DEFINE before == SubSeq(s, 1, p - 1)
             after  == SubSeq(s, p + 1, Len(s))
  <2>1. /\ before \in Seq(S) /\ Len(before) = p - 1
        /\ \A q \in 1..(p - 1) : before[q] = s[q]
    BY <1>1
  <2>2. /\ after \in Seq(S) /\ Len(after) = Len(s) - p
        /\ \A q \in 1..(Len(s) - p) : after[q] = s[p + q]
    BY <1>1, SMTT(30)
  <2>3. t = before \o after
    BY DEF RemoveAt
  <2> HIDE DEF before, after, t
  <2>4. \A q \in 1..(p - 1) : t[q] = before[q]
    BY <1>1, <2>1, <2>2, <2>3
  <2>5. \A q \in p..(Len(s) - 1) : t[q] = after[q - (p - 1)] /\ q - (p - 1) \in 1..(Len(s) - p)
    BY <1>1, <2>1, <2>2, <2>3, SMTT(60)
  <2>6. \A q \in p..(Len(s) - 1) : t[q] = s[q + 1]
    <3> SUFFICES ASSUME NEW q \in p..(Len(s) - 1) PROVE t[q] = s[q + 1]
      OBVIOUS
    <3>1. p + (q - (p - 1)) = q + 1
      BY <1>1
    <3>2. QED
      BY <2>2, <2>5, <3>1
  <2>7. QED
    <3>1. \A q \in 1..(Len(s) - 1) : q < p => q \in 1..(p - 1)
      BY <1>1
    <3>2. \A q \in 1..(Len(s) - 1) : ~(q < p) => q \in p..(Len(s) - 1)
      BY <1>1
    <3>3. DOMAIN t = 1..(Len(s) - 1)
      BY <1>2
    <3>4. QED
      BY <2>1, <2>4, <2>6, <3>1, <3>2, <3>3
<1> HIDE DEF t
<1>4. \A q \in DOMAIN t : \E r \in DOMAIN s : r # p /\ t[q] = s[r]
  <2> SUFFICES ASSUME NEW q \in DOMAIN t PROVE \E r \in DOMAIN s : r # p /\ t[q] = s[r]
    OBVIOUS
  <2>1. CASE q < p
    BY <1>1, <1>2, <1>3, <2>1
  <2>2. CASE ~(q < p)
    BY <1>1, <1>2, <1>3, <2>2
  <2>3. QED
    BY <2>1, <2>2
<1>5. \A q, r \in DOMAIN t : q # r => t[q] # t[r]
  <2> SUFFICES ASSUME NEW q \in DOMAIN t, NEW r \in DOMAIN t, q < r
               PROVE  t[q] # t[r]
    BY <1>2
  <2>1. CASE r < p
    BY <1>1, <1>2, <1>3, <2>1
  <2>2. CASE q < p /\ ~(r < p)
    BY <1>1, <1>2, <1>3, <2>2
  <2>3. CASE ~(q < p)
    BY <1>1, <1>2, <1>3, <2>3
  <2>4. QED
    BY <2>1, <2>2, <2>3
<1>6. QED
  BY <1>2, <1>4, <1>5 DEF t

(* The kernel computes from the operands' buffers what run() computes from *)
(* the operands' values, provided the output buffer is none of them.       *)
LEMMA WriteFacts ==
  ASSUME RunInv, Computing, NEW b \in Nat \ {0}, WriteResult(b),
         \A i \in Nodes(graph) : values[i] # b
  PROVE  /\ idx \in Nodes(graph) /\ pc = "exec" /\ pc' = "release" /\ opnd' \in Nat \ {0}
         /\ DOMAIN mem' = DOMAIN mem \cup {b}
         /\ \A s \in DOMAIN mem : s # b => mem'[s] = mem[s]
         /\ mem'[b] = ref'[idx]
         /\ DOMAIN values' = Nodes(graph) /\ DOMAIN ref' = Nodes(graph)
         /\ values'[idx] = b
         /\ \A i \in Nodes(graph) \ {idx} : values'[i] = values[i] /\ ref'[i] = ref[i]
<1> DEFINE operands == graph.ins[idx]
           zeroed   == [s \in DOMAIN mem \cup {b} |-> IF s = b THEN Zeroed ELSE mem[s]]
           read     == [k \in DOMAIN operands |-> zeroed[values[operands[k]]]]
           expected == [k \in DOMAIN operands |-> ref[operands[k]]]
<1>1. idx \in Nodes(graph) /\ pc = "exec" /\ pc' = "release" /\ opnd' \in Nat \ {0}
  BY RunFacts DEF Computing, WriteResult
<1>2. DOMAIN values = Nodes(graph) /\ DOMAIN ref = Nodes(graph)
  BY DEF RunInv, RunTypeOK
<1>3. /\ mem' = [zeroed EXCEPT ![b] = Apply(idx, read)]
      /\ values' = [values EXCEPT ![idx] = b]
      /\ ref' = [ref EXCEPT ![idx] = Apply(idx, expected)]
  BY DEF WriteResult
<1>4. \A k \in DOMAIN operands : zeroed[values[operands[k]]] = ref[operands[k]]
  <2> SUFFICES ASSUME NEW k \in DOMAIN operands
               PROVE  zeroed[values[operands[k]]] = ref[operands[k]]
    OBVIOUS
  <2> DEFINE i == operands[k]
  <2>1. i \in Operands(graph, idx)
    BY DEF Operands
  <2>2. i \in Nodes(graph) /\ values[i] # Unbound
    BY <2>1, OperandsBound DEF Computing
  <2>3. values[i] \in DOMAIN mem /\ mem[values[i]] = ref[i] /\ values[i] # b
    BY <2>2 DEF RunInv, BindingInv, ValuesMatchRun
  <2>4. QED
    BY <2>3
<1>5. read = expected
  BY <1>4
<1>6. mem'[b] = Apply(idx, expected)
  BY <1>3, <1>5
<1>7. ref'[idx] = Apply(idx, expected)
  BY <1>1, <1>2, <1>3
<1>8. DOMAIN mem' = DOMAIN mem \cup {b} /\ \A s \in DOMAIN mem : s # b => mem'[s] = mem[s]
  BY <1>3
<1>9. /\ DOMAIN values' = Nodes(graph) /\ DOMAIN ref' = Nodes(graph)
      /\ values'[idx] = b
      /\ \A i \in Nodes(graph) \ {idx} : values'[i] = values[i] /\ ref'[i] = ref[i]
  BY <1>1, <1>2, <1>3
<1>10. QED
  BY <1>1, <1>6, <1>7, <1>8, <1>9

(* A node is computed into a buffer b that nothing refers to: the pool     *)
(* makes sure it is listed as free no longer, and lists nothing new.       *)
TakesBuffer(b) ==
  /\ WriteResult(b)
  /\ UNCHANGED <<graph, idx, lastUse, slotOf, numSlots, busyUntil, freedAt,
                 calls, held, args>>
  /\ \A i \in Nodes(graph) : values[i] # b
  /\ \A c \in DOMAIN held : held[c].loc # b
  /\ bufBytes' \in Seq(Nat)
  /\ 1..Allocated' = 1..Allocated \cup {b}
  /\ Allocated' \in Nat /\ Allocated <= Allocated'
  /\ freeList' \in Seq(1..Allocated')
  /\ \A p, q \in DOMAIN freeList' : p # q => freeList'[p] # freeList'[q]
  /\ \A p \in DOMAIN freeList' :
        freeList'[p] # b /\ \E q \in DOMAIN freeList : freeList'[p] = freeList[q]

(* Computing a node into such a buffer disturbs nobody.                    *)
LEMMA WriteInv ==
  ASSUME RunInv, Computing, NEW b \in Nat \ {0}, TakesBuffer(b)
  PROVE  RunInv'
<1>1. /\ idx \in Nodes(graph) /\ pc = "exec" /\ pc' = "release" /\ opnd' \in Nat \ {0}
      /\ DOMAIN mem' = DOMAIN mem \cup {b}
      /\ \A s \in DOMAIN mem : s # b => mem'[s] = mem[s]
      /\ mem'[b] = ref'[idx]
      /\ DOMAIN values' = Nodes(graph) /\ DOMAIN ref' = Nodes(graph)
      /\ values'[idx] = b
      /\ \A i \in Nodes(graph) \ {idx} : values'[i] = values[i] /\ ref'[i] = ref[i]
  BY WriteFacts DEF TakesBuffer
<1>2. UNCHANGED <<graph, idx, lastUse, slotOf, numSlots, busyUntil, freedAt,
                  calls, held, args>>
  BY DEF TakesBuffer
<1>3. PlanInv'
  BY <1>1, <1>2, RunFacts, PlanFrame DEF RunInv, Planned
<1>4. RunTypeOK'
  <2>1. \A i \in Nodes(graph) : values'[i] \in -graph.n..Allocated'
    <3>1. b \in 1..Allocated' /\ Allocated \in Nat /\ Allocated' \in Nat
          /\ Allocated <= Allocated'
      BY RunFacts DEF TakesBuffer
    <3>2. \A i \in Nodes(graph) : values[i] \in -graph.n..Allocated
      BY DEF RunInv, RunTypeOK
    <3>3. graph.n \in Nat
      BY RunFacts
    <3>4. b \in -graph.n..Allocated'
      BY <3>1, <3>3
    <3>5. \A s \in -graph.n..Allocated : s \in -graph.n..Allocated'
      BY <3>1, <3>3
    <3>6. QED
      BY <1>1, <3>2, <3>4, <3>5
  <2>2. values' \in [Nodes(graph) -> -graph.n..Allocated']
    <3>1. values' = [i \in Nodes(graph) |-> values'[i]]
      BY <1>1 DEF TakesBuffer, WriteResult, RunInv, RunTypeOK
    <3>2. QED
      BY <2>1, <3>1
  <2>3. DOMAIN mem' = {-i : i \in Nodes(graph)} \cup 1..Allocated'
    BY <1>1 DEF RunInv, RunTypeOK, TakesBuffer
  <2>4. \A c \in DOMAIN held : held[c].loc \in DOMAIN mem'
    BY <1>1, StorageFacts
  <2>5. calls \in 0..MaxCalls /\ DOMAIN held \subseteq 1..calls
    BY DEF RunInv, RunTypeOK
  <2>6. bufBytes' \in Seq(Nat) /\ freeList' \in Seq(1..Allocated')
    BY DEF TakesBuffer
  <2>7. QED
    BY <1>1, <1>2, <2>2, <2>3, <2>4, <2>5, <2>6 DEF RunTypeOK
<1>5. BindingInv'
  <2>1. pc' = "release" /\ idx <= graph.n /\ ~IsLeaf(graph, idx)
    BY <1>1 DEF Computing
  <2>2. calls > 0 /\ calls \notin DOMAIN held /\ \A i \in Placeholders : values'[i] # Unbound
    <3>1. calls > 0 /\ calls \notin DOMAIN held /\ \A i \in Placeholders : values[i] # Unbound
      BY <1>1 DEF RunInv, BindingInv, InCall
    <3>2. QED
      BY <1>1, <3>1 DEF Placeholders, Unbound
  <2>3. \A i \in Nodes(graph) :
           StillNeeded(i)' \/ (i < idx /\ IsLeaf(graph, i)) => values'[i] # Unbound
    <3> SUFFICES ASSUME NEW i \in Nodes(graph),
                        StillNeeded(i)' \/ (i < idx /\ IsLeaf(graph, i))
                 PROVE  values'[i] # Unbound
      OBVIOUS
    <3>1. CASE i = idx
      BY <1>1, <3>1 DEF Unbound
    <3>2. CASE i # idx
      <4>1. StillNeeded(i) \/ (i < idx /\ IsLeaf(graph, i))
        BY <1>1, <1>2, <3>2, RunFacts DEF StillNeeded
      <4>2. values[i] # Unbound
        BY <1>1, <4>1 DEF RunInv, BindingInv, InCall
      <4>3. QED
        BY <1>1, <3>2, <4>2
    <3>3. QED
      BY <3>1, <3>2
  <2>4. \A i \in Nodes(graph) :
           /\ ~IsLeaf(graph, i) /\ values'[i] # Unbound => values'[i] > 0
           /\ values'[i] # Unbound => values'[i] \in DOMAIN mem'
    BY <1>1 DEF RunInv, BindingInv
  <2>5. \A i \in Nodes(graph) : mem'[-i] = Leaf(i)
    BY <1>1, StorageFacts
  <2>6. QED
    BY <1>2, <2>1, <2>2, <2>3, <2>4, <2>5 DEF BindingInv, InCall, Placeholders
<1>6. NoAliasing'
  <2>1. /\ \A p, q \in DOMAIN freeList' : p # q => freeList'[p] # freeList'[q]
        /\ \A p \in DOMAIN freeList' :
              freeList'[p] # b /\ \E q \in DOMAIN freeList : freeList'[p] = freeList[q]
    BY DEF TakesBuffer
  <2>2. \A p \in DOMAIN freeList' :
          /\ \A i \in Nodes(graph) : values'[i] # freeList'[p]
          /\ \A c \in DOMAIN held : held[c].loc # freeList'[p]
    BY <1>1, <2>1 DEF RunInv, NoAliasing
  <2>3. \A i \in Nodes(graph) : values[i] # b
    BY DEF TakesBuffer
  <2>4. \A i, j \in Nodes(graph) :
          ~IsLeaf(graph, i) /\ values'[i] # Unbound /\ j # i => values'[j] # values'[i]
    BY <1>1, <2>3 DEF RunInv, NoAliasing
  <2>5. \A i \in Nodes(graph), c \in DOMAIN held :
          ~IsLeaf(graph, i) /\ values'[i] # Unbound => held[c].loc # values'[i]
    BY <1>1 DEF RunInv, NoAliasing, TakesBuffer
  <2>6. QED
    BY <1>2, <2>1, <2>2, <2>4, <2>5 DEF NoAliasing
<1>7. ValuesMatchRun'
  <2>1. \A i \in Nodes(graph) \ {idx} : values[i] # Unbound =>
           values[i] \in DOMAIN mem /\ values[i] # b /\ mem[values[i]] = ref[i]
    BY DEF RunInv, BindingInv, ValuesMatchRun, TakesBuffer
  <2>2. QED
    BY <1>1, <1>2, <2>1 DEF ValuesMatchRun
<1>8. ResultsStable'
  <2>1. \A c \in DOMAIN held :
           held[c].loc \in DOMAIN mem /\ held[c].loc # b /\ mem[held[c].loc] = held[c].val
    BY StorageFacts DEF RunInv, ResultsStable, TakesBuffer
  <2>2. QED
    BY <1>1, <1>2, <2>1 DEF ResultsStable
<1>9. QED
  BY <1>1, <1>3, <1>4, <1>5, <1>6, <1>7, <1>8 DEF RunInv

(* A buffer of the free list is such a buffer once it is erased from it.   *)
LEMMA ComputeInFreeBufferInv == RunInv /\ ComputeInFreeBuffer => RunInv'
<1> SUFFICES ASSUME RunInv, ComputeInFreeBuffer PROVE RunInv'
  OBVIOUS
<1>1. PICK p \in DOMAIN freeList :
         freeList' = RemoveAt(freeList, p) /\ WriteResult(freeList[p])
  BY DEF ComputeInFreeBuffer
<1> DEFINE b == freeList[p]
<1>2. Computing /\ UNCHANGED <<graph, idx, lastUse, slotOf, numSlots, busyUntil, freedAt,
                               calls, bufBytes, held, args>>
  BY DEF ComputeInFreeBuffer
<1>3. b \in Nat \ {0} /\ b \in 1..Allocated
  BY StorageFacts, RunFacts
<1>4. /\ \A i \in Nodes(graph) : values[i] # b
      /\ \A c \in DOMAIN held : held[c].loc # b
      /\ \A q, r \in DOMAIN freeList : q # r => freeList[q] # freeList[r]
  BY DEF RunInv, NoAliasing
<1>5. /\ Allocated' = Allocated /\ Allocated' \in Nat
      /\ bufBytes' \in Seq(Nat) /\ freeList \in Seq(1..Allocated)
  BY <1>2, RunFacts DEF RunInv, RunTypeOK, Allocated
<1>6. /\ freeList' \in Seq(1..Allocated)
      /\ \A q, r \in DOMAIN freeList' : q # r => freeList'[q] # freeList'[r]
      /\ \A q \in DOMAIN freeList' :
            freeList'[q] # b /\ \E r \in DOMAIN freeList : freeList'[q] = freeList[r]
  BY <1>1, <1>4, <1>5, RemoveAtFacts
<1>7. QED
  <2>1. 1..Allocated' = 1..Allocated \cup {b} /\ Allocated <= Allocated'
    BY <1>3, <1>5
  <2>2. TakesBuffer(b)
    BY <1>1, <1>2, <1>4, <1>5, <1>6, <2>1 DEF TakesBuffer
  <2>3. QED
    BY <1>2, <1>3, <2>2, WriteInv

(* So is a buffer just malloc'ed.                                          *)
LEMMA ComputeInNewBufferInv == RunInv /\ ComputeInNewBuffer => RunInv'
<1> SUFFICES ASSUME RunInv, ComputeInNewBuffer PROVE RunInv'
  OBVIOUS
<1> DEFINE b == Allocated + 1
<1>1. /\ Computing /\ bufBytes' = Append(bufBytes, graph.bytes[idx]) /\ WriteResult(b)
      /\ UNCHANGED <<graph, idx, lastUse, slotOf, numSlots, busyUntil, freedAt,
                     calls, freeList, held, args>>
  BY DEF ComputeInNewBuffer
<1>2. b \in Nat \ {0} /\ Allocated \in Nat
  BY RunFacts
<1>3. graph.bytes[idx] \in Nat
  BY <1>1, RunFacts DEF Computing, WellFormed
<1>4. bufBytes' \in Seq(Nat) /\ Allocated' = Allocated + 1
  BY <1>1, <1>3 DEF RunInv, RunTypeOK, Allocated
<1>5. /\ 1..Allocated' = 1..Allocated \cup {b}
      /\ Allocated' \in Nat /\ Allocated <= Allocated' /\ b \in 1..Allocated'
  BY <1>2, <1>4
<1>6. /\ \A i \in Nodes(graph) : values[i] # b
      /\ \A c \in DOMAIN held : held[c].loc # b
      /\ \A p \in DOMAIN freeList : freeList[p] # b
  <2>1. b \notin DOMAIN mem /\ b # Unbound
    BY <1>2, StorageFacts, RunFacts DEF Unbound
  <2>2. \A i \in Nodes(graph) : values[i] # b
    BY <2>1 DEF RunInv, BindingInv
  <2>3. QED
    BY <2>1, <2>2, StorageFacts
<1>7. freeList' \in Seq(1..Allocated')
  <2>1. freeList \in Seq(1..Allocated)
    BY DEF RunInv, RunTypeOK
  <2>2. QED
    BY <1>1, <1>5, <2>1, SeqIsMonotone
<1>8. /\ \A p, q \in DOMAIN freeList' : p # q => freeList'[p] # freeList'[q]
      /\ \A p \in DOMAIN freeList' :
            freeList'[p] # b /\ \E q \in DOMAIN freeList : freeList'[p] = freeList[q]
  BY <1>1, <1>6 DEF RunInv, NoAliasing
<1>9. QED
  <2>1. TakesBuffer(b)
    BY <1>1, <1>4, <1>5, <1>6, <1>7, <1>8 DEF TakesBuffer
  <2>2. QED
    BY <1>1, <1>2, <2>1, WriteInv

(* Appending a new element to a sequence without duplicates.               *)
LEMMA AppendFacts ==
  ASSUME NEW S, NEW s \in Seq(S), NEW x \in S,
         \A q, r \in DOMAIN s : q # r => s[q] # s[r],
         \A q \in DOMAIN s : s[q] # x
  PROVE  LET t == Append(s, x)
         IN  /\ t \in Seq(S)
             /\ \A q, r \in DOMAIN t : q # r => t[q] # t[r]
             /\ \A q \in DOMAIN t : t[q] = x \/ \E r \in DOMAIN s : t[q] = s[r]
<1> DEFINE t == Append(s, x)
<1>1. /\ t \in Seq(S) /\ Len(s) \in Nat /\ DOMAIN s = 1..Len(s)
      /\ DOMAIN t = 1..(Len(s) + 1) /\ t[Len(s) + 1] = x
      /\ \A q \in 1..Len(s) : t[q] = s[q]
  OBVIOUS
<1> HIDE DEF t
<1>2. \A q \in DOMAIN t : q = Len(s) + 1 \/ q \in DOMAIN s
  BY <1>1
<1>3. QED
  BY <1>1, <1>2 DEF t

(* An operand is released at its last use only, so nothing later needs it, *)
(* and it is unbound at once, so nothing releases it again.                *)
LEMMA ReleaseOperandInv == RunInv /\ ReleaseOperand => RunInv'
<1> SUFFICES ASSUME RunInv, ReleaseOperand PROVE RunInv'
  OBVIOUS
<1> DEFINE inp == graph.ins[idx][opnd]
           b   == values[inp]
<1>1. /\ pc = "release" /\ pc' = pc /\ opnd <= Len(graph.ins[idx]) /\ opnd' = opnd + 1
      /\ UNCHANGED <<graph, idx, lastUse, slotOf, numSlots, busyUntil, freedAt,
                     calls, bufBytes, mem, held, ref, saved, args>>
  BY DEF ReleaseOperand
<1>2. PlanInv'
  BY <1>1, RunFacts, PlanFrame DEF RunInv, Planned
<1>3. idx \in Nodes(graph) /\ ~IsLeaf(graph, idx) /\ opnd' \in Nat \ {0}
  BY <1>1, RunFacts DEF RunInv, BindingInv, RunTypeOK
<1>4. CASE UNCHANGED <<freeList, values>>
  <2>1. RunTypeOK' /\ NoAliasing' /\ ValuesMatchRun' /\ ResultsStable'
    BY <1>1, <1>3, <1>4 DEF RunInv, RunTypeOK, NoAliasing, ValuesMatchRun, ResultsStable,
                          Allocated
  <2>2. BindingInv'
    BY <1>1, <1>4 DEF RunInv, BindingInv, InCall, StillNeeded, Placeholders
  <2>3. QED
    BY <1>1, <1>2, <2>1, <2>2 DEF RunInv
<1>5. CASE /\ ~IsLeaf(graph, inp) /\ lastUse[inp] = idx /\ b # Unbound
           /\ freeList' = Append(freeList, b)
           /\ values' = [values EXCEPT ![inp] = Unbound]
  <2>1. inp \in Nodes(graph) /\ DOMAIN values = Nodes(graph)
    <3>1. opnd \in DOMAIN graph.ins[idx]
      <4>1. graph.ins[idx] \in Seq(Nat)
        BY <1>3, RunFacts DEF WellFormed
      <4>2. opnd \in Nat \ {0}
        BY DEF RunInv, RunTypeOK
      <4>3. QED
        BY <1>1, <4>1, <4>2
    <3>2. inp \in Operands(graph, idx)
      BY <3>1 DEF Operands
    <3>3. QED
      BY <1>3, <3>2, RunFacts, OperandsPrecede DEF RunInv, RunTypeOK
  <2>2. b \in 1..Allocated
    BY <1>5, <2>1, RunFacts, SMTT(30) DEF RunInv, BindingInv, RunTypeOK
  <2>3. /\ values'[inp] = Unbound
        /\ \A i \in Nodes(graph) \ {inp} : values'[i] = values[i]
    BY <1>5, <2>1
  <2>4. \A i \in Nodes(graph) : values'[i] # Unbound => i # inp /\ values'[i] = values[i]
    BY <2>3
  <2>5. /\ freeList \in Seq(1..Allocated)
        /\ \A q, r \in DOMAIN freeList : q # r => freeList[q] # freeList[r]
        /\ \A q \in DOMAIN freeList : freeList[q] # b
    BY <2>1 DEF RunInv, RunTypeOK, NoAliasing
  <2>6. /\ freeList' \in Seq(1..Allocated)
        /\ \A q, r \in DOMAIN freeList' : q # r => freeList'[q] # freeList'[r]
        /\ \A q \in DOMAIN freeList' :
              freeList'[q] = b \/ \E r \in DOMAIN freeList : freeList'[q] = freeList[r]
    BY <1>5, <2>2, <2>5, AppendFacts
  <2>7. RunTypeOK'
    <3>1. Unbound \in -graph.n..Allocated /\ values \in [Nodes(graph) -> -graph.n..Allocated]
      BY RunFacts DEF RunInv, RunTypeOK, Unbound
    <3>2. values' \in [Nodes(graph) -> -graph.n..Allocated]
      BY <1>5, <3>1
    <3>3. QED
      BY <1>1, <1>3, <2>6, <3>2 DEF RunInv, RunTypeOK, Allocated
  <2>8. BindingInv'
    <3>1. \A i \in Placeholders : values'[i] # Unbound
      <4>1. \A i \in Placeholders : values[i] # Unbound /\ i \in Nodes(graph) \ {inp}
        BY <1>1, <1>5 DEF RunInv, BindingInv, InCall, Placeholders, IsLeaf
      <4>2. QED
        BY <2>3, <4>1
    <3>2. \A i \in Nodes(graph) :
             StillNeeded(i)' \/ (i < idx /\ IsLeaf(graph, i)) => values'[i] # Unbound
      <4> SUFFICES ASSUME NEW i \in Nodes(graph),
                          StillNeeded(i)' \/ (i < idx /\ IsLeaf(graph, i))
                   PROVE  values'[i] # Unbound
        OBVIOUS
      <4>1. i # inp
        BY <1>1, <1>5, <2>1, RunFacts, SMTT(30) DEF StillNeeded
      <4>2. StillNeeded(i) \/ (i < idx /\ IsLeaf(graph, i))
        BY <1>1 DEF StillNeeded
      <4>3. values[i] # Unbound
        BY <1>1, <4>2 DEF RunInv, BindingInv, InCall
      <4>4. QED
        BY <2>3, <4>1, <4>3
    <3>3. \A i \in Nodes(graph) :
             /\ ~IsLeaf(graph, i) /\ values'[i] # Unbound => values'[i] > 0
             /\ values'[i] # Unbound => values'[i] \in DOMAIN mem
      BY <2>4 DEF RunInv, BindingInv
    <3>4. calls > 0 /\ calls \notin DOMAIN held /\ idx <= graph.n
          /\ \A i \in Nodes(graph) : mem[-i] = Leaf(i)
      BY <1>1 DEF RunInv, BindingInv, InCall
    <3>5. QED
      BY <1>1, <1>3, <3>1, <3>2, <3>3, <3>4 DEF BindingInv, InCall, Placeholders
  <2>9. NoAliasing'
    <3>1. \A i \in Nodes(graph) : values'[i] # b
      <4>1. \A i \in Nodes(graph) \ {inp} : values[i] # b
        BY <1>5, <2>1 DEF RunInv, NoAliasing
      <4>2. QED
        BY <1>5, <2>3, <4>1
    <3>2. \A c \in DOMAIN held : held[c].loc # b
      BY <1>5, <2>1 DEF RunInv, NoAliasing
    <3>3. \A r \in DOMAIN freeList, i \in Nodes(graph) : values'[i] # freeList[r]
      <4>1. \A r \in DOMAIN freeList : freeList[r] # Unbound
        BY StorageFacts, RunFacts DEF Unbound
      <4>2. QED
        BY <2>4, <4>1 DEF RunInv, NoAliasing
    <3>4. \A q \in DOMAIN freeList' :
            /\ \A i \in Nodes(graph) : values'[i] # freeList'[q]
            /\ \A c \in DOMAIN held : held[c].loc # freeList'[q]
      BY <2>6, <3>1, <3>2, <3>3 DEF RunInv, NoAliasing
    <3>5. \A i \in Nodes(graph) : ~IsLeaf(graph, i) /\ values'[i] # Unbound =>
            /\ \A j \in Nodes(graph) \ {i} : values'[j] # values'[i]
            /\ \A c \in DOMAIN held : held[c].loc # values'[i]
      <4>1. \A i \in Nodes(graph) : ~IsLeaf(graph, i) /\ values[i] # Unbound =>
              /\ \A j \in Nodes(graph) \ {i} : values[j] # values[i]
              /\ \A c \in DOMAIN held : held[c].loc # values[i]
        BY DEF RunInv, NoAliasing
      <4>2. QED
        BY <2>3, <2>4, <4>1
    <3>6. QED
      BY <1>1, <2>6, <3>4, <3>5 DEF NoAliasing
  <2>10. ValuesMatchRun'
    BY <1>1, <2>4 DEF RunInv, ValuesMatchRun
  <2>11. ResultsStable'
    BY <1>1 DEF RunInv, ResultsStable
  <2>12. QED
    BY <1>1, <1>2, <2>7, <2>8, <2>9, <2>10, <2>11 DEF RunInv
<1>6. QED
  BY <1>4, <1>5 DEF ReleaseOperand

(* What is still needed at the next node was needed after this one.        *)
LEMMA NextNodeInv == RunInv /\ NextNode => RunInv'
<1> SUFFICES ASSUME RunInv, NextNode PROVE RunInv'
  OBVIOUS
<1>1. /\ pc = "release" /\ pc' = "exec" /\ idx' = idx + 1
      /\ UNCHANGED <<graph, lastUse, slotOf, numSlots, busyUntil, freedAt,
                     calls, values, opnd, bufBytes, freeList, mem, held, ref, saved, args>>
  BY DEF NextNode
<1>2. idx \in Nodes(graph) /\ ~IsLeaf(graph, idx) /\ idx' \in 1..(graph.n + 1)
  BY <1>1, RunFacts DEF RunInv, BindingInv
<1>3. PlanInv'
  BY <1>1, <1>2, PlanFrame DEF RunInv, Planned
<1>4. RunTypeOK' /\ NoAliasing' /\ ValuesMatchRun' /\ ResultsStable'
  BY <1>1 DEF RunInv, RunTypeOK, NoAliasing, ValuesMatchRun, ResultsStable, Allocated
<1>5. BindingInv'
  <2>1. \A i \in Nodes(graph) :
           StillNeeded(i)' \/ (i < idx' /\ IsLeaf(graph, i)) => values[i] # Unbound
    <3> SUFFICES ASSUME NEW i \in Nodes(graph),
                        StillNeeded(i)' \/ (i < idx' /\ IsLeaf(graph, i))
                 PROVE  values[i] # Unbound
      OBVIOUS
    <3>1. StillNeeded(i) \/ (i < idx /\ IsLeaf(graph, i))
      BY <1>1, <1>2, RunFacts DEF StillNeeded
    <3>2. QED
      BY <1>1, <3>1 DEF RunInv, BindingInv, InCall
  <2>2. QED
    BY <1>1, <2>1 DEF RunInv, BindingInv, InCall, Placeholders
<1>6. QED
  BY <1>1, <1>3, <1>4, <1>5 DEF RunInv

(* Leaving a call is safe when what the caller then holds is intact and    *)
(* not in the free list.                                                   *)
LEMMA LeaveInv ==
  ASSUME RunInv, InCall, LeaveCall, DOMAIN held' \subseteq 1..calls,
         \A c \in DOMAIN held' :
            /\ held'[c].loc \in DOMAIN mem
            /\ mem[held'[c].loc] = held'[c].val
            /\ \A p \in DOMAIN freeList : held'[c].loc # freeList[p]
  PROVE  RunInv'
<1>1. /\ pc' = "idle" /\ values' = NothingBound /\ ref' = NoValue
      /\ UNCHANGED <<graph, idx, lastUse, slotOf, numSlots, busyUntil, freedAt,
                     calls, opnd, bufBytes, freeList, mem>>
  BY DEF LeaveCall
<1>2. PlanInv'
  BY <1>1, RunFacts, PlanFrame DEF RunInv, Planned, InCall
<1>3. \A i \in Nodes(graph) : values'[i] = Unbound
  BY <1>1 DEF NothingBound
<1>4. RunTypeOK'
  <2>1. values' \in [Nodes(graph) -> -graph.n..Allocated] /\ DOMAIN ref' = Nodes(graph)
    BY <1>1, RunFacts DEF NothingBound, Unbound, NoValue
  <2>2. QED
    BY <1>1, <2>1 DEF RunInv, RunTypeOK, Allocated
<1>5. BindingInv'
  BY <1>1, <1>3, StorageFacts DEF BindingInv, InCall
<1>6. NoAliasing'
  <2>1. \A p \in DOMAIN freeList : freeList[p] # Unbound
    BY StorageFacts, RunFacts DEF Unbound
  <2>2. QED
    BY <1>1, <1>3, <2>1 DEF RunInv, NoAliasing
<1>7. ValuesMatchRun' /\ ResultsStable'
  BY <1>1, <1>3 DEF ValuesMatchRun, ResultsStable
<1>8. QED
  BY <1>1, <1>2, <1>4, <1>5, <1>6, <1>7 DEF RunInv

(* The output is pinned past the last node, so it is bound at the end.     *)
LEMMA ReturnInv == RunInv /\ Return => RunInv'
<1> SUFFICES ASSUME RunInv, Return PROVE RunInv'
  OBVIOUS
<1> DEFINE loc == values[graph.out]
<1>1. pc = "exec" /\ idx > graph.n /\ LeaveCall /\ InCall
  BY DEF Return, InCall
<1>2. /\ DOMAIN held' = DOMAIN held \cup {calls}
      /\ held'[calls].loc = loc /\ held'[calls].val = ref[graph.out]
      /\ \A c \in DOMAIN held : c # calls => held'[c] = held[c]
  BY DEF Return, HandOver
<1>3. graph.out \in Nodes(graph) /\ loc # Unbound
  <2>1. lastUse[graph.out] = graph.n + 1
    BY <1>1 DEF RunInv, PlanInv, LivenessInv
  <2>2. StillNeeded(graph.out)
    BY <1>1, <2>1, RunFacts DEF StillNeeded
  <2>3. QED
    BY <1>1, <2>2, RunFacts DEF RunInv, BindingInv
<1>4. /\ loc \in DOMAIN mem /\ mem[loc] = ref[graph.out]
      /\ \A p \in DOMAIN freeList : loc # freeList[p]
  BY <1>3 DEF RunInv, BindingInv, ValuesMatchRun, NoAliasing
<1>5. \A c \in DOMAIN held :
         /\ held[c].loc \in DOMAIN mem
         /\ mem[held[c].loc] = held[c].val
         /\ \A p \in DOMAIN freeList : held[c].loc # freeList[p]
  BY DEF RunInv, RunTypeOK, ResultsStable, NoAliasing
<1>6. DOMAIN held' \subseteq 1..calls
  <2>1. calls \in Nat /\ calls > 0 /\ DOMAIN held \subseteq 1..calls
    BY <1>1, MaxCallsAssumption DEF RunInv, RunTypeOK, BindingInv
  <2>2. QED
    BY <1>2, <2>1
<1>7. QED
  <2>1. \A c \in DOMAIN held' :
            /\ held'[c].loc \in DOMAIN mem
            /\ mem[held'[c].loc] = held'[c].val
            /\ \A p \in DOMAIN freeList : held'[c].loc # freeList[p]
    BY <1>2, <1>4, <1>5
  <2>2. QED
    BY <1>1, <1>6, <2>1, LeaveInv

(* A call that raises leaves the caller what it held before.               *)
LEMMA RaiseInv == RunInv /\ Raise => RunInv'
<1> SUFFICES ASSUME RunInv, Raise PROVE RunInv'
  OBVIOUS
<1>1. held' = held /\ LeaveCall /\ InCall
  BY DEF Raise, Computing, InCall
<1>2. DOMAIN held \subseteq 1..calls
  BY DEF RunInv, RunTypeOK
<1>3. \A c \in DOMAIN held :
         /\ held[c].loc \in DOMAIN mem
         /\ mem[held[c].loc] = held[c].val
         /\ \A p \in DOMAIN freeList : held[c].loc # freeList[p]
  BY DEF RunInv, RunTypeOK, ResultsStable, NoAliasing
<1>4. QED
  BY <1>1, <1>2, <1>3, LeaveInv

(* A result given back is nobody else's, so the pool may have it.          *)
LEMMA GiveBackInv == ASSUME RunInv, NEW c, GiveBack(c) PROVE RunInv'
<1> DEFINE b == held[c].loc
<1>1. /\ pc = "idle" /\ c \in DOMAIN held /\ b > 0
      /\ \A d \in DOMAIN held \ {c} : held[d].loc # b
      /\ freeList' = Append(freeList, b)
      /\ UNCHANGED <<planVars, calls, values, opnd, bufBytes, mem, ref, saved, args>>
  BY DEF GiveBack
<1>2. DOMAIN held' = DOMAIN held \ {c} /\ \A d \in DOMAIN held' : held'[d] = held[d]
  BY DEF GiveBack
<1>3. b \in 1..Allocated
  BY <1>1, StorageFacts, RunFacts
<1>4. PlanInv' /\ pc' = pc /\ graph' = graph
  BY <1>1, RunFacts, PlanFrame DEF RunInv, Planned, planVars
<1>5. \A i \in Nodes(graph) : values[i] = Unbound
  BY <1>1 DEF RunInv, BindingInv, InCall
<1>6. /\ freeList \in Seq(1..Allocated)
      /\ \A q, r \in DOMAIN freeList : q # r => freeList[q] # freeList[r]
      /\ \A q \in DOMAIN freeList : freeList[q] # b
  BY <1>1 DEF RunInv, RunTypeOK, NoAliasing
<1>7. /\ freeList' \in Seq(1..Allocated)
      /\ \A q, r \in DOMAIN freeList' : q # r => freeList'[q] # freeList'[r]
      /\ \A q \in DOMAIN freeList' :
            freeList'[q] = b \/ \E r \in DOMAIN freeList : freeList'[q] = freeList[r]
  BY <1>1, <1>3, <1>6, AppendFacts
<1>8. RunTypeOK'
  BY <1>1, <1>2, <1>4, <1>7 DEF RunInv, RunTypeOK, Allocated
<1>9. BindingInv'
  BY <1>1, <1>4, <1>5, StorageFacts DEF BindingInv, InCall
<1>10. NoAliasing'
  <2>1. \A q \in DOMAIN freeList' : freeList'[q] # Unbound
    BY <1>3, <1>7, StorageFacts, RunFacts DEF Unbound
  <2>2. \A q \in DOMAIN freeList', d \in DOMAIN held' : held'[d].loc # freeList'[q]
    BY <1>1, <1>2, <1>7 DEF RunInv, NoAliasing
  <2>3. QED
    BY <1>1, <1>4, <1>5, <1>7, <2>1, <2>2 DEF NoAliasing
<1>11. ValuesMatchRun' /\ ResultsStable'
  BY <1>1, <1>2, <1>4, <1>5 DEF RunInv, ValuesMatchRun, ResultsStable
<1>12. QED
  BY <1>1, <1>4, <1>8, <1>9, <1>10, <1>11 DEF RunInv

(* Letting a result go takes nothing from anyone.                          *)
LEMMA DropInv == ASSUME RunInv, NEW c, Drop(c) PROVE RunInv'
<1>1. /\ pc = "idle" /\ c \in DOMAIN held
      /\ UNCHANGED <<planVars, calls, values, opnd, bufBytes, freeList, mem, ref, saved, args>>
  BY DEF Drop
<1>2. DOMAIN held' = DOMAIN held \ {c} /\ \A d \in DOMAIN held' : held'[d] = held[d]
  BY DEF Drop
<1>3. PlanInv' /\ pc' = pc /\ graph' = graph
  BY <1>1, RunFacts, PlanFrame DEF RunInv, Planned, planVars
<1>4. \A i \in Nodes(graph) : values[i] = Unbound
  BY <1>1 DEF RunInv, BindingInv, InCall
<1>5. RunTypeOK'
  BY <1>1, <1>2, <1>3 DEF RunInv, RunTypeOK, Allocated
<1>6. BindingInv'
  BY <1>1, <1>3, <1>4, StorageFacts DEF BindingInv, InCall
<1>7. NoAliasing' /\ ValuesMatchRun' /\ ResultsStable'
  BY <1>1, <1>2, <1>3, <1>4 DEF RunInv, NoAliasing, ValuesMatchRun, ResultsStable
<1>8. QED
  BY <1>1, <1>3, <1>5, <1>6, <1>7 DEF RunInv

(* The invariant is about the system's variables only.                     *)
LEMMA StutterInv == RunInv /\ UNCHANGED vars => RunInv'
<1> SUFFICES ASSUME RunInv, UNCHANGED vars PROVE RunInv'
  OBVIOUS
<1>1. UNCHANGED <<graph, pc, idx, lastUse, slotOf, numSlots, busyUntil, freedAt>>
      /\ UNCHANGED <<calls, values, opnd, bufBytes, freeList, mem, held, ref, saved, args>>
  BY DEF vars, planVars, runVars
<1>2. PlanInv'
  BY <1>1 DEF RunInv, PlanInv, PlanTypeOK, LivenessInv, SlotsInv, SlotsDisjoint, LiveUntil, Slots
<1>3. RunTypeOK' /\ NoAliasing' /\ ValuesMatchRun' /\ ResultsStable'
  BY <1>1 DEF RunInv, RunTypeOK, NoAliasing, ValuesMatchRun, ResultsStable, Allocated
<1>4. BindingInv'
  BY <1>1 DEF RunInv, BindingInv, InCall, StillNeeded, Placeholders
<1>5. QED
  BY <1>1, <1>2, <1>3, <1>4 DEF RunInv

(* Every step of the system preserves the invariant.                       *)
LEMMA NextInv == RunInv /\ [Next]_vars => RunInv'
<1> SUFFICES ASSUME RunInv, [Next]_vars PROVE RunInv'
  OBVIOUS
<1>1. CASE Plan
  BY <1>1, PlanStepInv
<1>2. CASE Begin
  BY <1>2, BeginInv
<1>3. CASE BindLeaf
  BY <1>3, BindLeafInv
<1>4. CASE ComputeInFreeBuffer
  BY <1>4, ComputeInFreeBufferInv
<1>5. CASE ComputeInNewBuffer
  BY <1>5, ComputeInNewBufferInv
<1>6. CASE ReleaseOperand
  BY <1>6, ReleaseOperandInv
<1>7. CASE NextNode
  BY <1>7, NextNodeInv
<1>8. CASE Return
  BY <1>8, ReturnInv
<1>9. CASE Raise
  BY <1>9, RaiseInv
<1>10. CASE Caller
  BY <1>10, GiveBackInv, DropInv DEF Caller
<1>11. CASE UNCHANGED vars
  BY <1>11, StutterInv
<1>12. QED
  BY <1>1, <1>2, <1>3, <1>4, <1>5, <1>6, <1>7, <1>8, <1>9, <1>10, <1>11 DEF Next, Call

-----------------------------------------------------------------------------
(* Nothing computed stays bound past its last use: what is bound at a node *)
(* of the loop is read there or later, or is never read at all.            *)
NothingLingers ==
  \A i \in Nodes(graph) : ~IsLeaf(graph, i) /\ values[i] # Unbound =>
    /\ pc = "exec" => i < idx /\ (lastUse[i] = 0 \/ lastUse[i] >= idx)
    /\ pc = "release" =>
         /\ i <= idx
         /\ \/ lastUse[i] = 0 \/ lastUse[i] > idx
            \/ /\ lastUse[i] = idx
               /\ \E k \in DOMAIN graph.ins[idx] : k >= opnd /\ graph.ins[idx][k] = i

(* A buffer of the pool that a call reads as an argument or a parameter is *)
(* that of a result the caller still holds.                                *)
ArgumentsAreHeld ==
  \A i \in Nodes(graph) : IsLeaf(graph, i) /\ values[i] > 0 =>
    \E c \in DOMAIN held : held[c].loc = values[i]

(* The pool mallocs for computed nodes only, at their exact size.          *)
BuffersAreOutputs ==
  \A b \in 1..Allocated :
     \E i \in Nodes(graph) : ~IsLeaf(graph, i) /\ bufBytes[b] = graph.bytes[i]

PoolInv ==
  OptimalInv /\ LastUseIsAUse /\ NothingLingers /\ ArgumentsAreHeld /\ BuffersAreOutputs

LEMMA InitPoolInv == Init => PoolInv
<1> SUFFICES ASSUME Init PROVE PoolInv
  OBVIOUS
<1>1. OptimalInv /\ LastUseIsAUse
  BY PlanInitOptimal, PlanInitUses DEF Init
<1>2. \A i \in Nodes(graph) : values[i] = Unbound
  BY DEF Init, NothingBound
<1>3. NothingLingers /\ ArgumentsAreHeld
  BY <1>2 DEF NothingLingers, ArgumentsAreHeld, Unbound
<1>4. BuffersAreOutputs
  BY DEF Init, BuffersAreOutputs, Allocated
<1>5. QED
  BY <1>1, <1>3, <1>4 DEF PoolInv

(* Between calls, and after a step that ends outside a call, nothing is    *)
(* bound, so all that matters is what was malloc'ed.                       *)
LEMMA IdlePool ==
  ASSUME PoolInv, RunInv', ~InCall', UNCHANGED <<graph, bufBytes>>,
         OptimalInv', LastUseIsAUse'
  PROVE  PoolInv'
<1>1. \A i \in Nodes(graph) : values'[i] = Unbound
  BY DEF RunInv, BindingInv
<1>2. NothingLingers' /\ ArgumentsAreHeld'
  BY <1>1 DEF NothingLingers, ArgumentsAreHeld, Unbound
<1>3. BuffersAreOutputs'
  BY DEF PoolInv, BuffersAreOutputs, Allocated
<1>4. QED
  BY <1>2, <1>3 DEF PoolInv

(* Outside plan_memory the plan stays as it is.                            *)
LEMMA PlanKept ==
  ASSUME RunInv, PoolInv, Planned, Planned',
         UNCHANGED <<graph, lastUse, slotOf, numSlots, busyUntil>>
  PROVE  OptimalInv' /\ LastUseIsAUse'
BY OptimalFrame DEF PoolInv, LastUseIsAUse

LEMMA PlanStepPool == RunInv /\ PoolInv /\ Plan => PoolInv'
<1> SUFFICES ASSUME RunInv, PoolInv, Plan PROVE PoolInv'
  OBVIOUS
<1>1. RunInv' /\ OptimalInv' /\ LastUseIsAUse'
  BY PlanStepInv, PlanNextOptimal, PlanNextUses DEF Plan, PoolInv, RunInv
<1>2. ~InCall' /\ UNCHANGED <<graph, bufBytes>>
  BY DEF Plan, PlanNext, MarkOperands, PinOutput, SkipLeaf, ReuseSlot, OpenSlot, PlanDone,
         InCall, runVars
<1>3. QED
  BY <1>1, <1>2, IdlePool

LEMMA BeginPool == RunInv /\ PoolInv /\ Begin => PoolInv'
<1> SUFFICES ASSUME RunInv, PoolInv, Begin PROVE PoolInv'
  OBVIOUS
<1>1. /\ pc = "idle" /\ pc' = "exec" /\ idx' = 1
      /\ UNCHANGED <<graph, lastUse, slotOf, numSlots, busyUntil, bufBytes, held>>
  BY DEF Begin
<1>2. OptimalInv' /\ LastUseIsAUse'
  BY <1>1, PlanKept DEF Planned
<1>3. \A i \in Nodes(graph) :
         \/ values'[i] = Unbound
         \/ IsLeaf(graph, i) /\ values'[i] = -i
         \/ IsLeaf(graph, i) /\ \E c \in DOMAIN held : values'[i] = held[c].loc
  BY DEF Begin, Placeholders, IsLeaf
<1>4. NothingLingers'
  <2>1. \A i \in Nodes(graph) : ~IsLeaf(graph, i) => values'[i] = Unbound
    BY <1>3
  <2>2. QED
    BY <1>1, <2>1 DEF NothingLingers
<1>5. ArgumentsAreHeld'
  BY <1>1, <1>3, RunFacts DEF ArgumentsAreHeld, Unbound
<1>6. BuffersAreOutputs'
  BY <1>1 DEF PoolInv, BuffersAreOutputs, Allocated
<1>7. QED
  BY <1>2, <1>4, <1>5, <1>6 DEF PoolInv

(* A leaf reads nothing, so nobody's last use is passed.                   *)
LEMMA BindLeafPool == RunInv /\ PoolInv /\ BindLeaf => PoolInv'
<1> SUFFICES ASSUME RunInv, PoolInv, BindLeaf PROVE PoolInv'
  OBVIOUS
<1>1. /\ pc = "exec" /\ pc' = "exec" /\ idx' = idx + 1 /\ IsLeaf(graph, idx)
      /\ UNCHANGED <<graph, lastUse, slotOf, numSlots, busyUntil, bufBytes, held>>
      /\ idx \in Nodes(graph) /\ graph.n \in Nat /\ Nodes(graph) = 1..graph.n
  BY RunFacts DEF BindLeaf
<1>2. OptimalInv' /\ LastUseIsAUse'
  BY <1>1, PlanKept DEF Planned
<1>3. \A i \in Nodes(graph) :
         values'[i] = values[i] \/ (i = idx /\ values'[i] = -i)
  BY <1>1 DEF BindLeaf, RunInv, RunTypeOK
<1>4. NothingLingers'
  <2>1. ASSUME NEW i \in Nodes(graph), ~IsLeaf(graph, i), values'[i] # Unbound
        PROVE  i < idx + 1 /\ (lastUse[i] = 0 \/ lastUse[i] >= idx + 1)
    <3>1. values[i] # Unbound
      BY <1>1, <1>3, <2>1
    <3>2. i < idx /\ (lastUse[i] = 0 \/ lastUse[i] >= idx) /\ lastUse[i] \in Nat
      BY <1>1, <2>1, <3>1, RunFacts DEF PoolInv, NothingLingers
    <3>3. Operands(graph, idx) = {}
      BY <1>1, RunFacts DEF WellFormed, Operands
    <3>4. lastUse[i] # idx
      BY <1>1, <3>3 DEF PoolInv, LastUseIsAUse
    <3>5. QED
      BY <1>1, <3>2, <3>4
  <2>2. QED
    BY <1>1, <2>1 DEF NothingLingers
<1>5. ArgumentsAreHeld'
  BY <1>1, <1>3 DEF PoolInv, ArgumentsAreHeld
<1>6. BuffersAreOutputs'
  BY <1>1 DEF PoolInv, BuffersAreOutputs, Allocated
<1>7. QED
  BY <1>2, <1>4, <1>5, <1>6 DEF PoolInv

(* A computed node is bound with its operands still in place.              *)
LEMMA WritePool ==
  ASSUME RunInv, PoolInv, Computing, NEW b, WriteResult(b),
         UNCHANGED <<graph, idx, lastUse, slotOf, numSlots, busyUntil, held>>
  PROVE  OptimalInv' /\ LastUseIsAUse' /\ NothingLingers' /\ ArgumentsAreHeld'
<1>1. /\ pc = "exec" /\ pc' = "release" /\ opnd' = 1 /\ ~IsLeaf(graph, idx)
      /\ idx \in Nodes(graph) /\ graph.n \in Nat /\ Nodes(graph) = 1..graph.n
  <2>1. pc = "exec" /\ pc' = "release" /\ opnd' = 1 /\ ~IsLeaf(graph, idx)
    BY SMTT(30) DEF Computing, WriteResult
  <2>2. QED
    BY <2>1, RunFacts DEF Computing
<1>2. OptimalInv' /\ LastUseIsAUse'
  BY <1>1, PlanKept DEF Planned
<1>3. \A i \in Nodes(graph) : i # idx => values'[i] = values[i]
  BY <1>1 DEF WriteResult, RunInv, RunTypeOK
<1>4. ASSUME NEW i \in Nodes(graph), ~IsLeaf(graph, i), values'[i] # Unbound
      PROVE  /\ i <= idx
             /\ \/ lastUse[i] = 0 \/ lastUse[i] > idx
                \/ /\ lastUse[i] = idx
                   /\ \E k \in DOMAIN graph.ins[idx] : k >= 1 /\ graph.ins[idx][k] = i
  <2>1. CASE i = idx
    BY <1>1, <2>1 DEF RunInv, PlanInv, LivenessInv
  <2>2. CASE i # idx
    <3>1. i < idx /\ (lastUse[i] = 0 \/ lastUse[i] >= idx) /\ lastUse[i] \in Nat
      BY <1>1, <1>3, <1>4, <2>2, RunFacts DEF PoolInv, NothingLingers
    <3>2. ASSUME lastUse[i] = idx
          PROVE  \E k \in DOMAIN graph.ins[idx] : k >= 1 /\ graph.ins[idx][k] = i
      <4>1. i \in Operands(graph, idx)
        BY <1>1, <3>2 DEF PoolInv, LastUseIsAUse
      <4>2. graph.ins[idx] \in Seq(Nat)
        BY <1>1, RunFacts DEF WellFormed
      <4>3. \A k \in DOMAIN graph.ins[idx] : k >= 1
        BY <4>2
      <4>4. QED
        BY <4>1, <4>3 DEF Operands
    <3>3. QED
      BY <1>1, <3>1, <3>2
  <2>3. QED
    BY <2>1, <2>2
<1>5. NothingLingers'
  BY <1>1, <1>4 DEF NothingLingers
<1>6. ArgumentsAreHeld'
  BY <1>1, <1>3 DEF PoolInv, ArgumentsAreHeld
<1>7. QED
  BY <1>2, <1>5, <1>6

LEMMA ComputePool ==
  RunInv /\ PoolInv /\ (ComputeInFreeBuffer \/ ComputeInNewBuffer) => PoolInv'
<1> SUFFICES ASSUME RunInv, PoolInv, ComputeInFreeBuffer \/ ComputeInNewBuffer
             PROVE  PoolInv'
  OBVIOUS
<1>1. /\ Computing /\ \E b : WriteResult(b)
      /\ UNCHANGED <<graph, idx, lastUse, slotOf, numSlots, busyUntil, held>>
  BY DEF ComputeInFreeBuffer, ComputeInNewBuffer
<1>2. OptimalInv' /\ LastUseIsAUse' /\ NothingLingers' /\ ArgumentsAreHeld'
  BY <1>1, WritePool
<1>3. BuffersAreOutputs'
  <2>1. CASE bufBytes' = bufBytes
    BY <1>1, <2>1 DEF PoolInv, BuffersAreOutputs, Allocated
  <2>2. CASE bufBytes' = Append(bufBytes, graph.bytes[idx])
    <3>1. bufBytes \in Seq(Nat) /\ graph.bytes[idx] \in Nat /\ idx \in Nodes(graph)
      BY <1>1, RunFacts DEF RunInv, RunTypeOK, Computing, WellFormed
    <3>2. /\ Len(bufBytes') = Len(bufBytes) + 1 /\ Len(bufBytes) \in Nat
          /\ \A b \in 1..Len(bufBytes) : bufBytes'[b] = bufBytes[b]
          /\ bufBytes'[Len(bufBytes) + 1] = graph.bytes[idx]
      BY <2>2, <3>1
    <3>3. ASSUME NEW b \in 1..(Len(bufBytes) + 1)
          PROVE  \E i \in Nodes(graph) : ~IsLeaf(graph, i) /\ bufBytes'[b] = graph.bytes[i]
      <4>1. CASE b = Len(bufBytes) + 1
        BY <1>1, <3>1, <3>2, <4>1 DEF Computing
      <4>2. CASE b \in 1..Len(bufBytes)
        BY <3>2, <4>2 DEF PoolInv, BuffersAreOutputs, Allocated
      <4>3. QED
        BY <3>2, <4>1, <4>2
    <3>4. QED
      BY <1>1, <3>2, <3>3 DEF BuffersAreOutputs, Allocated
  <2>3. QED
    BY <2>1, <2>2 DEF ComputeInFreeBuffer, ComputeInNewBuffer
<1>4. QED
  BY <1>2, <1>3 DEF PoolInv

(* The operand at the loop's position is unbound if it was read last here. *)
LEMMA ReleaseOperandPool == RunInv /\ PoolInv /\ ReleaseOperand => PoolInv'
<1> SUFFICES ASSUME RunInv, PoolInv, ReleaseOperand PROVE PoolInv'
  OBVIOUS
<1> DEFINE inp == graph.ins[idx][opnd]
<1>1. /\ pc = "release" /\ pc' = "release" /\ idx' = idx /\ opnd' = opnd + 1
      /\ UNCHANGED <<graph, lastUse, slotOf, numSlots, busyUntil, bufBytes, held>>
      /\ opnd \in Nat /\ DOMAIN values = Nodes(graph)
  BY DEF ReleaseOperand, RunInv, RunTypeOK
<1>2. OptimalInv' /\ LastUseIsAUse'
  BY <1>1, PlanKept DEF Planned
<1>3. \A i \in Nodes(graph) :
         /\ values'[i] # Unbound => values'[i] = values[i]
         /\ ~IsLeaf(graph, i) /\ lastUse[i] = idx /\ i = inp => values'[i] = Unbound
         /\ IsLeaf(graph, i) => values'[i] = values[i]
  BY <1>1 DEF ReleaseOperand
<1>4. graph.ins[idx] \in Seq(Nat)
  BY <1>1, RunFacts DEF WellFormed, RunInv, BindingInv
<1>5. NothingLingers'
  <2>1. ASSUME NEW i \in Nodes(graph), ~IsLeaf(graph, i), values'[i] # Unbound,
               NEW k \in DOMAIN graph.ins[idx], k >= opnd, graph.ins[idx][k] = i,
               lastUse[i] = idx
        PROVE  k >= opnd + 1
    <3>1. k # opnd
      BY <1>3, <2>1
    <3>2. k \in Nat
      BY <1>4
    <3>3. QED
      BY <1>1, <2>1, <3>1, <3>2
  <2>2. QED
    BY <1>1, <1>3, <2>1 DEF PoolInv, NothingLingers
<1>6. ArgumentsAreHeld'
  BY <1>1, <1>3 DEF PoolInv, ArgumentsAreHeld
<1>7. BuffersAreOutputs'
  BY <1>1 DEF PoolInv, BuffersAreOutputs, Allocated
<1>8. QED
  BY <1>2, <1>5, <1>6, <1>7 DEF PoolInv

(* When the loop over the operands is through, no last use is at this node.*)
LEMMA NextNodePool == RunInv /\ PoolInv /\ NextNode => PoolInv'
<1> SUFFICES ASSUME RunInv, PoolInv, NextNode PROVE PoolInv'
  OBVIOUS
<1>1. /\ pc = "release" /\ pc' = "exec" /\ idx' = idx + 1 /\ opnd > Len(graph.ins[idx])
      /\ UNCHANGED <<graph, lastUse, slotOf, numSlots, busyUntil, bufBytes, held, values>>
      /\ opnd \in Nat /\ idx \in Nat
  BY RunFacts DEF NextNode, RunInv, RunTypeOK
<1>2. OptimalInv' /\ LastUseIsAUse'
  BY <1>1, PlanKept DEF Planned
<1>3. \A k \in DOMAIN graph.ins[idx] : ~(k >= opnd)
  <2>1. graph.ins[idx] \in Seq(Nat)
    BY <1>1, RunFacts DEF WellFormed, RunInv, BindingInv
  <2>2. QED
    BY <1>1, <2>1
<1>4. NothingLingers'
  <2>1. ASSUME NEW i \in Nodes(graph), ~IsLeaf(graph, i), values[i] # Unbound
        PROVE  i < idx + 1 /\ (lastUse[i] = 0 \/ lastUse[i] >= idx + 1)
    <3>1. i <= idx /\ (lastUse[i] = 0 \/ lastUse[i] > idx)
      BY <1>1, <1>3, <2>1 DEF PoolInv, NothingLingers
    <3>2. i \in Nat /\ lastUse[i] \in Nat
      BY RunFacts
    <3>3. QED
      BY <1>1, <3>1, <3>2
  <2>2. QED
    BY <1>1, <2>1 DEF NothingLingers
<1>5. ArgumentsAreHeld' /\ BuffersAreOutputs'
  BY <1>1 DEF PoolInv, ArgumentsAreHeld, BuffersAreOutputs, Allocated
<1>6. QED
  BY <1>2, <1>4, <1>5 DEF PoolInv

(* A call that ends, and the caller, leave nothing bound.                  *)
LEMMA OutsidePool ==
  RunInv /\ PoolInv /\ (Return \/ Raise \/ Caller) => PoolInv'
<1> SUFFICES ASSUME RunInv, PoolInv, Return \/ Raise \/ Caller PROVE PoolInv'
  OBVIOUS
<1>1. RunInv'
  BY ReturnInv, RaiseInv, GiveBackInv, DropInv DEF Caller
<1>2. /\ pc' = "idle" /\ pc \in {"exec", "idle"}
      /\ UNCHANGED <<graph, lastUse, slotOf, numSlots, busyUntil, bufBytes>>
  BY DEF Return, Raise, Computing, LeaveCall, Caller, GiveBack, Drop, planVars
<1>3. OptimalInv' /\ LastUseIsAUse' /\ ~InCall'
  BY <1>2, PlanKept DEF Planned, InCall
<1>4. QED
  BY <1>1, <1>2, <1>3, IdlePool

LEMMA NextPoolInv == RunInv /\ PoolInv /\ [Next]_vars => PoolInv'
<1> SUFFICES ASSUME RunInv, PoolInv, [Next]_vars PROVE PoolInv'
  OBVIOUS
<1>1. CASE UNCHANGED vars
  <2>1. UNCHANGED <<graph, pc, idx, lastUse, slotOf, numSlots, busyUntil, values, opnd,
                    bufBytes, held>>
    BY <1>1 DEF vars, planVars, runVars
  <2>2. OptimalInv'
    BY <2>1 DEF PoolInv, OptimalInv, GivenInv, TenantInv, PeakInv, FillsSlots, AliveAt,
                LiveUntil, Slots
  <2>3. QED
    BY <2>1, <2>2 DEF PoolInv, LastUseIsAUse, NothingLingers, ArgumentsAreHeld,
                      BuffersAreOutputs, Allocated
<1>2. QED
  BY <1>1, PlanStepPool, BeginPool, BindLeafPool, ComputePool, ReleaseOperandPool,
     NextNodePool, OutsidePool DEF Next, Call

(* A function takes no more values than it has arguments.                  *)
LEMMA ImageIsNoLarger ==
  ASSUME NEW S, IsFiniteSet(S), NEW f
  PROVE  /\ IsFiniteSet({f[x] : x \in S})
         /\ Cardinality({f[x] : x \in S}) <= Cardinality(S)
<1> DEFINE T == {f[x] : x \in S}
           g == [x \in S |-> f[x]]
<1>1. g \in Surjection(S, T)
  BY DEF Surjection
<1>2. QED
  BY <1>1, FS_Surjection

LEMMA UnionIsNoLarger ==
  ASSUME NEW S, NEW T, IsFiniteSet(S), IsFiniteSet(T)
  PROVE  /\ IsFiniteSet(S \cup T)
         /\ Cardinality(S \cup T) <= Cardinality(S) + Cardinality(T)
<1>1. IsFiniteSet(S \cap T)
  BY FS_Subset
<1>2. Cardinality(S \cap T) \in Nat /\ Cardinality(S) \in Nat /\ Cardinality(T) \in Nat
  BY <1>1, FS_CardinalityType
<1>3. /\ IsFiniteSet(S \cup T)
      /\ Cardinality(S \cup T) = Cardinality(S) + Cardinality(T) - Cardinality(S \cap T)
  BY FS_Union
<1>4. QED
  BY <1>2, <1>3

(* With buffers of one size the pool mallocs only when it has none, and    *)
(* then everything within reach is bound at this node or held.             *)
LEMMA MallocWithinPlan ==
  ASSUME RunInv, PoolInv, ComputeInNewBuffer, Uniform
  PROVE  Cardinality(Reachable') <=
           numSlots + Cardinality(ReadLast(idx)) + Cardinality(DOMAIN held)
                    + Cardinality(DeadNodes)
<1> DEFINE Tenants == (AliveAt(idx) \cup ReadLast(idx)) \cup DeadNodes
           Bound   == {values'[i] : i \in Tenants}
           Kept    == {held[c].loc : c \in DOMAIN held}
<1>1. /\ Computing /\ WriteResult(Allocated + 1)
      /\ UNCHANGED <<graph, idx, held, freeList>>
      /\ \A p \in DOMAIN freeList : ~Fits(freeList[p])
  BY DEF ComputeInNewBuffer
<1>2. /\ pc = "exec" /\ ~IsLeaf(graph, idx) /\ idx \in Nodes(graph)
      /\ graph.n \in Nat /\ Nodes(graph) = 1..graph.n
      /\ graph.bytes \in [Nodes(graph) -> Nat]
      /\ \A i \in Nodes(graph) : i # idx => values'[i] = values[i]
  <2>1. /\ pc = "exec" /\ ~IsLeaf(graph, idx) /\ idx \in Nodes(graph)
        /\ graph.n \in Nat /\ Nodes(graph) = 1..graph.n
    BY <1>1, RunFacts DEF Computing
  <2>2. graph.bytes \in [Nodes(graph) -> Nat]
    BY RunFacts DEF WellFormed
  <2>3. DOMAIN values = Nodes(graph) /\ values' = [values EXCEPT ![idx] = Allocated + 1]
    BY <1>1 DEF WriteResult, RunInv, RunTypeOK
  <2>4. QED
    BY <2>1, <2>2, <2>3
<1>3. DOMAIN freeList = {}
  <2> SUFFICES ASSUME NEW p \in DOMAIN freeList PROVE FALSE
    OBVIOUS
  <2>1. PICK i \in Nodes(graph) :
           ~IsLeaf(graph, i) /\ bufBytes[freeList[p]] = graph.bytes[i]
    BY StorageFacts DEF PoolInv, BuffersAreOutputs
  <2>2. graph.bytes[i] = graph.bytes[idx]
    BY <1>2, <2>1 DEF Uniform
  <2>3. QED
    BY <1>1, <1>2, <2>1, <2>2 DEF Fits
<1>4. ASSUME NEW i \in Nodes(graph), ~IsLeaf(graph, i), values'[i] # Unbound
      PROVE  i \in Tenants
  <2>1. CASE i = idx
    BY <1>2, <2>1 DEF AliveAt
  <2>2. CASE i # idx
    <3>1. i < idx /\ (lastUse[i] = 0 \/ lastUse[i] >= idx) /\ lastUse[i] \in Nat
      BY <1>2, <1>4, <2>2, RunFacts DEF PoolInv, NothingLingers
    <3>2. CASE lastUse[i] = 0
      BY <1>4, <3>2 DEF DeadNodes
    <3>3. CASE lastUse[i] = idx
      <4>1. i \in Operands(graph, idx)
        BY <1>2, <3>3 DEF PoolInv, LastUseIsAUse
      <4>2. QED
        BY <1>4, <3>3, <4>1 DEF ReadLast
    <3>4. CASE lastUse[i] > idx
      <4>1. LiveUntil(i) > idx /\ i \in 1..idx
        BY <1>2, <3>1, <3>4 DEF LiveUntil
      <4>2. QED
        BY <1>4, <4>1 DEF AliveAt
    <3>5. QED
      BY <1>2, <3>1, <3>2, <3>3, <3>4
  <2>3. QED
    BY <2>1, <2>2
<1>5. Reachable' \subseteq Bound \cup Kept
  <2> SUFFICES ASSUME NEW b \in Reachable' PROVE b \in Bound \cup Kept
    OBVIOUS
  <2>1. /\ b > 0
        /\ (\E i \in Nodes(graph) : values'[i] = b) \/ \E c \in DOMAIN held : held[c].loc = b
    BY <1>1, <1>3 DEF Reachable
  <2>2. ASSUME NEW i \in Nodes(graph), values'[i] = b PROVE b \in Bound \cup Kept
    <3>1. CASE IsLeaf(graph, i)
      <4>1. values[i] = b
        BY <1>2, <2>2, <3>1
      <4>2. QED
        BY <2>1, <3>1, <4>1 DEF PoolInv, ArgumentsAreHeld
    <3>2. CASE ~IsLeaf(graph, i)
      BY <1>4, <2>1, <2>2, <3>2 DEF Unbound
    <3>3. QED
      BY <3>1, <3>2
  <2>3. QED
    BY <2>1, <2>2
<1>6. /\ IsFiniteSet(AliveAt(idx)) /\ IsFiniteSet(ReadLast(idx)) /\ IsFiniteSet(DeadNodes)
      /\ IsFiniteSet(DOMAIN held)
  <2>1. AliveAt(idx) \subseteq Nodes(graph) /\ DeadNodes \subseteq Nodes(graph)
    BY <1>2 DEF AliveAt, DeadNodes
  <2>2. ReadLast(idx) \subseteq Nodes(graph)
    BY <1>2, RunFacts, OperandsPrecede DEF ReadLast
  <2>3. IsFiniteSet(Nodes(graph))
    BY <1>2, FS_Interval
  <2>4. calls \in Nat /\ DOMAIN held \subseteq 1..calls
    BY MaxCallsAssumption DEF RunInv, RunTypeOK
  <2>5. IsFiniteSet(1..calls)
    BY <2>4, FS_Interval
  <2>6. QED
    BY <2>1, <2>2, <2>3, <2>4, <2>5, FS_Subset
<1>7. Cardinality(AliveAt(idx)) <= numSlots
  <2>1. SlotsArePeak
    BY OptimalFacts DEF RunInv, PoolInv
  <2>2. QED
    BY <1>2, <2>1 DEF SlotsArePeak, Planned
<1>8. /\ IsFiniteSet(Tenants)
      /\ Cardinality(Tenants) <= numSlots + Cardinality(ReadLast(idx)) + Cardinality(DeadNodes)
  <2> DEFINE Lively == AliveAt(idx) \cup ReadLast(idx)
  <2>1. /\ IsFiniteSet(Lively)
        /\ Cardinality(Lively) <= Cardinality(AliveAt(idx)) + Cardinality(ReadLast(idx))
    BY <1>6, UnionIsNoLarger
  <2>2. /\ IsFiniteSet(Lively \cup DeadNodes)
        /\ Cardinality(Lively \cup DeadNodes) <= Cardinality(Lively) + Cardinality(DeadNodes)
    BY <1>6, <2>1, UnionIsNoLarger
  <2>3. /\ Cardinality(AliveAt(idx)) \in Nat /\ Cardinality(ReadLast(idx)) \in Nat
        /\ Cardinality(DeadNodes) \in Nat /\ Cardinality(Lively) \in Nat
        /\ Cardinality(Tenants) \in Nat /\ numSlots \in Nat
    BY <1>6, <2>1, <2>2, FS_CardinalityType DEF RunInv, PlanInv, PlanTypeOK
  <2>4. Cardinality(Tenants) <= Cardinality(Lively) + Cardinality(DeadNodes)
    BY <2>2
  <2> HIDE DEF Tenants, Lively
  <2>5. Cardinality(Tenants) <= numSlots + Cardinality(ReadLast(idx)) + Cardinality(DeadNodes)
    BY <1>7, <2>1, <2>3, <2>4
  <2>6. IsFiniteSet(Tenants)
    BY <2>2 DEF Tenants, Lively
  <2>7. QED
    BY <2>5, <2>6
<1>9. /\ IsFiniteSet(Bound) /\ Cardinality(Bound) <= Cardinality(Tenants)
      /\ Cardinality(Tenants) \in Nat
  <2> HIDE DEF Tenants
  <2>1. QED
    BY <1>8, ImageIsNoLarger, FS_CardinalityType
<1>10. IsFiniteSet(Kept) /\ Cardinality(Kept) <= Cardinality(DOMAIN held)
  <2> DEFINE loc == [c \in DOMAIN held |-> held[c].loc]
  <2>1. Kept = {loc[c] : c \in DOMAIN held}
    OBVIOUS
  <2> HIDE DEF loc
  <2>2. QED
    BY <1>6, <2>1, ImageIsNoLarger
<1> HIDE DEF Bound, Kept, Tenants
<1>11. /\ IsFiniteSet(Bound \cup Kept)
       /\ Cardinality(Bound \cup Kept) <= Cardinality(Bound) + Cardinality(Kept)
  BY <1>9, <1>10, UnionIsNoLarger
<1>12. IsFiniteSet(Reachable') /\ Cardinality(Reachable') <= Cardinality(Bound \cup Kept)
  BY <1>5, <1>11, FS_Subset
<1>13. /\ Cardinality(Reachable') \in Nat /\ Cardinality(Bound \cup Kept) \in Nat
       /\ Cardinality(Bound) \in Nat /\ Cardinality(Kept) \in Nat
       /\ Cardinality(ReadLast(idx)) \in Nat /\ Cardinality(DeadNodes) \in Nat
       /\ Cardinality(DOMAIN held) \in Nat /\ numSlots \in Nat
  BY <1>6, <1>9, <1>10, <1>11, <1>12, FS_CardinalityType DEF RunInv, PlanInv, PlanTypeOK
<1>14. QED
  BY <1>8, <1>9, <1>10, <1>11, <1>12, <1>13

(* No other step of the system mallocs.                                    *)
LEMMA OnlyComputingMallocs ==
  ASSUME [Next]_vars, bufBytes' # bufBytes
  PROVE  ComputeInNewBuffer
BY DEF Next, Plan, Call, Caller, vars, runVars, Begin, BindLeaf, ComputeInFreeBuffer,
       ReleaseOperand, NextNode, Return, Raise, LeaveCall, GiveBack, Drop

-----------------------------------------------------------------------------
(* What run() computes, node by node                                       *)

RunStep(g, arg, i, value) ==
  CASE g.op[i] = "placeholder" -> arg[i]
    [] g.op[i] = "constant"    -> Leaf(i)
    [] OTHER -> Apply(i, [k \in DOMAIN g.ins[i] |-> value[g.ins[i][k]]])

RunUnfolds(g, arg, n, value) == value = [i \in 1..n |-> RunStep(g, arg, i, value)]

(* A node's value needs those of the nodes before it only.                 *)
LEMMA RunStepLooksBack ==
  ASSUME NEW g, WellFormed(g), NEW arg, NEW i \in Nodes(g), NEW v, NEW w,
         \A j \in 1..(i - 1) : v[j] = w[j]
  PROVE  RunStep(g, arg, i, v) = RunStep(g, arg, i, w)
<1> DEFINE in == g.ins[i]
<1>1. \A k \in DOMAIN in : in[k] \in 1..(i - 1)
  BY DEF WellFormed
<1>2. [k \in DOMAIN in |-> v[in[k]]] = [k \in DOMAIN in |-> w[in[k]]]
  BY <1>1
<1> QED
  BY <1>2 DEF RunStep

LEMMA RunValuesExist ==
  ASSUME NEW g, WellFormed(g), NEW arg
  PROVE  \E value : RunUnfolds(g, arg, g.n, value)
<1> DEFINE S == {n \in 0..g.n : \E value : RunUnfolds(g, arg, n, value)}
<1>1. g.n \in Nat /\ Nodes(g) = 1..g.n
  BY DEF WellFormed, Nodes
<1>2. 0 \in S
  <2>1. RunUnfolds(g, arg, 0, [i \in 1..0 |-> 0])
    BY DEF RunUnfolds
  <2> QED
    BY <1>1, <2>1
<1>3. ASSUME NEW n \in 0..(g.n - 1), n \in S PROVE n + 1 \in S
  <2>1. PICK v : RunUnfolds(g, arg, n, v)
    BY <1>3
  <2> DEFINE w == [i \in 1..(n + 1) |-> IF i \in 1..n THEN v[i] ELSE RunStep(g, arg, n + 1, v)]
  <2>2. n \in Nat /\ n + 1 \in Nodes(g) /\ \A i \in 1..n : i \in Nodes(g)
    BY <1>1
  <2>3. /\ \A i \in 1..n : w[i] = v[i]
        /\ w[n + 1] = RunStep(g, arg, n + 1, v)
        /\ w = [i \in 1..(n + 1) |-> w[i]]
    BY <2>2
  <2> HIDE DEF w
  <2>4. ASSUME NEW i \in 1..(n + 1) PROVE w[i] = RunStep(g, arg, i, w)
    <3>1. i \in Nodes(g) /\ \A j \in 1..(i - 1) : v[j] = w[j]
      <4>1. n \in Nat
        BY <2>2
      <4>2. i \in 1..n \/ i = n + 1
        BY <4>1
      <4>3. \A j \in 1..(i - 1) : j \in 1..n
        BY <4>1
      <4> QED
        BY <2>2, <2>3, <4>2, <4>3
    <3>2. RunStep(g, arg, i, v) = RunStep(g, arg, i, w)
      BY <3>1, RunStepLooksBack
    <3>3. CASE i = n + 1
      BY <2>3, <3>2, <3>3
    <3>4. CASE i # n + 1
      <4>1. i \in 1..n
        BY <2>2, <3>4
      <4>2. v[i] = RunStep(g, arg, i, v)
        BY <2>1, <4>1 DEF RunUnfolds
      <4> QED
        BY <2>3, <3>2, <4>1, <4>2
    <3> QED
      BY <3>3, <3>4
  <2>5. RunUnfolds(g, arg, n + 1, w)
    BY <2>3, <2>4 DEF RunUnfolds
  <2> QED
    BY <1>1, <2>5
<1> HIDE DEF S
<1>4. \A n \in 0..g.n : n \in S
  BY <1>1, <1>2, <1>3, BoundedInduction
<1>5. g.n \in S
  BY <1>1, <1>4
<1> QED
  BY <1>5 DEF S

LEMMA RunValuesUnfold ==
  ASSUME NEW g, WellFormed(g), NEW arg, NEW i \in Nodes(g)
  PROVE  RunValues(g, arg)[i] = RunStep(g, arg, i, RunValues(g, arg))
<1>1. RunValues(g, arg) = CHOOSE value : RunUnfolds(g, arg, g.n, value)
  BY Zenon DEF RunValues, RunUnfolds, RunStep, Nodes
<1>2. RunUnfolds(g, arg, g.n, RunValues(g, arg))
  BY <1>1, RunValuesExist
<1> QED
  BY <1>2 DEF RunUnfolds, Nodes

(* What the running call has bound is what run() has for it.               *)
AgreesWithRun ==
  InCall => \A i \in Nodes(graph) :
              values[i] # Unbound => ref[i] = RunValues(graph, args)[i]

LEMMA PlanAgrees == RunInv /\ AgreesWithRun /\ Plan => AgreesWithRun'
<1> SUFFICES ASSUME RunInv, AgreesWithRun, Plan PROVE AgreesWithRun'
  OBVIOUS
<1>1. pc' \notin {"exec", "release"}
  BY DEF Plan, PlanNext, MarkOperands, PinOutput, SkipLeaf, ReuseSlot, OpenSlot, PlanDone
<1> QED
  BY <1>1 DEF AgreesWithRun, InCall

LEMMA BeginAgrees == RunInv /\ Begin => AgreesWithRun'
<1> SUFFICES ASSUME RunInv, Begin, NEW i \in Nodes(graph), values'[i] # Unbound
             PROVE  ref'[i] = RunValues(graph, args')[i]
  BY DEF AgreesWithRun, Begin
<1>1. i \in Placeholders /\ ref'[i] = args'[i]
  BY DEF Begin
<1>2. RunValues(graph, args')[i] = args'[i]
  BY <1>1, RunFacts, RunValuesUnfold DEF RunStep, Placeholders
<1> QED
  BY <1>1, <1>2

LEMMA BindLeafAgrees == RunInv /\ AgreesWithRun /\ BindLeaf => AgreesWithRun'
<1> SUFFICES ASSUME RunInv, AgreesWithRun, BindLeaf,
                    NEW i \in Nodes(graph), values'[i] # Unbound
             PROVE  ref'[i] = RunValues(graph, args)[i]
  BY DEF AgreesWithRun, BindLeaf
<1>1. idx \in Nodes(graph) /\ DOMAIN values = Nodes(graph) /\ DOMAIN ref = Nodes(graph)
  BY RunFacts DEF BindLeaf, RunInv, RunTypeOK
<1>2. CASE i = idx /\ graph.op[idx] = "constant"
  <2>1. ref'[i] = Leaf(i)
    BY <1>1, <1>2 DEF BindLeaf
  <2>2. RunValues(graph, args)[i] = Leaf(i)
    BY <1>2, RunFacts, RunValuesUnfold DEF RunStep
  <2> QED
    BY <2>1, <2>2
<1>3. CASE ~ (i = idx /\ graph.op[idx] = "constant")
  <2>1. values'[i] = values[i] /\ ref'[i] = ref[i]
    BY <1>1, <1>3 DEF BindLeaf
  <2> QED
    BY <2>1 DEF AgreesWithRun, InCall, BindLeaf
<1> QED
  BY <1>2, <1>3

(* A computed node gets the operator's value of operands that agree.       *)
LEMMA WriteAgrees ==
  ASSUME RunInv, AgreesWithRun, Computing, NEW b, WriteResult(b), UNCHANGED <<graph, idx, args>>
  PROVE  AgreesWithRun'
<1> SUFFICES ASSUME NEW i \in Nodes(graph), values'[i] # Unbound
             PROVE  ref'[i] = RunValues(graph, args)[i]
  BY DEF AgreesWithRun
<1> DEFINE operands == graph.ins[idx]
<1>1. /\ idx \in Nodes(graph) /\ DOMAIN values = Nodes(graph) /\ DOMAIN ref = Nodes(graph)
      /\ pc = "exec" /\ idx <= graph.n /\ WellFormed(graph)
  BY RunFacts DEF Computing, RunInv, RunTypeOK
<1>2. CASE i # idx
  <2>1. values'[i] = values[i] /\ ref'[i] = ref[i]
    BY <1>1, <1>2 DEF WriteResult
  <2> QED
    BY <1>1, <2>1 DEF AgreesWithRun, InCall
<1>3. CASE i = idx
  <2>1. \A k \in DOMAIN operands : ref[operands[k]] = RunValues(graph, args)[operands[k]]
    <3> SUFFICES ASSUME NEW k \in DOMAIN operands
                 PROVE  ref[operands[k]] = RunValues(graph, args)[operands[k]]
      OBVIOUS
    <3>1. operands[k] \in Operands(graph, idx)
      BY DEF Operands
    <3>2. operands[k] \in Nodes(graph) /\ values[operands[k]] # Unbound
      BY <1>1, <3>1, OperandsBound
    <3> QED
      BY <1>1, <3>2 DEF AgreesWithRun, InCall
  <2>2. ref'[idx] = Apply(idx, [k \in DOMAIN operands |-> ref[operands[k]]])
    BY <1>1 DEF WriteResult
  <2>3. graph.op[idx] \notin {"placeholder", "constant"}
    BY DEF Computing, IsLeaf
  <2>4. RunValues(graph, args)[idx] =
          Apply(idx, [k \in DOMAIN operands |-> RunValues(graph, args)[operands[k]]])
    BY <1>1, <2>3, RunValuesUnfold DEF RunStep
  <2> QED
    BY <1>3, <2>1, <2>2, <2>4
<1> QED
  BY <1>2, <1>3

LEMMA NextAgrees == RunInv /\ AgreesWithRun /\ [Next]_vars => AgreesWithRun'
<1> SUFFICES ASSUME RunInv, AgreesWithRun, [Next]_vars PROVE AgreesWithRun'
  OBVIOUS
<1>1. CASE Plan
  BY <1>1, PlanAgrees
<1>2. CASE Begin
  BY <1>2, BeginAgrees
<1>3. CASE BindLeaf
  BY <1>3, BindLeafAgrees
<1>4. CASE ComputeInFreeBuffer \/ ComputeInNewBuffer
  <2>1. /\ Computing /\ UNCHANGED <<graph, idx, args>>
        /\ \E b : WriteResult(b)
    BY <1>4 DEF ComputeInFreeBuffer, ComputeInNewBuffer
  <2> QED
    BY <2>1, WriteAgrees
<1>5. CASE ReleaseOperand
  <2>1. /\ UNCHANGED <<graph, pc, ref, args>> /\ DOMAIN values = Nodes(graph)
        /\ \A i \in Nodes(graph) : values'[i] \in {values[i], Unbound}
    BY <1>5 DEF ReleaseOperand, RunInv, RunTypeOK
  <2> QED
    BY <2>1 DEF AgreesWithRun, InCall
<1>6. CASE NextNode
  BY <1>6 DEF NextNode, AgreesWithRun, InCall
<1>7. CASE Return \/ Raise
  BY <1>7 DEF Return, Raise, LeaveCall, AgreesWithRun, InCall
<1>8. CASE Caller
  BY <1>8 DEF Caller, GiveBack, Drop, planVars, AgreesWithRun, InCall
<1>9. CASE UNCHANGED vars
  BY <1>9 DEF vars, planVars, runVars, AgreesWithRun, InCall
<1> QED
  BY <1>1, <1>2, <1>3, <1>4, <1>5, <1>6, <1>7, <1>8, <1>9 DEF Next, Call

-----------------------------------------------------------------------------
(* Each step as its caller sees it                                         *)

Results == [c \in DOMAIN held |-> mem[held[c].loc]]

SameToTheCaller ==
  /\ UNCHANGED <<graph, calls, args>>
  /\ InCall' = InCall
  /\ Results' = Results

LEMMA InitRefines == Init => Reference!Init
<1> SUFFICES ASSUME Init PROVE Reference!Init
  OBVIOUS
<1>1. WellFormed(graph) /\ pc = "liveness"
  BY GraphsAssumption DEF Init, PlanInit
<1>2. [c \in DOMAIN held |-> mem[held[c].loc]] = << >>
  BY DEF Init
<1> QED
  BY <1>1, <1>2 DEF Init, Reference!Init, Reference!WellFormed, WellFormed, Reference!Nodes, Nodes, Reference!IsLeaf, IsLeaf

(* A write that no held result's storage sees.                             *)
LEMMA WriteIsHidden ==
  ASSUME RunInv, Computing, NEW b, WriteResult(b), held' = held,
         UNCHANGED <<graph, calls, args>>, \A c \in DOMAIN held : held[c].loc # b
  PROVE  SameToTheCaller
<1>1. \A s \in DOMAIN mem : s # b => mem'[s] = mem[s]
  BY DEF WriteResult
<1>2. \A c \in DOMAIN held : held[c].loc \in DOMAIN mem
  BY StorageFacts
<1>3. Results' = Results
  BY <1>1, <1>2 DEF Results
<1> QED
  BY <1>3 DEF SameToTheCaller, InCall, Computing, WriteResult

LEMMA BeginRefines ==
  ASSUME RunInv, Begin
  PROVE  Reference!Begin
<1>1. PICK choice \in [Placeholders -> {0} \cup {c \in DOMAIN held : ~held[c].rg}] :
         args' = [i \in Placeholders |-> IF choice[i] = 0 THEN Leaf(i) ELSE held[choice[i]].val]
  BY DEF Begin
<1>2. \A c \in DOMAIN held : mem[held[c].loc] = held[c].val
  BY DEF RunInv, ResultsStable
<1>3. choice \in [Placeholders -> {0} \cup DOMAIN Results]
  BY DEF Results
<1>4. args' = [i \in Placeholders |-> IF choice[i] = 0 THEN Leaf(i) ELSE Results[choice[i]]]
  BY <1>1, <1>2, <1>3 DEF Results
<1>5. Results' = Results
  BY DEF Begin, Results
<1>6. Reference!Placeholders = Placeholders
  BY DEF Reference!Placeholders, Placeholders, Reference!Nodes, Nodes
<1> QED
  BY <1>3, <1>4, <1>5, <1>6 DEF Begin, Reference!Begin, Results, Reference!Leaf, Leaf

(* What the caller receives is run()'s value for the output.               *)
LEMMA ReturnRefines ==
  ASSUME RunInv, AgreesWithRun, Return
  PROVE  Reference!Return
<1> DEFINE loc == values[graph.out]
<1>1. /\ pc = "exec" /\ pc' = "idle" /\ args' = << >> /\ UNCHANGED <<graph, calls, mem>>
      /\ held' = [c \in DOMAIN held \cup {calls} |-> IF c = calls THEN held'[c] ELSE held[c]]
      /\ held'[calls].loc = loc
  BY DEF Return, LeaveCall, HandOver
<1>2. graph.out \in Nodes(graph) /\ loc # Unbound
  <2>1. lastUse[graph.out] = graph.n + 1 /\ idx > graph.n
    BY DEF RunInv, PlanInv, LivenessInv, Return
  <2>2. StillNeeded(graph.out)
    BY <1>1, <2>1, RunFacts DEF StillNeeded
  <2> QED
    BY <1>1, <2>2, RunFacts DEF RunInv, BindingInv, InCall
<1>3. mem[loc] = RunValues(graph, args)[graph.out]
  BY <1>1, <1>2 DEF RunInv, ValuesMatchRun, AgreesWithRun, InCall
<1>4. Results' = [c \in DOMAIN Results \cup {calls} |->
                    IF c = calls THEN RunValues(graph, args)[graph.out] ELSE Results[c]]
  BY <1>1, <1>3 DEF Results
<1>5. Reference!RunValues(graph, args) = RunValues(graph, args)
  BY Zenon DEF Reference!RunValues, RunValues, Reference!Nodes, Nodes, Reference!Leaf, Leaf,
               Reference!Apply, Apply
<1> QED
  BY <1>1, <1>4, <1>5 DEF Reference!Return, Results

LEMMA ForgetRefines ==
  ASSUME pc = "idle", NEW c \in DOMAIN held, held' = [d \in DOMAIN held \ {c} |-> held[d]],
         UNCHANGED <<graph, pc, calls, args, mem>>
  PROVE  Reference!Forget
<1>1. c \in DOMAIN Results /\ Results' = [d \in DOMAIN Results \ {c} |-> Results[d]]
  BY DEF Results
<1> QED
  BY <1>1 DEF Reference!Forget, Results

LEMMA NextRefines ==
  ASSUME RunInv, AgreesWithRun, [Next]_vars
  PROVE  Reference!Next \/ SameToTheCaller
<1>1. CASE Plan
  <2>1. pc \in {"liveness", "slots"} /\ pc' \notin {"exec", "release"} /\ graph' = graph
    BY <1>1 DEF Plan, PlanNext, MarkOperands, PinOutput, SkipLeaf, ReuseSlot, OpenSlot, PlanDone
  <2> QED
    BY <1>1, <2>1 DEF Plan, runVars, SameToTheCaller, InCall, Results
<1>2. CASE Begin
  BY <1>2, BeginRefines DEF Reference!Next
<1>3. CASE BindLeaf \/ ReleaseOperand \/ NextNode
  BY <1>3 DEF BindLeaf, ReleaseOperand, NextNode, SameToTheCaller, InCall, Results
<1>4. CASE ComputeInFreeBuffer
  BY <1>4, WriteIsHidden DEF ComputeInFreeBuffer, RunInv, NoAliasing
<1>5. CASE ComputeInNewBuffer
  <2>1. \A c \in DOMAIN held : held[c].loc # Allocated + 1
    BY StorageFacts, RunFacts
  <2> QED
    BY <1>5, <2>1, WriteIsHidden DEF ComputeInNewBuffer
<1>6. CASE Return
  BY <1>6, ReturnRefines DEF Reference!Next
<1>7. CASE Raise
  <2>1. Results' = Results
    BY <1>7 DEF Raise, LeaveCall, Results
  <2> QED
    BY <1>7, <2>1 DEF Raise, Computing, LeaveCall, Reference!Next, Reference!Raise, Results
<1>8. CASE Caller
  BY <1>8, ForgetRefines DEF Caller, GiveBack, Drop, planVars, Reference!Next
<1>9. CASE UNCHANGED vars
  BY <1>9 DEF vars, planVars, runVars, SameToTheCaller, InCall, Results
<1> QED
  BY <1>1, <1>2, <1>3, <1>4, <1>5, <1>6, <1>7, <1>8, <1>9 DEF Next, Call

-----------------------------------------------------------------------------
(* The inductive invariant holds in every reachable state.                 *)
THEOREM RunInvariant == Spec => []RunInv
BY InitRunInv, NextInv, PTL DEF Spec

(* Every variable keeps its type: no call ever meets an index, a slot or a *)
(* buffer number that does not exist.                                      *)
THEOREM TypeCorrect == Spec => []TypeOK
<1>1. RunInv => TypeOK
  BY DEF RunInv, PlanInv, TypeOK
<1>2. QED
  BY <1>1, RunInvariant, PTL

(* plan_memory's last_use is what run_planned takes it for: no node is     *)
(* read after it, and the output's lies past every node.                   *)
THEOREM LastUseCorrect == Spec => []LastUseIsLast
<1>1. RunInv => LastUseIsLast
  BY PlanFacts DEF RunInv
<1>2. QED
  BY <1>1, RunInvariant, PTL

(* plan_memory never gives a slot to two nodes that are alive at once.     *)
THEOREM PlanCorrect == Spec => []SlotsDisjoint
<1>1. RunInv => SlotsDisjoint
  BY PlanFacts DEF RunInv
<1>2. QED
  BY <1>1, RunInvariant, PTL

(* The pool never hands out, or lists twice, a buffer that a running call  *)
(* or a caller still uses.                                                 *)
THEOREM PoolNeverAliases == Spec => []NoAliasing
<1>1. RunInv => NoAliasing
  BY DEF RunInv
<1>2. QED
  BY <1>1, RunInvariant, PTL

(* The plan's number of slots is the number of buffers alive at its        *)
(* busiest point: the greedy assignment never opens a slot too many.       *)
THEOREM SlotsAreThePeak == Spec => []SlotsArePeak
<1>1. RunInv /\ PoolInv => SlotsArePeak
  BY OptimalFacts DEF RunInv, PoolInv
<1>2. QED
  BY <1>1, InitRunInv, NextInv, InitPoolInv, NextPoolInv, PTL DEF Spec

(* A pool of buffers of one size grows only as far as the plan needs it    *)
(* to, whatever the caller holds, drops or gives back.                     *)
THEOREM PoolFollowsThePlan == Spec => PoolGrowsWithinPlan
<1>1. RunInv /\ PoolInv /\ [Next]_vars =>
        [bufBytes' # bufBytes /\ Uniform =>
           Cardinality(Reachable') <=
             numSlots + Cardinality(ReadLast(idx)) + Cardinality(DOMAIN held)
                      + Cardinality(DeadNodes)]_vars
  BY MallocWithinPlan, OnlyComputingMallocs
<1>2. QED
  BY <1>1, InitRunInv, NextInv, InitPoolInv, NextPoolInv, PTL DEF Spec, PoolGrowsWithinPlan

(* run_planned computes what run() computes, node by node, although its    *)
(* tensors live in recycled buffers.                                       *)
THEOREM SameValuesAsRun == Spec => []ValuesMatchRun
<1>1. RunInv => ValuesMatchRun
  BY DEF RunInv
<1>2. QED
  BY <1>1, RunInvariant, PTL

(* A result stays what it was while the caller holds it, through any       *)
(* number of further calls, failed ones included.                          *)
THEOREM ResultsSurvive == Spec => []ResultsStable
<1>1. RunInv => ResultsStable
  BY DEF RunInv
<1>2. QED
  BY <1>1, RunInvariant, PTL

(* run_planned implements what a caller may assume of any executor: every  *)
(* call returns the value that run() gives for its arguments or raises,    *)
(* and no later step, of any call or of the pool, changes a result that    *)
(* is held (kir.py:957-963, 988-996).                                      *)
THEOREM PlannedImplementsRun == Spec => RefinesReference
<1>1. Init => AgreesWithRun
  BY DEF Init, PlanInit, AgreesWithRun, InCall
<1>2. RunInv /\ AgreesWithRun /\ [Next]_vars => [Reference!Next]_(Reference!vars)
  BY NextRefines DEF SameToTheCaller, Results, InCall, Reference!vars
<1>3. QED
  BY <1>1, <1>2, InitRefines, InitRunInv, NextInv, NextAgrees, PTL
  DEF Spec, RefinesReference, Reference!Spec
==============================================================================
