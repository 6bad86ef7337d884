--------------------------- MODULE AutogradProofs ----------------------------
(***************************************************************************)
(* The topological sort of backward() is right on every tape, so the walk  *)
(* that follows never has to come back to a tensor; what a call leaves on  *)
(* the parameters is what it owes them: the walk moves the derivatives     *)
(* that are still owed from a tensor to its operands, and loses none on    *)
(* the way; and no_grad blocks restore the flag however they nest.  For    *)
(* every set of programs and every number of calls, blocks and clippings.  *)
(***************************************************************************)
EXTENDS GradClipping, DataInduction, FiniteSetTheorems

Frames == [tensor : Nat, next : Nat]

Finished == {topo[i] : i \in 1..Len(topo)}

SortTypes ==
  /\ prog \in Programs
  /\ tape \subseteq Tensors(prog) \ Leaves(prog)
  /\ pc \in {"caller", "sort", "walk", "spread", "raised"}
  /\ frames \in Seq(Frames)
  /\ topo \in Seq(Nat)
  /\ at \in 0..Len(topo)

(* The stack of visits: a chain of operands, so its tensors descend; each  *)
(* frame has been through the inputs before its position, the last of      *)
(* which may be the frame above it.                                        *)
StackInv ==
  /\ \A i \in 1..Len(frames) : frames[i].next \in 1..(Len(Inputs(frames[i].tensor)) + 1)
  /\ \A i, j \in 1..Len(frames) : i < j => frames[j].tensor < frames[i].tensor
  /\ \A i \in 1..Len(frames) : frames[i].tensor \notin Finished
  /\ visited = Finished \cup {frames[i].tensor : i \in 1..Len(frames)}
  /\ \A i \in 1..Len(frames) : \A j \in 1..(frames[i].next - 1) :
        \/ Inputs(frames[i].tensor)[j] \in Finished
        \/ /\ i < Len(frames)
           /\ Inputs(frames[i].tensor)[j] = frames[i + 1].tensor

Sorted ==
  /\ \A i, j \in 1..Len(topo) : topo[i] = topo[j] => i = j
  /\ \A i \in 1..Len(topo) : \A k \in 1..Len(Inputs(topo[i])) :
       \E j \in 1..(i - 1) : topo[j] = Inputs(topo[i])[k]

PhaseInv ==
  /\ pc = "caller" => topo = << >>
  /\ pc # "sort" => frames = << >>
  /\ pc = "sort" => frames # << >>
  /\ pc = "spread" => /\ at > 0
                      /\ Current \in tape
                      /\ Len(gradsIn) \in 1..Len(Inputs(Current))
                      /\ \E S : gradsIn \in Seq(S)

SortInv == SortTypes /\ StackInv /\ Sorted /\ PhaseInv

-----------------------------------------------------------------------------
(* Last and Front, element by element.                                     *)
LEMMA LastAndFront ==
  ASSUME NEW S, NEW s \in Seq(S), s # << >>
  PROVE  /\ Len(s) \in Nat /\ Len(s) >= 1
         /\ Last(s) = s[Len(s)]
         /\ s[Len(s)] \in S
         /\ Front(s) \in Seq(S)
         /\ Len(Front(s)) = Len(s) - 1
         /\ \A i \in 1..(Len(s) - 1) : Front(s)[i] = s[i]
<1>1. Len(s) \in Nat /\ Len(s) >= 1 /\ \A i \in 1..Len(s) : s[i] \in S
  OBVIOUS
<1>2. Last(s) = s[Len(s)]
  BY DEF Last
<1>3. Len(s) - 1 \in Int /\ 1 \in Int /\ \A i \in 1..(Len(s) - 1) : s[i] \in S
  BY <1>1
<1>4. /\ SubSeq(s, 1, Len(s) - 1) \in Seq(S)
      /\ Len(SubSeq(s, 1, Len(s) - 1)) = IF 1 <= Len(s) - 1 THEN (Len(s) - 1) - 1 + 1 ELSE 0
      /\ \A i \in 1..((Len(s) - 1) - 1 + 1) : SubSeq(s, 1, Len(s) - 1)[i] = s[1 + i - 1]
  BY ONLY <1>3, SubSeqProperties
<1>5. Front(s) = SubSeq(s, 1, Len(s) - 1)
  BY DEF Front
<1>6. /\ Front(s) \in Seq(S)
      /\ Len(Front(s)) = IF 1 <= Len(s) - 1 THEN (Len(s) - 1) - 1 + 1 ELSE 0
      /\ \A i \in 1..((Len(s) - 1) - 1 + 1) : Front(s)[i] = s[1 + i - 1]
  BY ONLY <1>4, <1>5, Zenon
<1>7. \A l \in Nat : \A f : l >= 1 /\ f = (IF 1 <= l - 1 THEN (l - 1) - 1 + 1 ELSE 0) => f = l - 1
  OBVIOUS
<1>8. Len(Front(s)) = Len(s) - 1
  BY ONLY <1>1, <1>6, <1>7, Zenon
<1>9. (Len(s) - 1) - 1 + 1 = Len(s) - 1 /\ \A i \in 1..(Len(s) - 1) : s[1 + i - 1] = s[i]
  BY <1>1
<1> QED BY <1>1, <1>2, <1>6, <1>8, <1>9

(* r is s with e behind it, and has n elements.                            *)
IsPushed(r, s, e, n) ==
  /\ Len(r) = n /\ r # << >>
  /\ \A i \in 1..(n - 1) : r[i] = s[i]
  /\ r[n] = e

LEMMA Pushed ==
  ASSUME NEW S, NEW s \in Seq(S), NEW e \in S, NEW n \in Nat, n = Len(s) + 1
  PROVE  Append(s, e) \in Seq(S) /\ IsPushed(Append(s, e), s, e, n)
BY DEF IsPushed

(* A tensor's inputs were computed before it.                              *)
LEMMA InputFacts ==
  ASSUME SortTypes, NEW t
  PROVE  /\ Inputs(t) \in Seq(Nat)
         /\ Len(Inputs(t)) \in Nat
         /\ \A k \in 1..Len(Inputs(t)) : Inputs(t)[k] \in Nat /\ t \in Nat /\ Inputs(t)[k] < t
<1>1. CASE t \in tape
  <2>1. WellFormedProgram(prog) /\ t \in Tensors(prog)
    BY <1>1, ProgramsAssumption DEF SortTypes
  <2>2. t \in Nat
    BY <2>1 DEF Tensors, WellFormedProgram
  <2>3. /\ prog.ins[t] \in Seq(Nat)
        /\ \A k \in DOMAIN prog.ins[t] : prog.ins[t][k] \in 1..(t - 1)
    BY <2>1 DEF WellFormedProgram
  <2>4. Inputs(t) = prog.ins[t]
    BY <1>1 DEF Inputs
  <2> QED BY <2>2, <2>3, <2>4
<1>2. CASE t \notin tape
  <2>1. Inputs(t) = << >>
    BY <1>2 DEF Inputs
  <2> QED BY <2>1
<1> QED BY <1>1, <1>2

(* The frame on top of the stack, and what is below it.                    *)
LEMMA TopFrame ==
  ASSUME SortInv, frames # << >>
  PROVE  \E n \in Nat \ {0}, t \in Nat, k \in Nat, rest \in Seq(Frames) :
           /\ n = Len(frames) /\ Len(rest) = n - 1
           /\ Last(frames) = frames[n] /\ Front(frames) = rest
           /\ t = frames[n].tensor /\ k = frames[n].next
           /\ k \in 1..(Len(Inputs(t)) + 1)
           /\ \A i \in 1..n : frames[i] \in Frames /\ t <= frames[i].tensor
           /\ \A i \in 1..(n - 1) : rest[i] = frames[i]
<1>1. frames \in Seq(Frames)
  BY DEF SortInv, SortTypes
<1>2. /\ Len(frames) \in Nat \ {0} /\ Last(frames) = frames[Len(frames)]
      /\ Front(frames) \in Seq(Frames) /\ Len(Front(frames)) = Len(frames) - 1
      /\ \A i \in 1..(Len(frames) - 1) : Front(frames)[i] = frames[i]
  BY <1>1, LastAndFront
<1>3. \A i \in 1..Len(frames) : frames[i] \in Frames
  BY <1>1
<1>4. \A i \in 1..Len(frames) : frames[Len(frames)].tensor <= frames[i].tensor
  <2>1. \A i, j \in 1..Len(frames) : i < j => frames[j].tensor < frames[i].tensor
    BY DEF SortInv, StackInv
  <2>2. \A i \in 1..Len(frames) : frames[i].tensor \in Nat
    BY <1>3 DEF Frames
  <2>3. \A i \in 1..Len(frames) : i = Len(frames) \/ i < Len(frames)
    BY <1>2
  <2>4. Len(frames) \in 1..Len(frames)
    BY <1>2
  <2> HIDE DEF Frames
  <2> QED BY ONLY <2>1, <2>2, <2>3, <2>4
<1>5. frames[Len(frames)].next \in 1..(Len(Inputs(frames[Len(frames)].tensor)) + 1)
  BY <1>2 DEF SortInv, StackInv
<1>6. frames[Len(frames)].tensor \in Nat /\ frames[Len(frames)].next \in Nat
  BY <1>2, <1>3 DEF Frames
<1> QED BY <1>2, <1>3, <1>4, <1>5, <1>6

(* The new stack has the frame n at its next input, and frames below it as *)
(* they were: what StackInv asks of it while the sorted part stays.        *)
LEMMA DescendPreserves ==
  ASSUME SortInv, Descend
  PROVE  SortInv'
<1>1. pc = "sort" /\ frames # << >>
  BY DEF Descend, SortInv, PhaseInv
<1>2. PICK n \in Nat \ {0}, t \in Nat, k \in Nat, rest \in Seq(Frames) :
        /\ n = Len(frames) /\ Len(rest) = n - 1
        /\ Last(frames) = frames[n] /\ Front(frames) = rest
        /\ t = frames[n].tensor /\ k = frames[n].next
        /\ k \in 1..(Len(Inputs(t)) + 1)
        /\ \A i \in 1..n : frames[i] \in Frames /\ t <= frames[i].tensor
        /\ \A i \in 1..(n - 1) : rest[i] = frames[i]
  BY <1>1, TopFrame
<1>3. k \in 1..Len(Inputs(t))
  <2>1. k <= Len(Inputs(t))
    BY <1>2 DEF Descend
  <2> QED BY <2>1, <1>2, InputFacts DEF SortInv
<1>4. PICK next \in Nat : next = Inputs(t)[k] /\ next < t
  BY <1>3, InputFacts DEF SortInv
<1>5. PICK resume \in Seq(Frames) :
        /\ resume = Append(rest, Frame(t, k + 1))
        /\ Len(resume) = n
        /\ \A i \in 1..(n - 1) : resume[i] = frames[i]
        /\ resume[n] = Frame(t, k + 1)
  <2>1. Frame(t, k + 1) \in Frames
    BY <1>2 DEF Frames, Frame
  <2>2. n = Len(rest) + 1 /\ n \in Nat
    BY <1>2
  <2>3. PICK r \in Seq(Frames) :
          r = Append(rest, Frame(t, k + 1)) /\ IsPushed(r, rest, Frame(t, k + 1), n)
    BY <2>1, <2>2, Pushed, Zenon
  <2>4. \A i \in 1..(n - 1) : r[i] = frames[i]
    BY <2>3, <1>2, Zenon DEF IsPushed
  <2> QED BY <2>3, <2>4, Zenon DEF IsPushed
<1>6. PICK pushed \in Seq(Frames) :
        /\ pushed = Append(resume, Frame(next, 1))
        /\ Len(pushed) = n + 1
        /\ \A i \in 1..n : pushed[i] = resume[i]
        /\ pushed[n + 1] = Frame(next, 1)
        /\ pushed # << >>
  <2>1. Frame(next, 1) \in Frames
    BY <1>4 DEF Frames, Frame
  <2>2. n + 1 = Len(resume) + 1 /\ n + 1 \in Nat /\ (n + 1) - 1 = n
    BY <1>5
  <2>3. PICK r \in Seq(Frames) :
          r = Append(resume, Frame(next, 1)) /\ IsPushed(r, resume, Frame(next, 1), n + 1)
    BY <2>1, <2>2, Pushed, Zenon
  <2>4. \A i \in 1..n : r[i] = resume[i]
    BY <2>2, <2>3, Zenon DEF IsPushed
  <2> QED BY <2>3, <2>4, Zenon DEF IsPushed
<1>7. /\ frames' = IF next \in visited THEN resume ELSE pushed
      /\ visited' = visited \cup {next}
      /\ UNCHANGED <<prog, tape, pc, topo, at, gradsIn>>
  BY <1>2, <1>4, <1>5, <1>6 DEF Descend, tapeVars
<1>8. (\A x : Inputs(x)' = Inputs(x)) /\ Finished' = Finished
  BY <1>7 DEF Inputs, Finished
<1>9. /\ frames' \in Seq(Frames) /\ frames' # << >>
      /\ SortTypes' /\ Sorted' /\ PhaseInv'
  <2>1. frames' \in Seq(Frames) /\ frames' # << >>
    BY <1>2, <1>5, <1>6, <1>7
  <2>2. SortTypes'
    BY <2>1, <1>7 DEF SortInv, SortTypes
  <2>3. Sorted'
    BY <1>7, <1>8 DEF SortInv, Sorted
  <2>4. PhaseInv'
    BY <2>1, <1>1, <1>7 DEF PhaseInv
  <2> QED BY <2>1, <2>2, <2>3, <2>4
<1>10. /\ \A i \in 1..n : resume[i].tensor = frames[i].tensor
       /\ \A i \in 1..(n - 1) : resume[i].next = frames[i].next
       /\ resume[n].next = k + 1
       /\ \A i \in 1..n : frames[i].tensor \in Nat /\ t <= frames[i].tensor
  <2>1. resume[n].tensor = frames[n].tensor /\ resume[n].next = k + 1
    BY <1>2, <1>5 DEF Frame
  <2>2. \A i \in 1..n : i \in 1..(n - 1) \/ i = n
    OBVIOUS
  <2>3. \A i \in 1..n : frames[i].tensor \in Nat /\ t <= frames[i].tensor
    BY <1>2 DEF Frames
  <2> QED BY <2>1, <2>2, <2>3, <1>5
<1>11. /\ \A i, j \in 1..n : i < j => frames[j].tensor < frames[i].tensor
       /\ \A i \in 1..n : frames[i].tensor \notin Finished
       /\ visited = Finished \cup {frames[i].tensor : i \in 1..n}
  BY <1>2 DEF SortInv, StackInv
<1>12. ASSUME NEW i \in 1..n PROVE resume[i].next \in 1..(Len(Inputs(resume[i].tensor)) + 1)
  <2>1. CASE i = n
    <3>1. resume[i].tensor = t /\ resume[i].next = k + 1
      BY <2>1, <1>2, <1>10
    <3>2. Len(Inputs(t)) \in Nat
      BY InputFacts DEF SortInv
    <3> QED BY <3>1, <3>2, <1>3
  <2>2. CASE i \in 1..(n - 1)
    BY <2>2, <1>2, <1>10 DEF SortInv, StackInv
  <2> QED BY <2>1, <2>2
<1>13. ASSUME NEW i \in 1..n, NEW j \in 1..(resume[i].next - 1), i # n \/ j # k
       PROVE  \/ Inputs(resume[i].tensor)[j] \in Finished
              \/ i < n /\ Inputs(resume[i].tensor)[j] = resume[i + 1].tensor
  <2>1. j \in 1..(frames[i].next - 1)
    <3>1. CASE i = n
      BY <3>1, <1>2, <1>10, <1>13
    <3>2. CASE i \in 1..(n - 1)
      BY <3>2, <1>10
    <3> QED BY <3>1, <3>2
  <2>2. \/ Inputs(frames[i].tensor)[j] \in Finished
        \/ i < n /\ Inputs(frames[i].tensor)[j] = frames[i + 1].tensor
    BY <2>1, <1>2 DEF SortInv, StackInv
  <2>3. i < n => i + 1 \in 1..n
    OBVIOUS
  <2> QED BY <2>2, <2>3, <1>10
<1>14. CASE next \in visited
  <2>1. frames' = resume /\ Len(frames') = n
    BY <1>5, <1>7, <1>14
  <2>2. next \in Finished
    BY <1>14, <1>4, <1>10, <1>11
  <2>3. ASSUME NEW i \in 1..n, NEW j \in 1..(resume[i].next - 1)
        PROVE  \/ Inputs(resume[i].tensor)[j] \in Finished
               \/ i < n /\ Inputs(resume[i].tensor)[j] = resume[i + 1].tensor
    <3>1. CASE i = n /\ j = k
      BY <3>1, <2>2, <1>2, <1>4, <1>10
    <3>2. CASE i # n \/ j # k
      BY <3>2, <1>13
    <3> QED BY <3>1, <3>2
  <2>4. visited' = Finished \cup {resume[i].tensor : i \in 1..n}
    BY <2>2, <1>7, <1>10, <1>11
  <2>5. /\ \A i, j \in 1..n : i < j => resume[j].tensor < resume[i].tensor
        /\ \A i \in 1..n : resume[i].tensor \notin Finished
    BY <1>10, <1>11
  <2>6. StackInv'
    BY <2>1, <2>3, <2>4, <2>5, <1>8, <1>12 DEF StackInv
  <2> QED BY <2>6, <1>9 DEF SortInv
<1>15. CASE next \notin visited
  <2>1. frames' = pushed /\ Len(frames') = n + 1
    BY <1>6, <1>7, <1>15
  <2>2. /\ \A i \in 1..n : pushed[i].tensor = frames[i].tensor /\ pushed[i].next = resume[i].next
        /\ pushed[n + 1].tensor = next /\ pushed[n + 1].next = 1
        /\ \A i \in 1..(n + 1) : i \in 1..n \/ i = n + 1
    BY <1>6, <1>10 DEF Frame
  <2>3. \A i, j \in 1..(n + 1) : i < j => pushed[j].tensor < pushed[i].tensor
    <3>1. \A i, j \in 1..n : i < j => pushed[j].tensor < pushed[i].tensor
      BY <2>2, <1>11
    <3>2. \A i \in 1..n : pushed[n + 1].tensor < pushed[i].tensor
      <4>1. \A i \in 1..n : next < frames[i].tensor
        BY <1>4, <1>10
      <4> QED BY <4>1, <2>2
    <3>3. \A i, j \in 1..(n + 1) : i < j => i \in 1..n
      BY <2>2
    <3> QED BY <3>1, <3>2, <3>3, <2>2
  <2>4. next \notin Finished /\ \A i \in 1..(n + 1) : pushed[i].tensor \notin Finished
    BY <2>2, <1>11, <1>15
  <2>5. visited' = Finished \cup {pushed[i].tensor : i \in 1..(n + 1)}
    <3>1. {pushed[i].tensor : i \in 1..(n + 1)} = {frames[i].tensor : i \in 1..n} \cup {next}
      <4>1. n + 1 \in 1..(n + 1) /\ 1..n \subseteq 1..(n + 1)
        OBVIOUS
      <4> QED BY <4>1, <2>2, ZenonT(60)
    <3> QED BY <3>1, <1>7, <1>11
  <2>6. ASSUME NEW i \in 1..(n + 1)
        PROVE  pushed[i].next \in 1..(Len(Inputs(pushed[i].tensor)) + 1)
    <3>1. CASE i = n + 1
      BY <3>1, <2>2, InputFacts DEF SortInv
    <3>2. CASE i \in 1..n
      BY <3>2, <2>2, <1>10, <1>12
    <3> QED BY <3>1, <3>2, <2>2
  <2>7. ASSUME NEW i \in 1..(n + 1), NEW j \in 1..(pushed[i].next - 1)
        PROVE  \/ Inputs(pushed[i].tensor)[j] \in Finished
               \/ i < n + 1 /\ Inputs(pushed[i].tensor)[j] = pushed[i + 1].tensor
    <3>1. i \in 1..n
      BY <2>2
    <3>2. CASE i = n /\ j = k
      BY <3>2, <2>2, <1>2, <1>4
    <3>3. CASE i # n \/ j # k
      <4>1. j \in 1..(resume[i].next - 1)
        BY <3>1, <2>2
      <4>2. \/ Inputs(resume[i].tensor)[j] \in Finished
            \/ i < n /\ Inputs(resume[i].tensor)[j] = resume[i + 1].tensor
        BY <4>1, <3>1, <3>3, <1>13
      <4>3. i < n => i + 1 \in 1..n
        BY <3>1
      <4> QED BY <4>2, <4>3, <3>1, <2>2, <1>10
    <3> QED BY <3>2, <3>3
  <2>8. StackInv'
    BY <2>1, <2>3, <2>4, <2>5, <2>6, <2>7, <1>8 DEF StackInv
  <2> QED BY <2>8, <1>9 DEF SortInv
<1> QED BY <1>14, <1>15

(* A finished tensor moves from the stack to the end of topo: its inputs   *)
(* are all there, and no frame below it is for the same tensor.            *)
LEMMA FinishPreserves ==
  ASSUME SortInv, Finish
  PROVE  SortInv'
<1>1. pc = "sort" /\ frames # << >>
  BY DEF Finish, SortInv, PhaseInv
<1>2. PICK n \in Nat \ {0}, t \in Nat, k \in Nat, rest \in Seq(Frames) :
        /\ n = Len(frames) /\ Len(rest) = n - 1
        /\ Last(frames) = frames[n] /\ Front(frames) = rest
        /\ t = frames[n].tensor /\ k = frames[n].next
        /\ k \in 1..(Len(Inputs(t)) + 1)
        /\ \A i \in 1..n : frames[i] \in Frames /\ t <= frames[i].tensor
        /\ \A i \in 1..(n - 1) : rest[i] = frames[i]
  BY <1>1, TopFrame
<1>3. k > Len(Inputs(t)) /\ Len(Inputs(t)) \in Nat
  BY <1>2, InputFacts DEF Finish, SortInv
<1>4. PICK m \in Nat : m = Len(topo)
  BY DEF SortInv, SortTypes
<1>5. PICK longer \in Seq(Nat) : longer = Append(topo, t) /\ IsPushed(longer, topo, t, m + 1)
  <2>1. topo \in Seq(Nat) /\ m + 1 \in Nat /\ m + 1 = Len(topo) + 1
    BY <1>4 DEF SortInv, SortTypes
  <2> QED BY <2>1, Pushed, Zenon
<1>6. /\ Len(longer) = m + 1 /\ longer[m + 1] = t
      /\ \A i \in 1..m : longer[i] = topo[i]
      /\ \A i \in 1..(m + 1) : i \in 1..m \/ i = m + 1
  BY <1>5 DEF IsPushed
<1>7. /\ topo' = longer /\ frames' = rest
      /\ IF rest = << >> THEN pc' = "walk" /\ at' = m + 1 ELSE UNCHANGED <<pc, at>>
      /\ UNCHANGED <<prog, tape, visited, gradsIn>>
  BY <1>2, <1>5, <1>6 DEF Finish, tapeVars
<1>8. (\A x : Inputs(x)' = Inputs(x)) /\ Finished' = Finished \cup {t}
  <2>1. Finished' = {longer[i] : i \in 1..(m + 1)}
    BY <1>6, <1>7 DEF Finished
  <2>2. {longer[i] : i \in 1..(m + 1)} = {topo[i] : i \in 1..m} \cup {t}
    <3>1. m + 1 \in 1..(m + 1) /\ 1..m \subseteq 1..(m + 1)
      OBVIOUS
    <3> QED BY <3>1, <1>6, Zenon
  <2> QED BY <2>1, <2>2, <1>4, <1>7 DEF Finished, Inputs
<1>9. /\ \A i, j \in 1..n : i < j => frames[j].tensor < frames[i].tensor
      /\ \A i \in 1..n : frames[i].tensor \notin Finished
      /\ visited = Finished \cup {frames[i].tensor : i \in 1..n}
      /\ \A i \in 1..n : frames[i].next \in 1..(Len(Inputs(frames[i].tensor)) + 1)
      /\ \A i \in 1..n : \A j \in 1..(frames[i].next - 1) :
            \/ Inputs(frames[i].tensor)[j] \in Finished
            \/ i < n /\ Inputs(frames[i].tensor)[j] = frames[i + 1].tensor
  BY <1>2 DEF SortInv, StackInv
<1>10. \A j \in 1..Len(Inputs(t)) : Inputs(t)[j] \in Finished
  <2>1. k - 1 = Len(Inputs(t)) /\ n \in 1..n /\ ~(n < n)
    BY <1>2, <1>3
  <2> QED BY <2>1, <1>2, <1>9
<1>11. SortTypes'
  <2>1. pc' \in {"sort", "walk"} /\ at' \in 0..(m + 1)
    BY <1>1, <1>4, <1>7 DEF SortInv, SortTypes
  <2> QED BY <2>1, <1>6, <1>7 DEF SortInv, SortTypes
<1>12. Sorted'
  <2>1. /\ \A i, j \in 1..m : topo[i] = topo[j] => i = j
        /\ \A i \in 1..m : \A j \in 1..Len(Inputs(topo[i])) :
             \E h \in 1..(i - 1) : topo[h] = Inputs(topo[i])[j]
    BY <1>4 DEF SortInv, Sorted
  <2>2. \A i \in 1..m : topo[i] # t
    BY <1>2, <1>4, <1>9 DEF Finished
  <2>3. \A i, j \in 1..(m + 1) : longer[i] = longer[j] => i = j
    BY <2>1, <2>2, <1>6
  <2>4. ASSUME NEW i \in 1..(m + 1), NEW j \in 1..Len(Inputs(longer[i]))
        PROVE  \E h \in 1..(i - 1) : longer[h] = Inputs(longer[i])[j]
    <3>1. CASE i = m + 1
      <4>1. Inputs(t)[j] \in Finished
        BY <3>1, <1>6, <1>10
      <4>2. PICK h \in 1..m : topo[h] = Inputs(t)[j]
        BY <4>1, <1>4 DEF Finished
      <4> QED BY <4>2, <3>1, <1>6
    <3>2. CASE i \in 1..m
      <4>1. longer[i] = topo[i]
        BY <3>2, <1>6
      <4>2. PICK h \in 1..(i - 1) : topo[h] = Inputs(topo[i])[j]
        BY <4>1, <3>2, <2>1
      <4>3. h \in 1..m
        BY <3>2
      <4> QED BY <4>1, <4>2, <4>3, <1>6
    <3> QED BY <3>1, <3>2, <1>6
  <2>5. topo' = longer /\ Len(topo') = m + 1
    BY <1>6, <1>7
  <2> QED BY <2>3, <2>4, <2>5, <1>8, ZenonT(60) DEF Sorted
<1>13. PhaseInv'
  BY <1>1, <1>7 DEF PhaseInv
<1>14. StackInv'
  <2>1. /\ \A i \in 1..(n - 1) : i \in 1..n /\ rest[i] = frames[i]
        /\ \A i \in 1..n : i \in 1..(n - 1) \/ i = n
        /\ \A i \in 1..(n - 1) : i < n
    BY <1>2
  <2>2. \A i, j \in 1..(n - 1) : i < j => rest[j].tensor < rest[i].tensor
    BY <2>1, <1>9
  <2>3. \A i \in 1..(n - 1) : rest[i].tensor \notin Finished \cup {t}
    <3>1. \A i \in 1..(n - 1) : t < frames[i].tensor
      BY <2>1, <1>2, <1>9, SMTT(30)
    <3>2. \A i \in 1..(n - 1) : frames[i].tensor # t
      BY <3>1
    <3> QED BY <3>2, <2>1, <1>9
  <2>4. visited' = (Finished \cup {t}) \cup {rest[i].tensor : i \in 1..(n - 1)}
    <3>1. {frames[i].tensor : i \in 1..n} = {rest[i].tensor : i \in 1..(n - 1)} \cup {t}
      <4>1. n \in 1..n /\ frames[n].tensor = t
        BY <1>2
      <4>2. \A i \in 1..(n - 1) : rest[i].tensor = frames[i].tensor
        BY <2>1
      <4> QED BY <4>1, <4>2, <2>1, Zenon
    <3> QED BY <3>1, <1>7, <1>9
  <2>5. \A i \in 1..(n - 1) : rest[i].next \in 1..(Len(Inputs(rest[i].tensor)) + 1)
    BY <2>1, <1>9
  <2>6. ASSUME NEW i \in 1..(n - 1), NEW j \in 1..(rest[i].next - 1)
        PROVE  \/ Inputs(rest[i].tensor)[j] \in Finished \cup {t}
               \/ i < n - 1 /\ Inputs(rest[i].tensor)[j] = rest[i + 1].tensor
    <3>1. \/ Inputs(rest[i].tensor)[j] \in Finished
          \/ i < n /\ Inputs(rest[i].tensor)[j] = frames[i + 1].tensor
      BY <2>1, <1>9
    <3>2. CASE i = n - 1
      <4>1. i + 1 = n
        BY <3>2
      <4> QED BY <4>1, <3>1, <1>2
    <3>3. CASE i < n - 1
      <4>1. i + 1 \in 1..(n - 1)
        BY <3>3
      <4> QED BY <4>1, <3>1, <3>3, <2>1
    <3> QED BY <3>2, <3>3
  <2>7. frames' = rest /\ Len(frames') = n - 1
    BY <1>2, <1>7
  <2> QED BY <2>2, <2>3, <2>4, <2>5, <2>6, <2>7, <1>8, SMTT(30) DEF StackInv
<1> QED BY <1>11, <1>12, <1>13, <1>14 DEF SortInv

(* backward() called on r: one frame, nothing finished yet.                *)
LEMMA BackwardPreserves ==
  ASSUME SortInv, NEW r \in Tensors(prog), Backward(r)
  PROVE  SortInv'
<1>1. /\ pc = "caller" /\ pc' = "sort" /\ topo = << >>
      /\ frames' = <<Frame(r, 1)>> /\ visited' = {r}
      /\ UNCHANGED <<prog, tape, topo, at, gradsIn>>
  BY DEF Backward, tapeVars, SortInv, PhaseInv
<1>2. WellFormedProgram(prog)
  BY ProgramsAssumption DEF SortInv, SortTypes
<1>3. Frame(r, 1) \in Frames
  BY <1>2 DEF Frame, Frames, Tensors, WellFormedProgram
<1>4. /\ frames' \in Seq(Frames) /\ frames' # << >> /\ Len(frames') = 1
      /\ frames'[1].tensor = r /\ frames'[1].next = 1
  BY <1>1, <1>3 DEF Frame
<1>5. topo' = << >> /\ Len(topo') = 0 /\ Finished' = {}
  BY <1>1 DEF Finished
<1>6. SortTypes'
  BY <1>1, <1>4 DEF SortInv, SortTypes
<1>7. Sorted'
  BY <1>5 DEF Sorted
<1>8. PhaseInv'
  BY <1>1, <1>4 DEF PhaseInv
<1>9. StackInv'
  <2>1. Len(Inputs(r)') \in Nat /\ Inputs(r)' = Inputs(r)
    BY <1>1, InputFacts DEF SortInv, Inputs
  <2>2. \A i \in 1..1 : i = 1
    OBVIOUS
  <2>3. {frames'[i].tensor : i \in 1..1} = {r}
    BY <1>4
  <2> QED BY <2>1, <2>2, <2>3, <1>1, <1>4, <1>5 DEF StackInv
<1> QED BY <1>6, <1>7, <1>8, <1>9 DEF SortInv

(* Outside of a call nothing is sorted or pending, so the tape may grow.   *)
LEMMA ComputePreserves ==
  ASSUME SortInv, Compute
  PROVE  SortInv'
<1>1. /\ pc = "caller" /\ topo = << >> /\ frames = << >>
      /\ Forward
      /\ UNCHANGED <<pc, frames, visited, topo, at, gradsIn>>
  BY DEF Compute, engineVars, SortInv, PhaseInv
<1>2. prog' = prog /\ tape' \subseteq Tensors(prog) \ Leaves(prog)
  <2>1. tape \subseteq Tensors(prog) \ Leaves(prog)
    BY DEF SortInv, SortTypes
  <2>2. CASE \E i \in Tensors(prog) : CreateLeaf(i)
    BY <2>1, <2>2 DEF CreateLeaf, Produce
  <2>3. CASE \E i \in Tensors(prog) : Operator(i)
    BY <2>1, <2>3 DEF Operator, Produce
  <2>4. CASE \E i \in Tensors(prog) : Checkpoint(i)
    <3>1. prog.ckpt \subseteq Tensors(prog) \ Leaves(prog)
      BY ProgramsAssumption DEF SortInv, SortTypes, WellFormedProgram
    <3> QED BY <2>1, <2>4, <3>1 DEF Checkpoint, Produce
  <2>5. CASE EnterNoGrad \/ ExitNoGrad
    BY <2>1, <2>5 DEF EnterNoGrad, ExitNoGrad
  <2> QED BY <1>1, <2>2, <2>3, <2>4, <2>5 DEF Forward
<1>3. SortTypes'
  <2>1. Tensors(prog)' = Tensors(prog) /\ Leaves(prog)' = Leaves(prog)
    BY <1>2 DEF Tensors, Leaves
  <2> QED BY <1>1, <1>2, <2>1 DEF SortInv, SortTypes
<1>4. Len(topo') = 0 /\ Len(frames') = 0 /\ Finished' = Finished
  BY <1>1 DEF Finished
<1>5. StackInv' /\ Sorted'
  <2>1. visited' = Finished \cup {frames[i].tensor : i \in 1..Len(frames)}
    BY <1>1 DEF SortInv, StackInv
  <2> QED BY <1>1, <1>4, <2>1 DEF StackInv, Sorted
<1>6. PhaseInv'
  BY <1>1 DEF PhaseInv
<1> QED BY <1>3, <1>5, <1>6 DEF SortInv

(* Steps that have nothing to do with the sort.                            *)
LEMMA SortUntouched ==
  ASSUME SortInv, UNCHANGED <<prog, tape, pc, frames, visited, topo, at, gradsIn>>
  PROVE  SortInv'
<1>1. (\A x : Inputs(x)' = Inputs(x)) /\ Finished' = Finished
      /\ Tensors(prog)' = Tensors(prog) /\ Leaves(prog)' = Leaves(prog)
  BY DEF Inputs, Finished, Tensors, Leaves
<1>2. SortTypes' /\ StackInv'
  BY <1>1 DEF SortInv, SortTypes, StackInv
<1>3. Sorted' /\ PhaseInv'
  BY <1>1 DEF SortInv, Sorted, PhaseInv, Current
<1> QED BY <1>2, <1>3 DEF SortInv

(* The walk, or the end of it, moves at and gradsIn only.                  *)
LEMMA SortStays ==
  ASSUME SortInv, pc # "sort", UNCHANGED <<prog, tape, frames, visited, topo>>,
         at' \in 0..Len(topo),
         pc' \in {"walk", "spread", "raised"}, PhaseInv'
  PROVE  SortInv'
<1>1. (\A x : Inputs(x)' = Inputs(x)) /\ Finished' = Finished
      /\ Tensors(prog)' = Tensors(prog) /\ Leaves(prog)' = Leaves(prog)
  BY DEF Inputs, Finished, Tensors, Leaves
<1>2. SortTypes' /\ StackInv'
  BY <1>1 DEF SortInv, SortTypes, StackInv
<1>3. Sorted'
  BY <1>1 DEF SortInv, Sorted
<1> QED BY <1>2, <1>3 DEF SortInv

LEMMA WalkPreserves ==
  ASSUME SortInv, PassBy \/ TakeLeaf \/ TakeOperator \/ TakeCheckpoint \/ CheckpointFails
  PROVE  SortInv'
<1>1. /\ pc = "walk" /\ at > 0 /\ at \in 0..Len(topo) /\ Len(topo) \in Nat
      /\ frames = << >>
      /\ UNCHANGED <<prog, tape, frames, visited, topo>>
  BY DEF PassBy, TakeLeaf, TakeOperator, TakeCheckpoint, CheckpointFails, Walking, tapeVars,
         SortInv, SortTypes, PhaseInv
<1>2. CASE PassBy \/ TakeLeaf
  <2>1. pc' = pc /\ at' = at - 1 /\ at - 1 \in 0..Len(topo)
    BY <1>1, <1>2 DEF PassBy, TakeLeaf
  <2>2. PhaseInv'
    BY <1>1, <2>1 DEF PhaseInv
  <2> QED BY <1>1, <2>1, <2>2, SortStays
<1>3. CASE CheckpointFails
  <2>1. pc' = "raised" /\ at' = at
    BY <1>3 DEF CheckpointFails
  <2>2. PhaseInv'
    BY <1>1, <2>1 DEF PhaseInv
  <2> QED BY <1>1, <2>1, <2>2, SortStays
<1>4. CASE TakeOperator \/ TakeCheckpoint
  <2>1. Current \in tape /\ pc' = "spread" /\ at' = at
    BY <1>4 DEF TakeOperator, TakeCheckpoint
  <2>2. WellFormedProgram(prog) /\ Current \in Tensors(prog) \ Leaves(prog)
    BY <2>1, ProgramsAssumption DEF SortInv, SortTypes
  <2>3. Inputs(Current) = prog.ins[Current] /\ Inputs(Current) # << >>
    BY <2>1, <2>2 DEF Inputs, Leaves
  <2>4. /\ Inputs(Current) \in Seq(Nat)
        /\ DOMAIN prog.slope[Current] = DOMAIN Inputs(Current)
    BY <2>2, <2>3 DEF WellFormedProgram
  <2>5. PICK l \in Nat : l = Len(Inputs(Current)) /\ l > 0 /\ DOMAIN Inputs(Current) = 1..l
    BY <2>3, <2>4
  <2>6. \E f : gradsIn' = [j \in 1..l |-> f[j]]
    <3>1. CASE TakeOperator
      <4> DEFINE F == [j \in DOMAIN prog.slope[Current] |->
                          IF prog.slope[Current][j] = 1 THEN Incoming ELSE Len(value) + j]
      <4>1. gradsIn' = F
        BY <3>1 DEF TakeOperator
      <4>2. F = [j \in 1..l |-> F[j]]
        BY <2>4, <2>5
      <4> QED BY <4>1, <4>2
    <3>2. CASE TakeCheckpoint
      <4> DEFINE F == [j \in DOMAIN prog.ins[Current] |-> Len(value) + j]
      <4>1. gradsIn' = F
        BY <3>2 DEF TakeCheckpoint
      <4>2. F = [j \in 1..l |-> F[j]]
        BY <2>3, <2>5
      <4> QED BY <4>1, <4>2
    <3> QED BY <1>4, <3>1, <3>2
  <2>7. Len(gradsIn') = l /\ \E S : gradsIn' \in Seq(S)
    <3>1. PICK f : gradsIn' = [j \in 1..l |-> f[j]]
      BY <2>6
    <3> DEFINE S == {f[j] : j \in 1..l}
    <3>2. gradsIn' \in Seq(S) /\ Len(gradsIn') = l
      BY <3>1, <2>5
    <3> QED BY <3>2
  <2>8. Current' = Current /\ Inputs(Current)' = Inputs(Current)
    BY <1>1, <2>1 DEF Current, Inputs
  <2>9. PhaseInv'
    BY <1>1, <2>1, <2>5, <2>7, <2>8 DEF PhaseInv
  <2> QED BY <1>1, <2>1, <2>9, SortStays
<1> QED BY <1>2, <1>3, <1>4

LEMMA SpreadPreserves ==
  ASSUME SortInv, Spread
  PROVE  SortInv'
<1>1. /\ pc = "spread" /\ at > 0 /\ at \in 0..Len(topo) /\ Len(topo) \in Nat
      /\ frames = << >> /\ Current \in tape
      /\ Len(gradsIn) \in 1..Len(Inputs(Current)) /\ Len(Inputs(Current)) \in Nat
      /\ UNCHANGED <<prog, tape, frames, visited, topo>>
      /\ gradsIn' = Tail(gradsIn)
      /\ IF gradsIn' = << >> THEN pc' = "walk" /\ at' = at - 1 ELSE UNCHANGED <<pc, at>>
  <2>1. /\ pc = "spread" /\ UNCHANGED <<prog, tape, frames, visited, topo>>
        /\ gradsIn' = Tail(gradsIn)
        /\ IF gradsIn' = << >> THEN pc' = "walk" /\ at' = at - 1 ELSE UNCHANGED <<pc, at>>
    BY Zenon DEF Spread, tapeVars
  <2>2. Len(Inputs(Current)) \in Nat
    BY InputFacts DEF SortInv
  <2>3. /\ at > 0 /\ at \in 0..Len(topo) /\ Len(topo) \in Nat
        /\ frames = << >> /\ Current \in tape
        /\ Len(gradsIn) \in 1..Len(Inputs(Current))
    BY <2>1 DEF SortInv, SortTypes, PhaseInv
  <2> QED BY <2>1, <2>2, <2>3
<1>2. CASE gradsIn' = << >>
  <2>1. PhaseInv'
    BY <1>1, <1>2 DEF PhaseInv
  <2> QED BY <1>1, <1>2, <2>1, SortStays
<1>3. CASE gradsIn' # << >>
  <2>1. Current' = Current /\ Inputs(Current)' = Inputs(Current)
    BY <1>1, <1>3 DEF Current, Inputs
  <2>2. PICK S : gradsIn \in Seq(S)
    BY <1>1 DEF SortInv, PhaseInv
  <2>3. gradsIn # << >>
    BY <1>1, <2>2
  <2>4. gradsIn' \in Seq(S) /\ Len(gradsIn') = Len(gradsIn) - 1 /\ Len(gradsIn') > 0
    BY <1>1, <1>3, <2>2, <2>3
  <2>5. Len(gradsIn') \in 1..Len(Inputs(Current)')
    BY <1>1, <2>1, <2>4
  <2>6. PhaseInv'
    BY <1>1, <1>3, <2>1, <2>4, <2>5 DEF PhaseInv
  <2> QED BY <1>1, <1>3, <2>6, SortStays
<1> QED BY <1>2, <1>3

LEMMA LeavePreserves ==
  ASSUME SortInv, Leave
  PROVE  SortInv'
<1>1. /\ pc' = "caller" /\ frames' = << >> /\ visited' = {} /\ topo' = << >> /\ at' = 0
      /\ UNCHANGED <<prog, tape>>
  BY DEF Leave, tapeVars
<1>2. Len(topo') = 0 /\ Len(frames') = 0 /\ Finished' = {}
  BY <1>1 DEF Finished
<1>3. SortTypes'
  <2>1. Tensors(prog)' = Tensors(prog) /\ Leaves(prog)' = Leaves(prog)
    BY <1>1 DEF Tensors, Leaves
  <2> QED BY <1>1, <1>2, <2>1 DEF SortInv, SortTypes
<1>4. StackInv' /\ Sorted'
  BY <1>1, <1>2 DEF StackInv, Sorted
<1>5. PhaseInv'
  BY <1>1 DEF PhaseInv
<1> QED BY <1>3, <1>4, <1>5 DEF SortInv

-----------------------------------------------------------------------------
LEMMA SortInvInit == ClipInit => SortInv
<1> SUFFICES ASSUME ClipInit PROVE SortInv
  OBVIOUS
<1>1. /\ prog \in Programs /\ tape = {} /\ pc = "caller" /\ frames = << >> /\ visited = {}
      /\ topo = << >> /\ at = 0
  BY DEF ClipInit, Init, TapeInit
<1>2. Len(topo) = 0 /\ Len(frames) = 0 /\ Finished = {}
  BY <1>1 DEF Finished
<1> QED BY <1>1, <1>2 DEF SortInv, SortTypes, StackInv, Sorted, PhaseInv

LEMMA SortInvStep == SortInv /\ [ClipNext]_clipVars => SortInv'
<1> SUFFICES ASSUME SortInv, [ClipNext]_clipVars PROVE SortInv'
  OBVIOUS
<1>1. CASE ClipGrads
  <2>1. UNCHANGED <<prog, tape, pc, frames, visited, topo, at, gradsIn>>
    BY <1>1 DEF ClipGrads, tapeVars, engineVars
  <2> QED BY <2>1, SortUntouched
<1>2. CASE UNCHANGED clipVars
  <2>1. UNCHANGED <<prog, tape, pc, frames, visited, topo, at, gradsIn>>
    BY <1>2 DEF clipVars, vars, tapeVars, engineVars
  <2> QED BY <2>1, SortUntouched
<1>3. CASE Compute
  BY <1>3, ComputePreserves
<1>4. CASE \E t \in Tensors(prog) : ZeroGrad(t)
  <2>1. UNCHANGED <<prog, tape, pc, frames, visited, topo, at, gradsIn>>
    BY <1>4 DEF ZeroGrad, tapeVars, engineVars
  <2> QED BY <2>1, SortUntouched
<1>5. CASE \E t \in Tensors(prog) : Backward(t)
  BY <1>5, BackwardPreserves
<1>6. CASE Engine
  <2>1. CASE Descend
    BY <2>1, DescendPreserves
  <2>2. CASE Finish
    BY <2>2, FinishPreserves
  <2>3. CASE PassBy \/ TakeLeaf \/ TakeOperator \/ TakeCheckpoint \/ CheckpointFails
    BY <2>3, WalkPreserves
  <2>4. CASE Spread
    BY <2>4, SpreadPreserves
  <2>5. CASE EndBackward \/ Surface
    BY <2>5, LeavePreserves DEF EndBackward, Surface
  <2> QED BY <1>6, <2>1, <2>2, <2>3, <2>4, <2>5 DEF Engine
<1> QED BY <1>1, <1>2, <1>3, <1>4, <1>5, <1>6 DEF ClipNext, Next

LEMMA SortInvariant == ClipSpec => []SortInv
BY SortInvInit, SortInvStep, PTL DEF ClipSpec

(* backward()'s order is a topological order of all it reached, on every   *)
(* tape: a shared or repeated operand is listed once, before its readers   *)
(* (Tensor.cpp:1127-1139).                                                 *)
THEOREM TopologicalOrder == ClipSpec => []TopoIsSorted
<1>1. SortInv => TopoIsSorted
  <2> SUFFICES ASSUME SortInv PROVE TopoIsSorted
    OBVIOUS
  <2>1. DOMAIN topo = 1..Len(topo)
    BY DEF SortInv, SortTypes
  <2>2. \A x : DOMAIN Inputs(x) = 1..Len(Inputs(x))
    BY InputFacts DEF SortInv
  <2>3. Range(topo) = Finished
    BY <2>1 DEF Range, Finished
  <2>4. pc \in {"walk", "spread"} => Finished = visited
    BY DEF SortInv, StackInv, PhaseInv
  <2>5. /\ \A i, j \in 1..Len(topo) : topo[i] = topo[j] => i = j
        /\ \A i \in 1..Len(topo) : \A k \in 1..Len(Inputs(topo[i])) :
             \E j \in 1..(i - 1) : topo[j] = Inputs(topo[i])[k]
    BY DEF SortInv, Sorted
  <2>6. /\ \A i, j \in DOMAIN topo : topo[i] = topo[j] => i = j
        /\ \A i \in DOMAIN topo : \A k \in DOMAIN Inputs(topo[i]) :
             \E j \in 1..(i - 1) : topo[j] = Inputs(topo[i])[k]
    BY <2>1, <2>2, <2>5, Zenon
  <2> QED BY <2>3, <2>4, <2>6, Zenon DEF TopoIsSorted
<1> QED BY <1>1, SortInvariant, PTL

(* What Spread stores is for an operand of the tensor whose turn it is,    *)
(* which stands before that tensor in topo.                                *)
LEMMA SpreadGoesBack ==
  ASSUME SortInv, Spread
  PROVE  \A u \in Consumed : Arrived(u)' = Arrived(u)
<1>1. /\ pc = "spread" /\ at \in 1..Len(topo) /\ Len(topo) \in Nat
      /\ Len(gradsIn) \in 1..Len(Inputs(Current)) /\ Len(Inputs(Current)) \in Nat
  <2>1. Len(Inputs(Current)) \in Nat
    BY InputFacts DEF SortInv
  <2> QED BY <2>1 DEF Spread, SortInv, SortTypes, PhaseInv
<1>2. PICK k \in 1..Len(Inputs(Current)) : k = Len(Inputs(Current)) - Len(gradsIn) + 1
  <2>1. \A l \in Nat : \A g \in 1..l : l - g + 1 \in 1..l
    OBVIOUS
  <2> QED BY <1>1, <2>1, Zenon
<1>3. PICK t : t = Inputs(Current)[k]
  OBVIOUS
<1>4. \E g : gradMap' = Store(t, g)
  BY <1>2, <1>3 DEF Spread
<1>5. \A u : u # t => Arrived(u)' = Arrived(u)
  BY <1>4 DEF Store, Arrived
<1>6. PICK j \in 1..(at - 1) : topo[j] = t
  BY <1>1, <1>3 DEF SortInv, Sorted, Current
<1>7. \A i \in at..Len(topo) : topo[i] # t
  BY <1>1, <1>6 DEF SortInv, Sorted
<1>8. t \notin Consumed
  BY <1>1, <1>7 DEF Consumed, Current
<1> QED BY <1>5, <1>8

(* A gradient is complete before it is used: the reverse walk never adds   *)
(* to what a backward_fn or a leaf has taken (Tensor.cpp:1147-1173).       *)
THEOREM WalkNeverComesBack == ClipSpec => ConsumedIsFinal
<1>1. ASSUME SortInv, [ClipNext]_clipVars
      PROVE  [({pc, pc'} \subseteq {"walk", "spread"}) =>
                \A t \in Consumed : Arrived(t)' = Arrived(t)]_vars
  <2> SUFFICES ASSUME ClipNext, pc \in {"walk", "spread"}, pc' \in {"walk", "spread"}
               PROVE  \A t \in Consumed : Arrived(t)' = Arrived(t)
    BY <1>1 DEF clipVars
  <2>1. Engine
    BY DEF ClipNext, ClipGrads, Next, Compute, ZeroGrad, Backward
  <2>2. CASE Spread
    BY <1>1, <2>2, SpreadGoesBack
  <2>3. CASE ~Spread
    <3>1. gradMap' = gradMap
      BY <2>1, <2>3 DEF Engine, Descend, Finish, PassBy, TakeLeaf, TakeOperator,
         TakeCheckpoint, CheckpointFails, EndBackward, Surface, Leave
    <3> QED BY <3>1 DEF Arrived
  <2> QED BY <2>2, <2>3
<1> QED BY <1>1, SortInvariant, PTL DEF ClipSpec, ConsumedIsFinal

-----------------------------------------------------------------------------
(* Gradient tensors are created, never changed, by a call of backward().   *)

LEMMA Longer ==
  ASSUME NEW v, NEW w, IsSequence(v), IsSequence(w)
  PROVE  IsSequence(v \o w) /\ \A g \in DOMAIN v : (v \o w)[g] = v[g]
<1>1. PICK S, T : v \in Seq(S) /\ w \in Seq(T)
  BY DEF IsSequence
<1>2. v \in Seq(S \cup T) /\ w \in Seq(S \cup T)
  BY <1>1
<1>3. v \o w \in Seq(S \cup T) /\ \A g \in DOMAIN v : (v \o w)[g] = v[g]
  BY <1>2
<1> QED BY <1>3, SequenceOfAnything

LEMMA OneMore ==
  ASSUME NEW v, NEW e, IsSequence(v)
  PROVE  IsSequence(Append(v, e)) /\ \A g \in DOMAIN v : Append(v, e)[g] = v[g]
<1>1. DOMAIN v = 1..Len(v) /\ Len(v) \in Nat
  BY SequenceIsAFunction
<1>2. \A g \in 1..Len(v) : g \in 1..(Len(v) + 1) /\ g # Len(v) + 1
  BY <1>1
<1> QED BY <1>1, <1>2, AppendToAnything

LEMMA AnArray ==
  ASSUME NEW n \in Nat, NEW v, v = [i \in 1..n |-> v[i]]
  PROVE  IsSequence(v)
<1> DEFINE S == {v[i] : i \in 1..n}
<1>1. v \in [1..n -> S]
  OBVIOUS
<1> QED BY <1>1, SequenceByDomain

ProgramTaped == prog \in Programs /\ tape \subseteq Tensors(prog)

Keeps == IsSequence(value') /\ \A g \in DOMAIN value : value'[g] = value[g]

LEMMA OperandLists ==
  ASSUME ProgramTaped, NEW t \in tape
  PROVE  \E l \in Nat : DOMAIN prog.ins[t] = 1..l /\ DOMAIN prog.slope[t] = 1..l
<1>1. WellFormedProgram(prog) /\ t \in Tensors(prog)
  BY ProgramsAssumption DEF ProgramTaped
<1>2. prog.ins[t] \in Seq(Nat) /\ DOMAIN prog.slope[t] = DOMAIN prog.ins[t]
  BY <1>1 DEF WellFormedProgram
<1> QED BY <1>2

LEMMA RecomputeKeeps ==
  ASSUME ProgramTaped, IsSequence(value), Current \in tape, Recompute
  PROVE  Keeps
<1>1. PICK l \in Nat : DOMAIN prog.ins[Current] = 1..l
  BY OperandLists
<1>2. IsSequence(InputGradients)
  <2>1. InputGradients = [k \in 1..l |-> InputGradients[k]]
    BY <1>1 DEF InputGradients
  <2> QED BY <2>1, AnArray
<1>3. prog.n \in Nat
  BY ProgramsAssumption DEF ProgramTaped, WellFormedProgram
<1>4. IsSequence(CaptureGradients)
  <2>1. CaptureGradients = [t \in 1..prog.n |-> CaptureGradients[t]]
    BY DEF CaptureGradients, Tensors
  <2> QED BY <1>3, <2>1, AnArray
<1>5. PICK longer : /\ longer = value \o InputGradients
                    /\ IsSequence(longer) /\ \A g \in DOMAIN value : longer[g] = value[g]
  BY <1>2, Longer
<1>6. \A g \in DOMAIN value : g \in DOMAIN longer
  <2>1. PICK S, T : value \in Seq(S) /\ InputGradients \in Seq(T)
    BY <1>2 DEF IsSequence
  <2>2. value \in Seq(S \cup T) /\ InputGradients \in Seq(S \cup T)
    BY <2>1
  <2> QED BY <2>2, <1>5
<1>7. value' = longer \o CaptureGradients
  BY <1>5 DEF Recompute
<1>8. IsSequence(value') /\ \A g \in DOMAIN longer : value'[g] = longer[g]
  BY <1>4, <1>5, <1>7, Longer
<1> QED BY <1>5, <1>6, <1>8 DEF Keeps

LEMMA EngineKeeps ==
  ASSUME ProgramTaped, IsSequence(value), Engine
  PROVE  Keeps
<1>1. CASE UNCHANGED value
  BY <1>1 DEF Keeps
<1>2. CASE TakeLeaf \/ Spread
  <2>1. UNCHANGED value \/ \E e : value' = Append(value, e)
    BY <1>2 DEF TakeLeaf, Spread
  <2> QED BY <1>1, <2>1, OneMore DEF Keeps
<1>3. CASE TakeOperator
  <2>1. Current \in tape
    BY <1>3 DEF TakeOperator
  <2>2. PICK l \in Nat : DOMAIN prog.slope[Current] = 1..l
    BY <2>1, OperandLists
  <2>3. PICK w : /\ w = [k \in 1..l |-> prog.slope[Current][k] * value[Incoming]]
                 /\ value' = value \o w
    BY <1>3, <2>2 DEF TakeOperator
  <2>4. w = [k \in 1..l |-> w[k]]
    BY <2>3
  <2> QED BY <2>3, <2>4, AnArray, Longer DEF Keeps
<1>4. CASE TakeCheckpoint \/ (CheckpointFails /\ enabled)
  <2>1. Current \in tape /\ Recompute
    BY <1>4 DEF TakeCheckpoint, CheckpointFails
  <2> QED BY <2>1, RecomputeKeeps
<1>5. CASE Descend \/ Finish \/ PassBy \/ (CheckpointFails /\ ~enabled) \/ EndBackward \/ Surface
  <2>1. UNCHANGED value
    BY <1>5 DEF Descend, Finish, PassBy, CheckpointFails, EndBackward, Surface, Leave
  <2> QED BY <1>1, <2>1
<1> QED BY <1>2, <1>3, <1>4, <1>5 DEF Engine

KeepInv == SortInv /\ IsSequence(value)

LEMMA KeepInvStep == KeepInv /\ [ClipNext]_clipVars => KeepInv'
<1> SUFFICES ASSUME KeepInv, [ClipNext]_clipVars PROVE IsSequence(value')
  BY SortInvStep DEF KeepInv, IsSequence
<1>1. CASE ClipGrads
  <2>1. PICK S : value \in Seq(S)
    BY DEF KeepInv, IsSequence
  <2>2. Len(value) \in Nat /\ DOMAIN value = 1..Len(value)
    BY <2>1
  <2>3. value' = [g \in 1..Len(value) |-> value'[g]]
    BY <1>1, <2>2 DEF ClipGrads
  <2> QED BY <2>2, <2>3, AnArray
<1>2. CASE \E t \in Tensors(prog) : Backward(t)
  <2>1. value' = Append(value, 1)
    BY <1>2 DEF Backward
  <2> QED BY <2>1, OneMore DEF KeepInv
<1>3. CASE Engine
  BY <1>3, EngineKeeps DEF KeepInv, SortInv, SortTypes, ProgramTaped, Keeps
<1>4. CASE Compute \/ (\E t \in Tensors(prog) : ZeroGrad(t)) \/ UNCHANGED clipVars
  <2>1. value' = value
    BY <1>4 DEF Compute, ZeroGrad, clipVars, vars
  <2> QED BY <2>1 DEF KeepInv
<1> QED BY <1>1, <1>2, <1>3, <1>4 DEF ClipNext, Next

(* backward() never writes in the storage of a gradient that exists, so    *)
(* what the caller kept, and what leaves share, is safe from it            *)
(* (Tensor.cpp:1156-1159: the first gradient is kept, the next added).     *)
THEOREM BackwardWritesNothing == ClipSpec => HeldGradientsKeep
<1>1. ClipInit => KeepInv
  <2>1. IsSequence(<< >>)
    BY DEF IsSequence
  <2> QED BY <2>1, SortInvInit DEF ClipInit, Init, KeepInv
<1>2. ASSUME KeepInv, [ClipNext]_clipVars
      PROVE  [pc # "caller" => \A g \in DOMAIN value : value'[g] = value[g]]_vars
  <2> SUFFICES ASSUME ClipNext, pc # "caller"
               PROVE  \A g \in DOMAIN value : value'[g] = value[g]
    BY <1>2 DEF clipVars
  <2>1. Engine
    BY DEF ClipNext, ClipGrads, Next, Compute, ZeroGrad, Backward
  <2> QED BY <1>2, <2>1, EngineKeeps DEF KeepInv, SortInv, SortTypes, ProgramTaped, Keeps
<1> QED BY <1>1, <1>2, KeepInvStep, PTL DEF ClipSpec, HeldGradientsKeep

-----------------------------------------------------------------------------
(* no_grad.  Only the outermost block that is open remembers TRUE.         *)
BlocksInv ==
  /\ blocks \in Seq(BOOLEAN)
  /\ enabled = (blocks = << >>)
  /\ \A i \in 1..Len(blocks) : blocks[i] = (i = 1)

LEMMA BlocksInvInit == ClipInit => BlocksInv
<1> SUFFICES ASSUME ClipInit PROVE BlocksInv
  OBVIOUS
<1>1. blocks = << >> /\ enabled = TRUE /\ Len(blocks) = 0
  BY DEF ClipInit, Init, TapeInit
<1>2. blocks \in Seq(BOOLEAN) /\ 1..Len(blocks) = {}
  BY <1>1
<1>3. enabled = (blocks = << >>)
  BY <1>1, Zenon
<1> QED BY <1>2, <1>3, Zenon DEF BlocksInv

LEMMA BlocksInvStep == BlocksInv /\ [ClipNext]_clipVars => BlocksInv'
<1> SUFFICES ASSUME BlocksInv, [ClipNext]_clipVars PROVE BlocksInv'
  OBVIOUS
<1>1. CASE UNCHANGED <<enabled, blocks>>
  BY <1>1 DEF BlocksInv
<1>2. CASE EnterNoGrad
  <2>1. PICK n \in Nat : n = Len(blocks)
    BY DEF BlocksInv
  <2>2. enabled \in BOOLEAN
    BY DEF BlocksInv
  <2>3. PICK r \in Seq(BOOLEAN) : r = Append(blocks, enabled) /\ IsPushed(r, blocks, enabled, n + 1)
    <3>1. blocks \in Seq(BOOLEAN) /\ n + 1 \in Nat /\ n + 1 = Len(blocks) + 1
      BY <2>1 DEF BlocksInv
    <3> QED BY <3>1, <2>2, Pushed, Zenon
  <2>4. Len(r) = n + 1 /\ r # << >> /\ r[n + 1] = enabled /\ \A i \in 1..n : r[i] = blocks[i]
    BY <2>1, <2>3 DEF IsPushed
  <2>5. enabled = (n + 1 = 1)
    BY <2>1 DEF BlocksInv
  <2>6. \A i \in 1..(n + 1) : r[i] = (i = 1)
    BY <2>1, <2>4, <2>5 DEF BlocksInv
  <2>7. blocks' = r /\ enabled' = FALSE
    BY <1>2, <2>3 DEF EnterNoGrad
  <2> QED BY <2>3, <2>4, <2>6, <2>7 DEF BlocksInv
<1>3. CASE ExitNoGrad
  <2>1. /\ Len(blocks) \in Nat /\ Len(blocks) >= 1 /\ Last(blocks) = blocks[Len(blocks)]
        /\ Front(blocks) \in Seq(BOOLEAN) /\ Len(Front(blocks)) = Len(blocks) - 1
        /\ \A i \in 1..(Len(blocks) - 1) : Front(blocks)[i] = blocks[i]
    BY <1>3, LastAndFront DEF ExitNoGrad, BlocksInv
  <2>2. blocks' = Front(blocks) /\ enabled' = blocks[Len(blocks)]
    BY <1>3, <2>1 DEF ExitNoGrad
  <2>3. enabled' = (Len(blocks) = 1)
    BY <2>1, <2>2 DEF BlocksInv
  <2>4. (Front(blocks) = << >>) = (Len(blocks) = 1)
    BY <2>1
  <2>5. \A i \in 1..(Len(blocks) - 1) : Front(blocks)[i] = (i = 1)
    BY <2>1 DEF BlocksInv
  <2> QED BY <2>1, <2>2, <2>3, <2>4, <2>5 DEF BlocksInv
<1>4. EnterNoGrad \/ ExitNoGrad \/ UNCHANGED <<enabled, blocks>>
  BY DEF ClipNext, ClipGrads, Next, Compute, Forward, CreateLeaf, Operator, Checkpoint, Produce,
     ZeroGrad, Backward, Engine, Descend, Finish, PassBy, TakeLeaf, TakeOperator, TakeCheckpoint,
     CheckpointFails, Spread, EndBackward, Surface, Leave, Walking, clipVars, vars, tapeVars
<1> QED BY <1>1, <1>2, <1>3, <1>4

(* The flag comes back as the outermost block found it, and not before,    *)
(* whatever runs in between (__init__.py:68-72).                           *)
THEOREM NoGradIsRestored == ClipSpec => []NoGradRestores
<1>1. BlocksInv => NoGradRestores
  BY DEF BlocksInv, NoGradRestores
<1> QED BY <1>1, BlocksInvInit, BlocksInvStep, PTL DEF ClipSpec

(***************************************************************************)
(* What a call of backward() leaves on the parameters                      *)
(***************************************************************************)

-----------------------------------------------------------------------------
(* Sums                                                                    *)

SumUnfolds(term, n, f) == f = [k \in 0..n |-> IF k = 0 THEN 0 ELSE f[k - 1] + term[k]]

LEMMA SumUnfolding ==
  ASSUME NEW term, NEW n \in Nat
  PROVE  \E f : /\ SumTo(term, n) = f[n]
                /\ f[0] = 0
                /\ \A k \in 0..(n - 1) : f[k + 1] = f[k] + term[k + 1]
<1> DEFINE S == {m \in Nat : \E f : SumUnfolds(term, m, f)}
<1>1. 0 \in S
  <2>1. SumUnfolds(term, 0, [k \in 0..0 |-> 0])
    BY DEF SumUnfolds
  <2> QED BY <2>1
<1>2. ASSUME NEW m \in Nat, m \in S PROVE m + 1 \in S
  <2>1. PICK f : SumUnfolds(term, m, f)
    BY <1>2
  <2> DEFINE g == [k \in 0..(m + 1) |-> IF k = m + 1 THEN f[m] + term[m + 1] ELSE f[k]]
  <2>2. ASSUME NEW k \in 0..(m + 1)
        PROVE  g[k] = IF k = 0 THEN 0 ELSE g[k - 1] + term[k]
    <3>1. CASE k = m + 1
      <4>1. k # 0 /\ k - 1 = m /\ m \in 0..(m + 1) /\ m # m + 1
        BY <3>1
      <4>2. g[k - 1] = f[m] /\ g[k] = f[m] + term[m + 1]
        BY <3>1, <4>1
      <4> HIDE DEF g
      <4> QED BY <3>1, <4>1, <4>2
    <3>2. CASE k # m + 1
      <4>1. k \in 0..m /\ (k # 0 => k - 1 \in 0..m /\ k - 1 # m + 1)
        BY <3>2
      <4>2. g[k] = f[k] /\ (k # 0 => g[k - 1] = f[k - 1])
        BY <3>2, <4>1
      <4>3. f[k] = IF k = 0 THEN 0 ELSE f[k - 1] + term[k]
        BY <2>1, <4>1 DEF SumUnfolds
      <4> HIDE DEF g
      <4> QED BY <4>2, <4>3
    <3> QED BY <3>1, <3>2
  <2>3. SumUnfolds(term, m + 1, g)
    BY <2>2 DEF SumUnfolds
  <2> HIDE DEF g
  <2> QED BY <2>3
<1> HIDE DEF S
<1>3. n \in S
  BY <1>1, <1>2, SetInduction
<1>4. \E f : SumUnfolds(term, n, f)
  BY <1>3 DEF S
<1>5. SumTo(term, n) = (CHOOSE f : SumUnfolds(term, n, f))[n]
  BY Zenon DEF SumTo, SumUnfolds
<1>6. PICK f : f = CHOOSE h : SumUnfolds(term, n, h)
  OBVIOUS
<1>7. SumUnfolds(term, n, f) /\ SumTo(term, n) = f[n]
  BY <1>4, <1>5, <1>6
<1>8. f[0] = 0
  BY <1>7 DEF SumUnfolds
<1>9. ASSUME NEW k \in 0..(n - 1) PROVE f[k + 1] = f[k] + term[k + 1]
  <2>1. k + 1 \in 0..n /\ k + 1 # 0 /\ (k + 1) - 1 = k
    OBVIOUS
  <2> QED BY <2>1, <1>7 DEF SumUnfolds
<1> QED BY <1>7, <1>8, <1>9

LEMMA SumIsNatural ==
  ASSUME NEW n \in Nat, NEW term, \A k \in 1..n : term[k] \in Nat
  PROVE  SumTo(term, n) \in Nat
<1>1. PICK f : /\ SumTo(term, n) = f[n] /\ f[0] = 0
               /\ \A k \in 0..(n - 1) : f[k + 1] = f[k] + term[k + 1]
  BY SumUnfolding
<1> DEFINE S == {k \in 0..n : f[k] \in Nat}
<1>2. 0 \in S
  BY <1>1
<1>3. ASSUME NEW k \in 0..(n - 1), k \in S PROVE k + 1 \in S
  <2>1. k + 1 \in 1..n /\ k + 1 \in 0..n
    OBVIOUS
  <2> QED BY <2>1, <1>1, <1>3
<1> HIDE DEF S
<1>4. \A k \in 0..n : k \in S
  BY <1>2, <1>3, BoundedInduction
<1> QED BY <1>1, <1>4 DEF S

LEMMA SumOfEquals ==
  ASSUME NEW n \in Nat, NEW term, NEW other, \A k \in 1..n : term[k] = other[k]
  PROVE  SumTo(term, n) = SumTo(other, n)
<1>1. PICK f : /\ SumTo(term, n) = f[n] /\ f[0] = 0
               /\ \A k \in 0..(n - 1) : f[k + 1] = f[k] + term[k + 1]
  BY SumUnfolding
<1>2. PICK g : /\ SumTo(other, n) = g[n] /\ g[0] = 0
               /\ \A k \in 0..(n - 1) : g[k + 1] = g[k] + other[k + 1]
  BY SumUnfolding
<1> DEFINE S == {k \in 0..n : f[k] = g[k]}
<1>3. 0 \in S
  BY <1>1, <1>2
<1>4. ASSUME NEW k \in 0..(n - 1), k \in S PROVE k + 1 \in S
  <2>1. k + 1 \in 1..n /\ k + 1 \in 0..n
    OBVIOUS
  <2> QED BY <2>1, <1>1, <1>2, <1>4
<1> HIDE DEF S
<1>5. \A k \in 0..n : k \in S
  BY <1>3, <1>4, BoundedInduction
<1> QED BY <1>1, <1>2, <1>5 DEF S

(* Term by term c times as much, c times as much in all.                   *)
LEMMA SumOfMultiples ==
  ASSUME NEW n \in Nat, NEW c \in Nat, NEW term, NEW scaled,
         \A k \in 1..n : term[k] \in Nat /\ scaled[k] = c * term[k]
  PROVE  SumTo(scaled, n) = c * SumTo(term, n)
<1>1. PICK f : /\ SumTo(term, n) = f[n] /\ f[0] = 0
               /\ \A k \in 0..(n - 1) : f[k + 1] = f[k] + term[k + 1]
  BY SumUnfolding, SMTT(60)
<1>2. PICK g : /\ SumTo(scaled, n) = g[n] /\ g[0] = 0
               /\ \A k \in 0..(n - 1) : g[k + 1] = g[k] + scaled[k + 1]
  BY SumUnfolding
<1>3. \A a, b \in Nat : c * (a + b) = c * a + c * b
  OBVIOUS
<1> DEFINE S == {k \in 0..n : f[k] \in Nat /\ g[k] = c * f[k]}
<1>4. 0 \in S
  BY <1>1, <1>2
<1>5. ASSUME NEW k \in 0..(n - 1), k \in S PROVE k + 1 \in S
  <2>1. k + 1 \in 1..n /\ k + 1 \in 0..n
    OBVIOUS
  <2>2. f[k + 1] = f[k] + term[k + 1] /\ g[k + 1] = c * f[k] + c * term[k + 1]
    BY <2>1, <1>1, <1>2, <1>5
  <2>3. f[k] \in Nat /\ term[k + 1] \in Nat
    BY <2>1, <1>5
  <2>4. g[k + 1] = c * f[k + 1]
    BY <2>2, <2>3, <1>3
  <2> QED BY <2>1, <2>2, <2>3, <2>4
<1> HIDE DEF S
<1>6. \A k \in 0..n : k \in S
  BY <1>4, <1>5, BoundedInduction
<1> QED BY <1>1, <1>2, <1>6 DEF S

(* When one term changes, the sum changes by as much.                      *)
LEMMA SumWithOneChanged ==
  ASSUME NEW n \in Nat, NEW at1 \in 1..n, NEW term, NEW other,
         \A k \in 1..n : term[k] \in Nat /\ other[k] \in Nat,
         \A k \in 1..n : k # at1 => other[k] = term[k]
  PROVE  SumTo(other, n) + term[at1] = SumTo(term, n) + other[at1]
<1>1. PICK f : /\ SumTo(term, n) = f[n] /\ f[0] = 0
               /\ \A k \in 0..(n - 1) : f[k + 1] = f[k] + term[k + 1]
  BY SumUnfolding
<1>2. PICK g : /\ SumTo(other, n) = g[n] /\ g[0] = 0
               /\ \A k \in 0..(n - 1) : g[k + 1] = g[k] + other[k + 1]
  BY SumUnfolding
<1> DEFINE S == {k \in 0..n : /\ f[k] \in Nat /\ g[k] \in Nat
                              /\ IF k < at1 THEN g[k] = f[k]
                                 ELSE g[k] + term[at1] = f[k] + other[at1]}
<1>3. 0 \in S
  BY <1>1, <1>2
<1>4. ASSUME NEW k \in 0..(n - 1), k \in S PROVE k + 1 \in S
  <2>1. k + 1 \in 1..n /\ k + 1 \in 0..n
    OBVIOUS
  <2>2. f[k + 1] = f[k] + term[k + 1] /\ g[k + 1] = g[k] + other[k + 1]
    BY <1>1, <1>2
  <2>3. f[k] \in Nat /\ g[k] \in Nat /\ term[k + 1] \in Nat /\ other[k + 1] \in Nat
        /\ term[at1] \in Nat /\ other[at1] \in Nat
    BY <2>1, <1>4
  <2>4. IF k < at1 THEN g[k] = f[k] ELSE g[k] + term[at1] = f[k] + other[at1]
    BY <1>4
  <2>5. k + 1 # at1 => other[k + 1] = term[k + 1]
    BY <2>1
  <2>6. IF k + 1 < at1 THEN g[k + 1] = f[k + 1]
        ELSE g[k + 1] + term[at1] = f[k + 1] + other[at1]
    BY <2>2, <2>3, <2>4, <2>5
  <2> QED BY <2>1, <2>2, <2>3, <2>6
<1> HIDE DEF S
<1>5. \A k \in 0..n : k \in S
  BY <1>3, <1>4, BoundedInduction
<1> QED BY <1>1, <1>2, <1>5 DEF S

LEMMA SumOfZeros ==
  ASSUME NEW n \in Nat, NEW term, \A k \in 1..n : term[k] = 0
  PROVE  SumTo(term, n) = 0
<1>1. PICK f : /\ SumTo(term, n) = f[n] /\ f[0] = 0
               /\ \A k \in 0..(n - 1) : f[k + 1] = f[k] + term[k + 1]
  BY SumUnfolding
<1> DEFINE S == {k \in 0..n : f[k] = 0}
<1>2. 0 \in S
  BY <1>1
<1>3. ASSUME NEW k \in 0..(n - 1), k \in S PROVE k + 1 \in S
  <2>1. k + 1 \in 1..n /\ k + 1 \in 0..n
    OBVIOUS
  <2> QED BY <2>1, <1>1, <1>3
<1> HIDE DEF S
<1>4. \A k \in 0..n : k \in S
  BY <1>2, <1>3, BoundedInduction
<1> QED BY <1>1, <1>4 DEF S

-----------------------------------------------------------------------------
(* Derivatives                                                             *)

Slopes(i, d) == [k \in DOMAIN prog.ins[i] |-> prog.slope[i][k] * d[prog.ins[i][k]]]

ChainRule(recorded, t, i, d) ==
  IF i = t THEN 1
  ELSE IF i \notin recorded THEN 0
  ELSE CapturedSlope(i, t) + SumTo(Slopes(i, d), Len(prog.ins[i]))

DerivativeUnfolds(recorded, t, n, d) == d = [i \in 1..n |-> ChainRule(recorded, t, i, d)]

LEMMA ProgramFacts ==
  ASSUME WellFormedProgram(prog), NEW i \in Tensors(prog)
  PROVE  /\ prog.n \in Nat /\ Tensors(prog) = 1..prog.n /\ i \in Nat
         /\ prog.ins[i] \in Seq(Nat) /\ prog.slope[i] \in Seq(Nat)
         /\ Len(prog.ins[i]) \in Nat /\ DOMAIN prog.ins[i] = 1..Len(prog.ins[i])
         /\ Len(prog.slope[i]) = Len(prog.ins[i]) /\ DOMAIN prog.slope[i] = DOMAIN prog.ins[i]
         /\ \A k \in 1..Len(prog.ins[i]) :
              /\ prog.ins[i][k] \in 1..(i - 1) /\ prog.ins[i][k] \in Tensors(prog)
              /\ prog.slope[i][k] \in Nat
<1>1. prog.n \in Nat /\ Tensors(prog) = 1..prog.n /\ i \in 1..prog.n
  BY DEF WellFormedProgram, Tensors
<1>2. /\ prog.ins[i] \in Seq(Nat) /\ prog.slope[i] \in Seq(Nat)
      /\ DOMAIN prog.slope[i] = DOMAIN prog.ins[i]
      /\ \A k \in DOMAIN prog.ins[i] : prog.ins[i][k] \in 1..(i - 1)
  BY DEF WellFormedProgram
<1>3. \A s \in Seq(Nat) : /\ Len(s) \in Nat /\ DOMAIN s = 1..Len(s)
                          /\ \A k \in 1..Len(s) : s[k] \in Nat
  OBVIOUS
<1>4. /\ Len(prog.ins[i]) \in Nat /\ DOMAIN prog.ins[i] = 1..Len(prog.ins[i])
      /\ Len(prog.slope[i]) \in Nat /\ DOMAIN prog.slope[i] = 1..Len(prog.slope[i])
      /\ \A k \in 1..Len(prog.slope[i]) : prog.slope[i][k] \in Nat
  BY <1>2, <1>3, Zenon
<1>5. \A a, b \in Nat : 1..a = 1..b => a = b
  OBVIOUS
<1>6. Len(prog.slope[i]) = Len(prog.ins[i])
  BY <1>2, <1>4, <1>5, Zenon
<1>7. i \in Nat /\ \A k \in 1..(i - 1) : k \in 1..prog.n
  BY <1>1
<1>8. \A k \in 1..Len(prog.ins[i]) :
        /\ prog.ins[i][k] \in 1..(i - 1) /\ prog.ins[i][k] \in Tensors(prog)
        /\ prog.slope[i][k] \in Nat
  BY <1>1, <1>2, <1>4, <1>6, <1>7, Zenon
<1> QED BY <1>1, <1>2, <1>4, <1>6, <1>7, <1>8

LEMMA ChainRuleIsLocal ==
  ASSUME WellFormedProgram(prog), NEW recorded, NEW t, NEW i \in Tensors(prog),
         NEW d, NEW e, \A j \in 1..(i - 1) : d[j] = e[j]
  PROVE  ChainRule(recorded, t, i, d) = ChainRule(recorded, t, i, e)
<1>1. \A k \in DOMAIN prog.ins[i] : d[prog.ins[i][k]] = e[prog.ins[i][k]]
  BY ProgramFacts
<1>2. Slopes(i, d) = Slopes(i, e)
  BY <1>1 DEF Slopes
<1> QED BY <1>2 DEF ChainRule

LEMMA DerivativeExists ==
  ASSUME WellFormedProgram(prog), NEW recorded, NEW t
  PROVE  \E d : DerivativeUnfolds(recorded, t, prog.n, d)
<1>1. prog.n \in Nat /\ Tensors(prog) = 1..prog.n
  BY DEF WellFormedProgram, Tensors
<1> DEFINE S == {m \in 0..prog.n : \E d : DerivativeUnfolds(recorded, t, m, d)}
<1>2. 0 \in S
  <2>1. DerivativeUnfolds(recorded, t, 0, [i \in 1..0 |-> 0])
    BY DEF DerivativeUnfolds
  <2> QED BY <1>1, <2>1
<1>3. ASSUME NEW m \in 0..(prog.n - 1), m \in S PROVE m + 1 \in S
  <2>1. PICK d : DerivativeUnfolds(recorded, t, m, d)
    BY <1>3
  <2> DEFINE e == [i \in 1..(m + 1) |->
                     IF i = m + 1 THEN ChainRule(recorded, t, m + 1, d) ELSE d[i]]
  <2>2. ASSUME NEW i \in 1..(m + 1)
        PROVE  e[i] = ChainRule(recorded, t, i, e)
    <3>1. \A j \in 1..(i - 1) : d[j] = e[j]
      <4>1. \A j \in 1..(i - 1) : j \in 1..(m + 1) /\ j # m + 1
        OBVIOUS
      <4> QED BY <4>1
    <3>2. e[i] = ChainRule(recorded, t, i, d)
      <4>1. CASE i = m + 1
        BY <4>1
      <4>2. CASE i # m + 1
        <5>1. i \in 1..m /\ e[i] = d[i]
          BY <4>2
        <5> HIDE DEF e
        <5> QED BY <5>1, <2>1 DEF DerivativeUnfolds
      <4> QED BY <4>1, <4>2
    <3>3. i \in Tensors(prog)
      BY <1>1
    <3> HIDE DEF e
    <3>4. ChainRule(recorded, t, i, d) = ChainRule(recorded, t, i, e)
      BY <3>1, <3>3, ChainRuleIsLocal
    <3> QED BY <3>2, <3>4
  <2>3. DerivativeUnfolds(recorded, t, m + 1, e)
    BY <2>2 DEF DerivativeUnfolds
  <2> HIDE DEF e
  <2> QED BY <1>1, <2>3
<1> HIDE DEF S
<1>4. prog.n \in 0..prog.n
  BY <1>1
<1>5. prog.n \in S
  BY <1>1, <1>2, <1>3, <1>4, BoundedInduction
<1> QED BY <1>5 DEF S

LEMMA DerivativeByChainRule ==
  ASSUME WellFormedProgram(prog), NEW recorded, NEW t
  PROVE  /\ Derivative(recorded, t) = [i \in Tensors(prog) |-> Derivative(recorded, t)[i]]
         /\ \A i \in Tensors(prog) :
              Derivative(recorded, t)[i] = ChainRule(recorded, t, i, Derivative(recorded, t))
<1>1. Derivative(recorded, t) = CHOOSE d : DerivativeUnfolds(recorded, t, prog.n, d)
  BY Zenon DEF Derivative, DerivativeUnfolds, ChainRule, Slopes, Tensors
<1>2. DerivativeUnfolds(recorded, t, prog.n, Derivative(recorded, t))
  BY <1>1, DerivativeExists
<1>3. PICK d : d = Derivative(recorded, t) /\ DerivativeUnfolds(recorded, t, prog.n, d)
  BY <1>2
<1>4. d = [i \in 1..prog.n |-> d[i]] /\ \A i \in 1..prog.n : d[i] = ChainRule(recorded, t, i, d)
  BY <1>3 DEF DerivativeUnfolds
<1> QED BY <1>3, <1>4 DEF Tensors

LEMMA CapturedSlopeIsNatural ==
  ASSUME WellFormedProgram(prog), NEW i, NEW t
  PROVE  /\ CapturedSlope(i, t) \in Nat
         /\ i \notin prog.ckpt => CapturedSlope(i, t) = 0
<1>1. CASE t \in Captured(prog, i)
  <2>1. i \in prog.ckpt /\ t \in DOMAIN prog.capture[i]
    BY <1>1 DEF Captured
  <2>2. prog.capture[i][t] \in Nat
    BY <2>1 DEF WellFormedProgram
  <2> QED BY <1>1, <2>1, <2>2 DEF CapturedSlope
<1>2. CASE t \notin Captured(prog, i)
  BY <1>2 DEF CapturedSlope
<1>3. i \notin prog.ckpt => t \notin Captured(prog, i)
  BY DEF Captured
<1> QED BY <1>1, <1>2, <1>3

LEMMA DerivativeIsNatural ==
  ASSUME WellFormedProgram(prog), NEW recorded, NEW t
  PROVE  Derivative(recorded, t) \in [Tensors(prog) -> Nat]
<1>1. prog.n \in Nat /\ Tensors(prog) = 1..prog.n
  BY DEF WellFormedProgram, Tensors
<1>2. PICK d : /\ d = Derivative(recorded, t) /\ d = [i \in Tensors(prog) |-> d[i]]
               /\ \A i \in Tensors(prog) : d[i] = ChainRule(recorded, t, i, d)
  BY DerivativeByChainRule
<1> DEFINE S == {m \in 0..prog.n : \A i \in 1..m : d[i] \in Nat}
<1>3. 0 \in S
  BY <1>1
<1>4. ASSUME NEW m \in 0..(prog.n - 1), m \in S PROVE m + 1 \in S
  <2>1. PICK i \in Tensors(prog) : i = m + 1
    BY <1>1
  <2>2. \A j \in 1..(i - 1) : d[j] \in Nat
    BY <2>1, <1>4
  <2>3. Len(prog.ins[i]) \in Nat /\ DOMAIN prog.ins[i] = 1..Len(prog.ins[i])
    BY ProgramFacts
  <2>4. \A k \in 1..Len(prog.ins[i]) : Slopes(i, d)[k] \in Nat
    <3> SUFFICES ASSUME NEW k \in 1..Len(prog.ins[i]) PROVE Slopes(i, d)[k] \in Nat
      OBVIOUS
    <3>1. prog.slope[i][k] \in Nat /\ d[prog.ins[i][k]] \in Nat
      BY <2>2, ProgramFacts
    <3>2. \A a, b \in Nat : a * b \in Nat
      OBVIOUS
    <3>3. Slopes(i, d)[k] = prog.slope[i][k] * d[prog.ins[i][k]]
      BY <2>3 DEF Slopes
    <3> QED BY <3>1, <3>2, <3>3
  <2>5. SumTo(Slopes(i, d), Len(prog.ins[i])) \in Nat
    BY <2>3, <2>4, SumIsNatural
  <2>6. d[i] \in Nat
    <3>1. CapturedSlope(i, t) \in Nat
      BY CapturedSlopeIsNatural
    <3> QED BY <3>1, <2>5, <1>2 DEF ChainRule
  <2>7. \A j \in 1..(m + 1) : j \in 1..(i - 1) \/ j = i
    BY <2>1
  <2>8. m + 1 \in 0..prog.n /\ \A j \in 1..(m + 1) : d[j] \in Nat
    BY <1>1, <2>2, <2>6, <2>7
  <2> QED BY <2>8
<1> HIDE DEF S
<1>5. prog.n \in 0..prog.n
  BY <1>1
<1>6. prog.n \in S
  BY <1>1, <1>3, <1>4, <1>5, BoundedInduction
<1>7. \A i \in Tensors(prog) : d[i] \in Nat
  BY <1>1, <1>6 DEF S
<1> QED BY <1>2, <1>7
-----------------------------------------------------------------------------
(* The invariant                                                           *)

(* Operators record themselves unless no input asks for it: an operator    *)
(* that ran while recording and is not on the tape has no parameter below  *)
(* it.                                                                     *)
TapeInv ==
  /\ prog \in Programs
  /\ made \in 0..prog.n
  /\ tape \subseteq 1..made /\ tracked \subseteq 1..made
  /\ tape \subseteq Tensors(prog) \ Leaves(prog) /\ tracked \cap Leaves(prog) = {}
  /\ tape \ prog.ckpt \subseteq tracked
  /\ \A x \in tracked \ (prog.ckpt \cup tape) :
       \A k \in DOMAIN prog.ins[x] : ~RequiresGrad(prog.ins[x][k])

CallTypes ==
  /\ value \in Seq(Nat)
  /\ grad \in [Tensors(prog) -> 0..Len(value)]
  /\ due \in [Tensors(prog) -> Nat]
  /\ visited \subseteq 1..made
  /\ DOMAIN gradMap \subseteq visited
  /\ \A x \in DOMAIN gradMap : gradMap[x] \in 1..Len(value)
  /\ gradsIn \in Seq(1..Len(value))

(* What has arrived at the tensors whose turn is still to come, as far as  *)
(* it concerns parameter t; and what backward_fn returned and is not yet   *)
(* spread.                                                                 *)
Slope(t) == Derivative(Recorded, t)

Open == IF pc = "spread" THEN at - 1 ELSE at

Weight(x) == IF x \in DOMAIN gradMap THEN value[gradMap[x]] ELSE 0

Pending(t) ==
  [x \in Tensors(prog) |-> IF \E j \in 1..Open : topo[j] = x THEN Weight(x) * Slope(t)[x] ELSE 0]

SpreadSoFar == Len(Inputs(Current)) - Len(gradsIn)

Shares(t) ==
  [k \in DOMAIN Inputs(Current) |->
     IF k > SpreadSoFar
     THEN value[gradsIn[k - SpreadSoFar]] * Slope(t)[Inputs(Current)[k]]
     ELSE 0]

StillOwed(t) ==
  SumTo(Pending(t), prog.n)
    + (IF pc = "spread" THEN SumTo(Shares(t), Len(Inputs(Current))) ELSE 0)

Balanced(t) ==
  /\ pc = "caller" \/ ~enabled => Held(t) = due[t]
  /\ pc = "sort" /\ enabled =>
       \E r \in visited : /\ DOMAIN gradMap = {r} /\ Weight(r) = 1
                          /\ Held(t) + Slope(t)[r] = due[t]
  /\ pc \in {"walk", "spread"} /\ enabled => Held(t) + StillOwed(t) = due[t]
  /\ pc = "raised" => Held(t) <= due[t]

BalanceInv ==
  /\ \A t \in prog.params : Balanced(t)
  /\ \A t \in Tensors(prog) \ prog.params : grad[t] = None /\ due[t] = 0

GradientInv == SortInv /\ TapeInv /\ CallTypes /\ BalanceInv

-----------------------------------------------------------------------------
(* The tape                                                                *)

LEMMA TapeProgram ==
  ASSUME TapeInv
  PROVE  /\ WellFormedProgram(prog) /\ prog.n \in Nat /\ Tensors(prog) = 1..prog.n
         /\ prog.params \subseteq Leaves(prog) /\ Leaves(prog) \subseteq Tensors(prog)
         /\ tape \subseteq Tensors(prog) /\ tracked \subseteq Tensors(prog)
         /\ made \in 0..prog.n /\ tape \cap prog.params = {}
<1>1. WellFormedProgram(prog)
  BY ProgramsAssumption DEF TapeInv
<1>2. prog.n \in Nat /\ Tensors(prog) = 1..prog.n /\ prog.params \subseteq Leaves(prog)
  BY <1>1 DEF WellFormedProgram, Tensors
<1>3. made \in 0..prog.n /\ tracked \subseteq 1..made
  BY DEF TapeInv
<1>4. tracked \subseteq 1..prog.n
  BY <1>2, <1>3
<1> QED BY <1>1, <1>2, <1>3, <1>4 DEF TapeInv, Leaves

LEMMA TapeInvInit == ClipInit => TapeInv
<1> SUFFICES ASSUME ClipInit PROVE TapeInv
  OBVIOUS
<1>1. prog \in Programs /\ made = 0 /\ tape = {} /\ tracked = {}
  BY DEF ClipInit, Init, TapeInit
<1>2. prog.n \in Nat
  BY <1>1, ProgramsAssumption DEF WellFormedProgram
<1> QED BY <1>1, <1>2 DEF TapeInv

LEMMA TapeInvStep == TapeInv /\ [ClipNext]_clipVars => TapeInv'
<1> SUFFICES ASSUME TapeInv, [ClipNext]_clipVars PROVE TapeInv'
  OBVIOUS
<1>1. CASE UNCHANGED <<prog, made, tape, tracked>>
  BY <1>1 DEF TapeInv, Leaves, Tensors, RequiresGrad
<1>2. ASSUME NEW i \in Tensors(prog), CreateLeaf(i) \/ Operator(i) \/ Checkpoint(i) PROVE TapeInv'
  <2>1. /\ i = made + 1 /\ made' = i /\ prog' = prog
        /\ tracked' = IF enabled THEN tracked \cup ({i} \ Leaves(prog)) ELSE tracked
    BY <1>2 DEF CreateLeaf, Operator, Checkpoint, Produce
  <2>2. \/ i \in Leaves(prog) /\ tape' = tape
        \/ i \notin Leaves(prog) \cup prog.ckpt
           /\ tape' = IF NeedsGrad(i) /\ enabled THEN tape \cup {i} ELSE tape
        \/ i \in prog.ckpt /\ i \notin Leaves(prog)
           /\ tape' = IF NeedsGrad(i) THEN tape \cup {i} ELSE tape
    BY <1>2, TapeProgram DEF CreateLeaf, Operator, Checkpoint, Produce, WellFormedProgram
  <2>3. /\ made \in 0..prog.n /\ tape \subseteq 1..made /\ tracked \subseteq 1..made
        /\ tape \subseteq Tensors(prog) \ Leaves(prog) /\ tracked \cap Leaves(prog) = {}
        /\ tape \ prog.ckpt \subseteq tracked
        /\ i \in Nat /\ i \in 1..prog.n /\ i \in 1..i /\ 1..made \subseteq 1..i /\ i \notin 1..made
    <3>1. made \in 0..prog.n /\ prog.n \in Nat /\ i \in 1..prog.n /\ i = made + 1
      BY <2>1, TapeProgram
    <3>2. i \in Nat /\ i \in 1..i /\ 1..made \subseteq 1..i /\ i \notin 1..made
      BY <3>1
    <3> QED BY <3>1, <3>2 DEF TapeInv
  <2>4. /\ Leaves(prog)' = Leaves(prog) /\ Tensors(prog)' = Tensors(prog)
    BY <2>1 DEF Leaves, Tensors
  <2>5. /\ made' \in 0..prog.n
        /\ tape \subseteq tape' /\ tape' \subseteq tape \cup {i}
        /\ tracked' \subseteq tracked \cup {i}
        /\ i \in tape' \cup tracked' => i \notin Leaves(prog)
        /\ i \in tape' => i \in prog.ckpt \cup tracked'
    <3>1. made' \in 0..prog.n
      BY <2>1, <2>3
    <3>2. i \notin tape /\ i \notin tracked
      BY <2>3
    <3> QED BY <3>1, <3>2, <2>1, <2>2, Zenon
  <2>6. ASSUME NEW x \in tracked' \ (prog.ckpt \cup tape'), NEW k \in DOMAIN prog.ins[x]
        PROVE  ~(prog.ins[x][k] \in prog.params \cup tape')
    <3>1. x \in Tensors(prog) /\ x \in 1..i
      BY <2>3, <2>5, TapeProgram
    <3>2. prog.ins[x][k] \in 1..(x - 1)
      BY <3>1, TapeProgram DEF WellFormedProgram
    <3>3. prog.ins[x][k] # i
      BY <3>1, <3>2, <2>3
    <3>4. CASE x \in tracked
      BY <3>3, <3>4, <2>5 DEF TapeInv, RequiresGrad
    <3>5. CASE x \notin tracked
      <4>1. x = i /\ enabled /\ i \notin Leaves(prog) \cup prog.ckpt
        BY <3>5, <2>1, <2>5
      <4>2. ~NeedsGrad(i)
        BY <4>1, <2>2
      <4> QED BY <4>1, <4>2, <3>3, <2>5 DEF NeedsGrad, RequiresGrad
    <3> QED BY <3>4, <3>5
  <2>7. tape' \subseteq 1..made' /\ tracked' \subseteq 1..made'
    BY <2>1, <2>3, <2>5, Zenon
  <2>8. /\ tape' \subseteq Tensors(prog) \ Leaves(prog) /\ tracked' \cap Leaves(prog) = {}
        /\ tape' \ prog.ckpt \subseteq tracked'
    BY <2>1, <2>3, <2>5
  <2> QED BY <2>1, <2>4, <2>5, <2>6, <2>7, <2>8 DEF TapeInv, RequiresGrad
<1>3. UNCHANGED <<prog, made, tape, tracked>>
      \/ \E i \in Tensors(prog) : CreateLeaf(i) \/ Operator(i) \/ Checkpoint(i)
  BY DEF ClipNext, ClipGrads, Next, Compute, Forward, EnterNoGrad, ExitNoGrad,
     ZeroGrad, Backward, Engine, Descend, Finish, PassBy, TakeLeaf, TakeOperator, TakeCheckpoint,
     CheckpointFails, Spread, EndBackward, Surface, Leave, Walking, clipVars, vars, tapeVars
<1> QED BY <1>1, <1>2, <1>3

LEMMA SlopeIsNatural ==
  ASSUME TapeInv, NEW t \in prog.params
  PROVE  Slope(t) \in [Tensors(prog) -> Nat] /\ t \in Tensors(prog) /\ Slope(t)[t] = 1
<1>1. t \in Tensors(prog)
  BY TapeProgram
<1>2. Slope(t)[t] = ChainRule(Recorded, t, t, Slope(t))
  BY <1>1, TapeProgram, DerivativeByChainRule DEF Slope
<1> QED BY <1>1, <1>2, TapeProgram, DerivativeIsNatural DEF Slope, ChainRule

(* A tensor that is not on the tape has nothing to hand on.                *)
LEMMA SlopeOffTheTape ==
  ASSUME TapeInv, NEW t \in prog.params, NEW x \in Tensors(prog), x \notin tape, x # t
  PROVE  Slope(t)[x] = 0
<1>1. PICK d : d = Slope(t) /\ \A i \in Tensors(prog) : d[i] = ChainRule(Recorded, t, i, d)
  BY TapeProgram, DerivativeByChainRule DEF Slope
<1>2. WellFormedProgram(prog) /\ prog.n \in Nat /\ Tensors(prog) = 1..prog.n
  BY TapeProgram
<1> DEFINE S == {m \in 0..prog.n : \A i \in 1..m : i \notin tape /\ i # t => d[i] = 0}
<1>3. 0 \in S
  BY <1>2
<1>4. ASSUME NEW m \in 0..(prog.n - 1), m \in S PROVE m + 1 \in S
  <2>1. PICK i \in Tensors(prog) : i = m + 1
    BY <1>2
  <2>2. ASSUME i \notin tape, i # t PROVE d[i] = 0
    <3>1. CASE i \notin Recorded
      BY <3>1, <2>2, <1>1 DEF ChainRule
    <3>2. CASE i \in Recorded
      <4>1. i \in tracked \ (prog.ckpt \cup tape)
        BY <3>2, <2>2 DEF Recorded
      <4>2. Len(prog.ins[i]) \in Nat /\ DOMAIN prog.ins[i] = 1..Len(prog.ins[i])
        BY <1>2, ProgramFacts
      <4>3. ASSUME NEW k \in 1..Len(prog.ins[i]) PROVE Slopes(i, d)[k] = 0
        <5>1. prog.ins[i][k] \in 1..m /\ prog.slope[i][k] \in Nat
          BY <1>2, <2>1, ProgramFacts, SMTT(30)
        <5>2. ~RequiresGrad(prog.ins[i][k])
          BY <4>1, <4>2 DEF TapeInv
        <5>3. prog.ins[i][k] \notin tape /\ prog.ins[i][k] # t
          BY <5>2 DEF RequiresGrad
        <5>4. d[prog.ins[i][k]] = 0
          BY <5>1, <5>3, <1>4
        <5>5. Slopes(i, d)[k] = prog.slope[i][k] * d[prog.ins[i][k]]
          BY <4>2 DEF Slopes
        <5>6. \A a \in Nat : a * 0 = 0
          OBVIOUS
        <5> QED BY <5>1, <5>4, <5>5, <5>6
      <4>4. SumTo(Slopes(i, d), Len(prog.ins[i])) = 0
        BY <4>2, <4>3, SumOfZeros
      <4>5. CapturedSlope(i, t) = 0
        BY <4>1, <1>2, CapturedSlopeIsNatural
      <4> QED BY <4>4, <4>5, <3>2, <2>2, <1>1 DEF ChainRule
    <3> QED BY <3>1, <3>2
  <2>3. \A j \in 1..(m + 1) : j \in 1..m \/ j = i
    BY <2>1
  <2>4. m + 1 \in 0..prog.n /\ \A j \in 1..(m + 1) : j \notin tape /\ j # t => d[j] = 0
    BY <1>2, <1>4, <2>2, <2>3
  <2> QED BY <2>4
<1> HIDE DEF S
<1>5. prog.n \in 0..prog.n
  BY <1>2
<1>6. prog.n \in S
  BY <1>2, <1>3, <1>4, <1>5, BoundedInduction
<1> QED BY <1>1, <1>2, <1>6 DEF S

(* A tensor that is hands on what its operands are owed, and what fn       *)
(* captures.                                                               *)
LEMMA SlopeOnTheTape ==
  ASSUME TapeInv, NEW t \in prog.params, NEW x \in tape
  PROVE  Slope(t)[x] = CapturedSlope(x, t) + SumTo(Slopes(x, Slope(t)), Len(prog.ins[x]))
<1>1. x \in Tensors(prog) /\ x # t
  BY TapeProgram
<1>2. x \in Recorded
  BY DEF TapeInv, Recorded
<1>3. Slope(t)[x] = ChainRule(Recorded, t, x, Slope(t))
  BY <1>1, TapeProgram, DerivativeByChainRule DEF Slope
<1> QED BY <1>1, <1>2, <1>3 DEF ChainRule

-----------------------------------------------------------------------------
(* What the steps of the walk compute                                      *)

TypedInv == SortInv /\ TapeInv /\ CallTypes

(* longer is v with l numbers behind it.                                   *)
Extends(longer, v, l) ==
  /\ longer \in Seq(Nat)
  /\ Len(longer) = Len(v) + l
  /\ \A g \in 1..Len(v) : longer[g] = v[g]

LEMMA Concatenated ==
  ASSUME NEW v \in Seq(Nat), NEW l \in Nat, NEW w \in [1..l -> Nat]
  PROVE  Extends(v \o w, v, l) /\ \A k \in 1..l : (v \o w)[Len(v) + k] = w[k]
<1>1. w \in Seq(Nat) /\ Len(w) = l
  BY SequenceByDomain
<1>2. /\ v \o w \in Seq(Nat) /\ Len(v \o w) = Len(v) + Len(w) /\ Len(v) \in Nat
      /\ \A i \in 1..(Len(v) + Len(w)) : (v \o w)[i] = IF i <= Len(v) THEN v[i] ELSE w[i - Len(v)]
  <2>1. Len(v) \in Nat /\ v \in Seq(Nat) /\ w \in Seq(Nat)
    BY <1>1
  <2> QED BY ONLY <2>1, ConcatProperties
<1>3. /\ \A g \in 1..Len(v) : g \in 1..(Len(v) + l) /\ g <= Len(v)
      /\ \A k \in 1..l : /\ Len(v) + k \in 1..(Len(v) + l) /\ ~(Len(v) + k <= Len(v))
                         /\ (Len(v) + k) - Len(v) = k
  BY <1>2
<1> QED BY <1>1, <1>2, <1>3 DEF Extends

LEMMA Appended ==
  ASSUME NEW v \in Seq(Nat), NEW e \in Nat
  PROVE  /\ Extends(Append(v, e), v, 1) /\ Len(v) \in Nat
         /\ Len(Append(v, e)) = Len(v) + 1 /\ Append(v, e)[Len(v) + 1] = e
<1>1. Append(v, e) \in Seq(Nat) /\ Len(Append(v, e)) = Len(v) + 1 /\ Len(v) \in Nat
      /\ (\A i \in 1..Len(v) : Append(v, e)[i] = v[i]) /\ Append(v, e)[Len(v) + 1] = e
  OBVIOUS
<1> QED BY <1>1 DEF Extends

LEMMA TailFacts ==
  ASSUME NEW S, NEW s \in Seq(S), s # << >>
  PROVE  /\ s[1] \in S /\ Len(Tail(s)) = Len(s) - 1
         /\ \A j \in 1..(Len(s) - 1) : Tail(s)[j] = s[j + 1]
         /\ \A j \in 1..Len(s) : s[j] \in S
         /\ (Tail(s) = << >>) = (Len(s) = 1)
<1>1. Len(s) \in Nat /\ Len(s) >= 1 /\ \A j \in 1..Len(s) : s[j] \in S
  OBVIOUS
<1>2. s[1] \in S
  BY <1>1
<1>3. Tail(s) \in Seq(S) /\ Len(Tail(s)) = Len(s) - 1
  OBVIOUS
<1>4. \A j \in 1..(Len(s) - 1) : Tail(s)[j] = s[j + 1]
  OBVIOUS
<1>5. (Tail(s) = << >>) = (Len(Tail(s)) = 0)
  BY <1>3, EmptySeq
<1>6. (Len(Tail(s)) = 0) = (Len(s) = 1)
  BY <1>1, <1>3
<1> QED BY <1>1, <1>2, <1>3, <1>4, <1>5, <1>6

LEMMA SeqOfMore ==
  ASSUME NEW m \in Nat, NEW n \in Nat, m <= n, NEW s \in Seq(1..m)
  PROVE  s \in Seq(1..n)
<1>1. 1..m \subseteq 1..n
  OBVIOUS
<1>2. \A S, T : S \subseteq T => Seq(S) \subseteq Seq(T)
  OBVIOUS
<1> QED BY <1>1, <1>2, Zenon

LEMMA WeightsAreNatural ==
  ASSUME TypedInv
  PROVE  /\ Len(value) \in Nat /\ \A g \in 1..Len(value) : value[g] \in Nat
         /\ \A x : Weight(x) \in Nat
         /\ \A t \in Tensors(prog) : /\ grad[t] \in 0..Len(value) /\ Held(t) \in Nat
                                     /\ due[t] \in Nat
<1>1. Len(value) \in Nat /\ \A g \in 1..Len(value) : value[g] \in Nat
  BY DEF TypedInv, CallTypes
<1>2. \A x : Weight(x) \in Nat
  BY <1>1 DEF TypedInv, CallTypes, Weight
<1>3. \A t \in Tensors(prog) : /\ grad[t] \in 0..Len(value) /\ due[t] \in Nat
                               /\ grad[t] # 0 => grad[t] \in 1..Len(value)
  BY <1>1 DEF TypedInv, CallTypes
<1> QED BY <1>1, <1>2, <1>3 DEF Held, None

(* The tensor whose turn it is.                                            *)
LEMMA CurrentFacts ==
  ASSUME TypedInv, pc \in {"walk", "spread"}, at > 0
  PROVE  /\ Len(topo) \in Nat /\ at \in 1..Len(topo) /\ Current \in Tensors(prog)
         /\ Current \in visited /\ visited = Finished
         /\ Current \in tape => Inputs(Current) = prog.ins[Current]
<1>1. Len(topo) \in Nat /\ at \in 1..Len(topo)
  BY DEF TypedInv, SortInv, SortTypes
<1>2. Current \in Finished
  BY <1>1 DEF Finished, Current
<1>3. frames = << >> /\ visited = Finished \cup {frames[i].tensor : i \in 1..Len(frames)}
  BY DEF TypedInv, SortInv, PhaseInv, StackInv
<1>4. visited = Finished
  BY <1>3
<1>5. visited \subseteq Tensors(prog)
  <2>1. visited \subseteq 1..made /\ made \in 0..prog.n /\ prog.n \in Nat
        /\ Tensors(prog) = 1..prog.n
    BY TapeProgram DEF TypedInv, CallTypes
  <2> QED BY <2>1
<1> QED BY <1>1, <1>2, <1>4, <1>5 DEF Inputs

LEMMA WalkFacts ==
  ASSUME TypedInv, Walking, NEW c, c = Current
  PROVE  /\ c \in Tensors(prog) /\ pc = "walk" /\ at \in 1..Len(topo)
         /\ c \in tape => Inputs(c) = prog.ins[c]
         /\ c \in DOMAIN gradMap => /\ gradMap[c] \in 1..Len(value)
                                    /\ Weight(c) = value[gradMap[c]]
BY CurrentFacts DEF Walking, TypedInv, CallTypes, Weight

LEMMA LeafFacts ==
  ASSUME TypedInv, TakeLeaf, NEW c, c = Current
  PROVE  /\ c \in prog.params /\ enabled
         /\ \E l \in Nat : Extends(value', value, l)
         /\ grad' \in [Tensors(prog) -> 0..Len(value')]
         /\ Held(c)' = Held(c) + Weight(c)
         /\ \A t \in Tensors(prog) \ {c} : grad'[t] = grad[t]
<1>1. /\ c \in prog.params /\ enabled /\ c \in Tensors(prog)
      /\ gradMap[c] \in 1..Len(value) /\ Weight(c) = value[gradMap[c]]
  BY WalkFacts DEF TakeLeaf, Accumulates
<1>2. /\ Len(value) \in Nat /\ value \in Seq(Nat) /\ Weight(c) \in Nat /\ Held(c) \in Nat
      /\ grad \in [Tensors(prog) -> 0..Len(value)]
  BY <1>1, WeightsAreNatural DEF TypedInv, CallTypes
<1>3. CASE grad[c] = None
  <2>1. grad' = [grad EXCEPT ![c] = gradMap[c]] /\ value' = value
    BY <1>3 DEF TakeLeaf, Incoming
  <2>2. Extends(value', value, 0)
    BY <2>1, <1>2 DEF Extends
  <2>3. grad' \in [Tensors(prog) -> 0..Len(value')] /\ grad'[c] = gradMap[c] /\ gradMap[c] # 0
        /\ \A t \in Tensors(prog) \ {c} : grad'[t] = grad[t]
    BY <2>1, <1>1, <1>2
  <2>4. Held(c)' = value[gradMap[c]] /\ Held(c) = 0
    BY <1>3, <2>1, <2>3 DEF Held, None
  <2> QED BY <2>2, <2>3, <2>4, <1>1, <1>2
<1>4. CASE grad[c] # None
  <2>1. value' = Append(value, Held(c) + Weight(c)) /\ grad' = [grad EXCEPT ![c] = Len(value')]
    BY <1>1, <1>4 DEF TakeLeaf, Incoming
  <2>2. Held(c) + Weight(c) \in Nat
    BY <1>2
  <2>3. /\ Extends(value', value, 1) /\ Len(value') = Len(value) + 1
        /\ value'[Len(value) + 1] = Held(c) + Weight(c)
    BY <2>1, <2>2, <1>2, Appended
  <2>4. /\ grad' \in [Tensors(prog) -> 0..Len(value')] /\ grad'[c] = Len(value) + 1
        /\ \A t \in Tensors(prog) \ {c} : grad'[t] = grad[t]
    BY <2>1, <2>3, <1>1, <1>2
  <2>5. Held(c)' = Held(c) + Weight(c)
    BY <2>3, <2>4, <1>2 DEF Held, None
  <2> QED BY <2>3, <2>4, <2>5, <1>1
<1> QED BY <1>3, <1>4

LEMMA OperatorFacts ==
  ASSUME TypedInv, TakeOperator, NEW c, c = Current, NEW l, l = Len(prog.ins[c])
  PROVE  /\ c \in tape \ prog.ckpt /\ c \in DOMAIN gradMap /\ l \in Nat
         /\ Extends(value', value, l)
         /\ gradsIn' \in Seq(1..Len(value')) /\ Len(gradsIn') = l
         /\ \A k \in 1..l : value'[gradsIn'[k]] = prog.slope[c][k] * Weight(c)
<1>1. /\ c \in tape \ prog.ckpt /\ c \in DOMAIN gradMap /\ c \in Tensors(prog)
      /\ gradMap[c] \in 1..Len(value) /\ Weight(c) = value[gradMap[c]]
  BY WalkFacts DEF TakeOperator
<1>2. /\ l \in Nat /\ DOMAIN prog.slope[c] = 1..l
      /\ \A k \in 1..l : prog.slope[c][k] \in Nat
  <2>1. WellFormedProgram(prog)
    BY TapeProgram DEF TypedInv
  <2> QED BY <2>1, <1>1, ProgramFacts
<1>3. Len(value) \in Nat /\ value \in Seq(Nat) /\ Weight(c) \in Nat
  BY WeightsAreNatural DEF TypedInv, CallTypes
<1> DEFINE w == [k \in 1..l |-> prog.slope[c][k] * Weight(c)]
<1>4. w \in [1..l -> Nat]
  <2>1. \A a, b \in Nat : a * b \in Nat
    OBVIOUS
  <2> QED BY <2>1, <1>2, <1>3
<1>5. /\ value' = value \o w
      /\ gradsIn' = [k \in 1..l |-> IF prog.slope[c][k] = 1 THEN gradMap[c] ELSE Len(value) + k]
  BY <1>1, <1>2 DEF TakeOperator, Incoming
<1>6. \A k \in 1..l : w[k] = prog.slope[c][k] * Weight(c)
  OBVIOUS
<1> HIDE DEF w
<1>7. /\ Extends(value', value, l)
      /\ \A k \in 1..l : value'[Len(value) + k] = prog.slope[c][k] * Weight(c)
  BY <1>2, <1>3, <1>4, <1>5, <1>6, Concatenated, ZenonT(60)
<1>8. Len(value') = Len(value) + l /\ \A g \in 1..Len(value) : value'[g] = value[g]
  BY <1>7 DEF Extends
<1>9. gradsIn' \in [1..l -> 1..Len(value')]
  <2>1. \A k \in 1..l : /\ Len(value) + k \in 1..(Len(value) + l)
                        /\ gradMap[c] \in 1..(Len(value) + l)
    BY <1>1, <1>2, <1>3
  <2> QED BY <2>1, <1>5, <1>8
<1>10. gradsIn' \in Seq(1..Len(value')) /\ Len(gradsIn') = l
  BY <1>2, <1>9, SequenceByDomain
<1>11. ASSUME NEW k \in 1..l PROVE value'[gradsIn'[k]] = prog.slope[c][k] * Weight(c)
  <2>1. CASE prog.slope[c][k] = 1
    <3>1. gradsIn'[k] = gradMap[c] /\ value'[gradMap[c]] = Weight(c)
      BY <2>1, <1>1, <1>5, <1>8
    <3> QED BY <3>1, <2>1, <1>3
  <2>2. CASE prog.slope[c][k] # 1
    <3>1. gradsIn'[k] = Len(value) + k
      BY <2>2, <1>5
    <3> QED BY <3>1, <1>7
  <2> QED BY <2>1, <2>2
<1> QED BY <1>1, <1>2, <1>7, <1>10, <1>11

(* The second run of a checkpoint's fn.                                    *)
LEMMA RecomputeFacts ==
  ASSUME TypedInv, Walking, Recompute, NEW c \in DOMAIN gradMap, c = Current, c \in tape,
         NEW l, l = Len(prog.ins[c])
  PROVE  /\ l \in Nat
         /\ Extends(value', value, l + prog.n)
         /\ \A k \in 1..l : value'[Len(value) + k] =
              IF RequiresGrad(prog.ins[c][k]) THEN prog.slope[c][k] * Weight(c) ELSE 0
         /\ grad' \in [Tensors(prog) -> 0..Len(value')]
         /\ \A t \in prog.params : Held(t)' = Held(t) + CapturedSlope(c, t) * Weight(c)
         /\ \A t \in Tensors(prog) \ prog.params : grad'[t] = grad[t]
<1>1. /\ c \in Tensors(prog) /\ gradMap[c] \in 1..Len(value) /\ Weight(c) = value[gradMap[c]]
  BY WalkFacts
<1>2. WellFormedProgram(prog) /\ prog.n \in Nat /\ Tensors(prog) = 1..prog.n
      /\ prog.params \subseteq Tensors(prog)
  BY TapeProgram DEF TypedInv
<1>3. /\ l \in Nat /\ DOMAIN prog.ins[c] = 1..l /\ \A k \in 1..l : prog.slope[c][k] \in Nat
  BY <1>1, <1>2, ProgramFacts
<1>4. /\ Len(value) \in Nat /\ value \in Seq(Nat) /\ Weight(c) \in Nat
      /\ grad \in [Tensors(prog) -> 0..Len(value)]
      /\ \A g \in 1..Len(value) : value[g] \in Nat
      /\ \A t \in Tensors(prog) : Held(t) \in Nat
  BY WeightsAreNatural DEF TypedInv, CallTypes
<1>5. \A a, b, d \in Nat : a * b \in Nat /\ d + a * b \in Nat
  OBVIOUS
<1> DEFINE G == [k \in 1..l |-> IF RequiresGrad(prog.ins[c][k]) THEN prog.slope[c][k] * Weight(c)
                               ELSE 0]
           H == [t \in 1..prog.n |->
                   IF t \in prog.params \cap Captured(prog, c)
                   THEN Held(t) + prog.capture[c][t] * Weight(c) ELSE 0]
<1>6. InputGradients = G /\ CaptureGradients = H
  BY <1>1, <1>2, <1>3 DEF InputGradients, CaptureGradients, Needed, Incoming, Reached
<1>7. \A t \in Captured(prog, c) : prog.capture[c][t] \in Nat /\ CapturedSlope(c, t) = prog.capture[c][t]
  BY <1>2 DEF Captured, WellFormedProgram, CapturedSlope
<1>8. G \in [1..l -> Nat] /\ H \in [1..prog.n -> Nat]
  BY <1>2, <1>3, <1>4, <1>5, <1>7
<1>9. Len(InputGradients) = l
  BY <1>3, <1>6, <1>8, SequenceByDomain
<1>10. /\ value' = (value \o G) \o H
       /\ grad' = [t \in Tensors(prog) |->
                     IF t \in prog.params \cap Captured(prog, c) THEN Len(value) + l + t ELSE grad[t]]
  BY <1>6, <1>9 DEF Recompute, Reached
<1>11. /\ \A k \in 1..l : G[k] = IF RequiresGrad(prog.ins[c][k]) THEN prog.slope[c][k] * Weight(c)
                                 ELSE 0
       /\ \A t \in 1..prog.n : H[t] = IF t \in prog.params \cap Captured(prog, c)
                                      THEN Held(t) + prog.capture[c][t] * Weight(c) ELSE 0
  OBVIOUS
<1> HIDE DEF G, H
<1>12. PICK v \in Seq(Nat) : /\ v = value \o G /\ Extends(v, value, l)
                             /\ \A k \in 1..l : v[Len(value) + k] = G[k]
  <2>1. /\ Extends(value \o G, value, l)
        /\ \A k \in 1..l : (value \o G)[Len(value) + k] = G[k]
    BY <1>3, <1>4, <1>8, Concatenated, ZenonT(60)
  <2>2. value \o G \in Seq(Nat)
    BY <2>1 DEF Extends
  <2> QED BY <2>1, <2>2
<1>13. Extends(value', v, prog.n) /\ \A t \in 1..prog.n : value'[Len(v) + t] = H[t]
  BY <1>2, <1>8, <1>10, <1>12, Concatenated
<1>14. /\ Len(v) = Len(value) + l /\ value' \in Seq(Nat) /\ Len(value') = Len(value) + l + prog.n
       /\ \A g \in 1..Len(value) : g \in 1..Len(v) /\ v[g] = value[g]
       /\ \A g \in 1..Len(v) : value'[g] = v[g]
       /\ \A k \in 1..l : Len(value) + k \in 1..Len(v)
  <2>1. /\ Len(v) = Len(value) + l /\ \A g \in 1..Len(value) : v[g] = value[g]
        /\ value' \in Seq(Nat) /\ Len(value') = Len(v) + prog.n
        /\ \A g \in 1..Len(v) : value'[g] = v[g]
    BY ONLY <1>12, <1>13, Zenon DEF Extends
  <2>2. PICK a \in Nat : a = Len(value)
    BY <1>4
  <2>3. \A k \in 1..l : k \in 1..(a + l) /\ a + k \in 1..(a + l)
    BY ONLY l \in Nat, a \in Nat
  <2>4. \A g \in 1..a : g \in 1..(a + l)
    BY ONLY l \in Nat, a \in Nat
  <2> QED BY ONLY <2>1, <2>2, <2>3, <2>4, Zenon
<1>15. Extends(value', value, l + prog.n)
  <2>1. Len(value') = (Len(value) + l) + prog.n
    BY <1>14
  <2>2. \A a, b, d \in Nat : (a + b) + d = a + (b + d)
    OBVIOUS
  <2>3. Len(value) \in Nat /\ l \in Nat /\ prog.n \in Nat
    BY <1>2, <1>3, <1>4
  <2>4. Len(value') = Len(value) + (l + prog.n)
    BY ONLY <2>1, <2>2, <2>3, Zenon
  <2> QED BY <2>4, <1>14 DEF Extends
<1>16. \A k \in 1..l : value'[Len(value) + k] = G[k]
  BY <1>12, <1>14
<1>17. grad' \in [Tensors(prog) -> 0..Len(value')]
  <2>1. \A a, b, d \in Nat : \A t \in 1..d : \A g \in 0..a :
          a + b + t \in 0..(a + b + d) /\ g \in 0..(a + b + d)
    OBVIOUS
  <2>2. \A t \in Tensors(prog) : grad[t] \in 0..Len(value)
    BY <1>4
  <2>4. \A t \in 1..prog.n : \A g \in 0..Len(value) :
          /\ Len(value) + l + t \in 0..(Len(value) + l + prog.n)
          /\ g \in 0..(Len(value) + l + prog.n)
    BY ONLY <2>1, <1>2, <1>3, <1>4, Zenon
  <2>3. \A t \in Tensors(prog) : /\ Len(value) + l + t \in 0..Len(value')
                                 /\ grad[t] \in 0..Len(value')
    BY ONLY <2>2, <2>4, <1>2, <1>14, Zenon
  <2> QED BY <2>3, <1>10
<1>18. ASSUME NEW t \in prog.params PROVE Held(t)' = Held(t) + CapturedSlope(c, t) * Weight(c)
  <2>1. t \in Tensors(prog) /\ t \in 1..prog.n /\ t \in Nat
    BY <1>2
  <2>2. CASE t \in Captured(prog, c)
    <3>1. grad'[t] = Len(value) + l + t /\ grad'[t] # 0
      BY <2>1, <2>2, <1>3, <1>4, <1>10
    <3>2. value'[Len(value) + l + t] = Held(t) + prog.capture[c][t] * Weight(c)
      BY <2>1, <2>2, <1>11, <1>13, <1>14
    <3>3. Held(t)' = value'[grad'[t]]
      BY <3>1 DEF Held, None
    <3> QED BY <3>1, <3>2, <3>3, <2>2, <1>7
  <2>3. CASE t \notin Captured(prog, c)
    <3>1. grad'[t] = grad[t] /\ CapturedSlope(c, t) = 0
      BY <2>1, <2>3, <1>10 DEF CapturedSlope
    <3>2. grad[t] # 0 => grad[t] \in 1..Len(value)
      BY <2>1, <1>4
    <3>3. Held(t)' = Held(t)
      BY <3>1, <3>2, <1>14 DEF Held, None
    <3>4. Held(t) \in Nat /\ \A a, b \in Nat : a + 0 * b = a
      BY <2>1, <1>4
    <3> QED BY <3>1, <3>3, <3>4, <1>4
  <2> QED BY <2>2, <2>3
<1>19. \A t \in Tensors(prog) \ prog.params : grad'[t] = grad[t]
  BY <1>10
<1> QED BY <1>3, <1>11, <1>15, <1>16, <1>17, <1>18, <1>19

(* The share at position k, for operand x, is what Spread stores.          *)
Stored(c, l, k, x, m) ==
  /\ c \in tape /\ l \in Nat /\ at \in 1..Len(topo)
  /\ k = SpreadSoFar + 1 /\ SpreadSoFar = l - Len(gradsIn)
  /\ x = prog.ins[c][k] /\ x \in visited /\ \E j \in 1..(at - 1) : topo[j] = x
  /\ Extends(value', value, m)
  /\ gradsIn \in Seq(1..Len(value)) /\ gradsIn # << >>
  /\ gradsIn' = Tail(gradsIn) /\ gradsIn' \in Seq(1..Len(value'))
  /\ DOMAIN gradMap' = DOMAIN gradMap \cup {x}
  /\ \A y \in DOMAIN gradMap' : gradMap'[y] \in 1..Len(value')
  /\ Weight(x)' = Weight(x) + value[gradsIn[1]]
  /\ \A y : y # x => Weight(y)' = Weight(y)

LEMMA SpreadFacts ==
  ASSUME TypedInv, Spread, NEW c, c = Current, NEW l, l = Len(prog.ins[c])
  PROVE  \E k \in 1..l, x \in Tensors(prog), m \in Nat : Stored(c, l, k, x, m)
<1>1. pc = "spread" /\ at > 0 /\ c \in tape /\ Len(gradsIn) \in 1..Len(Inputs(c))
  BY DEF Spread, TypedInv, SortInv, PhaseInv
<1>2. c \in Tensors(prog) /\ Inputs(c) = prog.ins[c] /\ at \in 1..Len(topo) /\ visited = Finished
  BY <1>1, CurrentFacts
<1>3. /\ l \in Nat /\ \A k \in 1..l : prog.ins[c][k] \in Tensors(prog)
  <2>1. WellFormedProgram(prog)
    BY TapeProgram DEF TypedInv
  <2> QED BY <2>1, <1>2, ProgramFacts
<1>4. PICK k \in 1..l : k = l - Len(gradsIn) + 1
  <2>1. \A a \in Nat : \A g \in 1..a : a - g + 1 \in 1..a
    OBVIOUS
  <2> QED BY <2>1, <1>1, <1>2, <1>3
<1>5. PICK x \in Tensors(prog) : x = prog.ins[c][k]
  BY <1>3
<1>6. x \in visited /\ \E j \in 1..(at - 1) : topo[j] = x
  <2>1. topo[at] = c /\ k \in 1..Len(Inputs(topo[at]))
    BY <1>2 DEF Current
  <2>2. \E j \in 1..(at - 1) : topo[j] = Inputs(topo[at])[k]
    BY <2>1, <1>2 DEF TypedInv, SortInv, Sorted
  <2>4. PICK j \in 1..(at - 1) : topo[j] = x
    BY <2>1, <2>2, <1>2, <1>5
  <2>3. j \in 1..Len(topo)
    BY <1>2
  <2> QED BY <2>4, <2>3, <1>2 DEF Finished
<1>7. /\ gradsIn \in Seq(1..Len(value)) /\ value \in Seq(Nat) /\ Len(value) \in Nat
      /\ \A y \in DOMAIN gradMap : gradMap[y] \in 1..Len(value)
      /\ \A g \in 1..Len(value) : value[g] \in Nat
  BY WeightsAreNatural DEF TypedInv, CallTypes
<1>8. /\ gradsIn # << >> /\ gradsIn[1] \in 1..Len(value) /\ Head(gradsIn) = gradsIn[1]
      /\ Tail(gradsIn) \in Seq(1..Len(value))
  <2>1. Len(gradsIn) \in Nat \ {0}
    BY <1>1, <1>2, <1>3
  <2> QED BY ONLY <2>1, <1>7
<1>9. PICK share \in 1..Len(value) : share = gradsIn[1]
  BY <1>8
<1>10. /\ gradsIn' = Tail(gradsIn)
       /\ IF x \in DOMAIN gradMap
          THEN /\ value' = Append(value, value[gradMap[x]] + value[share])
               /\ gradMap' = Store(x, Len(value'))
          ELSE /\ gradMap' = Store(x, share)
               /\ UNCHANGED value
  BY <1>2, <1>4, <1>5, <1>8, <1>9 DEF Spread
<1>11. SpreadSoFar = l - Len(gradsIn) /\ k = SpreadSoFar + 1
  BY <1>2, <1>4 DEF SpreadSoFar
<1>12. CASE x \in DOMAIN gradMap
  <2>1. PICK sum \in Nat : sum = value[gradMap[x]] + value[share]
    BY <1>7, <1>9, <1>12, SMTT(30)
  <2>8. value' = Append(value, sum) /\ gradMap' = Store(x, Len(value'))
    BY <2>1, <1>10, <1>12
  <2>9. /\ Extends(value', value, 1) /\ Len(value') = Len(value) + 1
        /\ value'[Len(value) + 1] = sum
    BY <2>8, <1>7, Appended
  <2>2. /\ Extends(value', value, 1) /\ Len(value') = Len(value) + 1
        /\ value'[Len(value) + 1] = value[gradMap[x]] + value[share]
        /\ gradMap' = [u \in DOMAIN gradMap \cup {x} |-> IF u = x THEN Len(value) + 1 ELSE gradMap[u]]
    BY <2>1, <2>8, <2>9 DEF Store
  <2>3. \A g \in 1..Len(value) : value'[g] = value[g]
    BY <2>2 DEF Extends
  <2>4. Weight(x)' = Weight(x) + value[share]
    BY <2>2, <1>12 DEF Weight
  <2>5. \A y : y # x => Weight(y)' = Weight(y)
    BY <2>2, <2>3, <1>7 DEF Weight
  <2>6. /\ DOMAIN gradMap' = DOMAIN gradMap \cup {x}
        /\ \A y \in DOMAIN gradMap' : gradMap'[y] \in 1..Len(value')
    BY <2>2, <1>7, SMTT(30)
  <2>7. gradsIn' \in Seq(1..Len(value'))
    BY <2>2, <1>7, <1>8, <1>10, SeqOfMore
  <2>10. Stored(c, l, k, x, 1)
    BY <2>2, <2>4, <2>5, <2>6, <2>7, <1>1, <1>2, <1>3, <1>5, <1>6, <1>7, <1>8, <1>9, <1>10, <1>11
       DEF Stored
  <2> QED BY <2>10
<1>13. CASE x \notin DOMAIN gradMap
  <2>1. /\ value' = value
        /\ gradMap' = [u \in DOMAIN gradMap \cup {x} |-> IF u = x THEN share ELSE gradMap[u]]
    BY <1>10, <1>13 DEF Store
  <2>2. Extends(value', value, 0)
    BY <2>1, <1>7 DEF Extends
  <2>3. Weight(x)' = Weight(x) + value[share]
    BY <2>1, <1>7, <1>13 DEF Weight
  <2>4. \A y : y # x => Weight(y)' = Weight(y)
    BY <2>1 DEF Weight
  <2>5. /\ DOMAIN gradMap' = DOMAIN gradMap \cup {x}
        /\ \A y \in DOMAIN gradMap' : gradMap'[y] \in 1..Len(value')
    BY <2>1, <1>7
  <2>6. gradsIn' \in Seq(1..Len(value'))
    BY <2>1, <1>8, <1>10
  <2>7. Stored(c, l, k, x, 0)
    BY <2>2, <2>3, <2>4, <2>5, <2>6, <1>1, <1>2, <1>3, <1>5, <1>6, <1>7, <1>8, <1>9, <1>10, <1>11
       DEF Stored
  <2> QED BY <2>7
<1> QED BY <1>12, <1>13

-----------------------------------------------------------------------------
(* Types                                                                   *)

PowerUnfolds(k, f) == f = [i \in 0..k |-> IF i = 0 THEN 1 ELSE Coefficient * f[i - 1]]

LEMMA PowerIsNatural ==
  ASSUME NEW k \in Nat
  PROVE  Power(k) \in Nat
<1>1. \A a \in Nat : Coefficient * a \in Nat
  BY ClippingAssumption
<1> DEFINE S == {m \in Nat : \E f \in [0..m -> Nat] : PowerUnfolds(m, f)}
<1>2. 0 \in S
  <2>1. PICK f : f = [i \in 0..0 |-> 1]
    OBVIOUS
  <2>2. f \in [0..0 -> Nat] /\ PowerUnfolds(0, f)
    BY <2>1 DEF PowerUnfolds
  <2> QED BY <2>2
<1>3. ASSUME NEW m \in Nat, m \in S PROVE m + 1 \in S
  <2>1. PICK f \in [0..m -> Nat] : PowerUnfolds(m, f)
    BY <1>3
  <2> DEFINE g == [i \in 0..(m + 1) |-> IF i = m + 1 THEN Coefficient * f[m] ELSE f[i]]
  <2>2. g \in [0..(m + 1) -> Nat]
    <3>1. \A i \in 0..(m + 1) : i # m + 1 => f[i] \in Nat
      OBVIOUS
    <3> QED BY <3>1, <1>1, SMTT(30)
  <2>3. ASSUME NEW i \in 0..(m + 1)
        PROVE  g[i] = IF i = 0 THEN 1 ELSE Coefficient * g[i - 1]
    <3>1. CASE i = m + 1
      <4>1. i # 0 /\ i - 1 = m /\ m \in 0..(m + 1) /\ m # m + 1
        BY <3>1
      <4>2. g[i - 1] = f[m] /\ g[i] = Coefficient * f[m]
        BY <3>1, <4>1
      <4> HIDE DEF g
      <4> QED BY <4>1, <4>2
    <3>2. CASE i # m + 1
      <4>1. i \in 0..m /\ (i # 0 => i - 1 \in 0..m /\ i - 1 # m + 1)
        BY <3>2
      <4>2. g[i] = f[i] /\ (i # 0 => g[i - 1] = f[i - 1])
        BY <3>2, <4>1
      <4>3. f[i] = IF i = 0 THEN 1 ELSE Coefficient * f[i - 1]
        BY <2>1, <4>1 DEF PowerUnfolds
      <4> HIDE DEF g
      <4> QED BY <4>2, <4>3
    <3> QED BY <3>1, <3>2
  <2>4. PowerUnfolds(m + 1, g)
    BY <2>3 DEF PowerUnfolds
  <2> HIDE DEF g
  <2> QED BY <2>2, <2>4
<1> HIDE DEF S
<1>4. k \in S
  BY <1>2, <1>3, SetInduction
<1>5. PICK f \in [0..k -> Nat] : PowerUnfolds(k, f)
  BY <1>4 DEF S
<1>6. Power(k) = (CHOOSE h : PowerUnfolds(k, h))[k]
  BY Zenon DEF Power, PowerUnfolds
<1>7. PICK h : h = CHOOSE e : PowerUnfolds(k, e)
  OBVIOUS
<1>8. PowerUnfolds(k, h) /\ Power(k) = h[k]
  BY <1>5, <1>6, <1>7
<1> DEFINE T == {i \in 0..k : h[i] = f[i]}
<1>9. 0 \in T
  BY <1>5, <1>8 DEF PowerUnfolds
<1>10. ASSUME NEW i \in 0..(k - 1), i \in T PROVE i + 1 \in T
  <2>1. i + 1 \in 0..k /\ i + 1 # 0 /\ (i + 1) - 1 = i /\ h[i] = f[i]
    BY <1>10
  <2>2. h[i + 1] = Coefficient * h[i] /\ f[i + 1] = Coefficient * f[i]
    BY <2>1, <1>5, <1>8 DEF PowerUnfolds
  <2> QED BY <2>1, <2>2
<1> HIDE DEF T
<1>11. \A i \in 0..k : i \in T
  BY <1>9, <1>10, BoundedInduction
<1> QED BY <1>8, <1>11 DEF T

LEMMA ClipFacts ==
  ASSUME TypedInv, ClipGrads
  PROVE  /\ value' \in Seq(Nat) /\ Len(value') = Len(value)
         /\ grad' = grad /\ \A t \in Tensors(prog) : due'[t] = Held(t)' /\ Held(t)' \in Nat
<1>1. /\ value \in Seq(Nat) /\ Len(value) \in Nat /\ DOMAIN value = 1..Len(value)
      /\ grad \in [Tensors(prog) -> 0..Len(value)]
      /\ \A g \in 1..Len(value) : value[g] \in Nat
  BY WeightsAreNatural DEF TypedInv, CallTypes
<1>2. ASSUME NEW g \in 1..Len(value)
      PROVE  value[g] * Power(Cardinality({t \in Clipped : grad[t] = g})) \in Nat
  <2>1. PICK S : S = {t \in Clipped : grad[t] = g}
    OBVIOUS
  <2>2. S \subseteq 1..prog.n /\ prog.n \in Nat
    BY <2>1, TapeProgram DEF TypedInv, Clipped
  <2>3. Cardinality(S) \in Nat
    <3>1. IsFiniteSet(1..prog.n)
      BY <2>2, FS_Interval
    <3> QED BY <2>2, <3>1, FS_Subset, FS_CardinalityType
  <2>4. Power(Cardinality(S)) \in Nat /\ \A a, b \in Nat : a * b \in Nat
    BY <2>3, PowerIsNatural
  <2> QED BY <2>1, <2>4, <1>1
<1>3. value' \in [1..Len(value) -> Nat]
  BY <1>1, <1>2 DEF ClipGrads
<1>4. value' \in Seq(Nat) /\ Len(value') = Len(value)
  BY <1>1, <1>3, SequenceByDomain
<1>5. grad' = grad /\ prog' = prog
      /\ due' = [t \in Tensors(prog) |-> IF grad[t] = None THEN 0 ELSE value'[grad[t]]]
  BY DEF ClipGrads, tapeVars
<1>6. ASSUME NEW t \in Tensors(prog) PROVE due'[t] = Held(t)' /\ Held(t)' \in Nat
  <2>1. Held(t)' = IF grad[t] = None THEN 0 ELSE value'[grad[t]]
    BY <1>5 DEF Held, None
  <2>2. grad[t] # 0 => grad[t] \in 1..Len(value)
    BY <1>1
  <2> QED BY <2>1, <2>2, <1>3, <1>5 DEF None
<1> QED BY <1>4, <1>5, <1>6

LEMMA CallTypesInit == ClipInit => CallTypes
<1> SUFFICES ASSUME ClipInit PROVE CallTypes
  OBVIOUS
<1>1. /\ value = << >> /\ visited = {} /\ gradMap = << >> /\ gradsIn = << >>
      /\ grad = [t \in Tensors(prog) |-> 0] /\ due = [t \in Tensors(prog) |-> 0]
  BY DEF ClipInit, Init, None
<1>2. Len(value) = 0 /\ value \in Seq(Nat) /\ DOMAIN gradMap = {} /\ gradsIn \in Seq(1..Len(value))
  BY <1>1
<1> QED BY <1>1, <1>2 DEF CallTypes

(* A step that adds gradients and leaves the sort alone.                   *)
LEMMA TypesWithMore ==
  ASSUME TypedInv, NEW l \in Nat, Extends(value', value, l),
         UNCHANGED <<prog, made, visited>>,
         grad' \in [Tensors(prog) -> 0..Len(value')],
         due' \in [Tensors(prog) -> Nat],
         DOMAIN gradMap' \subseteq visited,
         \A x \in DOMAIN gradMap' : gradMap'[x] \in 1..Len(value'),
         gradsIn' \in Seq(1..Len(value'))
  PROVE  CallTypes'
<1>1. Tensors(prog)' = Tensors(prog)
  BY DEF Tensors
<1> QED BY <1>1 DEF TypedInv, CallTypes, Extends

LEMMA TypesThatStay ==
  ASSUME TypedInv, NEW l \in Nat, Extends(value', value, l)
  PROVE  /\ Len(value') \in Nat /\ Len(value) \in Nat /\ Len(value) <= Len(value')
         /\ grad \in [Tensors(prog) -> 0..Len(value')]
         /\ due \in [Tensors(prog) -> Nat]
         /\ DOMAIN gradMap \subseteq visited
         /\ \A x \in DOMAIN gradMap : gradMap[x] \in 1..Len(value')
         /\ gradsIn \in Seq(1..Len(value'))
<1>1. Len(value') \in Nat /\ Len(value) \in Nat /\ Len(value) <= Len(value')
  BY WeightsAreNatural DEF Extends
<1>2. (\A g \in 0..Len(value) : g \in 0..Len(value')) /\ (\A g \in 1..Len(value) : g \in 1..Len(value'))
  BY <1>1
<1> QED BY <1>1, <1>2, SeqOfMore DEF TypedInv, CallTypes

LEMMA DescendVisits ==
  ASSUME TypedInv, Descend
  PROVE  visited' \subseteq 1..made /\ visited \subseteq visited'
<1>1. frames # << >>
  BY DEF Descend, TypedInv, SortInv, PhaseInv
<1>2. PICK n \in Nat \ {0}, t \in Nat, k \in Nat :
        /\ n = Len(frames) /\ Last(frames) = frames[n]
        /\ t = frames[n].tensor /\ k = frames[n].next /\ k \in 1..(Len(Inputs(t)) + 1)
  BY <1>1, TopFrame DEF TypedInv
<1>3. k <= Len(Inputs(t)) /\ visited' = visited \cup {Inputs(t)[k]}
  BY <1>2 DEF Descend
<1>4. t \in visited /\ visited \subseteq 1..made /\ made \in Nat
  BY <1>2, TapeProgram, SMTT(60) DEF TypedInv, CallTypes, SortInv, StackInv
<1>5. t \in tape
  <2>1. t \notin tape => Len(Inputs(t)) = 0
    BY DEF Inputs
  <2> QED BY <2>1, <1>2, <1>3
<1>6. Inputs(t) = prog.ins[t] /\ k \in 1..Len(prog.ins[t]) /\ t \in Tensors(prog)
  <2>1. Len(Inputs(t)) \in Nat
    BY InputFacts DEF TypedInv, SortInv
  <2> QED BY <2>1, <1>2, <1>3, <1>5, TapeProgram DEF Inputs, TypedInv
<1>7. Inputs(t)[k] \in 1..(t - 1)
  BY <1>6, TapeProgram, ProgramFacts DEF TypedInv
<1>8. Inputs(t)[k] \in 1..made
  BY <1>4, <1>7
<1> QED BY <1>3, <1>4, <1>8

LEMMA CallTypesStep ==
  ASSUME TypedInv, [ClipNext]_clipVars
  PROVE  CallTypes'
<1>0. /\ Extends(value, value, 0) /\ CallTypes /\ Len(value) \in Nat /\ value \in Seq(Nat)
  BY WeightsAreNatural DEF TypedInv, CallTypes, Extends
<1>1. CASE Compute \/ UNCHANGED clipVars
  <2>1. UNCHANGED <<prog, value, visited, grad, due, gradMap, gradsIn>>
    BY <1>1 DEF Compute, engineVars, Forward, CreateLeaf, Operator, Checkpoint, Produce,
       EnterNoGrad, ExitNoGrad, clipVars, vars, tapeVars
  <2>2. made' \in Nat /\ made \in Nat /\ made <= made'
    <3>1. made \in Nat
      BY TapeProgram DEF TypedInv
    <3>2. made' = made \/ made' = made + 1
      BY <1>1 DEF Compute, Forward, CreateLeaf, Operator, Checkpoint, Produce,
         EnterNoGrad, ExitNoGrad, clipVars, vars, tapeVars
    <3> QED BY <3>1, <3>2
  <2>3. visited' \subseteq 1..made'
    <3>1. 1..made \subseteq 1..made'
      BY <2>2
    <3> QED BY <3>1, <2>1, <1>0 DEF CallTypes
  <2> QED BY <2>1, <2>3, <1>0 DEF CallTypes, Tensors
<1>2. ASSUME NEW t \in Tensors(prog), ZeroGrad(t) PROVE CallTypes'
  <2>1. /\ UNCHANGED <<prog, made, visited, value, gradMap, gradsIn>>
        /\ grad' = [grad EXCEPT ![t] = 0] /\ due' = [due EXCEPT ![t] = 0]
    BY <1>2 DEF ZeroGrad, tapeVars, engineVars, None
  <2>2. grad' \in [Tensors(prog) -> 0..Len(value)] /\ due' \in [Tensors(prog) -> Nat]
    BY <2>1, <1>0 DEF CallTypes
  <2> QED BY <2>1, <2>2, <1>0 DEF CallTypes, Tensors
<1>3. ASSUME NEW r \in Tensors(prog), Backward(r) PROVE CallTypes'
  <2>1. /\ value' = Append(value, 1) /\ gradMap' = [t \in {r} |-> Len(value')] /\ visited' = {r}
        /\ UNCHANGED <<prog, made, grad, gradsIn>> /\ r <= made
        /\ due' = [t \in Tensors(prog) |-> due[t] + Owed(r, t)]
    BY <1>3 DEF Backward, tapeVars
  <2>2. Extends(value', value, 1) /\ Len(value') = Len(value) + 1
    BY <2>1, <1>0, Appended
  <2>3. DOMAIN gradMap' = {r} /\ gradMap'[r] = Len(value')
    BY <2>1
  <2>4. r \in 1..made
    BY <2>1, TapeProgram DEF TypedInv
  <2>5. due' \in [Tensors(prog) -> Nat]
    <3>1. \A t \in Tensors(prog) : Owed(r, t) \in Nat /\ due[t] \in Nat
      <4>1. \A t \in prog.params : Derivative(Recorded, t)[r] \in Nat
        BY SlopeIsNatural DEF Slope, TypedInv
      <4> QED BY <4>1, <1>0 DEF Owed, CallTypes
    <3> QED BY <3>1, <2>1
  <2>6. grad \in [Tensors(prog) -> 0..Len(value')] /\ gradsIn \in Seq(1..Len(value'))
        /\ Len(value') \in 1..Len(value')
    <3>1. Len(value') \in 1..Len(value')
      BY <2>2, <1>0
    <3> QED BY <3>1, <2>2, TypesThatStay
  <2>7. value' \in Seq(Nat) /\ Tensors(prog)' = Tensors(prog)
    BY <2>1, <2>2 DEF Extends, Tensors
  <2> QED BY <2>1, <2>3, <2>4, <2>5, <2>6, <2>7 DEF CallTypes
<1>4. CASE Descend
  <2>1. UNCHANGED <<prog, made, value, gradMap, gradsIn, grad, due>>
    BY <1>4 DEF Descend, tapeVars
  <2> QED BY <2>1, <1>0, <1>4, DescendVisits DEF CallTypes, Tensors
<1>5. CASE Finish \/ PassBy \/ (CheckpointFails /\ ~enabled)
  <2>1. UNCHANGED <<prog, made, value, visited, gradMap, gradsIn, grad, due>>
    BY <1>5 DEF Finish, PassBy, CheckpointFails, Walking, tapeVars
  <2> QED BY <2>1, <1>0 DEF CallTypes, Tensors
<1>6. CASE TakeLeaf
  <2>1. PICK c : c = Current
    OBVIOUS
  <2>2. UNCHANGED <<prog, made, visited, gradMap, gradsIn, due>>
    BY <1>6 DEF TakeLeaf, Walking, tapeVars
  <2>3. PICK l \in Nat : Extends(value', value, l) /\ grad' \in [Tensors(prog) -> 0..Len(value')]
    BY <1>6, <2>1, LeafFacts
  <2> QED BY <2>2, <2>3, TypesThatStay, TypesWithMore
<1>7. CASE TakeOperator
  <2>1. PICK c, l : c = Current /\ l = Len(prog.ins[c])
    OBVIOUS
  <2>2. UNCHANGED <<prog, made, visited, gradMap, grad, due>>
    BY <1>7 DEF TakeOperator, Walking, tapeVars
  <2>3. l \in Nat /\ Extends(value', value, l) /\ gradsIn' \in Seq(1..Len(value'))
    BY <1>7, <2>1, OperatorFacts
  <2> QED BY <2>2, <2>3, TypesThatStay, TypesWithMore
<1>8. CASE TakeCheckpoint \/ (CheckpointFails /\ enabled)
  <2>1. PICK c, l : c = Current /\ l = Len(prog.ins[c])
    OBVIOUS
  <2>2. /\ UNCHANGED <<prog, made, visited, gradMap, due>> /\ Walking /\ Recompute
        /\ c \in DOMAIN gradMap /\ c \in tape
        /\ gradsIn' = gradsIn \/ gradsIn' = [k \in DOMAIN prog.ins[c] |-> Len(value) + k]
    BY <1>8, <2>1 DEF TakeCheckpoint, CheckpointFails, Walking, tapeVars
  <2>3. /\ l \in Nat /\ Extends(value', value, l + prog.n)
        /\ grad' \in [Tensors(prog) -> 0..Len(value')]
    BY <2>1, <2>2, RecomputeFacts
  <2>4. l + prog.n \in Nat /\ prog.n \in Nat /\ WellFormedProgram(prog) /\ c \in Tensors(prog)
    BY <2>2, <2>3, TapeProgram DEF TypedInv
  <2>5. gradsIn' \in Seq(1..Len(value'))
    <3>1. CASE gradsIn' = gradsIn
      BY <3>1, <2>3, <2>4, TypesThatStay
    <3>2. CASE gradsIn' = [k \in DOMAIN prog.ins[c] |-> Len(value) + k]
      <4>1. DOMAIN prog.ins[c] = 1..l
        BY <2>1, <2>4, ProgramFacts
      <4>2. Len(value') = Len(value) + (l + prog.n)
        BY <2>3 DEF Extends
      <4>3. \A k \in 1..l : Len(value) + k \in 1..Len(value')
        BY <4>2, <2>3, <2>4, <1>0
      <4>4. gradsIn' \in [1..l -> 1..Len(value')]
        BY <3>2, <4>1, <4>3
      <4> QED BY <4>4, <2>3, SequenceByDomain
    <3> QED BY <2>2, <3>1, <3>2
  <2> QED BY <2>2, <2>3, <2>4, <2>5, TypesThatStay, TypesWithMore
<1>9. CASE Spread
  <2>1. PICK c, l : c = Current /\ l = Len(prog.ins[c])
    OBVIOUS
  <2>2. UNCHANGED <<prog, made, visited, grad, due>>
    BY <1>9, Zenon DEF Spread, tapeVars
  <2>3. PICK k \in 1..l, x \in Tensors(prog), m \in Nat : Stored(c, l, k, x, m)
    BY <1>9, <2>1, SpreadFacts
  <2>5. /\ Extends(value', value, m) /\ gradsIn' \in Seq(1..Len(value'))
        /\ DOMAIN gradMap' = DOMAIN gradMap \cup {x} /\ x \in visited
        /\ \A y \in DOMAIN gradMap' : gradMap'[y] \in 1..Len(value')
    BY <2>3 DEF Stored
  <2>4. /\ grad' \in [Tensors(prog) -> 0..Len(value')] /\ due' \in [Tensors(prog) -> Nat]
        /\ DOMAIN gradMap' \subseteq visited
    BY <2>2, <2>5, TypesThatStay
  <2> QED BY <2>2, <2>4, <2>5, TypesWithMore
<1>10. CASE EndBackward \/ Surface
  <2>1. /\ UNCHANGED <<prog, made, value, grad>>
        /\ visited' = {} /\ gradMap' = << >> /\ gradsIn' = << >>
        /\ due' = due \/ due' = [t \in Tensors(prog) |-> Held(t)]
    BY <1>10 DEF EndBackward, Surface, Leave, tapeVars
  <2>2. due' \in [Tensors(prog) -> Nat]
    BY <2>1, <1>0, WeightsAreNatural DEF CallTypes
  <2>3. DOMAIN gradMap' = {} /\ gradsIn' \in Seq(1..Len(value))
    BY <2>1
  <2> QED BY <2>1, <2>2, <2>3, <1>0 DEF CallTypes, Tensors
<1>11. CASE ClipGrads
  <2>1. UNCHANGED <<prog, made, visited, gradMap, gradsIn>>
        /\ due' = [t \in Tensors(prog) |-> due'[t]]
    BY <1>11 DEF ClipGrads, tapeVars, engineVars
  <2>2. value' \in Seq(Nat) /\ Len(value') = Len(value) /\ grad' = grad
        /\ due' \in [Tensors(prog) -> Nat]
    BY <2>1, <1>11, ClipFacts
  <2> QED BY <2>1, <2>2, <1>0 DEF CallTypes, Tensors
<1> QED BY <1>1, <1>2, <1>3, <1>4, <1>5, <1>6, <1>7, <1>8, <1>9, <1>10, <1>11
        DEF ClipNext, Next, Engine

LEMMA TypedInvariant == ClipSpec => []TypedInv
<1>1. ClipInit => TypedInv
  BY SortInvInit, TapeInvInit, CallTypesInit DEF TypedInv
<1>2. TypedInv /\ [ClipNext]_clipVars => TypedInv'
  BY SortInvStep, TapeInvStep, CallTypesStep DEF TypedInv
<1> QED BY <1>1, <1>2, PTL DEF ClipSpec

-----------------------------------------------------------------------------
(* The balance                                                             *)

LEMMA ProductsAreNatural == \A a, b \in Nat : a * b \in Nat
OBVIOUS

LEMMA SlopeStays ==
  ASSUME NEW t, UNCHANGED <<prog, tape, tracked>>
  PROVE  Slope(t)' = Slope(t)
<1>1. Recorded' = Recorded
  BY DEF Recorded
<1>2. PICK recorded : recorded = Recorded
  OBVIOUS
<1>3. Derivative(recorded, t)' = Derivative(recorded, t)
  BY DEF Derivative, CapturedSlope, Captured, Tensors
<1>4. Slope(t) = Derivative(recorded, t) /\ Slope(t)' = Derivative(recorded, t)'
  BY <1>1, <1>2 DEF Slope
<1> QED BY <1>3, <1>4

LEMMA HeldStays ==
  ASSUME TypedInv, NEW l \in Nat, Extends(value', value, l),
         NEW t \in Tensors(prog), grad'[t] = grad[t]
  PROVE  Held(t)' = Held(t)
<1>1. grad[t] # 0 => grad[t] \in 1..Len(value)
  BY WeightsAreNatural
<1> QED BY <1>1 DEF Held, None, Extends

LEMMA PendingIsNatural ==
  ASSUME TypedInv, NEW t \in prog.params
  PROVE  /\ \A x \in 1..prog.n : Pending(t)[x] \in Nat
         /\ SumTo(Pending(t), prog.n) \in Nat
<1>1. \A x \in 1..prog.n : Weight(x) * Slope(t)[x] \in Nat
  BY WeightsAreNatural, SlopeIsNatural, TapeProgram, ProductsAreNatural DEF TypedInv
<1>2. Tensors(prog) = 1..prog.n /\ prog.n \in Nat
  BY TapeProgram DEF TypedInv
<1>3. \A x \in 1..prog.n : Pending(t)[x] \in Nat
  BY <1>1, <1>2 DEF Pending
<1> QED BY <1>2, <1>3, SumIsNatural

(* The turn of c ends, or its gradient goes to its backward_fn: it no      *)
(* longer counts among what is pending.                                    *)
LEMMA TurnOver ==
  ASSUME TypedInv, Walking, NEW t \in prog.params, NEW c, c = Current,
         NEW l \in Nat, Extends(value', value, l), gradMap' = gradMap,
         pc' \in {"walk", "spread"}, at' = IF pc' = "walk" THEN at - 1 ELSE at
  PROVE  /\ SumTo(Pending(t), prog.n)' \in Nat
         /\ SumTo(Pending(t), prog.n) = SumTo(Pending(t), prog.n)' + Weight(c) * Slope(t)[c]
<1>1. /\ pc = "walk" /\ UNCHANGED <<prog, tape, tracked, topo>>
      /\ at \in 1..Len(topo) /\ Len(topo) \in Nat /\ c \in Tensors(prog) /\ topo[at] = c
  BY WalkFacts DEF Walking, tapeVars, TypedInv, SortInv, SortTypes, Current
<1>2. PICK n \in Nat : n = prog.n /\ Tensors(prog) = 1..n
  BY TapeProgram DEF TypedInv
<1>3. PICK term, other : term = Pending(t) /\ other = Pending(t)'
  OBVIOUS
<1>4. Open = at /\ Open' = at - 1
  BY <1>1 DEF Open
<1>5. \A x : Weight(x)' = Weight(x)
  BY DEF Weight, TypedInv, CallTypes, Extends
<1>6. Slope(t)' = Slope(t)
  BY <1>1, SlopeStays
<1>7. \A x \in 1..n : term[x] = IF \E j \in 1..at : topo[j] = x THEN Weight(x) * Slope(t)[x] ELSE 0
  BY <1>2, <1>3, <1>4 DEF Pending
<1>8. ASSUME NEW x \in 1..n
      PROVE  other[x] = IF \E j \in 1..(at - 1) : topo[j] = x THEN Weight(x) * Slope(t)[x] ELSE 0
  <2>1. Pending(t)'[x] = IF \E j \in 1..Open' : topo'[j] = x THEN Weight(x)' * Slope(t)'[x] ELSE 0
    BY <1>1, <1>2 DEF Pending, Tensors
  <2> QED BY <2>1, <1>1, <1>3, <1>4, <1>5, <1>6
<1>9. ~ \E j \in 1..(at - 1) : topo[j] = c
  <2>1. \A j \in 1..(at - 1) : j \in 1..Len(topo) /\ j # at
    BY <1>1
  <2> QED BY <2>1, <1>1 DEF TypedInv, SortInv, Sorted
<1>10. at \in 1..at /\ \A j \in 1..at : j = at \/ j \in 1..(at - 1)
  BY <1>1
<1>11. \A j \in 1..(at - 1) : j \in 1..at
  BY <1>1
<1>12. \A x \in 1..n : x # c => other[x] = term[x]
  BY <1>1, <1>7, <1>8, <1>10, <1>11
<1>13. other[c] = 0 /\ term[c] = Weight(c) * Slope(t)[c] /\ c \in 1..n
  BY <1>1, <1>2, <1>7, <1>8, <1>9, <1>10, SMTT(30)
<1>14. \A x \in 1..n : term[x] \in Nat /\ other[x] \in Nat
  BY <1>2, <1>3, <1>12, <1>13, PendingIsNatural
<1>15. SumTo(other, n) + term[c] = SumTo(term, n) + other[c]
  BY <1>12, <1>13, <1>14, SumWithOneChanged
<1>16. SumTo(other, n) \in Nat /\ SumTo(term, n) \in Nat
  BY <1>14, SumIsNatural
<1>17. SumTo(Pending(t), prog.n)' = SumTo(other, n) /\ SumTo(Pending(t), prog.n) = SumTo(term, n)
  BY <1>1, <1>2, <1>3
<1> QED BY <1>13, <1>14, <1>15, <1>16, <1>17

(* What backward_fn returned: all its operands are owed on account of c.   *)
LEMMA SharesOfTaken ==
  ASSUME TypedInv, Walking, NEW t \in prog.params, NEW c, c = Current, c \in tape,
         NEW l, l = Len(prog.ins[c]), pc' = "spread", at' = at,
         Len(gradsIn') = l,
         \A k \in 1..l : /\ value'[gradsIn'[k]] \in Nat
                         /\ RequiresGrad(prog.ins[c][k]) =>
                              value'[gradsIn'[k]] = prog.slope[c][k] * Weight(c)
  PROVE  SumTo(Shares(t), Len(Inputs(Current)))' = Weight(c) * SumTo(Slopes(c, Slope(t)), l)
<1>1. /\ UNCHANGED <<prog, tape, tracked, topo>> /\ c \in Tensors(prog) /\ Inputs(c) = prog.ins[c]
  BY WalkFacts DEF Walking, tapeVars
<1>2. /\ WellFormedProgram(prog) /\ l \in Nat /\ DOMAIN prog.ins[c] = 1..l
      /\ \A k \in 1..l : prog.ins[c][k] \in Tensors(prog) /\ prog.slope[c][k] \in Nat
  BY <1>1, TapeProgram, ProgramFacts DEF TypedInv
<1>3. Inputs(Current)' = prog.ins[c]
  BY <1>1 DEF Inputs, Current
<1>4. PICK d : d = Slope(t) /\ d = Slope(t)' /\ d \in [Tensors(prog) -> Nat]
  BY <1>1, SlopeStays, SlopeIsNatural DEF TypedInv
<1>5. PICK w \in Nat : w = Weight(c)
  BY WeightsAreNatural
<1>6. PICK terms, scaled : terms = Slopes(c, d) /\ scaled = Shares(t)'
  OBVIOUS
<1>7. \A k \in 1..l : terms[k] = prog.slope[c][k] * d[prog.ins[c][k]] /\ terms[k] \in Nat
  <2>1. \A k \in 1..l : terms[k] = prog.slope[c][k] * d[prog.ins[c][k]]
    BY <1>2, <1>6 DEF Slopes
  <2>2. \A k \in 1..l : prog.slope[c][k] * d[prog.ins[c][k]] \in Nat
    BY <1>2, <1>4, ProductsAreNatural
  <2> QED BY <2>1, <2>2
<1>8. \A k \in 1..l : scaled[k] = value'[gradsIn'[k]] * d[prog.ins[c][k]]
  <2>1. SpreadSoFar' = 0
    <3>1. SpreadSoFar' = l - l
      BY <1>3 DEF SpreadSoFar
    <3> QED BY <3>1, <1>2
  <2>2. scaled = [k \in DOMAIN prog.ins[c] |->
                    IF k > 0 THEN value'[gradsIn'[k - 0]] * d[prog.ins[c][k]] ELSE 0]
    BY <2>1, <1>3, <1>4, <1>6 DEF Shares
  <2>3. \A k \in 1..l : k > 0 /\ k - 0 = k
    BY <1>2
  <2> QED BY <2>2, <2>3, <1>2
<1>9. ASSUME NEW k \in 1..l PROVE scaled[k] = w * terms[k]
  <2>1. PICK x \in Tensors(prog) : x = prog.ins[c][k]
    BY <1>2
  <2>2. PICK s \in Nat : s = prog.slope[c][k]
    BY <1>2
  <2>3. d[x] \in Nat
    BY <1>4
  <2>4. CASE RequiresGrad(x)
    <3>1. scaled[k] = (s * w) * d[x] /\ terms[k] = s * d[x]
      BY <2>1, <2>2, <2>4, <1>5, <1>7, <1>8
    <3>2. \A a, b, e \in Nat : (a * b) * e = b * (a * e)
      OBVIOUS
    <3>3. (s * w) * d[x] = w * (s * d[x])
      BY ONLY <3>2, <2>3, s \in Nat, w \in Nat, Zenon
    <3> QED BY ONLY <3>1, <3>3, Zenon
  <2>5. CASE ~RequiresGrad(x)
    <3>1. x \notin tape /\ x # t
      BY <2>5 DEF RequiresGrad
    <3>2. d[x] = 0
      BY <3>1, <1>4, SlopeOffTheTape DEF TypedInv
    <3>3. value'[gradsIn'[k]] \in Nat /\ \A a \in Nat : a * 0 = 0
      OBVIOUS
    <3>4. scaled[k] = 0 /\ terms[k] = 0
      BY <3>2, <3>3, <2>1, <2>2, <1>7, <1>8
    <3> QED BY <3>3, <3>4, <1>5
  <2> QED BY <2>4, <2>5
<1>10. SumTo(scaled, l) = w * SumTo(terms, l)
  <2>1. l \in Nat /\ \A k \in 1..l : terms[k] \in Nat /\ scaled[k] = w * terms[k]
    BY <1>2, <1>7, <1>9
  <2> QED BY ONLY <2>1, w \in Nat, SumOfMultiples
<1>11. SumTo(Shares(t), Len(Inputs(Current)))' = SumTo(scaled, l)
  BY <1>3, <1>6
<1> QED BY <1>4, <1>5, <1>6, <1>10, <1>11

LEMMA SharesAreNatural ==
  ASSUME TypedInv, pc = "spread", NEW t \in prog.params, NEW c, c = Current,
         NEW l, l = Len(prog.ins[c])
  PROVE  /\ l \in Nat /\ Inputs(Current) = prog.ins[c]
         /\ Len(gradsIn) \in 1..l /\ SpreadSoFar = l - Len(gradsIn)
         /\ \A k \in 1..l : /\ Shares(t)[k] = IF k > SpreadSoFar
                                              THEN value[gradsIn[k - SpreadSoFar]] * Slope(t)[prog.ins[c][k]]
                                              ELSE 0
                            /\ Shares(t)[k] \in Nat
         /\ SumTo(Shares(t), l) \in Nat
<1>1. /\ at > 0 /\ c \in tape /\ Len(gradsIn) \in 1..Len(Inputs(c))
  BY DEF TypedInv, SortInv, PhaseInv
<1>2. c \in Tensors(prog) /\ Inputs(c) = prog.ins[c]
  BY <1>1, CurrentFacts
<1>3. /\ l \in Nat /\ DOMAIN prog.ins[c] = 1..l
      /\ \A k \in 1..l : prog.ins[c][k] \in Tensors(prog)
  BY <1>2, TapeProgram, ProgramFacts DEF TypedInv
<1>4. Len(gradsIn) \in 1..l /\ SpreadSoFar = l - Len(gradsIn)
  BY <1>1, <1>2 DEF SpreadSoFar
<1>5. \A k \in 1..l : Shares(t)[k] = IF k > SpreadSoFar
                                     THEN value[gradsIn[k - SpreadSoFar]] * Slope(t)[prog.ins[c][k]]
                                     ELSE 0
  BY <1>2, <1>3 DEF Shares
<1>6. ASSUME NEW k \in 1..l PROVE Shares(t)[k] \in Nat
  <2>1. CASE k > SpreadSoFar
    <3>1. k - SpreadSoFar \in 1..Len(gradsIn)
      BY <2>1, <1>3, <1>4
    <3>2. gradsIn[k - SpreadSoFar] \in 1..Len(value)
      BY <3>1, SMTT(30) DEF TypedInv, CallTypes
    <3>3. value[gradsIn[k - SpreadSoFar]] \in Nat /\ Slope(t)[prog.ins[c][k]] \in Nat
      BY <3>2, <1>3, WeightsAreNatural, SlopeIsNatural DEF TypedInv
    <3> QED BY <3>3, <2>1, <1>5, ProductsAreNatural
  <2>2. CASE ~(k > SpreadSoFar)
    BY <2>2, <1>5
  <2> QED BY <2>1, <2>2
<1> QED BY <1>2, <1>3, <1>4, <1>5, <1>6, SumIsNatural

(* A share that is spread moves to what is pending for its operand.        *)
LEMMA SpreadMovesAShare ==
  ASSUME TypedInv, Spread, NEW t \in prog.params
  PROVE  /\ StillOwed(t) \in Nat /\ StillOwed(t)' = StillOwed(t)
         /\ Held(t)' = Held(t) /\ pc' \in {"walk", "spread"}
<1>1. PICK c, l : c = Current /\ l = Len(prog.ins[c])
  OBVIOUS
<1>26. PICK k \in 1..l, x \in Tensors(prog), m \in Nat : Stored(c, l, k, x, m)
  BY <1>1, SpreadFacts
<1>2. /\ c \in tape /\ l \in Nat /\ at \in 1..Len(topo)
      /\ k = SpreadSoFar + 1 /\ SpreadSoFar = l - Len(gradsIn)
      /\ x = prog.ins[c][k] /\ \E j \in 1..(at - 1) : topo[j] = x
      /\ Extends(value', value, m)
      /\ gradsIn \in Seq(1..Len(value)) /\ gradsIn # << >>
      /\ gradsIn' = Tail(gradsIn)
      /\ Weight(x)' = Weight(x) + value[gradsIn[1]]
      /\ \A y : y # x => Weight(y)' = Weight(y)
  BY <1>26 DEF Stored
<1>3. /\ pc = "spread" /\ UNCHANGED <<prog, tape, tracked, topo, grad>>
      /\ IF gradsIn' = << >> THEN pc' = "walk" /\ at' = at - 1 ELSE UNCHANGED <<pc, at>>
  BY Zenon DEF Spread, tapeVars
<1>4. /\ l \in Nat /\ Inputs(c) = prog.ins[c] /\ Inputs(Current) = prog.ins[c]
      /\ Len(gradsIn) \in 1..l
      /\ \A j \in 1..l : /\ Shares(t)[j] = IF j > SpreadSoFar
                                           THEN value[gradsIn[j - SpreadSoFar]] * Slope(t)[prog.ins[c][j]]
                                           ELSE 0
                         /\ Shares(t)[j] \in Nat
      /\ SumTo(Shares(t), l) \in Nat
  BY <1>1, <1>3, SharesAreNatural
<1>5. PICK n \in Nat : n = prog.n /\ Tensors(prog) = 1..n /\ x \in 1..n
  BY TapeProgram DEF TypedInv
<1>6. PICK d : d = Slope(t) /\ d = Slope(t)' /\ d \in [Tensors(prog) -> Nat] /\ d[x] \in Nat
  BY <1>3, SlopeStays, SlopeIsNatural DEF TypedInv
<1>7. /\ \A g \in 1..Len(value) : value[g] \in Nat /\ value'[g] = value[g]
      /\ \A y : Weight(y) \in Nat
      /\ gradsIn[1] \in 1..Len(value) /\ Len(gradsIn') = Len(gradsIn) - 1
      /\ \A j \in 1..(Len(gradsIn) - 1) : gradsIn'[j] = gradsIn[j + 1]
      /\ \A j \in 1..Len(gradsIn) : gradsIn[j] \in 1..Len(value)
      /\ (gradsIn' = << >>) = (Len(gradsIn) = 1)
  <2>1. gradsIn \in Seq(1..Len(value)) /\ gradsIn # << >> /\ gradsIn' = Tail(gradsIn)
    BY <1>2
  <2>2. /\ gradsIn[1] \in 1..Len(value) /\ Len(gradsIn') = Len(gradsIn) - 1
        /\ \A j \in 1..(Len(gradsIn) - 1) : gradsIn'[j] = gradsIn[j + 1]
        /\ \A j \in 1..Len(gradsIn) : gradsIn[j] \in 1..Len(value)
        /\ (gradsIn' = << >>) = (Len(gradsIn) = 1)
    BY <2>1, TailFacts
  <2> QED BY <2>2, <1>2, WeightsAreNatural DEF Extends
<1>24. PICK g \in 1..l, so \in Nat : /\ g = Len(gradsIn) /\ so = SpreadSoFar /\ so = l - g
                                    /\ k = so + 1 /\ l \in Nat
  <2>1. PICK g \in 1..l : g = Len(gradsIn)
    BY <1>4
  <2>2. l \in Nat
    BY <1>4
  <2>3. l - g \in Nat
    BY <2>1, <2>2
  <2> QED BY <2>1, <2>2, <2>3, <1>2
<1>25. /\ so < k /\ k - so = 1 /\ g - 1 \in Nat /\ l - (g - 1) = k
       /\ g = 1 => k = l /\ so = l - 1
       /\ \A j \in 1..l : /\ j < k => ~(j > so) /\ ~(j > k) /\ j # k
                          /\ j > k => /\ j - k \in 1..(g - 1) /\ (j - k) + 1 = j - so
                                      /\ j - so \in 1..g /\ j > so
  <2>1. so = l - g /\ k = so + 1 /\ l \in Nat
    BY <1>24
  <2> QED BY ONLY <2>1
<1>8. PICK moved \in Nat : moved = value[gradsIn[1]] * d[x]
  BY <1>6, <1>7, ProductsAreNatural
<1>9. PICK term, other : term = Pending(t) /\ other = Pending(t)'
  OBVIOUS
<1>10. Open = at - 1 /\ Open' = at - 1
  BY <1>3 DEF Open
<1>11. /\ \A y \in 1..n : term[y] = IF \E j \in 1..(at - 1) : topo[j] = y
                                    THEN Weight(y) * d[y] ELSE 0
       /\ \A y \in 1..n : term[y] \in Nat
  BY <1>5, <1>6, <1>9, <1>10, PendingIsNatural DEF Pending
<1>12. ASSUME NEW y \in 1..n
       PROVE  other[y] = IF \E j \in 1..(at - 1) : topo[j] = y THEN Weight(y)' * d[y] ELSE 0
  <2>1. Pending(t)'[y] = IF \E j \in 1..Open' : topo'[j] = y THEN Weight(y)' * Slope(t)'[y] ELSE 0
    BY <1>3, <1>5 DEF Pending, Tensors
  <2> QED BY <2>1, <1>3, <1>6, <1>9, <1>10
<1>13. ASSUME NEW y \in 1..n, y # x PROVE other[y] = term[y]
  <2>1. Weight(y)' = Weight(y)
    BY <1>2, <1>13
  <2> QED BY <2>1, <1>11, <1>12
<1>14. other[x] = term[x] + moved /\ other[x] \in Nat
  <2>1. other[x] = (Weight(x) + value[gradsIn[1]]) * d[x] /\ term[x] = Weight(x) * d[x]
    BY <1>2, <1>5, <1>11, <1>12
  <2>2. PICK a, b, e \in Nat : a = Weight(x) /\ b = value[gradsIn[1]] /\ e = d[x]
    BY <1>6, <1>7
  <2>3. other[x] = (a + b) * e /\ term[x] = a * e /\ moved = b * e
    BY <2>1, <2>2, <1>8
  <2>4. (a + b) * e = a * e + b * e
    OBVIOUS
  <2>5. other[x] = term[x] + moved
    BY ONLY <2>3, <2>4, Zenon
  <2> QED BY <2>5, <1>5, <1>11
<1>15. SumTo(other, n) = SumTo(term, n) + moved
       /\ SumTo(term, n) \in Nat /\ SumTo(other, n) \in Nat
  <2>1. \A y \in 1..n : term[y] \in Nat /\ other[y] \in Nat
    BY <1>11, <1>13, <1>14
  <2>4. x \in 1..n
    BY <1>5
  <2>2. SumTo(other, n) + term[x] = SumTo(term, n) + other[x]
    BY <2>1, <2>4, <1>13, SumWithOneChanged
  <2>3. SumTo(other, n) \in Nat /\ SumTo(term, n) \in Nat /\ term[x] \in Nat
    BY <2>1, <2>4, SumIsNatural
  <2> QED BY <2>2, <2>3, <1>14
<1>16. PICK shares : shares = Shares(t)
  OBVIOUS
<1>17. PICK rest : rest = [j \in 1..l |-> IF j = k THEN 0 ELSE shares[j]]
  OBVIOUS
<1>18. shares[k] = moved
  <2>1. k > SpreadSoFar /\ k - SpreadSoFar = 1
    BY <1>24, <1>25
  <2> QED BY <2>1, <1>2, <1>4, <1>6, <1>8, <1>16
<1>19. SumTo(shares, l) = SumTo(rest, l) + moved
       /\ SumTo(shares, l) \in Nat /\ SumTo(rest, l) \in Nat
  <2>5. l \in Nat
    BY <1>4
  <2>1. \A j \in 1..l : shares[j] \in Nat /\ rest[j] \in Nat
    BY <1>4, <1>16, <1>17
  <2>2. \A j \in 1..l : j # k => rest[j] = shares[j]
    BY <1>17
  <2>3. SumTo(rest, l) + shares[k] = SumTo(shares, l) + rest[k]
    BY <2>1, <2>2, <2>5, SumWithOneChanged
  <2>4. SumTo(rest, l) \in Nat /\ SumTo(shares, l) \in Nat /\ rest[k] = 0
    BY <2>1, <2>5, <1>17, SumIsNatural
  <2> QED BY <2>3, <2>4, <1>18
<1>20. StillOwed(t) = SumTo(term, n) + SumTo(shares, l)
  BY <1>1, <1>3, <1>4, <1>5, <1>9, <1>16 DEF StillOwed
<1>21. SumTo(Pending(t), prog.n)' = SumTo(other, n)
  BY <1>3, <1>5, <1>9
<1>22. CASE gradsIn' = << >>
  <2>1. pc' = "walk" /\ SpreadSoFar = l - 1 /\ k = l
    BY <1>3, <1>7, <1>22, <1>24, <1>25
  <2>2. \A j \in 1..l : rest[j] = 0
    <3>1. \A j \in 1..l : j # k => ~(j > SpreadSoFar)
      BY <2>1, <1>24
    <3> QED BY <3>1, <1>4, <1>16, <1>17
  <2>3. SumTo(rest, l) = 0
    BY <2>2, <1>4, SumOfZeros
  <2>4. StillOwed(t)' = SumTo(other, n) + 0
    BY <2>1, <1>21 DEF StillOwed
  <2>5. Held(t)' = Held(t)
    BY <1>2, <1>3, TapeProgram, HeldStays DEF TypedInv
  <2> QED BY <2>1, <2>3, <2>4, <2>5, <1>8, <1>15, <1>19, <1>20
<1>23. CASE gradsIn' # << >>
  <2>1. pc' = "spread" /\ at' = at
    BY <1>3, <1>23
  <2>2. Inputs(Current)' = prog.ins[c]
    BY <2>1, <1>1, <1>2, <1>3 DEF Inputs, Current
  <2>3. SpreadSoFar' = k
    <3>1. SpreadSoFar' = l - (Len(gradsIn) - 1)
      BY <2>2, <1>1, <1>7 DEF SpreadSoFar
    <3> QED BY <3>1, <1>24, <1>25
  <2>4. ASSUME NEW j \in 1..l PROVE Shares(t)'[j] = rest[j]
    <3>1. DOMAIN prog.ins[c] = 1..l
      BY <1>1, <1>2, TapeProgram, ProgramFacts DEF TypedInv
    <3>2. Shares(t)'[j] = IF j > k THEN value'[gradsIn'[j - k]] * d[prog.ins[c][j]] ELSE 0
      BY <3>1, <2>2, <2>3, <1>6 DEF Shares
    <3>3. CASE j > k
      <4>1. /\ j - k \in 1..(Len(gradsIn) - 1) /\ (j - k) + 1 = j - SpreadSoFar
            /\ j - SpreadSoFar \in 1..Len(gradsIn) /\ j > SpreadSoFar
        BY <3>3, <1>24, <1>25
      <4>2. gradsIn'[j - k] = gradsIn[j - SpreadSoFar]
        BY <4>1, <1>7
      <4>3. value'[gradsIn'[j - k]] = value[gradsIn[j - SpreadSoFar]]
        BY <4>1, <4>2, <1>7
      <4>4. rest[j] = shares[j]
        BY <3>3, <1>17
      <4> QED BY <4>1, <4>3, <4>4, <3>2, <3>3, <1>4, <1>6, <1>16
    <3>4. CASE j = k
      BY <3>4, <3>2, <1>17
    <3>5. CASE j < k
      <4>1. ~(j > SpreadSoFar) /\ ~(j > k) /\ j # k
        BY <3>5, <1>24, <1>25
      <4> QED BY <4>1, <3>2, <1>4, <1>16, <1>17
    <3> QED BY <3>3, <3>4, <3>5
  <2>5. SumTo(Shares(t)', l) = SumTo(rest, l)
    BY <2>4, <1>4, SumOfEquals
  <2>6. StillOwed(t)' = SumTo(other, n) + SumTo(rest, l)
    <3>1. SumTo(Shares(t), Len(Inputs(Current)))' = SumTo(Shares(t)', l)
      BY <2>2, <1>1
    <3> QED BY <3>1, <2>1, <2>5, <1>21 DEF StillOwed
  <2>7. Held(t)' = Held(t)
    BY <1>2, <1>3, TapeProgram, HeldStays DEF TypedInv
  <2> QED BY <2>1, <2>6, <2>7, <1>8, <1>15, <1>19, <1>20
<1> QED BY <1>22, <1>23

(* When the walk starts, the root's gradient is all there is.              *)
LEMMA WalkStarts ==
  ASSUME TypedInv, Finish, pc' = "walk", NEW t \in prog.params,
         NEW r \in visited, DOMAIN gradMap = {r}, Weight(r) = 1
  PROVE  StillOwed(t)' = Slope(t)[r]
<1>1. UNCHANGED <<prog, tape, tracked, visited, gradMap, value>> /\ pc = "sort"
  BY DEF Finish, tapeVars
<1>2. SortInv'
  BY FinishPreserves DEF TypedInv
<1>3. /\ at' = Len(topo') /\ Len(topo') \in Nat
  <2>1. pc' # pc
    BY <1>1
  <2>2. at' = Len(topo')
    BY <2>1 DEF Finish
  <2> QED BY <2>2, <1>2 DEF SortInv, SortTypes
<1>4. visited = {topo'[j] : j \in 1..Len(topo')}
  <2>1. frames' = << >> /\ Len(frames') = 0
    BY <1>2 DEF SortInv, PhaseInv
  <2>2. visited' = {topo'[j] : j \in 1..Len(topo')} \cup {frames'[i].tensor : i \in 1..0}
    BY <2>1, <1>2 DEF SortInv, StackInv, Finished
  <2>3. {frames'[i].tensor : i \in 1..0} = {}
    OBVIOUS
  <2> QED BY <2>2, <2>3, <1>1
<1>5. PICK n \in Nat : n = prog.n /\ Tensors(prog) = 1..n /\ r \in 1..n
  <2>1. visited \subseteq 1..made /\ made \in 0..prog.n /\ prog.n \in Nat
        /\ Tensors(prog) = 1..prog.n
    BY TapeProgram DEF TypedInv, CallTypes
  <2>2. r \in 1..prog.n
    BY <2>1
  <2> QED BY <2>1, <2>2
<1>6. PICK d : d = Slope(t) /\ d = Slope(t)' /\ d \in [Tensors(prog) -> Nat] /\ d[r] \in Nat
  BY <1>1, <1>5, SlopeStays, SlopeIsNatural DEF TypedInv
<1>7. PICK other, zeros : other = Pending(t)' /\ zeros = [x \in 1..n |-> 0]
  OBVIOUS
<1>8. \A x : Weight(x)' = Weight(x)
  BY <1>1 DEF Weight
<1>9. ASSUME NEW x \in 1..n
      PROVE  other[x] = IF \E j \in 1..Len(topo') : topo'[j] = x THEN Weight(x) * d[x] ELSE 0
  <2>1. Open' = Len(topo')
    BY <1>3 DEF Open
  <2>2. Pending(t)'[x] = IF \E j \in 1..Open' : topo'[j] = x THEN Weight(x)' * Slope(t)'[x] ELSE 0
    BY <1>1, <1>5 DEF Pending, Tensors
  <2> QED BY <2>1, <2>2, <1>6, <1>7, <1>8
<1>10. other[r] = d[r]
  <2>1. 1 * d[r] = d[r]
    BY <1>6
  <2> QED BY <2>1, <1>4, <1>5, <1>9
<1>11. ASSUME NEW x \in 1..n, x # r PROVE other[x] = 0
  <2>1. Weight(x) = 0
    BY <1>11 DEF Weight
  <2>2. d[x] \in Nat /\ \A a \in Nat : 0 * a = 0
    BY <1>5, <1>6
  <2> QED BY <2>1, <2>2, <1>9
<1>12. SumTo(other, n) + zeros[r] = SumTo(zeros, n) + other[r]
  <2>1. \A x \in 1..n : zeros[x] \in Nat /\ other[x] \in Nat
    BY <1>6, <1>7, <1>10, <1>11
  <2>2. \A x \in 1..n : x # r => other[x] = zeros[x]
    BY <1>7, <1>11
  <2> QED BY <2>1, <2>2, <1>5, SumWithOneChanged, SMTT(30)
<1>13. zeros[r] = 0 /\ SumTo(zeros, n) = 0
  <2>1. \A x \in 1..n : zeros[x] = 0
    BY <1>7
  <2> QED BY <2>1, <1>5, SumOfZeros
<1>14. SumTo(other, n) \in Nat
  <2>1. \A x \in 1..n : other[x] \in Nat
    BY <1>6, <1>10, <1>11
  <2> QED BY <2>1, SumIsNatural
<1>15. StillOwed(t)' = SumTo(other, n) + 0
  <2>1. SumTo(Pending(t), prog.n)' = SumTo(other, n)
    BY <1>1, <1>5, <1>7
  <2> QED BY <2>1 DEF StillOwed
<1> QED BY <1>6, <1>10, <1>12, <1>13, <1>14, <1>15

(* When it ends, nothing is pending.                                       *)
LEMMA WalkEnds ==
  ASSUME TypedInv, pc = "walk", at = 0, NEW t \in prog.params
  PROVE  StillOwed(t) = 0
<1>1. prog.n \in Nat /\ Tensors(prog) = 1..prog.n
  BY TapeProgram DEF TypedInv
<1>2. \A x \in 1..prog.n : Pending(t)[x] = 0
  <2>1. Open = 0 /\ 1..0 = {}
    BY DEF Open
  <2> QED BY <2>1, <1>1 DEF Pending
<1>3. SumTo(Pending(t), prog.n) = 0
  BY <1>1, <1>2, SumOfZeros
<1> QED BY <1>3 DEF StillOwed

-----------------------------------------------------------------------------
(* Every step keeps the balance                                            *)

LEMMA BalancedInTheWalk ==
  ASSUME NEW t, pc' \in {"walk", "spread"},
         enabled' => Held(t)' + StillOwed(t)' = due'[t],
         ~enabled' => Held(t)' = due'[t]
  PROVE  Balanced(t)'
BY DEF Balanced

(* Between two calls.                                                      *)
LEMMA CallerKeepsBalance ==
  ASSUME TypedInv, BalanceInv, NEW t \in prog.params,
         Compute \/ \E u \in Tensors(prog) : ZeroGrad(u)
  PROVE  Balanced(t)'
<1>1. /\ Held(t) \in Nat /\ Held(t) = due[t] /\ t \in Tensors(prog) /\ pc' = "caller"
      /\ due \in [Tensors(prog) -> Nat] /\ grad \in [Tensors(prog) -> 0..Len(value)]
  BY TapeProgram, WeightsAreNatural
     DEF BalanceInv, Balanced, Compute, ZeroGrad, engineVars, TypedInv, CallTypes
<1>2. CASE Compute
  <2>1. Held(t)' = Held(t) /\ due'[t] = due[t]
    BY <1>2 DEF Compute, Held
  <2> QED BY <1>1, <2>1 DEF Balanced
<1>3. ASSUME NEW u \in Tensors(prog), ZeroGrad(u) PROVE Balanced(t)'
  <2>1. value' = value /\ grad' = [grad EXCEPT ![u] = None] /\ due' = [due EXCEPT ![u] = 0]
    BY <1>3 DEF ZeroGrad
  <2>2. Held(t)' = due'[t]
    <3>1. CASE t = u
      <4>1. grad'[t] = None /\ due'[t] = 0
        BY <3>1, <2>1, <1>1
      <4> QED BY <4>1 DEF Held
    <3>2. CASE t # u
      <4>1. grad'[t] = grad[t] /\ due'[t] = due[t]
        BY <3>2, <2>1, <1>1
      <4> QED BY <4>1, <2>1, <1>1 DEF Held
    <3> QED BY <3>1, <3>2
  <2> QED BY <1>1, <2>2 DEF Balanced
<1> QED BY <1>2, <1>3

LEMMA BackwardOwesTheSlope ==
  ASSUME TypedInv, BalanceInv, NEW t \in prog.params, NEW r \in Tensors(prog), Backward(r)
  PROVE  Balanced(t)'
<1>1. /\ pc = "caller" /\ pc' = "sort" /\ visited' = {r} /\ gradMap' = [x \in {r} |-> Len(value')]
      /\ value' = Append(value, 1) /\ UNCHANGED <<prog, tape, tracked, enabled, grad>>
      /\ due' = [x \in Tensors(prog) |-> due[x] + Owed(r, x)]
  BY DEF Backward, tapeVars
<1>2. t \in Tensors(prog) /\ value \in Seq(Nat) /\ Held(t) \in Nat /\ Held(t) = due[t]
  BY <1>1, TapeProgram, WeightsAreNatural DEF TypedInv, CallTypes, BalanceInv, Balanced
<1>3. Extends(value', value, 1) /\ Len(value') = Len(value) + 1 /\ value'[Len(value) + 1] = 1
  BY <1>1, <1>2, Appended
<1>4. Held(t)' = Held(t)
  BY <1>1, <1>2, <1>3, HeldStays
<1>5. DOMAIN gradMap' = {r} /\ Weight(r)' = 1 /\ r \in visited'
  BY <1>1, <1>3 DEF Weight
<1>6. due'[t] = due[t] + (IF enabled THEN Slope(t)[r] ELSE 0) /\ Slope(t)[r] \in Nat
  BY <1>1, <1>2, SlopeIsNatural DEF Owed, Slope, TypedInv
<1>7. Slope(t)' = Slope(t)
  BY <1>1, SlopeStays
<1>8. ~enabled => Held(t)' = due'[t]
  BY <1>2, <1>4, <1>6
<1>9. enabled => Held(t)' + Slope(t)'[r] = due'[t]
  BY <1>2, <1>4, <1>6, <1>7
<1> QED BY <1>1, <1>5, <1>8, <1>9 DEF Balanced

LEMMA SortKeepsBalance ==
  ASSUME TypedInv, BalanceInv, NEW t \in prog.params, Descend \/ Finish
  PROVE  Balanced(t)'
<1>1. /\ pc = "sort" /\ UNCHANGED <<prog, tape, tracked, enabled, grad, value, due, gradMap>>
      /\ visited \subseteq visited' /\ pc' \in {"sort", "walk"} /\ (Descend => pc' = pc)
  BY DescendVisits DEF Descend, Finish, tapeVars
<1>2. Held(t)' = Held(t) /\ Slope(t)' = Slope(t) /\ \A x : Weight(x)' = Weight(x)
  BY <1>1, SlopeStays DEF Held, Weight
<1>3. ~enabled => Held(t)' = due'[t]
  BY <1>1, <1>2 DEF BalanceInv, Balanced
<1>4. CASE pc' = "sort"
  BY <1>1, <1>2, <1>3, <1>4 DEF BalanceInv, Balanced
<1>5. CASE pc' = "walk"
  <2>1. ASSUME enabled PROVE Held(t)' + StillOwed(t)' = due'[t]
    <3>1. PICK r \in visited : DOMAIN gradMap = {r} /\ Weight(r) = 1 /\ Held(t) + Slope(t)[r] = due[t]
      BY <1>1, <2>1 DEF BalanceInv, Balanced
    <3>2. Finish
      BY <1>1, <1>5
    <3>3. StillOwed(t)' = Slope(t)[r]
      BY <1>5, <3>1, <3>2, WalkStarts
    <3> QED BY <1>1, <1>2, <3>1, <3>3
  <2> QED BY <1>1, <1>3, <1>5, <2>1, BalancedInTheWalk
<1> QED BY <1>1, <1>4, <1>5

(* A turn that ends without handing on: nothing was owed there.            *)
LEMMA TurnKeepsBalance ==
  ASSUME TypedInv, BalanceInv, NEW t \in prog.params, PassBy \/ TakeLeaf
  PROVE  Balanced(t)'
<1>1. PICK c : c = Current
  OBVIOUS
<1>2. /\ Walking /\ UNCHANGED <<gradMap, pc, enabled, due>> /\ at' = at - 1
      /\ pc = "walk" /\ pc' = "walk" /\ c \in Tensors(prog) /\ t \in Tensors(prog)
      /\ Held(t) \in Nat
  BY <1>1, WalkFacts, TapeProgram, WeightsAreNatural
     DEF PassBy, TakeLeaf, Walking, tapeVars, TypedInv
<1>3. Extends(value, value, 0)
  BY DEF TypedInv, CallTypes, Extends
<1>4. PICK l \in Nat : Extends(value', value, l)
  BY <1>1, <1>3, LeafFacts DEF PassBy
<1>5. PICK w \in Nat : w = Weight(c)
  BY WeightsAreNatural
<1>6. PICK s \in [Tensors(prog) -> Nat] : s = Slope(t) /\ s[t] = 1
  BY SlopeIsNatural DEF TypedInv
<1>7. /\ SumTo(Pending(t), prog.n)' \in Nat
      /\ SumTo(Pending(t), prog.n) = SumTo(Pending(t), prog.n)' + w * s[c]
  BY <1>1, <1>2, <1>4, <1>5, <1>6, TurnOver
<1>8. StillOwed(t) = SumTo(Pending(t), prog.n) /\ StillOwed(t)' = SumTo(Pending(t), prog.n)'
  <2>1. PICK p, q : p = SumTo(Pending(t), prog.n) /\ q = SumTo(Pending(t), prog.n)'
    OBVIOUS
  <2>2. p \in Nat /\ q \in Nat
    BY <2>1, <1>7, PendingIsNatural
  <2>3. StillOwed(t) = p + 0 /\ StillOwed(t)' = q + 0
    BY <1>2, <2>1 DEF StillOwed
  <2> QED BY <2>1, <2>2, <2>3
<1>9. /\ enabled => Held(t) + StillOwed(t) = due[t]
      /\ ~enabled => Held(t) = due[t]
  BY <1>2 DEF BalanceInv, Balanced
<1>10. CASE PassBy
  <2>1. value' = value /\ grad' = grad
    BY <1>10 DEF PassBy
  <2>2. Held(t)' = Held(t)
    BY <2>1 DEF Held
  <2>3. ASSUME enabled PROVE w * s[c] = 0
    <3>1. CASE c \notin DOMAIN gradMap
      <4>1. w = 0 /\ s[c] \in Nat
        BY <3>1, <1>2, <1>5, <1>6 DEF Weight
      <4> QED BY <4>1
    <3>2. CASE c \in DOMAIN gradMap
      <4>1. c \notin tape /\ c # t
        BY <3>2, <2>3, <1>1, <1>10 DEF PassBy, Accumulates
      <4>2. s[c] = 0
        BY <4>1, <1>2, <1>6, SlopeOffTheTape DEF TypedInv
      <4> QED BY <4>2
    <3> QED BY <3>1, <3>2
  <2>4. enabled => Held(t)' + StillOwed(t)' = due'[t]
    BY <1>2, <1>7, <1>8, <1>9, <2>2, <2>3
  <2> QED BY <1>2, <1>9, <2>2, <2>4, BalancedInTheWalk
<1>11. CASE TakeLeaf
  <2>1. c \in prog.params /\ enabled /\ Held(c)' = Held(c) + w
        /\ \A u \in Tensors(prog) \ {c} : grad'[u] = grad[u]
    BY <1>1, <1>5, <1>11, LeafFacts
  <2>2. PICK h, p, q \in Nat : h = Held(t) /\ p = SumTo(Pending(t), prog.n)
                               /\ q = SumTo(Pending(t), prog.n)'
    BY <1>2, <1>7, PendingIsNatural
  <2>3. h + p = due[t] /\ p = q + w * s[c]
    BY <1>7, <1>8, <1>9, <2>1, <2>2
  <2>4. Held(t)' + q = due[t]
    <3>1. CASE c = t
      <4>1. w * s[c] = w /\ Held(t)' = h + w
        BY <3>1, <1>6, <2>1, <2>2
      <4> QED BY <2>3, <4>1
    <3>2. CASE c # t
      <4>1. c \notin tape
        BY <2>1, TapeProgram DEF TypedInv
      <4>2. s[c] = 0
        BY <3>2, <4>1, <1>2, <1>6, SlopeOffTheTape DEF TypedInv
      <4>3. Held(t)' = h
        BY <3>2, <1>2, <1>4, <2>1, <2>2, HeldStays
      <4> QED BY <2>3, <4>2, <4>3
    <3> QED BY <3>1, <3>2
  <2> QED BY <1>2, <1>8, <2>1, <2>2, <2>4, BalancedInTheWalk
<1> QED BY <1>10, <1>11

LEMMA OperatorKeepsBalance ==
  ASSUME TypedInv, BalanceInv, NEW t \in prog.params, TakeOperator
  PROVE  Balanced(t)'
<1>1. PICK c, l : c = Current /\ l = Len(prog.ins[c])
  OBVIOUS
<1>2. /\ Walking /\ UNCHANGED <<prog, gradMap, grad, at, enabled, due>>
      /\ pc = "walk" /\ pc' = "spread" /\ t \in Tensors(prog) /\ Held(t) \in Nat
  BY <1>1, WalkFacts, TapeProgram, WeightsAreNatural
     DEF TakeOperator, Walking, tapeVars, TypedInv
<1>3. /\ c \in tape \ prog.ckpt /\ l \in Nat /\ Extends(value', value, l)
      /\ gradsIn' \in Seq(1..Len(value')) /\ Len(gradsIn') = l
      /\ \A k \in 1..l : value'[gradsIn'[k]] = prog.slope[c][k] * Weight(c)
  BY <1>1, OperatorFacts
<1>4. PICK w \in Nat : w = Weight(c)
  BY WeightsAreNatural
<1>5. \A k \in 1..l : value'[gradsIn'[k]] \in Nat
  <2>1. WellFormedProgram(prog) /\ c \in Tensors(prog)
    BY <1>3, TapeProgram DEF TypedInv
  <2>2. \A k \in 1..l : prog.slope[c][k] \in Nat
    BY <1>1, <2>1, ProgramFacts
  <2>3. \A k \in 1..l : prog.slope[c][k] * w \in Nat
    BY <2>2, ProductsAreNatural
  <2> QED BY <1>3, <1>4, <2>3
<1>6. PICK s : s = SumTo(Slopes(c, Slope(t)), l)
  OBVIOUS
<1>7. SumTo(Shares(t), Len(Inputs(Current)))' = w * s
  BY <1>1, <1>2, <1>3, <1>4, <1>5, <1>6, SharesOfTaken
<1>8. Slope(t)[c] = s /\ s \in Nat
  <2>1. WellFormedProgram(prog) /\ c \in Tensors(prog) /\ Slope(t) \in [Tensors(prog) -> Nat]
    BY <1>3, TapeProgram, SlopeIsNatural DEF TypedInv
  <2>2. CapturedSlope(c, t) = 0
    BY <1>3, <2>1, CapturedSlopeIsNatural
  <2>3. Slope(t)[c] \in Nat
    BY <2>1
  <2>4. \A k \in 1..l : Slopes(c, Slope(t))[k] \in Nat
    <3>1. \A k \in 1..l : prog.slope[c][k] \in Nat /\ Slope(t)[prog.ins[c][k]] \in Nat
      BY <1>1, <2>1, ProgramFacts
    <3>2. DOMAIN prog.ins[c] = 1..l
      BY <1>1, <2>1, ProgramFacts
    <3> QED BY <3>1, <3>2, ProductsAreNatural DEF Slopes
  <2>5. s \in Nat
    BY <1>3, <1>6, <2>4, SumIsNatural
  <2>6. Slope(t)[c] = CapturedSlope(c, t) + s
    BY <1>1, <1>3, <1>6, SlopeOnTheTape DEF TypedInv
  <2> QED BY <2>2, <2>5, <2>6
<1>9. /\ SumTo(Pending(t), prog.n)' \in Nat
      /\ SumTo(Pending(t), prog.n) = SumTo(Pending(t), prog.n)' + w * s
  BY <1>1, <1>2, <1>3, <1>4, <1>8, TurnOver
<1>10. PICK p, q \in Nat : p = SumTo(Pending(t), prog.n) /\ q = SumTo(Pending(t), prog.n)'
  BY <1>9, PendingIsNatural
<1>11. StillOwed(t) = p + 0 /\ StillOwed(t)' = q + w * s
  BY <1>2, <1>7, <1>10 DEF StillOwed
<1>12. StillOwed(t)' = StillOwed(t)
  BY <1>9, <1>10, <1>11
<1>13. Held(t)' = Held(t)
  BY <1>2, <1>3, HeldStays
<1> QED BY <1>2, <1>12, <1>13, BalancedInTheWalk DEF BalanceInv, Balanced

(* What the second run of fn leaves behind is on its account: the captured *)
(* parameters have theirs, the inputs' is about to be spread.              *)
Recomputed(t, c, l, w, cap, s) ==
  /\ s = SumTo(Slopes(c, Slope(t)), l)
  /\ Slope(t)[c] = cap + s
  /\ Held(t) \in Nat /\ Held(t)' = Held(t) + cap * w
  /\ Held(t) + SumTo(Pending(t), prog.n) = due[t]

LEMMA RecomputeOwes ==
  ASSUME TypedInv, BalanceInv, NEW t \in prog.params, Walking, Recompute, enabled,
         NEW c \in DOMAIN gradMap, c = Current, c \in tape, NEW l, l = Len(prog.ins[c]),
         NEW w \in Nat, w = Weight(c)
  PROVE  \E cap, s \in Nat : Recomputed(t, c, l, w, cap, s)
<1>1. PICK cap, s : cap = CapturedSlope(c, t) /\ s = SumTo(Slopes(c, Slope(t)), l)
  OBVIOUS
<1>2. /\ WellFormedProgram(prog) /\ c \in Tensors(prog) /\ t \in Tensors(prog)
      /\ Slope(t) \in [Tensors(prog) -> Nat] /\ pc = "walk" /\ Held(t) \in Nat
  BY TapeProgram, SlopeIsNatural, WeightsAreNatural DEF TypedInv, Walking
<1>3. cap \in Nat
  BY <1>1, <1>2, CapturedSlopeIsNatural
<1>4. s \in Nat
  <2>1. l \in Nat /\ DOMAIN prog.ins[c] = 1..l
        /\ \A k \in 1..l : prog.slope[c][k] \in Nat /\ Slope(t)[prog.ins[c][k]] \in Nat
    BY <1>2, ProgramFacts
  <2>2. \A k \in 1..l : Slopes(c, Slope(t))[k] \in Nat
    BY <2>1, ProductsAreNatural DEF Slopes
  <2> QED BY <1>1, <2>1, <2>2, SumIsNatural
<1>5. Slope(t)[c] = cap + s
  BY <1>1, SlopeOnTheTape DEF TypedInv
<1>6. Held(t)' = Held(t) + cap * w
  BY <1>1, RecomputeFacts
<1>7. PICK p \in Nat : p = SumTo(Pending(t), prog.n)
  BY PendingIsNatural
<1>8. Held(t) + StillOwed(t) = due[t] /\ StillOwed(t) = p + 0
  BY <1>2, <1>7 DEF BalanceInv, Balanced, StillOwed
<1> QED BY <1>1, <1>2, <1>3, <1>4, <1>5, <1>6, <1>7, <1>8 DEF Recomputed

LEMMA CheckpointKeepsBalance ==
  ASSUME TypedInv, BalanceInv, NEW t \in prog.params, TakeCheckpoint
  PROVE  Balanced(t)'
<1>1. PICK c, l : c = Current /\ l = Len(prog.ins[c])
  OBVIOUS
<1>2. /\ Walking /\ UNCHANGED <<prog, gradMap, at, enabled, due>> /\ Recompute /\ enabled
      /\ pc = "walk" /\ pc' = "spread" /\ c \in DOMAIN gradMap /\ c \in tape
      /\ gradsIn' = [k \in DOMAIN prog.ins[c] |-> Len(value) + k] /\ Unanswered = {}
  BY <1>1, WalkFacts DEF TakeCheckpoint, Walking, tapeVars
<1>3. PICK w \in Nat : w = Weight(c)
  BY WeightsAreNatural
<1>4. /\ l \in Nat /\ Extends(value', value, l + prog.n)
      /\ \A k \in 1..l : value'[Len(value) + k] =
           IF RequiresGrad(prog.ins[c][k]) THEN prog.slope[c][k] * w ELSE 0
  BY <1>1, <1>2, <1>3, RecomputeFacts
<1>5. PICK cap, s \in Nat : Recomputed(t, c, l, w, cap, s)
  BY <1>1, <1>2, <1>3, RecomputeOwes
<1>6. WellFormedProgram(prog) /\ c \in Tensors(prog) /\ prog.n \in Nat /\ l + prog.n \in Nat
  BY <1>2, <1>4, TapeProgram DEF TypedInv
<1>7. /\ Len(gradsIn') = l
      /\ \A k \in 1..l : /\ value'[gradsIn'[k]] \in Nat
                         /\ RequiresGrad(prog.ins[c][k]) =>
                              value'[gradsIn'[k]] = prog.slope[c][k] * w
  <2>1. DOMAIN prog.ins[c] = 1..l /\ \A k \in 1..l : prog.slope[c][k] \in Nat
    BY <1>1, <1>6, ProgramFacts
  <2>2. gradsIn' \in [1..l -> Nat] /\ \A k \in 1..l : gradsIn'[k] = Len(value) + k
    BY <1>2, <2>1, WeightsAreNatural
  <2>3. Len(gradsIn') = l
    BY <1>4, <2>2, SequenceByDomain
  <2>4. \A k \in 1..l : prog.slope[c][k] * w \in Nat
    BY <2>1, ProductsAreNatural
  <2> QED BY <1>4, <2>2, <2>3, <2>4
<1>8. SumTo(Shares(t), Len(Inputs(Current)))' = w * s
  BY <1>1, <1>2, <1>3, <1>5, <1>7, SharesOfTaken, ZenonT(60) DEF Recomputed
<1>9. /\ SumTo(Pending(t), prog.n)' \in Nat
      /\ SumTo(Pending(t), prog.n) = SumTo(Pending(t), prog.n)' + w * (cap + s)
  BY <1>1, <1>2, <1>3, <1>4, <1>5, <1>6, TurnOver DEF Recomputed
<1>10. PICK p, q \in Nat : p = SumTo(Pending(t), prog.n) /\ q = SumTo(Pending(t), prog.n)'
  BY <1>9, PendingIsNatural
<1>11. StillOwed(t)' = q + w * s
  BY <1>2, <1>8, <1>10 DEF StillOwed
<1>12. PICK h \in Nat : h = Held(t)
  BY <1>5 DEF Recomputed
<1>13. w * (cap + s) = cap * w + w * s
  OBVIOUS
<1>14. cap * w \in Nat /\ w * s \in Nat
  BY ProductsAreNatural
<1>15. Held(t)' = h + cap * w /\ h + p = due[t] /\ p = q + (cap * w + w * s)
  BY <1>5, <1>9, <1>10, <1>12, <1>13 DEF Recomputed
<1>16. Held(t)' + StillOwed(t)' = due[t]
  BY <1>11, <1>14, <1>15
<1> QED BY <1>2, <1>16, BalancedInTheWalk

(* What has arrived at the current tensor is a part of what is pending.    *)
LEMMA CurrentIsPending ==
  ASSUME TypedInv, Walking, NEW t \in prog.params, NEW c, c = Current
  PROVE  \E q \in Nat : SumTo(Pending(t), prog.n) = q + Weight(c) * Slope(t)[c]
<1>1. PICK n \in Nat : n = prog.n /\ Tensors(prog) = 1..n
  BY TapeProgram DEF TypedInv
<1>2. c \in 1..n /\ at \in 1..at /\ Open = at /\ topo[at] = c
  BY <1>1, WalkFacts DEF Open, Current, TypedInv, SortInv, SortTypes
<1>3. PICK term : term = Pending(t)
  OBVIOUS
<1>4. term[c] = Weight(c) * Slope(t)[c] /\ \A x \in 1..n : term[x] \in Nat
  BY <1>1, <1>2, <1>3, PendingIsNatural DEF Pending
<1>5. PICK other : other = [x \in 1..n |-> IF x = c THEN 0 ELSE term[x]]
  OBVIOUS
<1>6. /\ \A x \in 1..n : other[x] \in Nat
      /\ \A x \in 1..n : x # c => other[x] = term[x]
      /\ other[c] = 0
  BY <1>2, <1>4, <1>5
<1>7. SumTo(other, n) + term[c] = SumTo(term, n) + other[c]
  BY <1>2, <1>4, <1>6, SumWithOneChanged
<1>8. SumTo(other, n) \in Nat /\ SumTo(term, n) \in Nat
  BY <1>4, <1>6, SumIsNatural
<1> QED BY <1>1, <1>2, <1>3, <1>4, <1>6, <1>7, <1>8

LEMMA FailureKeepsBalance ==
  ASSUME TypedInv, BalanceInv, NEW t \in prog.params, CheckpointFails
  PROVE  Balanced(t)'
<1>1. PICK c, l : c = Current /\ l = Len(prog.ins[c])
  OBVIOUS
<1>2. /\ Walking /\ UNCHANGED <<prog, tape, tracked, enabled, due, topo>> /\ pc' = "raised"
      /\ pc = "walk" /\ c \in DOMAIN gradMap /\ c \in tape /\ at \in 1..Len(topo)
      /\ IF enabled THEN Recompute ELSE UNCHANGED <<value, grad>>
  BY <1>1, WalkFacts DEF CheckpointFails, Walking, tapeVars
<1>3. CASE ~enabled
  <2>1. Held(t)' = Held(t) /\ Held(t) \in Nat /\ Held(t) = due[t]
    BY <1>2, <1>3, TapeProgram, WeightsAreNatural DEF Held, BalanceInv, Balanced, TypedInv
  <2> QED BY <1>2, <1>3, <2>1 DEF Balanced
<1>4. CASE enabled
  <2>1. PICK w \in Nat : w = Weight(c)
    BY WeightsAreNatural
  <2>2. PICK cap, s \in Nat : Recomputed(t, c, l, w, cap, s)
    BY <1>1, <1>2, <1>4, <2>1, RecomputeOwes
  <2>3. PICK p \in Nat : p = SumTo(Pending(t), prog.n)
    BY PendingIsNatural
  <2>4. \E q \in Nat : p = q + w * (cap + s)
    BY <1>1, <1>2, <2>1, <2>2, <2>3, CurrentIsPending DEF Recomputed
  <2>5. w * (cap + s) = cap * w + w * s /\ cap * w \in Nat /\ w * s \in Nat
    BY ProductsAreNatural
  <2>6. Held(t)' <= due[t]
    BY <2>2, <2>3, <2>4, <2>5 DEF Recomputed
  <2> QED BY <1>2, <1>4, <2>6 DEF Balanced
<1> QED BY <1>3, <1>4

LEMMA SpreadKeepsBalance ==
  ASSUME TypedInv, BalanceInv, NEW t \in prog.params, Spread
  PROVE  Balanced(t)'
<1>1. /\ pc = "spread" /\ enabled' = enabled /\ due' = due
  BY DEF Spread, tapeVars
<1>2. /\ StillOwed(t)' = StillOwed(t) /\ Held(t)' = Held(t) /\ pc' \in {"walk", "spread"}
  BY SpreadMovesAShare
<1> QED BY <1>1, <1>2, BalancedInTheWalk DEF BalanceInv, Balanced

LEMMA ReturnKeepsBalance ==
  ASSUME TypedInv, BalanceInv, NEW t \in prog.params, EndBackward \/ Surface \/ ClipGrads
  PROVE  Balanced(t)'
<1>1. t \in Tensors(prog) /\ Held(t) \in Nat
  BY TapeProgram, WeightsAreNatural DEF TypedInv
<1>2. pc' = "caller"
  BY DEF EndBackward, Surface, Leave, ClipGrads, engineVars
<1>3. CASE EndBackward
  <2>1. pc = "walk" /\ at = 0 /\ due' = due /\ Held(t)' = Held(t)
    BY <1>3 DEF EndBackward, Leave, Held
  <2>2. StillOwed(t) = 0
    BY <2>1, WalkEnds
  <2>3. Held(t)' = due'[t]
    BY <1>1, <2>1, <2>2 DEF BalanceInv, Balanced
  <2> QED BY <1>2, <2>3 DEF Balanced
<1>4. CASE Surface
  <2>1. due'[t] = Held(t) /\ Held(t)' = Held(t)
    BY <1>1, <1>4 DEF Surface, Leave, Held
  <2> QED BY <1>2, <2>1 DEF Balanced
<1>5. CASE ClipGrads
  BY <1>1, <1>2, <1>5, ClipFacts DEF Balanced
<1> QED BY <1>3, <1>4, <1>5

(* A tensor that is no parameter never holds a gradient: backward() leaves *)
(* one on leaves that asked for it, and on the parameters fn captures.     *)
LEMMA OthersHoldNothing ==
  ASSUME TypedInv, BalanceInv, [ClipNext]_clipVars, NEW t \in Tensors(prog) \ prog.params
  PROVE  grad'[t] = None /\ due'[t] = 0
<1>1. /\ grad[t] = None /\ due[t] = 0 /\ Held(t) = 0
      /\ due \in [Tensors(prog) -> Nat] /\ grad \in [Tensors(prog) -> 0..Len(value)]
  BY DEF BalanceInv, TypedInv, CallTypes, Held
<1>2. CASE UNCHANGED <<grad, due>>
  BY <1>1, <1>2
<1>3. ASSUME NEW u \in Tensors(prog), ZeroGrad(u) PROVE grad'[t] = None /\ due'[t] = 0
  BY <1>1, <1>3 DEF ZeroGrad
<1>4. ASSUME NEW r \in Tensors(prog), Backward(r) PROVE grad'[t] = None /\ due'[t] = 0
  <2>1. Owed(r, t) = 0 /\ due'[t] = due[t] + Owed(r, t) /\ grad' = grad
    BY <1>4 DEF Backward, Owed
  <2> QED BY <1>1, <2>1
<1>5. CASE TakeLeaf
  <2>1. PICK c : c = Current
    OBVIOUS
  <2>2. c \in prog.params /\ (\A u \in Tensors(prog) \ {c} : grad'[u] = grad[u]) /\ due' = due
    BY <1>5, <2>1, LeafFacts DEF TakeLeaf, Walking
  <2> QED BY <1>1, <2>2
<1>6. CASE Walking /\ Recompute /\ Current \in DOMAIN gradMap \cap tape
  <2>1. PICK c, l : c = Current /\ l = Len(prog.ins[c])
    OBVIOUS
  <2>2. \A u \in Tensors(prog) \ prog.params : grad'[u] = grad[u]
    BY <1>6, <2>1, RecomputeFacts
  <2> QED BY <1>1, <1>6, <2>2 DEF Walking
<1>7. CASE Surface \/ ClipGrads
  BY <1>1, <1>7 DEF Surface, Leave, ClipGrads
<1>8. \/ UNCHANGED <<grad, due>>
      \/ \E u \in Tensors(prog) : ZeroGrad(u) \/ Backward(u)
      \/ TakeLeaf \/ (Walking /\ Recompute /\ Current \in DOMAIN gradMap \cap tape)
      \/ Surface \/ ClipGrads
  BY Zenon
     DEF ClipNext, Next, Engine, Compute, Descend, Finish, PassBy, TakeOperator, TakeCheckpoint,
     CheckpointFails, Spread, EndBackward, Leave, Walking, clipVars, vars
<1> QED BY <1>2, <1>3, <1>4, <1>5, <1>6, <1>7, <1>8

LEMMA BalanceInvInit == ClipInit => BalanceInv
<1> SUFFICES ASSUME ClipInit PROVE BalanceInv
  OBVIOUS
<1>1. pc = "caller" /\ \A t \in Tensors(prog) : grad[t] = None /\ due[t] = 0
  BY DEF ClipInit, Init
<1>2. \A t \in Tensors(prog) : Held(t) = due[t]
  BY <1>1 DEF Held
<1>3. prog.params \subseteq Tensors(prog)
  BY TapeInvInit, TapeProgram
<1> QED BY <1>1, <1>2, <1>3 DEF BalanceInv, Balanced

LEMMA BalanceInvStep ==
  ASSUME TypedInv, BalanceInv, [ClipNext]_clipVars
  PROVE  BalanceInv'
<1>1. prog' = prog /\ Tensors(prog)' = Tensors(prog)
  BY DEF ClipNext, ClipGrads, Next, Compute, Forward, CreateLeaf, Operator, Checkpoint, Produce,
     EnterNoGrad, ExitNoGrad, ZeroGrad, Backward, Engine, Descend, Finish, PassBy, TakeLeaf,
     TakeOperator, TakeCheckpoint, CheckpointFails, Spread, EndBackward, Surface, Leave, Walking,
     clipVars, vars, tapeVars, Tensors
<1>2. ASSUME NEW t \in prog.params PROVE Balanced(t)'
  <2>1. CASE UNCHANGED clipVars
    <3>1. Balanced(t)
      BY DEF BalanceInv
    <3>2. /\ UNCHANGED <<pc, enabled, value, grad, due, visited, gradMap, gradsIn, topo, at, tape>>
          /\ UNCHANGED <<prog, tracked>>
      BY <2>1 DEF clipVars, vars, tapeVars, engineVars
    <3>3. Slope(t)' = Slope(t)
      BY <3>2, SlopeStays
    <3>4. /\ Held(t)' = Held(t) /\ (\A x : Weight(x)' = Weight(x)) /\ Open' = Open
          /\ Current' = Current /\ Inputs(Current)' = Inputs(Current) /\ SpreadSoFar' = SpreadSoFar
      BY <3>2 DEF Held, Weight, Open, Current, Inputs, SpreadSoFar
    <3>5. Pending(t)' = Pending(t) /\ Shares(t)' = Shares(t)
      BY <3>2, <3>3, <3>4 DEF Pending, Shares, Tensors
    <3>6. StillOwed(t)' = StillOwed(t)
      BY <3>2, <3>4, <3>5 DEF StillOwed
    <3> QED BY <3>1, <3>2, <3>3, <3>4, <3>6 DEF Balanced
  <2>2. CASE Compute \/ \E u \in Tensors(prog) : ZeroGrad(u)
    BY <2>2, CallerKeepsBalance
  <2>3. ASSUME NEW r \in Tensors(prog), Backward(r) PROVE Balanced(t)'
    BY <2>3, BackwardOwesTheSlope
  <2>4. CASE Descend \/ Finish
    BY <2>4, SortKeepsBalance
  <2>5. CASE PassBy \/ TakeLeaf
    BY <2>5, TurnKeepsBalance
  <2>6. CASE TakeOperator
    BY <2>6, OperatorKeepsBalance
  <2>7. CASE TakeCheckpoint
    BY <2>7, CheckpointKeepsBalance
  <2>8. CASE CheckpointFails
    BY <2>8, FailureKeepsBalance
  <2>9. CASE Spread
    BY <2>9, SpreadKeepsBalance
  <2>10. CASE EndBackward \/ Surface \/ ClipGrads
    BY <2>10, ReturnKeepsBalance
  <2> QED BY <2>1, <2>2, <2>3, <2>4, <2>5, <2>6, <2>7, <2>8, <2>9, <2>10
          DEF ClipNext, Next, Engine
<1>3. \A t \in Tensors(prog) \ prog.params : grad'[t] = None /\ due'[t] = 0
  BY OthersHoldNothing
<1> QED BY <1>1, <1>2, <1>3 DEF BalanceInv

(* GradientInv is inductive.                                               *)
LEMMA GradientInvariant == ClipSpec => []GradientInv
<1>1. ClipInit => GradientInv
  BY SortInvInit, TapeInvInit, CallTypesInit, BalanceInvInit DEF GradientInv
<1>2. GradientInv /\ [ClipNext]_clipVars => GradientInv'
  BY SortInvStep, TapeInvStep, CallTypesStep, BalanceInvStep DEF GradientInv, TypedInv
<1> QED BY <1>1, <1>2, PTL DEF ClipSpec

LEMMA StillOwedIsNatural ==
  ASSUME TypedInv, NEW t \in prog.params, pc \in {"walk", "spread"}
  PROVE  StillOwed(t) \in Nat
<1>1. PICK p \in Nat : p = SumTo(Pending(t), prog.n)
  BY PendingIsNatural
<1>2. CASE pc = "walk"
  BY <1>1, <1>2 DEF StillOwed
<1>3. CASE pc = "spread"
  <2>1. PICK c, l : c = Current /\ l = Len(prog.ins[c])
    OBVIOUS
  <2>2. Inputs(Current) = prog.ins[c] /\ SumTo(Shares(t), l) \in Nat
    BY <1>3, <2>1, SharesAreNatural
  <2> QED BY <1>1, <1>3, <2>1, <2>2 DEF StillOwed
<1> QED BY <1>2, <1>3

(* What every call leaves on the parameters, whatever came before it, is   *)
(* the sum of the derivatives along the recorded operators of the tensors  *)
(* backward() was called on; while a call runs, or where it raises, no     *)
(* parameter holds more than it is owed (Tensor.cpp:1144-1173).            *)
THEOREM GradientIsWhatIsOwed == ClipSpec => []GradIsDue
<1>1. GradientInv => GradIsDue
  <2> SUFFICES ASSUME GradientInv, NEW t \in Tensors(prog)
               PROVE  Held(t) <= due[t] /\ (pc = "caller" => Held(t) = due[t])
    BY DEF GradIsDue
  <2>1. TypedInv /\ BalanceInv
    BY DEF GradientInv, TypedInv
  <2>2. Held(t) \in Nat /\ due[t] \in Nat
    BY <2>1, WeightsAreNatural
  <2>3. CASE t \notin prog.params
    BY <2>1, <2>2, <2>3 DEF BalanceInv, Held
  <2>4. CASE t \in prog.params
    <3>1. Balanced(t)
      BY <2>1, <2>4 DEF BalanceInv
    <3>2. pc \in {"caller", "sort", "walk", "spread", "raised"}
      BY <2>1 DEF TypedInv, SortInv, SortTypes
    <3>3. pc = "caller" \/ ~enabled => Held(t) = due[t]
      BY <3>1 DEF Balanced
    <3>4. pc = "raised" => Held(t) <= due[t]
      BY <3>1 DEF Balanced
    <3>5. ASSUME pc = "sort", enabled PROVE Held(t) <= due[t]
      <4>1. PICK r \in visited : Held(t) + Slope(t)[r] = due[t]
        BY <3>1, <3>5 DEF Balanced
      <4>2. Slope(t)[r] \in Nat
        <5>1. visited \subseteq 1..made
          BY <2>1 DEF TypedInv, CallTypes
        <5>2. r \in Tensors(prog)
          BY <2>1, <4>1, <5>1, TapeProgram DEF TypedInv
        <5> QED BY <2>1, <2>4, <5>2, SlopeIsNatural DEF TypedInv
      <4> QED BY <2>2, <4>1, <4>2
    <3>6. ASSUME pc \in {"walk", "spread"}, enabled PROVE Held(t) <= due[t]
      <4>1. Held(t) + StillOwed(t) = due[t]
        BY <3>1, <3>6 DEF Balanced
      <4>2. StillOwed(t) \in Nat
        BY <2>1, <2>4, <3>6, StillOwedIsNatural
      <4> QED BY <2>2, <4>1, <4>2
    <3> QED BY <2>2, <3>2, <3>3, <3>4, <3>5, <3>6
  <2> QED BY <2>3, <2>4
<1> QED BY <1>1, GradientInvariant, PTL

-----------------------------------------------------------------------------
(* Types                                                                   *)

LimitsInv == Len(blocks) <= MaxBlocks /\ backwards \in 0..MaxBackwards

LEMMA LimitsInvInit == ClipInit => LimitsInv
<1> SUFFICES ASSUME ClipInit PROVE LimitsInv
  OBVIOUS
<1>1. blocks = << >> /\ backwards = 0 /\ Len(<< >>) = 0
  BY DEF ClipInit, Init, TapeInit
<1> QED BY <1>1, MaxBlocksAssumption, MaxBackwardsAssumption DEF LimitsInv

LEMMA LimitsInvStep ==
  ASSUME BlocksInv, LimitsInv, [ClipNext]_clipVars
  PROVE  LimitsInv'
<1>1. blocks \in Seq(BOOLEAN) /\ Len(blocks) \in Nat /\ Len(blocks) <= MaxBlocks
      /\ MaxBlocks \in Nat /\ MaxBackwards \in Nat /\ backwards \in 0..MaxBackwards
  BY MaxBlocksAssumption, MaxBackwardsAssumption DEF BlocksInv, LimitsInv
<1>2. CASE UNCHANGED <<blocks, backwards>>
  BY <1>2 DEF LimitsInv
<1>3. CASE EnterNoGrad /\ UNCHANGED backwards
  <2>1. blocks' = Append(blocks, enabled) /\ Len(blocks) < MaxBlocks
    BY <1>3 DEF EnterNoGrad
  <2>2. enabled \in BOOLEAN
    BY DEF BlocksInv
  <2>3. Len(blocks') = Len(blocks) + 1
    BY <1>1, <2>1, <2>2
  <2> QED BY <1>1, <1>3, <2>1, <2>3 DEF LimitsInv
<1>4. CASE ExitNoGrad /\ UNCHANGED backwards
  <2>1. blocks' = Front(blocks) /\ Len(Front(blocks)) = Len(blocks) - 1
    BY <1>1, <1>4, LastAndFront DEF ExitNoGrad
  <2> QED BY <1>1, <1>4, <2>1 DEF LimitsInv
<1>5. ASSUME NEW r, Backward(r) PROVE LimitsInv'
  <2>1. backwards < MaxBackwards /\ backwards' = backwards + 1 /\ blocks' = blocks
    BY <1>5 DEF Backward, tapeVars
  <2> QED BY <1>1, <2>1 DEF LimitsInv
<1>6. \/ UNCHANGED <<blocks, backwards>>
      \/ (EnterNoGrad \/ ExitNoGrad) /\ UNCHANGED backwards
      \/ \E r : Backward(r)
  BY DEF ClipNext, ClipGrads, Next, Compute, Forward, CreateLeaf, Operator, Checkpoint, Produce,
     ZeroGrad, Engine, Descend, Finish, PassBy, TakeLeaf, TakeOperator, TakeCheckpoint,
     CheckpointFails, Spread, EndBackward, Surface, Leave, Walking, clipVars, vars, tapeVars
<1> QED BY <1>2, <1>3, <1>4, <1>5, <1>6

LEMMA FramesOfTensors ==
  ASSUME TypedInv
  PROVE  frames \in Seq([tensor : Tensors(prog), next : Nat \ {0}]) /\ topo \in Seq(visited)
<1>1. /\ visited \subseteq Tensors(prog) /\ frames \in Seq(Frames) /\ topo \in Seq(Nat)
      /\ visited = Finished \cup {frames[i].tensor : i \in 1..Len(frames)}
      /\ \A i \in 1..Len(frames) : frames[i].next \in 1..(Len(Inputs(frames[i].tensor)) + 1)
  <2>1. visited \subseteq 1..made /\ made \in 0..prog.n /\ prog.n \in Nat
        /\ Tensors(prog) = 1..prog.n
    BY TapeProgram DEF TypedInv, CallTypes
  <2> QED BY <2>1 DEF TypedInv, SortInv, SortTypes, StackInv
<1>2. frames \in [1..Len(frames) -> Frames] /\ Len(frames) \in Nat
      /\ topo \in [1..Len(topo) -> Nat] /\ Len(topo) \in Nat
  BY <1>1
<1>3. ASSUME NEW i \in 1..Len(frames)
      PROVE  frames[i] \in [tensor : Tensors(prog), next : Nat \ {0}]
  <2>1. frames[i] \in Frames /\ frames[i].tensor \in Tensors(prog) /\ frames[i].next # 0
    BY <1>1, <1>2
  <2> QED BY <2>1 DEF Frames
<1>4. \A i \in 1..Len(topo) : topo[i] \in visited
  BY <1>1 DEF Finished
<1>5. /\ frames \in [1..Len(frames) -> [tensor : Tensors(prog), next : Nat \ {0}]]
      /\ topo \in [1..Len(topo) -> visited]
  BY <1>2, <1>3, <1>4
<1> QED BY <1>2, <1>5, SequenceByDomain

(* Every variable keeps to its type: gradMap holds only tensors of the     *)
(* running call, and every gradient named anywhere exists.                 *)
THEOREM AutogradTypes == ClipSpec => []AutogradTypeOK
<1>1. ClipInit => BlocksInv /\ LimitsInv
  BY BlocksInvInit, LimitsInvInit
<1>2. BlocksInv /\ LimitsInv /\ [ClipNext]_clipVars => BlocksInv' /\ LimitsInv'
  BY BlocksInvStep, LimitsInvStep
<1>3. TypedInv /\ BlocksInv /\ LimitsInv => AutogradTypeOK
  <2> SUFFICES ASSUME TypedInv, BlocksInv, LimitsInv PROVE AutogradTypeOK
    OBVIOUS
  <2>1. /\ WellFormedProgram(prog) /\ made \in 0..prog.n
        /\ tape \subseteq 1..made /\ tracked \subseteq 1..made
    BY TapeProgram DEF TypedInv, TapeInv
  <2>2. enabled \in BOOLEAN /\ blocks \in Seq(BOOLEAN) /\ Len(blocks) <= MaxBlocks
        /\ backwards \in 0..MaxBackwards
    BY DEF BlocksInv, LimitsInv
  <2>3. pc \in {"caller", "sort", "walk", "spread", "raised"} /\ at \in 0..Len(topo)
    BY DEF TypedInv, SortInv, SortTypes
  <2>4. frames \in Seq([tensor : Tensors(prog), next : Nat \ {0}]) /\ topo \in Seq(visited)
    BY FramesOfTensors
  <2>5. Len(value) \in Nat
    BY WeightsAreNatural
  <2>6. GradientNames \ {None} = 1..Len(value)
    BY <2>5 DEF GradientNames, None
  <2>7. /\ visited \subseteq 1..made /\ DOMAIN gradMap \subseteq visited
        /\ \A t \in DOMAIN gradMap : gradMap[t] \in GradientNames \ {None}
        /\ gradsIn \in Seq(GradientNames \ {None})
        /\ grad \in [Tensors(prog) -> GradientNames]
        /\ value \in Seq(Nat) /\ due \in [Tensors(prog) -> Nat]
    BY <2>6 DEF TypedInv, CallTypes, GradientNames
  <2> QED BY <2>1, <2>2, <2>3, <2>4, <2>7 DEF AutogradTypeOK
<1> QED BY <1>1, <1>2, <1>3, TypedInvariant, PTL DEF ClipSpec
==============================================================================
