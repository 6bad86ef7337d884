--------------------------- MODULE DataInduction ---------------------------
(***************************************************************************)
(* Induction over the natural numbers with the property as a set, and what *)
(* it says of sequences: what the proofs about recursive functions rest    *)
(* on.                                                                     *)
(***************************************************************************)
EXTENDS Integers, SequencesExt, SequenceTheorems, WellFoundedInduction, TLAPS

(* A set with 0 and the successor of each of its numbers has them all.     *)
LEMMA SetInduction ==
  ASSUME NEW S, 0 \in S, \A n \in Nat : n \in S => n + 1 \in S
  PROVE  Nat \subseteq S
<1> DEFINE R == {ss \in Nat \X Nat : ss[1] < ss[2]}
<1> DEFINE T == Nat \ S
<1>1. IsWellFoundedOn(R, Nat)
  BY NatLessThanWellFounded DEF OpToRel
<1>2. SUFFICES ASSUME T # {} PROVE FALSE
  OBVIOUS
<1>3. \E x \in T : \A y \in T : ~ (<<y, x>> \in R)
  <2>1. T \subseteq Nat
    OBVIOUS
  <2> HIDE DEF R, T
  <2> QED
    BY <1>1, <1>2, <2>1, WFMin
<1>4. PICK x \in T : \A y \in T : ~ (<<y, x>> \in R)
  BY <1>3
<1>5. x \in Nat /\ x # 0
  OBVIOUS
<1>6. x - 1 \in Nat /\ x - 1 \notin S
  BY <1>5
<1>7. <<x - 1, x>> \in R
  BY <1>5, <1>6
<1> QED
  BY <1>4, <1>6, <1>7

(* The same up to a number.                                                *)
LEMMA BoundedInduction ==
  ASSUME NEW n \in Nat, NEW S, 0 \in S, \A m \in 0..(n - 1) : m \in S => m + 1 \in S
  PROVE  \A m \in 0..n : m \in S
<1> DEFINE T == {m \in Nat : m <= n => m \in S}
<1>1. 0 \in T
  OBVIOUS
<1>2. ASSUME NEW m \in Nat, m \in T PROVE m + 1 \in T
  <2>1. m + 1 <= n => m \in 0..(n - 1)
    OBVIOUS
  <2> QED
    BY <2>1, <1>2
<1> HIDE DEF T
<1>3. Nat \subseteq T
  BY <1>1, <1>2, SetInduction
<1> QED
  BY <1>3 DEF T

(***************************************************************************)
(* Sequences                                                               *)
(***************************************************************************)
(* A sequence of anything.                                                 *)
IsSequence(s) == s \in Seq({s[k] : k \in DOMAIN s})

LEMMA SequenceOfAnything ==
  ASSUME NEW T, NEW s \in Seq(T)
  PROVE  IsSequence(s) /\ \A k \in DOMAIN s : s[k] \in T
<1>1. PICK n \in Nat : s \in [1..n -> T]
  BY SeqDef
<1>2. s \in [1..n -> {s[k] : k \in DOMAIN s}]
  BY <1>1
<1> QED
  BY <1>2, SeqDef, SMTT(30) DEF IsSequence

LEMMA SequenceByDomain ==
  ASSUME NEW n \in Nat, NEW T, NEW s \in [1..n -> T]
  PROVE  IsSequence(s) /\ s \in Seq(T) /\ Len(s) = n
<1>1. s \in Seq(T)
  BY SeqDef
<1> QED
  BY <1>1, SequenceOfAnything

LEMMA SequenceIsAFunction ==
  ASSUME NEW s, IsSequence(s)
  PROVE  /\ Len(s) \in Nat /\ DOMAIN s = 1..Len(s)
         /\ s \in [1..Len(s) -> {s[k] : k \in DOMAIN s}]
BY DEF IsSequence

LEMMA AppendToAnything ==
  ASSUME NEW s, IsSequence(s), NEW x
  PROVE  /\ IsSequence(Append(s, x)) /\ Len(Append(s, x)) = Len(s) + 1
         /\ DOMAIN Append(s, x) = 1..(Len(s) + 1)
         /\ \A i \in 1..(Len(s) + 1) : Append(s, x)[i] = IF i = Len(s) + 1 THEN x ELSE s[i]
<1> DEFINE T == {s[k] : k \in DOMAIN s} \cup {x}
<1>1. s \in Seq(T)
  <2>1. s \in [1..Len(s) -> {s[k] : k \in DOMAIN s}] /\ Len(s) \in Nat
    BY SequenceIsAFunction
  <2>2. s \in [1..Len(s) -> T]
    BY <2>1
  <2> QED
    BY <2>1, <2>2, SeqDef
<1>2. x \in T
  OBVIOUS
<1> HIDE DEF T
<1>3. Append(s, x) \in Seq(T)
  BY <1>1, <1>2
<1>4. IsSequence(Append(s, x))
  BY <1>3, SequenceOfAnything
<1> QED
  BY <1>1, <1>2, <1>3, <1>4

(* FlattenSeq: a sequence of whatever its parts are sequences of.          *)
Flattening(seqs, n, f) == f = [i \in 1..n |-> IF i = 1 THEN seqs[i] ELSE f[i - 1] \o seqs[i]]

LEMMA FlatteningExists ==
  ASSUME NEW seqs, NEW n \in Nat
  PROVE  \E f : Flattening(seqs, n, f)
<1> DEFINE S == {m \in Nat : \E f : Flattening(seqs, m, f)}
<1>1. 0 \in S
  <2>1. Flattening(seqs, 0, [i \in 1..0 |-> 0])
    BY DEF Flattening
  <2> QED
    BY <2>1
<1>2. ASSUME NEW m \in Nat, m \in S PROVE m + 1 \in S
  <2>1. PICK f : Flattening(seqs, m, f)
    BY <1>2
  <2> DEFINE g == [i \in 1..(m + 1) |->
                     IF i = m + 1 THEN IF m = 0 THEN seqs[1] ELSE f[m] \o seqs[m + 1] ELSE f[i]]
  <2>2. ASSUME NEW i \in 1..(m + 1)
        PROVE  g[i] = IF i = 1 THEN seqs[i] ELSE g[i - 1] \o seqs[i]
    <3>1. CASE i = m + 1
      <4>1. i # 1 => m \in 1..(m + 1) /\ m # m + 1 /\ i - 1 = m
        BY <3>1
      <4>2. i # 1 => g[i - 1] = f[m]
        BY <4>1
      <4>3. g[i] = IF m = 0 THEN seqs[1] ELSE f[m] \o seqs[m + 1]
        BY <3>1
      <4> HIDE DEF g
      <4> QED
        BY <3>1, <4>2, <4>3
    <3>2. CASE i # m + 1
      <4>1. i \in 1..m /\ (i # 1 => i - 1 \in 1..m)
        BY <3>2
      <4>2. g[i] = f[i] /\ (i # 1 => g[i - 1] = f[i - 1])
        BY <3>2, <4>1
      <4>3. f[i] = IF i = 1 THEN seqs[i] ELSE f[i - 1] \o seqs[i]
        BY <2>1, <4>1 DEF Flattening
      <4> HIDE DEF g
      <4> QED
        BY <4>1, <4>2, <4>3
    <3> QED
      BY <3>1, <3>2
  <2>3. Flattening(seqs, m + 1, g)
    BY <2>2 DEF Flattening
  <2> HIDE DEF g
  <2> QED
    BY <2>3
<1> HIDE DEF S
<1>3. n \in S
  BY <1>1, <1>2, SetInduction
<1> QED
  BY <1>3 DEF S

LEMMA FlattenUnfolds ==
  ASSUME NEW seqs, NEW n \in Nat, n = Len(seqs), n # 0
  PROVE  \E f : Flattening(seqs, n, f) /\ FlattenSeq(seqs) = f[n]
<1> DEFINE flatten == CHOOSE f : Flattening(seqs, Len(seqs), f)
<1>1. FlattenSeq(seqs) = IF Len(seqs) = 0 THEN seqs ELSE flatten[Len(seqs)]
  BY Zenon DEF FlattenSeq, Flattening
<1>2. Flattening(seqs, n, flatten)
  BY FlatteningExists
<1> QED
  BY <1>1, <1>2

LEMMA FlattenType ==
  ASSUME NEW T, NEW seqs \in Seq(Seq(T))
  PROVE  FlattenSeq(seqs) \in Seq(T)
<1>1. PICK n \in Nat : n = Len(seqs) /\ DOMAIN seqs = 1..n /\ \A i \in 1..n : seqs[i] \in Seq(T)
  OBVIOUS
<1>2. CASE n = 0
  <2>1. seqs = << >>
    BY <1>1, <1>2, EmptySeq
  <2> QED
    BY <1>1, <1>2, <2>1 DEF FlattenSeq
<1>3. CASE n # 0
  <2>1. PICK f : Flattening(seqs, n, f) /\ FlattenSeq(seqs) = f[n]
    BY <1>1, <1>3, FlattenUnfolds
  <2> DEFINE S == {i \in 0..n : i # 0 => f[i] \in Seq(T)}
  <2>2. 0 \in S
    OBVIOUS
  <2>3. ASSUME NEW i \in 0..(n - 1), i \in S PROVE i + 1 \in S
    <3>1. i + 1 \in 1..n /\ (i + 1 # 1 => i \in 1..n /\ i # 0 /\ (i + 1) - 1 = i)
      OBVIOUS
    <3>2. f[i + 1] = IF i + 1 = 1 THEN seqs[i + 1] ELSE f[i] \o seqs[i + 1]
      BY <3>1, <2>1 DEF Flattening
    <3>3. seqs[i + 1] \in Seq(T)
      BY <1>1, <3>1
    <3>4. i + 1 # 1 => f[i] \in Seq(T)
      BY <2>3, <3>1
    <3>5. f[i + 1] \in Seq(T)
      BY <3>2, <3>3, <3>4, ConcatProperties
    <3> QED
      BY <3>1, <3>5
  <2> HIDE DEF S
  <2>4. \A i \in 0..n : i \in S
    BY <2>2, <2>3, BoundedInduction
  <2> QED
    BY <2>1, <2>4, <1>3 DEF S
<1> QED
  BY <1>2, <1>3

(* One sequence after another.                                             *)
LEMMA JoinOfAnything ==
  ASSUME NEW a, IsSequence(a), NEW b, IsSequence(b)
  PROVE  /\ IsSequence(a \o b) /\ Len(a \o b) = Len(a) + Len(b) /\ DOMAIN (a \o b) = 1..(Len(a) + Len(b))
         /\ \A i \in 1..(Len(a) + Len(b)) : (a \o b)[i] = IF i <= Len(a) THEN a[i] ELSE b[i - Len(a)]
<1> DEFINE T == {a[k] : k \in DOMAIN a} \cup {b[k] : k \in DOMAIN b}
<1>1. a \in Seq(T) /\ b \in Seq(T)
  <2>1. /\ Len(a) \in Nat /\ a \in [1..Len(a) -> T] /\ Len(b) \in Nat /\ b \in [1..Len(b) -> T]
    BY SequenceIsAFunction
  <2> QED
    BY <2>1, SeqDef
<1> HIDE DEF T
<1>2. /\ a \o b \in Seq(T) /\ Len(a \o b) = Len(a) + Len(b)
      /\ \A i \in 1..(Len(a) + Len(b)) : (a \o b)[i] = IF i <= Len(a) THEN a[i] ELSE b[i - Len(a)]
  BY <1>1, ConcatProperties
<1>3. IsSequence(a \o b)
  BY <1>2, SequenceOfAnything
<1> QED
  BY <1>2, <1>3, SequenceIsAFunction

LEMMA NothingIsASequence == IsSequence(<< >>) /\ Len(<< >>) = 0 /\ DOMAIN << >> = {}
BY EmptySeq DEF IsSequence

(* The empty sequence is the one of no length.                             *)
LEMMA NoElements ==
  ASSUME NEW s, IsSequence(s)
  PROVE  s = << >> <=> Len(s) = 0
BY EmptySeq DEF IsSequence

(* What two flattened sequences have in one place, two of their parts have.*)
FromParts(s, t, n, x, y) ==
  /\ IsSequence(x) /\ IsSequence(y) /\ Len(x) = Len(y)
  /\ \A k \in DOMAIN x : \E i \in 1..n : \E j \in DOMAIN s[i] : x[k] = s[i][j] /\ y[k] = t[i][j]

(* Two sequences of sequences of the same lengths, flattened.              *)
LEMMA FlattenPaired ==
  ASSUME NEW s, NEW t, NEW n \in Nat, IsSequence(s), IsSequence(t), Len(s) = n, Len(t) = n,
         \A i \in 1..n : IsSequence(s[i]) /\ IsSequence(t[i]) /\ Len(s[i]) = Len(t[i])
  PROVE  FromParts(s, t, n, FlattenSeq(s), FlattenSeq(t))
<1>1. CASE n = 0
  <2>1. FlattenSeq(s) = << >> /\ FlattenSeq(t) = << >>
    BY <1>1, NoElements DEF FlattenSeq
  <2> QED
    BY <2>1, NothingIsASequence DEF FromParts
<1>2. CASE n # 0
  <2>1. PICK f : Flattening(s, n, f) /\ FlattenSeq(s) = f[n]
    BY <1>2, FlattenUnfolds
  <2>2. PICK g : Flattening(t, n, g) /\ FlattenSeq(t) = g[n]
    BY <1>2, FlattenUnfolds
  <2> DEFINE S == {i \in 0..n : i # 0 => FromParts(s, t, n, f[i], g[i])}
  <2>3. 0 \in S
    OBVIOUS
  <2>4. ASSUME NEW i \in 0..(n - 1), i \in S PROVE i + 1 \in S
    <3>1. PICK m \in 1..n : m = i + 1 /\ (m # 1 => i # 0 /\ i \in 1..n /\ m - 1 = i)
      OBVIOUS
    <3>2. f[m] = (IF m = 1 THEN s[m] ELSE f[i] \o s[m]) /\ g[m] = (IF m = 1 THEN t[m] ELSE g[i] \o t[m])
      BY <2>1, <2>2, <3>1 DEF Flattening
    <3>3. PICK a, b : a = s[m] /\ b = t[m] /\ IsSequence(a) /\ IsSequence(b) /\ Len(a) = Len(b)
      OBVIOUS
    <3>4. FromParts(s, t, n, a, b)
      BY <3>3, SequenceIsAFunction DEF FromParts
    <3>5. CASE m = 1
      BY <3>1, <3>2, <3>3, <3>4, <3>5
    <3>6. CASE m # 1
      <4>1. PICK x, y : x = f[i] /\ y = g[i] /\ FromParts(s, t, n, x, y)
        BY <2>4, <3>1, <3>6
      <4>0. IsSequence(x) /\ IsSequence(y)
        BY <4>1 DEF FromParts
      <4>2. /\ IsSequence(x \o a) /\ Len(x \o a) = Len(x) + Len(a) /\ DOMAIN (x \o a) = 1..(Len(x) + Len(a))
            /\ \A k \in 1..(Len(x) + Len(a)) : (x \o a)[k] = IF k <= Len(x) THEN x[k] ELSE a[k - Len(x)]
        BY <3>3, <4>0, JoinOfAnything
      <4>3. /\ IsSequence(y \o b) /\ Len(y \o b) = Len(y) + Len(b)
            /\ \A k \in 1..(Len(y) + Len(b)) : (y \o b)[k] = IF k <= Len(y) THEN y[k] ELSE b[k - Len(y)]
        BY <3>3, <4>0, JoinOfAnything
      <4>4. /\ Len(x) = Len(y) /\ Len(x) \in Nat /\ DOMAIN x = 1..Len(x)
            /\ Len(a) \in Nat /\ DOMAIN a = 1..Len(a)
        BY <3>3, <4>1, SequenceIsAFunction DEF FromParts
      <4>5. ASSUME NEW k \in 1..(Len(x) + Len(a))
            PROVE  \E p \in 1..n : \E j \in DOMAIN s[p] : (x \o a)[k] = s[p][j] /\ (y \o b)[k] = t[p][j]
        <5>1. CASE k <= Len(x)
          <6>1. k \in DOMAIN x /\ (x \o a)[k] = x[k] /\ (y \o b)[k] = y[k]
            BY <3>3, <4>2, <4>3, <4>4, <5>1
          <6> QED
            BY <4>1, <6>1 DEF FromParts
        <5>2. CASE ~ (k <= Len(x))
          <6>1. PICK j \in DOMAIN a : j = k - Len(x)
            BY <4>4, <5>2
          <6>2. (x \o a)[k] = a[j] /\ (y \o b)[k] = b[j]
            BY <3>3, <4>2, <4>3, <4>4, <5>2, <6>1
          <6> QED
            BY <3>3, <6>1, <6>2
        <5> QED
          BY <5>1, <5>2
      <4>6. FromParts(s, t, n, x \o a, y \o b)
        BY <3>3, <4>2, <4>3, <4>4, <4>5 DEF FromParts
      <4>7. f[i + 1] = x \o a /\ g[i + 1] = y \o b
        BY <3>1, <3>2, <3>3, <3>6, <4>1
      <4>8. i + 1 \in 0..n
        OBVIOUS
      <4> QED
        BY <4>6, <4>7, <4>8
    <3> QED
      BY <3>5, <3>6
  <2> HIDE DEF S
  <2>5. \A i \in 0..n : i \in S
    BY <2>3, <2>4, BoundedInduction
  <2> QED
    BY <1>2, <2>1, <2>2, <2>5 DEF S
<1> QED
  BY <1>1, <1>2
=============================================================================
