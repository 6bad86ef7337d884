---------------------------- MODULE TensorProofs ----------------------------
(***************************************************************************)
(* Arithmetic modulo P, and which elements the elementwise operators of    *)
(* KirTensor read.                                                         *)
(***************************************************************************)
EXTENDS KirTensor, DataInduction

(***************************************************************************)
(* Arithmetic modulo P                                                     *)
(***************************************************************************)
(* What is left of a division is a number.                                 *)
LEMMA ModIsNumber ==
  ASSUME NEW a \in Int
  PROVE  a % P \in Numbers /\ a \div P \in Int /\ a = P * (a \div P) + (a % P)
<1>1. P \in Nat /\ P > 0
  BY PAssumption
<1> QED
  BY ONLY <1>1 DEF Numbers

(* There is one way to divide.                                             *)
LEMMA ModIsUnique ==
  ASSUME NEW a \in Int, NEW q \in Int, NEW r \in Numbers, a = P * q + r
  PROVE  a % P = r
<1>1. P \in Nat /\ P > 0
  BY PAssumption
<1>2. PICK p \in Nat : p = P /\ p > 0
  BY <1>1
<1>3. /\ a % P \in 0..(p - 1) /\ a \div P \in Int /\ a = p * (a \div P) + (a % P)
      /\ r \in 0..(p - 1)
  BY <1>2, ModIsNumber DEF Numbers
<1>4. PICK s \in Int, d \in Int : d = a % P /\ s = a \div P
  BY <1>3
<1>5. p * s + d = p * q + r
  BY <1>2, <1>3, <1>4
<1>6. d \in 0..(p - 1) /\ r \in 0..(p - 1)
  BY <1>3, <1>4
<1>7. p * (s - q) = r - d
  BY ONLY <1>5, <1>6, p \in Nat, s \in Int, q \in Int, d \in Int
<1>8. PICK e \in Int : e = s - q
  OBVIOUS
<1>9. p * e = r - d
  BY <1>7, <1>8
<1>10. e = 0
  <2>1. CASE e >= 1
    <3>1. p * e >= p
      BY ONLY <2>1, p \in Nat, e \in Int
    <3> QED BY ONLY <3>1, <1>6, <1>9, p \in Nat, d \in Int
  <2>2. CASE e <= -1
    <3>1. p * e <= -p
      BY ONLY <2>2, p \in Nat, e \in Int
    <3> QED BY ONLY <3>1, <1>6, <1>9, p \in Nat, d \in Int
  <2> QED BY ONLY <2>1, <2>2, e \in Int
<1>11. d = r
  BY ONLY <1>6, <1>9, <1>10, p \in Nat, d \in Int
<1> QED BY <1>4, <1>11

(* A number is a multiple of P and what is left.                           *)
LEMMA ModSplits ==
  ASSUME NEW a \in Int
  PROVE  \E q, r \in Int : a % P = r /\ a = P * q + r
<1>1. a % P \in Int /\ a \div P \in Int /\ a = P * (a \div P) + (a % P)
  BY PAssumption, ModIsNumber DEF Numbers
<1> QED
  BY ONLY <1>1, Zenon

(* Numbers that differ by a multiple of P are the same modulo P.           *)
LEMMA ModOfMultiple ==
  ASSUME NEW a \in Int, NEW b \in Int, NEW k \in Int, a = b + P * k
  PROVE  a % P = b % P
<1>1. PICK p \in Nat : p = P
  BY PAssumption
<1>2. PICK q, r : q = b \div P /\ r = b % P
  OBVIOUS
<1>3. q \in Int /\ r \in Numbers /\ b = P * q + r /\ r \in Int
  BY <1>1, <1>2, ModIsNumber DEF Numbers
<1>4. a = p * (q + k) + r
  <2>1. a = (p * q + r) + p * k
    BY <1>1, <1>3
  <2>2. \A x, y, z, u \in Int : (x * y + z) + x * u = x * (y + u) + z
    OBVIOUS
  <2> QED BY ONLY <2>1, <2>2, <1>3, p \in Nat, q \in Int, k \in Int
<1>5. q + k \in Int /\ a = P * (q + k) + r
  BY <1>1, <1>3, <1>4
<1>6. a % P = r
  BY <1>3, <1>5, ModIsUnique
<1> QED BY <1>2, <1>6

(* What is left of a sum depends on what is left of its parts.             *)
LEMMA ModInSum ==
  ASSUME NEW a \in Int, NEW b \in Int
  PROVE  ((a % P) + b) % P = (a + b) % P
<1>1. PICK p \in Nat : p = P
  BY PAssumption
<1>2. PICK q \in Int, r \in Int : a % P = r /\ a = p * q + r
  BY <1>1, ModSplits
<1>3. a + b = (r + b) + p * q /\ a + b \in Int /\ r + b \in Int
  BY ONLY <1>2, p \in Nat, q \in Int, r \in Int, a \in Int, b \in Int
<1> QED
  BY <1>1, <1>2, <1>3, ModOfMultiple

LEMMA ModInProduct ==
  ASSUME NEW a \in Int, NEW b \in Int
  PROVE  ((a % P) * b) % P = (a * b) % P
<1>1. PICK p \in Nat : p = P
  BY PAssumption
<1>2. PICK q \in Int, r \in Int : a % P = r /\ a = p * q + r
  BY <1>1, ModSplits
<1>3. a * b = r * b + p * (q * b)
  <2>1. \A x, y, z, u \in Int : (x * y + z) * u = z * u + x * (y * u)
    OBVIOUS
  <2> QED BY ONLY <2>1, <1>2, p \in Nat, q \in Int, r \in Int, b \in Int
<1>4. a * b \in Int /\ r * b \in Int /\ q * b \in Int
  OBVIOUS
<1>5. PICK c, d, e \in Int : c = a * b /\ d = r * b /\ e = q * b
  BY <1>4
<1>6. c = d + P * e
  BY <1>1, <1>3, <1>5
<1>7. c % P = d % P
  BY <1>6, ModOfMultiple
<1> QED
  BY <1>2, <1>5, <1>7

(* A number stands for itself.                                             *)
LEMMA NumberModP ==
  ASSUME NEW a \in Numbers
  PROVE  a \in Int /\ a % P = a
<1>1. a \in Int /\ a = P * 0 + a
  BY PAssumption DEF Numbers
<1> QED
  BY <1>1, ModIsUnique

(***************************************************************************)
(* Tensors                                                                 *)
(***************************************************************************)
LEMMA OneCandidate ==
  ASSUME NEW f, NEW S, f \in S
  PROVE  (CHOOSE at \in {f} : at \in S) = f
OBVIOUS

IsShape(s) == s \in Seq(Nat \ {0}) /\ Len(s) <= 4

LEMMA ShapeFacts ==
  ASSUME NEW s, IsShape(s)
  PROVE  Len(s) \in 0..4 /\ \A d \in 1..Len(s) : s[d] \in Nat \ {0}
<1>1. PICK T : T = Nat \ {0}
  OBVIOUS
<1>2. s \in Seq(T) /\ Len(s) <= 4
  BY <1>1 DEF IsShape
<1>3. Len(s) \in Nat /\ \A d \in 1..Len(s) : s[d] \in T
  BY <1>2
<1>4. Len(s) \in 0..4
  <2>1. PICK n \in Nat : n = Len(s) /\ n <= 4
    BY <1>2, <1>3
  <2>2. n \in 0..4
    BY <2>1
  <2> QED
    BY <2>1, <2>2
<1> QED
  BY <1>1, <1>3, <1>4, Zenon

LEMMA SizesArePositive ==
  ASSUME NEW s, IsShape(s), NEW axis \in 1..4
  PROVE  /\ Size(s, axis) \in Nat \ {0}
         /\ axis - 4 + Len(s) >= 1 => Size(s, axis) = s[axis - 4 + Len(s)] /\ axis - 4 + Len(s) \in 1..Len(s)
         /\ axis - 4 + Len(s) < 1 => Size(s, axis) = 1
<1>1. Len(s) \in 0..4 /\ \A d \in 1..Len(s) : s[d] \in Nat \ {0}
  BY ShapeFacts
<1>2. CASE axis - 4 + Len(s) >= 1
  <2>1. axis - 4 + Len(s) \in 1..Len(s)
    BY <1>1, <1>2
  <2> QED
    BY <1>1, <1>2, <2>1 DEF Size
<1>3. CASE ~ (axis - 4 + Len(s) >= 1)
  BY <1>1, <1>3 DEF Size
<1> QED
  BY <1>1, <1>2, <1>3

LargerSize(a, b, axis) == IF Size(a, axis) > Size(b, axis) THEN Size(a, axis) ELSE Size(b, axis)

LEMMA BroadcastSizes ==
  ASSUME NEW a, NEW b, IsShape(a), IsShape(b)
  PROVE  /\ IsShape(BroadcastShapes(a, b))
         /\ Len(BroadcastShapes(a, b)) = IF Len(a) > Len(b) THEN Len(a) ELSE Len(b)
         /\ \A axis \in 1..4 : Size(BroadcastShapes(a, b), axis) = LargerSize(a, b, axis)
<1>1. PICK l, rank : l = <<LargerSize(a, b, 1), LargerSize(a, b, 2), LargerSize(a, b, 3), LargerSize(a, b, 4)>>
                     /\ rank = IF Len(a) > Len(b) THEN Len(a) ELSE Len(b)
  OBVIOUS
<1>2. Len(a) \in 0..4 /\ Len(b) \in 0..4 /\ rank \in 0..4 /\ Len(a) <= rank /\ Len(b) <= rank
  <2>1. Len(a) \in 0..4 /\ Len(b) \in 0..4
    BY ShapeFacts
  <2> QED
    BY <1>1, <2>1
<1>3. \A axis \in 1..4 : LargerSize(a, b, axis) \in Nat \ {0}
  BY SizesArePositive DEF LargerSize
<1>4. l \in Seq(Nat \ {0}) /\ Len(l) = 4 /\ \A axis \in 1..4 : l[axis] = LargerSize(a, b, axis)
  <2>1. 1 \in 1..4 /\ 2 \in 1..4 /\ 3 \in 1..4 /\ 4 \in 1..4
    OBVIOUS
  <2>2. /\ LargerSize(a, b, 1) \in Nat \ {0} /\ LargerSize(a, b, 2) \in Nat \ {0}
        /\ LargerSize(a, b, 3) \in Nat \ {0} /\ LargerSize(a, b, 4) \in Nat \ {0}
    BY <1>3, <2>1
  <2>3. \A axis \in 1..4 : axis = 1 \/ axis = 2 \/ axis = 3 \/ axis = 4
    OBVIOUS
  <2> QED
    BY <1>1, <2>2, <2>3
<1>5. PICK s : s = BroadcastShapes(a, b)
  OBVIOUS
<1>6. s = SubSeq(l, 5 - rank, 4)
  BY <1>1, <1>5 DEF BroadcastShapes, LargerSize
<1>7. /\ s \in Seq(Nat \ {0}) /\ Len(s) = rank
      /\ \A d \in 1..rank : s[d] = l[5 - rank + d - 1]
  <2>1. PICK T : T = Nat \ {0}
    OBVIOUS
  <2>2. l \in Seq(T) /\ Len(l) = 4
    BY <1>4, <2>1
  <2>3. PICK m \in 1..5 : m = 5 - rank
    BY <1>2
  <2>4. m \in Int /\ 4 \in Int /\ m <= 4 + 1 /\ \A d \in m..4 : l[d] \in T
    <3>1. \A d \in 1..4 : l[d] \in T
      BY <1>3, <1>4, <2>1
    <3>2. \A d \in m..4 : d \in 1..4
      OBVIOUS
    <3> QED
      BY <3>1, <3>2
  <2>5. /\ s \in Seq(T) /\ Len(s) = IF m <= 4 THEN 4 - m + 1 ELSE 0
        /\ \A d \in 1..(4 - m + 1) : s[d] = l[m + d - 1]
    BY ONLY <1>6, <2>3, <2>4, SubSeqProperties
  <2>6. 4 - m + 1 = rank
    BY <1>2, <2>3
  <2>7. Len(s) = rank
    BY <2>4, <2>5, <2>6
  <2> QED
    BY <2>1, <2>3, <2>5, <2>6, <2>7
<1>8. IsShape(s)
  BY <1>2, <1>7 DEF IsShape
<1>9. ASSUME NEW axis \in 1..4 PROVE Size(s, axis) = LargerSize(a, b, axis)
  <2>1. CASE axis - 4 + rank >= 1
    <3>1. axis - 4 + rank \in 1..rank /\ 5 - rank + (axis - 4 + rank) - 1 = axis
      BY <1>2, <2>1
    <3>2. s[axis - 4 + rank] = l[axis]
      BY <1>7, <3>1
    <3>3. Size(s, axis) = s[axis - 4 + rank]
      BY <1>7, <1>8, <2>1, SizesArePositive
    <3> QED
      BY <1>4, <3>2, <3>3
  <2>2. CASE axis - 4 + rank < 1
    <3>1. axis - 4 + Len(a) < 1 /\ axis - 4 + Len(b) < 1
      BY <1>2, <2>2
    <3>2. Size(a, axis) = 1 /\ Size(b, axis) = 1 /\ Size(s, axis) = 1
      BY <1>7, <1>8, <2>2, <3>1, SizesArePositive
    <3> QED
      BY <3>2 DEF LargerSize
  <2> QED
    BY <1>2, <2>1, <2>2
<1> QED
  BY <1>1, <1>5, <1>7, <1>8, <1>9

LEMMA IndexIs ==
  ASSUME NEW s, NEW i
  PROVE  i \in Indices(s) <=> /\ i = <<i[1], i[2], i[3], i[4]>>
                              /\ i[1] \in 1..Size(s, 1) /\ i[2] \in 1..Size(s, 2)
                              /\ i[3] \in 1..Size(s, 3) /\ i[4] \in 1..Size(s, 4)
BY DEF Indices

(* Every element of the result reads an element of each operand.           *)
LEMMA ReadsWithin ==
  ASSUME NEW t, NEW s, IsTensor(t), IsShape(s),
         \A axis \in 1..4 : Size(t.shape, axis) = 1 \/ Size(t.shape, axis) = Size(s, axis),
         NEW i \in Indices(s)
  PROVE  Read(t, i) \in Numbers
<1>1. IsShape(t.shape) /\ t.at \in [Indices(t.shape) -> Numbers]
  BY DEF IsTensor, IsShape
<1>2. PICK sh : sh = t.shape
  OBVIOUS
<1>3. Narrowed(sh, i) \in Indices(sh)
  <2>1. 1 \in 1..4 /\ 2 \in 1..4 /\ 3 \in 1..4 /\ 4 \in 1..4
    OBVIOUS
  <2>2. /\ Size(sh, 1) = 1 \/ Size(sh, 1) = Size(s, 1)
        /\ Size(sh, 2) = 1 \/ Size(sh, 2) = Size(s, 2)
        /\ Size(sh, 3) = 1 \/ Size(sh, 3) = Size(s, 3)
        /\ Size(sh, 4) = 1 \/ Size(sh, 4) = Size(s, 4)
    BY <1>2, <2>1
  <2>3. i[1] \in 1..Size(s, 1) /\ i[2] \in 1..Size(s, 2) /\ i[3] \in 1..Size(s, 3) /\ i[4] \in 1..Size(s, 4)
    BY IndexIs
  <2>4. PICK n1, n2, n3, n4 :
          /\ n1 = (IF Size(sh, 1) = 1 THEN 1 ELSE i[1]) /\ n2 = (IF Size(sh, 2) = 1 THEN 1 ELSE i[2])
          /\ n3 = (IF Size(sh, 3) = 1 THEN 1 ELSE i[3]) /\ n4 = (IF Size(sh, 4) = 1 THEN 1 ELSE i[4])
    OBVIOUS
  <2>5. Narrowed(sh, i) = <<n1, n2, n3, n4>>
    BY <2>4 DEF Narrowed
  <2>6. n1 \in 1..Size(sh, 1) /\ n2 \in 1..Size(sh, 2) /\ n3 \in 1..Size(sh, 3) /\ n4 \in 1..Size(sh, 4)
    BY <2>2, <2>3, <2>4
  <2> QED
    BY <2>5, <2>6 DEF Indices
<1> QED
  BY <1>1, <1>2, <1>3 DEF Read
=============================================================================
