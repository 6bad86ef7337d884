---------------------------- MODULE SessionProofs ----------------------------
(***************************************************************************)
(* What the optimizers and schedulers of Optimizers make of any heap, any  *)
(* parameters, hyperparameters and gradients, in one step and in a row of  *)
(* steps.  Then Session and the DataLoader it uses, for models of any      *)
(* shape and size, datasets and batches of any size, any plan and any      *)
(* number of steps, saves, loads and stops.  Numbers are those modulo P;   *)
(* that P is prime matters to the ramp of LinearWarmup alone, which ends   *)
(* where it divides by its own length.                                     *)
(***************************************************************************)
EXTENDS Session, TensorProofs

(***************************************************************************)
(* Powers and reciprocals                                                  *)
(***************************************************************************)
PowerUnfolds(b, n, f) == f = [k \in 0..n |-> IF k = 0 THEN 1 ELSE (b * f[k - 1]) % P]

(* The powers that Power chooses.                                          *)
LEMMA PowersExist ==
  ASSUME NEW b, NEW n \in Nat
  PROVE  \E f : PowerUnfolds(b, n, f)
<1> DEFINE S == {m \in Nat : \E f : PowerUnfolds(b, m, f)}
<1>1. 0 \in S
  <2>1. PowerUnfolds(b, 0, [k \in 0..0 |-> 1])
    BY DEF PowerUnfolds
  <2> QED BY <2>1
<1>2. ASSUME NEW m \in Nat, m \in S PROVE m + 1 \in S
  <2>1. PICK f : PowerUnfolds(b, m, f)
    BY <1>2
  <2> DEFINE last == (b * f[m]) % P
  <2> DEFINE g == [k \in 0..(m + 1) |-> IF k = m + 1 THEN last ELSE f[k]]
  <2>2. ASSUME NEW k \in 0..(m + 1)
        PROVE  g[k] = IF k = 0 THEN 1 ELSE (b * g[k - 1]) % P
    <3>1. CASE k = m + 1
      <4>1. k # 0 /\ k - 1 = m /\ m \in 0..(m + 1) /\ m # m + 1
        BY <3>1
      <4>2. g[k] = last /\ g[k - 1] = f[m]
        BY <3>1, <4>1
      <4> HIDE DEF g
      <4> QED BY <4>1, <4>2 DEF last
    <3>2. CASE k # m + 1
      <4>1. k \in 0..m /\ (k # 0 => k - 1 \in 0..m /\ k - 1 \in 0..(m + 1) /\ k - 1 # m + 1)
        BY <3>2
      <4>2. g[k] = f[k] /\ (k # 0 => g[k - 1] = f[k - 1])
        BY <3>2, <4>1
      <4>3. f[k] = IF k = 0 THEN 1 ELSE (b * f[k - 1]) % P
        BY <2>1, <4>1 DEF PowerUnfolds
      <4> HIDE DEF g
      <4> QED BY <4>2, <4>3
    <3> QED BY <3>1, <3>2
  <2>3. PowerUnfolds(b, m + 1, g)
    <3> HIDE DEF last
    <3> QED BY <2>2 DEF PowerUnfolds
  <2> HIDE DEF g
  <2> QED BY <2>3
<1> HIDE DEF S
<1>3. n \in S
  BY <1>1, <1>2, SetInduction
<1> QED
  BY <1>3 DEF S

LEMMA PowerIsLast ==
  ASSUME NEW b, NEW n \in Nat
  PROVE  \E f : PowerUnfolds(b, n, f) /\ Power(b, n) = f[n]
<1> DEFINE power == CHOOSE f : PowerUnfolds(b, n, f)
<1>1. Power(b, n) = power[n]
  BY Zenon DEF Power, PowerUnfolds
<1>2. PowerUnfolds(b, n, power)
  BY PowersExist
<1> QED
  BY <1>1, <1>2

(* Two unfoldings agree as far as both go.                                 *)
LEMMA PowersAgree ==
  ASSUME NEW b, NEW n \in Nat, NEW m \in 0..n, NEW f, NEW g,
         PowerUnfolds(b, n, f), PowerUnfolds(b, m, g)
  PROVE  g[m] = f[m]
<1> DEFINE S == {k \in 0..m : g[k] = f[k]}
<1>1. 0 \in S
  BY DEF PowerUnfolds
<1>2. ASSUME NEW k \in 0..(m - 1), k \in S PROVE k + 1 \in S
  <2>1. k + 1 \in 0..m /\ k + 1 \in 0..n /\ k + 1 # 0 /\ (k + 1) - 1 = k
    OBVIOUS
  <2>2. g[k + 1] = (b * g[k]) % P /\ f[k + 1] = (b * f[k]) % P
    BY <2>1 DEF PowerUnfolds
  <2> QED BY <1>2, <2>1, <2>2
<1> HIDE DEF S
<1>3. m \in Nat
  OBVIOUS
<1>4. \A k \in 0..m : k \in S
  BY <1>1, <1>2, <1>3, BoundedInduction
<1> QED
  BY <1>4 DEF S

(* One factor more.                                                        *)
LEMMA PowerSteps ==
  ASSUME NEW b, NEW n \in Nat
  PROVE  Power(b, 0) = 1 /\ Power(b, n + 1) = (b * Power(b, n)) % P
<1>1. PICK z : PowerUnfolds(b, 0, z) /\ Power(b, 0) = z[0]
  BY PowerIsLast
<1>2. PICK f : PowerUnfolds(b, n + 1, f) /\ Power(b, n + 1) = f[n + 1]
  BY PowerIsLast
<1>3. PICK g : PowerUnfolds(b, n, g) /\ Power(b, n) = g[n]
  BY PowerIsLast
<1>4. z[0] = 1
  BY <1>1 DEF PowerUnfolds
<1>5. n + 1 \in Nat /\ n \in 0..(n + 1) /\ n + 1 \in 0..(n + 1) /\ n + 1 # 0 /\ (n + 1) - 1 = n
  OBVIOUS
<1>6. f[n + 1] = (b * f[n]) % P
  BY <1>2, <1>5 DEF PowerUnfolds
<1>7. g[n] = f[n]
  BY <1>2, <1>3, <1>5, PowersAgree
<1> QED
  BY <1>1, <1>2, <1>3, <1>4, <1>6, <1>7

LEMMA PowerIsNumber ==
  ASSUME NEW b \in Int, NEW n \in Nat
  PROVE  Power(b, n) \in Numbers
<1> DEFINE S == {m \in Nat : Power(b, m) \in Numbers}
<1>1. 0 \in S
  <2>1. Power(b, 0) = 1
    BY PowerSteps
  <2> QED BY <2>1, PAssumption DEF Numbers
<1>2. ASSUME NEW m \in Nat, m \in S PROVE m + 1 \in S
  <2>1. PICK x \in Numbers : x = Power(b, m)
    BY <1>2
  <2>2. b * x \in Int
    BY PAssumption DEF Numbers
  <2>3. (b * x) % P \in Numbers
    BY <2>2, ModIsNumber
  <2> QED BY <2>1, <2>3, PowerSteps
<1> HIDE DEF S
<1>3. n \in S
  BY <1>1, <1>2, SetInduction
<1> QED
  BY <1>3 DEF S

(* Division is exact.                                                      *)
LEMMA ReciprocalInverts ==
  ASSUME NEW x \in Int
  PROVE  /\ Reciprocal(x) \in Numbers
         /\ x % P # 0 => (x * Reciprocal(x)) % P = 1
<1>1. CASE x % P = 0
  BY <1>1, PAssumption DEF Reciprocal, Numbers
<1>2. CASE x % P # 0
  <2>1. PICK r \in 1..(P - 1) : r = x % P
    BY <1>2, PAssumption, ModIsNumber DEF Numbers
  <2>2. PICK y \in Numbers : (r * y) % P = 1
    BY <2>1, PrimeAssumption
  <2>3. y \in Int
    BY PAssumption DEF Numbers
  <2>4. (r * y) % P = (x * y) % P
    BY <2>1, <2>3, ModInProduct
  <2>5. \E u \in Numbers : (x * u) % P = 1
    BY <2>2, <2>4
  <2>6. Reciprocal(x) = CHOOSE u \in Numbers : (x * u) % P = 1
    BY <1>2 DEF Reciprocal
  <2> QED BY <2>5, <2>6, Zenon
<1> QED BY <1>1, <1>2

(***************************************************************************)
(* Element by element                                                      *)
(***************************************************************************)
Row(n) == [1..n -> Numbers]

(* A row is the contents of a tensor.                                      *)
LEMMA RowIsASequence ==
  ASSUME NEW n \in Nat, NEW x \in Row(n)
  PROVE  /\ x \in Seq(Numbers) /\ Len(x) = n /\ DOMAIN x = 1..n
         /\ \A k \in 1..n : x[k] \in Numbers /\ x[k] \in Int
<1>1. x \in [1..n -> Numbers]
  BY DEF Row
<1>2. x \in Seq(Numbers) /\ Len(x) = n
  BY <1>1, SequenceByDomain
<1>3. Numbers \subseteq Int
  BY PAssumption DEF Numbers
<1> QED
  BY <1>1, <1>2, <1>3

LEMMA SequenceIsARow ==
  ASSUME NEW x \in Seq(Numbers)
  PROVE  Len(x) \in Nat /\ x \in Row(Len(x))
BY DEF Row

(* What the operations give, on anything that holds integers.              *)
LEMMA PlusIs ==
  ASSUME NEW n \in Nat, NEW x, Len(x) = n, NEW y, \A k \in 1..n : x[k] \in Int /\ y[k] \in Int
  PROVE  Plus(x, y) \in Row(n) /\ \A k \in 1..n : Plus(x, y)[k] = (x[k] + y[k]) % P
<1> DEFINE f == [k \in 1..n |-> (x[k] + y[k]) % P]
<1>1. \A k \in 1..n : x[k] + y[k] \in Int
  OBVIOUS
<1>2. \A k \in 1..n : (x[k] + y[k]) % P \in Numbers
  BY <1>1, ModIsNumber
<1>3. f \in [1..n -> Numbers]
  BY <1>2
<1>4. Plus(x, y) = CHOOSE s \in {f} : s \in [1..n -> Numbers]
  BY DEF Plus, Flat
<1>5. \A k \in 1..n : f[k] = (x[k] + y[k]) % P
  OBVIOUS
<1> HIDE DEF f
<1>6. Plus(x, y) = f
  BY <1>3, <1>4
<1> QED
  BY <1>3, <1>5, <1>6 DEF Row

LEMMA TimesIs ==
  ASSUME NEW n \in Nat, NEW x, Len(x) = n, NEW y, \A k \in 1..n : x[k] \in Int /\ y[k] \in Int
  PROVE  Times(x, y) \in Row(n) /\ \A k \in 1..n : Times(x, y)[k] = (x[k] * y[k]) % P
<1> DEFINE f == [k \in 1..n |-> (x[k] * y[k]) % P]
<1>1. \A k \in 1..n : x[k] * y[k] \in Int
  OBVIOUS
<1>2. \A k \in 1..n : (x[k] * y[k]) % P \in Numbers
  BY <1>1, ModIsNumber
<1>3. f \in [1..n -> Numbers]
  BY <1>2
<1>4. Times(x, y) = CHOOSE s \in {f} : s \in [1..n -> Numbers]
  BY DEF Times, Flat
<1>5. \A k \in 1..n : f[k] = (x[k] * y[k]) % P
  OBVIOUS
<1> HIDE DEF f
<1>6. Times(x, y) = f
  BY <1>3, <1>4
<1> QED
  BY <1>3, <1>5, <1>6 DEF Row

LEMMA ScaledIs ==
  ASSUME NEW n \in Nat, NEW x, Len(x) = n, \A k \in 1..n : x[k] \in Int, NEW c \in Int
  PROVE  Scaled(x, c) \in Row(n) /\ \A k \in 1..n : Scaled(x, c)[k] = (x[k] * c) % P
<1> DEFINE f == [k \in 1..n |-> (x[k] * c) % P]
<1>1. \A k \in 1..n : x[k] * c \in Int
  OBVIOUS
<1>2. \A k \in 1..n : (x[k] * c) % P \in Numbers
  BY <1>1, ModIsNumber
<1>3. f \in [1..n -> Numbers]
  BY <1>2
<1>4. Scaled(x, c) = CHOOSE s \in {f} : s \in [1..n -> Numbers]
  BY DEF Scaled, Flat
<1>5. \A k \in 1..n : f[k] = (x[k] * c) % P
  OBVIOUS
<1> HIDE DEF f
<1>6. Scaled(x, c) = f
  BY <1>3, <1>4
<1> QED
  BY <1>3, <1>5, <1>6 DEF Row

LEMMA ZerosIs ==
  ASSUME NEW n \in Nat, NEW x, Len(x) = n
  PROVE  Zeros(x) \in Row(n) /\ \A k \in 1..n : Zeros(x)[k] = 0
<1> DEFINE f == [k \in 1..n |-> 0 % P]
<1>1. 0 \in Numbers /\ 0 % P = 0
  <2>1. 0 \in Numbers
    BY PAssumption DEF Numbers
  <2> QED BY <2>1, NumberModP
<1>3. f \in [1..n -> Numbers]
  BY <1>1
<1>4. Zeros(x) = CHOOSE s \in {f} : s \in [1..n -> Numbers]
  BY DEF Zeros, Flat
<1>5. \A k \in 1..n : f[k] = 0
  BY <1>1
<1> HIDE DEF f
<1>6. Zeros(x) = f
  BY <1>3, <1>4
<1> QED
  BY <1>3, <1>5, <1>6 DEF Row

(* What Adam divides by, and what it subtracts.                            *)
Denominator(v, x, eps) == Flat(Len(v), LAMBDA k : Function("sqrt", 0, x[k]) + eps)

AdamUpdate(m, d, rate) == Flat(Len(m), LAMBDA k : m[k] * Reciprocal(d[k]) * rate)

(* The two rows that Adam's update is made of.                             *)
LEMMA DenominatorIs ==
  ASSUME NEW n \in Nat, NEW v, Len(v) = n, NEW x \in Row(n), NEW eps \in Int
  PROVE  Denominator(v, x, eps) \in Row(n)
<1> DEFINE f == [k \in 1..n |-> (Function("sqrt", 0, x[k]) + eps) % P]
<1>1. \A k \in 1..n : x[k] \in Int
  BY RowIsASequence
<1>2. \A k \in 1..n : Function("sqrt", 0, x[k]) + eps \in Int
  BY <1>1 DEF Function
<1>3. f \in [1..n -> Numbers]
  BY <1>2, ModIsNumber
<1>4. Denominator(v, x, eps) = CHOOSE s \in {f} : s \in [1..n -> Numbers]
  BY DEF Flat, Denominator
<1> HIDE DEF f
<1> QED
  BY <1>3, <1>4 DEF Row

LEMMA AdamUpdateIs ==
  ASSUME NEW n \in Nat, NEW m \in Row(n), NEW d \in Row(n), NEW rate \in Int
  PROVE  AdamUpdate(m, d, rate) \in Row(n)
<1> DEFINE g == [k \in 1..n |-> (m[k] * Reciprocal(d[k]) * rate) % P]
<1>1. Len(m) = n /\ \A k \in 1..n : d[k] \in Int /\ m[k] \in Int
  BY RowIsASequence
<1>2. ASSUME NEW k \in 1..n PROVE (m[k] * Reciprocal(d[k]) * rate) % P \in Numbers
  <2>1. PICK y \in Int : y = Reciprocal(d[k])
    BY <1>1, ReciprocalInverts, NumberModP
  <2>2. PICK z \in Int : z = m[k]
    BY <1>1
  <2>3. z * y * rate \in Int
    OBVIOUS
  <2> QED
    BY <2>1, <2>2, <2>3, ModIsNumber
<1>3. g \in [1..n -> Numbers]
  BY <1>2
<1>4. AdamUpdate(m, d, rate) = CHOOSE s \in {g} : s \in [1..n -> Numbers]
  BY <1>1 DEF Flat, AdamUpdate
<1> HIDE DEF g
<1> QED
  BY <1>3, <1>4 DEF Row

(***************************************************************************)
(* The state of an optimizer                                               *)
(***************************************************************************)
OptimizerFields ==
  {"kind", "lr", "momentum", "nesterov", "beta1", "beta2", "eps", "decay",
   "params", "t", "buf", "m", "v"}

HoldsNumbers(c) == DOMAIN c = {"shape", "flat", "requires_grad"} /\ c.flat \in Seq(Numbers)

IsHeap(h) == IsSequence(h) /\ \A t \in DOMAIN h : HoldsNumbers(h[t])

SettingsOf(o) ==
  <<o.kind, o.lr, o.momentum, o.nesterov, o.beta1, o.beta2, o.eps, o.decay, o.params>>

(* What it remembers of a parameter has the parameter's size.              *)
NoneOrRow(b, n) == b = << >> \/ b \in Row(n)

Remembers(o, i, n) ==
  /\ NoneOrRow(o.buf[i], n)
  /\ o.m[i] \in Row(n) /\ o.v[i] \in Row(n)

OnePer(f, params) == IsSequence(f) /\ DOMAIN f = DOMAIN params

IsOptimizer(o, h) ==
  /\ DOMAIN o = OptimizerFields
  /\ o.lr \in Int /\ o.momentum \in Int /\ o.beta1 \in Int /\ o.beta2 \in Int
  /\ o.eps \in Int /\ o.decay \in Int /\ o.t \in Nat
  /\ o.params \in Seq(DOMAIN h)
  /\ OnePer(o.buf, o.params) /\ OnePer(o.m, o.params) /\ OnePer(o.v, o.params)
  /\ \A i \in DOMAIN o.params : Remembers(o, i, Len(h[o.params[i]].flat))

IsState(s) == DOMAIN s = {"opt", "heap"} /\ IsHeap(s.heap) /\ IsOptimizer(s.opt, s.heap)

SizeOf(s, i) == Len(s.heap[s.opt.params[i]].flat)

(* The heap has the same tensors, with other numbers perhaps.              *)
SameTensors(g, h) ==
  /\ IsHeap(h) /\ DOMAIN h = DOMAIN g
  /\ \A t \in DOMAIN g : h[t].requires_grad = g[t].requires_grad /\ h[t].shape = g[t].shape
                         /\ Len(h[t].flat) = Len(g[t].flat)

Kept(s, r) == IsState(r) /\ SettingsOf(r.opt) = SettingsOf(s.opt) /\ SameTensors(s.heap, r.heap)

(* A parameter is a tensor, and what is remembered of it fits.             *)
LEMMA StateFacts ==
  ASSUME NEW s, IsState(s), NEW i \in DOMAIN s.opt.params
  PROVE  /\ s.opt.params[i] \in DOMAIN s.heap
         /\ SizeOf(s, i) \in Nat /\ s.heap[s.opt.params[i]].flat \in Row(SizeOf(s, i))
         /\ Remembers(s.opt, i, SizeOf(s, i))
<1>1. s.opt.params \in Seq(DOMAIN s.heap) /\ Remembers(s.opt, i, SizeOf(s, i))
  BY DEF IsState, IsOptimizer, SizeOf
<1>2. s.opt.params[i] \in DOMAIN s.heap
  BY <1>1, SequenceOfAnything
<1>3. s.heap[s.opt.params[i]].flat \in Seq(Numbers)
  BY <1>2 DEF IsState, IsHeap, HoldsNumbers
<1> QED
  BY <1>1, <1>2, <1>3, SequenceIsARow DEF SizeOf

LEMMA KeptTwice ==
  ASSUME NEW s, NEW r, NEW u, Kept(s, r), Kept(r, u)
  PROVE  Kept(s, u)
BY DEF Kept, SameTensors

LEMMA KeptSizes ==
  ASSUME NEW s, IsState(s), NEW r, Kept(s, r), NEW i \in DOMAIN s.opt.params
  PROVE  SizeOf(r, i) = SizeOf(s, i) /\ r.opt.params = s.opt.params
<1>1. r.opt.params = s.opt.params /\ SameTensors(s.heap, r.heap)
  BY DEF Kept, SettingsOf
<1>2. s.opt.params[i] \in DOMAIN s.heap
  BY StateFacts
<1> QED
  BY <1>1, <1>2 DEF SizeOf, SameTensors

(* An update in place leaves everything but its numbers.                   *)
LEMMA AddInPlaceKeeps ==
  ASSUME NEW s, IsState(s), NEW i \in DOMAIN s.opt.params, NEW x \in Row(SizeOf(s, i)), NEW alpha \in Int
  PROVE  Kept(s, AddInPlace(s, i, x, alpha)) /\ AddInPlace(s, i, x, alpha).opt = s.opt
<1> DEFINE r == AddInPlace(s, i, x, alpha)
<1> DEFINE p == s.opt.params[i]
<1> DEFINE n == SizeOf(s, i)
<1> DEFINE y == Plus(s.heap[p].flat, Scaled(x, alpha))
<1> DEFINE c == [s.heap[p] EXCEPT !.flat = y]
<1> DEFINE h == [s.heap EXCEPT ![p] = c]
<1>1. r = [s EXCEPT !.heap = h]
  BY Zenon DEF AddInPlace
<1>2. p \in DOMAIN s.heap /\ n \in Nat /\ s.heap[p].flat \in Row(n) /\ Len(s.heap[p].flat) = n
  BY StateFacts, RowIsASequence
<1>3. y \in Row(n)
  <2>1. Len(x) = n /\ \A k \in 1..n : x[k] \in Int
    BY <1>2, RowIsASequence
  <2>2. Scaled(x, alpha) \in Row(n)
    BY <1>2, <2>1, ScaledIs
  <2>3. \A k \in 1..n : s.heap[p].flat[k] \in Int /\ Scaled(x, alpha)[k] \in Int
    BY <1>2, <2>2, RowIsASequence
  <2> QED
    BY <1>2, <2>3, PlusIs
<1>4. y \in Seq(Numbers) /\ Len(y) = n
  BY <1>2, <1>3, RowIsASequence
<1> HIDE DEF y, n
<1>5. HoldsNumbers(c) /\ c.requires_grad = s.heap[p].requires_grad /\ c.shape = s.heap[p].shape /\ c.flat = y
  BY <1>2, <1>4 DEF IsState, IsHeap, HoldsNumbers
<1> HIDE DEF c, p
<1>6. \A t \in DOMAIN s.heap : h[t] = IF t = p THEN c ELSE s.heap[t]
  OBVIOUS
<1>7. PICK m \in Nat : s.heap \in [1..m -> {s.heap[t] : t \in DOMAIN s.heap}]
  BY SeqDef DEF IsState, IsHeap, IsSequence
<1>8. h \in [1..m -> {h[t] : t \in DOMAIN h}] /\ DOMAIN h = DOMAIN s.heap
  BY <1>7
<1> HIDE DEF h, r
<1>9. IsSequence(h)
  BY <1>8, SequenceByDomain
<1>10. SameTensors(s.heap, h)
  <2>1. \A t \in DOMAIN s.heap : HoldsNumbers(h[t])
    BY <1>5, <1>6 DEF IsState, IsHeap
  <2>2. IsHeap(h)
    BY <1>8, <1>9, <2>1 DEF IsHeap
  <2>3. \A t \in DOMAIN s.heap : Len(h[t].flat) = Len(s.heap[t].flat)
    BY <1>2, <1>4, <1>5, <1>6
  <2> QED
    BY <1>5, <1>6, <1>8, <2>2, <2>3 DEF SameTensors
<1>11. r.opt = s.opt /\ DOMAIN r = DOMAIN s /\ r.heap = h
  BY <1>1 DEF IsState
<1>12. IsOptimizer(s.opt, h)
  <2>1. s.opt.params \in Seq(DOMAIN h)
    BY <1>8 DEF IsState, IsOptimizer
  <2>2. ASSUME NEW j \in DOMAIN s.opt.params PROVE Remembers(s.opt, j, Len(h[s.opt.params[j]].flat))
    BY StateFacts, <1>10 DEF SameTensors, SizeOf
  <2> QED
    BY <2>1, <2>2 DEF IsState, IsOptimizer
<1>13. IsState(r)
  BY <1>10, <1>11, <1>12 DEF IsState, SameTensors
<1> QED
  BY <1>10, <1>11, <1>13 DEF Kept, r

(***************************************************************************)
(* One parameter's part of a step                                          *)
(***************************************************************************)
BufferAfter(rule, o, i, g) ==
  IF rule = "sgd" /\ o.momentum # 0
  THEN IF o.buf[i] = << >> THEN g ELSE Plus(Scaled(o.buf[i], o.momentum), g)
  ELSE o.buf[i]

MeanAfter(rule, o, i, g) ==
  IF rule = "adam" THEN Plus(Scaled(o.m[i], o.beta1), Scaled(g, 1 - o.beta1)) ELSE o.m[i]

SquareAfter(rule, o, i, g) ==
  IF rule = "adam" THEN Plus(Scaled(o.v[i], o.beta2), Scaled(Times(g, g), 1 - o.beta2)) ELSE o.v[i]

(* Nothing else is remembered anew.                                        *)
RemembersOne(rule, o, r, i, g) ==
  /\ r.t = o.t
  /\ r.buf = [o.buf EXCEPT ![i] = BufferAfter(rule, o, i, g)]
  /\ r.m = [o.m EXCEPT ![i] = MeanAfter(rule, o, i, g)]
  /\ r.v = [o.v EXCEPT ![i] = SquareAfter(rule, o, i, g)]

(* a * x + b * y                                                           *)
LEMMA MixedRow ==
  ASSUME NEW n \in Nat, NEW x \in Row(n), NEW y \in Row(n), NEW a \in Int
  PROVE  Plus(Scaled(x, a), y) \in Row(n) /\ \A b \in Int : Plus(Scaled(x, a), Scaled(y, b)) \in Row(n)
<1>1. Len(x) = n /\ Len(y) = n /\ \A k \in 1..n : x[k] \in Int /\ y[k] \in Int
  BY RowIsASequence
<1>2. Scaled(x, a) \in Row(n) /\ \A b \in Int : Scaled(y, b) \in Row(n)
  BY <1>1, ScaledIs
<1>3. Len(Scaled(x, a)) = n /\ \A k \in 1..n : Scaled(x, a)[k] \in Int
  BY <1>2, RowIsASequence
<1>4. Plus(Scaled(x, a), y) \in Row(n)
  BY <1>1, <1>3, PlusIs
<1>5. ASSUME NEW b \in Int PROVE Plus(Scaled(x, a), Scaled(y, b)) \in Row(n)
  <2>1. \A k \in 1..n : Scaled(y, b)[k] \in Int
    BY <1>2, RowIsASequence
  <2> QED
    BY <1>3, <2>1, PlusIs
<1> QED
  BY <1>4, <1>5

(* Changing one entry of a sequence, perhaps to what it was.               *)
LEMMA ChangedOnce ==
  ASSUME NEW f, IsSequence(f), NEW i \in DOMAIN f, NEW x
  PROVE  /\ IsSequence([f EXCEPT ![i] = x]) /\ DOMAIN [f EXCEPT ![i] = x] = DOMAIN f
         /\ [f EXCEPT ![i] = x][i] = x
         /\ \A j \in DOMAIN f : j # i => [f EXCEPT ![i] = x][j] = f[j]
         /\ [f EXCEPT ![i] = f[i]] = f
<1> DEFINE g == [f EXCEPT ![i] = x]
<1>1. PICK n \in Nat : n = Len(f) /\ f \in [1..n -> {f[k] : k \in DOMAIN f}]
  BY SequenceIsAFunction
<1>2. g \in [1..n -> {g[k] : k \in DOMAIN g}] /\ DOMAIN g = DOMAIN f
  BY <1>1
<1>3. IsSequence(g)
  <2> HIDE DEF g
  <2> QED
    BY <1>2, SequenceByDomain
<1>4. [f EXCEPT ![i] = f[i]] = f
  BY <1>1
<1> QED
  BY <1>2, <1>3, <1>4

(* A state with other memories of one parameter.                           *)
Rewritten(s, r, o, i, b, m, v) ==
  /\ r = [s EXCEPT !.opt = o]
  /\ DOMAIN o = OptimizerFields /\ SettingsOf(o) = SettingsOf(s.opt) /\ o.t = s.opt.t
  /\ o.buf = [s.opt.buf EXCEPT ![i] = b] /\ o.m = [s.opt.m EXCEPT ![i] = m]
  /\ o.v = [s.opt.v EXCEPT ![i] = v]

(* So does another memory.                                                 *)
LEMMA RememberingKeeps ==
  ASSUME NEW s, IsState(s), NEW i \in DOMAIN s.opt.params, NEW n, n = SizeOf(s, i),
         NEW b, NoneOrRow(b, n), NEW m \in Row(n), NEW v \in Row(n),
         NEW o, NEW r, Rewritten(s, r, o, i, b, m, v)
  PROVE  Kept(s, r) /\ SizeOf(r, i) = n /\ r.opt = o /\ IsState(r) /\ i \in DOMAIN r.opt.params
<1> USE DEF Rewritten
<1>0. DOMAIN s.opt = OptimizerFields /\ DOMAIN s = {"opt", "heap"}
  BY DEF IsState, IsOptimizer
<1>1. o.params = s.opt.params
  BY DEF SettingsOf
<1>2. r.opt = o /\ r.heap = s.heap /\ DOMAIN r = {"opt", "heap"}
  BY <1>0
<1>3. /\ IsSequence(s.opt.buf) /\ IsSequence(s.opt.m) /\ IsSequence(s.opt.v)
      /\ i \in DOMAIN s.opt.buf /\ i \in DOMAIN s.opt.m /\ i \in DOMAIN s.opt.v
  BY DEF IsState, IsOptimizer, OnePer
<1>4. OnePer(o.buf, o.params) /\ OnePer(o.m, o.params) /\ OnePer(o.v, o.params)
  <2>1. IsSequence(o.buf) /\ DOMAIN o.buf = DOMAIN s.opt.buf
    BY <1>3, ChangedOnce
  <2>2. IsSequence(o.m) /\ DOMAIN o.m = DOMAIN s.opt.m
    BY <1>3, ChangedOnce
  <2>3. IsSequence(o.v) /\ DOMAIN o.v = DOMAIN s.opt.v
    BY <1>3, ChangedOnce
  <2> QED
    BY <1>1, <2>1, <2>2, <2>3 DEF IsState, IsOptimizer, OnePer
<1>5. ASSUME NEW j \in DOMAIN s.opt.params PROVE Remembers(o, j, SizeOf(s, j))
  <2>0. j \in DOMAIN s.opt.buf /\ j \in DOMAIN s.opt.m /\ j \in DOMAIN s.opt.v
    BY DEF IsState, IsOptimizer, OnePer
  <2>1. CASE j = i
    <3>1. o.buf[j] = b /\ o.m[j] = m /\ o.v[j] = v
      BY <1>3, <2>1, ChangedOnce
    <3> QED
      BY <2>1, <3>1 DEF Remembers
  <2>2. CASE j # i
    <3>1. o.buf[j] = s.opt.buf[j]
      BY <1>3, <2>0, <2>2, ChangedOnce
    <3>2. o.m[j] = s.opt.m[j]
      BY <1>3, <2>0, <2>2, ChangedOnce
    <3>3. o.v[j] = s.opt.v[j]
      BY <1>3, <2>0, <2>2, ChangedOnce
    <3> QED
      BY <3>1, <3>2, <3>3, StateFacts DEF Remembers
  <2> QED
    BY <2>1, <2>2
<1>6. IsOptimizer(o, s.heap)
  <2>1. /\ o.lr = s.opt.lr /\ o.momentum = s.opt.momentum /\ o.beta1 = s.opt.beta1
        /\ o.beta2 = s.opt.beta2 /\ o.eps = s.opt.eps /\ o.decay = s.opt.decay
    BY DEF SettingsOf
  <2> QED
    BY <1>1, <1>4, <1>5, <2>1 DEF IsState, IsOptimizer, SizeOf
<1>7. SameTensors(s.heap, s.heap)
  BY DEF SameTensors, IsState
<1>8. Kept(s, r) /\ IsState(r)
  BY <1>2, <1>6, <1>7 DEF Kept, IsState
<1>9. SizeOf(r, i) = n
  BY <1>1, <1>2 DEF SizeOf
<1> QED
  BY <1>1, <1>2, <1>8, <1>9

(* A parameter's part of a step of SGD, and of Adam.                       *)
LEMMA SgdParamIs ==
  ASSUME NEW s, IsState(s), NEW i \in DOMAIN s.opt.params, NEW g \in Row(SizeOf(s, i))
  PROVE  Kept(s, SgdParam(s, i, g)) /\ RemembersOne("sgd", s.opt, SgdParam(s, i, g).opt, i, g)
<1>0. /\ DOMAIN s.opt = OptimizerFields /\ DOMAIN s = {"opt", "heap"}
      /\ s.opt.lr \in Int /\ -s.opt.lr \in Int /\ s.opt.momentum \in Int
      /\ i \in DOMAIN s.opt.buf /\ i \in DOMAIN s.opt.m /\ i \in DOMAIN s.opt.v
      /\ IsSequence(s.opt.buf) /\ IsSequence(s.opt.m) /\ IsSequence(s.opt.v)
  BY DEF IsState, IsOptimizer, OnePer
<1>a. /\ [s.opt.buf EXCEPT ![i] = s.opt.buf[i]] = s.opt.buf
      /\ [s.opt.m EXCEPT ![i] = s.opt.m[i]] = s.opt.m
      /\ [s.opt.v EXCEPT ![i] = s.opt.v[i]] = s.opt.v
  BY <1>0, ChangedOnce
<1>1. PICK n \in Nat : n = SizeOf(s, i)
  BY StateFacts
<1>2. Remembers(s.opt, i, n)
  BY <1>1, StateFacts
<1> DEFINE buf == Buffered(s, i, g)
<1> DEFINE update == IF s.opt.nesterov THEN Plus(g, Scaled(buf, s.opt.momentum)) ELSE buf
<1>3. buf = IF s.opt.buf[i] = << >> THEN g ELSE Plus(Scaled(s.opt.buf[i], s.opt.momentum), g)
  BY DEF Buffered
<1>4. buf \in Row(n)
  <2>1. CASE s.opt.buf[i] = << >>
    BY <1>1, <1>3, <2>1
  <2>2. CASE s.opt.buf[i] # << >>
    <3>1. s.opt.buf[i] \in Row(n) /\ g \in Row(n)
      BY <1>1, <1>2, <2>2 DEF Remembers, NoneOrRow
    <3> HIDE DEF buf
    <3> QED
      BY <1>0, <1>3, <2>2, <3>1, MixedRow
  <2> QED
    BY <2>1, <2>2
<1> HIDE DEF buf
<1>5. update \in Row(n)
  <2>1. Len(g) = n /\ Len(buf) = n /\ \A k \in 1..n : g[k] \in Int /\ buf[k] \in Int
    BY <1>1, <1>4, RowIsASequence
  <2>2. Scaled(buf, s.opt.momentum) \in Row(n)
    BY <2>1, <1>0, ScaledIs
  <2>3. \A k \in 1..n : Scaled(buf, s.opt.momentum)[k] \in Int
    BY <2>2, RowIsASequence
  <2>4. Plus(g, Scaled(buf, s.opt.momentum)) \in Row(n)
    BY <2>1, <2>3, PlusIs
  <2> QED BY <1>4, <2>4
<1>6. CASE s.opt.momentum = 0
  <2>1. SgdParam(s, i, g) = AddInPlace(s, i, g, -s.opt.lr)
    BY <1>6 DEF SgdParam
  <2>2. Kept(s, SgdParam(s, i, g)) /\ SgdParam(s, i, g).opt = s.opt
    BY <2>1, <1>0, AddInPlaceKeeps
  <2>3. RemembersOne("sgd", s.opt, s.opt, i, g)
    BY <1>a, <1>6 DEF RemembersOne, BufferAfter, MeanAfter, SquareAfter
  <2> QED BY <2>2, <2>3
<1>7. CASE s.opt.momentum # 0
  <2> DEFINE o == [s.opt EXCEPT !.buf = [s.opt.buf EXCEPT ![i] = buf]]
  <2> DEFINE r == [s EXCEPT !.opt = o]
  <2>1. SgdParam(s, i, g) = AddInPlace(r, i, update, -s.opt.lr)
    BY <1>7 DEF SgdParam, buf
  <2>2. /\ DOMAIN o = OptimizerFields /\ SettingsOf(o) = SettingsOf(s.opt) /\ o.t = s.opt.t
        /\ o.buf = [s.opt.buf EXCEPT ![i] = buf] /\ o.m = s.opt.m /\ o.v = s.opt.v
    BY <1>0 DEF OptimizerFields, SettingsOf
  <2> HIDE DEF o
  <2>3. Kept(s, r) /\ SizeOf(r, i) = n /\ r.opt = o /\ IsState(r) /\ i \in DOMAIN r.opt.params
    <3>1. Rewritten(s, r, o, i, buf, s.opt.m[i], s.opt.v[i])
      BY <1>a, <2>2 DEF Rewritten
    <3>2. s.opt.m[i] \in Row(n) /\ s.opt.v[i] \in Row(n)
      BY <1>2 DEF Remembers
    <3>3. NoneOrRow(buf, n)
      BY <1>4 DEF NoneOrRow
    <3> HIDE DEF r
    <3> QED
      BY <1>1, <3>1, <3>2, <3>3, RememberingKeeps
  <2> HIDE DEF r, update
  <2>4. Kept(r, SgdParam(s, i, g)) /\ SgdParam(s, i, g).opt = o
    BY <2>1, <2>3, <1>0, <1>5, AddInPlaceKeeps
  <2>5. RemembersOne("sgd", s.opt, o, i, g)
    BY <2>2, <1>a, <1>3, <1>7 DEF RemembersOne, BufferAfter, MeanAfter, SquareAfter
  <2> QED BY <2>3, <2>4, <2>5, KeptTwice
<1> QED BY <1>6, <1>7

LEMMA AdamParamIs ==
  ASSUME NEW s, IsState(s), NEW i \in DOMAIN s.opt.params, NEW g \in Row(SizeOf(s, i))
  PROVE  Kept(s, AdamParam(s, i, g)) /\ RemembersOne("adam", s.opt, AdamParam(s, i, g).opt, i, g)
<1>0. /\ DOMAIN s.opt = OptimizerFields /\ DOMAIN s = {"opt", "heap"}
      /\ s.opt.lr \in Int /\ s.opt.eps \in Int /\ s.opt.t \in Nat
      /\ s.opt.beta1 \in Int /\ s.opt.beta2 \in Int /\ 1 - s.opt.beta1 \in Int /\ 1 - s.opt.beta2 \in Int
      /\ i \in DOMAIN s.opt.buf /\ IsSequence(s.opt.buf)
  BY DEF IsState, IsOptimizer, OnePer
<1>a. [s.opt.buf EXCEPT ![i] = s.opt.buf[i]] = s.opt.buf
  BY <1>0, ChangedOnce
<1>1. PICK n \in Nat : n = SizeOf(s, i)
  BY StateFacts
<1>2. Remembers(s.opt, i, n) /\ g \in Row(n)
  BY <1>1, StateFacts
<1> DEFINE m      == Plus(Scaled(s.opt.m[i], s.opt.beta1), Scaled(g, 1 - s.opt.beta1))
           v      == Plus(Scaled(s.opt.v[i], s.opt.beta2), Scaled(Times(g, g), 1 - s.opt.beta2))
           v_hat  == Scaled(v, Reciprocal(1 - Power(s.opt.beta2, s.opt.t)))
           denom  == Denominator(v, v_hat, s.opt.eps)
           rate   == s.opt.lr * Reciprocal(1 - Power(s.opt.beta1, s.opt.t))
           update == AdamUpdate(m, denom, rate)
           o      == [s.opt EXCEPT !.m = [s.opt.m EXCEPT ![i] = m], !.v = [s.opt.v EXCEPT ![i] = v]]
           r      == [s EXCEPT !.opt = o]
<1>3. AdamParam(s, i, g) = AddInPlace(r, i, update, -1)
  BY Zenon DEF AdamParam, Denominator, AdamUpdate
<1>4. Len(g) = n /\ \A k \in 1..n : g[k] \in Int
  BY <1>2, RowIsASequence
<1>5. m \in Row(n) /\ v \in Row(n)
  <2>1. Times(g, g) \in Row(n)
    BY <1>4, TimesIs
  <2> QED BY <1>0, <1>2, <2>1, MixedRow DEF Remembers
<1>6. \A b \in Int : Reciprocal(1 - Power(b, s.opt.t)) \in Int
  <2>1. ASSUME NEW b \in Int PROVE 1 - Power(b, s.opt.t) \in Int
    <3>1. PICK y \in Int : y = Power(b, s.opt.t)
      BY <1>0, PowerIsNumber, NumberModP
    <3> QED
      BY <3>1
  <2> QED BY <2>1, ReciprocalInverts, NumberModP
<1>7. update \in Row(n)
  <2> HIDE DEF m, v
  <2>1. Len(v) = n /\ Len(m) = n /\ \A k \in 1..n : v[k] \in Int
    BY <1>5, RowIsASequence
  <2>2. v_hat \in Row(n)
    BY <2>1, <1>0, <1>6, ScaledIs
  <2>3. rate \in Int
    <3>1. PICK y \in Int : y = Reciprocal(1 - Power(s.opt.beta1, s.opt.t))
      BY <1>0, <1>6
    <3> QED BY <3>1, <1>0
  <2> HIDE DEF v_hat, rate
  <2>4. denom \in Row(n)
    BY <2>1, <2>2, <1>0, DenominatorIs
  <2> HIDE DEF denom
  <2> QED BY <2>3, <2>4, <1>5, AdamUpdateIs
<1> HIDE DEF m, v, v_hat, denom, rate, update
<1>8. /\ DOMAIN o = OptimizerFields /\ SettingsOf(o) = SettingsOf(s.opt) /\ o.t = s.opt.t
      /\ o.buf = s.opt.buf /\ o.m = [s.opt.m EXCEPT ![i] = m] /\ o.v = [s.opt.v EXCEPT ![i] = v]
  BY <1>0 DEF OptimizerFields, SettingsOf
<1> HIDE DEF o
<1>9. Kept(s, r) /\ SizeOf(r, i) = n /\ r.opt = o /\ IsState(r) /\ i \in DOMAIN r.opt.params
  <2>1. NoneOrRow(s.opt.buf[i], n)
    BY <1>2 DEF Remembers
  <2>2. Rewritten(s, r, o, i, s.opt.buf[i], m, v)
    BY <1>8, <1>a DEF Rewritten
  <2> HIDE DEF r
  <2> QED
    BY <1>1, <1>5, <2>1, <2>2, RememberingKeeps
<1> HIDE DEF r
<1>10. Kept(r, AdamParam(s, i, g)) /\ AdamParam(s, i, g).opt = o
  BY <1>3, <1>7, <1>9, AddInPlaceKeeps
<1>11. RemembersOne("adam", s.opt, o, i, g)
  BY <1>8, <1>a DEF RemembersOne, BufferAfter, MeanAfter, SquareAfter, m, v
<1> QED BY <1>9, <1>10, <1>11, KeptTwice

(* Whatever the rule.                                                      *)
LEMMA UpdatedIs ==
  ASSUME NEW s, IsState(s), NEW i \in DOMAIN s.opt.params, NEW g \in Row(SizeOf(s, i)),
         NEW rule \in {"sgd", "adam", "decay"}
  PROVE  Kept(s, Updated(rule, s, i, g)) /\ RemembersOne(rule, s.opt, Updated(rule, s, i, g).opt, i, g)
<1>1. CASE rule = "sgd"
  BY <1>1, SgdParamIs DEF Updated
<1>2. CASE rule = "adam"
  BY <1>2, AdamParamIs DEF Updated
<1>3. CASE rule = "decay"
  <2>1. PICK x \in Row(SizeOf(s, i)) : x = s.heap[s.opt.params[i]].flat
    BY StateFacts
  <2>2. -(s.opt.lr * s.opt.decay) \in Int
    <3>1. PICK a \in Int, b \in Int : a = s.opt.lr /\ b = s.opt.decay
      BY DEF IsState, IsOptimizer
    <3>2. -(a * b) \in Int
      OBVIOUS
    <3> QED
      BY <3>1, <3>2
  <2>3. Updated(rule, s, i, g) = AddInPlace(s, i, x, -(s.opt.lr * s.opt.decay))
    BY <1>3, <2>1 DEF Updated, DecayParam
  <2>4. Kept(s, Updated(rule, s, i, g)) /\ Updated(rule, s, i, g).opt = s.opt
    BY <2>2, <2>3, AddInPlaceKeeps
  <2>5. /\ IsSequence(s.opt.buf) /\ IsSequence(s.opt.m) /\ IsSequence(s.opt.v)
        /\ i \in DOMAIN s.opt.buf /\ i \in DOMAIN s.opt.m /\ i \in DOMAIN s.opt.v
    BY DEF IsState, IsOptimizer, OnePer
  <2>6. RemembersOne(rule, s.opt, s.opt, i, g)
    BY <1>3, <2>5, ChangedOnce DEF RemembersOne, BufferAfter, MeanAfter, SquareAfter
  <2> QED BY <2>4, <2>6
<1> QED BY <1>1, <1>2, <1>3

(***************************************************************************)
(* A whole step                                                            *)
(***************************************************************************)
(* The loop over the parameters, up to the n-th.                           *)
Loop(s, grad, rule, n, f) ==
  f = [i \in 0..n |->
         IF i = 0 THEN s
         ELSE IF grad[s.opt.params[i]] = << >> THEN f[i - 1]
         ELSE Updated(rule, f[i - 1], i, grad[s.opt.params[i]])]

(* The loop over params that EveryParam chooses.                           *)
LEMMA LoopExists ==
  ASSUME NEW s, NEW grad, NEW rule, NEW n \in Nat
  PROVE  \E f : Loop(s, grad, rule, n, f)
<1> DEFINE S == {m \in Nat : \E f : Loop(s, grad, rule, m, f)}
<1>1. 0 \in S
  <2>1. Loop(s, grad, rule, 0, [i \in 0..0 |-> s])
    BY DEF Loop
  <2> QED
    BY <2>1
<1>2. ASSUME NEW m \in Nat, m \in S PROVE m + 1 \in S
  <2>1. PICK f : Loop(s, grad, rule, m, f)
    BY <1>2
  <2> DEFINE last == IF grad[s.opt.params[m + 1]] = << >> THEN f[m]
                     ELSE Updated(rule, f[m], m + 1, grad[s.opt.params[m + 1]])
  <2> DEFINE g == [i \in 0..(m + 1) |-> IF i = m + 1 THEN last ELSE f[i]]
  <2>2. ASSUME NEW i \in 0..(m + 1)
        PROVE  g[i] = IF i = 0 THEN s
                      ELSE IF grad[s.opt.params[i]] = << >> THEN g[i - 1]
                      ELSE Updated(rule, g[i - 1], i, grad[s.opt.params[i]])
    <3>1. CASE i = m + 1
      <4>1. g[i] = last /\ g[i - 1] = f[m] /\ i # 0
        BY <3>1
      <4> QED
        BY <4>1, <3>1
    <3>2. CASE i # m + 1
      <4>1. i \in 0..m /\ (i # 0 => i - 1 \in 0..m)
        BY <3>2
      <4>2. g[i] = f[i] /\ (i # 0 => g[i - 1] = f[i - 1])
        BY <3>2, <4>1
      <4>3. f[i] = IF i = 0 THEN s
                   ELSE IF grad[s.opt.params[i]] = << >> THEN f[i - 1]
                   ELSE Updated(rule, f[i - 1], i, grad[s.opt.params[i]])
        BY <2>1, <4>1 DEF Loop
      <4> QED
        BY <4>1, <4>2, <4>3
    <3> QED
      BY <3>1, <3>2
  <2>3. Loop(s, grad, rule, m + 1, g)
    <3> HIDE DEF last
    <3> QED
      BY <2>2 DEF Loop
  <2> HIDE DEF g
  <2> QED
    BY <2>3
<1> HIDE DEF S
<1>3. n \in S
  BY <1>1, <1>2, SetInduction
<1> QED
  BY <1>3 DEF S

LEMMA EveryParamUnfolds ==
  ASSUME NEW s, NEW grad, NEW rule, NEW n \in Nat, n = Len(s.opt.params)
  PROVE  \E f : Loop(s, grad, rule, n, f) /\ EveryParam(s, grad, rule) = f[n]
<1> DEFINE after == CHOOSE f : Loop(s, grad, rule, Len(s.opt.params), f)
<1>1. EveryParam(s, grad, rule) = after[Len(s.opt.params)]
  BY Zenon DEF EveryParam, Loop
<1>2. Loop(s, grad, rule, n, after)
  BY LoopExists
<1> QED
  BY <1>1, <1>2

(* Gradients are of their parameters' sizes.                               *)
GradsFit(s, grad) ==
  \A i \in DOMAIN s.opt.params : NoneOrRow(grad[s.opt.params[i]], SizeOf(s, i))

SameMemory(o, r, i) == r.buf[i] = o.buf[i] /\ r.m[i] = o.m[i] /\ r.v[i] = o.v[i]

NewMemory(rule, o, r, i, g) ==
  /\ r.buf[i] = BufferAfter(rule, o, i, g)
  /\ r.m[i] = MeanAfter(rule, o, i, g)
  /\ r.v[i] = SquareAfter(rule, o, i, g)

(* What r remembers of the i-th parameter, whose turn has come.            *)
MemoryAfter(rule, o, r, i, g) ==
  IF g = << >> THEN SameMemory(o, r, i) ELSE NewMemory(rule, o, r, i, g)

(* After the first n parameters.                                           *)
Looped(rule, s, r, grad, n) ==
  /\ Kept(s, r) /\ r.opt.t = s.opt.t
  /\ \A i \in DOMAIN s.opt.params :
       IF i <= n THEN MemoryAfter(rule, s.opt, r.opt, i, grad[s.opt.params[i]])
       ELSE SameMemory(s.opt, r.opt, i)

LEMMA ParamsAreCounted ==
  ASSUME NEW s, IsState(s)
  PROVE  Len(s.opt.params) \in Nat /\ DOMAIN s.opt.params = 1..Len(s.opt.params)
<1>1. IsSequence(s.opt.params)
  BY SequenceOfAnything DEF IsState, IsOptimizer
<1> QED
  BY <1>1, SequenceIsAFunction

(* A turn of the loop without a gradient, and one with.                    *)
LEMMA SkippedTurn ==
  ASSUME NEW s, IsState(s), NEW rule, NEW grad, NEW r, NEW n \in Nat, n + 1 \in DOMAIN s.opt.params,
         Looped(rule, s, r, grad, n), grad[s.opt.params[n + 1]] = << >>
  PROVE  Looped(rule, s, r, grad, n + 1)
<1>1. Kept(s, r) /\ r.opt.t = s.opt.t
  BY DEF Looped
<1>2. ASSUME NEW i \in DOMAIN s.opt.params
      PROVE  IF i <= n + 1 THEN MemoryAfter(rule, s.opt, r.opt, i, grad[s.opt.params[i]])
             ELSE SameMemory(s.opt, r.opt, i)
  <2>1. i \in Nat
    BY ParamsAreCounted
  <2>2. IF i <= n THEN MemoryAfter(rule, s.opt, r.opt, i, grad[s.opt.params[i]])
        ELSE SameMemory(s.opt, r.opt, i)
    BY DEF Looped
  <2>3. CASE i <= n
    BY <2>1, <2>2, <2>3
  <2>4. CASE i = n + 1
    <3>1. SameMemory(s.opt, r.opt, i)
      BY <2>2, <2>4
    <3> QED
      BY <2>4, <3>1 DEF MemoryAfter
  <2>5. CASE i > n + 1
    BY <2>1, <2>2, <2>5
  <2> QED
    BY <2>1, <2>3, <2>4, <2>5
<1> QED
  BY <1>1, <1>2 DEF Looped

LEMMA TakenTurn ==
  ASSUME NEW s, IsState(s), NEW rule \in {"sgd", "adam", "decay"}, NEW grad, GradsFit(s, grad),
         NEW r, NEW n \in Nat, n + 1 \in DOMAIN s.opt.params,
         Looped(rule, s, r, grad, n), grad[s.opt.params[n + 1]] # << >>
  PROVE  Looped(rule, s, Updated(rule, r, n + 1, grad[s.opt.params[n + 1]]), grad, n + 1)
<1> DEFINE u == Updated(rule, r, n + 1, grad[s.opt.params[n + 1]])
<1>1. PICK k \in DOMAIN s.opt.params : k = n + 1
  OBVIOUS
<1>2. PICK g \in Row(SizeOf(s, k)) : g = grad[s.opt.params[n + 1]]
  BY <1>1 DEF GradsFit, NoneOrRow
<1>3. /\ Kept(s, r) /\ IsState(r) /\ r.opt.t = s.opt.t
      /\ SizeOf(r, k) = SizeOf(s, k) /\ r.opt.params = s.opt.params
  BY KeptSizes DEF Looped, Kept
<1>4. u = Updated(rule, r, k, g)
  BY <1>1, <1>2
<1> HIDE DEF u
<1>5. Kept(r, u) /\ RemembersOne(rule, r.opt, u.opt, k, g)
  BY <1>3, <1>4, UpdatedIs
<1>6. /\ IsSequence(r.opt.buf) /\ IsSequence(r.opt.m) /\ IsSequence(r.opt.v)
      /\ DOMAIN r.opt.buf = DOMAIN s.opt.params /\ DOMAIN r.opt.m = DOMAIN s.opt.params
      /\ DOMAIN r.opt.v = DOMAIN s.opt.params
  BY <1>3 DEF IsState, IsOptimizer, OnePer
<1>7. SameMemory(s.opt, r.opt, k)
  <2>1. ~ (k <= n)
    BY <1>1
  <2> QED
    BY <2>1 DEF Looped
<1>8. NewMemory(rule, s.opt, u.opt, k, g)
  <2>1. /\ u.opt.buf[k] = BufferAfter(rule, r.opt, k, g) /\ u.opt.m[k] = MeanAfter(rule, r.opt, k, g)
        /\ u.opt.v[k] = SquareAfter(rule, r.opt, k, g)
    BY <1>5, <1>6, ChangedOnce DEF RemembersOne
  <2>2. r.opt.momentum = s.opt.momentum /\ r.opt.beta1 = s.opt.beta1 /\ r.opt.beta2 = s.opt.beta2
    BY <1>3 DEF Kept, SettingsOf
  <2>3. /\ BufferAfter(rule, r.opt, k, g) = BufferAfter(rule, s.opt, k, g)
        /\ MeanAfter(rule, r.opt, k, g) = MeanAfter(rule, s.opt, k, g)
        /\ SquareAfter(rule, r.opt, k, g) = SquareAfter(rule, s.opt, k, g)
    BY <1>7, <2>2 DEF SameMemory, BufferAfter, MeanAfter, SquareAfter
  <2> QED
    BY <2>1, <2>3 DEF NewMemory
<1>9. ASSUME NEW i \in DOMAIN s.opt.params, i # k PROVE SameMemory(r.opt, u.opt, i)
  <2>1. u.opt.buf[i] = r.opt.buf[i]
    BY <1>5, <1>6, <1>9, ChangedOnce DEF RemembersOne
  <2>2. u.opt.m[i] = r.opt.m[i]
    BY <1>5, <1>6, <1>9, ChangedOnce DEF RemembersOne
  <2>3. u.opt.v[i] = r.opt.v[i]
    BY <1>5, <1>6, <1>9, ChangedOnce DEF RemembersOne
  <2> QED
    BY <2>1, <2>2, <2>3 DEF SameMemory
<1>10. ASSUME NEW i \in DOMAIN s.opt.params
       PROVE  IF i <= n + 1 THEN MemoryAfter(rule, s.opt, u.opt, i, grad[s.opt.params[i]])
              ELSE SameMemory(s.opt, u.opt, i)
  <2>1. i \in Nat
    BY ParamsAreCounted
  <2>2. CASE i = k
    <3>1. grad[s.opt.params[i]] = g /\ g # << >> /\ i <= n + 1
      BY <1>1, <1>2, <2>2
    <3>2. MemoryAfter(rule, s.opt, u.opt, i, g)
      BY <1>8, <2>2, <3>1 DEF MemoryAfter
    <3> QED
      BY <3>1, <3>2
  <2>3. CASE i # k
    <3>1. IF i <= n THEN MemoryAfter(rule, s.opt, r.opt, i, grad[s.opt.params[i]])
          ELSE SameMemory(s.opt, r.opt, i)
      BY DEF Looped
    <3>2. (i <= n + 1) <=> (i <= n)
      BY <1>1, <2>1, <2>3
    <3>3. SameMemory(r.opt, u.opt, i)
      BY <1>9, <2>3
    <3>4. SameMemory(s.opt, r.opt, i) => SameMemory(s.opt, u.opt, i)
      BY <3>3 DEF SameMemory
    <3>5. ASSUME NEW x, MemoryAfter(rule, s.opt, r.opt, i, x) PROVE MemoryAfter(rule, s.opt, u.opt, i, x)
      BY <3>3, <3>4, <3>5 DEF SameMemory, MemoryAfter, NewMemory
    <3> QED
      BY <3>1, <3>2, <3>4, <3>5
  <2> QED
    BY <2>2, <2>3
<1>11. Kept(s, u) /\ u.opt.t = s.opt.t
  BY <1>3, <1>5, KeptTwice DEF RemembersOne
<1> QED
  BY <1>10, <1>11 DEF Looped, u

(* The whole loop: every parameter has had its turn, once.                 *)
LEMMA LoopIs ==
  ASSUME NEW s, IsState(s), NEW rule \in {"sgd", "adam", "decay"}, NEW grad, GradsFit(s, grad)
  PROVE  Looped(rule, s, EveryParam(s, grad, rule), grad, Len(s.opt.params))
<1>1. PICK n \in Nat : n = Len(s.opt.params) /\ DOMAIN s.opt.params = 1..n
  BY ParamsAreCounted
<1>2. PICK after : Loop(s, grad, rule, n, after) /\ EveryParam(s, grad, rule) = after[n]
  BY <1>1, EveryParamUnfolds
<1> DEFINE S == {i \in 0..n : Looped(rule, s, after[i], grad, i)}
<1>3. 0 \in S
  <2>1. after[0] = s
    BY <1>2 DEF Loop
  <2>2. Kept(s, s)
    BY DEF Kept, SameTensors, IsState
  <2>3. Looped(rule, s, s, grad, 0)
    BY <1>1, <2>2 DEF Looped, SameMemory
  <2> QED
    BY <2>1, <2>3
<1>4. ASSUME NEW i \in 0..(n - 1), i \in S PROVE i + 1 \in S
  <2>1. i \in Nat /\ i + 1 \in 0..n /\ i + 1 # 0 /\ (i + 1) - 1 = i /\ i + 1 \in DOMAIN s.opt.params
    BY <1>1
  <2>2. after[i + 1] = IF grad[s.opt.params[i + 1]] = << >> THEN after[i]
                       ELSE Updated(rule, after[i], i + 1, grad[s.opt.params[i + 1]])
    BY <2>1, <1>2 DEF Loop
  <2>3. Looped(rule, s, after[i], grad, i)
    BY <1>4
  <2>4. Looped(rule, s, after[i + 1], grad, i + 1)
    <3>1. CASE grad[s.opt.params[i + 1]] = << >>
      BY <2>1, <2>2, <2>3, <3>1, SkippedTurn
    <3>2. CASE grad[s.opt.params[i + 1]] # << >>
      BY <2>1, <2>2, <2>3, <3>2, TakenTurn
    <3> QED
      BY <3>1, <3>2
  <2> QED
    BY <2>1, <2>4
<1> HIDE DEF S
<1>5. \A i \in 0..n : i \in S
  BY <1>3, <1>4, BoundedInduction
<1> QED
  BY <1>1, <1>2, <1>5 DEF S

(* A step of an optimizer: which rule, and what it makes of s.             *)
RuleOf(kind) == IF kind = "sgd" THEN "sgd" ELSE "adam"

Stepped(s, r, grad) ==
  /\ Kept(s, r)
  /\ r.opt.t = IF s.opt.kind = "sgd" THEN s.opt.t ELSE s.opt.t + 1
  /\ \A i \in DOMAIN s.opt.params :
       MemoryAfter(RuleOf(s.opt.kind), s.opt, r.opt, i, grad[s.opt.params[i]])

LEMMA LoopedToTheEnd ==
  ASSUME NEW s, IsState(s), NEW rule, NEW grad, NEW r, Looped(rule, s, r, grad, Len(s.opt.params))
  PROVE  \A i \in DOMAIN s.opt.params : MemoryAfter(rule, s.opt, r.opt, i, grad[s.opt.params[i]])
BY ParamsAreCounted DEF Looped

(* The adam loop from a state d that remembers what s does.                *)
LEMMA CountedLoop ==
  ASSUME NEW s, IsState(s), NEW d, Kept(s, d), d.opt.t = s.opt.t, NEW grad, GradsFit(s, grad),
         \A i \in DOMAIN s.opt.params : SameMemory(s.opt, d.opt, i), s.opt.kind # "sgd"
  PROVE  Stepped(s, EveryParam([d EXCEPT !.opt = Counted(@, grad)], grad, "adam"), grad)
<1> DEFINE c == [d EXCEPT !.opt = Counted(d.opt, grad)]
<1> DEFINE r == EveryParam(c, grad, "adam")
<1>1. IsState(d) /\ DOMAIN d = {"opt", "heap"} /\ DOMAIN d.opt = OptimizerFields
  BY DEF Kept, IsState, IsOptimizer
<1>2. c.opt = [d.opt EXCEPT !.t = d.opt.t + 1] /\ c.heap = d.heap /\ DOMAIN c = {"opt", "heap"}
  BY <1>1 DEF Counted
<1> HIDE DEF c
<1>3. /\ DOMAIN c.opt = OptimizerFields /\ SettingsOf(c.opt) = SettingsOf(d.opt)
      /\ c.opt.t = s.opt.t + 1 /\ c.opt.t \in Nat
      /\ c.opt.buf = d.opt.buf /\ c.opt.m = d.opt.m /\ c.opt.v = d.opt.v
  <2>1. /\ DOMAIN c.opt = OptimizerFields /\ SettingsOf(c.opt) = SettingsOf(d.opt)
        /\ c.opt.buf = d.opt.buf /\ c.opt.m = d.opt.m /\ c.opt.v = d.opt.v
    BY <1>1, <1>2 DEF OptimizerFields, SettingsOf
  <2>2. c.opt.t = d.opt.t + 1
    BY <1>1, <1>2 DEF OptimizerFields
  <2>3. s.opt.t \in Nat
    BY DEF IsState, IsOptimizer
  <2> QED
    BY <2>1, <2>2, <2>3
<1>4. IsState(c)
  <2>1. /\ c.opt.lr = d.opt.lr /\ c.opt.momentum = d.opt.momentum /\ c.opt.beta1 = d.opt.beta1
        /\ c.opt.beta2 = d.opt.beta2 /\ c.opt.eps = d.opt.eps /\ c.opt.decay = d.opt.decay
        /\ c.opt.params = d.opt.params
    BY <1>3 DEF SettingsOf
  <2> QED
    BY <1>1, <1>2, <1>3, <2>1 DEF IsState, IsOptimizer, Remembers
<1>5. Kept(s, c)
  BY <1>2, <1>3, <1>4 DEF Kept
<1>6. c.opt.params = s.opt.params /\ \A i \in DOMAIN s.opt.params : SizeOf(c, i) = SizeOf(s, i)
  BY <1>5, KeptSizes DEF Kept, SettingsOf
<1>7. GradsFit(c, grad)
  BY <1>6 DEF GradsFit
<1>8. Looped("adam", c, r, grad, Len(c.opt.params))
  BY <1>4, <1>7, LoopIs
<1> HIDE DEF r
<1>9. Kept(s, r) /\ r.opt.t = s.opt.t + 1
  BY <1>3, <1>5, <1>8, KeptTwice DEF Looped
<1>10. ASSUME NEW i \in DOMAIN s.opt.params
       PROVE  MemoryAfter("adam", s.opt, r.opt, i, grad[s.opt.params[i]])
  <2>1. MemoryAfter("adam", c.opt, r.opt, i, grad[s.opt.params[i]])
    BY <1>4, <1>6, <1>8, LoopedToTheEnd
  <2>2. SameMemory(s.opt, c.opt, i)
    BY <1>3 DEF SameMemory
  <2>3. c.opt.momentum = s.opt.momentum /\ c.opt.beta1 = s.opt.beta1 /\ c.opt.beta2 = s.opt.beta2
    BY <1>5 DEF Kept, SettingsOf
  <2>4. ASSUME NEW g
        PROVE  /\ BufferAfter("adam", c.opt, i, g) = BufferAfter("adam", s.opt, i, g)
               /\ MeanAfter("adam", c.opt, i, g) = MeanAfter("adam", s.opt, i, g)
               /\ SquareAfter("adam", c.opt, i, g) = SquareAfter("adam", s.opt, i, g)
    BY <2>2, <2>3 DEF SameMemory, BufferAfter, MeanAfter, SquareAfter
  <2> QED
    BY <2>1, <2>2, <2>4 DEF SameMemory, NewMemory, MemoryAfter
<1> QED
  BY <1>9, <1>10 DEF Stepped, RuleOf, r, c

(* A step keeps settings and tensors, and remembers each parameter anew.   *)
LEMMA StepIs ==
  ASSUME NEW s, IsState(s), NEW grad, GradsFit(s, grad), s.opt.kind \in {"sgd", "adam", "adamw"}
  PROVE  Stepped(s, OptimizerStep(s, grad), grad)
<1>0. Kept(s, s) /\ \A i \in DOMAIN s.opt.params : SameMemory(s.opt, s.opt, i)
  BY DEF Kept, SameTensors, IsState, SameMemory
<1>1. CASE s.opt.kind = "sgd"
  <2>1. OptimizerStep(s, grad) = EveryParam(s, grad, "sgd")
    BY <1>1 DEF OptimizerStep
  <2>2. Looped("sgd", s, EveryParam(s, grad, "sgd"), grad, Len(s.opt.params))
    BY LoopIs
  <2>3. \A i \in DOMAIN s.opt.params :
          MemoryAfter("sgd", s.opt, EveryParam(s, grad, "sgd").opt, i, grad[s.opt.params[i]])
    BY <2>2, LoopedToTheEnd
  <2> QED
    BY <1>1, <2>1, <2>2, <2>3 DEF Stepped, RuleOf, Looped
<1>2. CASE s.opt.kind = "adam"
  BY <1>0, <1>2, CountedLoop DEF OptimizerStep
<1>3. CASE s.opt.kind = "adamw"
  <2> DEFINE decayed == IF s.opt.decay = 0 THEN s ELSE EveryParam(s, grad, "decay")
  <2>1. OptimizerStep(s, grad) = EveryParam([decayed EXCEPT !.opt = Counted(@, grad)], grad, "adam")
    BY <1>3 DEF OptimizerStep
  <2>2. /\ Kept(s, decayed) /\ decayed.opt.t = s.opt.t
        /\ \A i \in DOMAIN s.opt.params : SameMemory(s.opt, decayed.opt, i)
    <3>1. PICK r : r = EveryParam(s, grad, "decay")
      OBVIOUS
    <3>2. Looped("decay", s, r, grad, Len(s.opt.params))
      BY <3>1, LoopIs
    <3>3. \A i \in DOMAIN s.opt.params : MemoryAfter("decay", s.opt, r.opt, i, grad[s.opt.params[i]])
      BY <3>2, LoopedToTheEnd
    <3>4. ASSUME NEW i \in DOMAIN s.opt.params PROVE SameMemory(s.opt, r.opt, i)
      BY <3>3 DEF MemoryAfter, NewMemory, SameMemory, BufferAfter, MeanAfter, SquareAfter
    <3>5. Kept(s, r) /\ r.opt.t = s.opt.t
      BY <3>2 DEF Looped
    <3> QED
      BY <1>0, <3>1, <3>4, <3>5
  <2> HIDE DEF decayed
  <2> QED
    BY <1>3, <2>1, <2>2, CountedLoop
<1> QED
  BY <1>1, <1>2, <1>3

(***************************************************************************)
(* Schedulers                                                              *)
(***************************************************************************)
IsScheduler(s) ==
  /\ DOMAIN s = {"kind", "warmup", "step_size", "gamma", "t_max", "eta_min", "base", "epoch", "after"}
  /\ s.base \in Numbers /\ s.warmup \in 0..(P - 1) /\ s.step_size \in Nat \ {0}
  /\ s.gamma \in Int /\ s.eta_min \in Int /\ s.t_max \in Nat

PastRamp(s, n) == IF n > s.warmup THEN n - s.warmup ELSE 0

(* A scheduler that was stepped n times.                                   *)
SteppedTimes(s, n) == IsScheduler(s) /\ s.epoch = n /\ s.after = PastRamp(s, n)

(* The schedule after k steps past the ramp.                               *)
DecayedRate(s, k) ==
  CASE s.kind = "step" -> (s.base * Power(s.gamma, k \div s.step_size)) % P
    [] s.kind = "cosine" ->
         IF k = 0 THEN s.base
         ELSE (s.eta_min + (s.base - s.eta_min)
                 * HalfCosine(IF k < s.t_max THEN k ELSE s.t_max, s.t_max)) % P
    [] OTHER -> s.base

(* The rate an optimizer has: the schedule's, and before the first call of *)
(* a warm-up the base.                                                     *)
CurrentLr(s, n) ==
  IF n > 0 /\ n <= s.warmup THEN (s.base * n * Reciprocal(s.warmup)) % P
  ELSE DecayedRate(s, PastRamp(s, n))

(* From the first call on, or without a warm-up, that is the closed form.  *)
LEMMA ScheduledLrIs ==
  ASSUME NEW s, NEW n \in Nat, s.warmup \in Nat, n > 0 \/ s.warmup = 0
  PROVE  ScheduledLr(s, n) = CurrentLr(s, n)
<1>1. CASE n > 0 /\ n <= s.warmup
  BY <1>1 DEF ScheduledLr, CurrentLr
<1>2. CASE ~ (n > 0 /\ n <= s.warmup)
  <2>1. ~ (s.warmup > 0 /\ n <= s.warmup)
    BY <1>2
  <2> QED
    BY <1>2, <2>1 DEF ScheduledLr, CurrentLr, DecayedRate, PastRamp
<1> QED
  BY <1>1, <1>2

(* Before any decay the rate is the base.                                  *)
LEMMA UndecayedRate ==
  ASSUME NEW s, IsScheduler(s)
  PROVE  DecayedRate(s, 0) = s.base /\ s.base \in Int
<1>1. s.base \in Int /\ s.base % P = s.base
  BY PAssumption, NumberModP DEF IsScheduler, Numbers
<1>2. 0 \div s.step_size = 0
  <2>1. PICK k \in Nat \ {0} : k = s.step_size
    BY DEF IsScheduler
  <2>2. 0 \div k = 0
    OBVIOUS
  <2> QED
    BY <2>1, <2>2
<1>3. Power(s.gamma, 0) = 1
  BY PowerSteps
<1>4. (s.base * Power(s.gamma, 0 \div s.step_size)) % P = s.base
  <2>1. s.base * 1 = s.base
    BY <1>1
  <2> QED
    BY <1>1, <1>2, <1>3, <2>1
<1> QED
  BY <1>1, <1>4 DEF DecayedRate

LEMMA HalfCosineIsInt ==
  ASSUME NEW k \in Nat, NEW n
  PROVE  HalfCosine(k, n) \in Int
<1>1. k * k + 3 \in Int
  OBVIOUS
<1> QED
  BY <1>1 DEF HalfCosine

(* One step more of the decay.                                             *)
LEMMA DecaySteps ==
  ASSUME NEW s, IsScheduler(s), NEW k \in Nat
  PROVE  /\ Decayed(s.kind, s, k + 1, DecayedRate(s, k)) = DecayedRate(s, k + 1)
         /\ DecayedRate(s, k) \in Int
<1>0. /\ s.base \in Int /\ s.gamma \in Int /\ s.eta_min \in Int /\ s.t_max \in Nat
      /\ k + 1 \in Nat /\ k + 1 # 0
  BY UndecayedRate DEF IsScheduler
<1>1. CASE s.kind = "step"
  <2>1. PICK z \in Nat \ {0} : z = s.step_size
    BY DEF IsScheduler
  <2>2. PICK q \in Nat, r \in 0..(z - 1) : k = z * q + r /\ q = k \div z
    <3>1. k \div z \in Nat /\ k % z \in 0..(z - 1) /\ k = z * (k \div z) + (k % z)
      OBVIOUS
    <3> QED
      BY <3>1, Zenon
  <2>3. PICK g \in Int, b \in Int : g = s.gamma /\ b = s.base
    BY <1>0
  <2>4. PICK x \in Numbers : x = Power(g, q)
    BY PowerIsNumber
  <2>5. x \in Int
    BY PAssumption DEF Numbers
  <2>6. DecayedRate(s, k) = (b * x) % P
    BY <1>1, <2>1, <2>2, <2>3, <2>4 DEF DecayedRate
  <2>7. DecayedRate(s, k + 1) = (b * Power(g, (k + 1) \div z)) % P
    BY <1>1, <2>1, <2>3 DEF DecayedRate
  <2>8. Decayed(s.kind, s, k + 1, (b * x) % P)
          = IF (k + 1) % z = 0 THEN (((b * x) % P) * g) % P ELSE (b * x) % P
    BY <1>1, <2>1, <2>3 DEF Decayed
  <2>9. b * x \in Int /\ (b * x) % P \in Int
    <3>1. b * x \in Int
      BY <2>5
    <3> QED
      BY <3>1, ModIsNumber, PAssumption DEF Numbers
  <2>10. CASE r = z - 1
    <3>1. k + 1 = z * (q + 1)
      <4>1. k = z * q + (z - 1)
        BY <2>2, <2>10
      <4> QED
        BY ONLY <4>1, k \in Nat, z \in Nat, q \in Nat
    <3>2. (z * (q + 1)) % z = 0 /\ (z * (q + 1)) \div z = q + 1
      OBVIOUS
    <3>3. Power(g, q + 1) = (g * x) % P
      BY <2>4, PowerSteps
    <3>4. PICK y \in Int : y = (b * x) % P
      BY <2>9
    <3>5. (y * g) % P = ((b * x) * g) % P
      BY <2>9, <3>4, ModInProduct
    <3>6. PICK u \in Int, v \in Int : u = g * x /\ v = u % P
      <4>1. g * x \in Int
        BY <2>5
      <4>2. (g * x) % P \in Int
        BY <4>1, ModIsNumber, PAssumption DEF Numbers
      <4> QED
        BY <4>1, <4>2
    <3>7. (b * v) % P = (b * u) % P
      <4>1. (v * b) % P = (u * b) % P
        BY <3>6, ModInProduct
      <4>2. v * b = b * v /\ u * b = b * u
        BY ONLY v \in Int, u \in Int, b \in Int
      <4> QED
        BY <4>1, <4>2
    <3>8. b * u = (b * x) * g
      BY ONLY <3>6, <2>5, b \in Int, g \in Int
    <3>9. DecayedRate(s, k + 1) = (b * v) % P
      BY <2>7, <3>1, <3>2, <3>3, <3>6
    <3>10. Decayed(s.kind, s, k + 1, DecayedRate(s, k)) = (y * g) % P
      BY <2>6, <2>8, <3>1, <3>2, <3>4
    <3> QED
      BY <2>6, <2>9, <3>5, <3>7, <3>8, <3>9, <3>10
  <2>11. CASE r # z - 1
    <3>1. (k + 1) % z # 0 /\ (k + 1) \div z = q
      <4>1. PICK r1 \in 1..(z - 1) : r1 = r + 1
        BY <2>11
      <4>2. k + 1 = z * q + r1
        BY <2>2, <4>1
      <4>3. PICK w \in Nat : w = z * q + r1
        BY <4>1
      <4>4. w % z = r1 /\ w \div z = q
        BY <4>3, <4>1
      <4> QED
        BY <4>1, <4>2, <4>3, <4>4
    <3> QED
      BY <2>4, <2>6, <2>7, <2>8, <2>9, <3>1
  <2> QED
    BY <2>10, <2>11
<1>2. CASE s.kind = "cosine"
  <2> DEFINE rate(j) == (s.eta_min + (s.base - s.eta_min)
                           * HalfCosine(IF j < s.t_max THEN j ELSE s.t_max, s.t_max)) % P
  <2>1. Decayed(s.kind, s, k + 1, DecayedRate(s, k)) = rate(k + 1)
    BY <1>2 DEF Decayed
  <2>2. DecayedRate(s, k + 1) = rate(k + 1)
    BY <1>0, <1>2 DEF DecayedRate
  <2>3. rate(k) \in Int
    <3>1. PICK j \in Nat : j = IF k < s.t_max THEN k ELSE s.t_max
      BY <1>0
    <3>2. PICK h \in Int : h = HalfCosine(j, s.t_max)
      BY HalfCosineIsInt
    <3>3. s.eta_min + (s.base - s.eta_min) * h \in Int
      BY <1>0
    <3> QED
      BY <3>1, <3>2, <3>3, ModIsNumber, PAssumption DEF Numbers
  <2>4. DecayedRate(s, k) = IF k = 0 THEN s.base ELSE rate(k)
    BY <1>2 DEF DecayedRate
  <2> HIDE DEF rate
  <2> QED
    BY <1>0, <2>1, <2>2, <2>3, <2>4
<1>3. CASE s.kind \notin {"step", "cosine"}
  <2>1. \A j : DecayedRate(s, j) = s.base
    BY <1>3 DEF DecayedRate
  <2>2. \A x : Decayed(s.kind, s, k + 1, x) = x
    BY <1>3 DEF Decayed
  <2> QED
    BY <1>0, <2>1, <2>2
<1> QED
  BY <1>1, <1>2, <1>3

(* The settings alone decide the schedule.                                 *)
PlanOf(s) == <<s.kind, s.warmup, s.step_size, s.gamma, s.t_max, s.eta_min, s.base>>

(* Schedulers of one plan have one schedule.                               *)
LEMMA SameSchedule ==
  ASSUME NEW s, NEW r, PlanOf(s) = PlanOf(r), NEW n
  PROVE  CurrentLr(r, n) = CurrentLr(s, n) /\ PastRamp(r, n) = PastRamp(s, n)
<1>1. /\ r.kind = s.kind /\ r.warmup = s.warmup /\ r.step_size = s.step_size
      /\ r.gamma = s.gamma /\ r.t_max = s.t_max /\ r.eta_min = s.eta_min /\ r.base = s.base
  BY DEF PlanOf
<1> QED
  BY <1>1 DEF CurrentLr, DecayedRate, PastRamp

(* A step takes the rate to where the schedule has it next.                *)
LEMMA SchedulerStepIs ==
  ASSUME NEW s, NEW n \in Nat, SteppedTimes(s, n), NEW r,
         r = SchedulerStep(s, CurrentLr(s, n))
  PROVE  /\ SteppedTimes(r.sched, n + 1) /\ PlanOf(r.sched) = PlanOf(s)
         /\ r.lr = CurrentLr(r.sched, n + 1) /\ r.lr \in Int
<1>1. IsScheduler(s) /\ s.epoch = n /\ s.after = PastRamp(s, n)
  BY DEF SteppedTimes
<1>2. PICK w \in Nat : w = s.warmup /\ w < P
  BY <1>1, PAssumption DEF IsScheduler
<1>3. CASE w > 0 /\ n + 1 <= w
  <2>1. /\ r.sched = [s EXCEPT !.epoch = n + 1]
        /\ r.lr = (s.base * (n + 1) * Reciprocal(s.warmup)) % P
    BY <1>1, <1>2, <1>3 DEF SchedulerStep, InWarmup
  <2>2. /\ r.sched.epoch = n + 1 /\ r.sched.after = s.after /\ PlanOf(r.sched) = PlanOf(s)
        /\ IsScheduler(r.sched)
    BY <1>1, <2>1 DEF IsScheduler, PlanOf
  <2>3. r.sched.after = PastRamp(r.sched, n + 1)
    <3>1. PastRamp(r.sched, n + 1) = PastRamp(s, n + 1)
      BY <2>2, SameSchedule
    <3> QED
      BY <1>1, <1>2, <1>3, <2>2, <3>1 DEF PastRamp
  <2>4. r.lr = CurrentLr(r.sched, n + 1)
    <3>1. CurrentLr(r.sched, n + 1) = CurrentLr(s, n + 1)
      BY <2>2, SameSchedule
    <3> QED
      BY <1>2, <1>3, <2>1, <3>1 DEF CurrentLr
  <2>5. r.lr \in Int
    <3>1. PICK x \in Int : x = Reciprocal(s.warmup)
      BY <1>2, ReciprocalInverts, PAssumption DEF Numbers
    <3>2. s.base * (n + 1) * x \in Int
      BY <1>1, UndecayedRate
    <3> QED
      BY <2>1, <3>1, <3>2, ModIsNumber, PAssumption DEF Numbers
  <2> QED
    BY <2>2, <2>3, <2>4, <2>5 DEF SteppedTimes
<1>4. CASE ~ (w > 0 /\ n + 1 <= w)
  <2>1. PICK k \in Nat : k = PastRamp(s, n)
    BY <1>2 DEF PastRamp
  <2>2. /\ r.sched = [s EXCEPT !.epoch = n + 1, !.after = k + 1]
        /\ r.lr = Decayed(s.kind, s, k + 1, CurrentLr(s, n))
    BY <1>1, <1>2, <1>4, <2>1 DEF SchedulerStep, InWarmup
  <2>3. /\ r.sched.epoch = n + 1 /\ r.sched.after = k + 1 /\ PlanOf(r.sched) = PlanOf(s)
        /\ IsScheduler(r.sched)
    BY <1>1, <2>2 DEF IsScheduler, PlanOf
  <2>4. PastRamp(s, n + 1) = k + 1 /\ PastRamp(r.sched, n + 1) = k + 1
    <3>1. PastRamp(r.sched, n + 1) = PastRamp(s, n + 1)
      BY <2>3, SameSchedule
    <3> QED
      BY <1>2, <1>4, <2>1, <3>1 DEF PastRamp
  <2>5. CurrentLr(s, n) = DecayedRate(s, k)
    <3>1. CASE n > 0 /\ n <= w
      <4>1. n = w /\ k = 0
        BY <1>2, <1>4, <2>1, <3>1 DEF PastRamp
      <4>2. DecayedRate(s, 0) = s.base /\ s.base \in Int /\ s.base % P = s.base
        BY <1>1, UndecayedRate, NumberModP DEF IsScheduler
      <4>3. PICK b \in Int : b = s.base
        BY <4>2
      <4>4. w % P # 0
        BY <1>2, <3>1, PAssumption
      <4>5. PICK x \in Int : x = Reciprocal(w) /\ (w * x) % P = 1
        <5>1. Reciprocal(w) \in Numbers /\ (w * Reciprocal(w)) % P = 1
          BY <4>4, ReciprocalInverts
        <5>2. Reciprocal(w) \in Int
          BY <5>1, PAssumption DEF Numbers
        <5> QED
          BY <5>1, <5>2
      <4>6. (b * w * x) % P = b % P
        <5>1. PICK u \in Int : u = w * x
          OBVIOUS
        <5>2. u % P = 1
          BY <4>5, <5>1
        <5>3. (1 * b) % P = (u * b) % P
          <6>1. ((u % P) * b) % P = (u * b) % P
            BY ModInProduct
          <6> QED
            BY <5>2, <6>1
        <5>4. u * b = b * w * x /\ 1 * b = b
          BY ONLY <5>1, b \in Int, w \in Nat, x \in Int
        <5> QED
          BY <5>3, <5>4
      <4>7. CurrentLr(s, n) = (b * w * x) % P
        BY <1>2, <3>1, <4>1, <4>3, <4>5 DEF CurrentLr
      <4> QED
        BY <4>1, <4>2, <4>3, <4>6, <4>7
    <3>2. CASE ~ (n > 0 /\ n <= w)
      BY <1>2, <2>1, <3>2 DEF CurrentLr
    <3> QED
      BY <3>1, <3>2
  <2>6. r.lr = DecayedRate(s, k + 1)
    BY <1>1, <2>2, <2>5, DecaySteps
  <2>7. CurrentLr(r.sched, n + 1) = DecayedRate(s, k + 1)
    <3>1. CurrentLr(r.sched, n + 1) = CurrentLr(s, n + 1)
      BY <2>3, SameSchedule
    <3> QED
      BY <1>2, <1>4, <2>4, <3>1 DEF CurrentLr
  <2>8. DecayedRate(s, k + 1) \in Int
    BY <1>1, DecaySteps
  <2> QED
    BY <2>3, <2>4, <2>6, <2>7, <2>8 DEF SteppedTimes
<1> QED
  BY <1>3, <1>4

(* A scheduler that was not stepped leaves the rate as it is.              *)
LEMMA MadeScheduler ==
  ASSUME NEW p, NEW lr \in Numbers, p.warmup \in 0..(P - 1), p.step_size \in Nat \ {0},
         p.gamma \in Int, p.eta_min \in Int, p.t_max \in Nat, NEW s, s = MakeScheduler(p, lr)
  PROVE  SteppedTimes(s, 0) /\ CurrentLr(s, 0) = lr
<1>1. /\ s.base = lr /\ s.warmup = p.warmup /\ s.epoch = 0 /\ s.after = 0
      /\ IsScheduler(s)
  BY DEF MakeScheduler, IsScheduler
<1>2. PastRamp(s, 0) = 0 /\ ~ (0 > 0 /\ 0 <= s.warmup)
  BY <1>1 DEF PastRamp
<1>3. CurrentLr(s, 0) = DecayedRate(s, 0)
  BY <1>2 DEF CurrentLr
<1> QED
  BY <1>1, <1>2, <1>3, UndecayedRate DEF SteppedTimes

(***************************************************************************)
(* What the buffers come to: decayed sums, and moments that are a known    *)
(* part of a gradient that does not change.                                *)
(***************************************************************************)
LEMMA RowsAgree ==
  ASSUME NEW n \in Nat, NEW x \in Row(n), NEW y \in Row(n), \A k \in 1..n : x[k] = y[k]
  PROVE  x = y
BY DEF Row

(* c (1 - p) b + c (1 - b) = c (1 - b p)                                   *)
LEMMA MomentNumber ==
  ASSUME NEW c \in Int, NEW b \in Int, NEW p \in Int
  PROVE  (((((c * (1 - p)) % P) * b) % P) + ((c * (1 - b)) % P)) % P = (c * (1 - ((b * p) % P))) % P
<1>1. PICK u \in Int, v \in Int : u = c * (1 - p) /\ v = c * (1 - b)
  OBVIOUS
<1>2. PICK w \in Int : w = u * b
  OBVIOUS
<1>3. ((u % P) * b) % P = w % P
  BY <1>2, ModInProduct
<1>4. PICK y \in Int : y = v % P
  BY ModSplits
<1>5. ((w % P) + y) % P = (w + y) % P
  BY ModInSum
<1>6. (y + w) % P = (v + w) % P
  BY <1>4, ModInSum
<1>7. PICK q \in Int, r \in Int : (b * p) % P = r /\ b * p = P * q + r
  <2>1. b * p \in Int
    OBVIOUS
  <2> QED
    BY <2>1, ModSplits
<1>8. PICK z \in Int : z = P
  BY PAssumption
<1>9. c * (1 - r) = (v + w) + z * (c * q)
  <2>1. r = b * p - z * q
    <3>1. b * p = z * q + r
      BY <1>7, <1>8
    <3>2. PICK d \in Int, e \in Int : d = b * p /\ e = z * q
      OBVIOUS
    <3> QED
      BY ONLY <3>1, <3>2, r \in Int
  <2>2. \A a1, a2, a3, a4, a5 \in Int :
          a1 * (1 - (a2 * a3 - a4 * a5)) = (a1 * (1 - a2) + (a1 * (1 - a3)) * a2) + a4 * (a1 * a5)
    OBVIOUS
  <2> QED
    BY ONLY <2>1, <2>2, <1>1, <1>2, c \in Int, b \in Int, p \in Int, z \in Int, q \in Int
<1>10. PICK s \in Int, t \in Int, k \in Int : s = c * (1 - r) /\ t = v + w /\ k = c * q
  OBVIOUS
<1>11. s = t + P * k
  BY <1>8, <1>9, <1>10
<1>12. s % P = t % P
  BY <1>11, ModOfMultiple
<1>13. y + w = w + y
  OBVIOUS
<1> QED
  BY <1>1, <1>3, <1>4, <1>5, <1>6, <1>7, <1>10, <1>12, <1>13

LEMMA ScaledRow ==
  ASSUME NEW n \in Nat, NEW x \in Row(n), NEW c \in Int
  PROVE  Scaled(x, c) \in Row(n) /\ \A k \in 1..n : Scaled(x, c)[k] = (x[k] * c) % P
<1>1. Len(x) = n /\ \A k \in 1..n : x[k] \in Int
  BY RowIsASequence
<1> QED
  BY <1>1, ScaledIs

(* A moment that is 1 - b^t of c: another c makes it 1 - b^(t + 1).        *)
LEMMA MomentSteps ==
  ASSUME NEW n \in Nat, NEW c \in Row(n), NEW b \in Int, NEW t \in Nat
  PROVE  /\ Scaled(c, 1 - Power(b, t)) \in Row(n)
         /\ Plus(Scaled(Scaled(c, 1 - Power(b, t)), b), Scaled(c, 1 - b)) = Scaled(c, 1 - Power(b, t + 1))
<1>1. PICK p \in Int : p = Power(b, t)
  BY PowerIsNumber, PAssumption DEF Numbers
<1>2. PICK r \in Int : r = Power(b, t + 1) /\ r = (b * p) % P
  <2>1. Power(b, t + 1) \in Int
    BY PowerIsNumber, PAssumption DEF Numbers
  <2> QED
    BY <1>1, <2>1, PowerSteps
<1>3. Len(c) = n /\ \A k \in 1..n : c[k] \in Int
  BY RowIsASequence
<1>4. PICK x \in Row(n) : x = Scaled(c, 1 - p) /\ \A k \in 1..n : x[k] = (c[k] * (1 - p)) % P
  BY ScaledRow
<1>5. Len(x) = n /\ \A k \in 1..n : x[k] \in Int
  BY RowIsASequence
<1>6. PICK y \in Row(n) : y = Scaled(x, b) /\ \A k \in 1..n : y[k] = (x[k] * b) % P
  BY ScaledRow
<1>7. PICK z \in Row(n) : z = Scaled(c, 1 - b) /\ \A k \in 1..n : z[k] = (c[k] * (1 - b)) % P
  <2>1. PICK d \in Int : d = 1 - b
    OBVIOUS
  <2> QED
    BY <2>1, ScaledRow
<1>8. Len(y) = n /\ \A k \in 1..n : y[k] \in Int /\ z[k] \in Int
  BY RowIsASequence
<1>9. PICK u \in Row(n) : u = Plus(y, z) /\ \A k \in 1..n : u[k] = (y[k] + z[k]) % P
  BY <1>8, PlusIs
<1>10. PICK v \in Row(n) : v = Scaled(c, 1 - r) /\ \A k \in 1..n : v[k] = (c[k] * (1 - r)) % P
  BY ScaledRow
<1>11. ASSUME NEW k \in 1..n PROVE u[k] = v[k]
  <2>1. PICK a \in Int : a = c[k]
    BY <1>3
  <2>2. (((((a * (1 - p)) % P) * b) % P) + ((a * (1 - b)) % P)) % P = (a * (1 - ((b * p) % P))) % P
    BY MomentNumber
  <2>3. y[k] = (((a * (1 - p)) % P) * b) % P
    BY <1>4, <1>6, <2>1
  <2>4. z[k] = (a * (1 - b)) % P /\ u[k] = (y[k] + z[k]) % P /\ v[k] = (a * (1 - r)) % P
    BY <1>7, <1>9, <1>10, <2>1
  <2> QED
    BY <1>2, <2>2, <2>3, <2>4
<1>12. u = v
  BY <1>11, RowsAgree
<1> QED
  BY <1>1, <1>2, <1>4, <1>6, <1>7, <1>9, <1>10, <1>12

(* Before the first step it is none of it.                                 *)
LEMMA FirstMoment ==
  ASSUME NEW n \in Nat, NEW c \in Row(n), NEW x, Len(x) = n, NEW b
  PROVE  Scaled(c, 1 - Power(b, 0)) = Zeros(x)
<1>1. Power(b, 0) = 1 /\ 1 - 1 = 0
  BY PowerSteps
<1>2. Len(c) = n /\ \A k \in 1..n : c[k] \in Int
  BY RowIsASequence
<1>3. Scaled(c, 0) \in Row(n) /\ \A k \in 1..n : Scaled(c, 0)[k] = (c[k] * 0) % P
  BY <1>2, ScaledIs
<1>4. Zeros(x) \in Row(n) /\ \A k \in 1..n : Zeros(x)[k] = 0
  BY ZerosIs
<1>5. 0 \in Numbers
  BY PAssumption DEF Numbers
<1>6. 0 % P = 0
  BY <1>5, NumberModP
<1>7. \A k \in 1..n : Scaled(c, 0)[k] = Zeros(x)[k]
  <2> SUFFICES ASSUME NEW k \in 1..n PROVE Scaled(c, 0)[k] = Zeros(x)[k]
    OBVIOUS
  <2>1. c[k] * 0 = 0
    BY <1>2
  <2> QED
    BY <1>3, <1>4, <1>6, <2>1
<1> QED
  BY <1>1, <1>3, <1>4, <1>7, RowsAgree

SumUnfolds(gs, k, b, n, f) ==
  f = [j \in 0..n |-> IF j = 0 THEN 0 ELSE f[j - 1] + gs[j][k] * Power(b, n - j)]

(* Sums of the first of a row of numbers.                                  *)
Summing(x, n, f) == f = [j \in 0..n |-> IF j = 0 THEN 0 ELSE f[j - 1] + x[j]]

LEMMA SummingExists ==
  ASSUME NEW x, NEW n \in Nat
  PROVE  \E f : Summing(x, n, f)
<1> DEFINE S == {m \in Nat : \E f : Summing(x, m, f)}
<1>1. 0 \in S
  <2>1. Summing(x, 0, [j \in 0..0 |-> 0])
    BY DEF Summing
  <2> QED
    BY <2>1
<1>2. ASSUME NEW m \in Nat, m \in S PROVE m + 1 \in S
  <2>1. PICK f : Summing(x, m, f)
    BY <1>2
  <2> DEFINE g == [j \in 0..(m + 1) |-> IF j = m + 1 THEN f[m] + x[m + 1] ELSE f[j]]
  <2>2. ASSUME NEW j \in 0..(m + 1) PROVE g[j] = IF j = 0 THEN 0 ELSE g[j - 1] + x[j]
    <3>1. CASE j = m + 1
      <4>1. g[j] = f[m] + x[m + 1] /\ g[j - 1] = f[m] /\ j # 0
        BY <3>1
      <4> QED
        BY <3>1, <4>1
    <3>2. CASE j # m + 1
      <4>1. j \in 0..m /\ (j # 0 => j - 1 \in 0..m)
        BY <3>2
      <4>2. g[j] = f[j] /\ (j # 0 => g[j - 1] = f[j - 1])
        BY <3>2, <4>1
      <4>3. f[j] = IF j = 0 THEN 0 ELSE f[j - 1] + x[j]
        BY <2>1, <4>1 DEF Summing
      <4> QED
        BY <4>1, <4>2, <4>3
    <3> QED
      BY <3>1, <3>2
  <2>3. Summing(x, m + 1, g)
    BY <2>2 DEF Summing
  <2> HIDE DEF g
  <2> QED
    BY <2>3
<1> HIDE DEF S
<1>3. n \in S
  BY <1>1, <1>2, SetInduction
<1> QED
  BY <1>3 DEF S

(* The sum of n terms, term by term.                                       *)
Terms(gs, k, n) == Len(gs) = n /\ \A j \in 1..n : gs[j][k] \in Int

TermByTerm(gs, k, b, n, f) ==
  /\ DecayedSum(gs, k, b) = f[n] % P /\ f[0] = 0
  /\ \A j \in 1..n : f[j] = f[j - 1] + gs[j][k] * Power(b, n - j)
  /\ \A j \in 0..n : f[j] \in Int

(* DecayedSum adds its terms one after the other.                          *)
LEMMA DecayedSumIs ==
  ASSUME NEW n \in Nat, NEW gs, NEW k, Terms(gs, k, n), NEW b \in Int
  PROVE  \E f : TermByTerm(gs, k, b, n, f)
<1> DEFINE sum == CHOOSE f : SumUnfolds(gs, k, b, Len(gs), f)
<1>1. DecayedSum(gs, k, b) = sum[Len(gs)] % P
  BY Zenon DEF DecayedSum, SumUnfolds
<1>0. Len(gs) = n /\ \A j \in 1..n : gs[j][k] \in Int
  BY DEF Terms
<1>2. SumUnfolds(gs, k, b, n, sum) /\ sum[Len(gs)] = sum[n]
  <2> DEFINE x == [j \in 1..n |-> gs[j][k] * Power(b, n - j)]
  <2>1. PICK f : Summing(x, n, f)
    BY SummingExists
  <2>2. \A j \in 1..n : x[j] = gs[j][k] * Power(b, n - j)
    OBVIOUS
  <2> HIDE DEF x
  <2>3. \A j \in 0..n : f[j] = IF j = 0 THEN 0 ELSE f[j - 1] + gs[j][k] * Power(b, n - j)
    <3> SUFFICES ASSUME NEW j \in 0..n
                 PROVE  f[j] = IF j = 0 THEN 0 ELSE f[j - 1] + gs[j][k] * Power(b, n - j)
      OBVIOUS
    <3>1. f[j] = IF j = 0 THEN 0 ELSE f[j - 1] + x[j]
      BY <2>1 DEF Summing
    <3>2. j # 0 => j \in 1..n
      OBVIOUS
    <3> QED
      BY <2>2, <3>1, <3>2
  <2>4. SumUnfolds(gs, k, b, n, f)
    BY <2>1, <2>3 DEF SumUnfolds, Summing
  <2> QED
    BY <1>0, <2>4
<1> HIDE DEF sum
<1>3. sum[0] = 0 /\ \A j \in 1..n : sum[j] = sum[j - 1] + gs[j][k] * Power(b, n - j)
  BY <1>2 DEF SumUnfolds
<1> DEFINE S == {j \in 0..n : sum[j] \in Int}
<1>4. 0 \in S
  BY <1>3
<1>5. ASSUME NEW j \in 0..(n - 1), j \in S PROVE j + 1 \in S
  <2>1. j + 1 \in 1..n /\ (j + 1) - 1 = j /\ n - (j + 1) \in Nat
    OBVIOUS
  <2>2. PICK p \in Int : p = Power(b, n - (j + 1))
    BY <2>1, PowerIsNumber, PAssumption DEF Numbers
  <2>3. PICK x \in Int, y \in Int : x = sum[j] /\ y = gs[j + 1][k]
    BY <1>0, <1>5, <2>1
  <2>4. sum[j + 1] = x + y * p
    BY <1>3, <2>1, <2>2, <2>3
  <2> QED
    BY <2>1, <2>4
<1> HIDE DEF S
<1>6. \A j \in 0..n : j \in S
  BY <1>4, <1>5, BoundedInduction
<1>7. \A j \in 0..n : sum[j] \in Int
  BY <1>6 DEF S
<1> QED
  BY <1>1, <1>2, <1>3, <1>7 DEF TermByTerm

(* Another gradient decays the sum of those before.                        *)
Extends(gs, more, k, n) ==
  /\ Len(gs) = n /\ Len(more) = n + 1 /\ \A j \in 1..n : more[j] = gs[j]
  /\ \A j \in 1..(n + 1) : more[j][k] \in Int

SumSteps(gs, more, k, b, n) ==
  /\ DecayedSum(gs, k, b) \in Int
  /\ DecayedSum(more, k, b) = (((DecayedSum(gs, k, b) * b) % P) + more[n + 1][k]) % P

LEMMA DecayedSumSteps ==
  ASSUME NEW n \in Nat, NEW gs, NEW more, NEW k, Extends(gs, more, k, n), NEW b \in Int
  PROVE  SumSteps(gs, more, k, b, n)
<1>0. /\ Len(gs) = n /\ Len(more) = n + 1 /\ \A j \in 1..n : more[j] = gs[j]
      /\ \A j \in 1..(n + 1) : more[j][k] \in Int
  BY DEF Extends
<1>1. \A j \in 1..n : gs[j][k] \in Int /\ more[j][k] = gs[j][k]
  BY <1>0
<1>2. PICK f : /\ DecayedSum(gs, k, b) = f[n] % P /\ f[0] = 0
               /\ \A j \in 1..n : f[j] = f[j - 1] + gs[j][k] * Power(b, n - j)
               /\ \A j \in 0..n : f[j] \in Int
  <2>1. Terms(gs, k, n)
    BY <1>0, <1>1 DEF Terms
  <2>2. PICK f : TermByTerm(gs, k, b, n, f)
    BY <2>1, DecayedSumIs
  <2> QED
    BY <2>2 DEF TermByTerm
<1>3. PICK h : /\ DecayedSum(more, k, b) = h[n + 1] % P /\ h[0] = 0
               /\ \A j \in 1..(n + 1) : h[j] = h[j - 1] + more[j][k] * Power(b, (n + 1) - j)
               /\ \A j \in 0..(n + 1) : h[j] \in Int
  <2>1. PICK m \in Nat : m = n + 1
    OBVIOUS
  <2>2. Terms(more, k, m)
    BY <1>0, <2>1 DEF Terms
  <2>3. PICK h : TermByTerm(more, k, b, m, h)
    BY <2>2, DecayedSumIs
  <2> QED
    BY <2>1, <2>3 DEF TermByTerm
<1> DEFINE S == {j \in 0..n : h[j] % P = (f[j] * b) % P}
<1>4. 0 \in S
  <2>1. 0 * b = 0
    OBVIOUS
  <2> QED
    BY <1>2, <1>3, <2>1
<1>5. ASSUME NEW j \in 0..(n - 1), j \in S PROVE j + 1 \in S
  <2>1. PICK i \in 1..n : i = j + 1 /\ i - 1 = j /\ n - i \in Nat /\ (n + 1) - i = (n - i) + 1
    <3>1. j + 1 \in 1..n /\ (j + 1) - 1 = j /\ n - (j + 1) \in Nat
          /\ (n + 1) - (j + 1) = (n - (j + 1)) + 1
      OBVIOUS
    <3> QED
      BY <3>1
  <2>2. PICK p \in Int : p = Power(b, n - i)
    BY <2>1, PowerIsNumber, PAssumption DEF Numbers
  <2>3. PICK r \in Int, q \in Int : r = Power(b, (n + 1) - i) /\ r = (b * p) % P /\ b * p = P * q + r
    <3>1. Power(b, (n + 1) - i) = (b * p) % P
      BY <2>1, <2>2, PowerSteps
    <3> QED
      BY <3>1, ModSplits
  <2>4. PICK x \in Int, y \in Int, g \in Int : x = f[j] /\ y = h[j] /\ g = gs[i][k] /\ g = more[i][k]
    <3>1. j \in 0..n /\ j \in 0..(n + 1)
      OBVIOUS
    <3>2. f[j] \in Int /\ h[j] \in Int /\ gs[i][k] \in Int /\ more[i][k] = gs[i][k]
      BY <1>1, <1>2, <1>3, <3>1
    <3> QED
      BY <3>2
  <2>5. f[i] = x + g * p /\ h[i] = y + g * r /\ y % P = (x * b) % P
    BY <1>1, <1>2, <1>3, <1>5, <2>1, <2>2, <2>3, <2>4
  <2>6. PICK s \in Int, t \in Int : y % P = s /\ y = P * t + s
    BY ModSplits
  <2>7. PICK u \in Int : x * b = P * u + s
    <3>1. PICK v \in Int, w \in Int : (x * b) % P = v /\ x * b = P * w + v
      <4>1. x * b \in Int
        OBVIOUS
      <4> QED
        BY <4>1, ModSplits
    <3> QED
      BY <2>5, <2>6, <3>1
  <2>8. PICK z \in Int : z = P
    BY PAssumption
  <2>9. y + g * r = (x + g * p) * b + z * (t - u - g * q)
    <3>1. b * p = z * q + r /\ y = z * t + s /\ x * b = z * u + s
      BY <2>3, <2>6, <2>7, <2>8
    <3>2. (x + g * p) * b = x * b + g * (b * p)
      BY ONLY x \in Int, g \in Int, p \in Int, b \in Int
    <3>3. g * (z * q + r) = z * (g * q) + g * r
      BY ONLY g \in Int, z \in Int, q \in Int, r \in Int
    <3>4. z * (t - u - g * q) = z * t - z * u - z * (g * q)
      BY ONLY g \in Int, z \in Int, q \in Int, t \in Int, u \in Int
    <3>5. PICK a1, a2, a3, a4 \in Int : a1 = z * (g * q) /\ a2 = g * r /\ a3 = z * t /\ a4 = z * u
      OBVIOUS
    <3>6. (x + g * p) * b = a4 + s + a1 + a2
      BY <3>1, <3>2, <3>3, <3>5
    <3> QED
      BY <3>1, <3>4, <3>5, <3>6
  <2>10. PICK c \in Int, d \in Int, e \in Int :
           c = y + g * r /\ d = (x + g * p) * b /\ e = t - u - g * q
    OBVIOUS
  <2>11. c = d + P * e
    BY <2>8, <2>9, <2>10
  <2>12. c % P = d % P
    BY <2>11, ModOfMultiple
  <2> QED
    BY <2>1, <2>5, <2>10, <2>12
<1> HIDE DEF S
<1>6. \A j \in 0..n : j \in S
  BY <1>4, <1>5, BoundedInduction
<1>7. h[n] % P = (f[n] * b) % P
  BY <1>6 DEF S
<1>8. PICK x \in Int, y \in Int, g \in Int : x = f[n] /\ y = h[n] /\ g = more[n + 1][k]
  <2>1. n \in 0..n /\ n \in 0..(n + 1) /\ n + 1 \in 1..(n + 1)
    OBVIOUS
  <2>2. f[n] \in Int /\ h[n] \in Int /\ more[n + 1][k] \in Int
    BY <1>0, <1>2, <1>3, <2>1
  <2> QED
    BY <2>2
<1>9. h[n + 1] = y + g
  <2>1. (n + 1) - (n + 1) = 0 /\ (n + 1) - 1 = n /\ n + 1 \in 1..(n + 1)
    OBVIOUS
  <2>2. Power(b, 0) = 1
    BY PowerSteps
  <2>3. h[n + 1] = h[n] + more[n + 1][k] * Power(b, 0)
    BY <1>3, <2>1
  <2> QED
    BY <1>8, <2>2, <2>3
<1>10. PICK s \in Int : s = x % P /\ DecayedSum(gs, k, b) = s
  <2>1. x % P \in Int
    BY ModIsNumber, PAssumption DEF Numbers
  <2> QED
    BY <1>2, <1>8, <2>1
<1>11. (s * b) % P = (x * b) % P
  BY <1>10, ModInProduct
<1>12. ((y % P) + g) % P = (y + g) % P
  BY ModInSum
<1> QED
  BY <1>3, <1>7, <1>8, <1>9, <1>10, <1>11, <1>12 DEF SumSteps

(* The sum of one number, and that of a buffer's next.                     *)
LEMMA FirstSum ==
  ASSUME NEW gs, Len(gs) = 1, NEW k, gs[1][k] \in Numbers, NEW b \in Int
  PROVE  DecayedSum(gs, k, b) = gs[1][k]
<1>1. gs[1][k] \in Int /\ gs[1][k] % P = gs[1][k]
  BY NumberModP
<1>2. PICK f : /\ DecayedSum(gs, k, b) = f[1] % P /\ f[0] = 0
               /\ \A j \in 1..1 : f[j] = f[j - 1] + gs[j][k] * Power(b, 1 - j)
  <2>1. \A j \in 1..1 : gs[j][k] \in Int
    BY <1>1
  <2>2. PICK m \in Nat : m = 1
    OBVIOUS
  <2>3. Terms(gs, k, m)
    BY <2>1, <2>2 DEF Terms
  <2>4. PICK f : TermByTerm(gs, k, b, m, f)
    BY <2>3, DecayedSumIs
  <2> QED
    BY <2>2, <2>4 DEF TermByTerm
<1>3. f[1] = 0 + gs[1][k] * Power(b, 0)
  BY <1>2
<1>4. Power(b, 0) = 1
  BY PowerSteps
<1>5. f[1] = gs[1][k]
  BY <1>1, <1>3, <1>4
<1> QED
  BY <1>1, <1>2, <1>5

(***************************************************************************)
(* A parameter of size n that was given the gradients gs in times steps.   *)
(***************************************************************************)
IsHistory(gs, n, times) ==
  IsSequence(gs) /\ (\A j \in DOMAIN gs : gs[j] \in Row(n)) /\ Len(gs) <= times

BufferIsSum(o, i, gs, n) ==
  o.momentum # 0 =>
    IF gs = << >> THEN o.buf[i] = << >>
    ELSE /\ o.buf[i] \in Row(n) /\ o.buf[i] # << >>
         /\ \A k \in 1..n : o.buf[i][k] = DecayedSum(gs, k, o.momentum)

Constantly(gs, c, times) == Len(gs) = times /\ \A j \in DOMAIN gs : gs[j] = c

MomentsOf(o, i, c, times) ==
  /\ o.m[i] = Scaled(c, 1 - Power(o.beta1, times))
  /\ o.v[i] = Scaled(Times(c, c), 1 - Power(o.beta2, times))

MomentsAreParts(o, i, gs, times, n) ==
  \A c \in Row(n) : Constantly(gs, c, times) => MomentsOf(o, i, c, times)

Learned(o, i, gs, times) ==
  /\ IsHistory(gs, Len(o.m[i]), times)
  /\ o.kind = "sgd" => BufferIsSum(o, i, gs, Len(o.m[i]))
  /\ o.kind # "sgd" => MomentsAreParts(o, i, gs, times, Len(o.m[i]))

LEMMA SquareIsARow ==
  ASSUME NEW n \in Nat, NEW c \in Row(n)
  PROVE  Times(c, c) \in Row(n)
<1>1. Len(c) = n /\ \A k \in 1..n : c[k] \in Int
  BY RowIsASequence
<1> QED
  BY <1>1, TimesIs

(* A new optimizer has learned nothing.                                    *)
LEMMA LearnedNothing ==
  ASSUME NEW o, NEW i, NEW x, NEW n \in Nat, Len(x) = n, o.buf[i] = << >>,
         o.m[i] = Zeros(x), o.v[i] = Zeros(x), o.m[i] \in Row(n)
  PROVE  Learned(o, i, << >>, 0)
<1>1. Len(o.m[i]) = n
  BY RowIsASequence
<1>2. IsSequence(<< >>) /\ DOMAIN << >> = {} /\ Len(<< >>) = 0
  BY EmptySeq DEF IsSequence
<1>3. \A c \in Row(n) : MomentsOf(o, i, c, 0)
  BY FirstMoment, SquareIsARow DEF MomentsOf
<1> QED
  BY <1>1, <1>2, <1>3 DEF Learned, IsHistory, BufferIsSum, MomentsAreParts

(* The parameter had no gradient in this step.                             *)
LEMMA LearnedAsBefore ==
  ASSUME NEW o, NEW r, NEW i, NEW gs, NEW times \in Nat, Learned(o, i, gs, times),
         SameMemory(o, r, i), r.momentum = o.momentum, r.kind = o.kind
  PROVE  Learned(r, i, gs, times + 1)
<1>1. IsHistory(gs, Len(o.m[i]), times) /\ r.m[i] = o.m[i] /\ r.buf[i] = o.buf[i]
  BY DEF Learned, SameMemory
<1>2. Len(gs) \in Nat /\ Len(gs) <= times
  BY <1>1, SequenceIsAFunction DEF IsHistory
<1>3. IsHistory(gs, Len(r.m[i]), times + 1)
  BY <1>1, <1>2 DEF IsHistory
<1>4. MomentsAreParts(r, i, gs, times + 1, Len(r.m[i]))
  <2>1. Len(gs) # times + 1
    BY <1>2
  <2> QED
    BY <2>1 DEF MomentsAreParts, Constantly
<1>5. r.kind = "sgd" => BufferIsSum(r, i, gs, Len(r.m[i]))
  BY <1>1 DEF Learned, BufferIsSum
<1> QED
  BY <1>3, <1>4, <1>5 DEF Learned

(* It had one more.                                                        *)
OneMore(gs, more, g, m) ==
  /\ Len(gs) = m /\ DOMAIN gs = 1..m /\ Len(more) = m + 1 /\ DOMAIN more = 1..(m + 1)
  /\ more[m + 1] = g /\ \A j \in 1..m : more[j] = gs[j]

LEMMA HistoryGrows ==
  ASSUME NEW gs, NEW n \in Nat, NEW times \in Nat, IsHistory(gs, n, times), NEW g \in Row(n)
  PROVE  /\ IsHistory(Append(gs, g), n, times + 1) /\ Append(gs, g) # << >>
         /\ Len(gs) \in Nat /\ OneMore(gs, Append(gs, g), g, Len(gs))
<1>0. PICK more : more = Append(gs, g)
  OBVIOUS
<1>1. PICK m \in Nat : m = Len(gs) /\ DOMAIN gs = 1..m /\ m <= times
  BY SequenceIsAFunction DEF IsHistory
<1>2. /\ IsSequence(more) /\ Len(more) = m + 1 /\ DOMAIN more = 1..(m + 1)
      /\ \A j \in 1..(m + 1) : more[j] = IF j = m + 1 THEN g ELSE gs[j]
  BY <1>0, <1>1, AppendToAnything DEF IsHistory
<1>3. \A j \in 1..(m + 1) : more[j] \in Row(n)
  BY <1>1, <1>2 DEF IsHistory
<1>4. more # << >>
  BY <1>2, EmptySeq
<1>5. more[m + 1] = g /\ \A j \in 1..m : more[j] = gs[j]
  BY <1>2
<1>6. IsHistory(more, n, times + 1)
  BY <1>1, <1>2, <1>3 DEF IsHistory
<1>7. OneMore(gs, more, g, m)
  BY <1>1, <1>2, <1>5 DEF OneMore
<1> QED
  BY <1>0, <1>1, <1>4, <1>6, <1>7

LEMMA EmptyRow ==
  ASSUME NEW n \in Nat, NEW x \in Row(n)
  PROVE  x = << >> <=> n = 0
<1>1. x \in Seq(Numbers) /\ Len(x) = n
  BY RowIsASequence
<1> QED
  BY <1>1, EmptySeq

(* The buffer decayed, and a gradient more.                                *)
LEMMA NextBuffer ==
  ASSUME NEW n \in Nat, NEW x \in Row(n), NEW g \in Row(n), NEW b \in Int
  PROVE  \E z \in Row(n) : /\ z = Plus(Scaled(x, b), g)
                           /\ \A k \in 1..n : z[k] = (((x[k] * b) % P) + g[k]) % P
<1>1. Len(x) = n /\ \A k \in 1..n : x[k] \in Int
  BY RowIsASequence
<1>2. PICK y \in Row(n) : y = Scaled(x, b) /\ \A k \in 1..n : y[k] = (x[k] * b) % P
  BY <1>1, ScaledIs
<1>3. Len(y) = n /\ \A k \in 1..n : y[k] \in Int /\ g[k] \in Int
  BY RowIsASequence
<1>4. Plus(y, g) \in Row(n) /\ \A k \in 1..n : Plus(y, g)[k] = (y[k] + g[k]) % P
  BY <1>3, PlusIs
<1> QED
  BY <1>2, <1>4

(* The buffer, and the moments, after one gradient more.                   *)
LEMMA SumGrows ==
  ASSUME NEW o, NEW r, NEW i, NEW gs, NEW n \in Nat, NEW times \in Nat, IsHistory(gs, n, times),
         NEW g \in Row(n), g # << >>, BufferIsSum(o, i, gs, n),
         o.momentum \in Int, r.momentum = o.momentum, r.buf[i] = BufferAfter("sgd", o, i, g)
  PROVE  BufferIsSum(r, i, Append(gs, g), n)
<1>0. PICK more : /\ more = Append(gs, g) /\ IsHistory(more, n, times + 1) /\ more # << >>
                  /\ Len(gs) \in Nat /\ OneMore(gs, more, g, Len(gs))
  BY HistoryGrows
<1> SUFFICES ASSUME o.momentum # 0
             PROVE  /\ r.buf[i] \in Row(n) /\ r.buf[i] # << >>
                    /\ \A k \in 1..n : r.buf[i][k] = DecayedSum(more, k, o.momentum)
  BY <1>0 DEF BufferIsSum
<1>1. PICK b \in Int : b = o.momentum
  OBVIOUS
<1>2. PICK m \in Nat : /\ m = Len(gs) /\ Len(more) = m + 1 /\ DOMAIN gs = 1..m
                       /\ DOMAIN more = 1..(m + 1)
                       /\ more[m + 1] = g /\ \A j \in 1..m : more[j] = gs[j]
  BY <1>0 DEF OneMore
<1>3. Len(g) = n /\ \A k \in 1..n : g[k] \in Numbers /\ g[k] \in Int
  BY RowIsASequence
<1>4. CASE gs = << >>
  <2>1. r.buf[i] = g
    BY <1>4 DEF BufferAfter, BufferIsSum
  <2>2. Len(more) = 1 /\ more[1] = g
    BY <1>2, <1>4, EmptySeq
  <2>3. \A k \in 1..n : g[k] = DecayedSum(more, k, b)
    BY <1>3, <2>2, FirstSum
  <2> QED
    BY <1>1, <2>1, <2>3
<1>5. CASE gs # << >>
  <2>1. PICK x \in Row(n) : x = o.buf[i] /\ x # << >> /\ \A k \in 1..n : x[k] = DecayedSum(gs, k, b)
    BY <1>1, <1>5 DEF BufferIsSum
  <2>2. PICK z \in Row(n) : /\ z = Plus(Scaled(x, b), g)
                            /\ \A k \in 1..n : z[k] = (((x[k] * b) % P) + g[k]) % P
    BY NextBuffer
  <2>3. r.buf[i] = z
    BY <1>1, <2>1, <2>2 DEF BufferAfter
  <2>4. z # << >>
    BY EmptyRow
  <2>5. ASSUME NEW k \in 1..n PROVE z[k] = DecayedSum(more, k, b)
    <3>1. \A j \in 1..(m + 1) : more[j] \in Row(n)
      BY <1>0, <1>2 DEF IsHistory
    <3>2. \A j \in 1..(m + 1) : more[j][k] \in Int
      BY <3>1, RowIsASequence
    <3>3. Extends(gs, more, k, m)
      BY <1>2, <3>2 DEF Extends
    <3>4. SumSteps(gs, more, k, b, m)
      BY <3>3, DecayedSumSteps
    <3> QED
      BY <1>2, <2>1, <2>2, <3>4 DEF SumSteps
  <2> QED
    BY <1>1, <2>3, <2>4, <2>5
<1> QED
  BY <1>4, <1>5

LEMMA MomentsGrow ==
  ASSUME NEW o, NEW r, NEW i, NEW gs, NEW n \in Nat, NEW times \in Nat, IsHistory(gs, n, times),
         NEW g \in Row(n), MomentsAreParts(o, i, gs, times, n),
         o.beta1 \in Int, o.beta2 \in Int, r.beta1 = o.beta1, r.beta2 = o.beta2,
         r.m[i] = MeanAfter("adam", o, i, g), r.v[i] = SquareAfter("adam", o, i, g)
  PROVE  MomentsAreParts(r, i, Append(gs, g), times + 1, n)
<1>0. PICK more : more = Append(gs, g) /\ OneMore(gs, more, g, Len(gs)) /\ Len(gs) \in Nat
  BY HistoryGrows
<1> SUFFICES ASSUME NEW c \in Row(n), Constantly(more, c, times + 1)
             PROVE  MomentsOf(r, i, c, times + 1)
  BY <1>0 DEF MomentsAreParts
<1>1. PICK m \in Nat : /\ m = Len(gs) /\ Len(more) = m + 1 /\ DOMAIN gs = 1..m
                       /\ DOMAIN more = 1..(m + 1)
                       /\ more[m + 1] = g /\ \A j \in 1..m : more[j] = gs[j]
  BY <1>0 DEF OneMore
<1>2. c = g /\ Constantly(gs, c, times)
  BY <1>1 DEF Constantly
<1>3. PICK b1 \in Int, b2 \in Int : b1 = o.beta1 /\ b2 = o.beta2
  OBVIOUS
<1>4. PICK d \in Row(n) : d = Times(c, c)
  BY SquareIsARow
<1>5. o.m[i] = Scaled(c, 1 - Power(b1, times)) /\ o.v[i] = Scaled(d, 1 - Power(b2, times))
  BY <1>2, <1>3, <1>4 DEF MomentsAreParts, MomentsOf
<1>6. r.m[i] = Plus(Scaled(o.m[i], b1), Scaled(c, 1 - b1))
  BY <1>2, <1>3 DEF MeanAfter
<1>7. r.v[i] = Plus(Scaled(o.v[i], b2), Scaled(d, 1 - b2))
  BY <1>2, <1>3, <1>4 DEF SquareAfter
<1>8. Plus(Scaled(Scaled(c, 1 - Power(b1, times)), b1), Scaled(c, 1 - b1))
        = Scaled(c, 1 - Power(b1, times + 1))
  BY MomentSteps
<1>9. Plus(Scaled(Scaled(d, 1 - Power(b2, times)), b2), Scaled(d, 1 - b2))
        = Scaled(d, 1 - Power(b2, times + 1))
  BY MomentSteps
<1>10. r.m[i] = Scaled(c, 1 - Power(b1, times + 1))
  BY Zenon, <1>5, <1>6, <1>8
<1>11. r.v[i] = Scaled(d, 1 - Power(b2, times + 1))
  BY Zenon, <1>5, <1>7, <1>9
<1> QED
  BY <1>3, <1>4, <1>10, <1>11 DEF MomentsOf

LEMMA LearnedMore ==
  ASSUME NEW o, NEW r, NEW i, NEW gs, NEW n \in Nat, NEW times \in Nat, Learned(o, i, gs, times),
         o.m[i] \in Row(n), r.m[i] \in Row(n), NEW g \in Row(n), g # << >>,
         NewMemory(RuleOf(o.kind), o, r, i, g),
         o.momentum \in Int, o.beta1 \in Int, o.beta2 \in Int,
         r.momentum = o.momentum, r.beta1 = o.beta1, r.beta2 = o.beta2, r.kind = o.kind
  PROVE  Learned(r, i, Append(gs, g), times + 1)
<1>1. Len(o.m[i]) = n /\ Len(r.m[i]) = n
  BY RowIsASequence
<1>2. IsHistory(gs, n, times)
  BY <1>1 DEF Learned
<1>3. PICK more : more = Append(gs, g)
  OBVIOUS
<1>4. IsHistory(more, n, times + 1)
  BY <1>2, <1>3, HistoryGrows
<1>5. CASE o.kind = "sgd"
  <2>1. r.buf[i] = BufferAfter("sgd", o, i, g) /\ BufferIsSum(o, i, gs, n)
    BY <1>1, <1>5 DEF NewMemory, RuleOf, Learned
  <2>2. BufferIsSum(r, i, more, n)
    BY <1>2, <1>3, <2>1, SumGrows
  <2> QED
    BY <1>1, <1>3, <1>4, <1>5, <2>2 DEF Learned
<1>6. CASE o.kind # "sgd"
  <2>1. /\ r.m[i] = MeanAfter("adam", o, i, g) /\ r.v[i] = SquareAfter("adam", o, i, g)
        /\ MomentsAreParts(o, i, gs, times, n)
    BY <1>1, <1>6 DEF NewMemory, RuleOf, Learned
  <2>2. MomentsAreParts(r, i, more, times + 1, n)
    BY <1>2, <1>3, <2>1, MomentsGrow
  <2> QED
    BY <1>1, <1>3, <1>4, <1>6, <2>2 DEF Learned
<1> QED
  BY <1>5, <1>6

(***************************************************************************)
(* The iterators                                                           *)
(***************************************************************************)
LoaderTypeOK ==
  /\ loader \in Loaders
  /\ state \in [Iterators -> {"fresh", "running", "exhausted"}]
  /\ indices \in [Iterators -> Orders]
  /\ start \in [Iterators -> Nat]
  /\ yielded \in [Iterators -> Nat]
  /\ seen \in [Iterators -> [Samples -> Nat]]

(* Batches are full but for the last one, and nothing is handed out before *)
(* the order is made.                                                      *)
Advanced(e) ==
  /\ start[e] = yielded[e] * loader.batch_size
  /\ start[e] < loader.n + loader.batch_size
  /\ loader.drop_last => start[e] <= loader.n
  /\ state[e] = "fresh" => start[e] = 0 /\ \A s \in Samples : seen[e][s] = 0
  /\ state[e] = "exhausted" => Finished(e)

HandedOut(e) ==
  \A k \in Samples : seen[e][indices[e][k]] = IF k <= start[e] THEN 1 ELSE 0

LoaderInv == LoaderTypeOK /\ \A e \in Iterators : Advanced(e) /\ HandedOut(e)

LEMMA LoaderFields ==
  ASSUME loader \in Loaders
  PROVE  /\ loader.n \in Nat /\ loader.batch_size \in Nat \ {0}
         /\ loader.shuffle \in BOOLEAN /\ loader.drop_last \in BOOLEAN
BY LoadersAssumption

LEMMA UnshuffledIsAnOrder == Unshuffled \in Orders
BY DEF Unshuffled, Orders

LEMMA OrdersAreOrders ==
  ASSUME LoaderTypeOK, NEW e \in Iterators
  PROVE  OrdersOf(e) \subseteq Orders
BY UnshuffledIsAnOrder DEF OrdersOf, LoaderTypeOK

LEMMA BatchEndBounds ==
  ASSUME LoaderTypeOK, NEW e \in Iterators
  PROVE  /\ BatchEnd(e) \in Nat
         /\ start[e] < loader.n => start[e] < BatchEnd(e) /\ BatchEnd(e) <= loader.n
         /\ BatchEnd(e) <= start[e] + loader.batch_size
         /\ BatchEnd(e) < loader.n => BatchEnd(e) = start[e] + loader.batch_size
BY LoaderFields DEF BatchEnd, LoaderTypeOK

LEMMA LoaderInitHolds == LoaderInit => LoaderInv
<1> SUFFICES ASSUME LoaderInit PROVE LoaderInv
  OBVIOUS
<1>1. LoaderTypeOK
  BY UnshuffledIsAnOrder DEF LoaderInit, LoaderTypeOK
<1>2. ASSUME NEW e \in Iterators PROVE Advanced(e)
  BY LoaderFields DEF LoaderInit, Advanced
<1>3. ASSUME NEW e \in Iterators PROVE HandedOut(e)
  BY LoaderFields DEF LoaderInit, HandedOut, Unshuffled, Samples
<1> QED
  BY <1>1, <1>2, <1>3 DEF LoaderInv

(* One more batch of an order in which no sample comes twice.              *)
LEMMA BatchIsNew ==
  ASSUME LoaderTypeOK, NEW e \in Iterators, HandedOut(e), Advanced(e),
         start[e] < loader.n, NEW order \in OrdersOf(e), NEW k \in Samples
  PROVE  (IF order[k] \in Batch(e, order) THEN seen[e][order[k]] + 1 ELSE seen[e][order[k]])
           = IF k <= start[e] + loader.batch_size THEN 1 ELSE 0
<1>1. /\ order \in [Samples -> Samples]
      /\ \A i, j \in Samples : order[i] = order[j] => i = j
  BY OrdersAreOrders DEF Orders
<1>2. /\ loader.n \in Nat /\ loader.batch_size \in Nat /\ start[e] \in Nat /\ k \in 1..loader.n
  BY LoaderFields DEF LoaderTypeOK, Samples
<1>3. seen[e][order[k]] = IF k <= start[e] THEN 1 ELSE 0
  <2>1. CASE state[e] = "fresh"
    <3>1. order[k] \in Samples
      BY <1>1
    <3>2. seen[e][order[k]] = 0 /\ start[e] = 0
      BY <2>1, <3>1 DEF Advanced
    <3> QED
      BY <3>2, <1>2
  <2>2. CASE state[e] # "fresh"
    BY <2>2 DEF OrdersOf, HandedOut
  <2> QED
    BY <2>1, <2>2
<1>4. BatchEnd(e) \in Nat /\ BatchEnd(e) <= loader.n
  BY BatchEndBounds
<1>5. order[k] \in Batch(e, order) <=> k \in (start[e] + 1)..BatchEnd(e)
  <2>1. (start[e] + 1)..BatchEnd(e) \subseteq Samples
    BY <1>2, <1>4 DEF Samples
  <2> QED
    BY <2>1, <1>1 DEF Batch
<1>6. k <= BatchEnd(e) <=> k <= start[e] + loader.batch_size
  BY <1>2, BatchEndBounds
<1> QED
  BY <1>2, <1>3, <1>4, <1>5, <1>6

LEMMA YieldKeeps ==
  ASSUME LoaderInv, NEW e \in Iterators, Yield(e)
  PROVE  LoaderInv'
<1>1. PICK order \in OrdersOf(e) :
        /\ indices' = [indices EXCEPT ![e] = order]
        /\ seen' = [seen EXCEPT ![e] =
             [s \in Samples |-> IF s \in Batch(e, order) THEN seen[e][s] + 1 ELSE seen[e][s]]]
  BY DEF Yield
<1>2. /\ loader.n \in Nat /\ loader.batch_size \in Nat \ {0} /\ loader' = loader
      /\ start[e] \in Nat /\ yielded[e] \in Nat /\ start[e] < loader.n /\ order \in Orders
      /\ LoaderTypeOK /\ Advanced(e) /\ HandedOut(e)
  BY LoaderFields, OrdersAreOrders DEF LoaderInv, LoaderTypeOK, Yield, Finished
<1>3. start[e] + loader.batch_size \in Nat
  BY <1>2
<1>4. LoaderTypeOK'
  <2>1. /\ state' \in [Iterators -> {"fresh", "running", "exhausted"}]
        /\ indices' \in [Iterators -> Orders]
        /\ start' \in [Iterators -> Nat]
        /\ yielded' \in [Iterators -> Nat]
    BY <1>1, <1>2, <1>3 DEF LoaderTypeOK, Yield
  <2>2. [s \in Samples |-> IF s \in Batch(e, order) THEN seen[e][s] + 1 ELSE seen[e][s]]
          \in [Samples -> Nat]
    BY <1>2 DEF LoaderTypeOK
  <2>3. seen' \in [Iterators -> [Samples -> Nat]]
    BY <1>1, <1>2, <2>2 DEF LoaderTypeOK
  <2> QED
    BY <2>1, <2>3, <1>2 DEF LoaderTypeOK, Orders, Samples
<1>5. ASSUME NEW f \in Iterators PROVE Advanced(f)' /\ HandedOut(f)'
  <2>1. CASE f = e
    <3>1. /\ state'[e] = "running" /\ indices'[e] = order
          /\ start'[e] = start[e] + loader.batch_size /\ yielded'[e] = yielded[e] + 1
          /\ \A s \in Samples :
               seen'[e][s] = IF s \in Batch(e, order) THEN seen[e][s] + 1 ELSE seen[e][s]
      BY <1>1, <1>2 DEF LoaderTypeOK, Yield
    <3>2. (yielded[e] + 1) * loader.batch_size = yielded[e] * loader.batch_size + loader.batch_size
      BY <1>2
    <3>3. loader.drop_last => start[e] + loader.batch_size <= loader.n
      BY <1>2, BatchEndBounds DEF Yield, Finished
    <3>4. Advanced(e)'
      BY <3>1, <3>2, <3>3, <1>2, <1>3 DEF Advanced
    <3>5. HandedOut(e)'
      <4> SUFFICES ASSUME NEW k \in Samples
                   PROVE  seen'[e][order[k]] = IF k <= start[e] + loader.batch_size THEN 1 ELSE 0
        BY <3>1, <1>2 DEF HandedOut, Samples
      <4>1. order[k] \in Samples
        BY <1>2 DEF Orders
      <4> QED
        BY <4>1, <3>1, <1>2, BatchIsNew
    <3> QED
      BY <2>1, <3>4, <3>5
  <2>2. CASE f # e
    <3>1. /\ state'[f] = state[f] /\ indices'[f] = indices[f] /\ start'[f] = start[f]
          /\ yielded'[f] = yielded[f] /\ seen'[f] = seen[f]
      BY <2>2, <1>1, <1>2 DEF LoaderTypeOK, Yield
    <3>2. Advanced(f) /\ HandedOut(f)
      BY DEF LoaderInv
    <3> QED
      BY <3>1, <3>2, <1>2 DEF Advanced, HandedOut, Samples, Finished, BatchEnd
  <2> QED
    BY <2>1, <2>2
<1> QED
  BY <1>4, <1>5, <1>2 DEF LoaderInv

LEMMA StopKeeps ==
  ASSUME LoaderInv, NEW e \in Iterators, Stop(e)
  PROVE  LoaderInv'
<1>1. LoaderTypeOK'
  BY DEF LoaderInv, LoaderTypeOK, Stop, Orders, Samples
<1>2. ASSUME NEW f \in Iterators PROVE Advanced(f)' /\ HandedOut(f)'
  <2>1. Advanced(f) /\ HandedOut(f) /\ state \in [Iterators -> {"fresh", "running", "exhausted"}]
    BY DEF LoaderInv, LoaderTypeOK
  <2>2. HandedOut(f)'
    BY <2>1 DEF HandedOut, Samples, Stop
  <2>3. Finished(f)' = Finished(f)
    BY DEF Finished, BatchEnd, Stop
  <2>4. state'[f] = IF f = e THEN "exhausted" ELSE state[f]
    BY <2>1 DEF Stop
  <2>5. Advanced(f)'
    BY <2>1, <2>3, <2>4 DEF Advanced, Stop, Samples
  <2> QED
    BY <2>2, <2>5
<1> QED
  BY <1>1, <1>2 DEF LoaderInv, Stop

LEMMA LoaderInvHolds == LoaderSpec => []LoaderInv
<1>1. LoaderInv /\ [LoaderNext]_loaderVars => LoaderInv'
  <2> SUFFICES ASSUME LoaderInv, [LoaderNext]_loaderVars PROVE LoaderInv'
    OBVIOUS
  <2>1. CASE LoaderNext
    BY <2>1, YieldKeeps, StopKeeps DEF LoaderNext
  <2>2. CASE UNCHANGED loaderVars
    BY <2>2 DEF loaderVars, LoaderInv, LoaderTypeOK, Advanced, HandedOut, Finished, BatchEnd,
                Samples, Orders
  <2> QED
    BY <2>1, <2>2
<1> QED
  BY <1>1, LoaderInitHolds, PTL DEF LoaderSpec

(* Division by its definition: the count of full parts, and of all parts.  *)
LEMMA PartsOf ==
  ASSUME NEW n \in Nat, NEW b \in Nat \ {0}, NEW y \in Nat
  PROVE  /\ y * b <= n /\ n < y * b + b => n \div b = y
         /\ n <= y * b /\ y * b < n + b => (n + b - 1) \div b = y
<1>1. ASSUME NEW a \in Nat, y * b <= a, a < y * b + b PROVE a \div b = y
  <2>1. a = b * (a \div b) + (a % b) /\ 0 <= a % b /\ a % b < b /\ a \div b \in Int
    OBVIOUS
  <2>2. PICK q \in Int : q = a \div b
    BY <2>1
  <2>3. b * q <= a /\ a < b * q + b
    BY <2>1, <2>2
  <2>4. q = y
    <3>1. CASE q > y
      <4>1. b * q >= b * (y + 1)
        BY <3>1
      <4> QED
        BY <4>1, <2>3, <1>1
    <3>2. CASE q < y
      <4>1. b * y >= b * (q + 1)
        BY <3>2
      <4> QED
        BY <4>1, <2>3, <1>1
    <3> QED
      BY <3>1, <3>2
  <2> QED
    BY <2>2, <2>4
<1> QED
  BY <1>1

LEMMA LoaderInvIsEnough == LoaderInv => EverySampleOnce
<1> SUFFICES ASSUME LoaderInv, NEW e \in Iterators
             PROVE  /\ HandedOut(e)
                    /\ state[e] = "exhausted" =>
                         /\ loader.n - start[e] < IF loader.drop_last THEN loader.batch_size ELSE 1
                         /\ yielded[e] = NumBatches
  BY DEF EverySampleOnce, HandedOut
<1>1. HandedOut(e) /\ Advanced(e) /\ LoaderTypeOK
  BY DEF LoaderInv
<1>2. /\ loader.n \in Nat /\ loader.batch_size \in Nat \ {0} /\ loader.drop_last \in BOOLEAN
      /\ start[e] \in Nat /\ yielded[e] \in Nat
  BY <1>1, LoaderFields DEF LoaderTypeOK
<1>3. ASSUME state[e] = "exhausted", loader.drop_last
      PROVE  start[e] <= loader.n /\ loader.n < start[e] + loader.batch_size
  BY <1>1, <1>2, <1>3, BatchEndBounds DEF Advanced, Finished
<1>4. ASSUME state[e] = "exhausted", ~loader.drop_last
      PROVE  loader.n <= start[e] /\ start[e] < loader.n + loader.batch_size
  BY <1>1, <1>2, <1>4 DEF Advanced, Finished
<1>5. start[e] = yielded[e] * loader.batch_size
  BY <1>1 DEF Advanced
<1>6. state[e] = "exhausted" => yielded[e] = NumBatches
  BY <1>2, <1>3, <1>4, <1>5, PartsOf DEF NumBatches
<1> QED
  BY <1>1, <1>2, <1>3, <1>4, <1>6

(***************************************************************************)
(* The tree of objects, children above their parents, with tensors in D.   *)
(***************************************************************************)
BelowIn(a, D, o, n) ==
  /\ DOMAIN a = {"key", "kind", "refs"}
  /\ IsSequence(a.refs)
  /\ a.kind = "tensor" => a.refs[1] \in D
  /\ a.kind = "module" => a.refs[1] \in (o + 1)..n
  /\ a.kind = "list" => \A i \in DOMAIN a.refs : a.refs[i] = 0 \/ a.refs[i] \in (o + 1)..n

TreeOver(objects, D) ==
  /\ IsSequence(objects) /\ 1 \in DOMAIN objects
  /\ \A o \in DOMAIN objects :
       /\ IsSequence(objects[o])
       /\ \A k \in DOMAIN objects[o] : BelowIn(objects[o][k], D, o, Len(objects))

(* What the recursion over the tree gives for the objects in O.            *)
Naming(objects, trainable, O, f) ==
  f = [o \in O |-> FlattenSeq([k \in DOMAIN objects[o] |-> NamedBy(objects[o][k], f, trainable)])]

(* An attribute names what the objects above its own do.                   *)
LEMMA NamedByDepends ==
  ASSUME NEW a, NEW D, NEW o \in Nat, NEW n \in Nat, BelowIn(a, D, o, n),
         NEW f, NEW g, \A c \in (o + 1)..n : f[c] = g[c], NEW trainable
  PROVE  NamedBy(a, f, trainable) = NamedBy(a, g, trainable)
<1>1. CASE a.kind = "module"
  <2>1. f[a.refs[1]] = g[a.refs[1]]
    BY <1>1 DEF BelowIn
  <2> QED
    BY <1>1, <2>1 DEF NamedBy
<1>2. CASE a.kind = "list"
  <2> DEFINE item(h, i) == IF a.refs[i] = 0 THEN << >>
                           ELSE Prefixed(<<a.key, ToString(i - 1)>>, h[a.refs[i]])
  <2>1. ASSUME NEW i \in DOMAIN a.refs PROVE item(f, i) = item(g, i)
    BY <1>2 DEF BelowIn
  <2>2. [i \in DOMAIN a.refs |-> item(f, i)] = [i \in DOMAIN a.refs |-> item(g, i)]
    <3> HIDE DEF item
    <3> QED
      BY <2>1
  <2>3. /\ NamedBy(a, f, trainable) = FlattenSeq([i \in DOMAIN a.refs |-> item(f, i)])
        /\ NamedBy(a, g, trainable) = FlattenSeq([i \in DOMAIN a.refs |-> item(g, i)])
    BY <1>2 DEF NamedBy
  <2> HIDE DEF item
  <2> QED
    BY <2>2, <2>3
<1>3. CASE a.kind \notin {"module", "list"}
  BY <1>3 DEF NamedBy
<1> QED
  BY <1>1, <1>2, <1>3

LEMMA NamingExists ==
  ASSUME NEW objects, NEW D, TreeOver(objects, D), NEW trainable
  PROVE  \E f : Naming(objects, trainable, DOMAIN objects, f)
<1>1. PICK n \in Nat : n = Len(objects) /\ DOMAIN objects = 1..n
  BY SequenceIsAFunction DEF TreeOver
<1> DEFINE From(j) == (n - j + 1)..n
<1> DEFINE S == {j \in 0..n : \E f : Naming(objects, trainable, From(j), f)}
<1>2. 0 \in S
  <2>1. From(0) = {}
    OBVIOUS
  <2>2. Naming(objects, trainable, {}, [o \in {} |-> 0])
    BY DEF Naming
  <2> QED
    BY <2>1, <2>2
<1>3. ASSUME NEW j \in 0..(n - 1), j \in S PROVE j + 1 \in S
  <2>1. PICK f : Naming(objects, trainable, From(j), f)
    BY <1>3
  <2> DEFINE new == n - j
  <2> DEFINE names == FlattenSeq([k \in DOMAIN objects[new] |-> NamedBy(objects[new][k], f, trainable)])
  <2> DEFINE g == [o \in From(j + 1) |-> IF o = new THEN names ELSE f[o]]
  <2>2. From(j + 1) = From(j) \cup {new} /\ new \notin From(j) /\ new \in 1..n
    OBVIOUS
  <2> HIDE DEF From
  <2>3. \A o \in From(j) : g[o] = f[o]
    BY <2>2
  <2>4. g[new] = names
    BY <2>2
  <2> HIDE DEF g, names
  <2>5. ASSUME NEW o \in From(j + 1)
        PROVE  [k \in DOMAIN objects[o] |-> NamedBy(objects[o][k], f, trainable)]
                 = [k \in DOMAIN objects[o] |-> NamedBy(objects[o][k], g, trainable)]
    <3>1. o \in 1..n /\ (o + 1)..n \subseteq From(j)
      BY DEF From
    <3>2. ASSUME NEW k \in DOMAIN objects[o]
          PROVE  NamedBy(objects[o][k], f, trainable) = NamedBy(objects[o][k], g, trainable)
      <4>1. BelowIn(objects[o][k], D, o, n)
        BY <3>1, <1>1 DEF TreeOver
      <4>2. \A c \in (o + 1)..n : f[c] = g[c]
        BY <3>1, <2>3
      <4> QED
        BY <4>1, <4>2, <3>1, NamedByDepends
    <3> QED
      BY <3>2
  <2>6. ASSUME NEW o \in From(j + 1)
        PROVE  g[o] = FlattenSeq([k \in DOMAIN objects[o] |-> NamedBy(objects[o][k], g, trainable)])
    <3>1. CASE o = new
      BY <3>1, <2>4, <2>5 DEF names
    <3>2. CASE o # new
      <4>1. o \in From(j) /\ g[o] = f[o]
        BY <3>2, <2>2, <2>3
      <4>2. f[o] = FlattenSeq([k \in DOMAIN objects[o] |-> NamedBy(objects[o][k], f, trainable)])
        BY <4>1, <2>1 DEF Naming
      <4> QED
        BY <4>1, <4>2, <2>5
    <3> QED
      BY <3>1, <3>2
  <2>7. Naming(objects, trainable, From(j + 1), g)
    BY <2>6 DEF Naming, g
  <2>8. j + 1 \in 0..n
    OBVIOUS
  <2> QED
    BY <2>7, <2>8
<1> HIDE DEF S
<1>4. \A j \in 0..n : j \in S
  BY <1>2, <1>3, BoundedInduction
<1>5. n \in S /\ From(n) = 1..n
  BY <1>4
<1> QED
  BY <1>1, <1>5 DEF S

NamesIn(x, D) == IsSequence(x) /\ \A k \in DOMAIN x : x[k].tensor \in D

LEMMA FlattenNames ==
  ASSUME NEW n \in Nat, NEW D, NEW seqs, DOMAIN seqs = 1..n, IsSequence(seqs),
         \A i \in 1..n : NamesIn(seqs[i], D)
  PROVE  NamesIn(FlattenSeq(seqs), D)
<1> DEFINE T == {x \in UNION {{seqs[i][k] : k \in DOMAIN seqs[i]} : i \in 1..n} : x.tensor \in D}
<1>1. ASSUME NEW i \in 1..n PROVE seqs[i] \in Seq(T)
  <2>1. NamesIn(seqs[i], D)
    OBVIOUS
  <2>2. seqs[i] \in [1..Len(seqs[i]) -> {seqs[i][k] : k \in DOMAIN seqs[i]}] /\ Len(seqs[i]) \in Nat
        /\ DOMAIN seqs[i] = 1..Len(seqs[i])
    BY <2>1, SequenceIsAFunction DEF NamesIn
  <2>3. \A k \in DOMAIN seqs[i] : seqs[i][k] \in T
    BY <2>1 DEF NamesIn
  <2> HIDE DEF T
  <2>4. seqs[i] \in [1..Len(seqs[i]) -> T]
    BY <2>2, <2>3
  <2> QED
    BY <2>2, <2>4, SeqDef
<1> HIDE DEF T
<1>2. seqs \in Seq(Seq(T))
  <2>1. seqs \in [1..n -> Seq(T)]
    BY <1>1, SequenceIsAFunction
  <2> QED
    BY <2>1, SeqDef
<1>3. FlattenSeq(seqs) \in Seq(T)
  BY <1>2, FlattenType
<1>4. \A k \in DOMAIN FlattenSeq(seqs) : FlattenSeq(seqs)[k] \in T
  BY <1>3
<1>5. \A x \in T : x.tensor \in D
  BY DEF T
<1> QED
  BY <1>3, <1>4, <1>5, SequenceOfAnything DEF NamesIn

LEMMA PrefixedNames ==
  ASSUME NEW D, NEW x, NamesIn(x, D), NEW parts
  PROVE  NamesIn(Prefixed(parts, x), D)
<1>1. DOMAIN x = 1..Len(x) /\ Len(x) \in Nat
  BY SequenceIsAFunction DEF NamesIn
<1> DEFINE y == Prefixed(parts, x)
<1>2. y \in [1..Len(x) -> {y[k] : k \in DOMAIN y}] /\ \A k \in DOMAIN y : y[k].tensor \in D
  BY <1>1 DEF Prefixed, NamesIn
<1> QED
  BY <1>1, <1>2, SequenceByDomain DEF NamesIn

LEMMA NamedByNames ==
  ASSUME NEW a, NEW D, NEW o \in Nat, NEW n \in Nat, BelowIn(a, D, o, n),
         NEW f, \A c \in (o + 1)..n : NamesIn(f[c], D), NEW trainable
  PROVE  NamesIn(NamedBy(a, f, trainable), D)
<1>0. NamesIn(<< >>, D)
  BY SequenceByDomain DEF NamesIn, IsSequence
<1>1. CASE a.kind = "module"
  BY <1>1, PrefixedNames DEF BelowIn, NamedBy
<1>2. CASE a.kind = "list"
  <2> DEFINE item(i) == IF a.refs[i] = 0 THEN << >>
                        ELSE Prefixed(<<a.key, ToString(i - 1)>>, f[a.refs[i]])
  <2> DEFINE items == [i \in DOMAIN a.refs |-> item(i)]
  <2>1. DOMAIN a.refs = 1..Len(a.refs) /\ Len(a.refs) \in Nat
    BY SequenceIsAFunction DEF BelowIn
  <2>2. \A i \in DOMAIN a.refs : NamesIn(item(i), D)
    BY <1>0, <1>2, PrefixedNames DEF BelowIn
  <2>3. NamedBy(a, f, trainable) = FlattenSeq(items)
    BY <1>2 DEF NamedBy
  <2> HIDE DEF item
  <2>4. DOMAIN items = 1..Len(a.refs) /\ (\A i \in 1..Len(a.refs) : NamesIn(items[i], D))
        /\ items \in [1..Len(a.refs) -> {item(i) : i \in 1..Len(a.refs)}]
    BY <2>1, <2>2
  <2> HIDE DEF items
  <2>5. IsSequence(items)
    BY <2>1, <2>4, SequenceByDomain
  <2> QED
    BY <2>1, <2>3, <2>4, <2>5, FlattenNames
<1>3. CASE a.kind = "tensor"
  <2> DEFINE x == <<[path |-> <<a.key>>, tensor |-> a.refs[1]]>>
  <2>1. x \in [1..1 -> {x[1]}] /\ x[1].tensor = a.refs[1]
    OBVIOUS
  <2>2. IsSequence(x)
    <3> HIDE DEF x
    <3> QED
      BY <2>1, SequenceByDomain
  <2>3. NamesIn(x, D)
    BY <1>3, <2>1, <2>2 DEF NamesIn, BelowIn
  <2> QED
    BY <1>0, <1>3, <2>3 DEF NamedBy
<1>4. CASE a.kind \notin {"module", "list", "tensor"}
  BY <1>0, <1>4 DEF NamedBy
<1> QED
  BY <1>1, <1>2, <1>3, <1>4

(* The parameters that the tree names are a sequence of its tensors.       *)
LEMMA NamedInNames ==
  ASSUME NEW D, TreeOver(attrs, D), NEW trainable
  PROVE  NamesIn(NamedIn(attrs, trainable), D)
<1> DEFINE named == CHOOSE f : Naming(attrs, trainable, DOMAIN attrs, f)
<1>1. NamedIn(attrs, trainable) = named[1]
  BY Zenon DEF NamedIn, Naming
<1>2. Naming(attrs, trainable, DOMAIN attrs, named)
  BY NamingExists
<1> HIDE DEF named
<1>3. PICK n \in Nat : n = Len(attrs) /\ DOMAIN attrs = 1..n /\ 1 \in 1..n
  BY SequenceIsAFunction DEF TreeOver
<1> DEFINE S == {j \in 0..n : \A o \in (n - j + 1)..n : NamesIn(named[o], D)}
<1>4. 0 \in S
  OBVIOUS
<1>5. ASSUME NEW j \in 0..(n - 1), j \in S PROVE j + 1 \in S
  <2>1. PICK o \in 1..n : o = n - j
    OBVIOUS
  <2>2. \A c \in (o + 1)..n : NamesIn(named[c], D)
    BY <1>5, <2>1
  <2> DEFINE parts == [k \in DOMAIN attrs[o] |-> NamedBy(attrs[o][k], named, trainable)]
  <2>3. named[o] = FlattenSeq(parts)
    BY <1>2, <1>3 DEF Naming
  <2>4. DOMAIN attrs[o] = 1..Len(attrs[o]) /\ Len(attrs[o]) \in Nat
    BY <1>3, SequenceIsAFunction DEF TreeOver
  <2>5. \A k \in DOMAIN attrs[o] : NamesIn(NamedBy(attrs[o][k], named, trainable), D)
    BY <1>3, <2>2, NamedByNames DEF TreeOver
  <2>6. DOMAIN parts = 1..Len(attrs[o]) /\ (\A k \in 1..Len(attrs[o]) : NamesIn(parts[k], D))
        /\ parts \in [1..Len(attrs[o]) -> {parts[k] : k \in 1..Len(attrs[o])}]
    BY <2>4, <2>5
  <2> HIDE DEF parts
  <2>7. NamesIn(named[o], D)
    BY <2>3, <2>4, <2>6, SequenceByDomain, FlattenNames
  <2>8. \A c \in (n - (j + 1) + 1)..n : c = o \/ c \in (o + 1)..n
    BY <2>1
  <2> QED
    BY <2>2, <2>7, <2>8
<1> HIDE DEF S
<1>6. \A j \in 0..n : j \in S
  BY <1>4, <1>5, BoundedInduction
<1>7. n \in S
  BY <1>6
<1> QED
  BY <1>1, <1>3, <1>7 DEF S

(***************************************************************************)
(* The quantizer: rounding to the nearest, and never past the last level.  *)
(***************************************************************************)
LEMMA RoundedIsNearest ==
  ASSUME NEW a \in Int, NEW b \in Nat, b > 0
  PROVE  /\ Rounded(a, b) \in Int
         /\ 2 * (Rounded(a, b) * b - a) <= b /\ 2 * (a - Rounded(a, b) * b) <= b
<1>1. PICK q \in Int, r \in 0..(b - 1) : q = a \div b /\ r = a % b /\ a = b * q + r
  OBVIOUS
<1>2. Rounded(a, b) = IF 2 * r > b \/ (2 * r = b /\ q % 2 = 1) THEN q + 1 ELSE q
  BY <1>1 DEF Rounded
<1>3. CASE 2 * r > b \/ (2 * r = b /\ q % 2 = 1)
  <2>1. Rounded(a, b) = q + 1 /\ 2 * r >= b
    BY <1>2, <1>3
  <2>2. (q + 1) * b - a = b - r
    BY <1>1
  <2>3. 2 * (b - r) <= b /\ 2 * (-(b - r)) <= b
    BY <2>1
  <2>4. a - (q + 1) * b = -(b - r)
    BY <2>2
  <2> QED
    BY <2>1, <2>2, <2>3, <2>4
<1>4. CASE ~ (2 * r > b \/ (2 * r = b /\ q % 2 = 1))
  <2>1. Rounded(a, b) = q /\ 2 * r <= b
    BY <1>2, <1>4
  <2>2. q * b - a = -r /\ a - q * b = r
    BY <1>1
  <2> QED
    BY <2>1, <2>2
<1> QED
  BY <1>3, <1>4

(* The greatest of finitely many numbers.                                  *)
LEMMA GreatestOf ==
  ASSUME NEW n \in Nat, NEW f, \A k \in 1..n : f[k] \in Int,
         NEW U, U = {f[k] : k \in 1..n} \cup {0}
  PROVE  Max(U) \in U /\ \A x \in U : x <= Max(U)
<1> DEFINE S(m) == {f[k] : k \in 1..m} \cup {0}
<1> DEFINE T == {m \in 0..n : \E x \in S(m) : \A y \in S(m) : y <= x}
<1>1. 0 \in T
  <2>1. S(0) = {0}
    OBVIOUS
  <2>2. \E x \in S(0) : \A y \in S(0) : y <= x
    BY <2>1
  <2> HIDE DEF S
  <2> QED
    BY <2>2
<1>2. ASSUME NEW m \in 0..(n - 1), m \in T PROVE m + 1 \in T
  <2>1. PICK x \in S(m) : \A y \in S(m) : y <= x
    BY <1>2
  <2>2. S(m + 1) = S(m) \cup {f[m + 1]} /\ S(m) \subseteq Int /\ f[m + 1] \in Int /\ m + 1 \in 0..n
    OBVIOUS
  <2> HIDE DEF S
  <2>3. \E z \in S(m + 1) : \A y \in S(m + 1) : y <= z
    <3>1. CASE f[m + 1] <= x
      BY <2>1, <2>2, <3>1
    <3>2. CASE ~ (f[m + 1] <= x)
      <4>1. \A y \in S(m) : y <= f[m + 1]
        BY <2>1, <2>2, <3>2
      <4> QED
        BY <2>2, <4>1
    <3> QED
      BY <3>1, <3>2
  <2> QED
    BY <2>2, <2>3
<1> HIDE DEF T
<1>3. \A m \in 0..n : m \in T
  BY <1>1, <1>2, BoundedInduction
<1>4. \E x \in S(n) : \A y \in S(n) : x >= y
  <2>0. n \in T
    BY <1>3
  <2>1. PICK x \in S(n) : \A y \in S(n) : y <= x
    BY <2>0 DEF T
  <2>2. S(n) \subseteq Int
    OBVIOUS
  <2> HIDE DEF S
  <2> QED
    BY <2>1, <2>2
<1>5. Max(S(n)) = CHOOSE x \in S(n) : \A y \in S(n) : x >= y
  BY DEF Max
<1>6. Max(S(n)) \in S(n) /\ \A y \in S(n) : Max(S(n)) >= y
  <2> HIDE DEF S
  <2> QED
    BY <1>4, <1>5, Zenon
<1>7. S(n) \subseteq Int
  OBVIOUS
<1> HIDE DEF S
<1>8. \A x \in S(n) : x <= Max(S(n))
  BY <1>6, <1>7
<1> QED
  BY <1>6, <1>8 DEF S

LEMMA ClampedIsClose ==
  ASSUME NEW f \in Int, NEW g \in Nat, g > 0, Magnitude(f) <= g
  PROVE  2 * Magnitude(Clamped(Rounded(f * Levels, g)) * g - f * Levels) <= g
<1>1. PICK l \in Nat \ {0} : l = Levels
  BY LevelsAssumption
<1>2. PICK a \in Int : a = f * l
  OBVIOUS
<1>3. PICK r \in Int : r = Rounded(a, g)
  BY <1>2, RoundedIsNearest
<1>4. 2 * (r * g - a) <= g /\ 2 * (a - r * g) <= g
  BY <1>3, RoundedIsNearest
<1>5. f <= g /\ -g <= f
  BY DEF Magnitude
<1>6. a <= g * l /\ -(g * l) <= a
  BY ONLY <1>2, <1>5, f \in Int, g \in Nat, l \in Nat
<1>7. r <= l
  <2>1. CASE r >= l + 1
    <3>1. r * g >= (l + 1) * g
      BY ONLY <2>1, r \in Int, l \in Nat, g \in Nat
    <3>2. r * g - a >= g
      BY ONLY <3>1, <1>6, r \in Int, l \in Nat, g \in Nat, a \in Int
    <3> QED
      BY ONLY <3>2, <1>4, r \in Int, g \in Nat, a \in Int, g > 0
  <2> QED
    BY ONLY <2>1, r \in Int, l \in Nat
<1>8. -l <= r
  <2>1. CASE r <= -(l + 1)
    <3>1. r * g <= (-(l + 1)) * g
      BY ONLY <2>1, r \in Int, l \in Nat, g \in Nat
    <3>2. a - r * g >= g
      BY ONLY <3>1, <1>6, r \in Int, l \in Nat, g \in Nat, a \in Int
    <3> QED
      BY ONLY <3>2, <1>4, r \in Int, g \in Nat, a \in Int, g > 0
  <2> QED
    BY ONLY <2>1, r \in Int, l \in Nat
<1>9. Clamped(r) = r
  BY <1>1, <1>7, <1>8 DEF Clamped
<1>10. PICK d \in Int : d = r * g - a
  OBVIOUS
<1>11. 2 * d <= g /\ 2 * (-d) <= g
  BY ONLY <1>4, <1>10, r \in Int, g \in Nat, a \in Int, d \in Int
<1>12. 2 * Magnitude(d) <= g
  BY ONLY <1>11, d \in Int, g \in Nat DEF Magnitude
<1> QED
  BY <1>1, <1>2, <1>3, <1>9, <1>10, <1>12

LEMMA QuantizesClosely ==
  ASSUME NEW n \in Nat, NEW flat, DOMAIN flat = 1..n, \A k \in 1..n : flat[k] \in Int
  PROVE  IsClose(flat, QuantizeSymmetric(flat))
<1> DEFINE size == [k \in 1..n |-> Magnitude(flat[k])]
<1> DEFINE S == {size[k] : k \in 1..n} \cup {0}
<1>1. \A k \in 1..n : size[k] \in Nat /\ size[k] \in Int
  BY DEF Magnitude
<1>2. Max(S) \in S /\ \A x \in S : x <= Max(S)
  <2> HIDE DEF size
  <2> QED
    BY <1>1, GreatestOf
<1>3. S = {Magnitude(flat[k]) : k \in DOMAIN flat} \cup {0} /\ S \subseteq Nat
  BY <1>1
<1>4. PICK g \in Nat : g = Max(S)
  BY <1>2, <1>3
<1>5. \A k \in 1..n : Magnitude(flat[k]) <= g
  BY <1>2, <1>4
<1> HIDE DEF S
<1> DEFINE t == QuantizeSymmetric(flat)
<1>6. /\ t.greatest = g
      /\ t.q = [k \in DOMAIN flat |->
                  IF g = 0 THEN Clamped(flat[k]) ELSE Clamped(Rounded(flat[k] * Levels, g))]
  BY <1>3, <1>4 DEF QuantizeSymmetric
<1> HIDE DEF t
<1>7. ASSUME NEW k \in 1..n
      PROVE  IF g = 0 THEN t.q[k] = flat[k]
             ELSE 2 * Magnitude(t.q[k] * g - flat[k] * Levels) <= g
  <2>1. t.q[k] = IF g = 0 THEN Clamped(flat[k]) ELSE Clamped(Rounded(flat[k] * Levels, g))
    BY <1>6
  <2>2. CASE g = 0
    <3>1. flat[k] = 0
      BY <1>5, <2>2 DEF Magnitude
    <3>2. Clamped(0) = 0
      BY LevelsAssumption DEF Clamped
    <3> QED
      BY <2>1, <2>2, <3>1, <3>2
  <2>3. CASE g # 0
    BY <1>5, <2>1, <2>3, ClampedIsClose
  <2> QED
    BY <2>2, <2>3
<1> QED
  BY <1>6, <1>7 DEF IsClose, t

(***************************************************************************)
(* Files: what follows the header is numbers, and the header's entries say *)
(* where among them.                                                       *)
(***************************************************************************)
Entries(h) == IsSequence(h) /\ \A k \in DOMAIN h : h[k].offset \in Nat /\ h[k].size \in Nat

UnitFits(u, position) ==
  /\ position = 3 => Entries(u[2])
  /\ position > 3 => u[2] \in Numbers

(* A file that goes on after its first n units.                            *)
FileFrom(n, units) == IsSequence(units) /\ \A k \in DOMAIN units : UnitFits(units[k], n + k)

LEMMA ContentsHoldNumbers ==
  ASSUME IsHeap(heap), NamesIn(NamedParameters, DOMAIN heap)
  PROVE  /\ IsSequence(Contents) /\ DOMAIN Contents = DOMAIN NamedParameters
         /\ \A k \in DOMAIN Contents : Contents[k].flat \in Seq(Numbers)
<1>1. PICK n \in Nat : n = Len(NamedParameters) /\ DOMAIN NamedParameters = 1..n
  BY SequenceIsAFunction DEF NamesIn
<1> DEFINE c == Contents
<1>2. DOMAIN c = 1..n /\ c \in [1..n -> {c[k] : k \in 1..n}]
  BY <1>1 DEF Contents
<1>3. ASSUME NEW k \in 1..n PROVE c[k].flat \in Seq(Numbers)
  <2>1. c[k].flat = heap[NamedParameters[k].tensor].flat
    BY <1>1 DEF Contents
  <2>2. NamedParameters[k].tensor \in DOMAIN heap
    BY <1>1 DEF NamesIn
  <2> QED
    BY <2>1, <2>2 DEF IsHeap, HoldsNumbers
<1> HIDE DEF c
<1>4. IsSequence(c)
  BY <1>2, SequenceByDomain
<1> QED
  BY <1>1, <1>2, <1>3, <1>4 DEF c

LEMMA DataIsNumbers ==
  ASSUME NEW c, IsSequence(c), \A k \in DOMAIN c : c[k].flat \in Seq(Numbers)
  PROVE  Data(c) \in Seq(Numbers)
<1>1. PICK n \in Nat : n = Len(c) /\ DOMAIN c = 1..n
  BY SequenceIsAFunction
<1> DEFINE flats == [k \in 1..n |-> c[k].flat]
<1>2. flats \in [1..n -> Seq(Numbers)]
  BY <1>1
<1>3. Data(c) = FlattenSeq(flats)
  BY <1>1 DEF Data
<1> HIDE DEF flats
<1>4. flats \in Seq(Seq(Numbers))
  BY <1>2, SequenceByDomain
<1> QED
  BY <1>3, <1>4, FlattenType

LEMMA HeaderIsEntries ==
  ASSUME NEW c, IsSequence(c), \A k \in DOMAIN c : c[k].flat \in Seq(Numbers)
  PROVE  Entries(Header(c))
<1>1. PICK n \in Nat : n = Len(c) /\ DOMAIN c = 1..n
  BY SequenceIsAFunction
<1> DEFINE h == Header(c)
<1>2. DOMAIN h = 1..n /\ h \in [1..n -> {h[k] : k \in 1..n}]
  BY <1>1 DEF Header
<1>3. ASSUME NEW k \in 1..n PROVE h[k].offset \in Nat /\ h[k].size \in Nat
  <2> DEFINE T == {c[j] : j \in 1..n}
  <2> DEFINE first == SubSeq(c, 1, k - 1)
  <2>1. h[k].offset = Len(Data(first)) /\ h[k].size = Len(c[k].flat)
    BY <1>1 DEF Header
  <2>2. \A i \in 1..(k - 1) : c[i] \in T
    BY <1>1
  <2>3. k - 1 \in Int
    BY <1>1
  <2> HIDE DEF T
  <2>4. first \in Seq(T)
    BY <2>2, <2>3, SubSeqProperties
  <2> HIDE DEF first
  <2>5. IsSequence(first) /\ \A j \in DOMAIN first : first[j] \in T
    BY <2>4, SequenceOfAnything
  <2>6. \A x \in T : x.flat \in Seq(Numbers)
    BY <1>1 DEF T
  <2>7. Data(first) \in Seq(Numbers)
    BY <2>5, <2>6, DataIsNumbers
  <2>8. c[k].flat \in Seq(Numbers)
    BY <1>1
  <2> QED
    BY <2>1, <2>7, <2>8
<1> HIDE DEF h
<1>4. IsSequence(h)
  BY <1>2, SequenceByDomain
<1> QED
  BY <1>2, <1>3, <1>4 DEF Entries, h

LEMMA ImageIsAFile ==
  ASSUME NEW c, IsSequence(c), \A k \in DOMAIN c : c[k].flat \in Seq(Numbers)
  PROVE  FileFrom(0, Image(c))
<1>1. PICK d \in Seq(Numbers) : d = Data(c)
  BY DataIsNumbers
<1>2. PICK h : h = Header(c) /\ Entries(h)
  BY HeaderIsEntries
<1> DEFINE floats == [k \in DOMAIN d |-> <<"float", d[k]>>]
<1> DEFINE head == << <<"magic">>, <<"length">>, <<"header", h>> >>
<1> DEFINE T == {head[1], head[2], head[3]} \cup {<<"float", x>> : x \in Numbers}
<1>3. Image(c) = head \o floats
  BY <1>1, <1>2 DEF Image
<1>4. PICK n \in Nat : n = Len(d) /\ DOMAIN d = 1..n /\ \A k \in 1..n : d[k] \in Numbers
  BY <1>1
<1>5. floats \in [1..n -> T] /\ \A k \in 1..n : floats[k][2] \in Numbers
  BY <1>4
<1>6. head \in Seq(T) /\ Len(head) = 3 /\ head[3][2] = h
  OBVIOUS
<1> HIDE DEF T, head, floats
<1>7. floats \in Seq(T) /\ Len(floats) = n
  BY <1>5, SequenceByDomain
<1>8. /\ head \o floats \in Seq(T) /\ Len(head \o floats) = 3 + n
      /\ \A i \in 1..(3 + n) : (head \o floats)[i] = IF i <= 3 THEN head[i] ELSE floats[i - 3]
  <2>1. PICK a \in Seq(T), b \in Seq(T) : a = head /\ b = floats /\ Len(a) = 3 /\ Len(b) = n
    BY <1>6, <1>7
  <2>2. /\ a \o b \in Seq(T) /\ Len(a \o b) = Len(a) + Len(b)
        /\ \A i \in 1..(Len(a) + Len(b)) : (a \o b)[i] = IF i <= Len(a) THEN a[i] ELSE b[i - Len(a)]
    BY ConcatProperties
  <2> QED
    BY <2>1, <2>2
<1>9. PICK f : f = head \o floats
  OBVIOUS
<1>10. IsSequence(f) /\ DOMAIN f = 1..(3 + n)
  BY <1>8, <1>9, SequenceOfAnything, SequenceIsAFunction
<1>11. ASSUME NEW k \in 1..(3 + n) PROVE UnitFits(f[k], 0 + k)
  <2>1. CASE k > 3
    <3>1. k - 3 \in 1..n /\ f[k] = floats[k - 3]
      BY <1>8, <1>9, <2>1, SMTT(60)
    <3> QED
      BY <1>5, <2>1, <3>1 DEF UnitFits
  <2>2. CASE k <= 3
    <3>1. f[k] = head[k]
      BY <1>8, <1>9, <2>2
    <3> QED
      BY <1>2, <1>6, <2>2, <3>1 DEF UnitFits
  <2> QED
    BY <2>1, <2>2
<1> QED
  BY <1>3, <1>9, <1>10, <1>11 DEF FileFrom

(* A unit goes over from what is left to what is there.                    *)
LEMMA WritingKeepsFiles ==
  ASSUME NEW units, NEW left, FileFrom(0, units), FileFrom(Len(units), left), left # << >>
  PROVE  /\ FileFrom(0, Append(units, Head(left)))
         /\ FileFrom(Len(Append(units, Head(left))), Tail(left))
<1>1. PICK n \in Nat : n = Len(units) /\ DOMAIN units = 1..n
  BY SequenceIsAFunction DEF FileFrom
<1>2. PICK m \in Nat : m = Len(left) /\ DOMAIN left = 1..m
  BY SequenceIsAFunction DEF FileFrom
<1>3. left \in Seq({left[k] : k \in DOMAIN left})
  BY DEF FileFrom, IsSequence
<1>4. m # 0
  BY <1>2, <1>3, EmptySeq
<1> DEFINE f == Append(units, Head(left))
<1> DEFINE t == Tail(left)
<1>5. /\ IsSequence(f) /\ Len(f) = n + 1 /\ DOMAIN f = 1..(n + 1)
      /\ \A i \in 1..(n + 1) : f[i] = IF i = n + 1 THEN Head(left) ELSE units[i]
  BY <1>1, AppendToAnything DEF FileFrom
<1>6. Head(left) = left[1]
  OBVIOUS
<1>7. /\ t \in Seq({left[k] : k \in DOMAIN left}) /\ Len(t) = m - 1
      /\ \A i \in 1..(m - 1) : t[i] = left[i + 1]
  BY <1>2, <1>3, HeadTailProperties
<1> HIDE DEF f, t
<1>8. IsSequence(t) /\ DOMAIN t = 1..(m - 1)
  BY <1>7, SequenceOfAnything, SequenceIsAFunction
<1>9. ASSUME NEW k \in 1..(n + 1) PROVE UnitFits(f[k], 0 + k)
  <2>1. CASE k = n + 1
    <3>1. f[k] = left[1] /\ 1 \in DOMAIN left
      BY <1>2, <1>4, <1>5, <1>6, <2>1
    <3>2. UnitFits(left[1], n + 1)
      BY <1>1, <3>1 DEF FileFrom
    <3> QED
      BY <2>1, <3>1, <3>2
  <2>2. CASE k # n + 1
    <3>1. k \in DOMAIN units /\ f[k] = units[k]
      BY <1>1, <1>5, <2>2
    <3> QED
      BY <3>1 DEF FileFrom
  <2> QED
    BY <2>1, <2>2
<1>10. ASSUME NEW k \in 1..(m - 1) PROVE UnitFits(t[k], (n + 1) + k)
  <2>1. k + 1 \in DOMAIN left /\ t[k] = left[k + 1] /\ n + (k + 1) = (n + 1) + k
    BY <1>2, <1>7
  <2>2. UnitFits(left[k + 1], n + (k + 1))
    BY <1>1, <2>1 DEF FileFrom
  <2> QED
    BY <2>1, <2>2
<1> QED
  BY <1>5, <1>8, <1>9, <1>10 DEF FileFrom, f, t

(***************************************************************************)
(* The invariant.  A trace of this load() holds the parameters and a mask  *)
(* that its mode could have drawn; while load() is at work no optimizer    *)
(* and no trace is of it.  Every tensor, in memory or in the file, is of   *)
(* numbers, and of a size that some model has.                             *)
(***************************************************************************)
TraceInv(trace) ==
  /\ trace.loads \in Nat /\ trace.loads <= loads
  /\ io.call = "load" => trace.loads < loads
  /\ trace.loads = loads =>
       /\ trace.tensors = Parameters /\ trace.flats = << >>
       /\ trace.mask \in MasksIn(trace.training)

(* What is to be loaded has a place in the model, and one in the file.     *)
LoadInv ==
  /\ io.blob \in Seq(Numbers) /\ Entries(io.header)
  /\ NamesIn(io.left, DOMAIN heap)
  /\ \A k \in DOMAIN io.left : io.left[k].path \in PathsOf(io.header)

FileInv ==
  /\ DOMAIN io = DOMAIN Idle
  /\ FileFrom(0, disk)
  /\ io.call = "save" => FileFrom(Len(disk), io.left)
  /\ io.call = "load" => LoadInv

IsModelOf(objects, tensors) ==
  /\ IsHeap(tensors) /\ \A t \in DOMAIN tensors : Len(tensors[t].flat) \in Sizes
  /\ TreeOver(objects, DOMAIN tensors)

ModelInv == IsModelOf(attrs, heap)

LearningInv ==
  /\ IsOptimizer(opt, heap) /\ opt.kind = plan.optimizer.kind
  /\ made \in Nat /\ loads \in Nat /\ made <= loads
  /\ io.call = "load" => made < loads
  /\ LearningReachesTheModel

(* No tensor of another size takes a tensor's place.                       *)
GradsInv ==
  \A t \in DOMAIN grads : t \in DOMAIN heap /\ NoneOrRow(grads[t], Len(heap[t].flat))

(* The scheduler was stepped with the optimizer.                           *)
RateInv ==
  calls \in Nat /\ SteppedTimes(sched, calls) /\ opt.lr = CurrentLr(sched, calls)

TracesInv == \A shape \in DOMAIN cache : cache[shape] # Untraced => TraceInv(cache[shape])

SessionInv ==
  /\ plan \in Plans
  /\ ModelInv /\ FileInv /\ LearningInv /\ RateInv /\ GradsInv /\ LoaderInv
  /\ TracesInv /\ QuantizedIsClose

LEMMA ModelsAreModels ==
  ASSUME NEW a \in Architectures
  PROVE  IsModelOf(a.attrs, a.heap)
<1> DEFINE objects == a.attrs
<1> DEFINE tensors == a.heap
<1>1. /\ tensors \in Seq([shape : Seq(Nat), flat : Seq(Numbers), requires_grad : BOOLEAN])
      /\ IsModel(objects, tensors)
  BY ArchitecturesAssumption
<1> HIDE DEF objects, tensors
<1>2. IsHeap(tensors) /\ IsSequence(tensors)
  <2> DEFINE T == [shape : Seq(Nat), flat : Seq(Numbers), requires_grad : BOOLEAN]
  <2>2. \A c \in T : DOMAIN c = {"shape", "flat", "requires_grad"} /\ c.flat \in Seq(Numbers)
    OBVIOUS
  <2>3. tensors \in Seq(T)
    BY <1>1
  <2> HIDE DEF T
  <2>4. IsSequence(tensors) /\ \A t \in DOMAIN tensors : tensors[t] \in T
    BY <2>3, SequenceOfAnything
  <2> QED
    BY <2>2, <2>4 DEF IsHeap, HoldsNumbers
<1>7. \A t \in DOMAIN tensors : Len(tensors[t].flat) \in Sizes
  BY DEF tensors, Sizes, Range
<1>3. IsSequence(objects) /\ 1 \in DOMAIN objects /\ Len(objects) \in Nat /\ DOMAIN objects = 1..Len(objects)
  BY <1>1, SequenceOfAnything, SequenceIsAFunction, EmptySeq DEF IsModel
<1>4. ASSUME NEW o \in DOMAIN objects, NEW k \in DOMAIN objects[o]
      PROVE  BelowIn(objects[o][k], DOMAIN tensors, o, Len(objects))
  <2> DEFINE b == objects[o][k]
  <2>1. b \in Range(objects[o])
    BY DEF Range
  <2>2. /\ b \in [key : STRING, kind : {"tensor", "module", "list", "other"}, refs : Seq(Nat)]
        /\ b.kind \in {"tensor", "module"} => Len(b.refs) = 1
        /\ Range(b.refs) \subseteq CASE b.kind = "tensor" -> DOMAIN tensors
                                      [] b.kind = "module" -> (o + 1)..Len(objects)
                                      [] b.kind = "list"   -> {0} \cup (o + 1)..Len(objects)
                                      [] OTHER -> {}
    <3>1. objects[o] \in Seq([key : STRING, kind : {"tensor", "module", "list", "other"}, refs : Seq(Nat)])
      BY <1>1 DEF IsModel
    <3>2. b \in [key : STRING, kind : {"tensor", "module", "list", "other"}, refs : Seq(Nat)]
      BY Zenon, <3>1, SequenceOfAnything
    <3> QED
      BY <1>1, <2>1, <3>2 DEF IsModel
  <2> HIDE DEF b
  <2>3. IsSequence(b.refs) /\ DOMAIN b.refs = 1..Len(b.refs)
    BY <2>2, SequenceOfAnything
  <2>4. \A i \in DOMAIN b.refs : b.refs[i] \in Range(b.refs)
    BY DEF Range
  <2>5. b.kind \in {"tensor", "module"} => b.refs[1] \in Range(b.refs)
    BY <2>2, <2>3, <2>4
  <2>6. BelowIn(b, DOMAIN tensors, o, Len(objects))
    BY <2>2, <2>3, <2>4, <2>5 DEF BelowIn
  <2> QED
    BY <2>6 DEF b
<1>5. \A o \in DOMAIN objects : IsSequence(objects[o])
  BY <1>1, SequenceOfAnything DEF IsModel
<1>6. TreeOver(objects, DOMAIN tensors)
  BY <1>3, <1>4, <1>5 DEF TreeOver
<1> QED
  BY <1>2, <1>6, <1>7 DEF IsModelOf, objects, tensors

LEMMA ParametersAreTensors ==
  ModelInv => Parameters \in Seq(DOMAIN heap)
<1> SUFFICES ASSUME ModelInv PROVE Parameters \in Seq(DOMAIN heap)
  OBVIOUS
<1>1. NamesIn(NamedParameters, DOMAIN heap)
  BY NamedInNames DEF ModelInv, IsModelOf, NamedParameters
<1>2. DOMAIN NamedParameters = 1..Len(NamedParameters) /\ Len(NamedParameters) \in Nat
  BY <1>1, SequenceIsAFunction DEF NamesIn
<1>3. Parameters \in [1..Len(NamedParameters) -> DOMAIN heap]
  BY <1>1, <1>2 DEF Parameters, NamesIn
<1> QED
  BY <1>2, <1>3, SeqDef

(* A change of the numbers alone.                                          *)
LEMMA SameParameters ==
  ASSUME attrs' = attrs, DOMAIN heap' = DOMAIN heap,
         \A t \in DOMAIN heap : heap'[t].requires_grad = heap[t].requires_grad
  PROVE  Parameters' = Parameters
<1>1. [t \in DOMAIN heap' |-> heap'[t].requires_grad] = [t \in DOMAIN heap |-> heap[t].requires_grad]
  OBVIOUS
<1>2. NamedParameters' = NamedParameters
  BY <1>1 DEF NamedParameters
<1> QED
  BY <1>2 DEF Parameters

LEMMA NamesAreTensors ==
  ModelInv => /\ NamesIn(NamedParameters, DOMAIN heap) /\ DOMAIN Parameters = DOMAIN NamedParameters
              /\ \A k \in DOMAIN Parameters : Parameters[k] \in DOMAIN heap
BY NamedInNames DEF ModelInv, IsModelOf, NamedParameters, Parameters, NamesIn

(* The hyperparameters of a plan.                                          *)
LEMMA PlanFields ==
  ASSUME NEW p \in Plans
  PROVE  /\ p.optimizer.kind \in {"sgd", "adam", "adamw"}
         /\ p.optimizer.lr \in Numbers /\ p.optimizer.lr \in Int
         /\ p.optimizer.momentum \in Int /\ p.optimizer.beta1 \in Int /\ p.optimizer.beta2 \in Int
         /\ p.optimizer.eps \in Int /\ p.optimizer.decay \in Int
         /\ p.schedule.warmup \in 0..(P - 1) /\ p.schedule.warmup \in Nat
         /\ p.schedule.step_size \in Nat \ {0}
         /\ p.schedule.gamma \in Int /\ p.schedule.eta_min \in Int /\ p.schedule.t_max \in Nat
<1>1. Numbers \subseteq Int /\ \A w \in 0..(P - 1) : w \in Nat
  BY PAssumption DEF Numbers
<1>2. /\ {p.optimizer.lr, p.optimizer.momentum, p.optimizer.beta1, p.optimizer.beta2,
          p.optimizer.eps, p.optimizer.decay} \subseteq Numbers
      /\ {p.schedule.gamma, p.schedule.eta_min} \subseteq Numbers
      /\ p.optimizer.kind \in {"sgd", "adam", "adamw"}
      /\ p.schedule.warmup \in 0..(P - 1) /\ p.schedule.step_size \in Nat \ {0}
      /\ p.schedule.t_max \in Nat
  BY PlansAssumption
<1> QED
  BY <1>1, <1>2

LEMMA ZerosOf ==
  ASSUME NEW h, IsHeap(h), NEW t \in DOMAIN h
  PROVE  Zeros(h[t].flat) \in Row(Len(h[t].flat))
<1>1. h[t].flat \in Seq(Numbers)
  BY DEF IsHeap, HoldsNumbers
<1>2. Len(h[t].flat) \in Nat
  BY <1>1
<1> QED
  BY <1>2, ZerosIs

LEMMA MadeOptimizer ==
  ASSUME NEW p \in Plans, NEW h, IsHeap(h), NEW named \in Seq(DOMAIN h), NEW o,
         o = MakeOptimizer(p.optimizer, named, h)
  PROVE  IsOptimizer(o, h) /\ o.kind = p.optimizer.kind /\ o.params = named
<1>1. IsSequence(named) /\ (\A i \in DOMAIN named : named[i] \in DOMAIN h)
      /\ Len(named) \in Nat /\ DOMAIN named = 1..Len(named)
  BY SequenceOfAnything, SequenceIsAFunction
<1> DEFINE zeros == [i \in DOMAIN named |-> Zeros(h[named[i]].flat)]
<1> DEFINE nones == [i \in DOMAIN named |-> << >>]
<1>2. /\ DOMAIN o = OptimizerFields
      /\ o.kind = p.optimizer.kind /\ o.lr = p.optimizer.lr /\ o.momentum = p.optimizer.momentum
      /\ o.beta1 = p.optimizer.beta1 /\ o.beta2 = p.optimizer.beta2 /\ o.eps = p.optimizer.eps
      /\ o.decay = p.optimizer.decay /\ o.params = named /\ o.t = 0
      /\ o.buf = nones /\ o.m = zeros /\ o.v = zeros
  BY DEF MakeOptimizer, OptimizerFields
<1>3. \A i \in DOMAIN named : zeros[i] \in Row(Len(h[named[i]].flat)) /\ nones[i] = << >>
  BY <1>1, ZerosOf
<1>4. zeros \in [1..Len(named) -> {zeros[i] : i \in DOMAIN named}]
      /\ nones \in [1..Len(named) -> {<< >>}]
  BY <1>1
<1>5. DOMAIN zeros = DOMAIN named /\ DOMAIN nones = DOMAIN named
  OBVIOUS
<1> HIDE DEF zeros, nones
<1>6. IsSequence(zeros) /\ IsSequence(nones)
  BY <1>1, <1>4, SequenceByDomain
<1>7. /\ o.lr \in Int /\ o.momentum \in Int /\ o.beta1 \in Int /\ o.beta2 \in Int
      /\ o.eps \in Int /\ o.decay \in Int /\ o.t \in Nat
  BY <1>2, PlanFields
<1>8. OnePer(o.buf, o.params) /\ OnePer(o.m, o.params) /\ OnePer(o.v, o.params)
  BY <1>2, <1>5, <1>6 DEF OnePer
<1>9. \A i \in DOMAIN o.params : Remembers(o, i, Len(h[o.params[i]].flat))
  BY <1>2, <1>3 DEF Remembers, NoneOrRow
<1> QED
  BY <1>2, <1>7, <1>8, <1>9 DEF IsOptimizer

LEMMA MadeSchedule ==
  ASSUME NEW p \in Plans, NEW s, s = MakeScheduler(p.schedule, p.optimizer.lr)
  PROVE  SteppedTimes(s, 0) /\ CurrentLr(s, 0) = p.optimizer.lr
BY PlanFields, MadeScheduler

(* What a process holds that has just made an optimizer and a scheduler.   *)
JustMade ==
  /\ plan \in Plans /\ ModelInv /\ io = Idle /\ loads \in Nat /\ made = loads /\ calls = 0
  /\ opt = MakeOptimizer(plan.optimizer, Parameters, heap)
  /\ sched = MakeScheduler(plan.schedule, plan.optimizer.lr)

LEMMA MadeToLearn == JustMade => LearningInv /\ RateInv
<1> SUFFICES ASSUME JustMade PROVE LearningInv /\ RateInv
  OBVIOUS
<1> USE DEF JustMade
<1>1. IsHeap(heap) /\ Parameters \in Seq(DOMAIN heap)
  BY ParametersAreTensors DEF ModelInv, IsModelOf
<1>2. IsOptimizer(opt, heap) /\ opt.kind = plan.optimizer.kind /\ opt.params = Parameters
  BY <1>1, MadeOptimizer
<1>3. LearningInv
  BY <1>2 DEF LearningInv, LearningReachesTheModel, Idle
<1>4. SteppedTimes(sched, 0) /\ CurrentLr(sched, 0) = plan.optimizer.lr
  BY MadeSchedule
<1>5. opt.lr = plan.optimizer.lr
  BY DEF MakeOptimizer
<1> QED
  BY <1>3, <1>4, <1>5 DEF RateInv

(* What a process holds that has just begun.                               *)
JustBegun ==
  /\ JustMade /\ made = 0 /\ FileFrom(0, disk) /\ LoaderInv
  /\ grads = [t \in DOMAIN heap |-> << >>]
  /\ (\A shape \in DOMAIN cache : cache[shape] = Untraced) /\ quantized = << >>

LEMMA BegunSession == JustBegun => SessionInv
<1> SUFFICES ASSUME JustBegun PROVE SessionInv
  OBVIOUS
<1>1. LearningInv /\ RateInv
  BY MadeToLearn DEF JustBegun
<1>2. GradsInv
  BY DEF GradsInv, NoneOrRow, JustBegun
<1>3. FileInv
  BY DEF FileInv, Idle, JustBegun, JustMade
<1> QED
  BY <1>1, <1>2, <1>3 DEF SessionInv, TracesInv, QuantizedIsClose, JustBegun, JustMade

LEMMA SessionInitHolds == Init => SessionInv
<1> SUFFICES ASSUME Init PROVE SessionInv
  OBVIOUS
<1>1. ModelInv
  BY ModelsAreModels DEF Init, CheckpointInit, ModelInv
<1>2. /\ opt = MakeOptimizer(plan.optimizer, Parameters, heap)
      /\ sched = MakeScheduler(plan.schedule, plan.optimizer.lr)
  BY DEF Init, Optimizing
<1>3. LoaderInv
  BY LoaderInitHolds DEF Init
<1>4. disk = << >> /\ io = Idle
  BY DEF Init, CheckpointInit
<1>5. FileFrom(0, << >>)
  <2>1. IsSequence(<< >>) /\ DOMAIN << >> = {}
    BY EmptySeq DEF IsSequence
  <2> QED
    BY <2>1 DEF FileFrom
<1> QED
  BY <1>1, <1>2, <1>3, <1>4, <1>5, BegunSession DEF Init, JustBegun, JustMade

(***************************************************************************)
(* The steps.                                                              *)
(***************************************************************************)
LEMMA LoaderIsLeft ==
  ASSUME LoaderInv, UNCHANGED loaderVars
  PROVE  LoaderInv'
BY DEF loaderVars, LoaderInv, LoaderTypeOK, Advanced, HandedOut, Finished, BatchEnd, Samples, Orders

LEMMA FileIsLeft ==
  ASSUME FileInv, UNCHANGED <<io, disk>>, io.call # "load" \/ UNCHANGED heap
  PROVE  FileInv'
BY DEF FileInv, LoadInv, Idle, PathsOf

(* Those that leave the model, the optimizer and the traces.               *)
LEMMA ModelIsLeft ==
  ASSUME SessionInv, UNCHANGED <<plan, attrs, heap, opt, sched, made, calls, loads, cache, grads>>,
         LoaderInv', FileInv', QuantizedIsClose', io'.call = "load" => io.call = "load"
  PROVE  SessionInv'
<1>1. Parameters' = Parameters /\ \A modes : MasksIn(modes)' = MasksIn(modes)
  BY SameParameters DEF MasksIn, Reached
<1>2. ModelInv' /\ GradsInv'
  BY DEF SessionInv, ModelInv, GradsInv
<1>3. LearningInv' /\ RateInv'
  BY <1>1 DEF SessionInv, LearningInv, LearningReachesTheModel, RateInv
<1>4. ASSUME NEW shape \in DOMAIN cache', cache'[shape] # Untraced PROVE TraceInv(cache[shape])'
  BY <1>1, <1>4 DEF SessionInv, TracesInv, TraceInv
<1> QED
  BY <1>2, <1>3, <1>4 DEF SessionInv, TracesInv

(* The iterator of a new for loop.                                         *)
LEMMA FreshIteratorKeeps ==
  ASSUME LoaderInv, NEW e \in Iterators, FreshIterator(e)
  PROVE  LoaderInv'
<1>1. /\ loader \in Loaders /\ loader' = loader /\ loader.n \in Nat /\ loader.batch_size \in Nat \ {0}
      /\ LoaderTypeOK
  BY LoaderFields DEF LoaderInv, LoaderTypeOK, FreshIterator
<1>2. LoaderTypeOK'
  BY <1>1, UnshuffledIsAnOrder DEF LoaderTypeOK, FreshIterator, Orders, Samples
<1>3. ASSUME NEW f \in Iterators PROVE Advanced(f)' /\ HandedOut(f)'
  <2>1. CASE f = e
    <3>1. /\ state'[e] = "fresh" /\ indices'[e] = Unshuffled /\ start'[e] = 0 /\ yielded'[e] = 0
          /\ seen'[e] = [s \in Samples |-> 0]
      BY <1>1 DEF LoaderTypeOK, FreshIterator
    <3> QED
      BY <1>1, <2>1, <3>1 DEF Advanced, HandedOut, Samples, Unshuffled
  <2>2. CASE f # e
    <3>1. /\ state'[f] = state[f] /\ indices'[f] = indices[f] /\ start'[f] = start[f]
          /\ yielded'[f] = yielded[f] /\ seen'[f] = seen[f]
      BY <1>1, <2>2 DEF LoaderTypeOK, FreshIterator
    <3>2. Advanced(f) /\ HandedOut(f)
      BY DEF LoaderInv
    <3> QED
      BY <1>1, <3>1, <3>2 DEF Advanced, HandedOut, Samples, Finished, BatchEnd
  <2> QED
    BY <2>1, <2>2
<1> QED
  BY <1>2, <1>3 DEF LoaderInv
(* The gradients of a step are of their tensors' sizes.                    *)
LEMMA BackwardFits ==
  ASSUME SessionInv, NEW reached, NEW number \in plan.numbers, NEW t \in DOMAIN heap
  PROVE  NoneOrRow(Backward(reached, number)[t], Len(heap[t].flat))
<1>1. Gradients[number][Len(heap[t].flat)] \in Row(Len(heap[t].flat))
  BY GradientsAssumption DEF SessionInv, ModelInv, IsModelOf, Row
<1>2. t \in DOMAIN grads => NoneOrRow(grads[t], Len(heap[t].flat))
  BY DEF SessionInv, GradsInv
<1>3. NoneOrRow(<< >>, Len(heap[t].flat))
  BY DEF NoneOrRow
<1>4. NoneOrRow(Gradients[number][Len(heap[t].flat)], Len(heap[t].flat))
  BY <1>1 DEF NoneOrRow
<1> QED
  BY <1>2, <1>3, <1>4 DEF Backward

(* What a turn of the loop makes of the state s, with gradients grad.      *)
LearnsFrom(s, r, grad) ==
  /\ s.opt = opt /\ s.heap = heap /\ IsState(s) /\ Stepped(s, r, grad)
  /\ DOMAIN grad = DOMAIN heap /\ \A t \in DOMAIN heap : NoneOrRow(grad[t], Len(heap[t].flat))

BecomesOf(r, next, grad) ==
  /\ heap' = r.heap /\ opt' = [r.opt EXCEPT !.lr = next.lr] /\ sched' = next.sched
  /\ grads' = grad
  /\ given' = [i \in DOMAIN given |->
                 IF grad[opt.params[i]] = << >> THEN given[i]
                 ELSE Append(given[i], grad[opt.params[i]])]

LEMMA TrainedOn ==
  ASSUME SessionInv, TrainOnBatch
  PROVE  \E s, r, grad, next :
           /\ LearnsFrom(s, r, grad) /\ next = SchedulerStep(sched, r.opt.lr)
           /\ BecomesOf(r, next, grad)
<1>0. PICK reached \in plan.reach, number \in plan.numbers :
        LET grad  == Backward(reached \cap DOMAIN Parameters, number)
            after == OptimizerStep([opt |-> opt, heap |-> heap], grad)
        IN  BecomesOf(after, SchedulerStep(sched, after.opt.lr), grad)
  BY Zenon DEF TrainOnBatch, BecomesOf
<1>1. PICK grad, s, r, next :
        /\ s = [opt |-> opt, heap |-> heap]
        /\ grad = Backward(reached \cap DOMAIN Parameters, number) /\ r = OptimizerStep(s, grad)
        /\ next = SchedulerStep(sched, r.opt.lr)
        /\ BecomesOf(r, next, grad)
  BY <1>0
<1>2. \A t \in DOMAIN heap : NoneOrRow(grad[t], Len(heap[t].flat))
  BY <1>1, BackwardFits
<1>3. DOMAIN grad = DOMAIN heap
  BY <1>1 DEF Backward
<1>4. s.opt = opt /\ s.heap = heap /\ DOMAIN s = {"opt", "heap"}
  BY <1>1
<1>5. IsState(s) /\ s.opt.kind \in {"sgd", "adam", "adamw"}
  BY <1>4, PlanFields DEF SessionInv, ModelInv, IsModelOf, LearningInv, IsState
<1>6. GradsFit(s, grad)
  BY <1>2, <1>4, <1>5, StateFacts DEF GradsFit, SizeOf
<1>7. Stepped(s, r, grad)
  BY <1>1, <1>5, <1>6, StepIs
<1> QED
  BY <1>1, <1>2, <1>3, <1>4, <1>5, <1>7 DEF LearnsFrom

(* The rate alone is the scheduler's.                                      *)
LEMMA AnotherRate ==
  ASSUME NEW o, NEW h, IsOptimizer(o, h), NEW lr \in Int, NEW n, n = [o EXCEPT !.lr = lr]
  PROVE  /\ IsOptimizer(n, h) /\ n.lr = lr /\ n.kind = o.kind /\ n.params = o.params
         /\ n.momentum = o.momentum /\ n.beta1 = o.beta1 /\ n.beta2 = o.beta2
         /\ n.t = o.t /\ n.buf = o.buf /\ n.m = o.m /\ n.v = o.v
<1>1. /\ DOMAIN n = OptimizerFields
      /\ n.lr = lr /\ n.kind = o.kind /\ n.params = o.params /\ n.momentum = o.momentum
      /\ n.beta1 = o.beta1 /\ n.beta2 = o.beta2 /\ n.eps = o.eps /\ n.decay = o.decay
      /\ n.t = o.t /\ n.buf = o.buf /\ n.m = o.m /\ n.v = o.v
  BY DEF IsOptimizer, OptimizerFields
<1>2. IsOptimizer(n, h)
  BY <1>1 DEF IsOptimizer, Remembers
<1> QED
  BY <1>1, <1>2

LEMMA TrainOnBatchKeeps ==
  ASSUME SessionInv, TrainOnBatch
  PROVE  SessionInv'
<1>1. LoaderInv'
  BY YieldKeeps, IteratorsAssumption DEF SessionInv, TrainOnBatch, Main
<1>2. PICK s, r, grad, next : /\ LearnsFrom(s, r, grad) /\ next = SchedulerStep(sched, r.opt.lr)
                              /\ BecomesOf(r, next, grad)
  BY TrainedOn
<1>3. /\ IsState(r) /\ r.opt.kind = opt.kind /\ r.opt.params = opt.params /\ r.opt.lr = opt.lr
      /\ SameTensors(heap, r.heap)
  BY <1>2 DEF LearnsFrom, Stepped, Kept, SettingsOf
<1>4. /\ IsHeap(heap') /\ DOMAIN heap' = DOMAIN heap
      /\ \A t \in DOMAIN heap : /\ heap'[t].requires_grad = heap[t].requires_grad
                                /\ Len(heap'[t].flat) = Len(heap[t].flat)
  BY <1>2, <1>3 DEF SameTensors, BecomesOf
<1>5. calls \in Nat /\ SteppedTimes(sched, calls) /\ opt.lr = CurrentLr(sched, calls)
  BY DEF SessionInv, RateInv
<1>6. /\ SteppedTimes(next.sched, calls + 1) /\ next.lr = CurrentLr(next.sched, calls + 1)
      /\ next.lr \in Int
  BY <1>2, <1>3, <1>5, SchedulerStepIs
<1>7. IsOptimizer(opt', heap') /\ opt'.params = opt.params /\ opt'.kind = opt.kind /\ opt'.lr = next.lr
  BY <1>2, <1>3, <1>6, AnotherRate DEF IsState, BecomesOf
<1>8. UNCHANGED <<plan, attrs, io, disk, made, loads, cache, quantized>> /\ io.call # "load"
      /\ calls' = calls + 1
  BY DEF TrainOnBatch, Idle
<1>9. Parameters' = Parameters /\ \A modes : MasksIn(modes)' = MasksIn(modes)
  BY <1>4, <1>8, SameParameters DEF MasksIn, Reached
<1>10. RateInv'
  BY <1>2, <1>5, <1>6, <1>7, <1>8 DEF RateInv, BecomesOf
<1>11. ModelInv' /\ FileInv'
  BY <1>4, <1>8, FileIsLeft DEF SessionInv, ModelInv, IsModelOf
<1>12. GradsInv'
  BY <1>2, <1>4 DEF GradsInv, LearnsFrom, BecomesOf
<1>13. LearningInv'
  BY <1>7, <1>8, <1>9 DEF SessionInv, LearningInv, LearningReachesTheModel
<1>14. ASSUME NEW shape \in DOMAIN cache', cache'[shape] # Untraced PROVE TraceInv(cache[shape])'
  BY <1>8, <1>9, <1>14 DEF SessionInv, TracesInv, TraceInv
<1> QED
  BY <1>1, <1>8, <1>10, <1>11, <1>12, <1>13, <1>14 DEF SessionInv, TracesInv, QuantizedIsClose

LEMMA IteratingKeeps ==
  ASSUME SessionInv, EndEpoch \/ BeginEpoch \/ Break \/ LookAtData
  PROVE  SessionInv'
<1>1. LoaderInv'
  BY YieldKeeps, StopKeeps, FreshIteratorKeeps, IteratorsAssumption
     DEF SessionInv, EndEpoch, BeginEpoch, Break, LookAtData, Main, Peek
<1>2. UNCHANGED <<plan, attrs, heap, io, disk, opt, sched, made, calls, loads, cache, grads, quantized>>
  BY DEF EndEpoch, BeginEpoch, Break, LookAtData, checkpointVars, sessionVars, optimVars
<1>3. FileInv'
  BY <1>2, FileIsLeft DEF SessionInv
<1> QED
  BY <1>1, <1>2, <1>3, ModelIsLeft DEF SessionInv, QuantizedIsClose

LEMMA CallJitKeeps ==
  ASSUME SessionInv, NEW shape \in Shapes, CallJit(shape)
  PROVE  SessionInv'
<1>1. /\ UNCHANGED <<plan, attrs, heap, io, disk, opt, sched, made, calls, loads, grads, quantized>>
      /\ UNCHANGED loaderVars /\ io = Idle
  BY DEF CallJit, checkpointVars, optimVars
<1>2. PICK mask \in MasksIn(training) : cache' = [cache EXCEPT ![shape] = Trace(mask)]
  BY DEF CallJit
<1>3. Parameters' = Parameters /\ \A modes : MasksIn(modes)' = MasksIn(modes)
  BY <1>1, SameParameters DEF MasksIn, Reached
<1>4. ASSUME NEW other \in DOMAIN cache', cache'[other] # Untraced PROVE TraceInv(cache[other])'
  <2>1. CASE other = shape
    <3>1. PICK t : t = Trace(mask)
      OBVIOUS
    <3>2. cache'[other] = t
      BY <1>2, <2>1, <3>1
    <3>3. /\ t.loads = loads /\ t.tensors = Parameters /\ t.flats = << >>
          /\ t.mask \in MasksIn(t.training)
      BY <3>1 DEF Trace
    <3> QED
      BY <3>2, <3>3, <1>1, <1>3 DEF TraceInv, SessionInv, LearningInv, Idle
  <2>2. CASE other # shape
    <3>1. cache'[other] = cache[other] /\ other \in DOMAIN cache
      BY <1>2, <2>2
    <3>2. TraceInv(cache[other])
      BY <3>1, <1>4 DEF SessionInv, TracesInv
    <3> QED
      BY <3>1, <3>2, <1>1, <1>3 DEF TraceInv
  <2> QED
    BY <2>1, <2>2
<1>5. ModelInv' /\ LearningInv' /\ RateInv' /\ GradsInv' /\ FileInv'
  BY <1>1, <1>3, FileIsLeft
     DEF SessionInv, ModelInv, LearningInv, LearningReachesTheModel, RateInv, GradsInv
<1> QED
  BY <1>1, <1>4, <1>5, LoaderIsLeft DEF SessionInv, TracesInv, QuantizedIsClose

LEMMA MakeOptimizerAgainKeeps ==
  ASSUME SessionInv, MakeOptimizerAgain
  PROVE  SessionInv'
<1>1. /\ UNCHANGED <<plan, attrs, heap, io, disk, loads, cache, grads, quantized>>
      /\ UNCHANGED loaderVars /\ io = Idle /\ made' = loads /\ calls' = 0
  BY DEF MakeOptimizerAgain, checkpointVars
<1>2. Parameters' = Parameters /\ \A modes : MasksIn(modes)' = MasksIn(modes)
  BY <1>1, SameParameters DEF MasksIn, Reached
<1>3. /\ opt' = MakeOptimizer(plan'.optimizer, Parameters', heap')
      /\ sched' = MakeScheduler(plan'.schedule, plan'.optimizer.lr)
  BY <1>1, <1>2 DEF MakeOptimizerAgain, Optimizing
<1>4. ModelInv' /\ GradsInv' /\ FileInv'
  BY <1>1, FileIsLeft DEF SessionInv, ModelInv, GradsInv
<1>5. LearningInv' /\ RateInv'
  <2>1. JustMade'
    BY <1>1, <1>3, <1>4 DEF JustMade, SessionInv, LearningInv, Idle
  <2> QED
    BY <2>1, MadeToLearn, PTL
<1>6. ASSUME NEW shape \in DOMAIN cache', cache'[shape] # Untraced PROVE TraceInv(cache[shape])'
  BY <1>1, <1>2, <1>6 DEF SessionInv, TracesInv, TraceInv
<1> QED
  BY <1>1, <1>4, <1>5, <1>6, LoaderIsLeft DEF SessionInv, TracesInv, QuantizedIsClose

(* Those that leave the file, too.                                         *)
LEMMA SetModeKeeps ==
  ASSUME SessionInv, NEW mode \in BOOLEAN, SetMode(mode)
  PROVE  SessionInv'
<1>1. /\ UNCHANGED <<plan, attrs, heap, io, disk, opt, sched, made, calls, loads, cache, grads, quantized>>
      /\ UNCHANGED loaderVars
  BY DEF SetMode, checkpointVars, optimVars
<1> QED
  BY <1>1, FileIsLeft, LoaderIsLeft, ModelIsLeft DEF SessionInv, QuantizedIsClose

LEMMA SignedIsInt ==
  ASSUME NEW x \in Numbers
  PROVE  Signed(x) \in Int
<1>1. x \in Int /\ P \in Int
  BY PAssumption DEF Numbers
<1> QED
  BY <1>1 DEF Signed

LEMMA QuantizeKeeps ==
  ASSUME SessionInv, Quantize
  PROVE  SessionInv'
<1>1. /\ UNCHANGED <<plan, attrs, heap, io, disk, opt, sched, made, calls, loads, cache, grads>>
      /\ UNCHANGED loaderVars
  BY DEF Quantize, checkpointVars, optimVars
<1>0. PICK i \in DOMAIN Parameters :
        LET flat == [k \in DOMAIN heap[Parameters[i]].flat |-> Signed(heap[Parameters[i]].flat[k])]
        IN  quantized' = <<flat, QuantizeSymmetric(flat)>>
  BY DEF Quantize
<1>2. PICK f : /\ f = [k \in DOMAIN heap[Parameters[i]].flat |-> Signed(heap[Parameters[i]].flat[k])]
               /\ quantized' = <<f, QuantizeSymmetric(f)>>
  BY <1>0
<1>3. Parameters[i] \in DOMAIN heap /\ IsHeap(heap)
  BY NamesAreTensors DEF SessionInv, ModelInv, IsModelOf
<1>4. PICK x \in Seq(Numbers) : x = heap[Parameters[i]].flat
  BY <1>3 DEF IsHeap, HoldsNumbers
<1>5. PICK n \in Nat : n = Len(x) /\ DOMAIN x = 1..n /\ \A k \in 1..n : x[k] \in Numbers
  BY SequenceIsARow DEF Row
<1>6. DOMAIN f = 1..n /\ \A k \in 1..n : f[k] \in Int
  BY <1>2, <1>4, <1>5, SignedIsInt
<1>7. IsClose(f, QuantizeSymmetric(f))
  BY <1>6, QuantizesClosely
<1>8. QuantizedIsClose'
  <2>1. quantized'[1] = f /\ quantized'[2] = QuantizeSymmetric(f)
    BY <1>2
  <2> QED
    BY <1>7, <2>1 DEF QuantizedIsClose, IsClose
<1> QED
  BY <1>1, <1>8, FileIsLeft, LoaderIsLeft, ModelIsLeft DEF SessionInv

LEMMA SaveKeeps ==
  ASSUME SessionInv, Save
  PROVE  SessionInv'
<1>1. /\ UNCHANGED <<plan, attrs, heap, opt, sched, made, calls, loads, cache, grads, quantized>>
      /\ UNCHANGED loaderVars
  BY DEF Save, OpenForSave, optimVars
<1>2. /\ disk' = << >> /\ io'.call = "save" /\ io'.left = Image(Contents) /\ DOMAIN io' = DOMAIN Idle
  BY DEF Save, OpenForSave, Idle
<1>3. /\ IsSequence(Contents) /\ \A k \in DOMAIN Contents : Contents[k].flat \in Seq(Numbers)
  BY ContentsHoldNumbers, NamesAreTensors DEF SessionInv, ModelInv, IsModelOf
<1>4. FileFrom(0, Image(Contents))
  BY <1>3, ImageIsAFile
<1>5. FileFrom(0, << >>) /\ Len(<< >>) = 0
  BY EmptySeq DEF FileFrom, IsSequence
<1>6. FileInv'
  BY <1>2, <1>4, <1>5 DEF FileInv
<1> QED
  BY <1>1, <1>2, <1>6, LoaderIsLeft, ModelIsLeft DEF SessionInv, QuantizedIsClose

LEMMA WriteKeeps ==
  ASSUME SessionInv, Write, UNCHANGED <<loaderVars, sessionVars>>
  PROVE  SessionInv'
<1>1. /\ UNCHANGED <<plan, attrs, heap, opt, sched, made, calls, loads, cache, grads, quantized>>
      /\ UNCHANGED loaderVars /\ io.call = "save"
  BY DEF Write, sessionVars, optimVars
<1>2. DOMAIN io = DOMAIN Idle /\ FileFrom(0, disk) /\ FileFrom(Len(disk), io.left)
  BY <1>1 DEF SessionInv, FileInv
<1>3. CASE io.left = << >>
  <2>1. disk' = disk /\ io' = Idle
    BY <1>3 DEF Write
  <2>2. FileInv' /\ io'.call # "load"
    BY <1>2, <2>1 DEF FileInv, Idle
  <2> QED
    BY <1>1, <2>2, LoaderIsLeft, ModelIsLeft DEF SessionInv, QuantizedIsClose
<1>4. CASE io.left # << >>
  <2>1. /\ disk' = Append(disk, Head(io.left)) /\ io'.left = Tail(io.left) /\ io'.call = "save"
        /\ DOMAIN io' = DOMAIN Idle
    BY <1>1, <1>2, <1>4 DEF Write, Idle
  <2>2. PICK units, left : units = disk /\ left = io.left
    OBVIOUS
  <2>3. /\ FileFrom(0, Append(units, Head(left)))
        /\ FileFrom(Len(Append(units, Head(left))), Tail(left))
    BY <1>2, <1>4, <2>2, WritingKeepsFiles
  <2>4. FileInv' /\ io'.call # "load"
    BY <2>1, <2>2, <2>3 DEF FileInv
  <2> QED
    BY <1>1, <2>4, LoaderIsLeft, ModelIsLeft DEF SessionInv, QuantizedIsClose
<1> QED
  BY <1>3, <1>4

(* What follows the header is numbers.                                     *)
LEMMA BlobIsNumbers ==
  ASSUME FileFrom(0, disk), NEW blob, blob = [k \in 1..(Len(disk) - 3) |-> disk[k + 3][2]],
         Len(disk) >= 3
  PROVE  blob \in Seq(Numbers) /\ Entries(disk[3][2])
<1>1. PICK n \in Nat : n = Len(disk) /\ DOMAIN disk = 1..n /\ n >= 3
  BY SequenceIsAFunction DEF FileFrom
<1>2. \A k \in 1..n : UnitFits(disk[k], 0 + k)
  BY <1>1 DEF FileFrom
<1>3. PICK m \in Nat : m = n - 3
  <2>1. n - 3 \in Nat
    BY <1>1
  <2> QED
    BY <2>1
<1>4. \A k \in 1..m : disk[k + 3][2] \in Numbers
  <2> SUFFICES ASSUME NEW k \in 1..m PROVE disk[k + 3][2] \in Numbers
    OBVIOUS
  <2>1. k + 3 \in 1..n /\ 0 + (k + 3) > 3
    BY <1>3
  <2> QED
    BY <1>2, <2>1 DEF UnitFits
<1>5. blob \in [1..m -> Numbers]
  BY <1>1, <1>3, <1>4
<1>6. 3 \in 1..n /\ 0 + 3 = 3
  BY <1>1
<1> QED
  BY <1>2, <1>5, <1>6, SeqDef DEF UnitFits

LEMMA LoadKeeps ==
  ASSUME SessionInv, Load
  PROVE  SessionInv'
<1>1. /\ UNCHANGED <<plan, attrs, heap, disk, opt, sched, made, calls, cache, grads, quantized>>
      /\ UNCHANGED loaderVars /\ loads' = loads + 1
  BY DEF Load, OpenForLoad, Refused, optimVars
<1>2. FileInv'
  <2>1. CASE io' = Idle
    BY <1>1, <2>1 DEF SessionInv, FileInv, Idle
  <2>2. CASE io' # Idle
    <3>1. /\ Len(disk) >= 3 /\ PathsOf(disk[3][2]) = PathsOf(NamedParameters)
          /\ io' = [call |-> "load", left |-> NamedParameters, header |-> disk[3][2],
                    blob |-> [k \in 1..(Len(disk) - 3) |-> disk[k + 3][2]]]
      BY <2>2 DEF Load, OpenForLoad, Refused
    <3>2. io'.blob \in Seq(Numbers) /\ Entries(io'.header)
      BY <3>1, BlobIsNumbers DEF SessionInv, FileInv
    <3>3. NamesIn(io'.left, DOMAIN heap')
      BY <1>1, <3>1, NamesAreTensors DEF SessionInv
    <3>4. \A k \in DOMAIN io'.left : io'.left[k].path \in PathsOf(io'.header)
      BY <3>1 DEF PathsOf
    <3>5. DOMAIN io' = DOMAIN Idle /\ io'.call = "load"
      BY <3>1 DEF Idle
    <3> QED
      BY <1>1, <3>2, <3>3, <3>4, <3>5 DEF SessionInv, FileInv, LoadInv, PathsOf, Idle
  <2> QED
    BY <2>1, <2>2
<1>3. ModelInv' /\ GradsInv' /\ RateInv'
  BY <1>1 DEF SessionInv, ModelInv, GradsInv, RateInv
<1>4. LearningInv'
  BY <1>1 DEF SessionInv, LearningInv, LearningReachesTheModel
<1>5. ASSUME NEW shape \in DOMAIN cache', cache'[shape] # Untraced PROVE TraceInv(cache[shape])'
  BY <1>1, <1>5 DEF SessionInv, TracesInv, LearningInv, TraceInv
<1> QED
  BY <1>1, <1>2, <1>3, <1>4, <1>5, LoaderIsLeft DEF SessionInv, TracesInv, QuantizedIsClose

(* A tensor more, and an attribute that is it.                             *)
LEMMA LoadedModel ==
  ASSUME ModelInv, NEW c, HoldsNumbers(c), Len(c.flat) \in Sizes, NEW path,
         heap' = Append(heap, c), attrs' = SetByPath(path, Len(heap) + 1)
  PROVE  /\ ModelInv' /\ DOMAIN heap \subseteq DOMAIN heap'
         /\ \A t \in DOMAIN heap : heap'[t] = heap[t]
<1>0. /\ IsHeap(heap) /\ (\A t \in DOMAIN heap : Len(heap[t].flat) \in Sizes)
      /\ TreeOver(attrs, DOMAIN heap)
  BY DEF ModelInv, IsModelOf
<1>1. PICK n \in Nat : n = Len(heap) /\ DOMAIN heap = 1..n
  BY <1>0, SequenceIsAFunction DEF IsHeap
<1>3. /\ IsSequence(heap') /\ Len(heap') = n + 1 /\ DOMAIN heap' = 1..(n + 1)
      /\ \A t \in 1..(n + 1) : heap'[t] = IF t = n + 1 THEN c ELSE heap[t]
  <2>1. PICK h : h = heap
    OBVIOUS
  <2>2. IsSequence(h) /\ Len(h) = n
    BY <1>0, <1>1, <2>1 DEF IsHeap
  <2>3. PICK a : a = Append(h, c)
    OBVIOUS
  <2>4. /\ IsSequence(a) /\ Len(a) = n + 1 /\ DOMAIN a = 1..(n + 1)
        /\ \A t \in 1..(n + 1) : a[t] = IF t = n + 1 THEN c ELSE h[t]
    BY <1>1, <2>2, <2>3, AppendToAnything
  <2>5. heap' = a
    BY <2>1, <2>3
  <2> QED
    BY <2>1, <2>4, <2>5
<1>4. \A t \in 1..n : heap'[t] = heap[t]
  <2> SUFFICES ASSUME NEW t \in 1..n PROVE heap'[t] = heap[t]
    OBVIOUS
  <2>1. t \in 1..(n + 1) /\ t # n + 1
    OBVIOUS
  <2> QED
    BY <1>3, <2>1
<1>5. heap'[n + 1] = c
  BY <1>3
<1>6. IsHeap(heap') /\ \A t \in DOMAIN heap' : Len(heap'[t].flat) \in Sizes
  <2> SUFFICES ASSUME NEW t \in 1..(n + 1) PROVE HoldsNumbers(heap'[t]) /\ Len(heap'[t].flat) \in Sizes
    BY <1>3 DEF IsHeap
  <2>1. t \in 1..n \/ t = n + 1
    OBVIOUS
  <2> QED
    BY <2>1, <1>0, <1>1, <1>4, <1>5 DEF IsHeap
<1> DEFINE o == Owner(path)
<1> DEFINE a == Attribute(Last(path), "tensor", <<n + 1>>)
<1> DEFINE new == [k \in DOMAIN attrs[o] |-> IF attrs[o][k].key = Last(path) THEN a ELSE attrs[o][k]]
<1>7. attrs' = [attrs EXCEPT ![o] = new]
  BY <1>1 DEF SetByPath
<1>8. DOMAIN a = {"key", "kind", "refs"} /\ a.kind = "tensor" /\ a.refs[1] = n + 1 /\ IsSequence(a.refs)
  <2>1. <<n + 1>> \in Seq(Nat)
    OBVIOUS
  <2> QED
    BY <2>1, SequenceOfAnything DEF Attribute
<1> HIDE DEF o, a
<1>9. PICK m \in Nat : m = Len(attrs) /\ DOMAIN attrs = 1..m /\ 1 \in 1..m
                       /\ attrs \in [1..m -> {attrs[k] : k \in DOMAIN attrs}]
  BY <1>0, SequenceIsAFunction DEF TreeOver
<1>10. DOMAIN attrs' = 1..m /\ attrs' \in [1..m -> {attrs[k] : k \in DOMAIN attrs} \cup {new}]
  BY <1>7, <1>9
<1>11. IsSequence(attrs') /\ Len(attrs') = m
  BY <1>10, SequenceByDomain
<1>12. ASSUME NEW p \in 1..m
       PROVE  IsSequence(attrs'[p]) /\ \A k \in DOMAIN attrs'[p] : BelowIn(attrs'[p][k], DOMAIN heap', p, m)
  <2>1. /\ IsSequence(attrs[p])
        /\ \A k \in DOMAIN attrs[p] : BelowIn(attrs[p][k], DOMAIN heap', p, m)
    BY <1>0, <1>1, <1>3, <1>9, SMTT(30) DEF TreeOver, BelowIn
  <2>2. BelowIn(a, DOMAIN heap', p, m)
    BY <1>3, <1>8 DEF BelowIn
  <2>3. CASE p # o
    BY <1>7, <1>9, <2>1, <2>3
  <2>4. CASE p = o
    <3>1. attrs'[p] = new
      BY <1>7, <1>9, <2>4
    <3>2. DOMAIN attrs[p] = 1..Len(attrs[p]) /\ Len(attrs[p]) \in Nat
      BY <2>1, SequenceIsAFunction
    <3>3. DOMAIN new = 1..Len(attrs[p]) /\ new \in [1..Len(attrs[p]) -> {new[k] : k \in DOMAIN new}]
      BY <3>2, <2>4
    <3>4. \A k \in DOMAIN new : new[k] = a \/ new[k] = attrs[p][k]
      BY <2>4
    <3> HIDE DEF new
    <3>5. IsSequence(new)
      BY <3>2, <3>3, SequenceByDomain
    <3> QED
      BY <3>1, <3>2, <3>3, <3>4, <3>5, <2>1, <2>2
  <2> QED
    BY <2>3, <2>4
<1>13. TreeOver(attrs', DOMAIN heap')
  <2>1. ASSUME NEW p \in DOMAIN attrs'
        PROVE  /\ IsSequence(attrs'[p])
               /\ \A k \in DOMAIN attrs'[p] : BelowIn(attrs'[p][k], DOMAIN heap', p, Len(attrs'))
    BY <1>10, <1>11, <1>12
  <2> QED
    BY <1>9, <1>10, <1>11, <2>1 DEF TreeOver
<1>14. ModelInv'
  BY <1>6, <1>13 DEF ModelInv, IsModelOf
<1>15. \A t \in 1..n : t \in 1..(n + 1)
  OBVIOUS
<1> QED
  BY <1>1, <1>3, <1>4, <1>14, <1>15

LEMMA RawIsNumbers ==
  ASSUME io.blob \in Seq(Numbers), NEW meta, meta.offset \in Nat, meta.size \in Nat
  PROVE  Raw(meta) \in Seq(Numbers)
<1>1. PICK a \in Nat, b \in Nat, x \in Seq(Numbers) : a = meta.offset /\ b = meta.size /\ x = io.blob
  OBVIOUS
<1>2. ASSUME NEW e \in Int, e <= Len(x) PROVE SubSeq(x, a + 1, e) \in Seq(Numbers)
  <2>1. \A i \in (a + 1)..e : i \in 1..Len(x) /\ x[i] \in Numbers
    <3> SUFFICES ASSUME NEW i \in (a + 1)..e PROVE i \in 1..Len(x) /\ x[i] \in Numbers
      OBVIOUS
    <3>1. Len(x) \in Nat
      OBVIOUS
    <3>2. i \in 1..Len(x)
      BY <1>2, <3>1
    <3> QED
      BY <3>2
  <2> QED
    BY <2>1, SubSeqProperties
<1>3. Len(x) \in Int /\ a + b \in Int
  OBVIOUS
<1>4. CASE a + b <= Len(x)
  BY <1>1, <1>2, <1>3, <1>4 DEF Raw
<1>5. CASE ~ (a + b <= Len(x))
  BY <1>1, <1>2, <1>3, <1>5 DEF Raw
<1> QED
  BY <1>4, <1>5

(* What a turn of load()'s loop takes from the file is the tensor's.       *)
LEMMA AcceptedTensor ==
  ASSUME ModelInv, LoadInv, NEW k \in DOMAIN io.left, NEW meta, meta = Meta(io.left[k].path),
         Acceptable(io.left[k], meta),
         NEW c, c = [shape |-> meta.shape, flat |-> Raw(meta), requires_grad |-> TRUE]
  PROVE  HoldsNumbers(c) /\ Len(c.flat) \in Sizes
<1>1. io.left[k].tensor \in DOMAIN heap /\ io.left[k].path \in PathsOf(io.header)
  BY DEF LoadInv, NamesIn
<1>2. PICK path : path = io.left[k].path
  OBVIOUS
<1>3. PICK j \in DOMAIN io.header : meta = io.header[j]
  <2>1. \E j \in DOMAIN io.header : io.header[j].path = path
    BY <1>1, <1>2 DEF PathsOf
  <2> QED
    BY <1>2, <2>1 DEF Meta
<1>4. meta.offset \in Nat /\ meta.size \in Nat
  BY <1>3 DEF LoadInv, Entries
<1>5. Raw(meta) \in Seq(Numbers)
  BY <1>4, RawIsNumbers DEF LoadInv
<1>6. Len(Raw(meta)) \in Sizes
  BY <1>1 DEF Acceptable, ModelInv, IsModelOf
<1> QED
  BY <1>5, <1>6 DEF HoldsNumbers

(* What is left to load after the first of it.                             *)
LeftToLoad(left, D, paths) == NamesIn(left, D) /\ \A k \in DOMAIN left : left[k].path \in paths

LEMMA NamesAfterOne ==
  ASSUME NEW D, NEW left, left # << >>, NEW paths, LeftToLoad(left, D, paths)
  PROVE  /\ 1 \in DOMAIN left /\ Head(left) = left[1]
         /\ \A E : D \subseteq E => LeftToLoad(Tail(left), E, paths)
<1>0. NamesIn(left, D) /\ \A k \in DOMAIN left : left[k].path \in paths
  BY DEF LeftToLoad
<1>1. PICK m \in Nat : m = Len(left) /\ DOMAIN left = 1..m
  BY <1>0, SequenceIsAFunction DEF NamesIn
<1>2. left \in Seq({left[k] : k \in DOMAIN left})
  BY <1>0 DEF NamesIn, IsSequence
<1>3. m # 0
  BY <1>1, <1>2, EmptySeq
<1> DEFINE t == Tail(left)
<1>4. /\ t \in Seq({left[k] : k \in DOMAIN left}) /\ Len(t) = m - 1
      /\ \A i \in 1..(m - 1) : t[i] = left[i + 1]
  BY <1>1, <1>2, HeadTailProperties
<1>5. Head(left) = left[1]
  OBVIOUS
<1> HIDE DEF t
<1>6. IsSequence(t) /\ DOMAIN t = 1..(m - 1)
  BY <1>3, <1>4, SequenceOfAnything, SequenceIsAFunction
<1>7. ASSUME NEW i \in 1..(m - 1) PROVE t[i].tensor \in D /\ t[i].path \in paths
  <2>1. i + 1 \in DOMAIN left /\ t[i] = left[i + 1]
    BY <1>1, <1>4
  <2> QED
    BY <1>0, <2>1 DEF NamesIn
<1>8. ASSUME NEW E, D \subseteq E PROVE LeftToLoad(t, E, paths)
  BY <1>6, <1>7, <1>8 DEF NamesIn, LeftToLoad
<1> QED
  BY <1>1, <1>3, <1>5, <1>8 DEF t

(* The end of a load(), or one parameter more.                             *)
LEMMA LoadedOne ==
  ASSUME SessionInv, LoadParameter
  PROVE  /\ ModelInv' /\ FileInv' /\ DOMAIN heap \subseteq DOMAIN heap'
         /\ \A t \in DOMAIN heap : heap'[t] = heap[t]
<1>1. /\ io.call = "load" /\ LoadInv /\ DOMAIN io = DOMAIN Idle /\ FileFrom(0, disk) /\ disk' = disk
  BY DEF SessionInv, FileInv, LoadParameter
<1>2. CASE io' = Idle /\ UNCHANGED <<attrs, heap>>
  BY <1>1, <1>2 DEF SessionInv, ModelInv, FileInv, Idle
<1>3. CASE ~ (io' = Idle /\ UNCHANGED <<attrs, heap>>)
  <2>1. PICK named, meta, c :
          /\ io.left # << >> /\ named = Head(io.left) /\ meta = Meta(named.path)
          /\ Acceptable(named, meta)
          /\ c = [shape |-> meta.shape, flat |-> Raw(meta), requires_grad |-> TRUE]
          /\ heap' = Append(heap, c) /\ attrs' = SetByPath(named.path, Len(heap) + 1)
          /\ io' = [io EXCEPT !.left = Tail(@)]
    BY <1>3 DEF LoadParameter, Refused
  <2>2. PICK left, paths, D : left = io.left /\ paths = PathsOf(io.header) /\ D = DOMAIN heap
    OBVIOUS
  <2>3. left # << >> /\ LeftToLoad(left, D, paths)
    BY <1>1, <2>1, <2>2 DEF LoadInv, LeftToLoad
  <2>4. /\ 1 \in DOMAIN left /\ Head(left) = left[1]
        /\ \A E : D \subseteq E => LeftToLoad(Tail(left), E, paths)
    BY <2>3, NamesAfterOne
  <2>5. 1 \in DOMAIN io.left /\ named = io.left[1]
    BY <2>1, <2>2, <2>4
  <2>6. HoldsNumbers(c) /\ Len(c.flat) \in Sizes
    BY <1>1, <2>1, <2>5, AcceptedTensor DEF SessionInv
  <2>7. /\ ModelInv' /\ DOMAIN heap \subseteq DOMAIN heap'
        /\ \A t \in DOMAIN heap : heap'[t] = heap[t]
    BY <2>1, <2>6, LoadedModel DEF SessionInv
  <2>8. /\ DOMAIN io' = DOMAIN Idle /\ io'.call = "load" /\ io'.left = Tail(io.left)
        /\ io'.header = io.header /\ io'.blob = io.blob
    BY <1>1, <2>1 DEF Idle
  <2>9. LeftToLoad(io'.left, DOMAIN heap', paths)
    BY <2>7, <2>8, <2>2, <2>4
  <2>10. PathsOf(io.header)' = paths
    BY <2>8, <2>2 DEF PathsOf
  <2>11. LoadInv'
    BY <1>1, <2>8, <2>9, <2>10 DEF LoadInv, LeftToLoad
  <2>12. FileInv'
    BY <1>1, <2>8, <2>11 DEF FileInv, Idle
  <2> QED
    BY <2>7, <2>12
<1> QED
  BY <1>2, <1>3

LEMMA LoadParameterKeeps ==
  ASSUME SessionInv, LoadParameter, UNCHANGED <<loaderVars, sessionVars>>
  PROVE  SessionInv'
<1>1. /\ UNCHANGED <<plan, opt, sched, made, calls, loads, cache, grads, quantized>> /\ io.call = "load"
  BY DEF LoadParameter, sessionVars, optimVars
<1>2. /\ ModelInv' /\ FileInv' /\ DOMAIN heap \subseteq DOMAIN heap'
      /\ \A t \in DOMAIN heap : heap'[t] = heap[t]
  BY LoadedOne
<1>3. made < loads /\ made \in Nat /\ loads \in Nat
  BY <1>1 DEF SessionInv, LearningInv
<1>4. IsOptimizer(opt', heap')
  <2>1. IsOptimizer(opt, heap)
    BY DEF SessionInv, LearningInv
  <2>2. opt.params \in Seq(DOMAIN heap) /\ \A i \in DOMAIN opt.params : opt.params[i] \in DOMAIN heap
    BY <2>1, SequenceOfAnything DEF IsOptimizer
  <2>3. opt.params \in Seq(DOMAIN heap')
    BY <1>2, <2>2, SeqMonotonic
  <2>4. \A i \in DOMAIN opt.params : heap'[opt.params[i]] = heap[opt.params[i]]
    BY <1>2, <2>2
  <2> QED
    BY <1>1, <2>1, <2>3, <2>4 DEF IsOptimizer
<1>5. LearningInv' /\ RateInv'
  BY <1>1, <1>3, <1>4
     DEF SessionInv, LearningInv, LearningReachesTheModel, RateInv
<1>6. GradsInv'
  BY <1>1, <1>2 DEF SessionInv, GradsInv
<1>7. ASSUME NEW shape \in DOMAIN cache', cache'[shape] # Untraced PROVE TraceInv(cache[shape])'
  BY <1>1, <1>3, <1>7 DEF SessionInv, TracesInv, TraceInv
<1> QED
  BY <1>1, <1>2, <1>5, <1>6, <1>7, LoaderIsLeft DEF SessionInv, TracesInv, QuantizedIsClose

LEMMA RebootKeeps ==
  ASSUME SessionInv, Reboot
  PROVE  SessionInv'
<1>1. PICK a \in Architectures : attrs' = a.attrs /\ heap' = a.heap
  BY DEF Reboot, Restart
<1>2. ModelInv'
  BY <1>1, ModelsAreModels DEF ModelInv
<1>3. /\ plan' = plan /\ disk' = disk /\ io' = Idle /\ made' = 0 /\ calls' = 0 /\ loads' = 0
      /\ grads' = [t \in DOMAIN heap' |-> << >>] /\ quantized' = << >>
      /\ \A shape \in DOMAIN cache' : cache'[shape] = Untraced
  BY DEF Reboot, Restart
<1>4. /\ opt' = MakeOptimizer(plan'.optimizer, Parameters', heap')
      /\ sched' = MakeScheduler(plan'.schedule, plan'.optimizer.lr)
  BY <1>3 DEF Reboot, Optimizing
<1>5. JustMade'
  BY <1>2, <1>3, <1>4 DEF JustMade, SessionInv, Idle
<1>6. LoaderInv'
  <2>1. LoaderInit'
    BY DEF LoaderInit, Reboot, SessionInv, LoaderInv, LoaderTypeOK, Unshuffled, Samples
  <2> QED
    BY <2>1, LoaderInitHolds, PTL
<1>7. JustBegun'
  BY <1>3, <1>5, <1>6 DEF JustBegun, SessionInv, FileInv
<1> QED
  BY <1>7, BegunSession, PTL

LEMMA NothingHappens ==
  ASSUME SessionInv, UNCHANGED vars
  PROVE  SessionInv'
BY FileIsLeft, LoaderIsLeft, ModelIsLeft
   DEF vars, checkpointVars, sessionVars, optimVars, SessionInv, QuantizedIsClose

LEMMA SessionInvHolds == Spec => []SessionInv
<1>1. SessionInv /\ [Next]_vars => SessionInv'
  <2> SUFFICES ASSUME SessionInv, [Next]_vars PROVE SessionInv'
    OBVIOUS
  <2>1. CASE TrainingLoop
    BY <2>1, TrainOnBatchKeeps, IteratingKeeps DEF TrainingLoop
  <2>2. ASSUME NEW shape \in Shapes, CallJit(shape) PROVE SessionInv'
    BY <2>2, CallJitKeeps
  <2>3. ASSUME NEW mode \in BOOLEAN, SetMode(mode) PROVE SessionInv'
    BY <2>3, SetModeKeeps
  <2>4. CASE MakeOptimizerAgain
    BY <2>4, MakeOptimizerAgainKeeps
  <2>5. CASE Quantize
    BY <2>5, QuantizeKeeps
  <2>6. CASE LookAtData
    BY <2>6, IteratingKeeps
  <2>7. CASE Save
    BY <2>7, SaveKeeps
  <2>8. CASE Load
    BY <2>8, LoadKeeps
  <2>9. CASE GoOn
    BY <2>9, WriteKeeps, LoadParameterKeeps DEF GoOn
  <2>10. CASE Reboot
    BY <2>10, RebootKeeps
  <2>11. CASE UNCHANGED vars
    BY <2>11, NothingHappens
  <2> QED
    BY <2>1, <2>2, <2>3, <2>4, <2>5, <2>6, <2>7, <2>8, <2>9, <2>10, <2>11 DEF Next
<1> QED
  BY <1>1, SessionInitHolds, PTL DEF Spec

(***************************************************************************)
(* What an optimizer remembers of every parameter is what the gradients it *)
(* was given for it come to.                                               *)
(***************************************************************************)
HistoryInv ==
  /\ DOMAIN given = DOMAIN opt.params
  /\ opt.kind # "sgd" => opt.t = calls
  /\ opt.momentum = plan.optimizer.momentum
  /\ \A i \in DOMAIN given : Learned(opt, i, given[i], calls)

LEMMA HistoryBegins ==
  JustMade /\ given = [i \in DOMAIN Parameters |-> << >>] => HistoryInv
<1> SUFFICES ASSUME JustMade, given = [i \in DOMAIN Parameters |-> << >>] PROVE HistoryInv
  OBVIOUS
<1> USE DEF JustMade
<1>1. /\ IsHeap(heap) /\ Parameters \in Seq(DOMAIN heap)
      /\ \A i \in DOMAIN Parameters : Parameters[i] \in DOMAIN heap
  BY ParametersAreTensors, NamesAreTensors DEF ModelInv, IsModelOf
<1>2. IsOptimizer(opt, heap) /\ opt.params = Parameters
  BY <1>1, MadeOptimizer
<1>3. opt.t = 0 /\ opt.momentum = plan.optimizer.momentum
  BY DEF MakeOptimizer
<1>4. ASSUME NEW i \in DOMAIN Parameters PROVE Learned(opt, i, << >>, 0)
  <2>1. PICK x \in Seq(Numbers), n \in Nat : x = heap[Parameters[i]].flat /\ n = Len(x)
    BY <1>1 DEF IsHeap, HoldsNumbers
  <2>2. opt.m[i] = Zeros(x) /\ opt.v[i] = Zeros(x) /\ opt.buf[i] = << >>
    BY <2>1 DEF MakeOptimizer
  <2>3. opt.m[i] \in Row(n)
    BY <1>2, <2>1 DEF IsOptimizer, Remembers
  <2> QED
    BY <2>1, <2>2, <2>3, LearnedNothing
<1> QED
  BY <1>2, <1>3, <1>4 DEF HistoryInv

LEMMA HistoryIsLeft ==
  ASSUME HistoryInv, UNCHANGED <<plan, opt, given, calls>>
  PROVE  HistoryInv'
BY DEF HistoryInv

(* An optimizer that differs in the rate alone remembers the same.         *)
LEMMA SameMemories ==
  ASSUME NEW rule, NEW o, NEW r, NEW n, NEW i, NEW g, MemoryAfter(rule, o, r, i, g),
         n.buf = r.buf, n.m = r.m, n.v = r.v
  PROVE  MemoryAfter(rule, o, n, i, g)
BY DEF MemoryAfter, SameMemory, NewMemory

(* The i-th parameter's history goes on with the gradient g, or none.      *)
LEMMA HistoryGoesOn ==
  ASSUME NEW o, NEW r, NEW i, NEW g, NEW gs, NEW n \in Nat, NEW k \in Nat, Learned(o, i, gs, k),
         MemoryAfter(RuleOf(o.kind), o, r, i, g), NoneOrRow(g, n),
         o.m[i] \in Row(n), r.m[i] \in Row(n),
         o.momentum \in Int, o.beta1 \in Int, o.beta2 \in Int,
         r.momentum = o.momentum, r.beta1 = o.beta1, r.beta2 = o.beta2, r.kind = o.kind
  PROVE  Learned(r, i, IF g = << >> THEN gs ELSE Append(gs, g), k + 1)
<1>1. CASE g = << >>
  <2>1. SameMemory(o, r, i)
    BY <1>1 DEF MemoryAfter
  <2>2. Learned(r, i, gs, k + 1)
    BY <2>1, LearnedAsBefore
  <2> QED
    BY <1>1, <2>2
<1>2. CASE g # << >>
  <2>1. NewMemory(RuleOf(o.kind), o, r, i, g) /\ g \in Row(n)
    BY <1>2 DEF MemoryAfter, NoneOrRow
  <2>2. Learned(r, i, Append(gs, g), k + 1)
    BY <1>2, <2>1, LearnedMore
  <2> QED
    BY <1>2, <2>2
<1> QED
  BY <1>1, <1>2

LEMMA TrainingIsHistory ==
  ASSUME SessionInv, HistoryInv, TrainOnBatch
  PROVE  HistoryInv'
<1>1. PICK s, r, grad, next : /\ LearnsFrom(s, r, grad) /\ next = SchedulerStep(sched, r.opt.lr)
                              /\ BecomesOf(r, next, grad)
  BY TrainedOn
<1>2. /\ s.opt = opt /\ s.heap = heap /\ IsState(s) /\ IsState(r)
      /\ SettingsOf(r.opt) = SettingsOf(opt) /\ SameTensors(heap, r.heap)
      /\ r.opt.t = IF opt.kind = "sgd" THEN opt.t ELSE opt.t + 1
      /\ \A i \in DOMAIN opt.params :
           MemoryAfter(RuleOf(opt.kind), opt, r.opt, i, grad[opt.params[i]])
  BY <1>1 DEF LearnsFrom, Stepped, Kept
<1>3. /\ r.opt.kind = opt.kind /\ r.opt.params = opt.params /\ r.opt.lr = opt.lr
      /\ r.opt.momentum = opt.momentum /\ r.opt.beta1 = opt.beta1 /\ r.opt.beta2 = opt.beta2
  BY <1>2 DEF SettingsOf
<1>4. next.lr \in Int
  BY <1>1, <1>3, SchedulerStepIs DEF SessionInv, RateInv
<1>5. /\ IsOptimizer(opt', heap') /\ opt'.params = opt.params /\ opt'.kind = opt.kind
      /\ opt'.momentum = opt.momentum /\ opt'.beta1 = opt.beta1 /\ opt'.beta2 = opt.beta2
      /\ opt'.t = r.opt.t /\ opt'.buf = r.opt.buf /\ opt'.m = r.opt.m /\ opt'.v = r.opt.v
  BY <1>1, <1>2, <1>3, <1>4, AnotherRate DEF IsState, BecomesOf
<1>6. plan' = plan /\ calls' = calls + 1 /\ calls \in Nat
  BY DEF TrainOnBatch, SessionInv, RateInv
<1>7. \A i \in DOMAIN opt.params : MemoryAfter(RuleOf(opt.kind), opt, opt', i, grad[opt.params[i]])
  BY <1>2, <1>5, SameMemories
<1>8. DOMAIN given' = DOMAIN given /\ DOMAIN given = DOMAIN opt.params
  BY <1>1 DEF BecomesOf, HistoryInv
<1>9. ASSUME NEW i \in DOMAIN opt.params PROVE Learned(opt', i, given'[i], calls')
  <2>1. opt.params[i] \in DOMAIN heap /\ NoneOrRow(grad[opt.params[i]], Len(heap[opt.params[i]].flat))
    BY <1>1, <1>2, StateFacts DEF LearnsFrom
  <2>2. PICK n : n = Len(heap[opt.params[i]].flat)
    OBVIOUS
  <2>3. n \in Nat /\ opt.m[i] \in Row(n)
    BY <1>2, <2>2, StateFacts DEF SizeOf, Remembers
  <2>4. opt'.m[i] \in Row(n)
    <3>1. heap' = r.heap /\ Len(heap'[opt.params[i]].flat) = n
      BY <1>1, <1>2, <2>1, <2>2 DEF SameTensors, BecomesOf
    <3> QED
      BY <1>5, <3>1 DEF IsOptimizer, Remembers
  <2>5. PICK g, gs : g = grad[opt.params[i]] /\ gs = given[i]
    OBVIOUS
  <2>6. given'[i] = IF g = << >> THEN gs ELSE Append(gs, g)
    BY <1>1, <1>8, <2>5 DEF BecomesOf
  <2>7. Learned(opt, i, gs, calls) /\ MemoryAfter(RuleOf(opt.kind), opt, opt', i, g) /\ NoneOrRow(g, n)
    BY <1>7, <1>8, <2>1, <2>2, <2>5 DEF HistoryInv
  <2>8. opt.momentum \in Int /\ opt.beta1 \in Int /\ opt.beta2 \in Int
    BY <1>2 DEF IsState, IsOptimizer
  <2>9. Learned(opt', i, IF g = << >> THEN gs ELSE Append(gs, g), calls + 1)
    BY <1>5, <1>6, <2>3, <2>4, <2>7, <2>8, HistoryGoesOn
  <2> QED
    BY <1>6, <2>6, <2>9
<1> QED
  BY <1>2, <1>5, <1>6, <1>8, <1>9 DEF HistoryInv

LEMMA HistoryInvHolds == Spec => []HistoryInv
<1>1. Init => HistoryInv
  <2> SUFFICES ASSUME Init PROVE HistoryInv
    OBVIOUS
  <2>1. ModelInv /\ plan \in Plans
    BY SessionInitHolds DEF SessionInv
  <2>2. JustMade
    BY <2>1 DEF Init, CheckpointInit, JustMade, Optimizing
  <2>3. given = [i \in DOMAIN Parameters |-> << >>]
    BY DEF Init, Optimizing
  <2> QED
    BY <2>2, <2>3, HistoryBegins
<1>2. SessionInv /\ SessionInv' /\ HistoryInv /\ [Next]_vars => HistoryInv'
  <2> SUFFICES ASSUME SessionInv, SessionInv', HistoryInv, [Next]_vars PROVE HistoryInv'
    OBVIOUS
  <2>1. CASE TrainOnBatch
    BY <2>1, TrainingIsHistory
  <2>2. CASE MakeOptimizerAgain
    <3>1. /\ UNCHANGED <<plan, attrs, heap, io, loads>> /\ io = Idle /\ made' = loads /\ calls' = 0
      BY <2>2 DEF MakeOptimizerAgain, checkpointVars
    <3>2. Parameters' = Parameters
      BY <3>1, SameParameters
    <3>3. /\ opt' = MakeOptimizer(plan'.optimizer, Parameters', heap')
          /\ sched' = MakeScheduler(plan'.schedule, plan'.optimizer.lr)
          /\ given' = [i \in DOMAIN Parameters' |-> << >>]
      BY <2>2, <3>1, <3>2 DEF MakeOptimizerAgain, Optimizing
    <3>4. (JustMade /\ given = [i \in DOMAIN Parameters |-> << >>])'
      BY <3>1, <3>3 DEF JustMade, SessionInv, LearningInv, Idle
    <3> QED
      BY <3>4, HistoryBegins, PTL
  <2>3. CASE Reboot
    <3>1. /\ plan' = plan /\ io' = Idle /\ made' = 0 /\ calls' = 0 /\ loads' = 0
          /\ opt' = MakeOptimizer(plan.optimizer, Parameters', heap')
          /\ sched' = MakeScheduler(plan.schedule, plan.optimizer.lr)
          /\ given' = [i \in DOMAIN Parameters' |-> << >>]
      BY <2>3 DEF Reboot, Restart, Optimizing
    <3>2. (JustMade /\ given = [i \in DOMAIN Parameters |-> << >>])'
      BY <3>1 DEF JustMade, SessionInv, Idle
    <3> QED
      BY <3>2, HistoryBegins, PTL
  <2>4. CASE UNCHANGED <<plan, opt, given, calls>>
    BY <2>4, HistoryIsLeft
  <2>5. TrainOnBatch \/ MakeOptimizerAgain \/ Reboot \/ UNCHANGED <<plan, opt, given, calls>>
    BY DEF Next, TrainingLoop, EndEpoch, BeginEpoch, Break, CallJit, SetMode, Quantize, LookAtData,
           Save, Load, GoOn, vars, sessionVars, optimVars
  <2> QED
    BY <2>1, <2>2, <2>3, <2>4, <2>5
<1> QED
  BY <1>1, <1>2, SessionInvHolds, PTL DEF Spec

(***************************************************************************)
(* A file that is loaded is the file that was saved.  A header says where  *)
(* every entry begins among the floats; a shorter file has fewer of them.  *)
(***************************************************************************)
(* What two sequences begin with alike, they flatten alike.                *)
LEMMA FlatteningsAgree ==
  ASSUME NEW s, NEW n \in Nat, NEW f, Flattening(s, n, f),
         NEW t, NEW m \in Nat, NEW g, Flattening(t, m, g),
         m <= n, \A p \in 1..m : s[p] = t[p]
  PROVE  \A i \in 1..m : f[i] = g[i]
<1> DEFINE S == {i \in 0..m : i # 0 => f[i] = g[i]}
<1>1. 0 \in S
  OBVIOUS
<1>2. ASSUME NEW i \in 0..(m - 1), i \in S PROVE i + 1 \in S
  <2>1. PICK p \in 1..m : p = i + 1 /\ p \in 1..n /\ (p # 1 => i # 0 /\ p - 1 = i)
    OBVIOUS
  <2>2. /\ f[p] = IF p = 1 THEN s[p] ELSE f[p - 1] \o s[p]
        /\ g[p] = IF p = 1 THEN t[p] ELSE g[p - 1] \o t[p]
    BY <2>1 DEF Flattening
  <2>3. p # 1 => f[p - 1] = g[p - 1]
    BY <1>2, <2>1
  <2>4. f[p] = g[p]
    BY <2>2, <2>3
  <2> QED
    BY <2>1, <2>4
<1> HIDE DEF S
<1>3. \A i \in 0..m : i \in S
  BY <1>1, <1>2, BoundedInduction
<1> QED
  BY <1>3 DEF S

(* A sequence is the beginning of another.                                 *)
Begins(a, b) ==
  /\ IsSequence(a) /\ IsSequence(b) /\ Len(a) <= Len(b)
  /\ \A j \in 1..Len(a) : b[j] = a[j]

(* What is appended leaves the beginning.                                  *)
LEMMA JoinBegins ==
  ASSUME NEW a, NEW b, Begins(a, b), NEW c, IsSequence(c)
  PROVE  Begins(a, b \o c)
<1>1. /\ Len(a) \in Nat /\ Len(b) \in Nat /\ Len(c) \in Nat /\ Len(a) <= Len(b)
  BY SequenceIsAFunction DEF Begins
<1>2. /\ IsSequence(b \o c) /\ Len(b \o c) = Len(b) + Len(c)
      /\ \A i \in 1..(Len(b) + Len(c)) : (b \o c)[i] = IF i <= Len(b) THEN b[i] ELSE c[i - Len(b)]
  BY JoinOfAnything DEF Begins
<1>3. ASSUME NEW j \in 1..Len(a) PROVE (b \o c)[j] = a[j]
  <2>1. j \in 1..(Len(b) + Len(c)) /\ j <= Len(b)
    BY <1>1
  <2>2. b[j] = a[j]
    BY DEF Begins
  <2> QED
    BY <1>2, <2>1, <2>2
<1> QED
  BY <1>1, <1>2, <1>3 DEF Begins

(* Every part of a flattening begins the whole.                            *)
LEMMA FlatteningBegins ==
  ASSUME NEW s, NEW n \in Nat, NEW f, Flattening(s, n, f), \A p \in 1..n : IsSequence(s[p])
  PROVE  \A m \in 1..n : \A i \in 1..m : Begins(f[i], f[m])
<1> DEFINE S == {m \in 0..n : \A i \in 1..m : Begins(f[i], f[m])}
<1>1. 0 \in S
  OBVIOUS
<1>2. ASSUME NEW m \in 0..(n - 1), m \in S PROVE m + 1 \in S
  <2>1. PICK p \in 1..n : p = m + 1 /\ (p # 1 => m # 0 /\ m \in 1..m /\ p - 1 = m)
    OBVIOUS
  <2>2. f[p] = IF p = 1 THEN s[p] ELSE f[p - 1] \o s[p]
    BY <2>1 DEF Flattening
  <2>3. ASSUME p # 1 PROVE f[p] = f[m] \o s[p] /\ IsSequence(f[m])
    BY <1>2, <2>1, <2>2, <2>3 DEF Begins
  <2>4. IsSequence(f[p])
    BY <2>2, <2>3, JoinOfAnything, ZenonT(60)
  <2>5. Begins(f[p], f[p])
    BY <2>4, SequenceIsAFunction DEF Begins
  <2>6. ASSUME NEW i \in 1..m PROVE Begins(f[i], f[p])
    <3>1. p # 1
      BY <2>1
    <3>2. Begins(f[i], f[m])
      BY <1>2
    <3> QED
      BY <2>3, <3>1, <3>2, JoinBegins
  <2>7. \A i \in 1..p : i = p \/ i \in 1..m
    BY <2>1
  <2> QED
    BY <2>1, <2>5, <2>6, <2>7
<1> HIDE DEF S
<1>3. \A m \in 0..n : m \in S
  BY <1>1, <1>2, BoundedInduction
<1> QED
  BY <1>3 DEF S

(* The elements before the k-th.                                           *)
LEMMA FirstOfSequence ==
  ASSUME NEW c, IsSequence(c), NEW k \in 1..Len(c)
  PROVE  /\ IsSequence(SubSeq(c, 1, k - 1)) /\ Len(SubSeq(c, 1, k - 1)) = k - 1
         /\ \A i \in 1..(k - 1) : SubSeq(c, 1, k - 1)[i] = c[i]
<1>1. Len(c) \in Nat /\ DOMAIN c = 1..Len(c)
  BY SequenceIsAFunction
<1> DEFINE T == {c[j] : j \in DOMAIN c}
<1>2. \A i \in 1..(k - 1) : c[i] \in T
  BY <1>1
<1>3. k - 1 \in Nat
  BY <1>1
<1> HIDE DEF T
<1> DEFINE m == k - 1
<1> HIDE DEF m
<1>4. m \in Int /\ 1 \in Int /\ \A i \in 1..m : c[i] \in T
  BY <1>2, <1>3 DEF m
<1>5. /\ SubSeq(c, 1, m) \in Seq(T)
      /\ Len(SubSeq(c, 1, m)) = (IF 1 <= m THEN m - 1 + 1 ELSE 0)
      /\ \A i \in 1..(m - 1 + 1) : SubSeq(c, 1, m)[i] = c[1 + i - 1]
  BY <1>4, SubSeqProperties
<1>6. IsSequence(SubSeq(c, 1, m))
  BY <1>5, SequenceOfAnything
<1> QED
  BY <1>3, <1>5, <1>6 DEF m

(* b is in d, after the first offset of it.                                *)
SlicedFrom(d, offset, b) ==
  /\ IsSequence(d) /\ offset \in Nat /\ Len(b) \in Nat /\ offset + Len(b) <= Len(d)
  /\ \A j \in 1..Len(b) : d[offset + j] = b[j]

(* Where the floats of an entry are in the data.                           *)
LEMMA DataSlices ==
  ASSUME NEW c, IsSequence(c), \A k \in DOMAIN c : IsSequence(c[k].flat),
         NEW k \in DOMAIN c, NEW offset, offset = Len(Data(SubSeq(c, 1, k - 1)))
  PROVE  SlicedFrom(Data(c), offset, c[k].flat)
<1>1. PICK n \in Nat : n = Len(c) /\ DOMAIN c = 1..n /\ n # 0
  BY SequenceIsAFunction
<1> DEFINE s == [i \in 1..n |-> c[i].flat]
<1>2. Data(c) = FlattenSeq(s) /\ Len(s) = n
  <2>1. Data(c) = FlattenSeq(s)
    BY <1>1 DEF Data
  <2>2. s \in [1..n -> {s[i] : i \in 1..n}]
    OBVIOUS
  <2> QED
    BY <2>1, <2>2, SequenceByDomain
<1>3. \A p \in 1..n : s[p] = c[p].flat /\ IsSequence(s[p])
  BY <1>1
<1> HIDE DEF s
<1>4. PICK f : Flattening(s, n, f) /\ Data(c) = f[n]
  BY <1>1, <1>2, FlattenUnfolds
<1>5. \A m \in 1..n : \A i \in 1..m : Begins(f[i], f[m])
  BY <1>3, <1>4, FlatteningBegins
<1>6. Begins(f[k], f[n])
  BY <1>1, <1>5
<1>7. f[k] = IF k = 1 THEN s[k] ELSE f[k - 1] \o s[k]
  BY <1>1, <1>4 DEF Flattening
<1> DEFINE first == SubSeq(c, 1, k - 1)
<1>8. /\ IsSequence(first) /\ Len(first) = k - 1 /\ \A i \in 1..(k - 1) : first[i] = c[i]
  BY <1>1, FirstOfSequence
<1> HIDE DEF first
<1>9. CASE k = 1
  <2>1. first = << >> /\ DOMAIN first = {}
    BY <1>8, <1>9, NoElements, NothingIsASequence
  <2>2. [i \in DOMAIN first |-> first[i].flat] = << >>
    BY <2>1
  <2>3. Data(first) = << >>
    BY <2>2, NothingIsASequence DEF Data, FlattenSeq
  <2>4. offset = 0
    BY <2>3, NothingIsASequence DEF first
  <2>5. f[k] = c[k].flat
    BY <1>1, <1>3, <1>7, <1>9
  <2>6. PICK b, d : b = c[k].flat /\ d = Data(c) /\ Begins(b, d)
    BY <1>4, <1>6, <2>5
  <2>7. Len(b) \in Nat
    BY <2>6, SequenceIsAFunction DEF Begins
  <2>8. \A j \in 1..Len(b) : 0 + j = j
    OBVIOUS
  <2>9. \A j \in 1..Len(b) : d[0 + j] = b[j]
    BY <2>6, <2>8 DEF Begins
  <2>10. 0 + Len(b) <= Len(d) /\ IsSequence(d)
    BY <2>6, <2>7 DEF Begins
  <2>11. SlicedFrom(d, offset, b)
    BY <2>4, <2>7, <2>9, <2>10 DEF SlicedFrom
  <2> QED
    BY <2>6, <2>11
<1>10. CASE k # 1
  <2>1. PICK m \in 1..n : m = k - 1
    BY <1>1, <1>10
  <2> DEFINE t == [i \in 1..m |-> first[i].flat]
  <2>2. DOMAIN first = 1..m
    BY <1>8, <2>1, SequenceIsAFunction
  <2>3. Data(first) = FlattenSeq(t)
    BY <2>2 DEF Data
  <2>4. Len(t) = m
    <3>1. t \in [1..m -> {t[i] : i \in 1..m}]
      OBVIOUS
    <3> QED
      BY <3>1, SequenceByDomain
  <2>5. \A p \in 1..m : s[p] = t[p]
    <3> SUFFICES ASSUME NEW p \in 1..m PROVE s[p] = t[p]
      OBVIOUS
    <3>1. p \in 1..n /\ first[p] = c[p]
      BY <1>8, <2>1
    <3> QED
      BY <1>3, <3>1
  <2> HIDE DEF t
  <2>6. PICK g : Flattening(t, m, g) /\ Data(first) = g[m]
    BY <2>3, <2>4, FlattenUnfolds
  <2>7. f[m] = g[m]
    <3>1. m \in Nat /\ m <= n /\ m \in 1..m
      BY <2>1
    <3>2. \A i \in 1..m : f[i] = g[i]
      BY <1>4, <2>5, <2>6, <3>1, FlatteningsAgree
    <3> QED
      BY <3>1, <3>2
  <2>8. PICK a, b : /\ a = f[m] /\ b = c[k].flat /\ IsSequence(a) /\ IsSequence(b)
                    /\ f[k] = a \o b /\ offset = Len(a)
    <3>1. IsSequence(f[m])
      BY <1>5 DEF Begins
    <3>2. offset = Len(f[m])
      BY <2>6, <2>7 DEF first
    <3> QED
      BY <1>1, <1>3, <1>7, <1>10, <2>1, <3>1, <3>2
  <2>9. /\ Len(a \o b) = Len(a) + Len(b) /\ Len(a) \in Nat /\ Len(b) \in Nat
        /\ \A i \in 1..(Len(a) + Len(b)) : (a \o b)[i] = IF i <= Len(a) THEN a[i] ELSE b[i - Len(a)]
    <3>1. IsSequence(a) /\ IsSequence(b)
      BY <2>8
    <3>2. Len(a) \in Nat /\ Len(b) \in Nat
      BY <3>1, SequenceIsAFunction
    <3> QED
      BY <3>1, <3>2, JoinOfAnything
  <2>10. ASSUME NEW j \in 1..Len(b) PROVE f[n][Len(a) + j] = b[j]
    <3>1. PICK i \in 1..(Len(a) + Len(b)) : i = Len(a) + j /\ ~ (i <= Len(a)) /\ i - Len(a) = j
      BY <2>9
    <3>2. f[k][i] = b[j]
      BY <2>8, <2>9, <3>1
    <3>3. f[n][i] = f[k][i]
      BY <1>6, <2>8, <2>9, <3>1 DEF Begins
    <3> QED
      BY <3>1, <3>2, <3>3
  <2>11. Len(a) + Len(b) <= Len(f[n]) /\ IsSequence(f[n])
    BY <1>6, <2>8, <2>9 DEF Begins
  <2> QED
    BY <1>4, <2>8, <2>9, <2>10, <2>11 DEF SlicedFrom
<1> QED
  BY <1>9, <1>10

(***************************************************************************)
(* What a file, whole or in part, has to do with the last save(), and the  *)
(* module with the file while it is loaded.                                *)
(***************************************************************************)
(* What a parameter is in a file.                                          *)
Entry(path, c) == [path |-> path, shape |-> c.shape, flat |-> c.flat]

(* What save() gathered: every path once.                                  *)
IsGathered(c) ==
  /\ IsSequence(c)
  /\ \A k \in DOMAIN c : c[k] = Entry(c[k].path, c[k]) /\ c[k].flat \in Seq(Numbers)
  /\ \A j, k \in DOMAIN c : c[j].path = c[k].path => j = k

(* The file is what has been written by now of the last save().            *)
FileIsWritten ==
  LET image == Image(attempted)
  IN  /\ IsSequence(disk) /\ Len(disk) <= Len(image)
      /\ \A k \in DOMAIN disk : disk[k] = image[k]
      /\ io.call = "save" =>
           /\ IsSequence(io.left) /\ Len(disk) + Len(io.left) = Len(image)
           /\ \A k \in DOMAIN io.left : io.left[k] = image[Len(disk) + k]

(* The first m parameters are of the file, the others as they were.        *)
LoadedTo(m) ==
  /\ DOMAIN before = DOMAIN Contents
  /\ \A k \in DOMAIN before :
       /\ Contents[k].shape = before[k].shape
       /\ IF k <= m THEN Contents[k] \in Range(attempted) ELSE Contents[k] = before[k]

(* What load() has read is of the last save(), and so are the parameters it *)
(* has set by now.                                                         *)
Loading ==
  /\ said = "nothing" /\ Len(disk) >= 3 /\ io.header = Header(attempted)
  /\ io.blob = [k \in 1..(Len(disk) - 3) |-> disk[k + 3][2]]
  /\ PathsOf(attempted) = PathsOf(NamedParameters)
  /\ IsSequence(io.left) /\ Len(io.left) <= Len(NamedParameters)
  /\ LET m == Len(NamedParameters) - Len(io.left)
     IN  /\ \A k \in DOMAIN io.left : io.left[k].path = NamedParameters[m + k].path
                                       /\ io.left[k].tensor = NamedParameters[m + k].tensor
         /\ LoadedTo(m)

(* What is loaded is what was saved.                                       *)
FilesInv ==
  /\ Untied(attrs, heap) /\ IsGathered(attempted) /\ FileIsWritten /\ IsSequence(before)
  /\ io.call = "load" => Loading
  /\ LoadedIsSaved
  /\ said = "refused" => \E m \in 0..Len(before) : LoadedTo(m)

(* Sequences of the same elements are the same.                            *)
LEMMA SequencesAgree ==
  ASSUME NEW a, IsSequence(a), NEW b, IsSequence(b), Len(a) = Len(b), \A i \in 1..Len(a) : a[i] = b[i]
  PROVE  a = b
<1>1. DOMAIN a = 1..Len(a) /\ a = [i \in 1..Len(a) |-> a[i]]
  BY SequenceIsAFunction
<1>2. DOMAIN b = 1..Len(b) /\ b = [i \in 1..Len(b) |-> b[i]]
  BY SequenceIsAFunction
<1> QED
  BY <1>1, <1>2

(* A slice, of elements of any kind.                                       *)
LEMMA SliceOfAnything ==
  ASSUME NEW x, IsSequence(x), NEW m \in Int, NEW n \in Int, 1 <= m, n <= Len(x)
  PROVE  /\ IsSequence(SubSeq(x, m, n))
         /\ Len(SubSeq(x, m, n)) = (IF m <= n THEN n - m + 1 ELSE 0)
         /\ \A i \in 1..(n - m + 1) : SubSeq(x, m, n)[i] = x[m + i - 1]
<1> DEFINE T == {x[j] : j \in DOMAIN x}
<1>1. Len(x) \in Nat /\ DOMAIN x = 1..Len(x)
  BY SequenceIsAFunction
<1>2. \A i \in m..n : x[i] \in T
  BY <1>1
<1> HIDE DEF T
<1>3. /\ SubSeq(x, m, n) \in Seq(T)
      /\ Len(SubSeq(x, m, n)) = (IF m <= n THEN n - m + 1 ELSE 0)
      /\ \A i \in 1..(n - m + 1) : SubSeq(x, m, n)[i] = x[m + i - 1]
  BY <1>2, SubSeqProperties
<1> QED
  BY <1>3, SequenceOfAnything

(* The units of a file.                                                    *)
LEMMA ImageIs ==
  ASSUME NEW c, IsSequence(Data(c))
  PROVE  /\ IsSequence(Image(c)) /\ Len(Data(c)) \in Nat /\ Len(Image(c)) = 3 + Len(Data(c))
         /\ Image(c)[3][2] = Header(c)
         /\ \A j \in 1..Len(Data(c)) : Image(c)[j + 3][2] = Data(c)[j]
<1>1. PICK d, h : d = Data(c) /\ h = Header(c)
  OBVIOUS
<1>2. PICK n \in Nat : n = Len(d) /\ DOMAIN d = 1..n
  BY <1>1, SequenceIsAFunction
<1> DEFINE floats == [k \in DOMAIN d |-> <<"float", d[k]>>]
<1> DEFINE head == << <<"magic">>, <<"length">>, <<"header", h>> >>
<1>3. Image(c) = head \o floats
  BY <1>1 DEF Image
<1>4. DOMAIN floats = 1..n /\ floats \in [1..n -> {floats[k] : k \in 1..n}]
      /\ \A k \in 1..n : floats[k][2] = d[k]
  BY <1>2
<1>5. IsSequence(head) /\ Len(head) = 3 /\ head[3][2] = h
  <2>1. head \in Seq({head[1], head[2], head[3]})
    OBVIOUS
  <2>2. Len(head) = 3 /\ head[3][2] = h
    OBVIOUS
  <2> HIDE DEF head
  <2> QED
    BY <2>1, <2>2, SequenceOfAnything
<1> HIDE DEF floats, head
<1>6. IsSequence(floats) /\ Len(floats) = n
  BY <1>4, SequenceByDomain
<1>7. PICK a, b : /\ a = head /\ b = floats
                  /\ IsSequence(a) /\ IsSequence(b) /\ Len(a) = 3 /\ Len(b) = n
  BY <1>5, <1>6
<1>8. /\ IsSequence(a \o b) /\ Len(a \o b) = 3 + n
      /\ \A i \in 1..(3 + n) : (a \o b)[i] = IF i <= 3 THEN a[i] ELSE b[i - 3]
  <2>1. /\ IsSequence(a \o b) /\ Len(a \o b) = Len(a) + Len(b)
        /\ \A i \in 1..(Len(a) + Len(b)) : (a \o b)[i] = IF i <= Len(a) THEN a[i] ELSE b[i - Len(a)]
    BY <1>7, JoinOfAnything
  <2> QED
    BY <1>7, <2>1
<1>9. (a \o b)[3][2] = h
  BY <1>5, <1>7, <1>8
<1>10. ASSUME NEW j \in 1..n PROVE (a \o b)[j + 3][2] = d[j]
  <2>1. PICK i \in 1..(3 + n) : i = j + 3 /\ ~ (i <= 3) /\ i - 3 = j
    OBVIOUS
  <2>2. (a \o b)[i] = b[j]
    BY <1>8, <2>1
  <2> QED
    BY <1>4, <1>7, <2>1, <2>2
<1> QED
  BY <1>1, <1>2, <1>3, <1>7, <1>8, <1>9, <1>10

(* The floats of a file.                                                   *)
LEMMA GatheredData ==
  ASSUME NEW c, IsGathered(c)
  PROVE  /\ IsSequence(Data(c)) /\ IsSequence(c)
         /\ \A k \in DOMAIN c : IsSequence(c[k].flat) /\ Len(c[k].flat) \in Nat
<1>1. IsSequence(c) /\ \A k \in DOMAIN c : c[k].flat \in Seq(Numbers)
  BY DEF IsGathered
<1>2. Data(c) \in Seq(Numbers)
  BY <1>1, DataIsNumbers
<1> QED
  BY <1>1, <1>2, SequenceOfAnything, SequenceIsAFunction

(* What is read of the file where the header says that an entry is: all of *)
(* it, or less than the header says.                                       *)
LEMMA ReadsTheEntry ==
  ASSUME NEW c, IsGathered(c), NEW k \in DOMAIN c, NEW meta, meta = Header(c)[k],
         IsSequence(io.blob), Begins(io.blob, Data(c)), Len(Raw(meta)) = meta.size
  PROVE  Raw(meta) = c[k].flat
<1>1. PICK x, d, b, offset, size :
        /\ x = io.blob /\ d = Data(c) /\ b = c[k].flat /\ offset = Len(Data(SubSeq(c, 1, k - 1)))
        /\ size = Len(b)
  OBVIOUS
<1>2. meta.offset = offset /\ meta.size = size
  BY <1>1 DEF Header
<1>3. /\ offset \in Nat /\ size \in Nat /\ offset + size <= Len(d)
      /\ \A j \in 1..size : d[offset + j] = b[j]
  <2>1. IsSequence(c) /\ \A i \in DOMAIN c : IsSequence(c[i].flat)
    BY GatheredData
  <2>2. offset = Len(Data(SubSeq(c, 1, k - 1)))
    BY <1>1
  <2>3. SlicedFrom(Data(c), offset, c[k].flat)
    BY <2>1, <2>2, DataSlices
  <2> QED
    BY <1>1, <2>3 DEF SlicedFrom
<1>4. /\ IsSequence(x) /\ Len(x) \in Nat /\ Len(x) <= Len(d) /\ \A j \in 1..Len(x) : x[j] = d[j]
  BY <1>1, SequenceIsAFunction DEF Begins
<1>5. IsSequence(b) /\ Len(b) = size
  BY <1>1, GatheredData
<1>6. CASE offset + size <= Len(x)
  <2>1. PICK r : r = SubSeq(x, offset + 1, offset + size) /\ r = Raw(meta)
    BY <1>1, <1>2, <1>6 DEF Raw
  <2>2. PICK m, n : m = offset + 1 /\ n = offset + size /\ m \in Int /\ n \in Int /\ 1 <= m /\ n <= Len(x)
    BY <1>3, <1>6
  <2>3. /\ IsSequence(r) /\ Len(r) = (IF m <= n THEN n - m + 1 ELSE 0)
        /\ \A i \in 1..(n - m + 1) : r[i] = x[m + i - 1]
    BY <1>4, <2>1, <2>2, SliceOfAnything
  <2>4. Len(r) = size /\ n - m + 1 = size
    BY <1>3, <2>2, <2>3
  <2>5. ASSUME NEW i \in 1..size PROVE r[i] = b[i]
    <3>1. PICK p \in 1..Len(x) : p = offset + i /\ p = m + i - 1
      <4>1. offset + i = m + i - 1
        BY <1>3, <2>2
      <4>2. offset + i \in 1..Len(x)
        BY <1>3, <1>4, <1>6
      <4> QED
        BY <4>1, <4>2
    <3> QED
      BY <1>3, <1>4, <2>3, <2>4, <3>1
  <2>6. r = b
    BY <1>5, <2>3, <2>4, <2>5, SequencesAgree
  <2> QED
    BY <1>1, <2>1, <2>6
<1>7. CASE ~ (offset + size <= Len(x))
  <2>1. PICK r : r = SubSeq(x, offset + 1, Len(x)) /\ r = Raw(meta)
    BY <1>1, <1>2, <1>7 DEF Raw
  <2>2. PICK m, n : m = offset + 1 /\ n = Len(x) /\ m \in Int /\ n \in Int /\ 1 <= m /\ n <= Len(x)
    BY <1>3, <1>4
  <2>3. /\ IsSequence(r) /\ Len(r) = (IF m <= n THEN n - m + 1 ELSE 0)
    BY <1>4, <2>1, <2>2, SliceOfAnything
  <2>4. Len(r) = size
    BY <1>2, <2>1
  <2>5. size = 0
    BY <1>3, <1>4, <1>7, <2>2, <2>3, <2>4
  <2>6. r = << >> /\ b = << >>
    BY <1>5, <2>3, <2>4, <2>5, NoElements
  <2> QED
    BY <1>1, <2>1, <2>6
<1> QED
  BY <1>6, <1>7

(***************************************************************************)
(* Names and the places they lead to                                       *)
(***************************************************************************)
(* An index in a path.                                                     *)
Told(i) == ToString(i)

(* Where a path begins, and where indexing leads.                          *)
Item(o) == Attribute("", "module", <<o>>)

LEMMA ItemIs ==
  ASSUME NEW o
  PROVE  DOMAIN Item(o) = {"key", "kind", "refs"} /\ Item(o).kind = "module" /\ Item(o).refs = <<o>>
BY Zenon DEF Item, Attribute

(* Where getattr and indexing go from what a path has led to.              *)
Below(objects, a, part) ==
  IF a.kind = "list"
  THEN LET i == CHOOSE n \in DOMAIN a.refs : Told(n - 1) = part
       IN  Item(a.refs[i])
  ELSE objects[a.refs[1]][CHOOSE k \in DOMAIN objects[a.refs[1]] : objects[a.refs[1]][k].key = part]

(* f is where the first n parts of a path lead, one after the other.       *)
Going(objects, o, path, n, f) ==
  f = [k \in 0..n |-> IF k = 0 THEN Item(o) ELSE Below(objects, f[k - 1], path[k])]

(* The object that all parts but the last lead to.                         *)
Leads(objects, o, path, q) ==
  \A f : Going(objects, o, path, Len(path) - 1, f) => f[Len(path) - 1].refs[1] = q

(* Every path leads somewhere.                                             *)
LEMMA GoingExists ==
  ASSUME NEW objects, NEW o, NEW path, NEW n \in Nat
  PROVE  \E f : Going(objects, o, path, n, f)
<1> DEFINE S == {m \in Nat : \E f : Going(objects, o, path, m, f)}
<1>1. 0 \in S
  <2> DEFINE f == [k \in 0..0 |-> Item(o)]
  <2>1. Going(objects, o, path, 0, f)
    BY DEF Going
  <2> HIDE DEF f
  <2> QED
    BY <2>1
<1>2. ASSUME NEW m \in Nat, m \in S PROVE m + 1 \in S
  <2>1. PICK f : Going(objects, o, path, m, f)
    BY <1>2
  <2> DEFINE g == [k \in 0..(m + 1) |-> IF k = m + 1 THEN Below(objects, f[m], path[k]) ELSE f[k]]
  <2>2. ASSUME NEW k \in 0..(m + 1)
        PROVE  g[k] = IF k = 0 THEN Item(o) ELSE Below(objects, g[k - 1], path[k])
    <3>1. CASE k = m + 1
      <4>1. k # 0 /\ k - 1 = m /\ m \in 0..(m + 1) /\ m # m + 1
        BY <3>1
      <4>2. g[k - 1] = f[m] /\ g[k] = Below(objects, f[m], path[k])
        BY <3>1, <4>1
      <4> HIDE DEF g
      <4> QED
        BY <4>1, <4>2
    <3>2. CASE k # m + 1
      <4>1. k \in 0..m /\ (k # 0 => k - 1 \in 0..m)
        BY <3>2
      <4>2. g[k] = f[k] /\ (k # 0 => g[k - 1] = f[k - 1])
        BY <3>2, <4>1
      <4>3. f[k] = IF k = 0 THEN Item(o) ELSE Below(objects, f[k - 1], path[k])
        BY <2>1, <4>1 DEF Going
      <4> HIDE DEF g
      <4> QED
        BY <4>1, <4>2, <4>3
    <3> QED
      BY <3>1, <3>2
  <2>3. Going(objects, o, path, m + 1, g)
    BY <2>2 DEF Going
  <2> HIDE DEF g
  <2> QED
    BY <2>3
<1> HIDE DEF S
<1>3. n \in S
  BY <1>1, <1>2, SetInduction
<1> QED
  BY <1>3 DEF S

(* That object is the one that OwnerIn chooses.                            *)
LEMMA LeadsToOwner ==
  ASSUME NEW objects, NEW path, IsSequence(path), Len(path) # 0, NEW q, Leads(objects, 1, path, q)
  PROVE  OwnerIn(objects, path) = q
<1> DEFINE at == CHOOSE f : Going(objects, 1, path, Len(path) - 1, f)
<1>1. OwnerIn(objects, path) = at[Len(path) - 1].refs[1]
  BY Zenon DEF OwnerIn, Going, Below, Item, Told
<1>2. Len(path) - 1 \in Nat
  BY SequenceIsAFunction
<1>3. \E f : Going(objects, 1, path, Len(path) - 1, f)
  BY <1>2, GoingExists
<1>4. Going(objects, 1, path, Len(path) - 1, at)
  BY <1>3
<1> QED
  BY <1>1, <1>4 DEF Leads

LEMMA AttributeIs ==
  ASSUME NEW x, NEW y, NEW z, NEW a, a = Attribute(x, y, z)
  PROVE  DOMAIN a = {"key", "kind", "refs"} /\ a.key = x /\ a.kind = y /\ a.refs = z
BY DEF Attribute

(* A path goes on from where its first parts lead.                         *)
LEMMA PathGoesOn ==
  ASSUME NEW objects, NEW o, NEW c, NEW path, NEW p, IsSequence(p), Len(p) # 0,
         NEW d \in Nat \ {0}, Len(path) = d + Len(p), \A j \in 1..Len(p) : path[d + j] = p[j],
         \A f : Going(objects, o, path, Len(path) - 1, f) => f[d].kind # "list" /\ f[d].refs[1] = c,
         NEW q, Leads(objects, c, p, q)
  PROVE  Leads(objects, o, path, q)
<1>1. SUFFICES ASSUME NEW f, Going(objects, o, path, Len(path) - 1, f)
               PROVE  f[Len(path) - 1].refs[1] = q
  BY DEF Leads
<1>2. PICK n \in Nat : n = Len(p) - 1 /\ d + n = Len(path) - 1
  <2>1. Len(p) \in Nat
    BY SequenceIsAFunction
  <2> QED
    BY <2>1, SMTT(60)
<1>3. PICK g : Going(objects, c, p, n, g)
  BY GoingExists
<1> DEFINE S == {j \in 0..n : f[d + j].refs[1] = g[j].refs[1] /\ (j # 0 => f[d + j] = g[j])}
<1>4. f[d].kind # "list" /\ f[d].refs[1] = c
  BY <1>1
<1>5. g[0].kind = "module" /\ g[0].refs[1] = c
  <2>1. g[0] = Item(c)
    <3>1. 0 \in 0..n
      OBVIOUS
    <3> QED
      BY <1>3, <3>1 DEF Going
  <2>2. g[0].kind = "module" /\ g[0].refs = <<c>>
    BY <2>1, ItemIs
  <2> QED
    BY <2>2
<1>6. 0 \in S
  BY <1>4, <1>5
<1>7. ASSUME NEW j \in 0..(n - 1), j \in S PROVE j + 1 \in S
  <2>1. PICK i \in 0..n, m \in 0..(d + n) :
          /\ i = j + 1 /\ i # 0 /\ i - 1 = j /\ i \in 1..Len(p)
          /\ m = d + i /\ m # 0 /\ m - 1 = d + j
    <3>1. d + (j + 1) \in 0..(d + n) /\ d + (j + 1) - 1 = d + j
      OBVIOUS
    <3> QED
      BY <1>2, <3>1
  <2>2. g[i] = Below(objects, g[j], p[i])
    BY <1>3, <2>1 DEF Going
  <2>3. f[m] = Below(objects, f[d + j], path[m])
    BY <1>1, <1>2, <2>1 DEF Going
  <2>4. path[m] = p[i]
    BY <2>1
  <2>5. Below(objects, f[d + j], p[i]) = Below(objects, g[j], p[i])
    <3>1. CASE j = 0
      <4>1. f[d + j].kind # "list" /\ g[j].kind # "list" /\ f[d + j].refs[1] = g[j].refs[1]
        BY <1>4, <1>5, <3>1
      <4> QED
        BY <4>1 DEF Below
    <3>2. CASE j # 0
      BY <1>7, <3>2
    <3> QED
      BY <3>1, <3>2
  <2>6. f[d + i] = g[i]
    BY <2>1, <2>2, <2>3, <2>4, <2>5
  <2> QED
    BY <2>1, <2>6
<1> HIDE DEF S
<1>8. \A j \in 0..n : j \in S
  BY <1>6, <1>7, BoundedInduction
<1>9. f[d + n].refs[1] = g[n].refs[1]
  BY <1>8 DEF S
<1>10. g[n].refs[1] = q
  BY <1>2, <1>3 DEF Leads
<1> QED
  BY <1>2, <1>9, <1>10

(* Two indices of a list have different names.                             *)
IndicesAreTold == \A i, j \in Nat : ToString(i) = ToString(j) => i = j

LEMMA ToldApart == IndicesAreTold => \A i, j \in Nat : Told(i) = Told(j) => i = j
BY Zenon DEF IndicesAreTold, Told

(* vars() has every key once.                                              *)
Keyed(objects) ==
  \A o \in DOMAIN objects : \A j, k \in DOMAIN objects[o] : objects[o][j].key = objects[o][k].key => j = k

(* Where getattr leads within an object.                                   *)
Replaced(objects, q, x, new) ==
  [o \in DOMAIN objects |->
     [k \in DOMAIN objects[o] |->
        IF o = q /\ objects[o][k].key = x THEN Attribute(x, "tensor", <<new>>) ELSE objects[o][k]]]

(* B is A with another tensor, one that is trained too, for one that was.  *)
Replacing(A, B, D, q, x, new, tr, ts) ==
  /\ TreeOver(A, D) /\ Keyed(A) /\ B = Replaced(A, q, x, new)
  /\ \A t \in D : ts[t] = tr[t]
  /\ q \in DOMAIN A =>
       /\ ts[new]
       /\ \E k \in DOMAIN A[q] : A[q][k].key = x /\ A[q][k].kind = "tensor" /\ tr[A[q][k].refs[1]]

(* A name that leads to its tensor, and the same name in the other tree.   *)
PairedAt(A, B, q, x, new, tr, o, e, y) ==
  /\ IsSequence(e.path) /\ Len(e.path) # 0 /\ y.path = e.path
  /\ DOMAIN e = {"path", "tensor"} /\ DOMAIN y = {"path", "tensor"}
  /\ \E r \in DOMAIN A :
       /\ Leads(A, o, e.path, r) /\ Leads(B, o, e.path, r)
       /\ \E k \in DOMAIN A[r] :
            /\ A[r][k].key = Last(e.path) /\ A[r][k].kind = "tensor"
            /\ A[r][k].refs[1] = e.tensor /\ tr[e.tensor]
       /\ y.tensor = IF r = q /\ Last(e.path) = x THEN new ELSE e.tensor

(* The names of two trees, one for one.                                    *)
Paired(A, B, q, x, new, tr, o, u, v) ==
  /\ IsSequence(u) /\ IsSequence(v) /\ Len(u) = Len(v)
  /\ \A k \in DOMAIN u : PairedAt(A, B, q, x, new, tr, o, u[k], v[k])

(* All that the parts lead to from o is c.                                 *)
Enters(objects, o, parts, c) ==
  \A path, f :
    /\ IsSequence(path) /\ Len(path) > Len(parts) /\ \A i \in 1..Len(parts) : path[i] = parts[i]
    /\ Going(objects, o, path, Len(path) - 1, f)
    => f[Len(parts)].kind # "list" /\ f[Len(parts)].refs[1] = c

(* Parts before a path lead to where the path begins.                      *)
LEMMA PrefixLeads ==
  ASSUME NEW objects, NEW o, NEW c, NEW parts, IsSequence(parts), Len(parts) # 0,
         Enters(objects, o, parts, c),
         NEW p, IsSequence(p), Len(p) # 0, NEW r, Leads(objects, c, p, r)
  PROVE  /\ Leads(objects, o, parts \o p, r) /\ IsSequence(parts \o p) /\ Len(parts \o p) # 0
         /\ Last(parts \o p) = Last(p)
<1>1. PICK d \in Nat \ {0}, m \in Nat \ {0} : d = Len(parts) /\ m = Len(p)
  BY SequenceIsAFunction
<1>2. PICK path : path = parts \o p
  OBVIOUS
<1>3. /\ IsSequence(path) /\ Len(path) = d + m
      /\ \A i \in 1..(d + m) : path[i] = IF i <= d THEN parts[i] ELSE p[i - d]
  BY <1>1, <1>2, JoinOfAnything
<1>4. ASSUME NEW j \in 1..m PROVE path[d + j] = p[j]
  <2>1. PICK i \in 1..(d + m) : i = d + j /\ ~ (i <= d) /\ i - d = j
    OBVIOUS
  <2> QED
    BY <1>3, <2>1
<1>5. Len(path) > Len(parts) /\ \A i \in 1..Len(parts) : path[i] = parts[i]
  <2> SUFFICES ASSUME NEW i \in 1..d PROVE path[i] = parts[i]
    BY <1>1, <1>3
  <2>1. i \in 1..(d + m) /\ i <= d
    OBVIOUS
  <2> QED
    BY <1>3, <2>1
<1>6. \A f : Going(objects, o, path, Len(path) - 1, f) => f[d].kind # "list" /\ f[d].refs[1] = c
  BY <1>1, <1>3, <1>5, Zenon DEF Enters
<1>7. Leads(objects, o, path, r)
  BY <1>1, <1>3, <1>4, <1>6, PathGoesOn
<1>8. Last(path) = Last(p)
  BY <1>1, <1>3, <1>4 DEF Last
<1> QED
  BY <1>2, <1>3, <1>7, <1>8

(* What an object names is named from above, in both trees.                *)
LEMMA PrefixPaired ==
  ASSUME NEW A, NEW B, NEW q, NEW x, NEW new, NEW tr, NEW o, NEW c, NEW u, NEW v,
         Paired(A, B, q, x, new, tr, c, u, v),
         NEW parts, IsSequence(parts), Len(parts) # 0, Enters(A, o, parts, c), Enters(B, o, parts, c)
  PROVE  Paired(A, B, q, x, new, tr, o, Prefixed(parts, u), Prefixed(parts, v))
<1>1. PICK n \in Nat : n = Len(u) /\ n = Len(v) /\ DOMAIN u = 1..n /\ DOMAIN v = 1..n
  BY SequenceIsAFunction DEF Paired
<1> DEFINE y == Prefixed(parts, u)
<1> DEFINE z == Prefixed(parts, v)
<1>2. /\ DOMAIN y = 1..n /\ y \in [1..n -> {y[k] : k \in 1..n}]
      /\ \A k \in 1..n : y[k] = [path |-> parts \o u[k].path, tensor |-> u[k].tensor]
  BY <1>1 DEF Prefixed
<1>3. /\ DOMAIN z = 1..n /\ z \in [1..n -> {z[k] : k \in 1..n}]
      /\ \A k \in 1..n : z[k] = [path |-> parts \o v[k].path, tensor |-> v[k].tensor]
  BY <1>1 DEF Prefixed
<1> HIDE DEF y, z
<1>4. IsSequence(y) /\ Len(y) = n /\ IsSequence(z) /\ Len(z) = n
  BY <1>2, <1>3, SequenceByDomain
<1>5. ASSUME NEW k \in 1..n PROVE PairedAt(A, B, q, x, new, tr, o, y[k], z[k])
  <2>1. PairedAt(A, B, q, x, new, tr, c, u[k], v[k])
    BY <1>1 DEF Paired
  <2>2. PICK p, t : p = u[k].path /\ t = u[k].tensor /\ v[k].path = p /\ IsSequence(p) /\ Len(p) # 0
    BY <2>1 DEF PairedAt
  <2>3. PICK r \in DOMAIN A :
          /\ Leads(A, c, p, r) /\ Leads(B, c, p, r)
          /\ \E i \in DOMAIN A[r] :
               A[r][i].key = Last(p) /\ A[r][i].kind = "tensor" /\ A[r][i].refs[1] = t /\ tr[t]
          /\ v[k].tensor = IF r = q /\ Last(p) = x THEN new ELSE t
    BY <2>1, <2>2 DEF PairedAt
  <2>4. PICK w : w = parts \o p
    OBVIOUS
  <2>5. /\ Leads(A, o, w, r) /\ IsSequence(w) /\ Len(w) # 0 /\ Last(w) = Last(p)
    BY <2>2, <2>3, <2>4, PrefixLeads
  <2>6. Leads(B, o, w, r)
    BY <2>2, <2>3, <2>4, PrefixLeads
  <2>7. y[k] = [path |-> w, tensor |-> t] /\ z[k] = [path |-> w, tensor |-> v[k].tensor]
    BY <1>2, <1>3, <2>2, <2>4
  <2>8. /\ DOMAIN y[k] = {"path", "tensor"} /\ DOMAIN z[k] = {"path", "tensor"}
        /\ y[k].path = w /\ z[k].path = w /\ y[k].tensor = t /\ z[k].tensor = v[k].tensor
    BY <2>7
  <2> QED
    BY <2>3, <2>5, <2>6, <2>8 DEF PairedAt
<1> QED
  BY <1>2, <1>4, <1>5 DEF Paired, y, z

(* The first part of a path is a key of the object it begins with.         *)
LEMMA FirstStep ==
  ASSUME NEW objects, Keyed(objects), NEW o \in DOMAIN objects, NEW k \in DOMAIN objects[o],
         NEW path, NEW n \in Nat \ {0}, NEW f, Going(objects, o, path, n, f), path[1] = objects[o][k].key
  PROVE  f[1] = objects[o][k]
<1>1. 0 \in 0..n /\ 1 \in 0..n /\ 1 - 1 = 0 /\ 1 # 0
  OBVIOUS
<1>2. f[0] = Item(o)
  BY <1>1 DEF Going
<1>3. f[1] = Below(objects, f[0], path[1])
  BY <1>1 DEF Going
<1>4. f[0].kind # "list" /\ f[0].refs[1] = o
  BY <1>2, ItemIs
<1>5. f[1] = objects[o][CHOOSE j \in DOMAIN objects[o] : objects[o][j].key = path[1]]
  BY <1>3, <1>4 DEF Below
<1>6. (CHOOSE j \in DOMAIN objects[o] : objects[o][j].key = path[1]) = k
  BY DEF Keyed
<1> QED
  BY <1>5, <1>6

(* The key of a sub-module leads to it.                                    *)
LEMMA EntersModule ==
  ASSUME NEW objects, Keyed(objects), NEW o \in DOMAIN objects, NEW k \in DOMAIN objects[o],
         NEW a, a = objects[o][k], a.kind = "module"
  PROVE  Enters(objects, o, <<a.key>>, a.refs[1])
<1>1. PICK parts, x : x = a.key /\ parts = <<x>> /\ parts = <<a.key>> /\ Len(parts) = 1 /\ parts[1] = x
  <2>1. \A x : Len(<<x>>) = 1 /\ <<x>>[1] = x
    OBVIOUS
  <2> QED
    BY <2>1
<1>2. SUFFICES ASSUME NEW path, NEW f, IsSequence(path), Len(path) > 1, path[1] = a.key,
                      Going(objects, o, path, Len(path) - 1, f)
               PROVE  f[1].kind # "list" /\ f[1].refs[1] = a.refs[1]
  <2>1. 1 \in 1..1
    OBVIOUS
  <2> QED
    BY <1>1, <2>1 DEF Enters
<1>3. PICK n \in Nat \ {0} : n = Len(path) - 1
  <2>1. Len(path) \in Nat
    BY <1>2, SequenceIsAFunction
  <2> QED
    BY <1>2, <2>1
<1>4. f[1] = a
  BY <1>2, <1>3, FirstStep
<1> QED
  BY <1>4

LEMMA PairIs ==
  ASSUME NEW x, NEW y, NEW p, p = <<x, y>>
  PROVE  IsSequence(p) /\ Len(p) = 2 /\ p[1] = x /\ p[2] = y
<1>1. p \in Seq({x, y}) /\ Len(p) = 2 /\ p[1] = x /\ p[2] = y
  OBVIOUS
<1> QED
  BY <1>1, SequenceOfAnything

(* So do the key of a list and an index.                                   *)
LEMMA EntersList ==
  ASSUME IndicesAreTold, NEW objects, Keyed(objects), NEW o \in DOMAIN objects,
         NEW k \in DOMAIN objects[o], NEW a, a = objects[o][k], a.kind = "list", IsSequence(a.refs),
         NEW i \in DOMAIN a.refs, NEW s, s = Told(i - 1)
  PROVE  Enters(objects, o, <<a.key, s>>, a.refs[i])
<1>0. PICK parts : parts = <<a.key, s>>
  OBVIOUS
<1>1. Len(parts) = 2 /\ parts[1] = a.key /\ parts[2] = s
  BY <1>0, PairIs
<1>2. SUFFICES ASSUME NEW path, NEW f, IsSequence(path), Len(path) > 2, path[1] = a.key, path[2] = s,
                      Going(objects, o, path, Len(path) - 1, f)
               PROVE  f[2].kind # "list" /\ f[2].refs[1] = a.refs[i]
  <2>1. 1 \in 1..2 /\ 2 \in 1..2
    OBVIOUS
  <2> QED
    BY <1>0, <1>1, <2>1 DEF Enters
<1>3. PICK n \in Nat \ {0} : n = Len(path) - 1 /\ 2 \in 0..n
  <2>1. Len(path) \in Nat
    BY <1>2, SequenceIsAFunction
  <2> QED
    BY <1>2, <2>1
<1>4. f[1] = a
  BY <1>2, <1>3, FirstStep
<1>5. f[2] = Below(objects, f[1], path[2])
  <2>1. 2 # 0 /\ 2 - 1 = 1
    OBVIOUS
  <2> QED
    BY <1>2, <1>3, <2>1 DEF Going
<1>6. f[2] = Item(a.refs[CHOOSE m \in DOMAIN a.refs : Told(m - 1) = s])
  BY <1>2, <1>4, <1>5 DEF Below
<1>7. (CHOOSE m \in DOMAIN a.refs : Told(m - 1) = s) = i
  <2>1. ASSUME NEW j \in DOMAIN a.refs, Told(j - 1) = s PROVE j = i
    <3>1. i - 1 \in Nat /\ j - 1 \in Nat /\ i \in Nat /\ j \in Nat
      BY SequenceIsAFunction
    <3>2. i - 1 = j - 1
      BY <1>1, <2>1, <3>1, ToldApart
    <3> QED
      BY <3>1, <3>2
  <2> QED
    BY <1>1, <2>1
<1>8. f[2] = Item(a.refs[i])
  BY <1>6, <1>7
<1> QED
  BY <1>8, ItemIs

(* The trees differ in one tensor at most.                                 *)
DifferAt(A, B, q, x, new, tr, o, k) ==
  /\ B[o][k].key = A[o][k].key
  /\ IF o = q /\ A[o][k].key = x
     THEN /\ A[o][k].kind = "tensor" /\ tr[A[o][k].refs[1]]
          /\ B[o][k] = Attribute(x, "tensor", <<new>>)
     ELSE B[o][k] = A[o][k]

(* What _set_by_path leaves.                                               *)
LEMMA ReplacedIs ==
  ASSUME NEW A, NEW B, NEW D, NEW q, NEW x, NEW new, NEW tr, NEW ts, Replacing(A, B, D, q, x, new, tr, ts)
  PROVE  /\ DOMAIN B = DOMAIN A /\ Keyed(B)
         /\ \A o \in DOMAIN A :
              /\ DOMAIN B[o] = DOMAIN A[o]
              /\ \A k \in DOMAIN A[o] : DifferAt(A, B, q, x, new, tr, o, k)
<1>1. B = Replaced(A, q, x, new) /\ Keyed(A)
  BY DEF Replacing
<1>2. DOMAIN B = DOMAIN A
  BY <1>1 DEF Replaced
<1>3. ASSUME NEW o \in DOMAIN A
      PROVE  /\ DOMAIN B[o] = DOMAIN A[o]
             /\ \A k \in DOMAIN A[o] :
                  B[o][k] = IF o = q /\ A[o][k].key = x THEN Attribute(x, "tensor", <<new>>) ELSE A[o][k]
  BY <1>1 DEF Replaced
<1>4. ASSUME NEW o \in DOMAIN A, NEW k \in DOMAIN A[o]
      PROVE  /\ B[o][k].key = A[o][k].key
             /\ IF o = q /\ A[o][k].key = x
                THEN /\ A[o][k].kind = "tensor" /\ tr[A[o][k].refs[1]]
                     /\ B[o][k] = Attribute(x, "tensor", <<new>>)
                ELSE B[o][k] = A[o][k]
  <2>1. CASE o = q /\ A[o][k].key = x
    <3>1. PICK j \in DOMAIN A[q] : A[q][j].key = x /\ A[q][j].kind = "tensor" /\ tr[A[q][j].refs[1]]
      BY <2>1 DEF Replacing
    <3>2. j = k
      BY <1>1, <2>1, <3>1 DEF Keyed
    <3>3. B[o][k] = Attribute(x, "tensor", <<new>>)
      BY <1>3, <2>1
    <3>4. B[o][k].key = x
      BY <3>3, AttributeIs
    <3> QED
      BY <2>1, <3>1, <3>2, <3>3, <3>4
  <2>2. CASE ~ (o = q /\ A[o][k].key = x)
    BY <1>3, <2>2
  <2> QED
    BY <2>1, <2>2
<1>5. Keyed(B)
  BY <1>1, <1>2, <1>3, <1>4 DEF Keyed
<1> QED
  BY <1>2, <1>3, <1>4, <1>5 DEF DifferAt

LEMMA NonePaired ==
  ASSUME NEW A, NEW B, NEW q, NEW x, NEW new, NEW tr, NEW o
  PROVE  Paired(A, B, q, x, new, tr, o, << >>, << >>)
BY NothingIsASequence DEF Paired

(* Names that are paired attribute by attribute are paired in all.         *)
LEMMA FlattenedPaired ==
  ASSUME NEW A, NEW B, NEW q, NEW x, NEW new, NEW tr, NEW o, NEW n \in Nat, NEW s, NEW t,
         DOMAIN s = 1..n, DOMAIN t = 1..n, IsSequence(s), IsSequence(t),
         \A i \in 1..n : Paired(A, B, q, x, new, tr, o, s[i], t[i])
  PROVE  Paired(A, B, q, x, new, tr, o, FlattenSeq(s), FlattenSeq(t))
<1>1. Len(s) = n /\ Len(t) = n
  BY SequenceIsAFunction
<1>2. \A i \in 1..n : IsSequence(s[i]) /\ IsSequence(t[i]) /\ Len(s[i]) = Len(t[i])
  BY DEF Paired
<1>3. PICK u, v : u = FlattenSeq(s) /\ v = FlattenSeq(t) /\ FromParts(s, t, n, u, v)
  BY <1>1, <1>2, FlattenPaired
<1>4. ASSUME NEW k \in DOMAIN u PROVE PairedAt(A, B, q, x, new, tr, o, u[k], v[k])
  <2>1. PICK i \in 1..n : \E j \in DOMAIN s[i] : u[k] = s[i][j] /\ v[k] = t[i][j]
    BY <1>3 DEF FromParts
  <2>2. PICK j \in DOMAIN s[i] : u[k] = s[i][j] /\ v[k] = t[i][j]
    BY <2>1
  <2> QED
    BY <2>2 DEF Paired
<1> QED
  BY <1>3, <1>4 DEF Paired, FromParts

LEMMA OneIs ==
  ASSUME NEW x, NEW p, p = <<x>>
  PROVE  IsSequence(p) /\ Len(p) = 1 /\ p[1] = x /\ DOMAIN p = 1..1
<1>1. p \in Seq({x}) /\ Len(p) = 1 /\ p[1] = x
  OBVIOUS
<1> QED
  BY <1>1, SequenceOfAnything, SequenceIsAFunction

(* A path of one part stays where it begins.                               *)
LEMMA LeadsNowhere ==
  ASSUME NEW objects, NEW o, NEW path, Len(path) = 1
  PROVE  Leads(objects, o, path, o)
<1>1. SUFFICES ASSUME NEW f, Going(objects, o, path, 0, f) PROVE f[0].refs[1] = o
  BY DEF Leads
<1>2. 0 \in 0..0
  OBVIOUS
<1>3. f[0] = Item(o)
  BY <1>1, <1>2 DEF Going
<1> QED
  BY <1>3, ItemIs

(* What a parameter adds to the names, what a list adds, what any attribute does. *)
LEMMA TensorPaired ==
  ASSUME NEW A, NEW B, NEW q, NEW x, NEW new, NEW tr, NEW o \in DOMAIN A, NEW k \in DOMAIN A[o],
         A[o][k].kind = "tensor", NEW key, key = A[o][k].key, NEW t, t = A[o][k].refs[1], tr[t],
         NEW r, r = IF o = q /\ key = x THEN new ELSE t
  PROVE  Paired(A, B, q, x, new, tr, o, <<[path |-> <<key>>, tensor |-> t]>>,
                                        <<[path |-> <<key>>, tensor |-> r]>>)
<1>1. PICK p : p = <<key>> /\ IsSequence(p) /\ Len(p) = 1 /\ p[1] = key
  BY OneIs
<1>2. PICK e : e = [path |-> <<key>>, tensor |-> t]
  OBVIOUS
<1>3. PICK y : y = [path |-> <<key>>, tensor |-> r]
  OBVIOUS
<1>4. /\ DOMAIN e = {"path", "tensor"} /\ DOMAIN y = {"path", "tensor"}
      /\ e.path = p /\ y.path = p /\ e.tensor = t /\ y.tensor = r
  BY <1>1, <1>2, <1>3
<1>5. Leads(A, o, p, o) /\ Leads(B, o, p, o)
  BY <1>1, LeadsNowhere
<1>6. Last(p) = key
  BY <1>1 DEF Last
<1>7. PairedAt(A, B, q, x, new, tr, o, e, y)
  BY <1>1, <1>4, <1>5, <1>6 DEF PairedAt
<1>8. PICK u : u = <<e>> /\ IsSequence(u) /\ Len(u) = 1 /\ u[1] = e /\ DOMAIN u = 1..1
  BY OneIs
<1>9. PICK v : v = <<y>> /\ IsSequence(v) /\ Len(v) = 1 /\ v[1] = y
  BY OneIs
<1>10. Paired(A, B, q, x, new, tr, o, u, v)
  BY <1>7, <1>8, <1>9 DEF Paired
<1> QED
  BY <1>2, <1>3, <1>8, <1>9, <1>10

(* What a list's item adds.                                                *)
Listed(a, named, i) == IF a.refs[i] = 0 THEN << >> ELSE Prefixed(<<a.key, Told(i - 1)>>, named[a.refs[i]])

LEMMA NamedByList ==
  ASSUME NEW a, a.kind = "list", NEW named, NEW trainable
  PROVE  NamedBy(a, named, trainable) = FlattenSeq([i \in DOMAIN a.refs |-> Listed(a, named, i)])
BY Zenon DEF NamedBy, Listed, Told

LEMMA NamedByPaired ==
  ASSUME IndicesAreTold, NEW A, NEW B, NEW D, NEW q, NEW x, NEW new, NEW tr, NEW ts,
         Replacing(A, B, D, q, x, new, tr, ts), NEW o \in DOMAIN A, NEW k \in DOMAIN A[o], NEW f, NEW g,
         \A c \in (o + 1)..Len(A) : Paired(A, B, q, x, new, tr, c, f[c], g[c])
  PROVE  Paired(A, B, q, x, new, tr, o, NamedBy(A[o][k], f, tr), NamedBy(B[o][k], g, ts))
<1>1. PICK a, b : a = A[o][k] /\ b = B[o][k]
  OBVIOUS
<1>2. BelowIn(a, D, o, Len(A)) /\ Keyed(A)
  BY <1>1 DEF Replacing, TreeOver
<1>3. /\ DOMAIN B = DOMAIN A /\ Keyed(B) /\ DOMAIN B[o] = DOMAIN A[o] /\ b.key = a.key
      /\ IF o = q /\ a.key = x
         THEN a.kind = "tensor" /\ tr[a.refs[1]] /\ b = Attribute(x, "tensor", <<new>>)
         ELSE b = a
  <2>1. DOMAIN B = DOMAIN A /\ Keyed(B) /\ DOMAIN B[o] = DOMAIN A[o] /\ DifferAt(A, B, q, x, new, tr, o, k)
    BY ReplacedIs
  <2> QED
    BY <1>1, <2>1 DEF DifferAt
<1>4. CASE a.kind = "tensor"
  <2>1. PICK t, r, key : /\ t = a.refs[1] /\ r = (IF o = q /\ a.key = x THEN new ELSE t) /\ key = a.key
    OBVIOUS
  <2>2. b.kind = "tensor" /\ b.key = key /\ b.refs[1] = r
    <3>1. CASE o = q /\ a.key = x
      <4>1. b.kind = "tensor" /\ b.refs = <<new>>
        BY <1>3, <3>1, AttributeIs
      <4> QED
        BY <1>3, <2>1, <3>1, <4>1
    <3>2. CASE ~ (o = q /\ a.key = x)
      BY <1>3, <1>4, <2>1, <3>2
    <3> QED
      BY <3>1, <3>2
  <2>3. tr[t] <=> ts[r]
    <3>1. CASE o = q /\ a.key = x
      <4>1. tr[t] /\ ts[new]
        BY <1>3, <2>1, <3>1 DEF Replacing
      <4> QED
        BY <2>1, <3>1, <4>1
    <3>2. CASE ~ (o = q /\ a.key = x)
      <4>1. t \in D /\ r = t
        BY <1>2, <1>4, <2>1, <3>2 DEF BelowIn
      <4> QED
        BY <4>1 DEF Replacing
    <3> QED
      BY <3>1, <3>2
  <2>4. /\ NamedBy(a, f, tr) = IF tr[t] THEN <<[path |-> <<key>>, tensor |-> t]>> ELSE << >>
        /\ NamedBy(b, g, ts) = IF ts[r] THEN <<[path |-> <<key>>, tensor |-> r]>> ELSE << >>
    BY <1>4, <2>1, <2>2 DEF NamedBy
  <2>5. CASE tr[t]
    <3>1. Paired(A, B, q, x, new, tr, o, <<[path |-> <<key>>, tensor |-> t]>>,
                                         <<[path |-> <<key>>, tensor |-> r]>>)
      BY <1>1, <1>4, <2>1, <2>5, TensorPaired, ZenonT(60)
    <3> QED
      BY <1>1, <2>3, <2>4, <2>5, <3>1
  <2>6. CASE ~ tr[t]
    BY <1>1, <2>3, <2>4, <2>6, NonePaired
  <2> QED
    BY <2>5, <2>6
<1>5. CASE a.kind = "module"
  <2>1. b = a
    BY <1>3, <1>5
  <2>2. PICK c, parts : c = a.refs[1] /\ parts = <<a.key>> /\ IsSequence(parts) /\ Len(parts) # 0
    <3>1. PICK parts : parts = <<a.key>>
      OBVIOUS
    <3>2. IsSequence(parts) /\ Len(parts) = 1
      BY <3>1, OneIs
    <3> QED
      BY <3>1, <3>2
  <2>3. c \in (o + 1)..Len(A)
    BY <1>2, <1>5, <2>2 DEF BelowIn
  <2>4. Enters(A, o, parts, c) /\ Enters(B, o, parts, c)
    BY <1>1, <1>2, <1>3, <1>5, <2>1, <2>2, EntersModule
  <2>5. NamedBy(a, f, tr) = Prefixed(parts, f[c]) /\ NamedBy(b, g, ts) = Prefixed(parts, g[c])
    BY <1>5, <2>1, <2>2 DEF NamedBy
  <2>6. PICK u, v : u = f[c] /\ v = g[c] /\ Paired(A, B, q, x, new, tr, c, u, v)
    BY <2>3
  <2>7. Paired(A, B, q, x, new, tr, o, Prefixed(parts, u), Prefixed(parts, v))
    BY <2>2, <2>4, <2>6, PrefixPaired
  <2> QED
    BY <1>1, <2>5, <2>6, <2>7
<1>6. CASE a.kind = "list"
  <2>1. b = a
    BY <1>3, <1>6
  <2>2. PICK n \in Nat : n = Len(a.refs) /\ DOMAIN a.refs = 1..n /\ IsSequence(a.refs)
    BY <1>2, SequenceIsAFunction DEF BelowIn
  <2> DEFINE s == [i \in DOMAIN a.refs |-> Listed(a, f, i)]
  <2> DEFINE t == [i \in DOMAIN a.refs |-> Listed(a, g, i)]
  <2>3. NamedBy(a, f, tr) = FlattenSeq(s) /\ NamedBy(b, g, ts) = FlattenSeq(t)
    BY <1>6, <2>1, NamedByList
  <2>4. /\ DOMAIN s = 1..n /\ s \in [1..n -> {s[i] : i \in 1..n}] /\ \A i \in 1..n : s[i] = Listed(a, f, i)
        /\ DOMAIN t = 1..n /\ t \in [1..n -> {t[i] : i \in 1..n}] /\ \A i \in 1..n : t[i] = Listed(a, g, i)
    BY <2>2
  <2> HIDE DEF s, t
  <2>5. IsSequence(s) /\ IsSequence(t)
    BY <2>4, SequenceByDomain
  <2>6. ASSUME NEW i \in 1..n PROVE Paired(A, B, q, x, new, tr, o, s[i], t[i])
    <3>1. CASE a.refs[i] = 0
      BY <2>4, <3>1, NonePaired DEF Listed
    <3>2. CASE a.refs[i] # 0
      <4>1. PICK c, told, parts : /\ c = a.refs[i] /\ told = Told(i - 1) /\ parts = <<a.key, told>>
        OBVIOUS
      <4>2. IsSequence(parts) /\ Len(parts) # 0
        BY <4>1, PairIs
      <4>3. c \in (o + 1)..Len(A)
        BY <1>2, <1>6, <2>2, <3>2, <4>1 DEF BelowIn
      <4>4. Enters(A, o, parts, c)
        BY <1>1, <1>2, <1>6, <2>2, <4>1, EntersList
      <4>5. Enters(B, o, parts, c)
        BY <1>1, <1>3, <1>6, <2>1, <2>2, <4>1, EntersList
      <4>6. s[i] = Prefixed(parts, f[c]) /\ t[i] = Prefixed(parts, g[c])
        BY <2>4, <3>2, <4>1 DEF Listed
      <4>7. PICK u, v : u = f[c] /\ v = g[c] /\ Paired(A, B, q, x, new, tr, c, u, v)
        BY <4>3
      <4>8. Paired(A, B, q, x, new, tr, o, Prefixed(parts, u), Prefixed(parts, v))
        BY <4>2, <4>4, <4>5, <4>7, PrefixPaired
      <4> QED
        BY <4>6, <4>7, <4>8
    <3> QED
      BY <3>1, <3>2
  <2>7. Paired(A, B, q, x, new, tr, o, FlattenSeq(s), FlattenSeq(t))
    BY <2>4, <2>5, <2>6, FlattenedPaired
  <2> QED
    BY <1>1, <2>3, <2>7
<1>7. CASE a.kind \notin {"tensor", "module", "list"}
  <2>1. b = a
    BY <1>3, <1>7
  <2>2. NamedBy(a, f, tr) = << >> /\ NamedBy(b, g, ts) = << >>
    BY <1>7, <2>1 DEF NamedBy
  <2> QED
    BY <1>1, <2>2, NonePaired
<1> QED
  BY <1>4, <1>5, <1>6, <1>7

(* The names in the whole of the two trees, from the last object up.       *)
LEMMA NamedInPaired ==
  ASSUME IndicesAreTold, NEW A, NEW B, NEW D, NEW E, NEW q, NEW x, NEW new, NEW tr, NEW ts,
         Replacing(A, B, D, q, x, new, tr, ts), TreeOver(B, E)
  PROVE  Paired(A, B, q, x, new, tr, 1, NamedIn(A, tr), NamedIn(B, ts))
<1> DEFINE f == CHOOSE h : Naming(A, tr, DOMAIN A, h)
<1> DEFINE g == CHOOSE h : Naming(B, ts, DOMAIN B, h)
<1>1. NamedIn(A, tr) = f[1] /\ NamedIn(B, ts) = g[1]
  BY Zenon DEF NamedIn, Naming
<1>2. TreeOver(A, D)
  BY DEF Replacing
<1>3. Naming(A, tr, DOMAIN A, f)
  BY <1>2, NamingExists
<1>4. Naming(B, ts, DOMAIN B, g)
  BY NamingExists
<1> HIDE DEF f, g
<1>5. DOMAIN B = DOMAIN A /\ \A o \in DOMAIN A : DOMAIN B[o] = DOMAIN A[o]
  BY ReplacedIs
<1>6. PICK n \in Nat : n = Len(A) /\ DOMAIN A = 1..n /\ 1 \in 1..n
  BY <1>2, SequenceIsAFunction DEF TreeOver
<1> DEFINE S == {j \in 0..n : \A o \in (n - j + 1)..n : Paired(A, B, q, x, new, tr, o, f[o], g[o])}
<1>7. 0 \in S
  OBVIOUS
<1>8. ASSUME NEW j \in 0..(n - 1), j \in S PROVE j + 1 \in S
  <2>1. PICK o \in 1..n : o = n - j
    OBVIOUS
  <2>2. \A c \in (o + 1)..n : Paired(A, B, q, x, new, tr, c, f[c], g[c])
    BY <1>8, <2>1
  <2> DEFINE s == [k \in DOMAIN A[o] |-> NamedBy(A[o][k], f, tr)]
  <2> DEFINE t == [k \in DOMAIN B[o] |-> NamedBy(B[o][k], g, ts)]
  <2>3. f[o] = FlattenSeq(s) /\ g[o] = FlattenSeq(t)
    BY <1>3, <1>4, <1>5, <1>6 DEF Naming
  <2>4. PICK m \in Nat : DOMAIN A[o] = 1..m
    <3>1. IsSequence(A[o])
      BY <1>2, <1>6 DEF TreeOver
    <3> QED
      BY <3>1, SequenceIsAFunction
  <2>5. \A k \in 1..m : Paired(A, B, q, x, new, tr, o, NamedBy(A[o][k], f, tr), NamedBy(B[o][k], g, ts))
    BY <1>6, <2>2, <2>4, NamedByPaired
  <2>6. /\ DOMAIN s = 1..m /\ s \in [1..m -> {s[k] : k \in 1..m}]
        /\ DOMAIN t = 1..m /\ t \in [1..m -> {t[k] : k \in 1..m}]
        /\ \A k \in 1..m : Paired(A, B, q, x, new, tr, o, s[k], t[k])
    BY <1>5, <1>6, <2>4, <2>5
  <2> HIDE DEF s, t
  <2>7. IsSequence(s) /\ IsSequence(t)
    BY <2>6, SequenceByDomain
  <2>8. Paired(A, B, q, x, new, tr, o, f[o], g[o])
    <3>1. Paired(A, B, q, x, new, tr, o, FlattenSeq(s), FlattenSeq(t))
      BY <2>6, <2>7, FlattenedPaired
    <3> QED
      BY <2>3, <3>1
  <2>9. \A c \in (n - (j + 1) + 1)..n : c = o \/ c \in (o + 1)..n
    BY <2>1
  <2> QED
    BY <2>2, <2>8, <2>9
<1> HIDE DEF S
<1>9. \A j \in 0..n : j \in S
  BY <1>7, <1>8, BoundedInduction
<1>10. n \in S
  BY <1>9
<1> QED
  BY <1>1, <1>6, <1>10 DEF S

(* What NamedIn wants to know of tensors.                                  *)
Trained(tensors) == [t \in DOMAIN tensors |-> tensors[t].requires_grad]

(* Untied in these terms.                                                  *)
LEMMA UntiedIs ==
  ASSUME NEW objects, NEW tensors
  PROVE  LET named == NamedIn(objects, Trained(tensors))
         IN  Untied(objects, tensors) <=>
               /\ Keyed(objects)
               /\ \A j, k \in DOMAIN named :
                    /\ OwnerIn(objects, named[j].path) = OwnerIn(objects, named[k].path)
                    /\ Last(named[j].path) = Last(named[k].path)
                    => j = k
BY Zenon DEF Untied, Keyed, Trained

(* A tree in which nothing changes.                                        *)
LEMMA NothingReplaced ==
  ASSUME NEW A, NEW D, TreeOver(A, D), Keyed(A), NEW tr
  PROVE  Replacing(A, A, D, 0, 0, 0, tr, tr)
<1>1. 0 \notin DOMAIN A
  BY SequenceIsAFunction DEF TreeOver
<1>2. ASSUME NEW o \in DOMAIN A PROVE A[o] = [k \in DOMAIN A[o] |-> A[o][k]]
  BY SequenceIsAFunction DEF TreeOver
<1>3. A = [o \in DOMAIN A |-> A[o]]
  BY SequenceIsAFunction DEF TreeOver
<1>4. A = Replaced(A, 0, 0, 0)
  <2>1. Replaced(A, 0, 0, 0) = [o \in DOMAIN A |-> [k \in DOMAIN A[o] |-> A[o][k]]]
    BY <1>1 DEF Replaced
  <2>2. [o \in DOMAIN A |-> [k \in DOMAIN A[o] |-> A[o][k]]] = [o \in DOMAIN A |-> A[o]]
    BY <1>2
  <2> QED
    BY <1>3, <2>1, <2>2
<1> QED
  BY <1>1, <1>4 DEF Replacing

(* Every name leads to the tensor it names.                                *)
LEMMA NamesLead ==
  ASSUME IndicesAreTold, NEW A, NEW D, TreeOver(A, D), Keyed(A), NEW tr, NEW named, named = NamedIn(A, tr)
  PROVE  /\ IsSequence(named)
         /\ \A k \in DOMAIN named : PairedAt(A, A, 0, 0, 0, tr, 1, named[k], named[k])
<1>1. Paired(A, A, 0, 0, 0, tr, 1, named, named)
  BY NothingReplaced, NamedInPaired
<1> QED
  BY <1>1 DEF Paired

(* What SetByPath makes of the names: one of them has the new tensor.      *)
LEMMA NamesAfterSet ==
  ASSUME IndicesAreTold, NEW A, NEW B, NEW D, NEW E, TreeOver(A, D), TreeOver(B, E), Keyed(A),
         NEW tr, NEW ts, \A t \in D : ts[t] = tr[t], NEW new, ts[new],
         NEW named, named = NamedIn(A, tr), NEW renamed, renamed = NamedIn(B, ts),
         NEW m \in DOMAIN named, NEW q, q = OwnerIn(A, named[m].path),
         NEW x, x = Last(named[m].path), B = Replaced(A, q, x, new)
  PROVE  /\ q \in DOMAIN A /\ Keyed(B)
         /\ IsSequence(named) /\ IsSequence(renamed) /\ Len(renamed) = Len(named)
         /\ \A k \in DOMAIN named :
              /\ renamed[k].path = named[k].path
              /\ OwnerIn(B, named[k].path) = OwnerIn(A, named[k].path)
              /\ renamed[k].tensor = IF OwnerIn(A, named[k].path) = q /\ Last(named[k].path) = x
                                     THEN new ELSE named[k].tensor
<1>1. PairedAt(A, A, 0, 0, 0, tr, 1, named[m], named[m])
  BY NamesLead
<1>2. PICK p : p = named[m].path /\ IsSequence(p) /\ Len(p) # 0
  BY <1>1 DEF PairedAt
<1>3. PICK r \in DOMAIN A :
        /\ Leads(A, 1, p, r)
        /\ \E k \in DOMAIN A[r] :
             A[r][k].key = Last(p) /\ A[r][k].kind = "tensor" /\ A[r][k].refs[1] = named[m].tensor
             /\ tr[named[m].tensor]
  BY <1>1, <1>2 DEF PairedAt
<1>4. r = q
  BY <1>2, <1>3, LeadsToOwner
<1>5. Replacing(A, B, D, q, x, new, tr, ts)
  BY <1>2, <1>3, <1>4 DEF Replacing
<1>6. Paired(A, B, q, x, new, tr, 1, named, renamed)
  BY <1>5, NamedInPaired
<1>7. ASSUME NEW k \in DOMAIN named
      PROVE  /\ renamed[k].path = named[k].path
             /\ OwnerIn(B, named[k].path) = OwnerIn(A, named[k].path)
             /\ renamed[k].tensor = IF OwnerIn(A, named[k].path) = q /\ Last(named[k].path) = x
                                    THEN new ELSE named[k].tensor
  <2>1. PairedAt(A, B, q, x, new, tr, 1, named[k], renamed[k])
    BY <1>6 DEF Paired
  <2>2. PICK w : w = named[k].path /\ IsSequence(w) /\ Len(w) # 0 /\ renamed[k].path = w
    BY <2>1 DEF PairedAt
  <2>3. PICK i \in DOMAIN A :
          /\ Leads(A, 1, w, i) /\ Leads(B, 1, w, i)
          /\ renamed[k].tensor = IF i = q /\ Last(w) = x THEN new ELSE named[k].tensor
    BY <2>1, <2>2 DEF PairedAt
  <2>4. OwnerIn(A, w) = i /\ OwnerIn(B, w) = i
    BY <2>2, <2>3, LeadsToOwner
  <2> QED
    BY <2>2, <2>3, <2>4
<1>8. Keyed(B)
  BY <1>5, ReplacedIs
<1> QED
  BY <1>4, <1>6, <1>7, <1>8 DEF Paired

(* No constructor builds a model in which two names lead to one attribute. *)
UntiedArchitectures == \A a \in Architectures : Untied(a.attrs, a.heap)

LEMMA NamedIs == NamedParameters = NamedIn(attrs, Trained(heap))
BY DEF NamedParameters, Trained

(* No two parameters of an untied model have a place in common.            *)
LEMMA UntiedNames ==
  ASSUME Untied(attrs, heap)
  PROVE  /\ Keyed(attrs)
         /\ \A j, k \in DOMAIN NamedParameters :
              /\ OwnerIn(attrs, NamedParameters[j].path) = OwnerIn(attrs, NamedParameters[k].path)
              /\ Last(NamedParameters[j].path) = Last(NamedParameters[k].path)
              => j = k
BY NamedIs, UntiedIs

(* What load() finds in the module.                                        *)
ContentsMatch ==
  /\ IsSequence(NamedParameters) /\ IsSequence(Contents)
  /\ Len(NamedParameters) \in Nat /\ Len(Contents) = Len(NamedParameters)
  /\ DOMAIN NamedParameters = 1..Len(NamedParameters) /\ DOMAIN Contents = DOMAIN NamedParameters
  /\ \A k \in DOMAIN NamedParameters :
       /\ NamedParameters[k].tensor \in DOMAIN heap
       /\ Contents[k] = Entry(NamedParameters[k].path, heap[NamedParameters[k].tensor])
       /\ Contents[k].path = NamedParameters[k].path
       /\ Contents[k].shape = heap[NamedParameters[k].tensor].shape
       /\ Contents[k].flat = heap[NamedParameters[k].tensor].flat
       /\ Contents[k] = Entry(Contents[k].path, Contents[k]) /\ Contents[k].flat \in Seq(Numbers)

LEMMA ContentsIs == ModelInv => ContentsMatch
<1> SUFFICES ASSUME ModelInv PROVE ContentsMatch
  OBVIOUS
<1>1. NamesIn(NamedParameters, DOMAIN heap)
  BY NamesAreTensors
<1>2. /\ IsSequence(Contents) /\ DOMAIN Contents = DOMAIN NamedParameters
      /\ \A k \in DOMAIN Contents : Contents[k].flat \in Seq(Numbers)
  BY <1>1, ContentsHoldNumbers DEF ModelInv, IsModelOf
<1>3. /\ IsSequence(NamedParameters) /\ DOMAIN NamedParameters = 1..Len(NamedParameters)
      /\ Len(NamedParameters) \in Nat /\ Len(Contents) = Len(NamedParameters)
  BY <1>1, <1>2, SequenceIsAFunction DEF NamesIn
<1>4. ASSUME NEW k \in DOMAIN NamedParameters
      PROVE  /\ Contents[k] = Entry(NamedParameters[k].path, heap[NamedParameters[k].tensor])
             /\ Contents[k].path = NamedParameters[k].path
             /\ Contents[k].shape = heap[NamedParameters[k].tensor].shape
             /\ Contents[k].flat = heap[NamedParameters[k].tensor].flat
             /\ Contents[k] = Entry(Contents[k].path, Contents[k])
  <2>1. PICK e, p, c : e = Contents[k] /\ p = NamedParameters[k].path /\ c = heap[NamedParameters[k].tensor]
    OBVIOUS
  <2>2. e = [path |-> p, shape |-> c.shape, flat |-> c.flat]
    BY <2>1 DEF Contents
  <2>3. e.path = p /\ e.shape = c.shape /\ e.flat = c.flat
    BY <2>2
  <2> QED
    BY <2>1, <2>2, <2>3 DEF Entry
<1> QED
  BY <1>1, <1>2, <1>3, <1>4 DEF NamesIn, ContentsMatch

(* What save() gathers of an untied model names every path once.           *)
LEMMA ContentsAreGathered ==
  ASSUME ModelInv, Untied(attrs, heap)
  PROVE  IsGathered(Contents)
<1>1. ASSUME NEW j \in DOMAIN NamedParameters, NEW k \in DOMAIN NamedParameters,
             NamedParameters[j].path = NamedParameters[k].path
      PROVE  j = k
  BY <1>1, UntiedNames
<1>2. DOMAIN Contents = DOMAIN NamedParameters
  BY ContentsIs DEF ContentsMatch
<1> QED
  BY <1>1, <1>2, ContentsIs DEF IsGathered, ContentsMatch

(* A tensor more, and a name for it.                                       *)
LEMMA LoadedNames ==
  ASSUME IndicesAreTold, ModelInv, ModelInv', Untied(attrs, heap), NEW m \in DOMAIN NamedParameters,
         NEW c, c.requires_grad = TRUE, heap' = Append(heap, c),
         attrs' = SetByPath(NamedParameters[m].path, Len(heap) + 1)
  PROVE  /\ Untied(attrs, heap)' /\ Len(NamedParameters') = Len(NamedParameters)
         /\ \A k \in DOMAIN NamedParameters :
              /\ NamedParameters'[k].path = NamedParameters[k].path
              /\ k # m => NamedParameters'[k].tensor = NamedParameters[k].tensor
         /\ NamedParameters'[m].tensor = Len(heap) + 1
         /\ heap'[Len(heap) + 1] = c /\ \A t \in DOMAIN heap : heap'[t] = heap[t]
<1>1. PICK A, B, h, hh, new, named, renamed :
        /\ A = attrs /\ B = attrs' /\ h = heap /\ hh = heap' /\ new = Len(heap) + 1
        /\ named = NamedParameters /\ renamed = NamedParameters'
  OBVIOUS
<1>2. PICK n \in Nat : n = Len(h) /\ DOMAIN h = 1..n /\ IsSequence(h)
  BY <1>1, SequenceIsAFunction DEF ModelInv, IsModelOf, IsHeap
<1>3. /\ IsSequence(hh) /\ DOMAIN hh = 1..(n + 1)
      /\ \A t \in 1..(n + 1) : hh[t] = IF t = n + 1 THEN c ELSE h[t]
  <2>1. hh = Append(h, c)
    BY <1>1
  <2> QED
    BY <1>2, <2>1, AppendToAnything
<1>4. new = n + 1 /\ hh[new] = c /\ \A t \in DOMAIN h : hh[t] = h[t]
  <2>1. new = n + 1 /\ n + 1 \in 1..(n + 1)
    BY <1>1, <1>2
  <2>2. \A t \in 1..n : t \in 1..(n + 1) /\ t # n + 1
    OBVIOUS
  <2> QED
    BY <1>2, <1>3, <2>1, <2>2
<1> DEFINE tr == Trained(h)
<1> DEFINE ts == Trained(hh)
<1>5. named = NamedIn(A, tr) /\ renamed = NamedIn(B, ts)
  <2>1. NamedParameters' = NamedIn(attrs', Trained(heap'))
    BY DEF NamedParameters, Trained
  <2> QED
    BY <1>1, <2>1, NamedIs
<1>6. ts[new] /\ \A t \in DOMAIN h : ts[t] = tr[t]
  <2>1. new \in DOMAIN hh /\ DOMAIN h \subseteq DOMAIN hh
    BY <1>2, <1>3, <1>4
  <2>2. ts[new] = TRUE
    BY <1>4, <2>1 DEF Trained
  <2>3. \A t \in DOMAIN h : ts[t] = tr[t]
    BY <1>4, <2>1 DEF Trained
  <2> QED
    BY <2>2, <2>3
<1> HIDE DEF tr, ts
<1>7. TreeOver(A, DOMAIN h) /\ TreeOver(B, DOMAIN hh) /\ Keyed(A)
  BY <1>1, UntiedNames DEF ModelInv, IsModelOf
<1>8. PICK q, x : q = OwnerIn(A, named[m].path) /\ x = Last(named[m].path)
  OBVIOUS
<1>9. B = [A EXCEPT ![q] = [k \in DOMAIN A[q] |->
                              IF A[q][k].key = x THEN Attribute(x, "tensor", <<new>>) ELSE A[q][k]]]
  BY <1>1, <1>8 DEF SetByPath, Owner
<1>10. B = Replaced(A, q, x, new)
  <2> DEFINE R == Replaced(A, q, x, new)
  <2>1. DOMAIN B = DOMAIN A
    BY <1>9
  <2>2. ASSUME NEW o \in DOMAIN A
        PROVE  B[o] = [k \in DOMAIN A[o] |->
                         IF o = q /\ A[o][k].key = x THEN Attribute(x, "tensor", <<new>>) ELSE A[o][k]]
    <3>1. CASE o = q
      BY <1>9, <3>1
    <3>2. CASE o # q
      <4>1. IsSequence(A[o])
        BY <1>7 DEF TreeOver
      <4>2. A[o] = [k \in DOMAIN A[o] |-> A[o][k]]
        BY <4>1, SequenceIsAFunction
      <4>3. B[o] = A[o]
        BY <1>9, <3>2
      <4> QED
        BY <3>2, <4>2, <4>3
    <3> QED
      BY <3>1, <3>2
  <2>3. B = [o \in DOMAIN A |-> B[o]]
    BY <1>9
  <2> QED
    BY <2>2, <2>3 DEF Replaced
<1>11. m \in DOMAIN named
  BY <1>1
<1>12. /\ Keyed(B) /\ IsSequence(named) /\ IsSequence(renamed) /\ Len(renamed) = Len(named)
       /\ \A k \in DOMAIN named :
            /\ renamed[k].path = named[k].path
            /\ OwnerIn(B, named[k].path) = OwnerIn(A, named[k].path)
            /\ renamed[k].tensor = IF OwnerIn(A, named[k].path) = q /\ Last(named[k].path) = x
                                   THEN new ELSE named[k].tensor
  BY <1>5, <1>6, <1>7, <1>8, <1>10, <1>11, NamesAfterSet
<1>13. DOMAIN renamed = DOMAIN named
  BY <1>12, SequenceIsAFunction
<1>14. \A j, k \in DOMAIN named :
         /\ OwnerIn(A, named[j].path) = OwnerIn(A, named[k].path)
         /\ Last(named[j].path) = Last(named[k].path)
         => j = k
  BY <1>1, UntiedNames
<1>15. Untied(B, hh)
  <2>1. \A j, k \in DOMAIN renamed :
          /\ OwnerIn(B, renamed[j].path) = OwnerIn(B, renamed[k].path)
          /\ Last(renamed[j].path) = Last(renamed[k].path)
          => j = k
    BY <1>12, <1>13, <1>14
  <2> QED
    BY <1>5, <1>12, <2>1, UntiedIs DEF ts
<1>16. renamed[m].tensor = new
  BY <1>8, <1>11, <1>12
<1>17. \A k \in DOMAIN named : k # m => renamed[k].tensor = named[k].tensor
  BY <1>8, <1>11, <1>12, <1>14
<1> QED
  BY <1>1, <1>4, <1>12, <1>15, <1>16, <1>17

(***************************************************************************)
(* The steps, with what is in the file.                                    *)
(***************************************************************************)
(* Where neither the tree nor the heap changes.                            *)
LEMMA SameContents ==
  ASSUME UNCHANGED <<attrs, heap>>
  PROVE  /\ NamedParameters' = NamedParameters /\ Contents' = Contents
         /\ Untied(attrs, heap)' = Untied(attrs, heap)
BY DEF NamedParameters, Contents

(* An empty file, and nothing saved yet.                                   *)
LEMMA NothingWritten ==
  ASSUME NEW c, IsGathered(c)
  PROVE  /\ IsSequence(<< >>) /\ Len(<< >>) = 0 /\ DOMAIN << >> = {}
         /\ IsSequence(Image(c)) /\ Len(Image(c)) \in Nat
<1>1. Len(Data(c)) \in Nat /\ IsSequence(Image(c)) /\ Len(Image(c)) = 3 + Len(Data(c))
  BY GatheredData, ImageIs
<1>2. IsSequence(<< >>) /\ Len(<< >>) = 0 /\ DOMAIN << >> = {}
  BY EmptySeq DEF IsSequence
<1>3. 3 + Len(Data(c)) \in Nat
  BY <1>1
<1> QED
  BY <1>1, <1>2, <1>3

(* FilesInv at the start, and over the steps that leave the file alone.    *)
LEMMA FilesBegin ==
  ASSUME UntiedArchitectures, Init
  PROVE  FilesInv
<1>1. /\ disk = << >> /\ io = Idle /\ said = "nothing" /\ attempted = << >> /\ before = << >>
      /\ \E a \in Architectures : attrs = a.attrs /\ heap = a.heap
  BY DEF Init, CheckpointInit
<1>2. Untied(attrs, heap)
  BY <1>1 DEF UntiedArchitectures
<1>3. IsSequence(<< >>) /\ Len(<< >>) = 0 /\ DOMAIN << >> = {}
  BY EmptySeq DEF IsSequence
<1>4. IsGathered(<< >>)
  BY <1>3 DEF IsGathered
<1>5. IsSequence(Image(<< >>)) /\ Len(Image(<< >>)) \in Nat
  BY <1>4, NothingWritten
<1>6. FileIsWritten
  BY <1>1, <1>3, <1>5 DEF FileIsWritten, Idle
<1> QED
  BY <1>1, <1>2, <1>3, <1>4, <1>6 DEF FilesInv, Idle, LoadedIsSaved

LEMMA FilesAreLeft ==
  ASSUME FilesInv, UNCHANGED checkpointVars
  PROVE  FilesInv'
<1>1. /\ UNCHANGED <<disk, io, said, attempted, before>> /\ UNCHANGED <<attrs, heap>>
  BY DEF checkpointVars
<1>2. /\ NamedParameters' = NamedParameters /\ Contents' = Contents
      /\ Untied(attrs, heap)' = Untied(attrs, heap)
  BY <1>1, SameContents
<1>3. FileIsWritten' /\ LoadedIsSaved'
  BY <1>1, <1>2 DEF FilesInv, FileIsWritten, LoadedIsSaved
<1>4. \A m : LoadedTo(m)' <=> LoadedTo(m)
  BY <1>1, <1>2 DEF LoadedTo
<1>5. Loading' <=> Loading
  BY <1>1, <1>2, <1>4 DEF Loading
<1> QED
  BY <1>1, <1>2, <1>3, <1>4, <1>5 DEF FilesInv

(* save() opens the file, and writes it.                                   *)
LEMMA SaveWrites ==
  ASSUME SessionInv, FilesInv, OpenForSave
  PROVE  FilesInv'
<1>1. /\ io = Idle /\ attempted' = Contents /\ disk' = << >>
      /\ io'.call = "save" /\ io'.left = Image(Contents)
      /\ UNCHANGED <<said, before>> /\ UNCHANGED <<attrs, heap>>
  BY DEF OpenForSave, Idle
<1>2. /\ NamedParameters' = NamedParameters /\ Contents' = Contents
      /\ Untied(attrs, heap)' = Untied(attrs, heap)
  BY <1>1, SameContents
<1>3. ContentsMatch /\ IsGathered(Contents)
  BY ContentsIs, ContentsAreGathered DEF SessionInv, FilesInv
<1>4. /\ IsSequence(<< >>) /\ Len(<< >>) = 0 /\ DOMAIN << >> = {}
      /\ IsSequence(Image(Contents)) /\ Len(Image(Contents)) \in Nat
  BY <1>3, NothingWritten
<1>5. FileIsWritten'
  <2>1. \A k \in DOMAIN io'.left : io'.left[k] = Image(attempted')[0 + k]
    BY <1>1, <1>4, SequenceIsAFunction
  <2> QED
    BY <1>1, <1>4, <2>1 DEF FileIsWritten
<1>6. LoadedIsSaved'
  BY <1>1, <1>2, <1>3 DEF LoadedIsSaved, PathsOf, IsGathered
<1>7. ASSUME said' = "refused" PROVE \E m \in 0..Len(before') : LoadedTo(m)'
  <2>1. PICK m \in 0..Len(before) : LoadedTo(m)
    BY <1>1, <1>7 DEF FilesInv
  <2>2. DOMAIN before = 1..Len(before) /\ Len(before) \in Nat
    BY SequenceIsAFunction DEF FilesInv
  <2>3. \A k \in DOMAIN before : Contents[k] \in Range(Contents)
    BY <2>1 DEF LoadedTo, Range
  <2>4. LoadedTo(Len(before))'
    BY <1>1, <1>2, <2>1, <2>2, <2>3 DEF LoadedTo
  <2> QED
    BY <1>1, <2>2, <2>4
<1> QED
  BY <1>1, <1>2, <1>3, <1>5, <1>6, <1>7 DEF FilesInv

(* What is there of an image, and what is left.                            *)
Divided(image, units, left) ==
  /\ IsSequence(units) /\ IsSequence(left)
  /\ Len(units) + Len(left) = Len(image) /\ Len(units) <= Len(image)
  /\ \A k \in DOMAIN units : units[k] = image[k]
  /\ \A k \in DOMAIN left : left[k] = image[Len(units) + k]

(* A unit goes over from what is left to what is there.                    *)
LEMMA OneMoreUnit ==
  ASSUME NEW image, NEW units, NEW left, Divided(image, units, left), left # << >>,
         NEW more, more = Append(units, Head(left)), NEW less, less = Tail(left)
  PROVE  Divided(image, more, less)
<1>0. /\ IsSequence(units) /\ IsSequence(left) /\ Len(units) + Len(left) = Len(image)
      /\ \A k \in DOMAIN units : units[k] = image[k]
      /\ \A k \in DOMAIN left : left[k] = image[Len(units) + k]
  BY DEF Divided
<1>1. PICK n \in Nat : n = Len(units) /\ DOMAIN units = 1..n
  BY <1>0, SequenceIsAFunction
<1>2. PICK m \in Nat : m = Len(left) /\ DOMAIN left = 1..m
  BY <1>0, SequenceIsAFunction
<1>3. left \in Seq({left[k] : k \in DOMAIN left})
  BY <1>0 DEF IsSequence
<1>4. m # 0
  BY <1>2, <1>3, EmptySeq
<1>5. /\ IsSequence(more) /\ Len(more) = n + 1 /\ DOMAIN more = 1..(n + 1)
      /\ \A i \in 1..(n + 1) : more[i] = IF i = n + 1 THEN Head(left) ELSE units[i]
  BY <1>0, <1>1, AppendToAnything
<1>6. Head(left) = left[1]
  OBVIOUS
<1>7. /\ less \in Seq({left[k] : k \in DOMAIN left}) /\ Len(less) = m - 1
      /\ \A i \in 1..(m - 1) : less[i] = left[i + 1]
  BY <1>2, <1>3, <1>4, HeadTailProperties
<1>8. IsSequence(less) /\ DOMAIN less = 1..(m - 1)
  BY <1>7, SequenceOfAnything, SequenceIsAFunction
<1>9. ASSUME NEW k \in 1..(n + 1) PROVE more[k] = image[k]
  <2>1. CASE k = n + 1
    <3>1. more[k] = left[1] /\ 1 \in DOMAIN left
      BY <1>2, <1>4, <1>5, <1>6, <2>1
    <3>2. left[1] = image[n + 1]
      BY <1>0, <1>1, <3>1
    <3> QED
      BY <2>1, <3>1, <3>2
  <2>2. CASE k # n + 1
    BY <1>0, <1>1, <1>5, <2>2
  <2> QED
    BY <2>1, <2>2
<1>10. ASSUME NEW k \in 1..(m - 1) PROVE less[k] = image[(n + 1) + k]
  <2>1. k + 1 \in DOMAIN left /\ less[k] = left[k + 1] /\ n + (k + 1) = (n + 1) + k
    BY <1>2, <1>7
  <2>2. left[k + 1] = image[n + (k + 1)]
    BY <1>0, <1>1, <2>1
  <2> QED
    BY <2>1, <2>2
<1>11. (n + 1) + (m - 1) = n + m /\ n + 1 <= n + m /\ m - 1 \in Nat /\ n + m = Len(image)
  BY <1>0, <1>1, <1>2, <1>4
<1>12. Len(more) + Len(less) = Len(image) /\ Len(more) <= Len(image)
  BY <1>5, <1>7, <1>11
<1>13. \A k \in DOMAIN less : less[k] = image[Len(more) + k]
  BY <1>5, <1>8, <1>10
<1> QED
  BY <1>5, <1>8, <1>9, <1>12, <1>13 DEF Divided

LEMMA WriteWrites ==
  ASSUME SessionInv, FilesInv, Write
  PROVE  FilesInv'
<1>1. /\ io.call = "save" /\ UNCHANGED <<said, attempted, before>> /\ UNCHANGED <<attrs, heap>>
      /\ DOMAIN io = DOMAIN Idle
  BY DEF Write, SessionInv, FileInv
<1>2. /\ NamedParameters' = NamedParameters /\ Contents' = Contents
      /\ Untied(attrs, heap)' = Untied(attrs, heap)
  BY <1>1, SameContents
<1>3. io'.call # "load" /\ FileIsWritten'
  <2>1. CASE io.left = << >>
    <3>1. io' = Idle /\ disk' = disk
      BY <2>1 DEF Write
    <3> QED
      BY <1>1, <3>1 DEF FilesInv, FileIsWritten, Idle
  <2>2. CASE io.left # << >>
    <3>1. /\ disk' = Append(disk, Head(io.left)) /\ io'.left = Tail(io.left) /\ io'.call = "save"
      BY <1>1, <2>2 DEF Write, Idle
    <3>2. PICK image, units, left, more, less :
            /\ image = Image(attempted) /\ units = disk /\ left = io.left
            /\ more = Append(units, Head(left)) /\ less = Tail(left)
      OBVIOUS
    <3>3. Divided(image, units, left) /\ left # << >>
      BY <1>1, <2>2, <3>2 DEF FilesInv, FileIsWritten, Divided
    <3>4. Divided(image, more, less)
      BY <3>2, <3>3, OneMoreUnit
    <3>5. disk' = more /\ io'.left = less /\ Image(attempted)' = image
      BY <1>1, <3>1, <3>2
    <3> QED
      BY <3>1, <3>4, <3>5 DEF FileIsWritten, Divided
  <2> QED
    BY <2>1, <2>2
<1>4. LoadedIsSaved'
  BY <1>1, <1>2 DEF FilesInv, LoadedIsSaved
<1>5. \A m : LoadedTo(m)' <=> LoadedTo(m)
  BY <1>1, <1>2 DEF LoadedTo
<1> QED
  BY <1>1, <1>2, <1>3, <1>4, <1>5 DEF FilesInv

(* The part of the file after the header, as far as it goes.               *)
LEMMA FileIsOf ==
  ASSUME FilesInv, Len(disk) >= 3
  PROVE  /\ disk[3][2] = Header(attempted) /\ PathsOf(disk[3][2]) = PathsOf(attempted)
         /\ LET blob == [k \in 1..(Len(disk) - 3) |-> disk[k + 3][2]]
            IN  IsSequence(blob) /\ Begins(blob, Data(attempted))
<1>1. PICK c, image, units, d : c = attempted /\ image = Image(c) /\ units = disk /\ d = Data(c)
  OBVIOUS
<1>2. IsGathered(c) /\ IsSequence(d) /\ IsSequence(c)
  BY <1>1, GatheredData DEF FilesInv
<1>3. /\ IsSequence(image) /\ Len(d) \in Nat /\ Len(image) = 3 + Len(d) /\ image[3][2] = Header(c)
      /\ \A j \in 1..Len(d) : image[j + 3][2] = d[j]
  BY <1>1, <1>2, ImageIs
<1>4. /\ IsSequence(units) /\ Len(units) <= Len(image) /\ Len(units) >= 3
      /\ \A k \in DOMAIN units : units[k] = image[k]
  BY <1>1 DEF FilesInv, FileIsWritten
<1>5. PICK n \in Nat : n = Len(units) /\ DOMAIN units = 1..n /\ n >= 3 /\ n <= 3 + Len(d)
  BY <1>3, <1>4, SequenceIsAFunction
<1>6. PICK m \in Nat : m = n - 3 /\ m <= Len(d)
  <2>1. n - 3 \in Nat /\ n - 3 <= Len(d)
    BY <1>3, <1>5
  <2> QED
    BY <2>1
<1>7. units[3][2] = Header(c)
  <2>1. 3 \in 1..n
    BY <1>5
  <2> QED
    BY <1>3, <1>4, <1>5, <2>1
<1> DEFINE blob == [k \in 1..m |-> units[k + 3][2]]
<1>8. ASSUME NEW k \in 1..m PROVE units[k + 3][2] = d[k]
  <2>1. k + 3 \in 1..n /\ k \in 1..Len(d)
    BY <1>3, <1>5, <1>6
  <2> QED
    BY <1>3, <1>4, <1>5, <2>1
<1>9. /\ blob \in [1..m -> {blob[k] : k \in 1..m}]
      /\ \A k \in 1..m : blob[k] = d[k]
  BY <1>8
<1>10. blob = [k \in 1..(Len(disk) - 3) |-> disk[k + 3][2]]
  BY <1>1, <1>5, <1>6
<1> HIDE DEF blob
<1>11. IsSequence(blob) /\ Len(blob) = m
  BY <1>9, SequenceByDomain
<1>12. Begins(blob, d)
  BY <1>2, <1>6, <1>9, <1>11 DEF Begins
<1>13. PathsOf(Header(c)) = PathsOf(c)
  <2>1. DOMAIN Header(c) = DOMAIN c /\ \A k \in DOMAIN c : Header(c)[k].path = c[k].path
    BY DEF Header
  <2> QED
    BY <2>1 DEF PathsOf
<1> QED
  BY <1>1, <1>7, <1>10, <1>11, <1>12, <1>13

(* load() reads the header, or refuses.                                    *)
LEMMA LoadReads ==
  ASSUME SessionInv, FilesInv, OpenForLoad
  PROVE  FilesInv'
<1>1. /\ io = Idle /\ before' = Contents /\ UNCHANGED <<disk, attempted>> /\ UNCHANGED <<attrs, heap>>
  BY DEF OpenForLoad, Refused
<1>2. /\ NamedParameters' = NamedParameters /\ Contents' = Contents
      /\ Untied(attrs, heap)' = Untied(attrs, heap)
  BY <1>1, SameContents
<1>3. ContentsMatch
  BY ContentsIs DEF SessionInv
<1>4. LoadedTo(0)'
  <2>1. \A k \in DOMAIN Contents : ~ (k <= 0)
    BY <1>3 DEF ContentsMatch
  <2> QED
    BY <1>1, <1>2, <2>1 DEF LoadedTo
<1>5. CASE io' = Idle /\ said' = "refused"
  <2>1. FileIsWritten' /\ LoadedIsSaved'
    BY <1>1, <1>5 DEF FilesInv, FileIsWritten, LoadedIsSaved, Idle
  <2>2. 0 \in 0..Len(before')
    BY <1>1, <1>3 DEF ContentsMatch
  <2> QED
    BY <1>1, <1>2, <1>3, <1>4, <1>5, <2>1, <2>2 DEF FilesInv, ContentsMatch, Idle
<1>6. CASE ~ (io' = Idle /\ said' = "refused")
  <2>1. /\ Len(disk) >= 3 /\ PathsOf(disk[3][2]) = PathsOf(NamedParameters) /\ said' = "nothing"
        /\ io' = [call |-> "load", left |-> NamedParameters, header |-> disk[3][2],
                  blob |-> [k \in 1..(Len(disk) - 3) |-> disk[k + 3][2]]]
    BY <1>6 DEF OpenForLoad, Refused
  <2>2. /\ io'.call = "load" /\ io'.left = NamedParameters /\ io'.header = disk[3][2]
        /\ io'.blob = [k \in 1..(Len(disk) - 3) |-> disk[k + 3][2]]
    BY <2>1
  <2>3. disk[3][2] = Header(attempted) /\ PathsOf(disk[3][2]) = PathsOf(attempted)
    BY <2>1, FileIsOf
  <2>4. FileIsWritten' /\ LoadedIsSaved'
    BY <1>1, <2>1, <2>2 DEF FilesInv, FileIsWritten, LoadedIsSaved
  <2>5. PathsOf(attempted)' = PathsOf(NamedParameters)'
    <3>1. PathsOf(attempted) = PathsOf(NamedParameters)
      BY <2>1, <2>3
    <3> QED
      BY <1>1, <1>2, <3>1
  <2>6. Len(NamedParameters) - Len(NamedParameters) = 0
    BY <1>3 DEF ContentsMatch
  <2>7. /\ IsSequence(io'.left) /\ Len(io'.left) <= Len(NamedParameters')
        /\ \A k \in DOMAIN io'.left : io'.left[k] = NamedParameters'[0 + k]
        /\ Len(NamedParameters') - Len(io'.left) = 0
    BY <1>2, <1>3, <2>2, <2>6 DEF ContentsMatch
  <2>8. Loading'
    BY <1>1, <1>4, <2>1, <2>2, <2>3, <2>5, <2>7 DEF Loading
  <2> QED
    BY <1>1, <1>2, <1>3, <2>1, <2>4, <2>8 DEF FilesInv, ContentsMatch
<1> QED
  BY <1>5, <1>6

(* What load() finds in the file for the parameter of a name.              *)
LEMMA FindsTheEntry ==
  ASSUME FilesInv, Loading, NEW path, path \in PathsOf(NamedParameters)
  PROVE  \E j \in DOMAIN attempted :
           /\ attempted[j].path = path /\ Meta(path) = Header(attempted)[j]
           /\ Meta(path).shape = attempted[j].shape
           /\ Len(Raw(Meta(path))) = Meta(path).size => Raw(Meta(path)) = attempted[j].flat
<1>1. PICK c, h : c = attempted /\ h = io.header /\ h = Header(c)
  BY DEF Loading
<1>2. IsGathered(c)
  BY <1>1 DEF FilesInv
<1>3. /\ DOMAIN h = DOMAIN c
      /\ \A k \in DOMAIN c : h[k].path = c[k].path /\ h[k].shape = c[k].shape
  BY <1>1 DEF Header
<1>4. \E k \in DOMAIN h : h[k].path = path
  <2>1. path \in PathsOf(c)
    BY <1>1 DEF Loading
  <2> QED
    BY <1>3, <2>1 DEF PathsOf
<1>5. PICK j \in DOMAIN h : j = (CHOOSE k \in DOMAIN h : h[k].path = path) /\ h[j].path = path
  BY <1>4
<1>6. PICK meta : meta = Meta(path) /\ meta = h[j]
  BY <1>1, <1>5 DEF Meta
<1>7. IsSequence(io.blob) /\ Begins(io.blob, Data(c))
  BY <1>1, FileIsOf DEF Loading
<1>8. Len(Raw(meta)) = meta.size => Raw(meta) = c[j].flat
  <2>1. SUFFICES ASSUME Len(Raw(meta)) = meta.size PROVE Raw(meta) = c[j].flat
    OBVIOUS
  <2>2. j \in DOMAIN c /\ meta = Header(c)[j]
    BY <1>1, <1>3, <1>6
  <2> QED
    BY <1>2, <1>7, <2>1, <2>2, ReadsTheEntry
<1> QED
  BY <1>1, <1>3, <1>5, <1>6, <1>8

(* All is loaded.                                                          *)
LEMMA LoadedWhole ==
  ASSUME SessionInv, FilesInv, Loading, LoadedTo(Len(NamedParameters))
  PROVE  /\ PathsOf(Contents) = PathsOf(attempted)
         /\ \A j \in DOMAIN Contents, k \in DOMAIN attempted :
              Contents[j].path = attempted[k].path => Contents[j] = attempted[k]
<1>1. ContentsMatch
  BY ContentsIs DEF SessionInv
<1>2. PathsOf(Contents) = PathsOf(NamedParameters)
  BY <1>1 DEF ContentsMatch, PathsOf
<1>3. PathsOf(attempted) = PathsOf(NamedParameters)
  BY DEF Loading
<1>4. ASSUME NEW j \in DOMAIN Contents, NEW k \in DOMAIN attempted, Contents[j].path = attempted[k].path
      PROVE  Contents[j] = attempted[k]
  <2>1. j \in DOMAIN before /\ j <= Len(NamedParameters)
    BY <1>1 DEF ContentsMatch, LoadedTo
  <2>2. PICK i \in DOMAIN attempted : Contents[j] = attempted[i]
    BY <2>1 DEF LoadedTo, Range
  <2>3. i = k
    BY <1>4, <2>2 DEF FilesInv, IsGathered
  <2> QED
    BY <2>2, <2>3
<1> QED
  BY <1>2, <1>3, <1>4

(* What is left to load, after the first of it.                            *)
LEMMA LessToLoad ==
  ASSUME NEW left, IsSequence(left), left # << >>, NEW less, less = Tail(left)
  PROVE  /\ 1 \in DOMAIN left /\ Head(left) = left[1] /\ Len(left) \in Nat /\ Len(left) >= 1
         /\ IsSequence(less) /\ Len(less) = Len(left) - 1
         /\ \A k \in DOMAIN less : k \in Nat /\ k >= 1 /\ k + 1 \in DOMAIN left /\ less[k] = left[k + 1]
<1>1. PICK m \in Nat : m = Len(left) /\ DOMAIN left = 1..m
  BY SequenceIsAFunction
<1>2. left \in Seq({left[k] : k \in DOMAIN left})
  BY DEF IsSequence
<1>3. m # 0
  BY <1>1, <1>2, EmptySeq
<1>4. /\ less \in Seq({left[k] : k \in DOMAIN left}) /\ Len(less) = m - 1
      /\ \A i \in 1..(m - 1) : less[i] = left[i + 1]
  BY <1>1, <1>2, <1>3, HeadTailProperties
<1>5. IsSequence(less) /\ DOMAIN less = 1..(m - 1)
  BY <1>4, SequenceOfAnything, SequenceIsAFunction
<1>6. Head(left) = left[1]
  OBVIOUS
<1>7. \A k \in 1..(m - 1) : k \in Nat /\ k >= 1 /\ k + 1 \in 1..m
  BY <1>1
<1> QED
  BY <1>1, <1>3, <1>4, <1>5, <1>6, <1>7

(* A turn of load()'s loop: the end, a refusal, or one parameter more.     *)
LEMMA LoadParameterLoads ==
  ASSUME IndicesAreTold, SessionInv, FilesInv, LoadParameter, ModelInv'
  PROVE  FilesInv'
<1>1. io.call = "load" /\ Loading /\ UNCHANGED <<disk, attempted, before>> /\ DOMAIN io = DOMAIN Idle
  BY DEF LoadParameter, FilesInv, SessionInv, FileInv
<1>2. PICK n \in Nat, l \in Nat, m \in Nat :
        n = Len(NamedParameters) /\ l = Len(io.left) /\ m = n - l
  <2>1. ContentsMatch /\ IsSequence(io.left) /\ Len(io.left) <= Len(NamedParameters)
    BY <1>1, ContentsIs DEF Loading, SessionInv
  <2>2. PICK n \in Nat, l \in Nat : n = Len(NamedParameters) /\ l = Len(io.left) /\ l <= n
    BY <2>1, SequenceIsAFunction DEF ContentsMatch
  <2>3. n - l \in Nat
    BY <2>2
  <2> QED
    BY <2>2, <2>3
<1>3. LoadedTo(m) /\ ContentsMatch
  BY <1>1, <1>2, ContentsIs DEF Loading, SessionInv
<1>4. Len(before) = n /\ m \in 0..n /\ IsSequence(before)
  <2>1. IsSequence(before) /\ DOMAIN before = 1..n
    BY <1>2, <1>3 DEF LoadedTo, ContentsMatch, FilesInv
  <2>2. Len(before) \in Nat /\ 1..Len(before) = 1..n
    BY <2>1, SequenceIsAFunction
  <2>3. Len(before) = n
    BY <1>2, <2>2
  <2> QED
    BY <1>2, <2>1, <2>3
<1>5. CASE io.left = << >>
  <2>1. io' = Idle /\ said' = "loaded" /\ UNCHANGED <<attrs, heap>>
    BY <1>5 DEF LoadParameter
  <2>2. /\ NamedParameters' = NamedParameters /\ Contents' = Contents
        /\ Untied(attrs, heap)' = Untied(attrs, heap)
    BY <2>1, SameContents
  <2>3. m = n
    <3>1. l = 0
      BY <1>2, <1>5, EmptySeq
    <3> QED
      BY <1>2, <3>1
  <2>4. /\ PathsOf(Contents) = PathsOf(attempted)
        /\ \A j \in DOMAIN Contents, k \in DOMAIN attempted :
             Contents[j].path = attempted[k].path => Contents[j] = attempted[k]
    BY <1>1, <1>2, <1>3, <2>3, LoadedWhole
  <2>5. LoadedIsSaved'
    BY <1>1, <2>2, <2>4 DEF LoadedIsSaved
  <2>6. FileIsWritten'
    BY <1>1, <2>1 DEF FilesInv, FileIsWritten, Idle
  <2> QED
    BY <1>1, <2>1, <2>2, <2>5, <2>6 DEF FilesInv, Idle
<1>6. CASE io' = Idle /\ said' = "refused" /\ UNCHANGED <<attrs, heap>>
  <2>1. /\ NamedParameters' = NamedParameters /\ Contents' = Contents
        /\ Untied(attrs, heap)' = Untied(attrs, heap)
    BY <1>6, SameContents
  <2>2. LoadedTo(m)'
    BY <1>1, <1>3, <2>1 DEF LoadedTo
  <2>3. FileIsWritten' /\ LoadedIsSaved'
    BY <1>1, <1>6 DEF FilesInv, FileIsWritten, LoadedIsSaved, Idle
  <2>4. m \in 0..Len(before')
    BY <1>1, <1>4
  <2> QED
    BY <1>1, <1>6, <2>1, <2>2, <2>3, <2>4 DEF FilesInv, Idle
<1>7. CASE io.left # << >> /\ ~ (io' = Idle /\ said' = "refused" /\ UNCHANGED <<attrs, heap>>)
  <2>1. PICK named, meta, c :
          /\ named = Head(io.left) /\ meta = Meta(named.path) /\ Acceptable(named, meta)
          /\ c = [shape |-> meta.shape, flat |-> Raw(meta), requires_grad |-> TRUE]
          /\ heap' = Append(heap, c) /\ attrs' = SetByPath(named.path, Len(heap) + 1)
          /\ io' = [io EXCEPT !.left = Tail(@)] /\ said' = said
    BY <1>7 DEF LoadParameter, Refused
  <2>2. PICK left, less : left = io.left /\ less = Tail(left)
    OBVIOUS
  <2>3. IsSequence(left) /\ left # << >>
    BY <1>1, <1>7, <2>2 DEF Loading
  <2>4. /\ 1 \in DOMAIN left /\ Head(left) = left[1] /\ l >= 1
        /\ IsSequence(less) /\ Len(less) = l - 1
        /\ \A k \in DOMAIN less : k \in Nat /\ k >= 1 /\ k + 1 \in DOMAIN left /\ less[k] = left[k + 1]
    BY <1>2, <2>2, <2>3, LessToLoad, ZenonT(60)
  <2>5. /\ io'.call = "load" /\ io'.left = less /\ io'.header = io.header /\ io'.blob = io.blob
    BY <1>1, <2>1, <2>2 DEF Idle
  <2>6. m + 1 \in 1..n /\ n - Len(less) = m + 1
    BY <1>2, <2>4
  <2>7. m + 1 \in DOMAIN NamedParameters /\ named.path = NamedParameters[m + 1].path
        /\ named.tensor = NamedParameters[m + 1].tensor
    BY <1>1, <1>2, <1>3, <2>1, <2>2, <2>4, <2>6, ZenonT(60) DEF Loading, ContentsMatch
  <2>8. PICK j \in DOMAIN attempted :
          /\ attempted[j].path = named.path /\ meta.shape = attempted[j].shape
          /\ Len(Raw(meta)) = meta.size => Raw(meta) = attempted[j].flat
    <3>1. named.path \in PathsOf(NamedParameters)
      BY <2>7 DEF PathsOf
    <3> QED
      BY <1>1, <2>1, <3>1, FindsTheEntry
  <2>9. /\ c.shape = attempted[j].shape /\ c.flat = attempted[j].flat /\ c.requires_grad = TRUE
        /\ heap[named.tensor].shape = c.shape
    BY <2>1, <2>8 DEF Acceptable
  <2>10. /\ Untied(attrs, heap)' /\ Len(NamedParameters') = n
         /\ \A k \in DOMAIN NamedParameters :
              /\ NamedParameters'[k].path = NamedParameters[k].path
              /\ k # m + 1 => NamedParameters'[k].tensor = NamedParameters[k].tensor
         /\ NamedParameters'[m + 1].tensor = Len(heap) + 1
         /\ heap'[Len(heap) + 1] = c /\ \A t \in DOMAIN heap : heap'[t] = heap[t]
    <3>1. PICK i \in DOMAIN NamedParameters : i = m + 1
      BY <2>7
    <3>2. /\ attrs' = SetByPath(NamedParameters[i].path, Len(heap) + 1)
          /\ heap' = Append(heap, c) /\ c.requires_grad = TRUE
      BY <2>1, <2>7, <2>9, <3>1
    <3>3. ModelInv /\ Untied(attrs, heap)
      BY DEF SessionInv, FilesInv
    <3>4. /\ Untied(attrs, heap)' /\ Len(NamedParameters') = Len(NamedParameters)
          /\ \A k \in DOMAIN NamedParameters :
               /\ NamedParameters'[k].path = NamedParameters[k].path
               /\ k # i => NamedParameters'[k].tensor = NamedParameters[k].tensor
          /\ NamedParameters'[i].tensor = Len(heap) + 1
          /\ heap'[Len(heap) + 1] = c /\ \A t \in DOMAIN heap : heap'[t] = heap[t]
      BY <3>2, <3>3, LoadedNames
    <3> QED
      BY <1>2, <3>1, <3>4
  <2>11. ContentsMatch'
    BY ContentsIs, PTL
  <2>12. /\ DOMAIN NamedParameters' = DOMAIN NamedParameters /\ DOMAIN Contents' = DOMAIN Contents
         /\ DOMAIN NamedParameters = 1..n /\ DOMAIN Contents = 1..n
    BY <1>2, <1>3, <2>10, <2>11 DEF ContentsMatch
  <2>13. ASSUME NEW k \in 1..n, k # m + 1 PROVE Contents'[k] = Contents[k]
    <3>1. Contents[k] = Entry(NamedParameters[k].path, heap[NamedParameters[k].tensor])
          /\ NamedParameters[k].tensor \in DOMAIN heap
      BY <1>3, <2>12 DEF ContentsMatch
    <3>2. Contents'[k] = Entry(NamedParameters'[k].path, heap'[NamedParameters'[k].tensor])
      BY <2>11, <2>12 DEF ContentsMatch
    <3>3. /\ NamedParameters'[k].path = NamedParameters[k].path
          /\ NamedParameters'[k].tensor = NamedParameters[k].tensor
      BY <2>10, <2>12, <2>13
    <3> QED
      BY <2>10, <3>1, <3>2, <3>3
  <2>14. Contents'[m + 1] = attempted[j] /\ Contents'[m + 1].shape = Contents[m + 1].shape
    <3>1. Contents'[m + 1] = Entry(named.path, c)
      BY <2>6, <2>7, <2>10, <2>11, <2>12 DEF ContentsMatch
    <3>2. Entry(named.path, c) = Entry(attempted[j].path, attempted[j])
      BY <2>8, <2>9 DEF Entry
    <3>3. Entry(attempted[j].path, attempted[j]) = attempted[j]
      BY DEF FilesInv, IsGathered
    <3>4. Contents[m + 1].shape = c.shape
      BY <1>3, <2>7, <2>9 DEF ContentsMatch
    <3> QED
      BY <2>9, <3>1, <3>2, <3>3, <3>4
  <2>15. LoadedTo(m + 1)'
    <3>1. DOMAIN before = 1..n
      BY <1>3, <2>12 DEF LoadedTo
    <3>2. ASSUME NEW k \in 1..n
          PROVE  /\ Contents'[k].shape = before[k].shape
                 /\ IF k <= m + 1 THEN Contents'[k] \in Range(attempted) ELSE Contents'[k] = before[k]
      <4>1. CASE k = m + 1
        BY <1>3, <2>14, <3>1, <4>1 DEF LoadedTo, Range
      <4>2. CASE k # m + 1
        <5>1. k <= m + 1 <=> k <= m
          BY <1>2, <4>2
        <5> QED
          BY <1>3, <2>13, <3>1, <4>2, <5>1 DEF LoadedTo
      <4> QED
        BY <4>1, <4>2
    <3> QED
      BY <1>1, <2>12, <3>1, <3>2 DEF LoadedTo
  <2>16. PathsOf(NamedParameters') = PathsOf(NamedParameters)
    BY <2>10, <2>12 DEF PathsOf
  <2>17. ASSUME NEW k \in DOMAIN less
         PROVE  /\ less[k].path = NamedParameters'[(m + 1) + k].path
                /\ less[k].tensor = NamedParameters'[(m + 1) + k].tensor
    <3>1. /\ less[k] = left[k + 1] /\ k + 1 \in DOMAIN left /\ k \in Nat /\ k >= 1
      BY <2>4
    <3>2. k + 1 \in 1..l
      BY <1>2, <2>2, <2>3, <3>1, SequenceIsAFunction
    <3>3. m + (k + 1) = (m + 1) + k /\ (m + 1) + k \in 1..n /\ (m + 1) + k # m + 1
      <4>1. PICK i \in Nat : i = k /\ i >= 1 /\ i + 1 <= l
        BY <1>2, <3>1, <3>2
      <4>2. m + l = n
        BY <1>2
      <4> QED
        BY <4>1, <4>2
    <3>4. /\ left[k + 1].path = NamedParameters[m + (k + 1)].path
          /\ left[k + 1].tensor = NamedParameters[m + (k + 1)].tensor
      BY <1>1, <1>2, <2>2, <3>1 DEF Loading
    <3> QED
      BY <2>10, <2>12, <3>1, <3>3, <3>4
  <2>18. Loading'
    <3>1. Len(NamedParameters') - Len(io'.left) = m + 1 /\ Len(io'.left) <= Len(NamedParameters')
      BY <1>2, <2>4, <2>5, <2>6, <2>10, SMTT(60)
    <3>2. PathsOf(attempted)' = PathsOf(NamedParameters)'
      BY <1>1, <2>16 DEF Loading
    <3>3. /\ said' = "nothing" /\ Len(disk') >= 3 /\ io'.header = Header(attempted')
          /\ io'.blob = [k \in 1..(Len(disk') - 3) |-> disk'[k + 3][2]]
      BY <1>1, <2>1, <2>5 DEF Loading
    <3> QED
      BY <2>4, <2>5, <2>15, <2>17, <3>1, <3>2, <3>3 DEF Loading
  <2>19. FileIsWritten' /\ LoadedIsSaved'
    BY <1>1, <2>1, <2>5 DEF FilesInv, FileIsWritten, LoadedIsSaved, Loading
  <2>20. said' = "nothing"
    BY <1>1, <2>1 DEF Loading
  <2> QED
    BY <1>1, <2>5, <2>10, <2>18, <2>19, <2>20 DEF FilesInv
<1> QED
  BY <1>5, <1>6, <1>7

(* The tensors are the same ones after a turn of the loop.                 *)
LEMMA TrainingLeavesFiles ==
  ASSUME SessionInv, FilesInv, TrainOnBatch
  PROVE  FilesInv'
<1>1. /\ io = Idle /\ said' = "nothing" /\ UNCHANGED <<attrs, disk, io, attempted, before>>
  BY DEF TrainOnBatch
<1>2. PICK s, r, grad, next : /\ LearnsFrom(s, r, grad) /\ next = SchedulerStep(sched, r.opt.lr)
                              /\ BecomesOf(r, next, grad)
  BY TrainedOn
<1>3. SameTensors(heap, heap')
  BY <1>2 DEF LearnsFrom, Stepped, Kept, BecomesOf
<1>4. Trained(heap') = Trained(heap)
  BY <1>3 DEF SameTensors, Trained
<1>5. Untied(attrs, heap)'
  BY <1>1, <1>4, UntiedIs DEF FilesInv
<1>6. FileIsWritten' /\ LoadedIsSaved'
  BY <1>1 DEF FilesInv, FileIsWritten, LoadedIsSaved
<1> QED
  BY <1>1, <1>5, <1>6 DEF FilesInv, Idle

(* Another process finds the file as it is.                                *)
LEMMA RebootLeavesFiles ==
  ASSUME UntiedArchitectures, FilesInv, Reboot
  PROVE  FilesInv'
<1>1. /\ io' = Idle /\ said' = "nothing" /\ UNCHANGED <<disk, attempted, before>>
      /\ \E a \in Architectures : attrs' = a.attrs /\ heap' = a.heap
  BY DEF Reboot, Restart
<1>2. Untied(attrs, heap)'
  BY <1>1 DEF UntiedArchitectures
<1>3. FileIsWritten' /\ LoadedIsSaved'
  BY <1>1 DEF FilesInv, FileIsWritten, LoadedIsSaved, Idle
<1> QED
  BY <1>1, <1>2, <1>3 DEF FilesInv, Idle

(* FilesInv is inductive, together with SessionInv.                        *)
LEMMA FilesInvHolds ==
  ASSUME IndicesAreTold, UntiedArchitectures
  PROVE  Spec => []FilesInv
<1>1. SessionInv /\ SessionInv' /\ FilesInv /\ [Next]_vars => FilesInv'
  <2> SUFFICES ASSUME SessionInv, SessionInv', FilesInv, [Next]_vars PROVE FilesInv'
    OBVIOUS
  <2>1. CASE TrainOnBatch
    BY <2>1, TrainingLeavesFiles
  <2>2. CASE Save
    BY <2>2, SaveWrites DEF Save
  <2>3. CASE Load
    BY <2>3, LoadReads DEF Load
  <2>4. CASE GoOn
    BY <2>4, WriteWrites, LoadParameterLoads DEF GoOn, SessionInv
  <2>5. CASE Reboot
    BY <2>5, RebootLeavesFiles
  <2>6. CASE UNCHANGED checkpointVars
    BY <2>6, FilesAreLeft
  <2>7. CASE EndEpoch \/ BeginEpoch \/ Break \/ (\E shape \in Shapes : CallJit(shape))
             \/ (\E mode \in BOOLEAN : SetMode(mode)) \/ MakeOptimizerAgain \/ Quantize \/ LookAtData
             \/ UNCHANGED vars
    BY <2>6, <2>7 DEF EndEpoch, BeginEpoch, Break, CallJit, SetMode, MakeOptimizerAgain, Quantize,
                      LookAtData, vars
  <2> QED
    BY <2>1, <2>2, <2>3, <2>4, <2>5, <2>7 DEF Next, TrainingLoop
<1>2. Init => FilesInv
  BY FilesBegin
<1> QED
  BY <1>1, <1>2, SessionInvHolds, PTL DEF Spec

(***************************************************************************)
(* Results                                                                 *)
(***************************************************************************)
(* Whatever is trained, saved, loaded, traced, started again, and in which *)
(* order: an optimizer made since the last load() holds the module's own   *)
(* parameters (optim.py:31-45, serialize.py:89-114).                       *)
THEOREM OptimizersLearnTheModel == Spec => []LearningReachesTheModel
<1>1. SessionInv => LearningReachesTheModel
  BY DEF SessionInv, LearningInv
<1> QED
  BY <1>1, SessionInvHolds, PTL

(* A graph that jit has kept computes with the module's own tensors, and   *)
(* with a mask its mode may draw, unless a load(), train() or eval() came  *)
(* between (kir.py:22-30, 536-555).                                        *)
THEOREM TracesStayCurrent == Spec => []JitMatchesEager
<1>1. SessionInv => JitMatchesEager
  <2> SUFFICES ASSUME SessionInv, NEW shape \in DOMAIN cache, cache[shape] # Untraced,
                      cache[shape].loads = loads, cache[shape].training = training
               PROVE  /\ Replayed(cache[shape]) = [i \in DOMAIN Parameters |-> heap[Parameters[i]].flat]
                      /\ cache[shape].mask \in MasksIn(training)
    BY DEF JitMatchesEager
  <2>1. /\ cache[shape].tensors = Parameters /\ cache[shape].flats = << >>
        /\ cache[shape].mask \in MasksIn(training)
    BY DEF SessionInv, TracesInv, TraceInv
  <2> QED
    BY <2>1 DEF Replayed
<1> QED
  BY <1>1, SessionInvHolds, PTL

(* Every sample once in an epoch, and as many batches as __len__ says.     *)
THEOREM EpochsAreComplete == LoaderSpec => []EverySampleOnce
BY LoaderInvIsEnough, LoaderInvHolds, PTL

(* The batches of the training loop, and of an iterator beside it, are an  *)
(* order of the samples cut into batches, in every epoch (data.py:76-94).  *)
THEOREM SessionEpochsAreComplete == Spec => []EverySampleOnce
<1>1. SessionInv => EverySampleOnce
  BY LoaderInvIsEnough DEF SessionInv
<1> QED
  BY <1>1, SessionInvHolds, PTL

(* Every weight is within half a step of what it is quantized to, whatever *)
(* was trained, loaded or restarted before (quantize.py:28-33, 47-75).     *)
THEOREM QuantizationIsClose == Spec => []QuantizedIsClose
<1>1. SessionInv => QuantizedIsClose
  BY DEF SessionInv
<1> QED
  BY <1>1, SessionInvHolds, PTL

(* The rate of the optimizer is the schedule's after as many steps, over   *)
(* steps, restarts and new optimizers, but for the rate before the first   *)
(* call of a warm-up, which is the base (optim.py:239-316).                *)
THEOREM RatesFollowTheSchedule == Spec => []ScheduleIsClosedForm
<1>1. SessionInv => ScheduleIsClosedForm
  <2> SUFFICES ASSUME SessionInv, calls > 0 \/ sched.warmup = 0
               PROVE  opt.lr = ScheduledLr(sched, calls)
    BY DEF ScheduleIsClosedForm
  <2>1. calls \in Nat /\ SteppedTimes(sched, calls) /\ opt.lr = CurrentLr(sched, calls)
    BY DEF SessionInv, RateInv
  <2>2. sched.warmup \in Nat
    BY <2>1, PAssumption DEF SteppedTimes, IsScheduler
  <2> QED
    BY <2>1, <2>2, ScheduledLrIs
<1> QED
  BY <1>1, SessionInvHolds, PTL

(* SGD's buffers are the decayed sums of what they were given, also of     *)
(* parameters that were left out of some steps (optim.py:35-49).           *)
THEOREM MomentumSums == Spec => []MomentumIsDecayedSum
<1>1. SessionInv /\ HistoryInv => MomentumIsDecayedSum
  <2> SUFFICES ASSUME SessionInv, HistoryInv, plan.optimizer.kind = "sgd", plan.optimizer.momentum # 0,
                      NEW i \in DOMAIN given
               PROVE  IF given[i] = << >> THEN opt.buf[i] = << >>
                      ELSE \A k \in DOMAIN given[i][1] :
                             opt.buf[i][k] = DecayedSum(given[i], k, opt.momentum)
    BY DEF MomentumIsDecayedSum
  <2>1. PICK n : n = Len(opt.m[i])
    OBVIOUS
  <2>2. BufferIsSum(opt, i, given[i], n) /\ IsHistory(given[i], n, calls) /\ opt.momentum # 0
    BY <2>1 DEF HistoryInv, Learned, SessionInv, LearningInv
  <2>3. CASE given[i] # << >>
    <3>1. 1 \in DOMAIN given[i] /\ given[i][1] \in Row(n)
      <4>1. PICK gs : gs = given[i]
        OBVIOUS
      <4>2. IsSequence(gs) /\ gs # << >>
        BY <2>2, <2>3, <4>1 DEF IsHistory
      <4>3. 1 \in DOMAIN gs
        BY <4>2, SequenceIsAFunction, EmptySeq DEF IsSequence
      <4> QED
        BY <2>2, <4>1, <4>3 DEF IsHistory
    <3>2. DOMAIN given[i][1] = 1..n
      BY <3>1 DEF Row
    <3> QED
      BY <2>2, <2>3, <3>2 DEF BufferIsSum
  <2> QED
    BY <2>2, <2>3 DEF BufferIsSum
<1> QED
  BY <1>1, SessionInvHolds, HistoryInvHolds, PTL

(* Adam's corrected moments of a gradient that stays the same are that     *)
(* gradient and its square, from the first step on (optim.py:94-135).      *)
THEOREM MomentsAreUnbiased == Spec => []BiasIsCorrected
<1>1. SessionInv /\ HistoryInv => BiasIsCorrected
  <2> SUFFICES ASSUME SessionInv, HistoryInv, plan.optimizer.kind \in {"adam", "adamw"},
                      NEW i \in DOMAIN given, Len(given[i]) = calls,
                      \A n \in DOMAIN given[i] : given[i][n] = given[i][1],
                      NEW c \in Range(given[i])
               PROVE  /\ opt.m[i] = Scaled(c, 1 - Power(opt.beta1, opt.t))
                      /\ opt.v[i] = Scaled(Times(c, c), 1 - Power(opt.beta2, opt.t))
    BY DEF BiasIsCorrected
  <2>1. opt.kind # "sgd" /\ opt.t = calls
    BY DEF HistoryInv, SessionInv, LearningInv
  <2>2. PICK n : n = Len(opt.m[i])
    OBVIOUS
  <2>3. MomentsAreParts(opt, i, given[i], calls, n) /\ IsHistory(given[i], n, calls)
    BY <2>1, <2>2 DEF HistoryInv, Learned
  <2>4. PICK j \in DOMAIN given[i] : c = given[i][j]
    BY DEF Range
  <2>5. c \in Row(n) /\ Constantly(given[i], c, calls)
    BY <2>3, <2>4 DEF IsHistory, Constantly
  <2>6. MomentsOf(opt, i, c, calls)
    BY <2>3, <2>5 DEF MomentsAreParts
  <2> QED
    BY <2>1, <2>6 DEF MomentsOf
<1> QED
  BY <1>1, SessionInvHolds, HistoryInvHolds, PTL

(* A file that is loaded is the one that was saved, whole, for every model *)
(* in which no two names lead to one attribute, however often it was       *)
(* trained, saved, loaded and stopped (serialize.py:117-199).              *)
THEOREM LoadsAreWhole ==
  ASSUME IndicesAreTold, UntiedArchitectures
  PROVE  Spec => []LoadedIsSaved
<1>1. FilesInv => LoadedIsSaved
  BY DEF FilesInv
<1> QED
  BY <1>1, FilesInvHolds, PTL

(* A load() that raises leaves the first parameters loaded and the others  *)
(* as they were, all of their shapes (serialize.py:173-199).               *)
THEOREM RefusalsLeaveAPrefix ==
  ASSUME IndicesAreTold, UntiedArchitectures
  PROVE  Spec => []RefusedLoadIsAPrefix
<1>1. FilesInv => RefusedLoadIsAPrefix
  BY DEF FilesInv, RefusedLoadIsAPrefix, LoadedTo
<1> QED
  BY <1>1, FilesInvHolds, PTL
==============================================================================
