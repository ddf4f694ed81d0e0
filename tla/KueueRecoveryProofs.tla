------------------------ MODULE KueueRecoveryProofs ------------------------
(***************************************************************************)
(* KueueRecovery for any batch size, key width and number of puts: first   *)
(* the encoding of keys, then the queue over restarts and power failures,  *)
(* then the refinement of DurableQueue.  The theorems about the reopened   *)
(* queue assume that no iterator of the constructor meets a read error:    *)
(* with one they are false.                                                *)
(***************************************************************************)
EXTENDS KueueRecovery, WindowProofs, FiniteSetTheorems, WellFoundedInduction, TLAPS

(***************************************************************************)
(* The encoding of keys.                                                   *)
(***************************************************************************)
(* A nonempty set of natural numbers has a least element. *)
LEMMA Least ==
  ASSUME NEW S \in SUBSET Nat, S # {}
  PROVE  \E n \in S : \A m \in S : n <= m
<1> DEFINE R == OpToRel(<, Nat)
<1>1. IsWellFoundedOn(R, Nat)
  BY Zenon, NatLessThanWellFounded
<1>2. \A x, y \in Nat : <<y, x>> \in R <=> y < x
  BY DEF OpToRel
<1> HIDE DEF R
<1>3. PICK n \in S : \A y \in S : ~(<<y, n>> \in R)
  BY Zenon, <1>1, WFMin
<1>4. \A y \in S : ~(y < n)
  BY Zenon, <1>2, <1>3
<1> QED
  BY <1>4

(* Induction over an interval, with the induction hypothesis as a set. *)
LEMMA IntervalInduction ==
  ASSUME NEW N \in Nat, NEW S, 0 \in S, \A n \in 1 .. N : n - 1 \in S => n \in S
  PROVE  0 .. N \subseteq S
<1> DEFINE T == (0 .. N) \ S
<1> SUFFICES ASSUME T # {} PROVE FALSE
  OBVIOUS
<1>0. T \in SUBSET Nat
  OBVIOUS
<1> HIDE DEF T
<1>1. PICK n \in T : \A m \in T : n <= m
  BY <1>0, Least
<1> USE DEF T
<1>2. n \in 1 .. N /\ n - 1 \in 0 .. N
  OBVIOUS
<1>3. n - 1 \notin T
  BY <1>1, <1>2
<1> QED
  BY <1>1, <1>2, <1>3

-----------------------------------------------------------------------------
(* A function that satisfies the equation of Weight up to m. *)
WeightUpTo(g, m) ==
  /\ g \in [0 .. Width -> Nat]
  /\ g[0] = 1
  /\ \A n \in 1 .. m : g[n] = Base * g[n - 1]

(* The equation has a solution. *)
LEMMA WeightExists == \E g : WeightUpTo(g, Width)
<1> USE CodecAssumption
<1> DEFINE S == {m \in 0 .. Width : \E g : WeightUpTo(g, m)}
<1>1. 0 \in S
  <2>1. WeightUpTo([n \in 0 .. Width |-> 1], 0)
    BY DEF WeightUpTo
  <2> QED
    BY <2>1
<1>2. ASSUME NEW m \in 1 .. Width, m - 1 \in S PROVE m \in S
  <2>1. PICK g : WeightUpTo(g, m - 1)
    BY <1>2
  <2> DEFINE h == [g EXCEPT ![m] = Base * g[m - 1]]
  <2>2. g \in [0 .. Width -> Nat] /\ g[0] = 1 /\ \A n \in 1 .. (m - 1) : g[n] = Base * g[n - 1]
    BY <2>1 DEF WeightUpTo
  <2>3. m - 1 \in 0 .. Width /\ Base * g[m - 1] \in Nat
    BY <2>2
  <2>4. h \in [0 .. Width -> Nat] /\ h[m] = Base * g[m - 1]
    BY <2>2, <2>3
  <2>5. \A n \in 0 .. Width : n # m => h[n] = g[n]
    BY <2>2
  <2>6. ASSUME NEW n \in 1 .. m PROVE h[n] = Base * h[n - 1]
    <3>1. h[n - 1] = g[n - 1]
      BY <2>5
    <3> QED
      BY <2>2, <2>4, <2>5, <3>1
  <2>7. WeightUpTo(h, m)
    BY <2>2, <2>4, <2>5, <2>6 DEF WeightUpTo
  <2> QED
    BY <2>7
<1> HIDE DEF S
<1>3. 0 .. Width \subseteq S
  BY <1>1, <1>2, IntervalInduction
<1> QED
  BY <1>3 DEF S

(* Weight is well defined: each weight is Base times the one before. *)
LEMMA WeightFact ==
  /\ Weight[0] = 1
  /\ \A n \in 1 .. Width : Weight[n] = Base * Weight[n - 1]
<1> USE CodecAssumption
<1> DEFINE F(g) == [n \in 0 .. Width |-> IF n = 0 THEN 1 ELSE Base * g[n - 1]]
<1>1. PICK g : WeightUpTo(g, Width)
  BY WeightExists
<1>2. g = F(g)
  BY <1>1 DEF WeightUpTo
<1>3. Weight = CHOOSE f : f = F(f)
  BY DEF Weight
<1>4. Weight = F(Weight)
  BY Zenon, <1>2, <1>3
<1>5. ASSUME NEW f, f = F(f)
      PROVE  f[0] = 1 /\ \A n \in 1 .. Width : f[n] = Base * f[n - 1]
  <2>1. \A n \in 0 .. Width : f[n] = IF n = 0 THEN 1 ELSE Base * f[n - 1]
    BY Zenon, <1>5
  <2> QED
    BY <2>1
<1> QED
  BY Zenon, <1>4, <1>5

(* Weights are positive. *)
LEMMA WeightType == \A n \in 0 .. Width : Weight[n] \in Nat \ {0}
<1> USE CodecAssumption
<1> DEFINE S == {n \in 0 .. Width : Weight[n] \in Nat \ {0}}
<1>1. 0 \in S
  BY WeightFact
<1>2. ASSUME NEW n \in 1 .. Width, n - 1 \in S PROVE n \in S
  <2>1. Weight[n] = Base * Weight[n - 1] /\ Weight[n - 1] \in Nat \ {0}
    BY <1>2, WeightFact
  <2> QED
    BY <2>1
<1> HIDE DEF S
<1>3. 0 .. Width \subseteq S
  BY <1>1, <1>2, IntervalInduction
<1> QED
  BY <1>3 DEF S

(* There is a largest key. *)
LEMMA KeyBound == MAX_KEY \in Nat
BY CodecAssumption, WeightType DEF MAX_KEY

-----------------------------------------------------------------------------
(* Division with remainder. *)
LEMMA Division ==
  ASSUME NEW x \in Nat, NEW b \in Nat \ {0}
  PROVE  /\ x \div b \in Nat
         /\ x % b \in 0 .. (b - 1)
         /\ x = b * (x \div b) + (x % b)
OBVIOUS

(* The quotient is determined by the remainder being small. *)
LEMMA QuotientUnique ==
  ASSUME NEW b \in Nat \ {0}, NEW q \in Nat, NEW p \in Nat, NEW r \in 0 .. (b - 1), NEW s \in 0 .. (b - 1),
         b * q + r = b * p + s
  PROVE  q = p
<1>1. ASSUME NEW u \in Nat, NEW v \in Nat, u < v PROVE b * u + b <= b * v
  <2>1. PICK d \in Nat : v = u + 1 + d
    <3>1. v - u - 1 \in Nat /\ v = u + 1 + (v - u - 1)
      BY <1>1
    <3> QED
      BY <3>1
  <2>2. b * v = b * u + b + b * d
    BY <2>1
  <2>3. b * d \in Nat /\ b * u \in Nat
    OBVIOUS
  <2> QED
    BY <2>2, <2>3
<1>2. b * q \in Nat /\ b * p \in Nat
  OBVIOUS
<1>3. ~(q < p) /\ ~(p < q)
  BY <1>1, <1>2
<1> QED
  BY <1>3

(* Division by a, then by b, is division by their product. *)
LEMMA DivDiv ==
  ASSUME NEW x \in Nat, NEW a \in Nat \ {0}, NEW b \in Nat \ {0}
  PROVE  (x \div a) \div b = x \div (b * a)
<1> DEFINE q == x \div a
           r == x % a
           p == q \div b
           s == q % b
<1>1. q \in Nat /\ r \in 0 .. (a - 1) /\ x = a * q + r
  BY Zenon, Division
<1> HIDE DEF q, r
<1>2. p \in Nat /\ s \in 0 .. (b - 1) /\ q = b * p + s
  BY Zenon, <1>1, Division
<1> HIDE DEF p, s
<1>3. b * a \in Nat \ {0}
  OBVIOUS
<1> DEFINE c == b * a
           t == x \div c
           u == x % c
<1> HIDE DEF c
<1>4. c \in Nat \ {0}
  BY <1>3 DEF c
<1>5. t \in Nat /\ u \in 0 .. (c - 1) /\ x = c * t + u
  BY Zenon, <1>4, Division
<1> HIDE DEF t, u
<1>6. a * s + r \in 0 .. (c - 1)
  <2>1. PICK d \in Nat : b = s + 1 + d
    <3>1. b - s - 1 \in Nat /\ b = s + 1 + (b - s - 1)
      BY <1>2
    <3> QED
      BY <3>1
  <2>2. c = a * s + a + a * d
    BY <1>2, <2>1 DEF c
  <2>3. a * d \in Nat /\ a * s \in Nat
    BY <1>2
  <2> QED
    BY <1>1, <2>2, <2>3
<1>7. x = c * p + (a * s + r)
  BY <1>1, <1>2 DEF c
<1>8. p = t
  BY <1>2, <1>4, <1>5, <1>6, <1>7, QuotientUnique
<1> QED
  BY <1>8 DEF p, q, t, c

(* Division is monotonic. *)
LEMMA DivMonotonic ==
  ASSUME NEW x \in Nat, NEW y \in Nat, NEW b \in Nat \ {0}, x <= y
  PROVE  x \div b <= y \div b
<1> DEFINE q == x \div b
           r == x % b
           p == y \div b
           s == y % b
<1>1. q \in Nat /\ r \in 0 .. (b - 1) /\ x = b * q + r
  BY Zenon, Division
<1>2. p \in Nat /\ s \in 0 .. (b - 1) /\ y = b * p + s
  BY Zenon, Division
<1> HIDE DEF q, r, p, s
<1>3. ASSUME p < q PROVE FALSE
  <2>1. PICK d \in Nat : q = p + 1 + d
    <3>1. q - p - 1 \in Nat /\ q = p + 1 + (q - p - 1)
      BY <1>1, <1>2, <1>3
    <3> QED
      BY <3>1
  <2>2. b * q = b * p + b + b * d
    BY <1>2, <2>1
  <2>3. b * d \in Nat /\ b * p \in Nat
    BY <1>2
  <2> QED
    BY <1>1, <1>2, <2>2, <2>3
<1>4. q <= p
  BY <1>1, <1>2, <1>3
<1> QED
  BY <1>4 DEF q, p

-----------------------------------------------------------------------------
(* The first i bytes of x, as a number. *)
Prefix(x, i) == x \div Weight[Width - i]

(* Each byte extends the number that the bytes before it make. *)
LEMMA Prefixes ==
  ASSUME NEW x \in Keys
  PROVE  /\ x \in Nat
         /\ Prefix(x, 0) = 0
         /\ Prefix(x, Width) = x
         /\ \A i \in 0 .. Width : Prefix(x, i) \in Nat
         /\ \A i \in 1 .. Width :
              /\ putU64BE(x)[i] \in 0 .. (Base - 1)
              /\ Prefix(x, i) = Base * Prefix(x, i - 1) + putU64BE(x)[i]
<1> USE CodecAssumption
<1>1. Weight[0] = 1 /\ Weight[Width] \in Nat \ {0}
  BY WeightFact, WeightType
<1>2. x \in Nat /\ x < Weight[Width]
  BY <1>1 DEF Keys, MAX_KEY
<1>3. Prefix(x, 0) = 0
  <2> DEFINE w == Weight[Width]
             q == x \div w
             r == x % w
  <2>1. w \in Nat \ {0} /\ x < w
    BY <1>1, <1>2
  <2> HIDE DEF w
  <2>2. q \in Nat /\ r \in 0 .. (w - 1) /\ x = w * q + r
    BY Zenon, <1>2, <2>1, Division
  <2> HIDE DEF q, r
  <2>3. w * q + r = w * 0 + x /\ x \in 0 .. (w - 1) /\ 0 \in Nat
    BY <1>2, <2>1, <2>2
  <2>4. q = 0
    BY <2>1, <2>2, <2>3, QuotientUnique
  <2>5. Width - 0 = Width
    OBVIOUS
  <2> QED
    BY Zenon, <2>4, <2>5 DEF Prefix, q, w
<1>4. Prefix(x, Width) = x
  <2>1. Width - Width = 0
    OBVIOUS
  <2>2. x \div 1 = x
    BY <1>2
  <2> QED
    BY Zenon, <1>1, <2>1, <2>2 DEF Prefix
<1>5. ASSUME NEW i \in 0 .. Width PROVE Prefix(x, i) \in Nat
  <2>1. Weight[Width - i] \in Nat \ {0}
    BY WeightType
  <2> QED
    BY Zenon, <1>2, <2>1, Division DEF Prefix
<1>6. ASSUME NEW i \in 1 .. Width
      PROVE  /\ putU64BE(x)[i] \in 0 .. (Base - 1)
             /\ Prefix(x, i) = Base * Prefix(x, i - 1) + putU64BE(x)[i]
  <2> DEFINE w == Weight[Width - i]
             v == Weight[Width - (i - 1)]
             q == x \div w
  <2>1. /\ Width - i \in 0 .. Width
        /\ Width - (i - 1) \in 1 .. Width
        /\ (Width - (i - 1)) - 1 = Width - i
    OBVIOUS
  <2>2. w \in Nat \ {0} /\ v = Base * w
    BY Zenon, <2>1, WeightFact, WeightType
  <2> HIDE DEF w, v
  <2>3. q \in Nat
    BY Zenon, <1>2, <2>2, Division
  <2>4. x \div v = q \div Base
    <3>1. Base \in Nat \ {0}
      OBVIOUS
    <3>2. q \div Base = x \div (Base * w)
      BY Zenon, <1>2, <2>2, <3>1, DivDiv
    <3> QED
      BY Zenon, <2>2, <3>2
  <2> HIDE DEF q
  <2>5. q % Base \in 0 .. (Base - 1) /\ q = Base * (q \div Base) + (q % Base)
    BY Zenon, <2>3, Division
  <2>6. putU64BE(x)[i] = q % Base
    BY Zenon DEF putU64BE, q, w
  <2>7. Prefix(x, i) = q /\ Prefix(x, i - 1) = x \div v
    BY Zenon DEF Prefix, q, w, v
  <2> QED
    BY Zenon, <2>4, <2>5, <2>6, <2>7
<1> QED
  BY Zenon, <1>2, <1>3, <1>4, <1>5, <1>6

(* Reading the bytes of a key gives the key. *)
LEMMA Decode ==
  ASSUME NEW x \in Keys
  PROVE  getU64BE(putU64BE(x)) = x
<1> USE CodecAssumption
<1> DEFINE b == putU64BE(x)
           F(f) == [n \in 0 .. Width |-> IF n = 0 THEN 0 ELSE f[n - 1] * Base + b[n]]
           V == CHOOSE f : f = F(f)
           g == [n \in 0 .. Width |-> Prefix(x, n)]
<1>1. getU64BE(b) = V[Width]
  BY DEF getU64BE
<1> HIDE DEF b
<1>2. /\ Prefix(x, 0) = 0
      /\ Prefix(x, Width) = x
      /\ \A i \in 0 .. Width : Prefix(x, i) \in Nat
      /\ \A i \in 1 .. Width : Prefix(x, i) = Base * Prefix(x, i - 1) + b[i] /\ b[i] \in Nat
  BY Prefixes DEF b
<1>3. g = F(g)
  <2>1. ASSUME NEW n \in 0 .. Width PROVE g[n] = F(g)[n]
    <3>1. CASE n = 0
      BY <1>2, <3>1
    <3>2. CASE n # 0
      <4>1. n \in 1 .. Width /\ n - 1 \in 0 .. Width
        BY <3>2
      <4>2. Base * Prefix(x, n - 1) = Prefix(x, n - 1) * Base
        BY <1>2, <4>1
      <4> QED
        BY <1>2, <3>2, <4>1, <4>2
    <3> QED
      BY <3>1, <3>2
  <2> QED
    BY Zenon, <2>1
<1>4. V = F(V)
  BY Zenon, <1>3
<1> HIDE DEF V
<1>5. ASSUME NEW f, f = F(f) PROVE f[Width] = x
  <2>1. \A n \in 0 .. Width : f[n] = IF n = 0 THEN 0 ELSE f[n - 1] * Base + b[n]
    BY Zenon, <1>5
  <2> DEFINE S == {n \in 0 .. Width : f[n] = Prefix(x, n)}
  <2>2. 0 \in S
    BY <1>2, <2>1
  <2>3. ASSUME NEW n \in 1 .. Width, n - 1 \in S PROVE n \in S
    <3>1. f[n] = Prefix(x, n - 1) * Base + b[n]
      BY <2>1, <2>3
    <3>2. Base * Prefix(x, n - 1) = Prefix(x, n - 1) * Base
      BY <1>2
    <3> QED
      BY <1>2, <3>1, <3>2
  <2> HIDE DEF S
  <2>4. 0 .. Width \subseteq S
    BY <2>2, <2>3, IntervalInduction
  <2> QED
    BY <1>2, <2>4 DEF S
<1> QED
  BY Zenon, <1>1, <1>4, <1>5 DEF b

(* The store's order of the byte strings is the order of the keys. *)
LEMMA Order ==
  ASSUME NEW x \in Keys, NEW y \in Keys
  PROVE  Before(putU64BE(x), putU64BE(y)) <=> x < y
<1> USE CodecAssumption
<1> DEFINE a == putU64BE(x)
           b == putU64BE(y)
           P(i) == Prefix(x, i)
           Q(i) == Prefix(y, i)
<1>1. /\ x \in Nat /\ P(0) = 0 /\ P(Width) = x
      /\ \A i \in 0 .. Width : P(i) \in Nat
      /\ \A i \in 1 .. Width : a[i] \in Nat /\ P(i) = Base * P(i - 1) + a[i]
  BY Prefixes
<1>2. /\ y \in Nat /\ Q(0) = 0 /\ Q(Width) = y
      /\ \A i \in 0 .. Width : Q(i) \in Nat
      /\ \A i \in 1 .. Width : b[i] \in Nat /\ Q(i) = Base * Q(i - 1) + b[i]
  BY Prefixes
<1>3. ASSUME NEW i \in 0 .. Width
      PROVE  (x <= y => P(i) <= Q(i)) /\ (y <= x => Q(i) <= P(i))
  <2>1. Weight[Width - i] \in Nat \ {0}
    BY WeightType
  <2> QED
    BY Zenon, <1>1, <1>2, <2>1, DivMonotonic DEF Prefix
<1> HIDE DEF a, b, P, Q
<1>4. ASSUME NEW i \in 1 .. Width, a[i] < b[i], \A j \in 1 .. (i - 1) : a[j] = b[j]
      PROVE  x < y
  <2> DEFINE S == {n \in 0 .. Width : n < i => P(n) = Q(n)}
  <2>1. 0 \in S
    BY <1>1, <1>2
  <2>2. ASSUME NEW n \in 1 .. Width, n - 1 \in S PROVE n \in S
    <3> SUFFICES ASSUME n < i PROVE P(n) = Q(n)
      OBVIOUS
    <3>1. P(n - 1) = Q(n - 1) /\ a[n] = b[n]
      BY <1>4, <2>2
    <3> QED
      BY <1>1, <1>2, <3>1
  <2> HIDE DEF S
  <2>3. 0 .. Width \subseteq S
    BY <2>1, <2>2, IntervalInduction
  <2>4. P(i - 1) = Q(i - 1) /\ Base * P(i - 1) \in Nat
    BY <1>1, <2>3 DEF S
  <2>5. P(i) = Base * P(i - 1) + a[i] /\ Q(i) = Base * P(i - 1) + b[i] /\ a[i] \in Nat /\ b[i] \in Nat
    BY <1>1, <1>2, <2>4
  <2>6. P(i) < Q(i)
    BY <1>4, <2>4, <2>5
  <2> QED
    BY <1>1, <1>2, <1>3, <2>6
<1>5. ASSUME x < y
      PROVE  \E i \in 1 .. Width : a[i] < b[i] /\ \A j \in 1 .. (i - 1) : a[j] = b[j]
  <2> DEFINE D == {n \in 0 .. Width : P(n) # Q(n)}
  <2>1. D \in SUBSET Nat /\ Width \in D
    BY <1>1, <1>2, <1>5
  <2> HIDE DEF D
  <2>2. PICK i \in D : \A m \in D : i <= m
    BY <2>1, Least
  <2>3. i \in 1 .. Width /\ P(i) # Q(i)
    BY <1>1, <1>2 DEF D
  <2>4. \A j \in 0 .. (i - 1) : P(j) = Q(j)
    BY <2>2, <2>3 DEF D
  <2>5. a[i] < b[i]
    <3>0. x <= y /\ P(i) \in Nat /\ Q(i) \in Nat /\ i \in 0 .. Width
      BY <1>1, <1>2, <1>5, <2>3
    <3>1. P(i) < Q(i)
      BY <1>3, <2>3, <3>0
    <3>2. P(i - 1) = Q(i - 1) /\ Base * P(i - 1) \in Nat
      BY <1>1, <2>3, <2>4
    <3>3. P(i) = Base * P(i - 1) + a[i] /\ Q(i) = Base * P(i - 1) + b[i] /\ a[i] \in Nat /\ b[i] \in Nat
      BY <1>1, <1>2, <2>3, <3>2
    <3> QED
      BY <3>1, <3>2, <3>3
  <2>6. ASSUME NEW j \in 1 .. (i - 1) PROVE a[j] = b[j]
    <3>1. P(j) = Q(j) /\ P(j - 1) = Q(j - 1) /\ j \in 1 .. Width /\ j - 1 \in 0 .. Width
      BY <2>3, <2>4
    <3>2. P(j) = Base * P(j - 1) + a[j] /\ P(j) = Base * P(j - 1) + b[j] /\ a[j] \in Nat /\ b[j] \in Nat
      BY Zenon, <1>1, <1>2, <3>1
    <3>3. Base * P(j - 1) \in Nat
      BY <1>1, <3>1
    <3> QED
      BY <3>2, <3>3
  <2> QED
    BY <2>3, <2>5, <2>6
<1> QED
  BY <1>4, <1>5 DEF Before, a, b

(* The encoding is right for every base and width: reading the bytes of a  *)
(* key gives the key, and the store, which compares bytes, orders the keys *)
(* as the integers they are (putU64BE, getU64BE, Slice::compare).          *)
THEOREM CodecCorrect == \A x \in Keys : CodecAt(x)
BY Zenon, Decode, Order DEF CodecAt

-----------------------------------------------------------------------------
Content == [Keys -> Nat]

(* What holds of every content the store may have after a power failure:   *)
(* the keys are a window, the messages in it are in order, and those that  *)
(* a call had removed are few and come first.                              *)
Sound(c, removed, last) ==
  /\ \E lo, hi \in Keys : lo <= hi /\ StoredIn(c) = lo .. (hi - 1)
  /\ \A j, k \in StoredIn(c) :
       j < k => c[j] < c[k] /\ (c[k] \in removed => c[j] \in removed)
  /\ \A k \in Keys : c[k] <= last
  /\ Cardinality(removed \cap MessagesIn(c)) < BatchSize

(* The messages by which two contents differ. *)
Diff(c, d) == Cardinality(MessagesIn(c) \ MessagesIn(d))
                + Cardinality(MessagesIn(d) \ MessagesIn(c))

(* An earlier content differs from the present one by at most one message  *)
(* per write since, and by no message that left without being removed.     *)
Near(c, d, removed, writes) ==
  /\ MessagesIn(c) \ MessagesIn(d) \subseteq removed
  /\ Diff(c, d) <= writes

(* The contents a power failure may fall back to, oldest first. *)
Past(u, d, removed, last) ==
  \A i \in 1 .. Len(u) :
    /\ Sound(u[i], removed, last)
    /\ Near(u[i], d, removed, Len(u) + 1 - i)

(* The inductive invariant. *)
RInv ==
  /\ TypeOK
  /\ BoundsRecovered
  /\ up => minKey <= maxKey
  /\ NoneVanishes
  /\ gone \subseteq 1 .. puts
  /\ Len(unsynced) <= sinceSync
  /\ Sound(db, gone, puts)
  /\ Past(unsynced, db, gone, puts)

-----------------------------------------------------------------------------
(* The messages of a content are bounded numbers, hence finitely many. *)
LEMMA MessagesFinite ==
  ASSUME NEW c \in Content, NEW last \in Nat, \A k \in Keys : c[k] <= last,
         NEW S \in SUBSET MessagesIn(c)
  PROVE  IsFiniteSet(S) /\ Cardinality(S) \in Nat
<1>1. S \in SUBSET Nat /\ \A m \in S : m <= last
  BY DEF Content, MessagesIn
<1>2. IsFiniteSet(S)
  BY <1>1, FS_BoundedSetOfNaturals
<1> QED
  BY <1>2, FS_CardinalityType

(* Smaller sets have no more elements. *)
LEMMA SubsetBound ==
  ASSUME NEW S, IsFiniteSet(S), NEW T, T \subseteq S
  PROVE  Cardinality(T) <= Cardinality(S) /\ Cardinality(T) \in Nat /\ IsFiniteSet(T)
  BY FS_Subset, FS_CardinalityType

(* Two contents that differ at one key. *)
Changed(c, d, k, m) == d \in Content /\ d[k] = m /\ \A j \in Keys : j # k => d[j] = c[j]

(* A write changes the content at its key. *)
LEMMA WriteChanges ==
  ASSUME NEW c \in Content, NEW k \in Keys, NEW m \in Nat
  PROVE  Changed(c, [c EXCEPT ![k] = m], k, m)
  BY DEF Changed, Content

(* A put adds its message and no other. *)
LEMMA PutMessages ==
  ASSUME NEW c \in Content, NEW k \in Keys, c[k] = 0, NEW m, m # 0,
         NEW d, Changed(c, d, k, m)
  PROVE  MessagesIn(d) = MessagesIn(c) \cup {m}
  BY DEF Changed, MessagesIn

(* A put adds its key and no other. *)
LEMMA PutStored ==
  ASSUME NEW c \in Content, NEW k \in Keys, c[k] = 0, NEW m, m # 0,
         NEW d, Changed(c, d, k, m)
  PROVE  StoredIn(d) = StoredIn(c) \cup {k}
  BY DEF Changed, StoredIn

(* A removal takes one message out, which is stored under no other key. *)
LEMMA RemoveMessages ==
  ASSUME NEW c \in Content, NEW k \in StoredIn(c),
         \A i, j \in StoredIn(c) : i < j => c[i] < c[j],
         NEW d, Changed(c, d, k, 0)
  PROVE  /\ MessagesIn(d) = MessagesIn(c) \ {c[k]}
         /\ StoredIn(d) = StoredIn(c) \ {k}
         /\ c[k] \in MessagesIn(c)
<1> USE RecoveryAssumption, KeyBound
<1>1. k \in Keys /\ c[k] # 0
  BY DEF StoredIn
<1>2. d \in Content /\ d[k] = 0 /\ \A j \in Keys : j # k => d[j] = c[j]
  BY <1>1 DEF Changed
<1>3. \A j \in StoredIn(c) : j # k => c[j] # c[k]
  <2> SUFFICES ASSUME NEW j \in StoredIn(c), j # k PROVE c[j] # c[k]
    OBVIOUS
  <2>1. j \in Int /\ k \in Int /\ c[j] \in Nat /\ c[k] \in Nat
    BY DEF StoredIn, Keys, Content
  <2>2. j < k \/ k < j
    BY <2>1
  <2> QED
    BY <2>1, <2>2
<1>4. MessagesIn(d) = MessagesIn(c) \ {c[k]}
  BY <1>1, <1>2, <1>3 DEF MessagesIn, StoredIn
<1>5. StoredIn(d) = StoredIn(c) \ {k}
  BY <1>1, <1>2 DEF StoredIn
<1> QED
  BY <1>1, <1>2, <1>4, <1>5 DEF MessagesIn

(***************************************************************************)
(* What a put does to the contents.                                        *)
(***************************************************************************)
(* A put keeps the content sound. *)
LEMMA PutSound ==
  ASSUME NEW c \in Content, NEW last \in Nat, NEW removed \in SUBSET (1 .. last),
         Sound(c, removed, last),
         NEW lo \in Keys, NEW hi \in Keys, lo <= hi, hi < MAX_KEY,
         StoredIn(c) = lo .. (hi - 1),
         NEW m, m = last + 1, NEW d, Changed(c, d, hi, m)
  PROVE  Sound(d, removed, m)
<1>1. c[hi] = 0
  <2>1. hi \notin StoredIn(c)
    BY RecoveryAssumption, KeyBound DEF Keys
  <2> QED
    BY <2>1 DEF StoredIn
<1>2. /\ MessagesIn(d) = MessagesIn(c) \cup {m}
      /\ StoredIn(d) = StoredIn(c) \cup {hi}
  <2>1. m # 0
    OBVIOUS
  <2>2. MessagesIn(d) = MessagesIn(c) \cup {m}
    BY <1>1, <2>1, PutMessages
  <2>3. StoredIn(d) = StoredIn(c) \cup {hi}
    BY <1>1, <2>1, PutStored, Zenon
  <2> QED
    BY <2>2, <2>3, Zenon
<1> USE RecoveryAssumption, KeyBound
<1>3. d[hi] = m /\ \A j \in Keys : j # hi => d[j] = c[j]
  BY DEF Changed
<1>a. lo \in Int /\ hi \in Int /\ m \notin removed /\ m = last + 1
  BY DEF Keys
<1>4. hi + 1 \in Keys /\ lo <= hi + 1 /\ StoredIn(d) = lo .. ((hi + 1) - 1)
  <2>1. hi + 1 \in Keys
    BY <1>a DEF Keys
  <2>2. (lo .. (hi - 1)) \cup {hi} = lo .. ((hi + 1) - 1)
    BY <1>a
  <2>3. lo <= hi + 1
    BY <1>a
  <2> QED
    BY Zenon, <1>2, <2>1, <2>2, <2>3
<1>5. \A k \in Keys : c[k] \in Nat /\ c[k] <= last
  BY DEF Sound, Content
<1>6. ASSUME NEW j \in StoredIn(d), NEW k \in StoredIn(d), j < k
      PROVE  d[j] < d[k] /\ (d[k] \in removed => d[j] \in removed)
  <2>1. j \in Keys /\ k \in Keys /\ j \in Int /\ k \in Int
    BY DEF StoredIn, Keys
  <2>2. j # hi /\ j \in StoredIn(c)
    <3>1. k \in lo .. ((hi + 1) - 1)
      BY <1>4
    <3>2. j # hi
      BY <1>6, <1>a, <2>1, <3>1
    <3> QED
      BY Zenon, <1>2, <3>2
  <2>3. CASE k = hi
    BY <1>3, <1>5, <1>a, <2>1, <2>2, <2>3
  <2>4. CASE k # hi
    <3>1. k \in StoredIn(c)
      BY <1>2, <2>4
    <3> QED
      BY <1>3, <1>6, <2>1, <2>2, <2>4, <3>1 DEF Sound
  <2> QED
    BY <2>3, <2>4
<1>7. \A k \in Keys : d[k] <= m
  BY <1>3, <1>5, <1>a
<1>8. removed \cap MessagesIn(d) = removed \cap MessagesIn(c)
  BY <1>2, <1>a
<1>9. Cardinality(removed \cap MessagesIn(d)) < BatchSize
  BY Zenon, <1>8 DEF Sound
<1> QED
  BY <1>4, <1>6, <1>7, <1>9 DEF Sound

(* A put leaves earlier contents sound. *)
LEMMA SoundLater ==
  ASSUME NEW c \in Content, NEW last \in Nat, NEW removed, Sound(c, removed, last)
  PROVE  Sound(c, removed, last + 1)
  BY DEF Sound, Content

(* The distance of two contents after one of them has gained a message. *)
LEMMA NearPut ==
  ASSUME NEW c \in Content, NEW d \in Content, NEW e \in Content, NEW last \in Nat,
         \A k \in Keys : c[k] <= last /\ d[k] <= last,
         NEW m, MessagesIn(e) = MessagesIn(d) \cup {m},
         NEW removed, NEW n \in Nat, Near(c, d, removed, n)
  PROVE  Near(c, e, removed, n + 1)
<1> DEFINE C == MessagesIn(c)
           D == MessagesIn(d)
           E == MessagesIn(e)
<1>1. IsFiniteSet(C \ D) /\ IsFiniteSet(D \ C)
  BY MessagesFinite
<1>2. Cardinality(C \ E) <= Cardinality(C \ D) /\ Cardinality(C \ E) \in Nat
  BY <1>1, SubsetBound
<1>3. /\ IsFiniteSet((D \ C) \cup {m})
      /\ Cardinality((D \ C) \cup {m}) <= Cardinality(D \ C) + 1
  <2> DEFINE S == D \ C
  <2>1. Cardinality(S) \in Nat
    BY <1>1, FS_CardinalityType
  <2> HIDE DEF S
  <2>2. /\ IsFiniteSet(S \cup {m})
        /\ Cardinality(S \cup {m}) = IF m \in S THEN Cardinality(S) ELSE Cardinality(S) + 1
    BY SMTT(30), <1>1, FS_AddElement DEF S
  <2> QED
    BY <2>1, <2>2 DEF S
<1>4. Cardinality(E \ C) <= Cardinality((D \ C) \cup {m}) /\ Cardinality(E \ C) \in Nat
  BY <1>3, SubsetBound
<1>5. /\ Cardinality(C \ D) \in Nat /\ Cardinality(D \ C) \in Nat
      /\ Cardinality((D \ C) \cup {m}) \in Nat
  BY <1>1, <1>3, FS_CardinalityType
<1>6. Cardinality(C \ D) + Cardinality(D \ C) <= n
  BY DEF Near, Diff
<1>7. Cardinality(C \ E) + Cardinality(E \ C) <= n + 1
  BY <1>2, <1>3, <1>4, <1>5, <1>6
<1>8. C \ E \subseteq removed
  BY DEF Near
<1> QED
  BY <1>7, <1>8 DEF Near, Diff

(* A content is at distance 0 from itself. *)
LEMMA NearSelf ==
  ASSUME NEW c, NEW removed
  PROVE  Near(c, c, removed, 0)
<1>1. MessagesIn(c) \ MessagesIn(c) = {}
  OBVIOUS
<1> QED
  BY <1>1, FS_EmptySet DEF Near, Diff

(***************************************************************************)
(* What the removal of the first message does to the contents.             *)
(***************************************************************************)
(* A message that was not removed before is the first only if none in the  *)
(* content was.                                                            *)
LEMMA NoneRemoved ==
  ASSUME NEW c \in Content, NEW removed, NEW last \in Nat, Sound(c, removed, last),
         NEW lo \in StoredIn(c), \A k \in StoredIn(c) : lo <= k,
         c[lo] \notin removed
  PROVE  removed \cap MessagesIn(c) = {}
<1> SUFFICES ASSUME NEW k \in Keys, c[k] # 0, c[k] \in removed
             PROVE  FALSE
  BY DEF MessagesIn
<1>1. k \in StoredIn(c)
  BY DEF StoredIn
<1>2. lo \in Int /\ k \in Int
  BY RecoveryAssumption, KeyBound DEF StoredIn, Keys
<1>3. lo < k
  BY <1>1, <1>2
<1> QED
  BY <1>1, <1>3 DEF Sound

(* The distance of two contents after one of them has lost a message. *)
LEMMA NearRemove ==
  ASSUME NEW c \in Content, NEW d \in Content, NEW e \in Content, NEW last \in Nat,
         \A k \in Keys : c[k] <= last /\ d[k] <= last,
         NEW m, MessagesIn(e) = MessagesIn(d) \ {m},
         NEW removed, NEW n \in Nat, Near(c, d, removed, n)
  PROVE  Near(c, e, removed \cup {m}, n + 1)
<1> DEFINE C == MessagesIn(c)
           D == MessagesIn(d)
           E == MessagesIn(e)
           S == C \ D
<1>1. IsFiniteSet(S) /\ IsFiniteSet(D \ C)
  BY MessagesFinite
<1>2. Cardinality(E \ C) <= Cardinality(D \ C) /\ Cardinality(E \ C) \in Nat
  BY <1>1, SubsetBound
<1>3. IsFiniteSet(S \cup {m}) /\ Cardinality(S \cup {m}) <= Cardinality(S) + 1
  <2>1. Cardinality(S) \in Nat
    BY <1>1, FS_CardinalityType
  <2> HIDE DEF S
  <2>2. /\ IsFiniteSet(S \cup {m})
        /\ Cardinality(S \cup {m}) = IF m \in S THEN Cardinality(S) ELSE Cardinality(S) + 1
    BY <1>1, FS_AddElement
  <2> QED
    BY <2>1, <2>2
<1>4. Cardinality(C \ E) <= Cardinality(S \cup {m}) /\ Cardinality(C \ E) \in Nat
  BY <1>3, SubsetBound
<1>5. /\ Cardinality(S) \in Nat /\ Cardinality(D \ C) \in Nat
      /\ Cardinality(S \cup {m}) \in Nat
  BY <1>1, <1>3, FS_CardinalityType
<1>6. Cardinality(S) + Cardinality(D \ C) <= n
  BY DEF Near, Diff
<1>7. Cardinality(C \ E) + Cardinality(E \ C) <= n + 1
  BY <1>2, <1>3, <1>4, <1>5, <1>6
<1>8. C \ E \subseteq removed \cup {m}
  BY DEF Near
<1> QED
  BY <1>7, <1>8 DEF Near, Diff

(* A removal leaves the content it is applied to sound. *)
LEMMA RemoveSound ==
  ASSUME NEW d \in Content, NEW last \in Nat, NEW removed, Sound(d, removed, last),
         NEW lo \in Keys, NEW hi \in Keys, lo < hi, StoredIn(d) = lo .. (hi - 1),
         NEW e, Changed(d, e, lo, 0)
  PROVE  Sound(e, removed \cup {d[lo]}, last)
<1> USE RecoveryAssumption, KeyBound
<1>1. lo \in Int /\ hi \in Int /\ lo \in StoredIn(d) /\ \A k \in StoredIn(d) : lo <= k
  BY DEF Keys
<1>2. /\ MessagesIn(e) = MessagesIn(d) \ {d[lo]}
      /\ StoredIn(e) = StoredIn(d) \ {lo}
  BY <1>1, RemoveMessages DEF Sound
<1>3. \A k \in Keys : k # lo => e[k] = d[k]
  BY DEF Changed
<1>4. e[lo] = 0
  BY DEF Changed
<1>5. lo + 1 \in Keys /\ lo + 1 <= hi /\ StoredIn(e) = (lo + 1) .. (hi - 1)
  <2>1. (lo .. (hi - 1)) \ {lo} = (lo + 1) .. (hi - 1)
    BY <1>1
  <2>2. lo + 1 \in Keys /\ lo + 1 <= hi
    BY <1>1 DEF Keys
  <2> QED
    BY <1>2, <2>1, <2>2
<1>6. \A j, k \in StoredIn(e) :
        j < k => e[j] < e[k] /\ (e[k] \in removed \cup {d[lo]}
                                  => e[j] \in removed \cup {d[lo]})
  <2> SUFFICES ASSUME NEW j \in StoredIn(e), NEW k \in StoredIn(e), j < k
               PROVE  e[j] < e[k] /\ (e[k] \in removed \cup {d[lo]}
                                       => e[j] \in removed \cup {d[lo]})
    OBVIOUS
  <2>1. /\ j \in StoredIn(d) /\ k \in StoredIn(d) /\ e[j] = d[j] /\ e[k] = d[k]
        /\ j # lo /\ k # lo /\ j \in Int /\ k \in Int
    BY <1>2, <1>3 DEF StoredIn, Keys
  <2>2. lo < k
    BY <1>1, <2>1
  <2>3. d[lo] < d[k] /\ d[lo] \in Nat /\ d[k] \in Nat
    BY <1>1, <2>1, <2>2 DEF Sound, Content, StoredIn
  <2> QED
    BY <2>1, <2>3 DEF Sound
<1>7. \A k \in Keys : e[k] <= last
  <2>1. 0 <= last
    OBVIOUS
  <2> QED
    BY <1>3, <1>4, <2>1 DEF Sound
<1>8. Cardinality((removed \cup {d[lo]}) \cap MessagesIn(e)) < BatchSize
  <2>1. (removed \cup {d[lo]}) \cap MessagesIn(e) \subseteq removed \cap MessagesIn(d)
    BY <1>2
  <2>2. /\ IsFiniteSet(removed \cap MessagesIn(d))
        /\ Cardinality(removed \cap MessagesIn(d)) \in Nat
    BY MessagesFinite DEF Sound
  <2>3. /\ Cardinality((removed \cup {d[lo]}) \cap MessagesIn(e))
             <= Cardinality(removed \cap MessagesIn(d))
        /\ Cardinality((removed \cup {d[lo]}) \cap MessagesIn(e)) \in Nat
    BY <2>1, <2>2, SubsetBound
  <2>4. Cardinality(removed \cap MessagesIn(d)) < BatchSize
    BY DEF Sound
  <2> QED
    BY <2>2, <2>3, <2>4
<1> QED
  BY <1>5, <1>6, <1>7, <1>8 DEF Sound

(* A removal leaves earlier contents sound: the message it takes out is    *)
(* either one taken before, or everything that comes before it in an       *)
(* earlier content was taken since.                                        *)
LEMMA EarlierSound ==
  ASSUME NEW c \in Content, NEW d \in Content, NEW e \in Content, NEW last \in Nat,
         NEW removed, Sound(c, removed, last), Sound(d, removed, last),
         NEW lo \in StoredIn(d), \A k \in StoredIn(d) : lo <= k,
         NEW m, m = d[lo], MessagesIn(e) = MessagesIn(d) \ {m},
         MessagesIn(c) \ MessagesIn(d) \subseteq removed,
         NEW n \in Nat, n < BatchSize, Near(c, e, removed \cup {m}, n)
  PROVE  Sound(c, removed \cup {m}, last)
<1> USE RecoveryAssumption, KeyBound
<1> DEFINE C == MessagesIn(c)
           E == MessagesIn(e)
<1>1. CASE m \in removed
  <2>1. removed \cup {m} = removed
    BY <1>1
  <2> QED
    BY <2>1
<1>2. CASE m \notin removed
  <2>1. removed \cap MessagesIn(d) = {}
    BY <1>2, NoneRemoved
  <2>2. (removed \cup {m}) \cap C \subseteq C \ E
    BY <2>1
  <2>3. IsFiniteSet(C \ E) /\ Cardinality(C \ E) \in Nat
    BY MessagesFinite DEF Sound
  <2>4. IsFiniteSet(E \ C) /\ Cardinality(E \ C) \in Nat
    <3>1. E \ C \subseteq MessagesIn(d)
      OBVIOUS
    <3> QED
      BY <3>1, MessagesFinite DEF Sound
  <2>5. /\ Cardinality((removed \cup {m}) \cap C) <= Cardinality(C \ E)
        /\ Cardinality((removed \cup {m}) \cap C) \in Nat
    BY <2>2, <2>3, SubsetBound
  <2>6. Cardinality(C \ E) + Cardinality(E \ C) <= n
    BY DEF Near, Diff
  <2>7. Cardinality((removed \cup {m}) \cap C) < BatchSize
    BY <2>3, <2>4, <2>5, <2>6
  <2>8. ASSUME NEW j \in StoredIn(c), NEW k \in StoredIn(c), j < k
        PROVE  c[j] < c[k] /\ (c[k] \in removed \cup {m} => c[j] \in removed \cup {m})
    <3>1. c[j] < c[k] /\ (c[k] \in removed => c[j] \in removed)
      BY <2>8 DEF Sound
    <3>2. ASSUME c[k] = m PROVE c[j] \in removed
      <4>1. j \in Keys /\ c[j] \in C /\ c[j] \in Nat /\ m \in Nat
        BY DEF StoredIn, MessagesIn, Content
      <4>2. c[j] \notin MessagesIn(d)
        <5> SUFFICES ASSUME NEW i \in Keys, d[i] # 0, d[i] = c[j] PROVE FALSE
          BY DEF MessagesIn
        <5>1. i \in StoredIn(d) /\ i \in Int /\ lo \in Int
          BY DEF StoredIn, Keys
        <5>2. lo < i \/ lo = i
          BY <5>1
        <5>3. m <= d[i]
          BY <4>1, <5>1, <5>2 DEF Sound
        <5> QED
          BY <3>1, <3>2, <4>1, <5>3
      <4> QED
        BY <4>1, <4>2
    <3> QED
      BY <3>1, <3>2
  <2> QED
    BY <2>7, <2>8 DEF Sound
<1> QED
  BY <1>1, <1>2

(* A put that is not synced leaves one content more to fall back to. *)
LEMMA PastPut ==
  ASSUME NEW u \in Seq(Content), NEW d \in Content, NEW e \in Content, NEW last \in Nat,
         NEW removed, Past(u, d, removed, last), Sound(d, removed, last),
         NEW m, MessagesIn(e) = MessagesIn(d) \cup {m},
         NEW v, v = Append(u, d)
  PROVE  Past(v, e, removed, last + 1)
<1>1. Len(v) = Len(u) + 1 /\ Len(u) \in Nat
  OBVIOUS
<1> SUFFICES ASSUME NEW i \in 1 .. Len(v)
             PROVE  Sound(v[i], removed, last + 1) /\ Near(v[i], e, removed, Len(v) + 1 - i)
  BY DEF Past
<1>2. CASE i <= Len(u)
  <2>1. v[i] = u[i] /\ u[i] \in Content /\ i \in 1 .. Len(u)
    BY <1>1, <1>2
  <2>2. Sound(u[i], removed, last) /\ Near(u[i], d, removed, Len(u) + 1 - i)
    BY <2>1 DEF Past
  <2>3. \A k \in Keys : u[i][k] <= last /\ d[k] <= last
    BY <2>2 DEF Sound
  <2>4. Len(u) + 1 - i \in Nat /\ Len(v) + 1 - i = (Len(u) + 1 - i) + 1
    BY <1>1, <1>2
  <2>5. Near(u[i], e, removed, (Len(u) + 1 - i) + 1)
    BY Zenon, <2>1, <2>2, <2>3, <2>4, NearPut
  <2>6. Sound(u[i], removed, last + 1)
    BY Zenon, <2>1, <2>2, SoundLater
  <2> QED
    BY <2>1, <2>4, <2>5, <2>6
<1>3. CASE i = Len(u) + 1
  <2>1. v[i] = d /\ Len(v) + 1 - i = 0 + 1
    BY <1>1, <1>3
  <2>2. Near(d, d, removed, 0)
    BY NearSelf
  <2>3. \A k \in Keys : d[k] <= last
    BY DEF Sound
  <2>4. Near(d, e, removed, 0 + 1)
    BY Zenon, <2>2, <2>3, NearPut
  <2>5. Sound(d, removed, last + 1)
    BY SoundLater
  <2> QED
    BY <2>1, <2>4, <2>5
<1> QED
  BY <1>1, <1>2, <1>3

(* So does a removal, which makes the contents it adds to more removed. *)
LEMMA PastRemove ==
  ASSUME NEW u \in Seq(Content), NEW d \in Content, NEW e \in Content, NEW last \in Nat,
         NEW removed, Past(u, d, removed, last), Sound(d, removed, last),
         NEW lo \in StoredIn(d), \A k \in StoredIn(d) : lo <= k,
         NEW m, m = d[lo], MessagesIn(e) = MessagesIn(d) \ {m},
         NEW v, v = Append(u, d), Len(v) < BatchSize
  PROVE  Past(v, e, removed \cup {m}, last)
<1> USE RecoveryAssumption, KeyBound
<1>1. Len(v) = Len(u) + 1 /\ Len(u) \in Nat
  OBVIOUS
<1> SUFFICES ASSUME NEW i \in 1 .. Len(v)
             PROVE  /\ Sound(v[i], removed \cup {m}, last)
                    /\ Near(v[i], e, removed \cup {m}, Len(v) + 1 - i)
  BY Zenon DEF Past
<1> DEFINE n == Len(v) + 1 - i
<1>2. n \in Nat /\ n < BatchSize /\ n - 1 \in Nat /\ (n - 1) + 1 = n
  BY <1>1
<1>3. v[i] \in Content /\ Sound(v[i], removed, last) /\ Near(v[i], d, removed, n - 1)
  <2>1. CASE i <= Len(u)
    <3>1. v[i] = u[i] /\ u[i] \in Content /\ i \in 1 .. Len(u) /\ n - 1 = Len(u) + 1 - i
      BY <1>1, <2>1
    <3> QED
      BY <3>1 DEF Past
  <2>2. CASE i = Len(u) + 1
    <3>1. v[i] = d /\ n - 1 = 0
      BY <1>1, <2>2
    <3> QED
      BY SMTT(30), <3>1, NearSelf
  <2> QED
    BY <1>1, <2>1, <2>2
<1>4. \A k \in Keys : v[i][k] <= last /\ d[k] <= last
  BY <1>3 DEF Sound
<1> HIDE DEF n
<1>5. Near(v[i], e, removed \cup {m}, n)
  <2>1. Near(v[i], e, removed \cup {m}, (n - 1) + 1)
    BY Zenon, <1>2, <1>3, <1>4, NearRemove
  <2> QED
    BY <1>2, <2>1
<1>6. MessagesIn(v[i]) \ MessagesIn(d) \subseteq removed
  BY <1>3 DEF Near
<1>7. Sound(v[i], removed \cup {m}, last)
  BY Zenon, <1>2, <1>3, <1>5, <1>6, EarlierSound
<1> QED
  BY <1>5, <1>7 DEF n

(***************************************************************************)
(* The constructor finds the window again.                                 *)
(***************************************************************************)
(* The iterator finds the encoding of the smallest and the largest key. *)
LEMMA Seek ==
  ASSUME NEW lo \in Keys, NEW hi \in Keys, lo < hi,
         NEW S, S = {putU64BE(k) : k \in lo .. (hi - 1)}
  PROVE  getU64BE(SeekToFirst(S)) = lo /\ getU64BE(SeekToLast(S)) = hi - 1
<1> USE RecoveryAssumption, KeyBound
<1>1. lo \in Int /\ hi \in Int /\ lo .. (hi - 1) \subseteq Keys
      /\ lo \in lo .. (hi - 1) /\ hi - 1 \in lo .. (hi - 1)
  BY DEF Keys
<1>2. \A x, y \in Keys : putU64BE(x) = putU64BE(y) => x = y
  BY CodecCorrect DEF CodecAt
<1>3. \A x, y \in Keys : Before(putU64BE(x), putU64BE(y)) <=> x < y
  BY CodecCorrect DEF CodecAt
<1>4. getU64BE(SeekToFirst(S)) = lo
  <2>1. putU64BE(lo) \in S /\ \A b \in S \ {putU64BE(lo)} : Before(putU64BE(lo), b)
    <3>1. ASSUME NEW k \in lo .. (hi - 1), putU64BE(k) # putU64BE(lo)
          PROVE  Before(putU64BE(lo), putU64BE(k))
      <4>1. lo < k
        BY <1>1, <3>1
      <4> QED
        BY <1>1, <1>3, <4>1
    <3> QED
      BY <1>1, <3>1
  <2> DEFINE a == SeekToFirst(S)
  <2>2. a \in S /\ \A b \in S \ {a} : Before(a, b)
    BY <2>1, Zenon DEF SeekToFirst
  <2> HIDE DEF a
  <2>3. PICK k \in lo .. (hi - 1) : a = putU64BE(k)
    BY <2>2
  <2>4. k = lo
    <3> SUFFICES ASSUME k # lo PROVE FALSE
      OBVIOUS
    <3>1. putU64BE(lo) # a
      BY <1>1, <1>2, <2>3
    <3>2. Before(putU64BE(k), putU64BE(lo))
      BY <2>1, <2>2, <2>3, <3>1
    <3>3. k < lo
      BY <1>1, <1>3, <3>2
    <3> QED
      BY <1>1, <3>3
  <2> QED
    BY <2>3, <2>4, CodecCorrect DEF a, CodecAt
<1>5. getU64BE(SeekToLast(S)) = hi - 1
  <2> DEFINE last == hi - 1
  <2>0. last \in Keys /\ last \in lo .. (hi - 1) /\ last \in Int
    BY <1>1
  <2>1. putU64BE(last) \in S /\ \A b \in S \ {putU64BE(last)} : Before(b, putU64BE(last))
    <3>1. ASSUME NEW k \in lo .. (hi - 1), putU64BE(k) # putU64BE(last)
          PROVE  Before(putU64BE(k), putU64BE(last))
      <4>1. k < last
        BY <1>1, <3>1
      <4> QED
        BY <1>1, <1>3, <2>0, <4>1
    <3> QED
      BY <2>0, <3>1
  <2> DEFINE a == SeekToLast(S)
  <2>2. a \in S /\ \A b \in S \ {a} : Before(b, a)
    BY <2>1, Zenon DEF SeekToLast
  <2> HIDE DEF a
  <2>3. PICK k \in lo .. (hi - 1) : a = putU64BE(k)
    BY <2>2
  <2>4. k = last
    <3> SUFFICES ASSUME k # last PROVE FALSE
      OBVIOUS
    <3>1. putU64BE(last) # a
      BY <1>1, <1>2, <2>0, <2>3
    <3>2. Before(putU64BE(last), putU64BE(k))
      BY <2>1, <2>2, <2>3, <3>1
    <3>3. last < k
      BY <1>1, <1>3, <2>0, <3>2
    <3> QED
      BY <1>1, <3>3
  <2> QED
    BY <2>0, <2>3, <2>4, CodecCorrect DEF a, CodecAt
<1> QED
  BY <1>4, <1>5

(***************************************************************************)
(* The steps preserve the invariant.                                       *)
(***************************************************************************)
(* The remainder of a smaller number is that number. *)
LEMMA SmallRemainder ==
  ASSUME NEW x \in Nat, NEW n \in Nat, x < n
  PROVE  x % n = x
  OBVIOUS

(* openKueueManager and get bring back the window that is stored. *)
LEMMA StepOpen ==
  ASSUME ~IteratorMayFail, RInv, Open
  PROVE  RInv'
<1> USE RecoveryAssumption, KeyBound
<1>1. PICK lo \in Keys, hi \in Keys : lo <= hi /\ StoredIn(db) = lo .. (hi - 1)
  BY DEF RInv, Sound
<1>2. lo \in Int /\ hi \in Int /\ 0 <= lo /\ hi <= MAX_KEY
  BY DEF Keys
<1>3. Construct(StoredIn(db) # {}, StoredIn(db) # {})
  BY DEF Open
<1>4. /\ minKey' \in Keys /\ maxKey' \in Keys /\ count' = maxKey' - minKey'
      /\ StoredIn(db) = minKey' .. (maxKey' - 1)
      /\ isValid' /\ isValid' \in BOOLEAN /\ minKey' <= maxKey'
  <2> DEFINE S       == {putU64BE(k) : k \in StoredIn(db)}
             stored  == StoredIn(db) # {}
             first   == IF stored THEN getU64BE(SeekToFirst(S)) ELSE 0
             lastMax == IF stored THEN getU64BE(SeekToLast(S)) ELSE 0
  <2>a. isValid' = (lastMax >= first /\ count' >= 0)
    BY <1>3, Zenon DEF Construct
  <2>0. isValid' \in BOOLEAN
    BY <2>a, Zenon
  <2>1. CASE lo = hi
    <3>1. StoredIn(db) = {} /\ 0 .. (0 - 1) = {} /\ 0 \in Keys
      BY <1>1, <1>2, <2>1 DEF Keys
    <3>2. minKey' = 0 /\ maxKey' = 0 /\ count' = 0
      BY <1>3, <3>1 DEF Construct
    <3>3. lastMax >= first /\ count' >= 0
      BY <3>1, <3>2
    <3>4. isValid'
      BY <2>a, <3>3, Zenon
    <3> QED
      BY <2>0, <3>1, <3>2, <3>4
  <2>2. CASE lo < hi
    <3>1. StoredIn(db) # {}
      BY <1>1, <1>2, <2>2
    <3>2. S = {putU64BE(k) : k \in lo .. (hi - 1)}
      BY <1>1
    <3>3. getU64BE(SeekToFirst(S)) = lo /\ getU64BE(SeekToLast(S)) = hi - 1
      BY Zenon, <2>2, <3>2, Seek
    <3>4. NextMax(lo, hi - 1) = hi
      <4>1. (hi - 1) + 1 = hi /\ hi \in Nat /\ MAX_KEY + 1 \in Nat /\ hi < MAX_KEY + 1
        BY <1>1, <1>2
      <4>2. hi % (MAX_KEY + 1) = hi
        BY <4>1, SmallRemainder
      <4> QED
        BY <4>1, <4>2 DEF NextMax
    <3>5. minKey' = lo /\ maxKey' = hi /\ count' = hi - lo
      BY <1>2, <1>3, <2>2, <3>1, <3>3, <3>4 DEF Construct
    <3>6. lastMax >= first /\ count' >= 0
      BY <1>2, <2>2, <3>1, <3>3, <3>5
    <3>7. isValid'
      BY <2>a, <3>6, Zenon
    <3> QED
      BY <1>1, <2>0, <3>5, <3>7
  <2>3. lo = hi \/ lo < hi
    BY <1>1, <1>2
  <2> QED
    BY <2>1, <2>2, <2>3
<1>5. /\ up' = TRUE /\ unsynced' = << >> /\ sinceSync' = 0 /\ db' = db
      /\ puts' = puts /\ gone' = gone /\ lost' = lost
  BY DEF Open
<1>6. TypeOK'
  <2>1. count' \in Int
    BY <1>4 DEF Keys
  <2> QED
    BY <1>4, <1>5, <2>1 DEF RInv, TypeOK
<1>7. BoundsRecovered'
  BY <1>4, <1>5 DEF BoundsRecovered, StoredIn
<1>8. Past(unsynced', db', gone', puts') /\ Len(unsynced') <= sinceSync'
  BY <1>5 DEF Past
<1>9. NoneVanishes' /\ (gone \subseteq 1 .. puts)' /\ Sound(db', gone', puts')
  BY <1>5 DEF RInv, NoneVanishes, MessagesIn
<1> QED
  BY <1>4, <1>6, <1>7, <1>8, <1>9 DEF RInv

(* An exit changes nothing in the store. *)
LEMMA StepExit ==
  ASSUME RInv, Exit
  PROVE  RInv'
<1>1. /\ up' = FALSE /\ unsynced' = unsynced /\ sinceSync' = sinceSync /\ db' = db
      /\ isValid' = isValid /\ count' = count /\ minKey' = minKey /\ maxKey' = maxKey
      /\ puts' = puts /\ gone' = gone /\ lost' = lost
  BY DEF Exit, storeVars, queueVars
<1>2. TypeOK'
  BY Zenon, <1>1 DEF RInv, TypeOK
<1>3. BoundsRecovered'
  BY <1>1 DEF BoundsRecovered
<1>4. NoneVanishes'
  BY <1>1 DEF RInv, NoneVanishes, MessagesIn
<1> QED
  BY <1>1, <1>2, <1>3, <1>4 DEF RInv

(* A power failure falls back to a sound content. *)
LEMMA StepPowerFailure ==
  ASSUME RInv, PowerFailure
  PROVE  RInv'
<1> USE RecoveryAssumption, KeyBound
<1>1. /\ up' = FALSE /\ unsynced' = << >> /\ sinceSync' = sinceSync
      /\ isValid' = isValid /\ count' = count /\ minKey' = minKey /\ maxKey' = maxKey
      /\ puts' = puts /\ gone' = gone
      /\ lost' = lost \cup (MessagesIn(db) \ MessagesIn(db'))
  BY DEF PowerFailure, queueVars
<1>2. db' \in Content /\ Sound(db', gone, puts)
  <2>1. CASE db' = db
    BY <2>1 DEF RInv, TypeOK, Content
  <2>2. ASSUME NEW i \in 1 .. Len(unsynced), db' = unsynced[i]
        PROVE  db' \in Content /\ Sound(db', gone, puts)
    <3>1. unsynced[i] \in Content
      BY SMTT(30) DEF RInv, TypeOK, Content
    <3>2. Sound(unsynced[i], gone, puts)
      BY DEF RInv, Past
    <3> QED
      BY <2>2, <3>1, <3>2
  <2> QED
    BY <2>1, <2>2 DEF PowerFailure
<1>3. TypeOK'
  <2>1. lost' \in SUBSET Nat
    BY Zenon, <1>1 DEF RInv, TypeOK, MessagesIn
  <2>2. up' \in BOOLEAN /\ isValid' \in BOOLEAN
    BY Zenon, <1>1 DEF RInv, TypeOK
  <2>3. db' \in [Keys -> Nat] /\ unsynced' \in Seq([Keys -> Nat])
    BY <1>1, <1>2 DEF Content
  <2> QED
    BY <1>1, <2>1, <2>2, <2>3, Zenon DEF RInv, TypeOK
<1>4. BoundsRecovered'
  BY <1>1 DEF BoundsRecovered
<1>5. NoneVanishes'
  BY <1>1 DEF RInv, NoneVanishes, MessagesIn
<1>6. Past(unsynced', db', gone', puts') /\ Len(unsynced') <= sinceSync'
  BY <1>1 DEF Past, RInv, TypeOK
<1> QED
  BY <1>1, <1>2, <1>3, <1>4, <1>5, <1>6 DEF RInv

(* A put appends to the window. *)
LEMMA StepPut ==
  ASSUME RInv, Put
  PROVE  RInv'
<1> USE RecoveryAssumption, KeyBound
<1>1. /\ up' = up /\ isValid' = isValid /\ minKey' = minKey /\ gone' = gone /\ lost' = lost
      /\ maxKey' = maxKey + 1 /\ count' = count + 1 /\ puts' = puts + 1
      /\ maxKey < MAX_KEY /\ Write(maxKey, puts + 1)
  BY DEF Put
<1>2. up /\ isValid
  BY DEF Put
<1>3. /\ minKey \in Keys /\ maxKey \in Keys /\ minKey <= maxKey /\ minKey \in Int
      /\ maxKey \in Int /\ StoredIn(db) = minKey .. (maxKey - 1)
      /\ count = maxKey - minKey
  BY <1>2 DEF RInv, TypeOK, BoundsRecovered, Keys
<1>4. /\ db \in Content /\ puts \in Nat /\ gone \in SUBSET (1 .. puts)
      /\ Sound(db, gone, puts) /\ unsynced \in Seq(Content)
      /\ Past(unsynced, db, gone, puts)
  BY DEF RInv, TypeOK, Content
<1>5. db' = [db EXCEPT ![maxKey] = puts + 1]
  BY <1>1 DEF Write
<1>6. Changed(db, db', maxKey, puts + 1) /\ db' \in Content
  <2>1. Changed(db, [db EXCEPT ![maxKey] = puts + 1], maxKey, puts + 1)
    BY <1>3, <1>4, WriteChanges
  <2> QED
    BY <1>5, <2>1 DEF Changed
<1>7. db[maxKey] = 0 /\ puts + 1 # 0
  <2>1. maxKey \notin StoredIn(db)
    BY <1>3
  <2> QED
    BY <1>3, <1>4, <2>1 DEF StoredIn
<1>8. MessagesIn(db') = MessagesIn(db) \cup {puts + 1}
  BY <1>3, <1>4, <1>6, <1>7, PutMessages
<1>9. Sound(db', gone, puts + 1)
  BY <1>1, <1>3, <1>4, <1>6, PutSound
<1>10. BoundsRecovered' /\ minKey' <= maxKey' /\ maxKey' \in Keys
  <2>1. StoredIn(db') = StoredIn(db) \cup {maxKey}
    BY <1>3, <1>4, <1>6, <1>7, PutStored
  <2>2. (minKey .. (maxKey - 1)) \cup {maxKey} = minKey .. ((maxKey + 1) - 1)
    BY <1>3
  <2>3. StoredIn(db') = minKey' .. (maxKey' - 1)
    BY <1>1, <1>3, <2>1, <2>2, Zenon
  <2>4. count' = maxKey' - minKey' /\ minKey' <= maxKey' /\ maxKey' \in Keys
    BY <1>1, <1>3 DEF Keys
  <2>5. StoredIn(db)' = StoredIn(db')
    BY DEF StoredIn
  <2>6. isValid'
    BY <1>1, <1>2
  <2> QED
    BY <2>3, <2>4, <2>5, <2>6 DEF BoundsRecovered
<1>11. NoneVanishes'
  <2>1. ASSUME NEW m \in 1 .. puts' PROVE m \in gone \cup lost \cup MessagesIn(db')
    <3>1. m \in 1 .. puts \/ m = puts + 1
      BY <1>1, <1>4
    <3> QED
      BY <1>8, <3>1 DEF RInv, NoneVanishes
  <2> QED
    BY <1>1, <2>1 DEF NoneVanishes, MessagesIn
<1>12. /\ unsynced' \in Seq(Content) /\ sinceSync' \in 0 .. (BatchSize - 1)
       /\ Len(unsynced') <= sinceSync'
       /\ Past(unsynced', db', gone, puts + 1)
  <2>1. CASE unsynced' = << >> /\ sinceSync' = 0
    BY <2>1 DEF Past
  <2>2. CASE /\ sinceSync + 1 < BatchSize /\ unsynced' = Append(unsynced, db)
             /\ sinceSync' = sinceSync + 1
    <3>1. Past(unsynced', db', gone, puts + 1)
      BY Zenon, <1>4, <1>6, <1>8, <2>2, PastPut
    <3> QED
      BY <1>4, <2>2, <3>1 DEF RInv, TypeOK
  <2> QED
    BY <1>1, <2>1, <2>2 DEF Write
<1>13. TypeOK'
  <2>1. up' \in BOOLEAN /\ isValid' \in BOOLEAN
    BY <1>1 DEF RInv, TypeOK
  <2>2. count' \in Int /\ puts' \in Nat
    BY <1>1, <1>3, <1>4
  <2>3. minKey' \in Keys /\ gone' \in SUBSET Nat /\ lost' \in SUBSET Nat
    BY <1>1 DEF RInv, TypeOK
  <2> QED
    BY <1>6, <1>10, <1>12, <2>1, <2>2, <2>3, Zenon DEF TypeOK, Content
<1>14. gone' \subseteq 1 .. puts'
  BY <1>1, <1>4
<1> QED
  BY <1>1, <1>9, <1>10, <1>11, <1>12, <1>13, <1>14 DEF RInv

(* A removal takes the first message out of the window. *)
LEMMA StepRemove ==
  ASSUME RInv, Remove
  PROVE  RInv'
<1> USE RecoveryAssumption, KeyBound
<1>1. /\ up' = up /\ isValid' = isValid /\ maxKey' = maxKey /\ puts' = puts /\ lost' = lost
      /\ minKey' = minKey + 1 /\ count' = count - 1 /\ gone' = gone \cup {db[minKey]}
      /\ db[minKey] # 0 /\ count > 0 /\ Write(minKey, 0)
  BY DEF Remove, TakeOut
<1>2. up /\ isValid
  BY DEF Remove, TakeOut
<1>3. /\ minKey \in Keys /\ maxKey \in Keys /\ minKey < maxKey /\ minKey \in Int
      /\ maxKey \in Int /\ StoredIn(db) = minKey .. (maxKey - 1)
      /\ count = maxKey - minKey
  BY <1>1, <1>2 DEF RInv, TypeOK, BoundsRecovered, Keys
<1>4. /\ db \in Content /\ puts \in Nat /\ gone \in SUBSET (1 .. puts)
      /\ Sound(db, gone, puts) /\ unsynced \in Seq(Content)
      /\ Past(unsynced, db, gone, puts)
  BY DEF RInv, TypeOK, Content
<1>5. db' = [db EXCEPT ![minKey] = 0]
  BY <1>1 DEF Write
<1>6. Changed(db, db', minKey, 0) /\ db' \in Content
  <2>1. Changed(db, [db EXCEPT ![minKey] = 0], minKey, 0)
    BY <1>3, <1>4, WriteChanges
  <2> QED
    BY <1>5, <2>1 DEF Changed
<1>7. minKey \in StoredIn(db) /\ \A k \in StoredIn(db) : minKey <= k
  BY <1>3
<1>8. /\ MessagesIn(db') = MessagesIn(db) \ {db[minKey]}
      /\ StoredIn(db') = StoredIn(db) \ {minKey}
      /\ db[minKey] \in MessagesIn(db)
  BY Zenon, <1>4, <1>6, <1>7, RemoveMessages DEF Sound
<1>9. Sound(db', gone \cup {db[minKey]}, puts)
  BY <1>3, <1>4, <1>6, RemoveSound
<1>10. BoundsRecovered' /\ minKey' <= maxKey' /\ minKey' \in Keys
  <2>1. (minKey .. (maxKey - 1)) \ {minKey} = (minKey + 1) .. (maxKey - 1)
    BY <1>3
  <2>2. StoredIn(db') = minKey' .. (maxKey' - 1)
    BY <1>1, <1>3, <1>8, <2>1, Zenon
  <2>3. count' = maxKey' - minKey' /\ minKey' <= maxKey' /\ minKey' \in Keys
    BY <1>1, <1>3 DEF Keys
  <2>4. StoredIn(db)' = StoredIn(db')
    BY DEF StoredIn
  <2>5. isValid'
    BY <1>1, <1>2
  <2> QED
    BY <2>2, <2>3, <2>4, <2>5 DEF BoundsRecovered
<1>11. NoneVanishes'
  BY Zenon, <1>1, <1>8 DEF RInv, NoneVanishes, MessagesIn
<1>12. /\ unsynced' \in Seq(Content) /\ sinceSync' \in 0 .. (BatchSize - 1)
       /\ Len(unsynced') <= sinceSync'
       /\ Past(unsynced', db', gone \cup {db[minKey]}, puts)
  <2>1. CASE unsynced' = << >> /\ sinceSync' = 0
    BY <2>1 DEF Past
  <2>2. CASE /\ sinceSync + 1 < BatchSize /\ unsynced' = Append(unsynced, db)
             /\ sinceSync' = sinceSync + 1
    <3>1. /\ unsynced' \in Seq(Content) /\ sinceSync' \in 0 .. (BatchSize - 1)
          /\ Len(unsynced') <= sinceSync' /\ Len(unsynced') < BatchSize
      BY <1>4, <2>2 DEF RInv, TypeOK
    <3>2. Past(unsynced', db', gone \cup {db[minKey]}, puts)
      BY Zenon, <1>4, <1>6, <1>7, <1>8, <2>2, <3>1, PastRemove
    <3> QED
      BY <3>1, <3>2
  <2> QED
    BY <1>1, <2>1, <2>2 DEF Write
<1>13. gone' \subseteq 1 .. puts'
  <2>1. db[minKey] \in 1 .. puts
    BY <1>1, <1>3, <1>4 DEF Sound, Content
  <2> QED
    BY Zenon, <1>1, <1>4, <2>1
<1>14. TypeOK'
  <2>1. up' \in BOOLEAN /\ isValid' \in BOOLEAN
    BY <1>1 DEF RInv, TypeOK
  <2>2. count' \in Int /\ puts' \in Nat
    BY <1>1, <1>3, <1>4
  <2>3. maxKey' \in Keys /\ gone' \in SUBSET Nat /\ lost' \in SUBSET Nat
    BY <1>1, <1>13, <2>2 DEF RInv, TypeOK
  <2> QED
    BY <1>6, <1>10, <1>12, <2>1, <2>2, <2>3, Zenon DEF TypeOK, Content
<1> QED
  BY <1>1, <1>9, <1>10, <1>11, <1>12, <1>13, <1>14 DEF RInv

-----------------------------------------------------------------------------
(* The empty store is sound. *)
LEMMA InitRecovery == Init => RInv
<1> SUFFICES ASSUME Init PROVE RInv
  OBVIOUS
<1> USE RecoveryAssumption, KeyBound
<1>1. /\ StoredIn(db) = {} /\ MessagesIn(db) = {} /\ 0 \in Keys
      /\ db \in [Keys -> Nat] /\ \A k \in Keys : db[k] = 0
  BY DEF Init, StoredIn, MessagesIn, Keys
<1>2. Sound(db, gone, puts)
  <2>1. 0 <= 0 /\ {} = 0 .. (0 - 1)
    OBVIOUS
  <2>2. Cardinality(gone \cap MessagesIn(db)) = 0
    <3>1. gone \cap MessagesIn(db) = {}
      BY <1>1
    <3> QED
      BY <3>1, FS_EmptySet
  <2> QED
    BY <1>1, <2>1, <2>2 DEF Sound, Init
<1>3. Past(unsynced, db, gone, puts) /\ Len(unsynced) <= sinceSync
  BY DEF Past, Init
<1>4. TypeOK
  <2>1. unsynced \in Seq([Keys -> Nat]) /\ sinceSync \in 0 .. (BatchSize - 1)
        /\ count \in Int /\ minKey \in Keys /\ maxKey \in Keys /\ puts \in Nat
        /\ gone \in SUBSET Nat /\ lost \in SUBSET Nat
    BY <1>1 DEF Init
  <2>2. up \in BOOLEAN /\ isValid \in BOOLEAN
    BY Zenon DEF Init
  <2> QED
    BY <1>1, <2>1, <2>2 DEF TypeOK
<1>5. NoneVanishes /\ BoundsRecovered /\ (up => minKey <= maxKey) /\ gone \subseteq 1 .. puts
  BY DEF Init, NoneVanishes, BoundsRecovered
<1> QED
  BY <1>2, <1>3, <1>4, <1>5 DEF RInv

(* The store and the queue keep the invariant over any number of lives,    *)
(* power failures, puts and removals.                                      *)
THEOREM RecoveryInvariance ==
  ASSUME ~IteratorMayFail
  PROVE  Spec => []RInv
<1>1. ASSUME RInv, [Next]_vars PROVE RInv'
  <2>1. CASE UNCHANGED vars
    <3>1. /\ up' = up /\ unsynced' = unsynced /\ sinceSync' = sinceSync /\ db' = db
          /\ isValid' = isValid /\ count' = count /\ minKey' = minKey /\ maxKey' = maxKey
          /\ puts' = puts /\ gone' = gone /\ lost' = lost
      BY <2>1 DEF vars, storeVars, queueVars
    <3>2. TypeOK'
      BY <1>1, <3>1 DEF RInv, TypeOK
    <3>3. BoundsRecovered'
      BY <1>1, <3>1 DEF RInv, BoundsRecovered, StoredIn
    <3>4. NoneVanishes'
      BY <1>1, <3>1 DEF RInv, NoneVanishes, MessagesIn
    <3> QED
      BY <1>1, <3>1, <3>2, <3>3, <3>4 DEF RInv
  <2> QED
    BY <1>1, <2>1, StepOpen, StepExit, StepPowerFailure, StepPut, StepRemove DEF Next
<1> QED
  BY <1>1, InitRecovery, PTL DEF Spec

(* Every variable keeps its type; the message count and the keys do not    *)
(* leave their ranges over any number of lives.                            *)
THEOREM RecoveryTypeCorrect ==
  ASSUME ~IteratorMayFail
  PROVE  Spec => []TypeOK
<1>1. RInv => TypeOK
  BY DEF RInv
<1> QED
  BY <1>1, RecoveryInvariance, PTL

(* The constructor finds its place again after every exit and every power  *)
(* failure.                                                                *)
THEOREM BoundsAlwaysRecovered ==
  ASSUME ~IteratorMayFail
  PROVE  Spec => []BoundsRecovered
<1>1. RInv => BoundsRecovered
  BY DEF RInv
<1> QED
  BY <1>1, RecoveryInvariance, PTL

(* Only a read error can make isValid_ lie: without one a valid queue has  *)
(* minKey and maxKey around what is stored.                                *)
THEOREM ValidSafe ==
  ASSUME ~IteratorMayFail
  PROVE  Spec => []ValidIsInitialized
<1>1. BoundsRecovered => ValidIsInitialized
  BY DEF BoundsRecovered, ValidIsInitialized
<1> QED
  BY <1>1, BoundsAlwaysRecovered, PTL

(* The bytes of every stored key are in the order of the integers and      *)
(* decode to it, for every base and width and even when iterators fail.    *)
THEOREM KeyOrderSafe == Spec => []KeyOrder
<1>1. KeyOrder
  BY CodecCorrect DEF KeyOrder, StoredIn
<1> QED
  BY <1>1, PTL

(* Messages stay in the order of their puts. *)
THEOREM OrderSurvives ==
  ASSUME ~IteratorMayFail
  PROVE  Spec => []InOrder
<1>1. RInv => InOrder
  BY DEF RInv, Sound, InOrder
<1> QED
  BY <1>1, RecoveryInvariance, PTL

(* A message that was put is stored, was removed by a call, or was taken   *)
(* back by a power failure.                                                *)
THEOREM NothingVanishes ==
  ASSUME ~IteratorMayFail
  PROVE  Spec => []NoneVanishes
<1>1. RInv => NoneVanishes
  BY DEF RInv
<1> QED
  BY <1>1, RecoveryInvariance, PTL

(* Fewer than BatchSize messages that were taken are in the queue again. *)
THEOREM FewReappear ==
  ASSUME ~IteratorMayFail
  PROVE  Spec => []ReappearBounded
<1>1. RInv => ReappearBounded
  BY DEF RInv, Sound, ReappearBounded
<1> QED
  BY <1>1, RecoveryInvariance, PTL

(* One power failure takes back fewer than BatchSize calls. *)
THEOREM FailureBound ==
  ASSUME ~IteratorMayFail
  PROVE  Spec => FailureUndoesFew
<1> USE RecoveryAssumption, KeyBound
<1> DEFINE A     == lost' \ lost
           B     == gone \cap (MessagesIn(db') \ MessagesIn(db))
           Few   == Cardinality(A) + Cardinality(B) < BatchSize
<1>1. ASSUME A = {}, B = {} PROVE Few
  <2>1. Cardinality(A) = 0 /\ Cardinality(B) = 0
    BY <1>1, FS_EmptySet
  <2> QED
    BY <2>1
<1>2. ASSUME RInv, PowerFailure PROVE Few
  <2>1. CASE db' = db
    <3>1. A = {} /\ B = {}
      BY <1>2, <2>1 DEF PowerFailure
    <3> QED
      BY <1>1, <3>1
  <2>2. ASSUME NEW i \in 1 .. Len(unsynced), db' = unsynced[i] PROVE Few
    <3> DEFINE D == MessagesIn(db)
               E == MessagesIn(db')
    <3>1. unsynced[i] \in Content /\ db \in Content /\ puts \in Nat
      BY SMTT(30), <1>2 DEF RInv, TypeOK, Content
    <3>2. /\ Sound(db', gone, puts) /\ Sound(db, gone, puts)
          /\ Near(db', db, gone, Len(unsynced) + 1 - i)
      BY <1>2, <2>2 DEF RInv, Past
    <3>3. IsFiniteSet(E \ D) /\ IsFiniteSet(D \ E)
      BY <2>2, <3>1, <3>2, MessagesFinite DEF Sound
    <3>4. A \subseteq D \ E /\ B \subseteq E \ D
      BY <1>2 DEF PowerFailure
    <3>5. /\ Cardinality(A) <= Cardinality(D \ E) /\ Cardinality(A) \in Nat
          /\ Cardinality(B) <= Cardinality(E \ D) /\ Cardinality(B) \in Nat
      BY <3>3, <3>4, SubsetBound
    <3>6. Cardinality(E \ D) + Cardinality(D \ E) <= Len(unsynced) + 1 - i
      BY <3>2 DEF Near, Diff
    <3>7. Len(unsynced) \in Nat /\ Len(unsynced) < BatchSize
      BY <1>2 DEF RInv, TypeOK
    <3>8. Cardinality(E \ D) \in Nat /\ Cardinality(D \ E) \in Nat
      BY <3>3, FS_CardinalityType
    <3> HIDE DEF A, B, D, E
    <3> QED
      BY <3>5, <3>6, <3>7, <3>8
  <2> QED
    BY Zenon, <1>2, <2>1, <2>2 DEF PowerFailure
<1>3. ASSUME RInv, Put PROVE Few
  <2>1. A = {}
    BY <1>3 DEF Put
  <2>2. MessagesIn(db') \subseteq MessagesIn(db) \cup {puts + 1}
    BY <1>3 DEF Put, Write, MessagesIn, RInv, TypeOK
  <2>3. puts + 1 \notin gone
    BY <1>3 DEF RInv, TypeOK
  <2> QED
    BY <1>1, <2>1, <2>2, <2>3
<1>4. ASSUME RInv, Remove PROVE Few
  <2>1. A = {}
    BY <1>4 DEF Remove, TakeOut
  <2>2. MessagesIn(db') \subseteq MessagesIn(db)
    BY <1>4 DEF Remove, Write, MessagesIn, RInv, TypeOK
  <2> QED
    BY <1>1, <2>1, <2>2
<1>5. ASSUME Open \/ Exit PROVE Few
  <2>1. db' = db /\ lost' = lost
    BY Zenon, <1>5 DEF Open, Exit, storeVars
  <2> QED
    BY <1>1, <2>1
<1>6. RInv /\ [Next]_vars => [Few]_vars
  <2> HIDE DEF Few
  <2> QED
    BY <1>2, <1>3, <1>4, <1>5 DEF Next
<1> QED
  BY <1>6, RecoveryInvariance, PTL DEF Spec, FailureUndoesFew

(***************************************************************************)
(* The refinement of DurableQueue.                                         *)
(***************************************************************************)
(* The stored messages as a sequence. *)
LEMMA QueueWindow ==
  ASSUME NEW c \in Content, NEW lo \in Keys, NEW hi \in Keys, lo <= hi,
         StoredIn(c) = lo .. (hi - 1)
  PROVE  QueueIn(c) = Window(c, lo, hi) /\ Filled(c, lo, hi, Nat)
<1> DEFINE S == StoredIn(c)
<1>1. lo \in Int /\ hi \in Int /\ lo .. (hi - 1) \subseteq Keys
  BY KeyBound DEF Keys
<1>2. Filled(c, lo, hi, Nat)
  BY <1>1 DEF Filled, Content
<1>3. Cardinality(S) = hi - lo
  <2>1. Cardinality(lo .. (hi - 1)) = IF lo > hi - 1 THEN 0 ELSE (hi - 1) - lo + 1
    BY <1>1, FS_Interval
  <2> QED
    BY <1>1, <2>1
<1>4. lo < hi => FirstOf(S) = lo
  <2> SUFFICES ASSUME lo < hi PROVE FirstOf(S) = lo
    OBVIOUS
  <2>1. lo \in S /\ \A j \in S : lo <= j /\ j \in Int
    BY <1>1
  <2> HIDE DEF S
  <2>2. FirstOf(S) \in S /\ \A j \in S : FirstOf(S) <= j
    BY Zenon, <2>1 DEF FirstOf
  <2> DEFINE f == FirstOf(S)
  <2>3. f \in Int /\ f <= lo /\ lo <= f
    BY Zenon, <2>1, <2>2
  <2> HIDE DEF f
  <2>4. f = lo
    BY <1>1, <2>3
  <2> QED
    BY Zenon, <2>4 DEF f
<1>5. QueueIn(c) = [i \in 1 .. (hi - lo) |-> c[FirstOf(S) + i - 1]]
  BY Zenon, <1>3 DEF QueueIn
<1> HIDE DEF S
<1>6. QueueIn(c) = [i \in 1 .. (hi - lo) |-> c[lo + i - 1]]
  <2>1. CASE lo < hi
    BY Zenon, <1>4, <1>5, <2>1
  <2>2. CASE ~(lo < hi)
    <3>1. 1 .. (hi - lo) = {}
      BY <1>1, <2>2
    <3> QED
      BY <1>5, <3>1
  <2> QED
    BY <2>1, <2>2
<1> QED
  BY Zenon, <1>2, <1>6 DEF Window

(* A call that a failure can take back adds the queue before it to what    *)
(* the queue may become; a sync leaves nothing of it.                      *)
LEMMA LogStep ==
  ASSUME RInv, NEW k \in Keys, NEW m, Write(k, m)
  PROVE  Durable!Log
<1> USE RecoveryAssumption
<1> DEFINE Q == {QueueIn(c) : c \in Content}
<1>1. unsynced \in Seq(Content) /\ db \in Content /\ sinceSync \in Nat
      /\ Len(unsynced) <= sinceSync
  BY DEF RInv, TypeOK, Content
<1>2. QueuesIn(unsynced)' = QueuesIn(unsynced')
  BY Zenon DEF QueuesIn, QueueIn, StoredIn, FirstOf
<1>3. CASE unsynced' = << >>
  <2>1. QueuesIn(unsynced') = << >>
    BY <1>3 DEF QueuesIn
  <2> QED
    BY Zenon, <1>2, <2>1 DEF Durable!Log
<1>4. CASE sinceSync + 1 < BatchSize /\ unsynced' = Append(unsynced, db)
  <2> DEFINE x == QueuesIn(Append(unsynced, db))
             w == QueuesIn(unsynced)
             v == QueueIn(db)
  <2>1. w \in Seq(Q) /\ Len(w) = Len(unsynced) /\ v \in Q
        /\ \A i \in 1 .. Len(unsynced) : w[i] = QueueIn(unsynced[i])
    BY <1>1 DEF QueuesIn
  <2>2. x \in Seq(Q) /\ Len(x) = Len(unsynced) + 1 /\ x[Len(unsynced) + 1] = v
        /\ \A i \in 1 .. Len(unsynced) : x[i] = QueueIn(unsynced[i])
    BY <1>1 DEF QueuesIn
  <2> HIDE DEF x, w, v, Q
  <2>3. x = Append(w, v)
    BY <2>1, <2>2
  <2>4. Len(w) + 1 < BatchSize
    BY <1>1, <1>4, <2>1
  <2> QED
    BY Zenon, <1>2, <1>4, <2>3, <2>4 DEF x, w, v, Durable!Log
<1> QED
  BY <1>3, <1>4 DEF Write

(* A put of the queue is a put of the durable queue. *)
LEMMA DurablePut ==
  ASSUME RInv, Put
  PROVE  Durable!Put
<1> USE RecoveryAssumption, KeyBound
<1> DEFINE m == puts + 1
<1>1. /\ minKey' = minKey /\ maxKey' = maxKey + 1 /\ gone' = gone /\ up' = up
      /\ up /\ puts < MaxPuts /\ maxKey < MAX_KEY /\ Write(maxKey, m)
  BY DEF Put
<1>2. /\ minKey \in Keys /\ maxKey \in Keys /\ minKey <= maxKey /\ minKey \in Int
      /\ maxKey \in Int /\ StoredIn(db) = minKey .. (maxKey - 1)
      /\ db \in Content /\ m \in Nat /\ m \in 1 .. MaxPuts
  BY <1>1 DEF RInv, TypeOK, BoundsRecovered, Keys, Content
<1>3. Changed(db, db', maxKey, m)
  <2>1. Changed(db, [db EXCEPT ![maxKey] = m], maxKey, m)
    BY <1>2, WriteChanges
  <2> QED
    BY <1>1, <2>1 DEF Write
<1> HIDE DEF m
<1>4. /\ db' \in Content /\ StoredIn(db') = minKey .. ((maxKey + 1) - 1)
      /\ maxKey + 1 \in Keys /\ minKey <= maxKey + 1
  <2>1. BoundsRecovered'
    BY StepPut DEF RInv
  <2>2. StoredIn(db)' = StoredIn(db')
    BY DEF StoredIn
  <2>3. StoredIn(db') = minKey .. ((maxKey + 1) - 1)
    BY Zenon, <1>1, <2>1, <2>2 DEF BoundsRecovered
  <2> QED
    BY <1>1, <1>2, <1>3, <2>3 DEF Changed, Keys
<1>5. QueueIn(db) = Window(db, minKey, maxKey) /\ Filled(db, minKey, maxKey, Nat)
  BY Zenon, <1>2, QueueWindow
<1>6. QueueIn(db') = Window(db', minKey, maxKey + 1)
  BY Zenon, <1>2, <1>4, QueueWindow
<1>7. Agree(db, db', minKey, maxKey) /\ db'[maxKey] = m
  BY <1>2, <1>3 DEF Agree, Changed, Keys
<1>8. QueueIn(db') = Append(QueueIn(db), m)
  <2>1. Window(db', minKey, maxKey + 1) = Append(Window(db, minKey, maxKey), m)
    BY <1>2, <1>5, <1>7, WindowAppend
  <2> QED
    BY Zenon, <1>5, <1>6, <2>1
<1>9. QueueIn(db)' = QueueIn(db')
  BY Zenon DEF QueueIn, StoredIn, FirstOf
<1>10. Durable!Log
  BY Zenon, <1>1, <1>2, LogStep
<1> QED
  BY Zenon, <1>1, <1>2, <1>8, <1>9, <1>10 DEF Durable!Put

(* A removal from the queue is a take of the durable queue. *)
LEMMA DurableTake ==
  ASSUME RInv, Remove
  PROVE  Durable!Take
<1> USE RecoveryAssumption, KeyBound
<1>1. /\ minKey' = minKey + 1 /\ maxKey' = maxKey /\ gone' = gone \cup {db[minKey]}
      /\ up' = up /\ up /\ count > 0 /\ Write(minKey, 0)
  BY DEF Remove, TakeOut
<1>2. /\ minKey \in Keys /\ maxKey \in Keys /\ minKey < maxKey /\ minKey \in Int
      /\ minKey <= maxKey /\ maxKey \in Int /\ StoredIn(db) = minKey .. (maxKey - 1)
      /\ db \in Content
  BY <1>1 DEF RInv, TypeOK, BoundsRecovered, Keys, Content
<1>3. Changed(db, db', minKey, 0)
  <2>1. Changed(db, [db EXCEPT ![minKey] = 0], minKey, 0)
    BY <1>2, WriteChanges
  <2> QED
    BY <1>1, <2>1 DEF Write
<1>4. /\ db' \in Content /\ StoredIn(db') = (minKey + 1) .. (maxKey - 1)
      /\ minKey + 1 \in Keys /\ minKey + 1 <= maxKey
  <2>1. BoundsRecovered'
    BY StepRemove DEF RInv
  <2>2. StoredIn(db)' = StoredIn(db')
    BY DEF StoredIn
  <2>3. StoredIn(db') = (minKey + 1) .. (maxKey - 1)
    BY Zenon, <1>1, <2>1, <2>2 DEF BoundsRecovered
  <2> QED
    BY <1>1, <1>2, <1>3, <2>3 DEF Changed, Keys
<1>5. QueueIn(db) = Window(db, minKey, maxKey) /\ Filled(db, minKey, maxKey, Nat)
  BY Zenon, <1>2, QueueWindow
<1>6. QueueIn(db') = Window(db', minKey + 1, maxKey)
  BY Zenon, <1>2, <1>4, QueueWindow
<1>7. Agree(db, db', minKey + 1, maxKey)
  BY <1>2, <1>3 DEF Agree, Changed, Keys
<1>8. /\ QueueIn(db) # << >> /\ Head(QueueIn(db)) = db[minKey]
      /\ QueueIn(db') = Tail(QueueIn(db))
  <2>1. /\ Window(db, minKey, maxKey) # << >>
        /\ Head(Window(db, minKey, maxKey)) = db[minKey]
        /\ Window(db', minKey + 1, maxKey) = Tail(Window(db, minKey, maxKey))
    BY <1>2, <1>5, <1>7, WindowTail
  <2> QED
    BY Zenon, <1>5, <1>6, <2>1
<1>9. QueueIn(db)' = QueueIn(db')
  BY Zenon DEF QueueIn, StoredIn, FirstOf
<1>10. Durable!Log
  <2>1. \E m : Write(minKey, m)
    BY Zenon, <1>1
  <2> QED
    BY Zenon, <1>2, <2>1, LogStep
<1> QED
  BY Zenon, <1>1, <1>8, <1>9, <1>10 DEF Durable!Take

(* A power failure leaves the queue that is stored, or takes it back to a  *)
(* queue since the last sync.                                              *)
LEMMA DurableFailure ==
  ASSUME RInv, PowerFailure
  PROVE  Durable!PowerFailure \/ Durable!Sync
<1>1. unsynced' = << >> /\ gone' = gone
  BY Zenon DEF PowerFailure
<1>2. QueueIn(db)' = QueueIn(db') /\ QueuesIn(unsynced)' = QueuesIn(unsynced')
  BY Zenon DEF QueuesIn, QueueIn, StoredIn, FirstOf
<1>3. QueuesIn(unsynced') = << >>
  BY <1>1 DEF QueuesIn
<1>4. CASE db' = db
  <2>1. QueueIn(db') = QueueIn(db)
    BY Zenon, <1>4
  <2> QED
    BY Zenon, <1>1, <1>2, <1>3, <2>1 DEF Durable!Sync
<1>5. ASSUME NEW i \in 1 .. Len(unsynced), db' = unsynced[i]
      PROVE  Durable!PowerFailure
  <2> DEFINE w == QueuesIn(unsynced)
  <2>1. Len(unsynced) \in Nat
    BY DEF RInv, TypeOK
  <2>2. Len(w) = Len(unsynced) /\ w[i] = QueueIn(unsynced[i])
    BY <2>1 DEF QueuesIn
  <2> QED
    BY Zenon, <1>1, <1>2, <1>3, <1>5, <2>2 DEF Durable!PowerFailure
<1> QED
  BY Zenon, <1>4, <1>5 DEF PowerFailure

(* Opening the store makes everything durable, and an exit changes nothing *)
(* the durable queue knows of.                                             *)
LEMMA DurableRestart ==
  /\ Open => Durable!Sync
  /\ Exit => UNCHANGED Durable!vars
  /\ UNCHANGED vars => UNCHANGED Durable!vars
<1>1. QueueIn(db)' = QueueIn(db') /\ QueuesIn(unsynced)' = QueuesIn(unsynced')
  BY Zenon DEF QueuesIn, QueueIn, StoredIn, FirstOf
<1>2. ASSUME Open PROVE Durable!Sync
  <2>1. unsynced' = << >> /\ gone' = gone /\ db' = db
    BY Zenon, <1>2 DEF Open
  <2>2. QueuesIn(unsynced') = << >>
    BY <2>1 DEF QueuesIn
  <2> QED
    BY Zenon, <1>1, <2>1, <2>2 DEF Durable!Sync
<1>3. ASSUME Exit \/ UNCHANGED vars PROVE UNCHANGED Durable!vars
  <2>1. unsynced' = unsynced /\ gone' = gone /\ db' = db
    BY Zenon, <1>3 DEF Exit, storeVars, vars
  <2> QED
    BY Zenon, <1>1, <2>1 DEF Durable!vars
<1> QED
  BY <1>2, <1>3

(* The queue starts empty. *)
LEMMA DurableInit == Init => Durable!Init
<1> USE RecoveryAssumption, KeyBound
<1> SUFFICES ASSUME Init PROVE Durable!Init
  OBVIOUS
<1>1. db \in Content /\ StoredIn(db) = 0 .. (0 - 1) /\ 0 \in Keys /\ 0 <= 0
  BY DEF Init, StoredIn, Content, Keys
<1>2. QueueIn(db) = Window(db, 0, 0)
  BY Zenon, <1>1, QueueWindow
<1>3. QueueIn(db) = << >>
  BY <1>2 DEF Window
<1>4. QueuesIn(unsynced) = << >> /\ gone = {}
  BY DEF Init, QueuesIn
<1> QED
  BY Zenon, <1>3, <1>4 DEF Durable!Init

(* Restarts and power failures included, the persistent queue behaves as a *)
(* FIFO queue that fails by returning to a queue it was at one of its last *)
(* BatchSize - 1 calls.                                                    *)
THEOREM RecoveryRefines ==
  ASSUME ~IteratorMayFail
  PROVE  Spec => ImplementsDurable
<1>1. RInv /\ [Next]_vars => [Durable!Next]_(Durable!vars)
  BY Zenon, DurablePut, DurableTake, DurableFailure, DurableRestart
     DEF Next, Durable!Next
<1> QED
  BY <1>1, DurableInit, RecoveryInvariance, PTL DEF Spec, ImplementsDurable, Durable!Spec
=============================================================================
