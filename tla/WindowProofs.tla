---------------------------- MODULE WindowProofs ----------------------------
(***************************************************************************)
(* The messages a queue keeps under successive keys, as a sequence: what a *)
(* write behind the last key and the removal of the first key do to it.    *)
(***************************************************************************)
EXTENDS Integers, Sequences, TLAPS

(* The messages under the keys a, a + 1, ... b - 1 of the content c. *)
Window(c, a, b) == [i \in 1 .. (b - a) |-> c[a + i - 1]]

(* Every key of the window holds a message. *)
Filled(c, a, b, S) == \A k \in a .. (b - 1) : c[k] \in S

(* Two contents agree on the window. *)
Agree(c, d, a, b) == \A k \in a .. (b - 1) : d[k] = c[k]

(* A window is a sequence. *)
LEMMA WindowSeq ==
  ASSUME NEW S, NEW c, NEW a \in Int, NEW b \in Int, a <= b,
         Filled(c, a, b, S)
  PROVE  /\ Window(c, a, b) \in Seq(S)
         /\ Len(Window(c, a, b)) = b - a
         /\ \A i \in 1 .. (b - a) : Window(c, a, b)[i] = c[a + i - 1]
<1> DEFINE w == Window(c, a, b)
           n == b - a
<1>1. n \in Nat
  OBVIOUS
<1>2. ASSUME NEW i \in 1 .. n PROVE c[a + i - 1] \in S
  <2>1. a + i - 1 \in a .. (b - 1)
    BY <1>1
  <2> QED
    BY <2>1 DEF Filled
<1>3. w \in Seq(S)
  BY <1>1, <1>2 DEF Window
<1>4. Len(w) = n /\ \A i \in 1 .. n : w[i] = c[a + i - 1]
  BY <1>1 DEF Window
<1> QED
  BY <1>3, <1>4

(* Writing the key behind the window appends its message. *)
LEMMA WindowAppend ==
  ASSUME NEW S, NEW c, NEW d, NEW a \in Int, NEW b \in Int, a <= b,
         NEW v \in S, Filled(c, a, b, S), Agree(c, d, a, b), d[b] = v
  PROVE  Window(d, a, b + 1) = Append(Window(c, a, b), v)
<1> DEFINE w == Window(c, a, b)
           x == Window(d, a, b + 1)
           y == Append(w, v)
<1>1. w \in Seq(S) /\ Len(w) = b - a /\ \A i \in 1 .. (b - a) : w[i] = c[a + i - 1]
  BY WindowSeq
<1>2. Filled(d, a, b + 1, S)
  <2>1. ASSUME NEW k \in a .. (b + 1 - 1) PROVE d[k] \in S
    <3>1. k = b \/ k \in a .. (b - 1)
      OBVIOUS
    <3> QED
      BY <3>1 DEF Filled, Agree
  <2> QED
    BY <2>1 DEF Filled
<1>3. /\ x \in Seq(S) /\ Len(x) = (b + 1) - a
      /\ \A i \in 1 .. ((b + 1) - a) : x[i] = d[a + i - 1]
  <2> DEFINE e == b + 1
  <2>1. e \in Int /\ a <= e /\ Filled(d, a, e, S)
    BY <1>2
  <2> HIDE DEF e
  <2>2. /\ Window(d, a, e) \in Seq(S) /\ Len(Window(d, a, e)) = e - a
        /\ \A i \in 1 .. (e - a) : Window(d, a, e)[i] = d[a + i - 1]
    BY <2>1, WindowSeq
  <2> QED
    BY Zenon, <2>2 DEF e
<1> HIDE DEF w, x
<1>4. /\ y \in Seq(S) /\ Len(y) = Len(w) + 1 /\ y[Len(w) + 1] = v
      /\ \A i \in 1 .. Len(w) : y[i] = w[i]
  <2>1. w \in Seq(S)
    BY <1>1
  <2> QED
    BY <2>1
<1> HIDE DEF y
<1>5. ASSUME NEW i \in 1 .. Len(x) PROVE x[i] = y[i]
  <2>1. CASE i <= b - a
    <3>1. a + i - 1 \in a .. (b - 1)
      BY <1>3, <2>1
    <3>2. x[i] = d[a + i - 1] /\ y[i] = c[a + i - 1]
      BY <1>1, <1>3, <1>4, <2>1
    <3> QED
      BY <3>1, <3>2 DEF Agree
  <2>2. CASE ~(i <= b - a)
    <3>1. i = b - a + 1 /\ a + i - 1 = b
      BY <1>3, <2>2
    <3>2. x[i] = d[b]
      BY <1>3, <3>1
    <3>3. Len(w) + 1 = i
      BY <1>1, <3>1
    <3> QED
      BY <1>4, <3>2, <3>3
  <2> QED
    BY <2>1, <2>2
<1>6. Len(x) = Len(y)
  BY <1>1, <1>3, <1>4
<1>7. x = y
  BY <1>3, <1>4, <1>5, <1>6
<1> QED
  BY <1>7 DEF w, x, y

(* Leaving the first key behind removes the first message. *)
LEMMA WindowTail ==
  ASSUME NEW S, NEW c, NEW d, NEW a \in Int, NEW b \in Int, a < b,
         Filled(c, a, b, S), Agree(c, d, a + 1, b)
  PROVE  /\ Window(c, a, b) # << >>
         /\ Head(Window(c, a, b)) = c[a]
         /\ Window(d, a + 1, b) = Tail(Window(c, a, b))
<1> DEFINE w == Window(c, a, b)
           x == Window(d, a + 1, b)
           y == Tail(w)
<1>1. w \in Seq(S) /\ Len(w) = b - a /\ \A i \in 1 .. (b - a) : w[i] = c[a + i - 1]
  BY WindowSeq
<1>2. Filled(d, a + 1, b, S)
  BY DEF Filled, Agree
<1>3. /\ x \in Seq(S) /\ Len(x) = b - (a + 1)
      /\ \A i \in 1 .. (b - (a + 1)) : x[i] = d[a + 1 + i - 1]
  BY <1>2, WindowSeq
<1> HIDE DEF w, x
<1>4. w # << >>
  BY <1>1
<1>5. Head(w) = w[1]
  BY <1>1, <1>4
<1>6. Head(w) = c[a]
  <2>1. 1 \in 1 .. (b - a) /\ a + 1 - 1 = a
    OBVIOUS
  <2> QED
    BY <1>1, <1>5, <2>1
<1>7. y \in Seq(S) /\ Len(y) = Len(w) - 1 /\ \A i \in 1 .. Len(y) : y[i] = w[i + 1]
  BY <1>1, <1>4
<1> HIDE DEF y
<1>8. Len(x) = Len(y)
  BY <1>1, <1>3, <1>7
<1>9. ASSUME NEW i \in 1 .. Len(x) PROVE x[i] = y[i]
  <2>1. i + 1 \in 1 .. (b - a) /\ a + (i + 1) - 1 = a + 1 + i - 1
    BY <1>3
  <2>2. a + 1 + i - 1 \in (a + 1) .. (b - 1)
    BY <1>3
  <2>3. y[i] = c[a + 1 + i - 1]
    BY <1>1, <1>7, <1>8, <2>1
  <2>4. x[i] = d[a + 1 + i - 1]
    BY <1>3
  <2> QED
    BY <2>2, <2>3, <2>4 DEF Agree
<1>10. x = y
  BY <1>3, <1>7, <1>8, <1>9
<1> QED
  BY <1>4, <1>6, <1>10 DEF w, x, y
=============================================================================
