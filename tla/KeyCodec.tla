------------------------------ MODULE KeyCodec ------------------------------
(***************************************************************************)
(* The keys of a queue: 64-bit integers, stored as byte strings, which the *)
(* store orders as byte strings.  A key has Width bytes of Base values.    *)
(***************************************************************************)
EXTENDS Integers

CONSTANTS Base, Width  (* 256 and 8 *)

ASSUME CodecAssumption == Base \in Nat \ {0, 1} /\ Width \in Nat

(* The weight of the byte that n bytes follow. *)
Weight[n \in 0 .. Width] == IF n = 0 THEN 1 ELSE Base * Weight[n - 1]

MAX_KEY == Weight[Width] - 1
Keys    == 0 .. MAX_KEY

(* memcpy of the swapped integer on a little-endian machine writes the     *)
(* most significant byte first; without the swap it would write it last.   *)
putU64LE(x) == [i \in 1 .. Width |-> (x \div Weight[i - 1]) % Base]

putU64BE(x) == [i \in 1 .. Width |-> (x \div Weight[Width - i]) % Base]

getU64BE(bytes) ==
  LET value[n \in 0 .. Width] == IF n = 0 THEN 0 ELSE value[n - 1] * Base + bytes[n]
  IN  value[Width]

(* Slice::compare on two keys of the same length. *)
Before(a, b) ==
  \E i \in 1 .. Width : a[i] < b[i] /\ \A j \in 1 .. (i - 1) : a[j] = b[j]

(* Reading the bytes of x gives x, and they compare as x does. *)
CodecAt(x) ==
  /\ getU64BE(putU64BE(x)) = x
  /\ \A y \in Keys : Before(putU64BE(x), putU64BE(y)) <=> x < y
=============================================================================
