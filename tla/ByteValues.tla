---------------------------- MODULE ByteValues ----------------------------
(***************************************************************************)
(* What the C++ client promises: bytes is a value type.  Every object      *)
(* holds a byte string of its own, given here by its length; nothing done  *)
(* to one object changes another, except a move, which swaps two.  A call  *)
(* of KVStore answers with what the store held, an absent key and an empty *)
(* value alike with the empty string.                                      *)
(***************************************************************************)
EXTENDS Integers

CONSTANTS Objects, MaxLen, KeyLen, NoValue, NoObject

VARIABLES
  stored,  (* the value of the key the client works on, or NoValue          *)
  value    (* the byte string of each object, or NoObject                   *)

vars == <<stored, value>>

Lengths == 0 .. MaxLen

Answer(v) == IF v = NoValue THEN 0 ELSE v

Init ==
  /\ stored = NoValue
  /\ value = [o \in Objects |-> NoObject]

Make(o, v) == value[o] = NoObject /\ value' = [value EXCEPT ![o] = v]

(* put, remove, putIfAbsent. *)
Write == stored' \in Lengths \cup {NoValue} /\ UNCHANGED value

(* get, updateIfPresent, removeIfPresent: the answer is the old value. *)
Obtain(o) ==
  /\ Make(o, Answer(stored))
  /\ \/ UNCHANGED stored
     \/ stored # NoValue /\ stored' \in Lengths \cup {NoValue}

FindKey(o) ==
  /\ Make(o, IF stored = NoValue THEN 0 ELSE KeyLen)
  /\ UNCHANGED stored

Copy(o, p) ==
  /\ value[p] # NoObject
  /\ Make(o, value[p])
  /\ UNCHANGED stored

MoveInto(o, p) ==
  /\ value[p] # NoObject
  /\ value[o] = NoObject
  /\ value' = [value EXCEPT ![o] = value[p], ![p] = 0]
  /\ UNCHANGED stored

(* An assignment that runs out of memory leaves the target empty; one to   *)
(* itself changes nothing.                                                 *)
Assign(o, p) ==
  /\ NoObject \notin {value[o], value[p]}
  /\ \E v \in {value[p], 0} : value' = IF o = p THEN value ELSE [value EXCEPT ![o] = v]
  /\ UNCHANGED stored

Swap(o, p) ==
  /\ NoObject \notin {value[o], value[p]}
  /\ value' = [value EXCEPT ![o] = value[p], ![p] = value[o]]
  /\ UNCHANGED stored

Empty(o) ==
  /\ value[o] # NoObject
  /\ \E v \in {0, NoObject} : value' = [value EXCEPT ![o] = v]
  /\ UNCHANGED stored

Next ==
  \/ Write
  \/ \E o \in Objects : Obtain(o) \/ FindKey(o) \/ Empty(o)
  \/ \E o, p \in Objects : Copy(o, p) \/ MoveInto(o, p) \/ Assign(o, p) \/ Swap(o, p)

Spec == Init /\ [][Next]_vars
=============================================================================
