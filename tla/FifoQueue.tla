----------------------------- MODULE FifoQueue -----------------------------
(***************************************************************************)
(* What the interface Kueue promises its clients: one sequence of          *)
(* messages, written at one end, read and removed at the other, in which a *)
(* call that fails or times out changes nothing.                           *)
(***************************************************************************)
EXTENDS Sequences

CONSTANTS Threads, Values, NoValue

VARIABLES
  q,    (* the messages, oldest first                  *)
  got   (* the message each thread was handed last     *)

vars == <<q, got>>

Init ==
  /\ q \in Seq(Values)
  /\ got = [t \in Threads |-> NoValue]

Hand(t, v) == got' = [got EXCEPT ![t] = v]

Put == /\ \E v \in Values : q' = Append(q, v)
       /\ UNCHANGED got

(* A message is handed out and gone. *)
Take(t) == /\ q # <<>>
           /\ q' = Tail(q)
           /\ Hand(t, Head(q))

(* A message is handed out and stays: readNext, or a take that failed      *)
(* after it had read the value.                                            *)
Peek(t) == /\ q # <<>>
           /\ Hand(t, Head(q))
           /\ UNCHANGED q

(* erase, or one round of clear. *)
Drop == /\ q # <<>>
        /\ q' = Tail(q)
        /\ UNCHANGED got

(* A take or readNext that times out or fails. *)
Nothing(t) == /\ Hand(t, NoValue)
              /\ UNCHANGED q

Next == \/ Put
        \/ Drop
        \/ \E t \in Threads : Take(t) \/ Peek(t) \/ Nothing(t)

Spec == Init /\ [][Next]_vars
=============================================================================
