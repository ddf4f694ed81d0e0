---------------------------- MODULE DurableQueue ----------------------------
(***************************************************************************)
(* What a queue promises across the lives of its process: a sequence of    *)
(* messages that ends and restarts of the process leave alone, and that a  *)
(* power failure takes back as a whole, to what it was at most             *)
(* BatchSize - 1 calls ago.                                                *)
(***************************************************************************)
EXTENDS Integers, Sequences

CONSTANTS Messages, BatchSize

VARIABLES
  q,     (* the messages, oldest first                                      *)
  past,  (* what the queue was before each call that is not yet durable     *)
  out    (* the messages that were handed out                               *)

vars == <<q, past, out>>

Init == q = << >> /\ past = << >> /\ out = {}

(* A call is durable with all before it, or may still be taken back. *)
Log == \/ past' = << >>
       \/ Len(past) + 1 < BatchSize /\ past' = Append(past, q)

Put == /\ \E m \in Messages : q' = Append(q, m)
       /\ Log
       /\ UNCHANGED out

Take == /\ q # << >>
        /\ q' = Tail(q)
        /\ out' = out \cup {Head(q)}
        /\ Log

(* The store made everything durable without a call, as it does when it is *)
(* opened.                                                                 *)
Sync == past' = << >> /\ UNCHANGED <<q, out>>

PowerFailure == /\ \E i \in 1 .. Len(past) : q' = past[i]
                /\ past' = << >>
                /\ UNCHANGED out

Next == Put \/ Take \/ Sync \/ PowerFailure

Spec == Init /\ [][Next]_vars
=============================================================================
