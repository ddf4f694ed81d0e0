------------------------------ MODULE MCKueue ------------------------------
(* Small instances of Kueue. *)
EXTENDS Kueue, TLC

CONSTANTS p1, p2, c1, c2, v1, v2

(* Producers against takers, timed and not, and clear; nobody reads. *)
TakerCalls == (p1 :> {"put"})
           @@ (p2 :> {"put", "clear"})
           @@ (c1 :> {"take"})
           @@ (c2 :> {"takeFor"})

(* A producer, a taker and a reader that does not erase. *)
ReaderCalls == (p1 :> {"put"}) @@ (c1 :> {"take"}) @@ (c2 :> {"readNext"})

(* A producer and two consumers that read, then erase. *)
EraserCalls == (p1 :> {"put"})
            @@ (c1 :> {"readNext", "erase"})
            @@ (c2 :> {"readNext", "erase"})

(* Every operation: a consumer that only reads and erases, next to one     *)
(* that also takes, two that put, and clear.                               *)
MixedCalls == (p1 :> {"put", "clear"})
           @@ (c1 :> {"put", "readNext", "erase"})
           @@ (c2 :> TakeOps \cup {"readNextFor", "erase"})

(* The Kind is empty, or holds one message that is not at key 0. *)
EmptyOrOne == {{}, {1}}
Empty      == {{}}

(* Messages are only compared with each other. *)
ValueSymmetry == Permutations(Values)
=============================================================================
