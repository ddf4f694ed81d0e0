------------------------------ MODULE MCStore ------------------------------
(* Small instances of Store. *)
EXTENDS Store, TLC

CONSTANTS k1, k2, t1, t2, v1

(* Threads differ in nothing but their names. *)
Symmetry == Permutations(Threads)

(* The writes whose number the WAL batch counts. *)
CountedCalls == {"put", "removeIfPresent", "putIfAbsent"}

(* The state without what was returned last, on which no action and no     *)
(* action property depends.                                                *)
View == <<dbVars, walVars, openVars, code, req, alive>>
=============================================================================
