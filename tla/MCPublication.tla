---------------------------- MODULE MCPublication ----------------------------
(***************************************************************************)
(* An instance of Publication.  Runs are interchangeable.  Rolls, which       *)
(* count sessions, belong to the development role: it gets a second session. *)
(* Fills pay powers of two, so that sums tell them apart.                     *)
(***************************************************************************)
EXTENDS Publication, TLC

TwoSessions == [r \in Roles |-> IF r = "DEVELOPMENT" THEN 3 ELSE 2]
PowersOfTwo == [i \in 1 .. MaxIntents |-> 2 ^ (i - 1)]
Symmetry == Permutations(Runs)
=============================================================================
