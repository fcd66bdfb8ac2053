--------------------------- MODULE MCAccountSweep ---------------------------
(* An instance of AccountSweep for TLC. *)
EXTENDS AccountSweep
=============================================================================
