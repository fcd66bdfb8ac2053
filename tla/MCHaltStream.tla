---------------------------- MODULE MCHaltStream ----------------------------
(***************************************************************************)
(* Instances of HaltStream: trades t1, t2, t3 print at 2, 3 and 4.          *)
(***************************************************************************)
EXTENDS HaltStream

CONSTANTS t1, t2, t3

MCPrintedAt == [t \in Trades |-> CASE t = t1 -> 2 [] t = t2 -> 3 [] OTHER -> 4]
=============================================================================
