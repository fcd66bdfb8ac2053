------------------------- MODULE MCRuntimeLifecycle -------------------------
(***************************************************************************)
(* An instance of RuntimeLifecycle: a thread and two tasks that close,       *)
(* with up to two closes that fail and one cancellation, which is what it     *)
(* takes to leave a failed cleanup task of the session behind.               *)
(***************************************************************************)
EXTENDS RuntimeLifecycle
=============================================================================
