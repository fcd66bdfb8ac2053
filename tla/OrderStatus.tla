----------------------------- MODULE OrderStatus -----------------------------
(***************************************************************************)
(* The broker order states, the phase each belongs to, and which filled     *)
(* quantity each may carry.                                                 *)
(***************************************************************************)
EXTENDS Naturals

MUTATION_ELIGIBLE == {"NEW", "PARTIALLY_FILLED", "ACCEPTED", "PENDING_NEW"}

LOOKUP_ONLY == {"DONE_FOR_DAY", "PENDING_CANCEL", "PENDING_REPLACE", "PENDING_REVIEW",
                "ACCEPTED_FOR_BIDDING", "STOPPED", "SUSPENDED", "CALCULATED", "HELD"}

TERMINAL == {"FILLED", "CANCELED", "EXPIRED", "REPLACED", "REJECTED"}

PENDING == MUTATION_ELIGIBLE \cup LOOKUP_ONLY
KNOWN == PENDING \cup TERMINAL
FINALIZABLE == TERMINAL \cup {"CALCULATED"}

ZERO_FILL == {"NEW", "PENDING_REVIEW", "ACCEPTED", "PENDING_NEW", "ACCEPTED_FOR_BIDDING",
              "HELD", "STOPPED", "REJECTED"}

\* broker_state_matches_fill
StateMatchesFill(st, fill, qty) ==
    /\ st \in KNOWN
    /\ fill \in 0..qty
    /\ st \in ZERO_FILL => fill = 0
    /\ st = "PARTIALLY_FILLED" => 0 < fill /\ fill < qty
    /\ st = "FILLED" => fill = qty
    /\ st \notin ZERO_FILL \cup {"PARTIALLY_FILLED", "FILLED", "CALCULATED"} => fill < qty

\* _terminal_status: the attempt has an outcome a certificate can carry.
OutcomeSupported(st, fill, qty) ==
    \/ st \in {"FILLED", "CALCULATED"} /\ fill = qty
    \/ st \in TERMINAL \ {"FILLED"} /\ fill = 0
    \/ st \in {"CANCELED", "EXPIRED", "REPLACED"} /\ 0 < fill /\ fill < qty

\* _requires_finalization
RequiresFinalization(st, fill, qty) == st \in TERMINAL \/ OutcomeSupported(st, fill, qty)
=============================================================================
