--------------------------- MODULE DecisionLedger ---------------------------
(***************************************************************************)
(* What the opportunity pipeline promises, without runs, providers or      *)
(* clocks. A frozen plan is observed at most once and the observation is   *)
(* never replaced; a decision boundary is decided at most once, from the   *)
(* observation its plan holds; an entry is made only together with the     *)
(* decision of its boundary.                                               *)
(***************************************************************************)
CONSTANTS Plans, Boundaries, Evidence, Unobserved

VARIABLES
    observed,   \* per plan: the evidence it was observed with, or Unobserved
    decided,    \* per boundary: the plan and the evidence it was decided on
    entered     \* the boundaries whose decision made an entry

ledgerVars == <<observed, decided, entered>>

LedgerInit ==
    /\ observed = [p \in Plans |-> Unobserved]
    /\ decided = [b \in Boundaries |-> {}]
    /\ entered = {}

Observe(p, e) ==
    /\ observed[p] = Unobserved
    /\ observed' = [observed EXCEPT ![p] = e]
    /\ UNCHANGED <<decided, entered>>

Decide(b, p) ==
    /\ decided[b] = {}
    /\ observed[p] # Unobserved
    /\ \A c \in Boundaries : \A x \in decided[c] : x[1] # p
    /\ decided' = [decided EXCEPT ![b] = {<<p, observed[p]>>}]
    /\ entered' \in {entered, entered \cup {b}}
    /\ UNCHANGED observed

LedgerNext ==
    \/ \E p \in Plans, e \in Evidence : Observe(p, e)
    \/ \E b \in Boundaries, p \in Plans : Decide(b, p)

LedgerSpec == LedgerInit /\ [][LedgerNext]_ledgerVars

=============================================================================
