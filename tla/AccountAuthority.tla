-------------------------- MODULE AccountAuthority --------------------------
(***************************************************************************)
(* The account-level half of the execution authority kept by               *)
(* SQLAlchemyExecutionRepository: which intent may be claimed, the entry    *)
(* budget a claim reserves, and what finalization does with both.  One      *)
(* executable account (role SUBMISSION) is modelled.  Every action is one   *)
(* database transaction that locks the account, intent and budget rows.     *)
(*                                                                         *)
(* What happens at the broker between the first prepared attempt and the   *)
(* finalization is the subject of BrokerExecution; here its outcome (fill  *)
(* or no fill, partial or whole, a sweep that does not match) is any of     *)
(* those the code tells apart.                                             *)
(***************************************************************************)
EXTENDS Naturals, FiniteSetsExt

CONSTANTS
    Intents,            \* identities of the intents approved during a run
    Actions,            \* the ExecutionAction values the envelopes of a run carry
    Risk,               \* Intents -> approved_max_loss of the envelope
    EquityLevels,       \* equity values a sweep or a start-up may report
    EquityFloor,        \* EntryBudgetLimits.equity_floor
    MaxLifetimeEntries, \* EntryBudgetLimits.maximum_lifetime_entries
    MaxLifetimeRisk,    \* EntryBudgetLimits.maximum_lifetime_risk
    MaxPositionLoss,    \* EntryBudgetLimits.maximum_position_loss
    NoIntent            \* reserved_intent_id is None

ASSUME IntentsAssumption == NoIntent \notin Intents
ASSUME ActionsAssumption == Actions \subseteq {"ENTRY", "CLOSE", "ROLL"}
ASSUME RiskAssumption == Risk \in [Intents -> Nat]
ASSUME EquityAssumption == EquityLevels \subseteq Nat /\ EquityFloor \in Nat
ASSUME LimitsAssumption == /\ MaxLifetimeEntries \in Nat
                           /\ MaxLifetimeRisk \in Nat
                           /\ MaxPositionLoss \in Nat

Actors == {"SCHEDULER", "OWNER"}
IntentStates == {"ABSENT", "APPROVED", "CLAIMED", "TERMINAL"}
Baselines == {"NONE", "CLEAN", "CONTAMINATED"}

VARIABLES
    \* AccountRoleRow
    execution_locked, autonomous_enabled, equity, claim_generation,
    \* SubmissionBaselineRow: missing, clean or contaminated
    baseline,
    \* CompetitionEntryBudgetRow
    entries_used, gross_approved_risk, reserved_intent, reserved_risk,
    \* ExecutionIntentRow, one entry per intent
    state, action, generation, first_fill_consumed, lease_expired,
    \* whether OrderAttemptRow holds an attempt of the intent, and whether the broker
    \* write of its first attempt was ever dispatched
    has_attempt, dispatched,
    \* whether the authorization of the intent is inside its validity window
    authorized

account == <<execution_locked, autonomous_enabled, equity, claim_generation, baseline>>
budget == <<entries_used, gross_approved_risk, reserved_intent, reserved_risk>>
intentVars == <<state, action, generation, first_fill_consumed, lease_expired, has_attempt,
               dispatched, authorized>>
vars == <<account, budget, intentVars>>

Entries == {i \in Intents : action[i] = "ENTRY"}

TypeOK ==
    /\ execution_locked \in BOOLEAN
    /\ autonomous_enabled \in BOOLEAN
    /\ equity \in EquityLevels
    /\ claim_generation \in Nat
    /\ baseline \in Baselines
    /\ entries_used \in Nat
    /\ gross_approved_risk \in Nat
    /\ reserved_intent \in Intents \cup {NoIntent}
    /\ reserved_risk \in Nat
    /\ state \in [Intents -> IntentStates]
    /\ action \in [Intents -> Actions \cup {"NONE"}]
    /\ generation \in [Intents -> Nat]
    /\ first_fill_consumed \in [Intents -> BOOLEAN]
    /\ lease_expired \in [Intents -> BOOLEAN]
    /\ has_attempt \in [Intents -> BOOLEAN]
    /\ dispatched \in [Intents -> BOOLEAN]
    /\ authorized \in [Intents -> BOOLEAN]

\* register_account for a new row: autonomy starts disabled whatever the caller passes.
Init ==
    /\ execution_locked = FALSE
    /\ autonomous_enabled = FALSE
    /\ equity \in EquityLevels
    /\ claim_generation = 0
    /\ baseline = "NONE"
    /\ entries_used = 0
    /\ gross_approved_risk = 0
    /\ reserved_intent = NoIntent
    /\ reserved_risk = 0
    /\ state = [i \in Intents |-> "ABSENT"]
    /\ action = [i \in Intents |-> "NONE"]
    /\ generation = [i \in Intents |-> 0]
    /\ first_fill_consumed = [i \in Intents |-> FALSE]
    /\ lease_expired = [i \in Intents |-> FALSE]
    /\ has_attempt = [i \in Intents |-> FALSE]
    /\ dispatched = [i \in Intents |-> FALSE]
    /\ authorized = [i \in Intents |-> FALSE]

-----------------------------------------------------------------------------
(* Helpers of the repository *)

\* Mutant: the risk charged so far is left out.
ValidateEntryAlone(i, current_equity) ==
    /\ current_equity > EquityFloor
    /\ entries_used < MaxLifetimeEntries
    /\ Risk[i] <= MaxPositionLoss
    /\ Risk[i] <= MaxLifetimeRisk

\* EntryBudgetLimits.validate_entry; policy hash and quantity are those of the plan.
ValidateEntry(i, current_equity) ==
    /\ current_equity > EquityFloor
    /\ entries_used < MaxLifetimeEntries
    /\ Risk[i] <= MaxPositionLoss
    /\ gross_approved_risk + Risk[i] <= MaxLifetimeRisk

\* Mutant: a claim whose lease ran out no longer counts.
ActiveLeaseUnexpired == \E i \in Intents : state[i] = "CLAIMED" /\ ~lease_expired[i]

\* The query of claim_intent for another claimed intent of the account; a lease that ran
\* out still counts.
ActiveLease == \E i \in Intents : state[i] = "CLAIMED"

\* _verify_claim_fence: the claim a service holds is the one the rows carry.
ClaimFence(i) == state[i] = "CLAIMED" /\ generation[i] = claim_generation

\* The reservation is dropped only when it belongs to one of the released intents.
ReleaseReservation(released) ==
    IF reserved_intent \in released
    THEN reserved_intent' = NoIntent /\ reserved_risk' = 0
    ELSE UNCHANGED <<reserved_intent, reserved_risk>>

-----------------------------------------------------------------------------
(* Account operations *)

\* register_account on an existing row, at every process start.
RegisterAccount(observed) ==
    /\ equity' = observed
    /\ UNCHANGED <<execution_locked, autonomous_enabled, claim_generation, baseline, budget, intentVars>>

SetAutonomousEnabled(enabled, actor) ==
    /\ actor = "OWNER"
    /\ autonomous_enabled' = enabled
    /\ UNCHANGED <<execution_locked, equity, claim_generation, baseline, budget, intentVars>>

CaptureBaseline ==
    /\ baseline = "NONE"
    /\ baseline' = "CLEAN"
    /\ UNCHANGED <<execution_locked, autonomous_enabled, equity, claim_generation, budget, intentVars>>

ObserveAccountAdjustment ==
    /\ baseline # "NONE"
    /\ baseline' = "CONTAMINATED"
    /\ UNCHANGED <<execution_locked, autonomous_enabled, equity, claim_generation, budget, intentVars>>

-----------------------------------------------------------------------------
(* Intents: approval, claim, release *)

\* approve_intent; the digest makes a second approval return the existing row.
ApproveIntent(i, approved) ==
    /\ state[i] = "ABSENT"
    /\ state' = [state EXCEPT ![i] = "APPROVED"]
    /\ action' = [action EXCEPT ![i] = approved]
    /\ authorized' = [authorized EXCEPT ![i] = TRUE]
    /\ UNCHANGED <<account, budget, generation, first_fill_consumed, lease_expired, has_attempt,
                   dispatched>>

\* The validity window of the authorization closes; after TERMINAL nothing reads it.
AuthorizationExpires(i) ==
    /\ authorized[i]
    /\ state[i] # "TERMINAL"
    /\ authorized' = [authorized EXCEPT ![i] = FALSE]
    /\ UNCHANGED <<account, budget, state, action, generation, first_fill_consumed, lease_expired,
                   has_attempt, dispatched>>

\* Thirty seconds after the claim.
LeaseExpires(i) ==
    /\ state[i] = "CLAIMED"
    /\ ~lease_expired[i]
    /\ lease_expired' = [lease_expired EXCEPT ![i] = TRUE]
    /\ UNCHANGED <<account, budget, state, action, generation, first_fill_consumed, has_attempt,
                   dispatched, authorized>>

\* claim_intent: who may claim what.
MayClaim(i, actor) ==
    IF action[i] = "ENTRY"
    THEN actor # "OWNER" /\ autonomous_enabled
    ELSE actor = "SCHEDULER" => autonomous_enabled

\* _reserve_entry
ReserveEntry(i) ==
    /\ baseline = "CLEAN"
    /\ reserved_intent = NoIntent
    /\ ValidateEntry(i, equity)
    /\ reserved_intent' = i
    /\ reserved_risk' = Risk[i]

ClaimIntent(i, actor) ==
    /\ ~execution_locked
    /\ state[i] = "APPROVED"
    /\ ~ActiveLease
    /\ MayClaim(i, actor)
    /\ authorized[i]
    /\ IF action[i] = "ENTRY"
       THEN ReserveEntry(i)
       ELSE UNCHANGED <<reserved_intent, reserved_risk>>
    /\ state' = [state EXCEPT ![i] = "CLAIMED"]
    /\ claim_generation' = claim_generation + 1
    /\ generation' = [generation EXCEPT ![i] = claim_generation + 1]
    /\ lease_expired' = [lease_expired EXCEPT ![i] = FALSE]
    /\ UNCHANGED <<action, execution_locked, autonomous_enabled, equity, baseline, entries_used,
                   gross_approved_risk, first_fill_consumed, has_attempt, dispatched, authorized>>

ReleaseUnsubmittedClaim(i) ==
    /\ state[i] = "CLAIMED"
    /\ ~has_attempt[i]
    /\ ReleaseReservation({i})
    /\ state' = [state EXCEPT ![i] = "TERMINAL"]
    /\ UNCHANGED <<account, entries_used, gross_approved_risk, action, generation,
                   first_fill_consumed, lease_expired, has_attempt, dispatched, authorized>>

ExpiredClaims == {i \in Intents : state[i] = "CLAIMED" /\ lease_expired[i] /\ ~has_attempt[i]}

ExpiredUnsubmittedClaims ==
    /\ ExpiredClaims # {}
    /\ ReleaseReservation(ExpiredClaims)
    /\ state' = [i \in Intents |-> IF i \in ExpiredClaims THEN "TERMINAL" ELSE state[i]]
    /\ UNCHANGED <<account, entries_used, gross_approved_risk, action, generation,
                   first_fill_consumed, lease_expired, has_attempt, dispatched, authorized>>

\* Every claimed entry without a recorded fill reserves again, the last one read wins.
RecoverEntryReservations ==
    /\ \E i \in Entries :
           /\ state[i] = "CLAIMED"
           /\ ~first_fill_consumed[i]
           /\ reserved_intent' = i
           /\ reserved_risk' = Risk[i]
    /\ UNCHANGED <<account, entries_used, gross_approved_risk, intentVars>>

-----------------------------------------------------------------------------
(* Broker mutations and finalization, as far as the account rows see them *)

\* Mutant: the latch is not looked at.
MayPrepareLatched(i) == ClaimFence(i) /\ authorized[i] /\ baseline = "CLEAN"

\* What every prepare_broker_mutation checks before it looks at the sweep.
MayPrepare(i) ==
    /\ ClaimFence(i)
    /\ ~execution_locked
    /\ authorized[i]
    /\ baseline = "CLEAN"

\* prepare_broker_mutation, purpose SUBMIT: the sweep's equity is stored even when the
\* sweep does not match or an entry limit fails, and then the account is latched.
PrepareSubmit(i, observed, matches) ==
    /\ MayPrepare(i)
    /\ ~dispatched[i]
    /\ equity' = observed
    /\ LET safe == matches /\ (action[i] = "ENTRY" => ValidateEntry(i, observed))
       IN  /\ execution_locked' = ~safe
           /\ has_attempt' = [has_attempt EXCEPT ![i] = @ \/ safe]
    /\ UNCHANGED <<autonomous_enabled, claim_generation, baseline, budget, state, action, generation,
                   first_fill_consumed, lease_expired, dispatched, authorized>>

\* acquire_broker_dispatch of the submit: the authorization is not looked at again.
AcquireSubmitDispatch(i) ==
    /\ ClaimFence(i)
    /\ ~execution_locked
    /\ has_attempt[i]
    /\ ~dispatched[i]
    /\ dispatched' = [dispatched EXCEPT ![i] = TRUE]
    /\ UNCHANGED <<account, budget, state, action, generation, first_fill_consumed, lease_expired,
                   has_attempt, authorized>>

\* prepare_broker_mutation, purpose REPLACE or CANCEL: no entry limit is checked.
PrepareReplaceOrCancel(i, observed, matches) ==
    /\ MayPrepare(i)
    /\ dispatched[i]
    /\ equity' = observed
    /\ execution_locked' = ~matches
    /\ UNCHANGED <<autonomous_enabled, claim_generation, baseline, budget, intentVars>>

\* An attempt lookup that finds no order to cancel, or a transition past its deadline.
LatchFromLookup(i) ==
    /\ ClaimFence(i)
    /\ dispatched[i]
    /\ execution_locked' = TRUE
    /\ UNCHANGED <<autonomous_enabled, equity, claim_generation, baseline, budget, intentVars>>

\* Mutant: the entry is charged whether it filled or not.
ChargeAlways(has_fill) ==
    /\ entries_used' = entries_used + 1
    /\ gross_approved_risk' = gross_approved_risk + reserved_risk

\* A first fill charges the budget with the risk that was reserved for it.
Charge(has_fill) ==
    /\ entries_used' = IF has_fill THEN entries_used + 1 ELSE entries_used
    /\ gross_approved_risk' =
           IF has_fill THEN gross_approved_risk + reserved_risk ELSE gross_approved_risk

\* _apply_budget_finalization
ApplyBudgetFinalization(i, has_fill) ==
    IF action[i] = "ENTRY"
    THEN /\ reserved_intent = i
         /\ reserved_risk = Risk[i]
         /\ has_fill => ValidateEntry(i, equity)
         /\ Charge(has_fill)
         /\ reserved_intent' = NoIntent
         /\ reserved_risk' = 0
    ELSE UNCHANGED budget

\* finalize_execution_authorized with a sweep that matches; a partial fill latches as well.
FinalizeExecution(i, has_fill, partial) ==
    /\ ClaimFence(i)
    /\ dispatched[i]
    /\ ~first_fill_consumed[i]
    /\ baseline = "CLEAN"
    /\ partial => has_fill
    /\ ApplyBudgetFinalization(i, has_fill)
    /\ execution_locked' = (execution_locked \/ partial)
    /\ first_fill_consumed' = [first_fill_consumed EXCEPT ![i] = has_fill]
    /\ state' = [state EXCEPT ![i] = "TERMINAL"]
    /\ UNCHANGED <<autonomous_enabled, equity, claim_generation, baseline, action, generation,
                   lease_expired, has_attempt, dispatched, authorized>>

\* finalize_execution_authorized with a sweep that does not match, or exposure that cannot
\* be derived from it.
FinalizeMismatch(i) ==
    /\ ClaimFence(i)
    /\ dispatched[i]
    /\ baseline = "CLEAN"
    /\ execution_locked' = TRUE
    /\ UNCHANGED <<autonomous_enabled, equity, claim_generation, baseline, budget, intentVars>>

-----------------------------------------------------------------------------

Next ==
    \/ \E observed \in EquityLevels : RegisterAccount(observed)
    \/ \E enabled \in BOOLEAN, actor \in Actors : SetAutonomousEnabled(enabled, actor)
    \/ CaptureBaseline
    \/ ObserveAccountAdjustment
    \/ \E i \in Intents, approved \in Actions : ApproveIntent(i, approved)
    \/ \E i \in Intents : AuthorizationExpires(i)
    \/ \E i \in Intents : LeaseExpires(i)
    \/ \E i \in Intents, actor \in Actors : ClaimIntent(i, actor)
    \/ \E i \in Intents : ReleaseUnsubmittedClaim(i)
    \/ ExpiredUnsubmittedClaims
    \/ RecoverEntryReservations
    \/ \E i \in Intents, observed \in EquityLevels, matches \in BOOLEAN :
           PrepareSubmit(i, observed, matches)
    \/ \E i \in Intents : AcquireSubmitDispatch(i)
    \/ \E i \in Intents, observed \in EquityLevels, matches \in BOOLEAN :
           PrepareReplaceOrCancel(i, observed, matches)
    \/ \E i \in Intents : LatchFromLookup(i)
    \/ \E i \in Intents, has_fill \in BOOLEAN, partial \in BOOLEAN :
           FinalizeExecution(i, has_fill, partial)
    \/ \E i \in Intents : FinalizeMismatch(i)

Spec == Init /\ [][Next]_vars

-----------------------------------------------------------------------------
(* Properties *)

\* No history of claims, releases, expiries, recoveries, equity changes and partial fills
\* takes the lifetime entry budget past its limits, counting the risk still reserved for
\* an order whose outcome is unknown (_reserve_entry, _apply_budget_finalization).
BudgetWithinLimits ==
    /\ entries_used + (IF reserved_intent = NoIntent THEN 0 ELSE 1) <= MaxLifetimeEntries
    /\ gross_approved_risk + reserved_risk <= MaxLifetimeRisk

\* The reservation belongs to the claimed entry, and a claimed entry always has it: so
\* ENTRY_RESERVATION_MISSING and ENTRY_RESERVATION_RISK_MISMATCH never stop finalization.
ReservationMatchesClaim ==
    /\ \A i \in Entries : state[i] = "CLAIMED" => reserved_intent = i
    /\ reserved_intent # NoIntent =>
           /\ reserved_intent \in Entries
           /\ state[reserved_intent] = "CLAIMED"
           /\ reserved_risk = Risk[reserved_intent]
    /\ reserved_intent = NoIntent => reserved_risk = 0

\* At most one intent of the account is claimed, it is the one the fence of the account
\* names, and so a service with an older claim is always refused (_verify_claim_fence).
OneFencedClaim ==
    \A i \in Intents : state[i] = "CLAIMED" =>
        /\ generation[i] = claim_generation
        /\ \A j \in Intents \ {i} : state[j] # "CLAIMED" /\ generation[j] # claim_generation

\* The budget is exactly what the recorded first fills of entries add up to: no entry is
\* charged twice and none escapes (first_fill_consumed, entries_used, gross_approved_risk).
BudgetIsSumOfFills ==
    LET filled == {i \in Entries : first_fill_consumed[i]}
    IN  /\ entries_used = Cardinality(filled)
        /\ gross_approved_risk = MapThenSumSet(LAMBDA i : Risk[i], filled)

\* A latched account admits no new claim, no first attempt and no first broker write, and
\* stays latched: only lookups, finalization and releases of what is under way remain.
LatchedAccountOnlyWindsDown ==
    [][execution_locked =>
         /\ execution_locked'
         /\ \A i \in Intents : /\ state'[i] = "CLAIMED" => state[i] = "CLAIMED"
                               /\ has_attempt'[i] => has_attempt[i]
                               /\ dispatched'[i] => dispatched[i]]_vars
=============================================================================
