---------------------------- MODULE TradingProofs ----------------------------
(***************************************************************************)
(* From a decision to the claim on the budget: the policy, the pipeline    *)
(* that asks it and the account's authority, for any set of intents, any   *)
(* risks, any limits, any market and any equity history.                   *)
(*                                                                         *)
(* BudgetWithinLimits is not inductive alone: recover_entry_reservations   *)
(* writes a reservation without looking at the limits, and stays inside    *)
(* them only because the reservation it writes is the one that is there.   *)
(* That is ReservationMatchesClaim, which in turn needs that no other      *)
(* intent is claimed, OneFencedClaim, which needs that no generation is    *)
(* ahead of the account's.  BudgetIsSumOfFills needs that a fill ends its  *)
(* intent, so that none is charged twice (FInv), and what a sum over a     *)
(* finite set is when one element is added.  The library's induction       *)
(* theorems take a predicate as a parameter; here the induction over       *)
(* subsets has the predicate as a set (SubsetInduction), and rests on the  *)
(* least element of a set of numbers.                                      *)
(*                                                                         *)
(* The pipeline implements DecisionLedger: PipelineInv says what a run     *)
(* that is under way has written, so that each of its steps is one of the  *)
(* ledger or changes none of its rows.                                     *)
(*                                                                         *)
(* The policy keeps no state.  What SelectVertical returns was a candidate *)
(* that passed every filter and every limit; the score of a review grows   *)
(* with each input that gets worse; a price that is rounded to a tick is   *)
(* never rounded past the loss that was authorized; a cluster is judged by *)
(* its strongest claim wherever it stands; and to select from a selection  *)
(* that left out only what is not wanted is to select from the whole.      *)
(***************************************************************************)
EXTENDS AccountAuthority, Opportunity, PolicyCases, FiniteSetTheorems, SequenceTheorems,
        WellFoundedInduction, TLAPS

\* No intent carries a claim generation the account has not reached.
GenerationsBounded == \A i \in Intents : generation[i] <= claim_generation

IInv == /\ TypeOK
        /\ GenerationsBounded
        /\ OneFencedClaim
        /\ ReservationMatchesClaim
        /\ BudgetWithinLimits

-----------------------------------------------------------------------------
(* Type correctness *)

\* The initial state has its types, and every step keeps them.
LEMMA InitTypeOK == Init => TypeOK
<1> SUFFICES ASSUME Init PROVE TypeOK
    OBVIOUS
<1> USE DEF Init, Baselines, IntentStates
<1>1. execution_locked \in BOOLEAN /\ autonomous_enabled \in BOOLEAN
    BY Zenon
<1>2. /\ claim_generation \in Nat
      /\ entries_used \in Nat
      /\ gross_approved_risk \in Nat
      /\ reserved_risk \in Nat
      /\ generation \in [Intents -> Nat]
    BY SMT
<1>3. /\ equity \in EquityLevels
      /\ baseline \in Baselines
      /\ reserved_intent \in Intents \cup {NoIntent}
      /\ state \in [Intents -> IntentStates]
      /\ action \in [Intents -> Actions \cup {"NONE"}]
    BY SMT
<1>4. /\ first_fill_consumed \in [Intents -> BOOLEAN]
      /\ lease_expired \in [Intents -> BOOLEAN]
      /\ has_attempt \in [Intents -> BOOLEAN]
      /\ dispatched \in [Intents -> BOOLEAN]
      /\ authorized \in [Intents -> BOOLEAN]
    BY Zenon
<1>5. QED
    BY <1>1, <1>2, <1>3, <1>4, Zenon DEF TypeOK

LEMMA NextTypeOK == TypeOK /\ [Next]_vars => TypeOK'
<1> SUFFICES ASSUME TypeOK, [Next]_vars PROVE TypeOK'
    OBVIOUS
<1> USE RiskAssumption DEF TypeOK, Baselines, IntentStates, account, budget, intentVars
<1>1. ASSUME NEW seen \in EquityLevels, RegisterAccount(seen) PROVE TypeOK'
    BY <1>1 DEF RegisterAccount
<1>2. ASSUME NEW enabled \in BOOLEAN, NEW actor \in Actors, SetAutonomousEnabled(enabled, actor)
      PROVE TypeOK'
    BY <1>2 DEF SetAutonomousEnabled
<1>3. CASE CaptureBaseline
    BY <1>3 DEF CaptureBaseline
<1>4. CASE ObserveAccountAdjustment
    BY <1>4 DEF ObserveAccountAdjustment
<1>5. ASSUME NEW i \in Intents, NEW approved \in Actions, ApproveIntent(i, approved) PROVE TypeOK'
    BY <1>5 DEF ApproveIntent
<1>6. ASSUME NEW i \in Intents, AuthorizationExpires(i) PROVE TypeOK'
    BY <1>6 DEF AuthorizationExpires
<1>7. ASSUME NEW i \in Intents, LeaseExpires(i) PROVE TypeOK'
    BY <1>7 DEF LeaseExpires
<1>8. ASSUME NEW i \in Intents, NEW actor \in Actors, ClaimIntent(i, actor) PROVE TypeOK'
    BY <1>8 DEF ClaimIntent, ReserveEntry
<1>9. ASSUME NEW i \in Intents, ReleaseUnsubmittedClaim(i) PROVE TypeOK'
    BY <1>9 DEF ReleaseUnsubmittedClaim, ReleaseReservation
<1>10. CASE ExpiredUnsubmittedClaims
    BY <1>10 DEF ExpiredUnsubmittedClaims, ReleaseReservation
<1>11. CASE RecoverEntryReservations
    BY <1>11 DEF RecoverEntryReservations, Entries
<1>12. ASSUME NEW i \in Intents, NEW seen \in EquityLevels, NEW matches \in BOOLEAN,
              PrepareSubmit(i, seen, matches)
       PROVE TypeOK'
    BY <1>12 DEF PrepareSubmit, ValidateEntry
<1>13. ASSUME NEW i \in Intents, AcquireSubmitDispatch(i) PROVE TypeOK'
    BY <1>13 DEF AcquireSubmitDispatch
<1>14. ASSUME NEW i \in Intents, NEW seen \in EquityLevels, NEW matches \in BOOLEAN,
              PrepareReplaceOrCancel(i, seen, matches)
       PROVE TypeOK'
    BY <1>14 DEF PrepareReplaceOrCancel
<1>15. ASSUME NEW i \in Intents, LatchFromLookup(i) PROVE TypeOK'
    BY <1>15 DEF LatchFromLookup
<1>16. ASSUME NEW i \in Intents, NEW has_fill \in BOOLEAN, NEW partial \in BOOLEAN,
              FinalizeExecution(i, has_fill, partial)
       PROVE TypeOK'
    BY <1>16 DEF FinalizeExecution, ApplyBudgetFinalization, Charge
<1>17. ASSUME NEW i \in Intents, FinalizeMismatch(i) PROVE TypeOK'
    BY <1>17 DEF FinalizeMismatch
<1>18. CASE UNCHANGED vars
    BY <1>18 DEF vars
<1>19. QED
    BY <1>1, <1>2, <1>3, <1>4, <1>5, <1>6, <1>7, <1>8, <1>9, <1>10, <1>11, <1>12, <1>13,
       <1>14, <1>15, <1>16, <1>17, <1>18 DEF Next

\* The rows of the account, its budget and its intents keep their types.
THEOREM TypeCorrect == Spec => []TypeOK
BY InitTypeOK, NextTypeOK, PTL DEF Spec

-----------------------------------------------------------------------------
(* The inductive invariant *)

\* The invariant holds at first, and every step keeps it.
LEMMA InitIInv == Init => IInv
<1> SUFFICES ASSUME Init PROVE IInv
    OBVIOUS
<1>1. TypeOK
    BY InitTypeOK
<1>2. GenerationsBounded
    BY DEF Init, GenerationsBounded
<1>3. OneFencedClaim
    BY DEF Init, OneFencedClaim
<1>4. ReservationMatchesClaim
    BY DEF Init, ReservationMatchesClaim, Entries
<1>5. BudgetWithinLimits
    BY LimitsAssumption DEF Init, BudgetWithinLimits
<1>6. QED
    BY <1>1, <1>2, <1>3, <1>4, <1>5 DEF IInv

\* The rows the invariant reads, apart from the states of the intents.
claimVars == <<claim_generation, generation, budget>>

\* A step that leaves those rows and the claimed intents alone keeps IInv.
LEMMA SameClaims ==
    ASSUME IInv, TypeOK', UNCHANGED claimVars,
           \A i \in Intents : state'[i] = "CLAIMED" <=> state[i] = "CLAIMED",
           \A i \in Intents : state[i] = "CLAIMED" => action'[i] = action[i]
    PROVE  IInv'
<1> USE DEF IInv, TypeOK, claimVars, budget
<1>1. GenerationsBounded'
    BY DEF GenerationsBounded
<1>2. OneFencedClaim'
    BY DEF OneFencedClaim
<1>3. ReservationMatchesClaim'
    BY DEF ReservationMatchesClaim, Entries
<1>4. BudgetWithinLimits'
    BY DEF BudgetWithinLimits
<1>5. QED
    BY <1>1, <1>2, <1>3, <1>4

\* A step that takes claimed intents to TERMINAL, charges the budget nothing and drops the
\* reservation exactly when its intent is among them keeps IInv.
LEMMA ReleasedClaims ==
    ASSUME IInv, TypeOK', NEW released \in SUBSET Intents,
           ReleaseReservation(released),
           \A i \in Intents : state'[i] = IF i \in released THEN "TERMINAL" ELSE state[i],
           UNCHANGED <<action, claim_generation, generation, entries_used, gross_approved_risk>>
    PROVE  IInv'
<1> USE IntentsAssumption DEF IInv, TypeOK
<1>1. GenerationsBounded'
    BY DEF GenerationsBounded
<1>2. OneFencedClaim'
    BY DEF OneFencedClaim
<1>3. CASE reserved_intent \in released
  <2>1. reserved_intent' = NoIntent /\ reserved_risk' = 0
      BY <1>3 DEF ReleaseReservation
  <2>2. \A i \in Entries : state'[i] # "CLAIMED"
      BY <1>3 DEF ReservationMatchesClaim, Entries
  <2>3. ReservationMatchesClaim'
      BY <2>1, <2>2 DEF ReservationMatchesClaim, Entries
  <2>4. BudgetWithinLimits'
      BY <2>1, LimitsAssumption DEF BudgetWithinLimits
  <2>5. QED
      BY <1>1, <1>2, <2>3, <2>4
<1>4. CASE reserved_intent \notin released
  <2>1. UNCHANGED <<reserved_intent, reserved_risk>>
      BY <1>4 DEF ReleaseReservation
  <2>2. ReservationMatchesClaim'
      BY <1>4, <2>1 DEF ReservationMatchesClaim, Entries
  <2>3. BudgetWithinLimits'
      BY <2>1 DEF BudgetWithinLimits
  <2>4. QED
      BY <1>1, <1>2, <2>2, <2>3
<1>5. QED
    BY <1>3, <1>4

\* claim_intent: the new claim is alone, ahead of every other generation, and inside the
\* limits that _reserve_entry checked.
LEMMA ClaimKeepsIInv ==
    ASSUME IInv, TypeOK', NEW i \in Intents, NEW actor \in Actors, ClaimIntent(i, actor)
    PROVE  IInv'
<1> USE IntentsAssumption DEF IInv, TypeOK, ClaimIntent
<1>1. \A j \in Intents : state[j] # "CLAIMED"
    BY DEF ActiveLease
<1>2. /\ claim_generation' = claim_generation + 1
      /\ \A j \in Intents : generation'[j] = IF j = i THEN claim_generation + 1 ELSE generation[j]
      /\ \A j \in Intents : state'[j] = IF j = i THEN "CLAIMED" ELSE state[j]
    OBVIOUS
<1>3. GenerationsBounded'
    BY <1>2 DEF GenerationsBounded
<1>4. OneFencedClaim'
    BY <1>1, <1>2 DEF OneFencedClaim, GenerationsBounded
<1>5. reserved_intent = NoIntent /\ reserved_risk = 0
    BY <1>1 DEF ReservationMatchesClaim, Entries
<1>6. CASE action[i] = "ENTRY"
  <2>1. reserved_intent' = i /\ reserved_risk' = Risk[i]
      BY <1>6 DEF ReserveEntry
  <2>2. ReservationMatchesClaim'
      BY <1>1, <1>2, <1>6, <2>1 DEF ReservationMatchesClaim, Entries
  <2>3. BudgetWithinLimits'
      BY <1>6, <2>1, RiskAssumption, LimitsAssumption
      DEF BudgetWithinLimits, ReserveEntry, ValidateEntry
  <2>4. QED
      BY <1>3, <1>4, <2>2, <2>3
<1>7. CASE action[i] # "ENTRY"
  <2>1. UNCHANGED <<reserved_intent, reserved_risk>>
      BY <1>7
  <2>2. ReservationMatchesClaim'
      BY <1>1, <1>2, <1>5, <1>7, <2>1 DEF ReservationMatchesClaim, Entries
  <2>3. BudgetWithinLimits'
      BY <2>1 DEF BudgetWithinLimits
  <2>4. QED
      BY <1>3, <1>4, <2>2, <2>3
<1>8. QED
    BY <1>6, <1>7

\* finalize_execution_authorized: an entry charges what it had reserved, so the sum of what
\* is charged and what is reserved never grows.
LEMMA FinalizeKeepsIInv ==
    ASSUME IInv, TypeOK', NEW i \in Intents, NEW has_fill \in BOOLEAN, NEW partial \in BOOLEAN,
           FinalizeExecution(i, has_fill, partial)
    PROVE  IInv'
<1> USE IntentsAssumption DEF IInv, TypeOK, FinalizeExecution
<1>1. /\ state[i] = "CLAIMED"
      /\ \A j \in Intents : state'[j] = IF j = i THEN "TERMINAL" ELSE state[j]
      /\ UNCHANGED <<claim_generation, generation>>
    BY DEF ClaimFence
<1>2. \A j \in Intents : state'[j] # "CLAIMED"
    BY <1>1 DEF OneFencedClaim
<1>3. GenerationsBounded'
    BY <1>1 DEF GenerationsBounded
<1>4. OneFencedClaim'
    BY <1>2 DEF OneFencedClaim
<1>5. CASE action[i] = "ENTRY"
  <2>1. reserved_intent' = NoIntent /\ reserved_risk' = 0
      BY <1>5 DEF ApplyBudgetFinalization
  <2>2. ReservationMatchesClaim'
      BY <1>2, <2>1 DEF ReservationMatchesClaim, Entries
  <2>3. /\ entries_used' \in {entries_used, entries_used + 1}
        /\ gross_approved_risk' \in {gross_approved_risk, gross_approved_risk + reserved_risk}
      BY <1>5 DEF ApplyBudgetFinalization, Charge
  <2>4. reserved_intent # NoIntent
      BY <1>5 DEF ApplyBudgetFinalization
  <2>5. BudgetWithinLimits'
      BY <2>1, <2>3, <2>4, LimitsAssumption DEF BudgetWithinLimits
  <2>6. QED
      BY <1>3, <1>4, <2>2, <2>5
<1>6. CASE action[i] # "ENTRY"
  <2>1. UNCHANGED budget
      BY <1>6 DEF ApplyBudgetFinalization
  <2>2. reserved_intent = NoIntent
      BY <1>1, <1>6 DEF ReservationMatchesClaim, OneFencedClaim, Entries
  <2>3. ReservationMatchesClaim'
      BY <1>2, <2>1, <2>2 DEF ReservationMatchesClaim, Entries, budget
  <2>4. BudgetWithinLimits'
      BY <2>1 DEF BudgetWithinLimits, budget
  <2>5. QED
      BY <1>3, <1>4, <2>3, <2>4
<1>7. QED
    BY <1>5, <1>6

LEMMA NextIInv == IInv /\ [Next]_vars => IInv'
<1> SUFFICES ASSUME IInv, [Next]_vars PROVE IInv'
    OBVIOUS
<1>0. TypeOK /\ TypeOK'
    BY NextTypeOK DEF IInv
<1> USE <1>0
<1>1. ASSUME NEW seen \in EquityLevels, RegisterAccount(seen) PROVE IInv'
    BY <1>1, SameClaims DEF RegisterAccount, claimVars, intentVars
<1>2. ASSUME NEW enabled \in BOOLEAN, NEW actor \in Actors, SetAutonomousEnabled(enabled, actor)
      PROVE IInv'
    BY <1>2, SameClaims DEF SetAutonomousEnabled, claimVars, intentVars
<1>3. CASE CaptureBaseline
    BY <1>3, SameClaims DEF CaptureBaseline, claimVars, intentVars
<1>4. CASE ObserveAccountAdjustment
    BY <1>4, SameClaims DEF ObserveAccountAdjustment, claimVars, intentVars
<1>5. ASSUME NEW i \in Intents, NEW approved \in Actions, ApproveIntent(i, approved) PROVE IInv'
  <2>1. \A j \in Intents : /\ state'[j] = "CLAIMED" <=> state[j] = "CLAIMED"
                           /\ state[j] = "CLAIMED" => action'[j] = action[j]
      BY <1>5 DEF ApproveIntent, TypeOK
  <2>2. QED
      BY <1>5, <2>1, SameClaims DEF ApproveIntent, claimVars, account
<1>6. ASSUME NEW i \in Intents, AuthorizationExpires(i) PROVE IInv'
    BY <1>6, SameClaims DEF AuthorizationExpires, claimVars, account
<1>7. ASSUME NEW i \in Intents, LeaseExpires(i) PROVE IInv'
    BY <1>7, SameClaims DEF LeaseExpires, claimVars, account
<1>8. ASSUME NEW i \in Intents, NEW actor \in Actors, ClaimIntent(i, actor) PROVE IInv'
    BY <1>8, ClaimKeepsIInv
<1>9. ASSUME NEW i \in Intents, ReleaseUnsubmittedClaim(i) PROVE IInv'
  <2>1. \A j \in Intents : state'[j] = IF j \in {i} THEN "TERMINAL" ELSE state[j]
      BY <1>9 DEF ReleaseUnsubmittedClaim, TypeOK
  <2>2. QED
      BY <1>9, <2>1, ReleasedClaims DEF ReleaseUnsubmittedClaim, account
<1>10. CASE ExpiredUnsubmittedClaims
  <2>1. \A j \in Intents : state'[j] = IF j \in ExpiredClaims THEN "TERMINAL" ELSE state[j]
      BY <1>10 DEF ExpiredUnsubmittedClaims
  <2>2. ExpiredClaims \in SUBSET Intents
      BY DEF ExpiredClaims
  <2>3. QED
      BY <1>10, <2>1, <2>2, ReleasedClaims DEF ExpiredUnsubmittedClaims, account
<1>11. CASE RecoverEntryReservations
    \* What it writes is what is there: the claimed entry already holds the reservation.
  <2>1. UNCHANGED <<reserved_intent, reserved_risk>>
      BY <1>11, IntentsAssumption DEF RecoverEntryReservations, IInv, ReservationMatchesClaim, Entries
  <2>2. QED
      BY <1>11, <2>1, SameClaims DEF RecoverEntryReservations, claimVars, account, budget, intentVars
<1>12. ASSUME NEW i \in Intents, NEW seen \in EquityLevels, NEW matches \in BOOLEAN,
              PrepareSubmit(i, seen, matches)
       PROVE IInv'
    BY <1>12, SameClaims DEF PrepareSubmit, claimVars
<1>13. ASSUME NEW i \in Intents, AcquireSubmitDispatch(i) PROVE IInv'
    BY <1>13, SameClaims DEF AcquireSubmitDispatch, claimVars, account
<1>14. ASSUME NEW i \in Intents, NEW seen \in EquityLevels, NEW matches \in BOOLEAN,
              PrepareReplaceOrCancel(i, seen, matches)
       PROVE IInv'
    BY <1>14, SameClaims DEF PrepareReplaceOrCancel, claimVars, intentVars
<1>15. ASSUME NEW i \in Intents, LatchFromLookup(i) PROVE IInv'
    BY <1>15, SameClaims DEF LatchFromLookup, claimVars, intentVars
<1>16. ASSUME NEW i \in Intents, NEW has_fill \in BOOLEAN, NEW partial \in BOOLEAN,
              FinalizeExecution(i, has_fill, partial)
       PROVE IInv'
    BY <1>16, FinalizeKeepsIInv
<1>17. ASSUME NEW i \in Intents, FinalizeMismatch(i) PROVE IInv'
    BY <1>17, SameClaims DEF FinalizeMismatch, claimVars, intentVars
<1>18. CASE UNCHANGED vars
    BY <1>18, SameClaims DEF vars, claimVars, account, intentVars
<1>19. QED
    BY <1>1, <1>2, <1>3, <1>4, <1>5, <1>6, <1>7, <1>8, <1>9, <1>10, <1>11, <1>12, <1>13,
       <1>14, <1>15, <1>16, <1>17, <1>18 DEF Next

LEMMA Inductive == Spec => []IInv
BY InitIInv, NextIInv, PTL DEF Spec

-----------------------------------------------------------------------------
(* The safety properties *)

\* For any number of intents and claims, at most one intent is claimed and the account's
\* fence names it: a service that holds an older claim is refused by _verify_claim_fence.
THEOREM ClaimsAreFenced == Spec => []OneFencedClaim
<1>1. IInv => OneFencedClaim
    BY DEF IInv
<1>2. QED
    BY <1>1, Inductive, PTL

\* The reservation of the entry budget and the claimed entry never come apart, whatever the
\* order of claims, releases, expiries, recoveries and finalizations.
THEOREM ReservationsMatch == Spec => []ReservationMatchesClaim
<1>1. IInv => ReservationMatchesClaim
    BY DEF IInv
<1>2. QED
    BY <1>1, Inductive, PTL

\* The lifetime entry budget, reserved risk included, stays inside its limits for any
\* limits, risks and equity history (_reserve_entry, _apply_budget_finalization).
THEOREM BudgetHolds == Spec => []BudgetWithinLimits
<1>1. IInv => BudgetWithinLimits
    BY DEF IInv
<1>2. QED
    BY <1>1, Inductive, PTL

\* A step of a latched account keeps the latch and starts nothing.
WindsDown ==
    execution_locked =>
        /\ execution_locked'
        /\ \A i \in Intents : /\ state'[i] = "CLAIMED" => state[i] = "CLAIMED"
                              /\ has_attempt'[i] => has_attempt[i]
                              /\ dispatched'[i] => dispatched[i]

\* Every step of a latched account winds down.
LEMMA NextWindsDown == TypeOK /\ [Next]_vars => WindsDown
<1> SUFFICES ASSUME TypeOK, [Next]_vars, execution_locked PROVE WindsDown
    BY DEF WindsDown
<1> USE DEF TypeOK, WindsDown, account, budget, intentVars
<1>1. ASSUME NEW seen \in EquityLevels, RegisterAccount(seen) PROVE WindsDown
    BY <1>1 DEF RegisterAccount
<1>2. ASSUME NEW enabled \in BOOLEAN, NEW actor \in Actors, SetAutonomousEnabled(enabled, actor)
      PROVE WindsDown
    BY <1>2 DEF SetAutonomousEnabled
<1>3. CASE CaptureBaseline \/ ObserveAccountAdjustment
    BY <1>3 DEF CaptureBaseline, ObserveAccountAdjustment
<1>4. ASSUME NEW i \in Intents, NEW approved \in Actions, ApproveIntent(i, approved) PROVE WindsDown
    BY <1>4 DEF ApproveIntent
<1>5. ASSUME NEW i \in Intents, AuthorizationExpires(i) \/ LeaseExpires(i) PROVE WindsDown
    BY <1>5 DEF AuthorizationExpires, LeaseExpires
<1>6. ASSUME NEW i \in Intents, NEW actor \in Actors, ClaimIntent(i, actor) PROVE FALSE
    BY <1>6 DEF ClaimIntent
<1>7. ASSUME NEW i \in Intents, ReleaseUnsubmittedClaim(i) PROVE WindsDown
    BY <1>7 DEF ReleaseUnsubmittedClaim
<1>8. CASE ExpiredUnsubmittedClaims
    BY <1>8 DEF ExpiredUnsubmittedClaims
<1>9. CASE RecoverEntryReservations
    BY <1>9 DEF RecoverEntryReservations
<1>10. ASSUME NEW i \in Intents, NEW seen \in EquityLevels, NEW matches \in BOOLEAN,
              PrepareSubmit(i, seen, matches) \/ PrepareReplaceOrCancel(i, seen, matches)
       PROVE FALSE
    BY <1>10 DEF PrepareSubmit, PrepareReplaceOrCancel, MayPrepare
<1>11. ASSUME NEW i \in Intents, AcquireSubmitDispatch(i) PROVE FALSE
    BY <1>11 DEF AcquireSubmitDispatch
<1>12. ASSUME NEW i \in Intents, LatchFromLookup(i) \/ FinalizeMismatch(i) PROVE WindsDown
    BY <1>12 DEF LatchFromLookup, FinalizeMismatch
<1>13. ASSUME NEW i \in Intents, NEW has_fill \in BOOLEAN, NEW partial \in BOOLEAN,
              FinalizeExecution(i, has_fill, partial)
       PROVE WindsDown
    BY <1>13 DEF FinalizeExecution
<1>14. CASE UNCHANGED vars
    BY <1>14 DEF vars
<1>15. QED
    BY <1>1, <1>2, <1>3, <1>4, <1>5, <1>6, <1>7, <1>8, <1>9, <1>10, <1>11, <1>12, <1>13, <1>14
    DEF Next

\* Once an anomaly has latched the account, no step of any length of run lets a new claim,
\* a first attempt or a first broker write through (account.execution_locked).
THEOREM LatchHolds == Spec => LatchedAccountOnlyWindsDown
<1>1. TypeOK /\ [Next]_vars => [WindsDown]_vars
    BY NextWindsDown
<1>2. QED
    BY <1>1, TypeCorrect, PTL DEF Spec, LatchedAccountOnlyWindsDown, WindsDown

-----------------------------------------------------------------------------
(* Sums over finite sets. The library's induction theorems quantify over an *)
(* operator; what is used here is that every set of numbers has a least     *)
(* one, so that a property is given as the set of what has it.              *)

\* Every set of numbers that is not empty has a least one.
LEMMA LeastNumber ==
    ASSUME NEW T \in SUBSET Nat, T # {}
    PROVE  \E n \in T : \A m \in T : n <= m
<1>1. PICK n \in T : \A m \in T : <<m, n>> \notin OpToRel(<, Nat)
    BY NatLessThanWellFounded, WFMin
<1>2. ASSUME NEW m \in T PROVE n <= m
  <2>1. m \in Nat /\ n \in Nat
    OBVIOUS
  <2>2. <<m, n>> \in Nat \X Nat /\ <<m, n>>[1] = m /\ <<m, n>>[2] = n
    BY <2>1
  <2>3. ~(m < n)
    BY <1>1, <2>2 DEF OpToRel
  <2> QED
    BY <2>1, <2>3
<1> QED
    BY <1>2

Pick(s) == CHOOSE x \in s : TRUE

\* g adds up the weights of the subsets of S, an element at a time.
Adds(g, w, S) ==
    g = [s \in SUBSET S |-> IF s = {} THEN 0 ELSE w[Pick(s)] + g[s \ {Pick(s)}]]

\* Induction over the subsets of a finite set: a property given as a set of subsets.
LEMMA SubsetInduction ==
    ASSUME NEW S, IsFiniteSet(S), NEW Good,
           \A s \in SUBSET S : (\A t \in SUBSET s : t # s => t \in Good) => s \in Good
    PROVE  \A s \in SUBSET S : s \in Good
<1> SUFFICES ASSUME NEW s0 \in SUBSET S, s0 \notin Good PROVE FALSE
    OBVIOUS
<1> DEFINE T == {n \in Nat : \E s \in SUBSET S : s \notin Good /\ Cardinality(s) = n}
<1>1. \A s \in SUBSET S : IsFiniteSet(s) /\ Cardinality(s) \in Nat
    BY FS_Subset, FS_CardinalityType
<1>2. T # {}
    BY <1>1
<1>3. PICK n \in T : \A m \in T : n <= m
    BY <1>2, LeastNumber
<1>4. PICK s \in SUBSET S : s \notin Good /\ Cardinality(s) = n
    BY <1>3
<1>5. ASSUME NEW t \in SUBSET s, t # s PROVE t \in Good
  <2>1. Cardinality(t) < Cardinality(s)
    <3>1. IsFiniteSet(s) /\ Cardinality(s) \in Nat /\ Cardinality(t) \in Nat
      BY <1>1, <1>4
    <3>2. Cardinality(t) <= Cardinality(s) /\ (Cardinality(s) = Cardinality(t) => s = t)
      BY <3>1, FS_Subset
    <3> QED
      BY <1>5, <3>1, <3>2
  <2>2. t \in SUBSET S /\ Cardinality(t) \in Nat
    BY <1>1
  <2> QED
    BY <1>3, <1>4, <2>1, <2>2
<1> QED
    BY <1>4, <1>5

\* Such a function exists for every finite set.
LEMMA AddsExists ==
    ASSUME NEW S, IsFiniteSet(S), NEW w
    PROVE  \E g : Adds(g, w, S)
<1> DEFINE D(n) == {s \in SUBSET S : Cardinality(s) < n}
           Step(g, s) == IF s = {} THEN 0 ELSE w[Pick(s)] + g[s \ {Pick(s)}]
           OK(n) == \E g : g = [s \in D(n) |-> Step(g, s)]
           Bad == {n \in Nat : ~OK(n)}
<1>1. \A s \in SUBSET S : IsFiniteSet(s) /\ Cardinality(s) \in Nat /\ Cardinality(s) <= Cardinality(S)
    BY FS_Subset, FS_CardinalityType
<1>2. \A s \in SUBSET S : s # {} => /\ Pick(s) \in s /\ s \ {Pick(s)} \in SUBSET S
                                   /\ Cardinality(s \ {Pick(s)}) = Cardinality(s) - 1
    BY <1>1, FS_RemoveElement DEF Pick
<1>3. \A n \in Nat : OK(n)
  <2> SUFFICES ASSUME Bad # {} PROVE FALSE
    OBVIOUS
  <2>1. PICK n \in Bad : \A m \in Bad : n <= m
    <3> Bad \in SUBSET Nat
      OBVIOUS
    <3> HIDE DEF Bad
    <3> QED
      BY LeastNumber
  <2>2. CASE n = 0
    <3>1. D(n) = {}
      BY <1>1, <2>2
    <3>2. [s \in {} |-> 0] = [s \in D(n) |-> Step([t \in {} |-> 0], s)]
      BY <3>1
    <3> QED
      BY <3>2
  <2>3. CASE n # 0
    <3>1. n - 1 \in Nat /\ n - 1 \notin Bad
      <4>1. n \in Nat
        OBVIOUS
      <4> HIDE DEF Bad
      <4> QED
        BY <2>1, <2>3, <4>1
    <3>2. PICK g : g = [s \in D(n - 1) |-> Step(g, s)]
      BY <3>1
    <3> DEFINE h == [s \in D(n) |-> Step(g, s)]
    <3>3. ASSUME NEW s \in D(n) PROVE h[s] = Step(h, s)
      <4>1. h[s] = Step(g, s)
        OBVIOUS
      <4>2. CASE s = {}
        BY <4>1, <4>2
      <4>3. CASE s # {}
        <5> DEFINE t == s \ {Pick(s)}
        <5>1. t \in D(n - 1) /\ t \in D(n)
          BY <1>1, <1>2, <3>1, <4>3
        <5>2. g[t] = Step(g, t) /\ h[t] = Step(g, t)
          <6> HIDE DEF D, Step, t
          <6> QED
            BY <3>2, <5>1
        <5> QED
          BY <4>1, <4>3, <5>2
      <4> QED
        BY <4>2, <4>3
    <3>4. h = [s \in D(n) |-> Step(h, s)]
      <4> HIDE DEF Step, D
      <4>1. h = [s \in D(n) |-> h[s]]
        OBVIOUS
      <4> HIDE DEF h
      <4> QED
        BY <3>3, <4>1
    <3>5. OK(n)
      <4> HIDE DEF h, Step, D
      <4> QED
        BY <3>4
    <3> QED
      BY <3>5
  <2> QED
    BY <2>2, <2>3
<1>4. Cardinality(S) + 1 \in Nat /\ D(Cardinality(S) + 1) = SUBSET S
    BY <1>1
<1>5. PICK g : g = [s \in D(Cardinality(S) + 1) |-> Step(g, s)]
    BY <1>3, <1>4
<1>6. g = [s \in SUBSET S |-> Step(g, s)]
    <2> HIDE DEF D, Step
    <2> QED
      BY <1>4, <1>5
<1> QED
    BY <1>6 DEF Adds

\* It may take any element first.
LEMMA AnyElementFirst ==
    ASSUME NEW S, IsFiniteSet(S), NEW w, \A x \in S : w[x] \in Int, NEW g, Adds(g, w, S)
    PROVE  /\ g[{}] = 0
           /\ \A s \in SUBSET S : g[s] \in Int /\ \A x \in s : g[s] = w[x] + g[s \ {x}]
<1>1. \A s \in SUBSET S : g[s] = IF s = {} THEN 0 ELSE w[Pick(s)] + g[s \ {Pick(s)}]
    BY DEF Adds
<1>2. g[{}] = 0
    BY <1>1
<1>3. \A s \in SUBSET S : s # {} => Pick(s) \in s
    BY DEF Pick
<1> DEFINE Good == {s \in SUBSET S : g[s] \in Int /\ \A x \in s : g[s] = w[x] + g[s \ {x}]}
<1>4. ASSUME NEW s \in SUBSET S, \A t \in SUBSET s : t # s => t \in Good
      PROVE  s \in Good
  <2>1. CASE s = {}
    BY <1>2, <2>1
  <2>2. CASE s # {}
    <3> DEFINE y == Pick(s)
    <3>1. y \in s /\ w[y] \in Int /\ g[s] = w[y] + g[s \ {y}]
      BY <1>1, <1>3, <2>2
    <3> HIDE DEF y
    <3>2. \A x \in s : s \ {x} \in Good /\ g[s \ {x}] \in Int /\ w[x] \in Int
      BY <1>4
    <3>3. ASSUME NEW x \in s, x # y PROVE g[s] = w[x] + g[s \ {x}]
      <4>1. g[s \ {y}] = w[x] + g[(s \ {y}) \ {x}]
        BY <3>1, <3>2, <3>3
      <4>2. g[s \ {x}] = w[y] + g[(s \ {x}) \ {y}]
        BY <3>1, <3>2, <3>3
      <4>3. (s \ {x}) \ {y} = (s \ {y}) \ {x}
        OBVIOUS
      <4>4. (s \ {x}) \ {y} \in SUBSET s /\ (s \ {x}) \ {y} # s
        BY <3>1
      <4>5. g[(s \ {x}) \ {y}] \in Int
        BY <1>4, <4>4
      <4> DEFINE c == g[(s \ {x}) \ {y}]
      <4>6. g[s] = w[y] + (w[x] + c) /\ g[s \ {x}] = w[y] + c
        BY <3>1, <4>1, <4>2, <4>3
      <4>7. w[x] \in Int /\ w[y] \in Int /\ c \in Int
        BY <3>1, <3>2, <4>5
      <4> HIDE DEF c
      <4> QED
        BY <4>6, <4>7
    <3>4. g[s] \in Int
      <4>1. g[s \ {y}] \in Int
        BY <3>1, <3>2
      <4> QED
        BY <3>1, <4>1
    <3> QED
      BY <3>1, <3>3, <3>4
  <2> QED
    BY <2>1, <2>2
<1>5. \A s \in SUBSET S : s \in Good
  <2> HIDE DEF Good
  <2> QED
    BY <1>4, SubsetInduction
<1> QED
    BY <1>2, <1>5

\* Two such functions agree where both are defined.
LEMMA AddsAgree ==
    ASSUME NEW S, NEW R, IsFiniteSet(S), S \subseteq R, NEW w, NEW g, NEW h, Adds(g, w, R), Adds(h, w, S)
    PROVE  \A s \in SUBSET S : g[s] = h[s]
<1> DEFINE Good == {s \in SUBSET S : g[s] = h[s]}
<1>1. ASSUME NEW s \in SUBSET S, \A t \in SUBSET s : t # s => t \in Good
      PROVE  s \in Good
  <2>1. /\ g[s] = IF s = {} THEN 0 ELSE w[Pick(s)] + g[s \ {Pick(s)}]
        /\ h[s] = IF s = {} THEN 0 ELSE w[Pick(s)] + h[s \ {Pick(s)}]
    BY DEF Adds
  <2>2. s # {} => Pick(s) \in s
    BY DEF Pick
  <2>3. s # {} => s \ {Pick(s)} \in Good
    BY <1>1, <2>2
  <2> QED
    BY <2>1, <2>3
<1>2. \A s \in SUBSET S : s \in Good
  <2> HIDE DEF Good
  <2> QED
    BY <1>1, SubsetInduction
<1> QED
    BY <1>2

-----------------------------------------------------------------------------
(* The budget is the sum of the fills *)

\* The risks of a set of intents, and what one more intent adds to them (MapThenSumSet).
RiskOf(S) == MapThenSumSet(LAMBDA i : Risk[i], S)

\* The risk of a set of fills is a sum over the set,
LEMMA RiskIsAdded ==
    ASSUME NEW S, IsFiniteSet(S)
    PROVE  \E g : Adds(g, Risk, S) /\ RiskOf(S) = g[S]
<1> DEFINE g == CHOOSE g : Adds(g, Risk, S)
<1>1. Adds(g, Risk, S)
    BY AddsExists
<1>2. RiskOf(S) = g[S]
    BY DEF RiskOf, MapThenSumSet, MapThenFoldSet, Adds, Pick
<1> HIDE DEF g
<1> QED
    BY <1>1, <1>2

\* one more fill adds its risk,
LEMMA RiskAdds ==
    ASSUME NEW S \in SUBSET Intents, IsFiniteSet(S), NEW i \in Intents \ S
    PROVE  /\ RiskOf(S) \in Int
           /\ RiskOf(S \cup {i}) = RiskOf(S) + Risk[i]
<1> DEFINE R == S \cup {i}
<1>1. IsFiniteSet(R)
    BY FS_AddElement
<1>2. PICK g : Adds(g, Risk, S) /\ RiskOf(S) = g[S]
    BY RiskIsAdded
<1>3. PICK h : Adds(h, Risk, R) /\ RiskOf(R) = h[R]
    BY <1>1, RiskIsAdded
<1>4. (\A x \in R : Risk[x] \in Int) /\ Risk[i] \in Int
    BY RiskAssumption
<1>5. g[S] \in Int
    BY <1>2, <1>4, AnyElementFirst
<1>6. h[R] = Risk[i] + h[R \ {i}]
  <2>1. \A s \in SUBSET R : h[s] \in Int /\ \A x \in s : h[s] = Risk[x] + h[s \ {x}]
    <3> HIDE DEF R
    <3> QED
      BY <1>1, <1>3, <1>4, AnyElementFirst
  <2> QED
    BY <2>1
<1>7. R \ {i} = S /\ h[S] = g[S]
    BY <1>1, <1>2, <1>3, AddsAgree
<1> HIDE DEF R
<1>8. RiskOf(R) = RiskOf(S) + Risk[i] /\ RiskOf(S) \in Int
  <2>1. RiskOf(R) = Risk[i] + RiskOf(S)
    BY <1>2, <1>3, <1>6, <1>7
  <2>2. RiskOf(S) \in Int
    BY <1>2, <1>5
  <2> QED
    BY <1>4, <2>1, <2>2
<1> QED
    BY <1>8 DEF R

\* and no fill is no risk.
LEMMA RiskOfNothing == RiskOf({}) = 0
<1>1. IsFiniteSet({})
    BY FS_EmptySet
<1>2. PICK g : Adds(g, Risk, {}) /\ RiskOf({}) = g[{}]
    BY <1>1, RiskIsAdded
<1> QED
    BY <1>2 DEF Adds

Filled == {i \in Entries : first_fill_consumed[i]}

\* An intent with a fill is over, so that no entry is charged twice; and there are finitely
\* many, so that they can be counted.
FillsAreOver ==
    /\ IsFiniteSet(Filled)
    /\ \A i \in Intents : first_fill_consumed[i] => state[i] = "TERMINAL"

FInv == FillsAreOver /\ BudgetIsSumOfFills

\* Nothing is filled at first; a fill ends its intent.
LEMMA InitFInv == Init => FInv
<1> SUFFICES ASSUME Init PROVE FInv
    OBVIOUS
<1>1. Filled = {}
    BY DEF Filled, Entries, Init
<1>2. FillsAreOver
    BY <1>1, FS_EmptySet DEF FillsAreOver, Init
<1>3. entries_used = Cardinality(Filled) /\ gross_approved_risk = RiskOf(Filled)
    BY <1>1, FS_EmptySet, RiskOfNothing DEF Init
<1> QED
    BY <1>2, <1>3 DEF FInv, BudgetIsSumOfFills, RiskOf, Filled, MapThenSumSet, MapThenFoldSet

\* A step that charges nothing and leaves the entries with a fill as they are.
LEMMA SameFills ==
    ASSUME FInv, UNCHANGED <<entries_used, gross_approved_risk>>, Filled' = Filled,
           \A i \in Intents : first_fill_consumed'[i] => state'[i] = "TERMINAL"
    PROVE  FInv'
<1>1. FillsAreOver'
    BY DEF FInv, FillsAreOver
<1>2. (entries_used = Cardinality(Filled) /\ gross_approved_risk = RiskOf(Filled))'
  <2>1. entries_used = Cardinality(Filled) /\ gross_approved_risk = RiskOf(Filled)
    BY DEF FInv, BudgetIsSumOfFills, Filled, RiskOf, MapThenSumSet, MapThenFoldSet
  <2> QED
    BY <2>1
<1>3. BudgetIsSumOfFills'
    BY <1>2 DEF BudgetIsSumOfFills, Filled, RiskOf, MapThenSumSet, MapThenFoldSet
<1> QED
    BY <1>1, <1>3 DEF FInv

\* finalize_execution: a fill of an entry joins those that were charged, and it had none.
LEMMA FinalizeKeepsFInv ==
    ASSUME TypeOK, FInv, NEW i \in Intents, NEW has_fill \in BOOLEAN, NEW partial \in BOOLEAN,
           FinalizeExecution(i, has_fill, partial)
    PROVE  FInv'
<1>1. /\ state[i] = "CLAIMED" /\ ~first_fill_consumed[i]
      /\ first_fill_consumed' = [first_fill_consumed EXCEPT ![i] = has_fill]
      /\ state' = [state EXCEPT ![i] = "TERMINAL"]
      /\ action' = action /\ Entries' = Entries
    BY DEF FinalizeExecution, ClaimFence, Entries
<1>2. \A j \in Intents : first_fill_consumed'[j] => state'[j] = "TERMINAL"
    BY <1>1 DEF TypeOK, FInv, FillsAreOver
<1>3. CASE action[i] = "ENTRY" /\ has_fill
  <2>1. Filled' = Filled \cup {i} /\ i \in Intents \ Filled /\ Filled \in SUBSET Intents
    BY <1>1, <1>3 DEF Filled, Entries, TypeOK
  <2>2. IsFiniteSet(Filled) /\ entries_used = Cardinality(Filled) /\ gross_approved_risk = RiskOf(Filled)
    BY DEF FInv, FillsAreOver, BudgetIsSumOfFills, Filled, RiskOf, MapThenSumSet, MapThenFoldSet
  <2>3. /\ entries_used' = entries_used + 1
        /\ gross_approved_risk' = gross_approved_risk + Risk[i]
    BY <1>3 DEF FinalizeExecution, ApplyBudgetFinalization, Charge
  <2>4. IsFiniteSet(Filled') /\ entries_used' = Cardinality(Filled')
    BY <2>1, <2>2, <2>3, FS_AddElement
  <2>5. gross_approved_risk' = RiskOf(Filled')
    BY <2>1, <2>2, <2>3, RiskAdds
  <2>6. BudgetIsSumOfFills'
    BY <2>4, <2>5 DEF BudgetIsSumOfFills, Filled, RiskOf, MapThenSumSet, MapThenFoldSet
  <2>7. FillsAreOver'
    BY <1>2, <2>4 DEF FillsAreOver
  <2> QED
    BY <2>6, <2>7 DEF FInv
<1>4. CASE action[i] # "ENTRY" \/ ~has_fill
  <2>1. UNCHANGED <<entries_used, gross_approved_risk>>
    BY <1>4 DEF FinalizeExecution, ApplyBudgetFinalization, Charge, budget
  <2>2. Filled' = Filled
    BY <1>1, <1>4 DEF Filled, Entries, TypeOK
  <2> QED
    BY <1>2, <2>1, <2>2, SameFills
<1> QED
    BY <1>3, <1>4

LEMMA NextFInv == TypeOK /\ FInv /\ [Next]_vars => FInv'
<1> SUFFICES ASSUME TypeOK, FInv, [Next]_vars PROVE FInv'
    OBVIOUS
<1>1. ASSUME UNCHANGED <<entries_used, gross_approved_risk, action, first_fill_consumed>>,
             \A i \in Intents : state[i] = "TERMINAL" => state'[i] = "TERMINAL"
      PROVE  FInv'
  <2>1. Filled' = Filled
    BY <1>1 DEF Filled, Entries
  <2>2. \A i \in Intents : first_fill_consumed'[i] => state'[i] = "TERMINAL"
    BY <1>1 DEF FInv, FillsAreOver
  <2> QED
    BY <1>1, <2>1, <2>2, SameFills
<1>2. ASSUME NEW i \in Intents, NEW approved \in Actions, ApproveIntent(i, approved) PROVE FInv'
  <2>1. /\ UNCHANGED <<entries_used, gross_approved_risk, first_fill_consumed>>
        /\ state[i] = "ABSENT" /\ state' = [state EXCEPT ![i] = "APPROVED"]
        /\ action' = [action EXCEPT ![i] = approved]
    BY <1>2 DEF ApproveIntent, budget
  <2>2. ~first_fill_consumed[i]
    BY <2>1 DEF FInv, FillsAreOver
  <2>3. Filled' = Filled
    BY <2>1, <2>2 DEF Filled, Entries, TypeOK
  <2>4. \A j \in Intents : first_fill_consumed'[j] => state'[j] = "TERMINAL"
    BY <2>1, <2>2 DEF FInv, FillsAreOver, TypeOK
  <2> QED
    BY <2>1, <2>3, <2>4, SameFills
<1>3. ASSUME NEW i \in Intents, NEW has_fill \in BOOLEAN, NEW partial \in BOOLEAN,
             FinalizeExecution(i, has_fill, partial)
      PROVE  FInv'
    BY <1>3, FinalizeKeepsFInv
<1>4. ASSUME NEW i \in Intents, NEW actor \in Actors, ClaimIntent(i, actor) PROVE FInv'
    BY <1>1, <1>4 DEF ClaimIntent, TypeOK
<1>5. ASSUME NEW i \in Intents, ReleaseUnsubmittedClaim(i) PROVE FInv'
    BY <1>1, <1>5 DEF ReleaseUnsubmittedClaim, TypeOK
<1>6. CASE ExpiredUnsubmittedClaims
    BY <1>1, <1>6 DEF ExpiredUnsubmittedClaims, TypeOK
<1>7. CASE RecoverEntryReservations
    BY <1>1, <1>7 DEF RecoverEntryReservations, intentVars
<1>8. CASE CaptureBaseline \/ ObserveAccountAdjustment \/ UNCHANGED vars
    BY <1>1, <1>8 DEF CaptureBaseline, ObserveAccountAdjustment, budget, intentVars, vars
<1>9. ASSUME NEW seen \in EquityLevels, RegisterAccount(seen) PROVE FInv'
    BY <1>1, <1>9 DEF RegisterAccount, budget, intentVars
<1>10. ASSUME NEW enabled \in BOOLEAN, NEW actor \in Actors, SetAutonomousEnabled(enabled, actor)
       PROVE  FInv'
    BY <1>1, <1>10 DEF SetAutonomousEnabled, budget, intentVars
<1>11. ASSUME NEW i \in Intents,
              \/ AuthorizationExpires(i) \/ LeaseExpires(i) \/ AcquireSubmitDispatch(i)
              \/ LatchFromLookup(i) \/ FinalizeMismatch(i)
       PROVE  FInv'
    BY <1>1, <1>11 DEF AuthorizationExpires, LeaseExpires, AcquireSubmitDispatch, LatchFromLookup,
                       FinalizeMismatch, budget, intentVars
<1>12. ASSUME NEW i \in Intents, NEW seen \in EquityLevels, NEW matches \in BOOLEAN,
              PrepareSubmit(i, seen, matches) \/ PrepareReplaceOrCancel(i, seen, matches)
       PROVE  FInv'
    BY <1>1, <1>12 DEF PrepareSubmit, PrepareReplaceOrCancel, budget, intentVars
<1> QED
    BY <1>2, <1>3, <1>4, <1>5, <1>6, <1>7, <1>8, <1>9, <1>10, <1>11, <1>12 DEF Next

\* The budget is what the first fills add up to, for any number of entries and any risks
\* (_apply_budget_finalization).
THEOREM BudgetIsTheFills == Spec => []BudgetIsSumOfFills
<1>1. FInv => BudgetIsSumOfFills
    BY DEF FInv
<1> QED
    BY <1>1, InitFInv, NextFInv, TypeCorrect, PTL DEF Spec

-----------------------------------------------------------------------------
(* The opportunity pipeline keeps the ledger                               *)

PlanRows == {PlanRow(spec, boundary, frozen) :
                spec \in PlanSpecs, boundary \in Boundaries, frozen \in {0} \cup Boundaries}

\* A run knows its plan once it has loaded it, and has observed it once it has decided.
PlanStages == {"SNAPSHOT", "CATALYST", "HISTORY", "PRIOR", "DECISION"}
DecidedStages == {"THESIS", "PROPOSAL", "RECORD"}
DecidedFields == {"stage", "trusted", "plan", "approved", "thesis", "loss"}

\* What the local state of a run owes the rows. That the observation of its plan is its own,
\* from the moment it is stored until the decision is recorded, is what a crash, an
\* overlapping run or a newer version could break.
RunOK(x) ==
    /\ x.stage \in {"IDLE", "PLAN", "FAILED"} \cup PlanStages \cup DecidedStages
    /\ x.stage # "IDLE" => x.trusted \in 1 .. clock
    /\ x.stage \in PlanStages \cup DecidedStages => x.plan \in DOMAIN plans
    /\ x.stage \in DecidedStages => DOMAIN x = DecidedFields /\ observed[x.plan] = x.trusted

\* Every policy decision is of the boundary its plan was frozen for.
DecisionsOK ==
    \A d \in decisions : d.kind = "POLICY" =>
        d.plan \in DOMAIN plans /\ d.boundary = plans[d.plan].boundary

IntentsOK ==
    /\ intents \in Seq(Range(intents))
    /\ \A i \in DOMAIN intents : DOMAIN intents[i] = {"boundary", "loss", "state", "filled"}

PipelineInv ==
    /\ clock \in 0 .. MaxClock
    /\ plans \in Seq(PlanRows) /\ Len(plans) <= MaxPlans
    /\ observed \in [1 .. MaxPlans -> 0 .. MaxClock]
    /\ DOMAIN run = Runs /\ \A r \in Runs : RunOK(run[r])
    /\ DecisionsOK
    /\ IntentsOK

\* The rows the ledger is about.
LedgerRows == <<observed, decisions, intents>>

\* A sequence is one over its own elements.
LEMMA OwnElements ==
    ASSUME NEW S, NEW s \in Seq(S)
    PROVE  s \in Seq(Range(s))
<1>1. Len(s) \in Nat /\ DOMAIN s = 1 .. Len(s) /\ s = [i \in 1 .. Len(s) |-> s[i]]
    OBVIOUS
<1>2. \A i \in 1 .. Len(s) : s[i] \in Range(s)
    BY <1>1 DEF Range
<1> QED
    BY <1>1, <1>2

\* A step that leaves the rows alone is a stutter of the ledger.
LEMMA SameRowsSameLedger ==
    ASSUME UNCHANGED LedgerRows
    PROVE  UNCHANGED Ledger!ledgerVars
<1>1. observed' = observed /\ decisions' = decisions /\ intents' = intents
    BY DEF LedgerRows
<1> QED
    BY <1>1 DEF Ledger!ledgerVars, PolicyDecisionsAt, DecisionsAt

\* A step that moves one run and writes none of the rows.
LEMMA OneRunMoves ==
    ASSUME PipelineInv, NEW r \in Runs, NEW x, RunOK(x), run' = [run EXCEPT ![r] = x],
           UNCHANGED <<clock, plans, LedgerRows>>
    PROVE  PipelineInv' /\ UNCHANGED Ledger!ledgerVars
<1>1. UNCHANGED <<clock, plans, observed, decisions, intents>>
    BY DEF LedgerRows
<1>2. \A s \in Runs : RunOK(run'[s])
    BY DEF PipelineInv
<1>3. \A s \in Runs : RunOK(run[s])'
    BY <1>1, <1>2 DEF RunOK
<1> QED
    BY <1>1, <1>3, SameRowsSameLedger DEF PipelineInv, DecisionsOK, IntentsOK

\* The empty pipeline is an empty ledger.
LEMMA InitPipeline ==
    ASSUME PipelineInit
    PROVE  PipelineInv /\ Ledger!LedgerInit
<1>1. PipelineInv
  <2>1. \A r \in Runs : RunOK(run[r])
      BY DEF PipelineInit, Idle, RunOK, PlanStages, DecidedStages
  <2> QED
      BY <2>1, OpportunityAssumption
      DEF PipelineInit, PipelineInv, DecisionsOK, IntentsOK, Unobserved, Range
<1>2. Ledger!LedgerInit
    BY DEF PipelineInit, Ledger!LedgerInit, PolicyDecisionsAt, DecisionsAt
<1> QED
    BY <1>1, <1>2

\* The stages between loading a plan and deciding on it: nothing is stored.
LEMMA ReadingStages ==
    ASSUME PipelineInv, NEW r \in Runs,
           \/ LoadPlan(r) \/ (\E e \in LiveEvidence : Collect(r, e)) \/ ProduceCatalyst(r)
           \/ LoadHistory(r) \/ LoadPrior(r)
    PROVE  PipelineInv' /\ UNCHANGED Ledger!ledgerVars
<1>1. RunOK(run[r]) /\ clock \in Int /\ Len(plans) \in Nat /\ DOMAIN plans = 1 .. Len(plans)
    BY OpportunityAssumption DEF PipelineInv
<1>2. UNCHANGED <<clock, plans, LedgerRows>>
    BY DEF LoadPlan, Collect, ProduceCatalyst, LoadHistory, LoadPrior, LedgerRows
<1>3. RunOK(Failed(r))  \/ run[r].stage = "IDLE"
    BY <1>1 DEF RunOK, Failed, PlanStages, DecidedStages
<1>4. ASSUME LoadPlan(r)
      PROVE  \E x : run' = [run EXCEPT ![r] = x] /\ RunOK(x)
  <2> DEFINE next == [stage |-> "SNAPSHOT", trusted |-> run[r].trusted, plan |-> Len(plans)]
             ok == PlanLoads(Len(plans), run[r].trusted) /\ BaselineLoads(Len(plans))
                      /\ PreProviderAuthority(Len(plans), run[r].trusted)
  <2>1. run[r].stage = "PLAN" /\ run' = [run EXCEPT ![r] = IF ok THEN next ELSE Failed(r)]
      BY <1>4 DEF LoadPlan, Proceed, At
  <2>2. ok => RunOK(next)
      BY <1>1, <2>1 DEF RunOK, PlanStages, DecidedStages, PlanLoads
  <2> QED
      BY <1>3, <2>1, <2>2
<1>5. ASSUME run[r].stage \in PlanStages, NEW ok, NEW next,
             run' = [run EXCEPT ![r] = IF ok THEN next ELSE Failed(r)],
             next.stage \in PlanStages, next.trusted = run[r].trusted, next.plan = run[r].plan
      PROVE  \E x : run' = [run EXCEPT ![r] = x] /\ RunOK(x)
  <2>1. RunOK(next)
      BY <1>1, <1>5 DEF RunOK, PlanStages, DecidedStages
  <2> QED
      BY <1>3, <1>5, <2>1 DEF PlanStages
<1>6. ASSUME NEW e \in LiveEvidence, Collect(r, e)
      PROVE  \E x : run' = [run EXCEPT ![r] = x] /\ RunOK(x)
    BY <1>5, <1>6 DEF Collect, Proceed, At, PlanStages
<1>7. ASSUME ProduceCatalyst(r)
      PROVE  \E x : run' = [run EXCEPT ![r] = x] /\ RunOK(x)
    BY <1>5, <1>7 DEF ProduceCatalyst, Proceed, At, PlanStages
<1>8. ASSUME LoadHistory(r)
      PROVE  \E x : run' = [run EXCEPT ![r] = x] /\ RunOK(x)
    BY <1>5, <1>8 DEF LoadHistory, Proceed, At, PlanStages
<1>9. ASSUME LoadPrior(r)
      PROVE  \E x : run' = [run EXCEPT ![r] = x] /\ RunOK(x)
    BY <1>5, <1>9 DEF LoadPrior, Proceed, At, PlanStages
<1> QED
    BY <1>2, <1>4, <1>6, <1>7, <1>8, <1>9, OneRunMoves

\* The stages after the decision, failures, crashes and the start of a run.
LEMMA LaterStages ==
    ASSUME PipelineInv, NEW r \in Runs, PersistThesis(r) \/ Propose(r) \/ Break(r) \/ Crash(r)
    PROVE  PipelineInv' /\ UNCHANGED Ledger!ledgerVars
<1>1. RunOK(run[r])
    BY DEF PipelineInv
<1>2. UNCHANGED <<clock, plans, LedgerRows>>
    BY DEF PersistThesis, Propose, Break, Crash, LedgerRows
<1>3. run[r].stage # "IDLE" => RunOK(Failed(r))
    BY <1>1 DEF RunOK, Failed, PlanStages, DecidedStages
<1>4. RunOK(Idle)
    BY DEF RunOK, Idle, PlanStages, DecidedStages
<1>5. ASSUME NEW stage \in DecidedStages, run[r].stage \in DecidedStages
      PROVE  RunOK([run[r] EXCEPT !.stage = stage])
    BY <1>1, <1>5 DEF RunOK, DecidedStages, DecidedFields, PlanStages
<1>6. ASSUME PersistThesis(r) \/ Propose(r)
      PROVE  \E x : run' = [run EXCEPT ![r] = x] /\ RunOK(x)
    BY <1>3, <1>5, <1>6 DEF PersistThesis, Propose, Proceed, At, DecidedStages
<1>7. ASSUME Break(r) \/ Crash(r)
      PROVE  \E x : run' = [run EXCEPT ![r] = x] /\ RunOK(x)
    BY <1>3, <1>4, <1>7 DEF Break, Crash
<1> QED
    BY <1>2, <1>6, <1>7, OneRunMoves

\* A run that starts, and one that freezes its snapshot, decides nothing.
LEMMA StartAndFreeze ==
    ASSUME PipelineInv,
           \/ \E r \in Runs : StartRun(r)
           \/ \E p \in PlanSpecs, b \in Boundaries, f \in {0} \cup Boundaries : FreezePlan(p, b, f)
           \/ \E v \in 1 .. MaxPlans : SealBaseline(v)
    PROVE  PipelineInv' /\ UNCHANGED Ledger!ledgerVars
<1>0. clock \in Int /\ clock \in 0 .. MaxClock /\ MaxClock \in Int
    BY OpportunityAssumption DEF PipelineInv
<1>1. ASSUME NEW r \in Runs, StartRun(r)
      PROVE  PipelineInv' /\ UNCHANGED Ledger!ledgerVars
  <2>1. UNCHANGED <<plans, observed, decisions, intents>> /\ clock' = clock + 1 /\ clock < MaxClock
      BY <1>1 DEF StartRun
  <2>2. \A s \in Runs : RunOK(run[s])'
    <3>1. ASSUME NEW s \in Runs, s # r PROVE RunOK(run[s])'
      <4>1. RunOK(run[s]) /\ run'[s] = run[s]
          BY <1>1, <3>1 DEF PipelineInv, StartRun
      <4> QED
          BY <1>0, <2>1, <4>1 DEF RunOK
    <3>2. RunOK(run[r])'
      <4>1. run'[r] = [stage |-> "PLAN", trusted |-> clock + 1]
          BY <1>1 DEF PipelineInv, StartRun
      <4> QED
          BY <1>0, <2>1, <4>1 DEF RunOK, PlanStages, DecidedStages
    <3> QED
        BY <3>1, <3>2
  <2>3. DOMAIN run' = Runs /\ clock' \in 0 .. MaxClock
      BY <1>0, <1>1, <2>1 DEF PipelineInv, StartRun
  <2> QED
      BY <2>1, <2>2, <2>3, SameRowsSameLedger DEF PipelineInv, DecisionsOK, IntentsOK, LedgerRows
<1>2. ASSUME NEW p \in PlanSpecs, NEW b \in Boundaries, NEW f \in {0} \cup Boundaries, FreezePlan(p, b, f)
      PROVE  PipelineInv' /\ UNCHANGED Ledger!ledgerVars
  <2> DEFINE row == PlanRow(p, b, f)
  <2>1. UNCHANGED <<clock, observed, decisions, intents, run>> /\ plans' = Append(plans, row)
        /\ Len(plans) < MaxPlans
      BY <1>2 DEF FreezePlan
  <2>2. plans \in Seq(PlanRows) /\ row \in PlanRows /\ Len(plans) \in Nat /\ MaxPlans \in Nat
      BY OpportunityAssumption DEF PipelineInv, PlanRows
  <2>3. /\ plans' \in Seq(PlanRows) /\ Len(plans') <= MaxPlans
        /\ \A v \in DOMAIN plans : v \in DOMAIN plans' /\ plans'[v] = plans[v]
      BY <2>1, <2>2
  <2>4. \A s \in Runs : RunOK(run[s])'
      BY <2>1, <2>3 DEF RunOK, PipelineInv
  <2>5. DecisionsOK'
      BY <2>1, <2>3 DEF DecisionsOK, PipelineInv
  <2> QED
      BY <2>1, <2>3, <2>4, <2>5, SameRowsSameLedger DEF PipelineInv, IntentsOK, LedgerRows
<1>3. ASSUME NEW v \in 1 .. MaxPlans, SealBaseline(v)
      PROVE  PipelineInv' /\ UNCHANGED Ledger!ledgerVars
  <2>1. UNCHANGED <<clock, plans, observed, decisions, intents, run>>
      BY <1>3 DEF SealBaseline
  <2> QED
      BY <2>1, SameRowsSameLedger DEF PipelineInv, RunOK, DecisionsOK, IntentsOK, LedgerRows
<1> QED
    BY <1>1, <1>2, <1>3

\* A decision stores the first observation of its plan, or finds its own: a step of the
\* ledger's Observe or none.
LEMMA DecideObserves ==
    ASSUME PipelineInv, NEW r \in Runs, Decide(r)
    PROVE  PipelineInv' /\ (Ledger!LedgerNext \/ UNCHANGED Ledger!ledgerVars)
<1> DEFINE v == run[r].plan
           at == run[r].trusted
           ok == /\ InputAssembles(r) /\ ObservationChronology(v, at) /\ ObservationAccepted(v, at)
           approved == Verdict(r) = "ENTRY_APPROVED"
           next == [stage |-> IF approved THEN "THESIS" ELSE "RECORD", trusted |-> at, plan |-> v,
                    approved |-> approved,
                    thesis |-> approved /\ ThesisBuilds(Plan(r).spec, run[r].market.chain,
                                              CandidateOf(r), Plan(r).boundary, at),
                    loss |-> IF approved THEN LossOf(CandidateOf(r)) ELSE 0]
<1>1. /\ run[r].stage = "DECISION" /\ RunOK(run[r])
      /\ UNCHANGED <<clock, plans, decisions, intents>>
      /\ observed' = (IF ok THEN [observed EXCEPT ![v] = at] ELSE observed)
      /\ run' = [run EXCEPT ![r] = IF ok THEN next ELSE Failed(r)]
    BY DEF Decide, PipelineInv, At, Proceed
<1>2. clock \in 0 .. MaxClock /\ MaxClock \in Int /\ clock \in Int /\ MaxPlans \in Nat
    BY OpportunityAssumption DEF PipelineInv
<1>3. v \in DOMAIN plans /\ at \in 1 .. clock /\ v \in 1 .. MaxPlans /\ at \in 1 .. MaxClock
  <2>1. v \in DOMAIN plans /\ at \in 1 .. clock
      BY <1>1 DEF RunOK, PlanStages
  <2>2. Len(plans) \in Nat /\ DOMAIN plans = 1 .. Len(plans) /\ Len(plans) <= MaxPlans
      BY DEF PipelineInv
  <2> QED
      BY <1>2, <2>1, <2>2
<1>4. CASE ~ok
  <2>1. run' = [run EXCEPT ![r] = Failed(r)] /\ observed' = observed
      BY <1>1, <1>4
  <2>2. RunOK(Failed(r))
      BY <1>3, <1>1 DEF RunOK, Failed, PlanStages, DecidedStages
  <2> QED
      BY <1>1, <2>1, <2>2, OneRunMoves DEF LedgerRows
<1>5. CASE ok
  <2>1. /\ run' = [run EXCEPT ![r] = next] /\ observed' = [observed EXCEPT ![v] = at]
        /\ observed[v] \in {Unobserved, at}
      BY <1>1, <1>5 DEF ObservationAccepted
  <2>2. observed' \in [1 .. MaxPlans -> 0 .. MaxClock] /\ observed'[v] = at
      BY <1>3, <2>1, <1>2 DEF PipelineInv
  <2>3. \A w \in DOMAIN plans : observed[w] # Unobserved => observed'[w] = observed[w]
      BY <2>1, <1>3 DEF PipelineInv
  <2>4. \A s \in Runs : RunOK(run[s])'
    <3>1. ASSUME NEW s \in Runs, s # r PROVE RunOK(run[s])'
      <4>1. RunOK(run[s]) /\ run'[s] = run[s]
          BY <2>1, <3>1 DEF PipelineInv
      <4>2. run[s].stage \in DecidedStages => observed[run[s].plan] # Unobserved
          BY <1>2, <4>1 DEF RunOK, Unobserved, DecidedStages
      <4> QED
          BY <1>1, <2>3, <4>1, <4>2 DEF RunOK
    <3>2. RunOK(run[r])'
      <4>1. run'[r] = next
          BY <2>1 DEF PipelineInv
      <4>2. next.stage \in {"THESIS", "RECORD"} /\ next.trusted = at /\ next.plan = v
            /\ DOMAIN next = DecidedFields
          BY DEF DecidedFields
      <4> HIDE DEF next
      <4> QED
          BY <1>1, <1>3, <2>2, <4>1, <4>2 DEF RunOK, DecidedStages, PlanStages
    <3> QED
        BY <3>1, <3>2
  <2>5. PipelineInv'
      BY <1>1, <2>1, <2>2, <2>4 DEF PipelineInv, DecisionsOK, IntentsOK
  <2>6. CASE observed[v] = at
    <3>1. observed' = observed
        BY <2>1, <2>6 DEF PipelineInv
    <3> QED
        BY <1>1, <2>5, <3>1, SameRowsSameLedger DEF LedgerRows
  <2>7. CASE observed[v] = Unobserved
    <3>1. Ledger!Observe(v, at)
      <4>1. UNCHANGED <<decisions, intents>>
          BY <1>1
      <4> QED
          BY <2>1, <2>7, <4>1 DEF Ledger!Observe, PolicyDecisionsAt, DecisionsAt
    <3> QED
        BY <1>3, <2>5, <3>1 DEF Ledger!LedgerNext
  <2> QED
      BY <2>1, <2>6, <2>7
<1> QED
    BY <1>4, <1>5

\* A recorded decision is the ledger's: its boundary was free, and its plan, which no other
\* boundary can have decided, still holds the observation of this run.
LEMMA RecordDecides ==
    ASSUME PipelineInv, NEW r \in Runs, NEW autonomy \in BOOLEAN, RecordDecision(r, autonomy)
    PROVE  PipelineInv' /\ (Ledger!LedgerNext \/ UNCHANGED Ledger!ledgerVars)
<1> DEFINE v == run[r].plan
           b == plans[v].boundary
           decision == [kind |-> "POLICY", boundary |-> b, plan |-> v, evidence |-> run[r].trusted,
                        created |-> clock]
           row == [boundary |-> b, loss |-> run[r].loss, state |-> "APPROVED", filled |-> FALSE]
           enters == run[r].approved /\ autonomy
           free == BoundaryFree(b) /\ (enters => NoActiveEntry)
           decidedNow == [c \in Boundaries |-> {<<d.plan, d.evidence>> : d \in PolicyDecisionsAt(c)}]
<1>1. /\ run[r].stage = "RECORD" /\ RunOK(run[r])
      /\ UNCHANGED <<clock, plans, observed>>
      /\ run' = [run EXCEPT ![r] = Idle]
      /\ free => /\ decisions' = decisions \cup {decision}
                 /\ intents' = IF enters THEN Append(intents, row) ELSE intents
      /\ ~free => UNCHANGED <<decisions, intents>>
    BY DEF RecordDecision, PipelineInv, At, Plan
<1>2. RunOK(Idle)
    BY DEF RunOK, Idle, PlanStages, DecidedStages
<1>3. CASE ~free
    BY <1>1, <1>2, <1>3, OneRunMoves DEF LedgerRows
<1>4. CASE free
  <2>1. /\ v \in DOMAIN plans /\ v \in 1 .. MaxPlans /\ b \in Boundaries
        /\ observed[v] = run[r].trusted /\ observed[v] # Unobserved
    <3>1. v \in DOMAIN plans /\ observed[v] = run[r].trusted /\ run[r].trusted \in 1 .. clock
        BY <1>1 DEF RunOK, DecidedStages
    <3>2. Len(plans) \in Nat /\ DOMAIN plans = 1 .. Len(plans) /\ Len(plans) <= MaxPlans
          /\ plans[v] \in PlanRows
        BY <3>1 DEF PipelineInv
    <3>3. b \in Boundaries
      <4>1. PICK spec \in PlanSpecs, c \in Boundaries, frozen \in {0} \cup Boundaries :
                plans[v] = PlanRow(spec, c, frozen)
          BY <3>2 DEF PlanRows
      <4> QED
          BY <4>1 DEF PlanRow
    <3>4. clock \in Int /\ MaxPlans \in Nat
        BY OpportunityAssumption DEF PipelineInv
    <3> QED
        BY <3>1, <3>2, <3>3, <3>4 DEF Unobserved
  <2>2. /\ intents' \in Seq(Range(intents'))
        /\ \A i \in DOMAIN intents' : DOMAIN intents'[i] = {"boundary", "loss", "state", "filled"}
        /\ {intents'[i].boundary : i \in DOMAIN intents'} \in
              {{intents[i].boundary : i \in DOMAIN intents},
               {intents[i].boundary : i \in DOMAIN intents} \cup {b}}
    <3>1. CASE ~enters
      <4>1. intents' = intents
          BY <1>1, <1>4, <3>1
      <4> QED
          BY <4>1 DEF PipelineInv, IntentsOK
    <3>2. CASE enters
      <4>1. intents' = Append(intents, row)
          BY <1>1, <1>4, <3>2
      <4>2. intents \in Seq(Range(intents))
          BY DEF PipelineInv, IntentsOK
      <4>3. intents \in Seq(Range(intents) \cup {row})
          BY <4>2
      <4>4. /\ intents' \in Seq(Range(intents) \cup {row})
            /\ DOMAIN intents' = DOMAIN intents \cup {Len(intents) + 1}
            /\ \A i \in DOMAIN intents : intents'[i] = intents[i]
            /\ intents'[Len(intents) + 1] = row
          BY <4>1, <4>2, <4>3
      <4>5. intents' \in Seq(Range(intents'))
          BY <4>4, OwnElements
      <4> HIDE DEF row
      <4>6. row.boundary = b /\ DOMAIN row = {"boundary", "loss", "state", "filled"}
          BY DEF row
      <4>7. {intents'[i].boundary : i \in DOMAIN intents'}
                = {intents[i].boundary : i \in DOMAIN intents} \cup {b}
          BY <4>4, <4>6
      <4> QED
          BY <4>4, <4>5, <4>6, <4>7 DEF PipelineInv, IntentsOK
    <3> QED
        BY <3>1, <3>2
  <2>3. decisions' = decisions \cup {decision}
      BY <1>1, <1>4
  <2>4. DecisionsOK'
    <3>1. decision.plan = v /\ decision.boundary = plans'[v].boundary
        BY <1>1
    <3> QED
        BY <1>1, <2>1, <2>3, <3>1 DEF DecisionsOK, PipelineInv
  <2>5. PipelineInv'
    <3>1. \A s \in Runs : RunOK(run[s])'
      <4>1. \A s \in Runs : RunOK(run'[s])
          BY <1>1, <1>2 DEF PipelineInv
      <4> QED
          BY <1>1, <4>1 DEF RunOK
    <3> QED
        BY <1>1, <2>2, <2>4, <3>1 DEF PipelineInv, IntentsOK
  <2>6. ASSUME NEW boundary \in Boundaries, NEW plan \in 1 .. MaxPlans, boundary = b, plan = v
        PROVE  Ledger!Decide(boundary, plan)
    <3>1. decidedNow[b] = {}
        BY <1>4, <2>1 DEF BoundaryFree
    <3>2. ASSUME NEW c \in Boundaries, NEW x \in decidedNow[c] PROVE x[1] # v
      <4>1. PICK d \in PolicyDecisionsAt(c) : x = <<d.plan, d.evidence>>
          BY <3>2
      <4>2. d \in decisions /\ d.kind = "POLICY" /\ d.boundary = c
          BY <4>1 DEF PolicyDecisionsAt, DecisionsAt
      <4>3. d.boundary = plans[d.plan].boundary
          BY <4>2 DEF PipelineInv, DecisionsOK
      <4>4. d.plan = v => d \in PolicyDecisionsAt(b)
          BY <4>1, <4>2, <4>3
      <4> QED
          BY <1>4, <4>1, <4>4 DEF BoundaryFree
    <3>3. decidedNow' = [decidedNow EXCEPT ![b] = {<<v, observed[v]>>}]
      <4>1. ASSUME NEW c \in Boundaries
            PROVE  PolicyDecisionsAt(c)' = PolicyDecisionsAt(c) \cup (IF c = b THEN {decision} ELSE {})
          BY <2>3 DEF PolicyDecisionsAt, DecisionsAt
      <4>2. <<decision.plan, decision.evidence>> = <<v, observed[v]>>
          BY <2>1
      <4> HIDE DEF decision
      <4>3. ASSUME NEW c \in Boundaries
            PROVE  decidedNow'[c] = IF c = b THEN {<<v, observed[v]>>} ELSE decidedNow[c]
          BY <1>4, <4>1, <4>2 DEF BoundaryFree
      <4> QED
          BY <4>3
    <3> HIDE DEF decidedNow
    <3>4. UNCHANGED observed
        BY <1>1
    <3> QED
        BY <2>1, <2>2, <2>6, <3>1, <3>2, <3>3, <3>4 DEF Ledger!Decide, decidedNow
  <2>7. \E c \in Boundaries, p \in 1 .. MaxPlans : Ledger!Decide(c, p)
      BY <2>1, <2>6
  <2> QED
      BY <2>5, <2>7 DEF Ledger!LedgerNext
<1> QED
    BY <1>3, <1>4

\* An audit is no policy decision, and the execution of an entry leaves its boundary alone.
LEMMA OtherSteps ==
    ASSUME PipelineInv,
           \/ \E r \in Runs : RecordAudit(r)
           \/ \E i \in DOMAIN intents : ClaimApproved(i) \/ ExpireIntent(i) \/ FinishIntent(i) \/ FillIntent(i)
    PROVE  PipelineInv' /\ UNCHANGED Ledger!ledgerVars
<1>1. ASSUME NEW r \in Runs, RecordAudit(r)
      PROVE  PipelineInv' /\ UNCHANGED Ledger!ledgerVars
  <2> DEFINE audit == [kind |-> "AUDIT", boundary |-> run[r].trusted, plan |-> 0,
                       evidence |-> run[r].trusted, created |-> clock]
  <2>1. /\ UNCHANGED <<clock, plans, observed, intents>>
        /\ decisions' = decisions \cup {audit} /\ run' = [run EXCEPT ![r] = Idle]
      BY <1>1 DEF RecordAudit
  <2>2. \A s \in Runs : RunOK(run'[s])
      BY <2>1 DEF PipelineInv, RunOK, Idle, PlanStages, DecidedStages
  <2>3. \A s \in Runs : RunOK(run[s])'
      BY <2>1, <2>2 DEF RunOK
  <2>4. audit.kind # "POLICY"
      OBVIOUS
  <2> HIDE DEF audit
  <2>5. DecisionsOK'
      BY <2>1, <2>4 DEF DecisionsOK, PipelineInv
  <2>6. \A b \in Boundaries : PolicyDecisionsAt(b)' = PolicyDecisionsAt(b)
      BY <2>1, <2>4 DEF PolicyDecisionsAt, DecisionsAt
  <2>7. UNCHANGED Ledger!ledgerVars
      BY <2>1, <2>6 DEF Ledger!ledgerVars
  <2> QED
      BY <2>1, <2>3, <2>5, <2>7 DEF PipelineInv, IntentsOK
<1>2. ASSUME NEW i \in DOMAIN intents, NEW field \in {"state", "filled"}, NEW value,
             intents' = [intents EXCEPT ![i] = [intents[i] EXCEPT ![field] = value]],
             UNCHANGED <<clock, plans, observed, decisions, run>>
      PROVE  PipelineInv' /\ UNCHANGED Ledger!ledgerVars
  <2> DEFINE row == [intents[i] EXCEPT ![field] = value]
  <2>1. intents \in Seq(Range(intents)) /\ DOMAIN intents[i] = {"boundary", "loss", "state", "filled"}
      BY DEF PipelineInv, IntentsOK
  <2>2. row.boundary = intents[i].boundary /\ DOMAIN row = DOMAIN intents[i]
      BY <2>1
  <2> HIDE DEF row
  <2>3. intents' \in Seq(Range(intents) \cup {row})
    <3>1. intents \in Seq(Range(intents) \cup {row}) /\ intents' = [intents EXCEPT ![i] = row]
        BY <1>2, <2>1 DEF row
    <3> QED
        BY <3>1
  <2>4. intents' \in Seq(Range(intents'))
      BY <2>3, OwnElements
  <2>5. /\ DOMAIN intents' = DOMAIN intents
        /\ \A j \in DOMAIN intents : /\ intents'[j].boundary = intents[j].boundary
                                     /\ DOMAIN intents'[j] = DOMAIN intents[j]
      BY <1>2, <2>2 DEF row
  <2>6. IntentsOK'
      BY <2>4, <2>5 DEF IntentsOK, PipelineInv
  <2>7. UNCHANGED Ledger!ledgerVars
      BY <1>2, <2>5 DEF Ledger!ledgerVars, PolicyDecisionsAt, DecisionsAt
  <2> QED
      BY <1>2, <2>6, <2>7 DEF PipelineInv, RunOK, DecisionsOK
<1>3. ASSUME NEW i \in DOMAIN intents, ClaimApproved(i) \/ ExpireIntent(i) \/ FinishIntent(i) \/ FillIntent(i)
      PROVE  PipelineInv' /\ UNCHANGED Ledger!ledgerVars
  <2>1. CASE ClaimApproved(i)
      BY <2>1, <1>2 DEF ClaimApproved, MoveIntent
  <2>2. CASE ExpireIntent(i)
      BY <2>2, <1>2 DEF ExpireIntent, MoveIntent
  <2>3. CASE FinishIntent(i)
      BY <2>3, <1>2 DEF FinishIntent, MoveIntent
  <2>4. CASE FillIntent(i)
      BY <2>4, <1>2 DEF FillIntent
  <2> QED
      BY <1>3, <2>1, <2>2, <2>3, <2>4
<1> QED
    BY <1>1, <1>3

\* Every step of the pipeline keeps its invariant and is a step of the ledger or none.
LEMMA StepPipeline ==
    ASSUME PipelineInv, [PipelineNext]_pipelineVars
    PROVE  PipelineInv' /\ [Ledger!LedgerNext]_Ledger!ledgerVars
<1>1. CASE UNCHANGED pipelineVars
  <2>1. UNCHANGED <<clock, plans, observed, decisions, intents, run>>
      BY <1>1 DEF pipelineVars
  <2> QED
      BY <2>1, SameRowsSameLedger DEF PipelineInv, RunOK, DecisionsOK, IntentsOK, LedgerRows
<1>2. CASE PipelineNext
  <2>1. CASE \/ \E r \in Runs : StartRun(r)
             \/ \E p \in PlanSpecs, b \in Boundaries, f \in {0} \cup Boundaries : FreezePlan(p, b, f)
             \/ \E v \in 1 .. MaxPlans : SealBaseline(v)
      BY <2>1, StartAndFreeze
  <2>2. ASSUME NEW r \in Runs,
               \/ LoadPlan(r) \/ (\E e \in LiveEvidence : Collect(r, e)) \/ ProduceCatalyst(r)
               \/ LoadHistory(r) \/ LoadPrior(r)
        PROVE  PipelineInv' /\ [Ledger!LedgerNext]_Ledger!ledgerVars
      BY <2>2, ReadingStages
  <2>3. ASSUME NEW r \in Runs, Decide(r)
        PROVE  PipelineInv' /\ [Ledger!LedgerNext]_Ledger!ledgerVars
      BY <2>3, DecideObserves
  <2>4. ASSUME NEW r \in Runs, PersistThesis(r) \/ Propose(r) \/ Break(r) \/ Crash(r)
        PROVE  PipelineInv' /\ [Ledger!LedgerNext]_Ledger!ledgerVars
      BY <2>4, LaterStages
  <2>5. ASSUME NEW r \in Runs, NEW autonomy \in BOOLEAN, RecordDecision(r, autonomy)
        PROVE  PipelineInv' /\ [Ledger!LedgerNext]_Ledger!ledgerVars
      BY <2>5, RecordDecides
  <2>6. CASE \/ \E r \in Runs : RecordAudit(r)
             \/ \E i \in DOMAIN intents : ClaimApproved(i) \/ ExpireIntent(i) \/ FinishIntent(i) \/ FillIntent(i)
      BY <2>6, OtherSteps
  <2> QED
      BY <1>2, <2>1, <2>2, <2>3, <2>4, <2>5, <2>6 DEF PipelineNext
<1> QED
    BY <1>1, <1>2

\* What the rows and the runs of the pipeline owe each other: a run between storing its
\* observation and recording its decision is the one its plan was observed by.
THEOREM PipelineInvariant == PipelineSpec => []PipelineInv
<1>1. PipelineInit => PipelineInv
    BY InitPipeline
<1>2. PipelineInv /\ [PipelineNext]_pipelineVars => PipelineInv'
    BY StepPipeline
<1> QED
    BY <1>1, <1>2, PTL DEF PipelineSpec

\* The pipeline implements the ledger, for any number of runs, plans and boundaries and
\* whatever the providers answer: each step of acquire() and of record_decision is one step
\* of the ledger or none.
THEOREM PipelineKeepsLedger == PipelineSpec => KeepsLedger
<1>1. PipelineInit => Ledger!LedgerInit
    BY InitPipeline
<1>2. PipelineInv /\ [PipelineNext]_pipelineVars => [Ledger!LedgerNext]_Ledger!ledgerVars
    BY StepPipeline
<1> QED
    BY <1>1, <1>2, PipelineInvariant, PTL DEF PipelineSpec, KeepsLedger, Ledger!LedgerSpec

-----------------------------------------------------------------------------
(* Policy *)

\* The smaller of two numbers.
LEMMA MinOfTwo ==
    ASSUME NEW a \in Int, NEW b \in Int
    PROVE  /\ Min({a, b}) \in {a, b} /\ Min({a, b}) <= a /\ Min({a, b}) <= b
           /\ Max({a, b}) \in {a, b} /\ Max({a, b}) >= a /\ Max({a, b}) >= b
<1>1. \E x \in {a, b} : \A y \in {a, b} : x <= y
    OBVIOUS
<1>2. \E x \in {a, b} : \A y \in {a, b} : x >= y
    OBVIOUS
<1> QED
    BY <1>1, <1>2 DEF Min, Max

\* The greater of a number and another.
LEMMA MaxWith ==
    ASSUME NEW t \in Int
    PROVE  /\ Max({0, t}) \in {0, t} /\ Max({0, t}) >= 0 /\ Max({0, t}) >= t
           /\ Max({1, t}) \in {1, t} /\ Max({1, t}) >= 1
<1>1. \E x \in {0, t} : \A y \in {0, t} : x >= y
    OBVIOUS
<1>2. \E x \in {1, t} : \A y \in {1, t} : x >= y
    OBVIOUS
<1>3. Max({0, t}) \in {0, t} /\ \A y \in {0, t} : Max({0, t}) >= y
    BY <1>1 DEF Max
<1>4. Max({1, t}) \in {1, t} /\ \A y \in {1, t} : Max({1, t}) >= y
    BY <1>2 DEF Max
<1> QED
    BY <1>3, <1>4

\* The smallest of four numbers.
LEMMA MinOfFour ==
    ASSUME NEW a \in Int, NEW b \in Int, NEW c \in Int, NEW d \in Int
    PROVE  /\ Min({a, b, c, d}) \in {a, b, c, d}
           /\ Min({a, b, c, d}) <= a /\ Min({a, b, c, d}) <= b
           /\ Min({a, b, c, d}) <= c /\ Min({a, b, c, d}) <= d
<1>1. \E x \in {a, b, c, d} : \A y \in {a, b, c, d} : x <= y
    OBVIOUS
<1> QED
    BY <1>1 DEF Min

\* The quotient is the largest number whose product stays below.
LEMMA Quotient ==
    ASSUME NEW a \in Int, NEW m \in Nat \ {0}, NEW q \in Int
    PROVE  /\ a \div m \in Int
           /\ q <= a \div m <=> q * m <= a
<1>1. a \div m \in Int /\ a % m \in 0 .. m - 1 /\ a = m * (a \div m) + (a % m)
    OBVIOUS
<1> DEFINE d == a \div m
<1>2. ASSUME q <= d PROVE q * m <= d * m
    BY <1>1, <1>2
<1>3. ASSUME d + 1 <= q PROVE (d + 1) * m <= q * m
    BY <1>1, <1>3
<1>4. (d + 1) * m = m * d + m /\ d * m = m * d /\ q * m \in Int /\ m * d \in Int
    BY <1>1
<1> QED
  <2>1. d \in Int /\ a % m \in 0 .. m - 1 /\ a = m * d + (a % m)
    BY <1>1
  <2> HIDE DEF d
  <2>2. a % m \in Int /\ 0 <= a % m /\ a % m < m
    BY <2>1
  <2> QED
    BY <1>2, <1>3, <1>4, <2>1, <2>2 DEF d

\* When no rule applies the answer is the last one.
LEMMA NoRuleApplies ==
    ASSUME NEW rules, \A i \in DOMAIN rules : ~rules[i][1]
    PROVE  FirstOf(rules) = "NONE"
BY DEF FirstOf

\* The smallest of a set of numbers is in it.
LEMMA MinIs ==
    ASSUME NEW S \in SUBSET Nat, S # {}
    PROVE  Min(S) \in S /\ \A y \in S : Min(S) <= y
<1> DEFINE Lt == OpToRel(<, Nat)
<1>1. \A x, y \in Nat : <<x, y>> \in Lt <=> x < y
    BY DEF OpToRel
<1>2. PICK k \in S : \A j \in S : ~(<<j, k>> \in Lt)
  <2>1. IsWellFoundedOn(Lt, Nat)
    BY NatLessThanWellFounded
  <2> HIDE DEF Lt
  <2> QED
    BY <2>1, WFMin
<1>3. ASSUME NEW y \in S PROVE k <= y
  <2>1. y \in Nat /\ k \in Nat
    OBVIOUS
  <2>2. ~(y < k)
    BY <1>1, <1>2, <2>1
  <2> QED
    BY <2>1, <2>2
<1>4. \E x \in S : \A y \in S : x <= y
    BY <1>3
<1> QED
    BY <1>4 DEF Min

\* A chain of early returns gives a code exactly when a rule applies.
LEMMA SomeRuleApplies ==
    ASSUME NEW rules, DOMAIN rules \in SUBSET Nat, \A i \in DOMAIN rules : rules[i][2] # "NONE"
    PROVE  FirstOf(rules) # "NONE" <=> \E i \in DOMAIN rules : rules[i][1]
<1> DEFINE hits == {i \in DOMAIN rules : rules[i][1]}
<1>1. hits # {} => Min(hits) \in hits
  <2> hits \in SUBSET Nat
    OBVIOUS
  <2> HIDE DEF hits
  <2> QED
    BY MinIs
<1> QED
    BY <1>1 DEF FirstOf

-----------------------------------------------------------------------------
(* The selected spread                                                     *)

\* The selector returns a spread whose terms it accepted, sized by the authority.
LEMMA SelectedIsSized ==
    ASSUME NEW p, NEW m, NEW direction, NEW a,
           SelectVertical(p, m, direction, a).reason = "SELECTED"
    PROVE  /\ SnapshotValid(p, m)
           /\ \E e \in IF Structural(p) THEN PilotEligible(p, m.chain)
                                        ELSE Eligible(p, m.chain, direction) :
                 LET c == SelectVertical(p, m, direction, a).candidate
                 IN  /\ c = [e EXCEPT !.quantity = Quantity(p, p.max_quantity, a,
                                RiskPerContract(e.strategy, e.bought, e.sold, e.maximum))]
                     /\ IF Structural(p) THEN c.quantity = p.max_quantity ELSE c.quantity >= 1
<1> DEFINE eligible == IF Structural(p) THEN PilotEligible(p, m.chain)
                                        ELSE Eligible(p, m.chain, direction)
           sized(c) == [c EXCEPT !.quantity = Quantity(p, p.max_quantity, a,
                          RiskPerContract(c.strategy, c.bought, c.sold, c.maximum))]
           ranked == {c \in {sized(e) : e \in eligible} :
                        IF Structural(p) THEN c.quantity = p.max_quantity ELSE c.quantity >= 1}
           first == {c \in ranked : \A d \in ranked \ {c} : Precedes(RankKey(p, c), RankKey(p, d))}
           selected == SelectVertical(p, m, direction, a)
<1>1. selected =
        IF ~SnapshotValid(p, m) THEN [reason |-> "SNAPSHOT_INVALID", candidate |-> NoCandidate]
        ELSE IF eligible = {} THEN [reason |-> "NO_ELIGIBLE_STRUCTURE", candidate |-> NoCandidate]
        ELSE IF ranked = {} THEN [reason |-> "RISK_AUTHORITY_INSUFFICIENT", candidate |-> NoCandidate]
        ELSE IF first = {} THEN [reason |-> "SNAPSHOT_INVALID", candidate |-> NoCandidate]
        ELSE [reason |-> "SELECTED", candidate |-> CHOOSE c \in first : TRUE]
    BY DEF SelectVertical
<1>2. /\ SnapshotValid(p, m) /\ first # {}
      /\ selected.candidate = CHOOSE c \in first : TRUE
  <2> HIDE DEF eligible, ranked, first
  <2>1. selected.reason = "SELECTED"
    OBVIOUS
  <2> HIDE DEF selected
  <2> QED
    BY <1>1, <2>1
<1>3. selected.candidate \in first
  <2> HIDE DEF first, selected
  <2> QED
    BY <1>2
<1>4. selected.candidate \in ranked
    BY <1>3
<1>5. PICK e \in eligible : selected.candidate = sized(e)
    BY <1>4
<1> QED
    BY <1>2, <1>4, <1>5

Quoted(o) == o.strike \in Int /\ o.dte \in Int /\ o.bid \in Int /\ o.ask \in Int /\ o.age \in Int

\* A quote that is not too wide scores between nothing and everything.
LEMMA ScoreInRange ==
    ASSUME NEW o, Quoted(o), 0 < o.bid, o.bid <= o.ask, NEW limit \in 1 .. 99, ~TooWide(o, limit)
    PROVE  SpreadScore(o, limit) \in 0 .. 100
<1> DEFINE w == o.ask - o.bid
           m == limit * (o.ask + o.bid)
           a == -20000 * w
<1>1. w \in Nat /\ o.ask + o.bid \in Nat \ {0} /\ limit \in Nat \ {0}
    BY DEF Quoted
<1>2. m \in Nat \ {0}
  <2>1. ASSUME NEW x \in Nat \ {0} PROVE limit * x \in Nat \ {0}
    BY <1>1
  <2> QED
    BY <1>1, <2>1
<1>3. a \in Int /\ a <= 0
    BY <1>1
<1>4. 200 * w <= m
    BY <1>1, <1>2 DEF TooWide, Quoted
<1>5. (-100) * m <= a /\ ~(1 * m <= a)
  <2> HIDE DEF m, w
  <2> QED
    BY <1>1, <1>2, <1>3, <1>4
<1>6. a \div m \in Int /\ -100 <= a \div m /\ ~(1 <= a \div m)
  <2> HIDE DEF a, m
  <2> QED
    BY <1>2, <1>3, <1>5, Quotient
<1>7. SpreadScore(o, limit) = 100 + (a \div m)
    BY DEF SpreadScore
<1> QED
  <2> HIDE DEF a, m
  <2> QED
    BY <1>6, <1>7

\* Contracts that the sizing allows lose no more than each of the caps.
LEMMA SizedWithinCaps ==
    ASSUME NEW p \in Policies, NEW funds \in Budgets, NEW risk \in Nat \ {0}, NEW n,
           n = Quantity(p, p.max_quantity, SelectionAuthority(p, funds), risk), n >= 1
    PROVE  /\ n \in 1 .. p.max_quantity
           /\ funds.approved + n * risk <= p.lifetime_risk
           /\ n * risk <= p.max_loss
           /\ 100 * (n * risk) <= funds.equity * p.equity_fraction
<1> DEFINE left == p.lifetime_risk - funds.approved - funds.reserved
           most == Max({0, left})
           r == Min({p.max_loss, most})
           share == (funds.equity * p.equity_fraction) \div 100
           cap == Min({p.max_loss, share, r, funds.power})
           total == n * risk
<1>1. /\ p.max_loss \in Int /\ p.max_quantity \in Int /\ p.lifetime_risk \in Int
      /\ funds.equity \in Int /\ funds.power \in Int /\ funds.approved \in Int
      /\ funds.reserved \in Nat /\ p.equity_fraction \in Int
    BY PolicyAssumption, BudgetAssumption
<1>2. left \in Int /\ most \in {0, left} /\ most \in Int
  <2>1. left \in Int
    BY <1>1
  <2> HIDE DEF left
  <2>2. most \in {0, left}
    BY <2>1, MinOfTwo
  <2> QED
    BY <2>1, <2>2
<1>3. r \in Int /\ r <= most /\ r <= p.max_loss
  <2> HIDE DEF most
  <2> QED
    BY <1>1, <1>2, MinOfTwo
<1>4. funds.equity * p.equity_fraction \in Int /\ share \in Int
    BY <1>1, Quotient
<1>5. cap \in Int /\ cap <= p.max_loss /\ cap <= share /\ cap <= r
  <2> HIDE DEF share, r
  <2>1. cap \in {p.max_loss, share, r, funds.power}
    BY <1>1, <1>3, <1>4, MinOfFour
  <2>2. cap <= p.max_loss /\ cap <= share /\ cap <= r
    BY <1>1, <1>3, <1>4, MinOfFour
  <2> HIDE DEF cap
  <2> QED
    BY <1>1, <1>3, <1>4, <2>1, <2>2
<1>6. n = Min({p.max_quantity, cap \div risk})
  <2>1. n = Min({p.max_quantity, p.max_quantity, cap \div risk})
    BY DEF Quantity, SelectionAuthority
  <2>2. {p.max_quantity, p.max_quantity, cap \div risk} = {p.max_quantity, cap \div risk}
    OBVIOUS
  <2> HIDE DEF cap
  <2> QED
    BY <2>1, <2>2
<1>7. cap \div risk \in Int
  <2> HIDE DEF cap
  <2> QED
    BY <1>5, Quotient
<1>8. n \in Int /\ n <= p.max_quantity /\ n <= cap \div risk
  <2> DEFINE a == p.max_quantity
             b == cap \div risk
  <2>1. a \in Int /\ b \in Int /\ n = Min({a, b})
    BY <1>1, <1>6, <1>7
  <2> HIDE DEF a, b, cap
  <2>2. n \in {a, b} /\ n <= a /\ n <= b
    BY <2>1, MinOfTwo
  <2>3. n \in Int /\ n <= a /\ n <= b
    BY <2>1, <2>2
  <2> QED
    BY <2>3 DEF a, b
<1>9. total <= cap /\ total \in Int /\ total > 0
  <2>1. total <= cap
    <3> HIDE DEF cap
    <3> QED
      BY <1>5, <1>8, Quotient
  <2>2. \A x, y \in Nat \ {0} : x * y \in Nat \ {0}
    OBVIOUS
  <2> QED
    BY <1>8, <2>1, <2>2
<1>10. 100 * total <= funds.equity * p.equity_fraction
  <2>1. total <= share
    <3> HIDE DEF total, cap, share
    <3> QED
      BY <1>4, <1>5, <1>9
  <2>2. total * 100 <= funds.equity * p.equity_fraction
    <3> HIDE DEF total
    <3> QED
      BY <1>4, <1>9, <2>1, Quotient
  <2> HIDE DEF total
  <2> QED
    BY <1>9, <2>2
<1>11. funds.approved + total <= p.lifetime_risk /\ total <= p.max_loss
  <2>1. total <= most
    <3> HIDE DEF total, cap, most, r
    <3> QED
      BY <1>2, <1>3, <1>5, <1>9
  <2>2. most = left
    BY <1>2, <1>9, <2>1
  <2> HIDE DEF total, cap, most, r
  <2> QED
    BY <1>1, <1>2, <1>3, <1>5, <1>9, <2>1, <2>2
<1> QED
    BY <1>8, <1>10, <1>11

\* The code of a chain is that of a rule that applies.
LEMMA FirstRule ==
    ASSUME NEW rules, DOMAIN rules \in SUBSET Nat
    PROVE  FirstOf(rules) = "NONE" \/ \E i \in DOMAIN rules : rules[i][1] /\ FirstOf(rules) = rules[i][2]
<1> DEFINE hits == {i \in DOMAIN rules : rules[i][1]}
<1>1. hits # {} => Min(hits) \in hits
  <2> hits \in SUBSET Nat
    OBVIOUS
  <2> HIDE DEF hits
  <2> QED
    BY MinIs
<1> QED
    BY <1>1 DEF FirstOf

\* The gates on a candidate pass when each of them does.
LEMMA GatesPass ==
    ASSUME NEW p, NEW c,
           0 < c.approved, c.approved <= c.maximum, c.approved \in Int, c.maximum \in Int,
           c.score \in 0 .. 100, c.dte \in Nat,
           c.quantity \in 1 .. p.max_quantity,
           Structural(p) \/ c.score >= p.min_score, p.min_score \in Int,
           c.dte \in QuoteLimits(p).min_dte .. QuoteLimits(p).max_dte,
           IsVertical(c),
           \A l \in {c.bought, c.sold} :
               /\ l.dte = c.dte
               /\ 0 < l.bid /\ l.bid <= l.ask
               /\ FreshAt(l.age, QuoteLimits(p).age)
               /\ ~TooWide(l, QuoteLimits(p).spread),
           ~(Abs(c.bought.age - c.sold.age) > QuoteLimits(p).skew),
           IF Structural(p) THEN PilotPayoffValid(p, c) ELSE PayoffValid(p, c)
    PROVE  OptionCandidateFailure(p, c) = "NONE"
<1> DEFINE limits == QuoteLimits(p)
           legs == {c.bought, c.sold}
           g1 == c.approved <= 0 \/ c.maximum < c.approved \/ c.score \notin 0 .. 100 \/ c.dte < 0
           g2 == c.quantity \notin 1 .. p.max_quantity
           g3 == ~Structural(p) /\ c.score < p.min_score
           g4 == c.dte \notin limits.min_dte .. limits.max_dte
           g5 == ~IsVertical(c)
           g6 == \E l \in legs : l.dte # c.dte
           g7 == \E l \in legs : ~(0 < l.bid /\ l.bid <= l.ask)
           g8 == \E l \in legs : ~FreshAt(l.age, limits.age)
           g9 == Abs(c.bought.age - c.sold.age) > limits.skew
           g10 == \E l \in legs : TooWide(l, limits.spread)
           g11 == IF Structural(p) THEN ~PilotPayoffValid(p, c) ELSE ~PayoffValid(p, c)
           rules == << <<g1, "OPTION_CANDIDATE_INVALID">>,
                       <<g2, "QUANTITY_OUT_OF_BOUNDS">>,
                       <<g3, "CANDIDATE_SCORE_BELOW_MINIMUM">>,
                       <<g4, "OPTION_DTE_OUT_OF_RANGE">>,
                       <<g5, "VERTICAL_STRUCTURE_INVALID">>,
                       <<g6, "OPTION_DTE_MISMATCH">>,
                       <<g7, "OPTION_QUOTE_INVALID">>,
                       <<g8, "OPTION_QUOTE_STALE">>,
                       <<g9, "OPTION_QUOTES_UNSYNCHRONIZED">>,
                       <<g10, "OPTION_QUOTE_TOO_WIDE">>,
                       <<g11, "OPTION_PAYOFF_INVALID">> >>
<1>1. OptionCandidateFailure(p, c) = FirstOf(rules)
    BY DEF OptionCandidateFailure
<1>2. ~g1 /\ ~g2 /\ ~g3 /\ ~g4 /\ ~g5
    OBVIOUS
<1>3. ~g6 /\ ~g7 /\ ~g8 /\ ~g9 /\ ~g10 /\ ~g11
    OBVIOUS
<1> HIDE DEF g1, g2, g3, g4, g5, g6, g7, g8, g9, g10, g11
<1>4. \A i \in DOMAIN rules : ~rules[i][1]
    BY <1>2, <1>3
<1> QED
  <2> HIDE DEF rules
  <2> QED
    BY <1>1, <1>4, NoRuleApplies

\* A loss within the limits is not refused for them.
LEMMA LossPasses ==
    ASSUME NEW p, NEW funds, NEW loss,
           ~(funds.approved + loss > p.lifetime_risk),
           ~(loss > p.max_loss \/ 100 * loss > funds.equity * p.equity_fraction)
    PROVE  AccountFailure(p, funds, loss) \notin
              {"LIFETIME_RISK_LIMIT_REACHED", "POSITION_RISK_LIMIT_EXCEEDED"}
<1> DEFINE g1 == funds.equity <= p.equity_floor
           g4 == funds.entries >= p.lifetime_entries
           g5 == funds.approved + loss > p.lifetime_risk
           g6 == loss > p.max_loss \/ 100 * loss > funds.equity * p.equity_fraction
           rules == << <<g1, "EQUITY_FLOOR_REACHED">>,
                       <<funds.open_orders, "OPEN_ORDER_EXISTS">>,
                       <<funds.reserving, "ENTRY_RESERVATION_ACTIVE">>,
                       <<g4, "LIFETIME_ENTRY_LIMIT_REACHED">>,
                       <<g5, "LIFETIME_RISK_LIMIT_REACHED">>,
                       <<g6, "POSITION_RISK_LIMIT_EXCEEDED">> >>
<1>1. AccountFailure(p, funds, loss) = FirstOf(rules)
    BY DEF AccountFailure
<1>2. DOMAIN rules = 1 .. 6 /\ ~rules[5][1] /\ ~rules[6][1]
  <2>1. ~g5 /\ ~g6
    OBVIOUS
  <2> HIDE DEF g1, g4, g5, g6
  <2> QED
    BY <2>1
<1>3. /\ rules[1][2] = "EQUITY_FLOOR_REACHED" /\ rules[2][2] = "OPEN_ORDER_EXISTS"
      /\ rules[3][2] = "ENTRY_RESERVATION_ACTIVE" /\ rules[4][2] = "LIFETIME_ENTRY_LIMIT_REACHED"
    OBVIOUS
<1> HIDE DEF rules
<1>4. FirstOf(rules) = "NONE" \/ \E i \in DOMAIN rules : rules[i][1] /\ FirstOf(rules) = rules[i][2]
  <2>1. DOMAIN rules \in SUBSET Nat
    BY <1>2
  <2> QED
    BY <2>1, FirstRule
<1> QED
    BY <1>1, <1>2, <1>3, <1>4

\* What was sized within the caps is not refused for its loss.
LEMMA SizedLossPasses ==
    ASSUME NEW p \in Policies, NEW funds \in Budgets, NEW n \in 1 .. p.max_quantity,
           NEW risk \in Nat \ {0}, NEW loss, loss = n * risk,
           funds.approved + n * risk <= p.lifetime_risk, n * risk <= p.max_loss,
           100 * (n * risk) <= funds.equity * p.equity_fraction
    PROVE  AccountFailure(p, funds, loss) \notin
              {"LIFETIME_RISK_LIMIT_REACHED", "POSITION_RISK_LIMIT_EXCEEDED"}
<1>1. loss \in Int /\ funds.approved \in Int /\ funds.equity * p.equity_fraction \in Int
  <2>1. n \in Int /\ p.equity_fraction \in Int /\ funds.equity \in Int /\ funds.approved \in Int
    BY PolicyAssumption, BudgetAssumption
  <2>2. n * risk \in Int
    BY <2>1
  <2> QED
    BY <2>1, <2>2
<1>2. p.lifetime_risk \in Int /\ p.max_loss \in Int
    BY PolicyAssumption
<1>3. /\ funds.approved + loss <= p.lifetime_risk /\ loss <= p.max_loss
      /\ 100 * loss <= funds.equity * p.equity_fraction
    OBVIOUS
<1>4. /\ ~(funds.approved + loss > p.lifetime_risk)
      /\ ~(loss > p.max_loss \/ 100 * loss > funds.equity * p.equity_fraction)
    BY <1>1, <1>2, <1>3
<1> QED
    BY <1>4, LossPasses

Directions == {"BULLISH", "BEARISH"}

\* What the pricing of its order needs to know of a candidate.
Priced(p, c) ==
    /\ IsVertical(c) /\ c.bought.strike \in Int /\ c.sold.strike \in Int
    /\ c.quantity \in 1 .. p.max_quantity
    /\ c.approved \in Int /\ c.maximum \in Int /\ 0 < c.approved /\ c.approved <= c.maximum
    /\ LossOf(c) <= p.max_loss

Accepted(p, funds, c) ==
    /\ Priced(p, c)
    /\ OptionCandidateFailure(p, c) = "NONE"
    /\ AccountFailure(p, funds, LossOf(c)) \notin
          {"LIFETIME_RISK_LIMIT_REACHED", "POSITION_RISK_LIMIT_EXCEEDED"}

\* A spread of an event policy that the selector accepts passes the gates, sized.
LEMMA EventSpreadPasses ==
    ASSUME NEW p \in Policies, ~Structural(p), NEW m \in Markets, SnapshotValid(p, m),
           NEW direction \in Directions, NEW funds \in Budgets,
           NEW e \in Eligible(p, m.chain, direction), NEW n,
           n = Quantity(p, p.max_quantity, SelectionAuthority(p, funds),
                        RiskPerContract(e.strategy, e.bought, e.sold, e.maximum)),
           n >= 1,
           NEW c, c = [e EXCEPT !.quantity = n]
    PROVE  Accepted(p, funds, c)
<1>1. PICK x \in Structures(m.chain, direction) :
        LET st == StrategyOf(direction, x[1].right)
        IN  /\ TermsValid(p, st, x[1], x[2])
            /\ e = Candidate(p, st, x[1], x[2], Natural(st, x[1], x[2]), Natural(st, x[1], x[2]), 0)
            /\ e.score >= p.min_score
    BY DEF Eligible
<1> DEFINE b == x[1]
           s == x[2]
           st == StrategyOf(direction, b.right)
           natural == Natural(st, b, s)
           width == Abs(b.strike - s.strike)
           score == Min({SpreadScore(b, p.spread), SpreadScore(s, p.spread)})
           risk == RiskPerContract(st, b, s, natural)
<1>2. b \in m.chain /\ s \in m.chain
    BY DEF Structures
<1>3. /\ b.right = s.right /\ b.dte = s.dte
      /\ IF direction = "BULLISH" THEN b.strike < s.strike ELSE b.strike > s.strike
    BY DEF Structures
<1>4. TermsValid(p, st, b, s)
    BY <1>1
<1>5. /\ QuoteLimits(p).spread = p.spread /\ QuoteLimits(p).age = p.age
      /\ QuoteLimits(p).skew = p.skew /\ QuoteLimits(p).min_dte = p.min_dte
      /\ QuoteLimits(p).max_dte = p.max_dte
    BY DEF QuoteLimits
<1>6. c = [strategy |-> st, bought |-> b, sold |-> s, quantity |-> n, dte |-> b.dte,
           approved |-> natural, maximum |-> natural, score |-> score]
  <2>1. e = [strategy |-> st, bought |-> b, sold |-> s, quantity |-> 0, dte |-> b.dte,
             approved |-> natural, maximum |-> natural, score |-> score]
    BY <1>1, <1>5 DEF Candidate
  <2> HIDE DEF b, s, st, natural, score
  <2> QED
    BY <2>1
<1>7. score >= p.min_score /\ n = Quantity(p, p.max_quantity, SelectionAuthority(p, funds), risk)
  <2>1. /\ e.strategy = st /\ e.bought = b /\ e.sold = s /\ e.maximum = natural /\ e.score = score
    BY <1>1, <1>5 DEF Candidate
  <2> HIDE DEF b, s, st, natural, score
  <2> QED
    BY <1>1, <2>1
<1> HIDE DEF b, s
<1>8. /\ Quoted(b) /\ Quoted(s) /\ OptionValid(p, b) /\ OptionValid(p, s)
    BY <1>2, MarketAssumption DEF SnapshotValid, Quoted
<1>9. \A l \in {b, s} : /\ l.dte = b.dte /\ 0 < l.bid /\ l.bid <= l.ask
                        /\ FreshAt(l.age, p.age) /\ ~TooWide(l, p.spread)
                        /\ l.dte \in p.min_dte .. p.max_dte
    BY <1>3, <1>8 DEF OptionValid, FreshAt
<1>10. score \in 0 .. 100
  <2>1. SpreadScore(b, p.spread) \in 0 .. 100 /\ SpreadScore(s, p.spread) \in 0 .. 100
    BY <1>8, <1>9, PolicyAssumption, ScoreInRange
  <2>2. ASSUME NEW x1 \in Int, NEW x2 \in Int PROVE Min({x1, x2}) \in {x1, x2}
    BY MinOfTwo
  <2>3. SpreadScore(b, p.spread) \in Int /\ SpreadScore(s, p.spread) \in Int
    BY <2>1
  <2>4. score \in {SpreadScore(b, p.spread), SpreadScore(s, p.spread)}
    BY <2>2, <2>3
  <2> HIDE DEF score
  <2> QED
    BY <2>1, <2>4
<1>11. natural \in Int /\ natural > 0 /\ width \in Int
    BY <1>4, <1>8 DEF TermsValid, Natural, Quoted, Abs
<1>12. /\ ~(Abs(b.age - s.age) > p.skew)
       /\ IF Debit(st)
          THEN 100 * natural >= p.min_debit * width /\ 100 * natural <= p.max_debit * width
          ELSE 100 * natural >= p.min_credit * width /\ natural < width
  <2>1. Abs(b.age - s.age) \in Int /\ p.skew \in Int
    BY <1>8, PolicyAssumption DEF Quoted, Abs
  <2> QED
    BY <1>4, <2>1 DEF TermsValid
<1>13. risk \in Nat \ {0}
  <2> HIDE DEF natural
  <2>1. risk = IF Debit(st) THEN natural ELSE width - natural
    BY DEF RiskPerContract
  <2> HIDE DEF st, risk, width
  <2> QED
    BY <1>11, <1>12, <2>1
<1>14. /\ n \in 1 .. p.max_quantity
       /\ funds.approved + n * risk <= p.lifetime_risk
       /\ n * risk <= p.max_loss
       /\ 100 * (n * risk) <= funds.equity * p.equity_fraction
  <2> HIDE DEF risk
  <2> QED
    BY <1>7, <1>13, SizedWithinCaps
<1>15. IsVertical(c)
    BY <1>3, <1>6, <1>8 DEF IsVertical, Quoted, Directions
<1>16. PayoffValid(p, c)
  <2>1. /\ c.strategy = st /\ c.bought = b /\ c.sold = s /\ c.approved = natural /\ c.maximum = natural
    BY <1>6
  <2>2. Natural(c.strategy, c.bought, c.sold) = natural /\ Abs(c.bought.strike - c.sold.strike) = width
    BY <2>1
  <2> HIDE DEF natural, width, st
  <2> QED
    BY <1>11, <1>12, <2>1, <2>2 DEF PayoffValid
<1>17. OptionCandidateFailure(p, c) = "NONE"
  <2>1. /\ c.bought = b /\ c.sold = s /\ c.approved = natural /\ c.maximum = natural
        /\ c.score = score /\ c.quantity = n /\ c.dte = b.dte
    BY <1>6
  <2>2. p.min_score \in Int /\ b.dte \in Nat /\ b.dte \in p.min_dte .. p.max_dte
    BY <1>8, <1>9, PolicyAssumption DEF Quoted
  <2> HIDE DEF natural, width, st, score
  <2>3. \A l \in {c.bought, c.sold} :
               /\ l.dte = c.dte
               /\ 0 < l.bid /\ l.bid <= l.ask
               /\ FreshAt(l.age, QuoteLimits(p).age)
               /\ ~TooWide(l, QuoteLimits(p).spread)
    BY <1>5, <1>9, <2>1
  <2>4. 0 < c.approved /\ c.approved <= c.maximum /\ c.approved \in Int /\ c.maximum \in Int
    BY <1>11, <2>1
  <2>5. c.score \in 0 .. 100 /\ c.dte \in Nat /\ c.quantity \in 1 .. p.max_quantity /\ c.score >= p.min_score
    BY <1>7, <1>10, <1>14, <2>1, <2>2
  <2>6. /\ c.dte \in QuoteLimits(p).min_dte .. QuoteLimits(p).max_dte
        /\ ~(Abs(c.bought.age - c.sold.age) > QuoteLimits(p).skew)
    BY <1>5, <1>12, <2>1, <2>2
  <2> QED
    BY <1>15, <1>16, <2>2, <2>3, <2>4, <2>5, <2>6, GatesPass
<1>18. LossOf(c) = n * risk
    BY <1>6 DEF LossOf
<1>19. AccountFailure(p, funds, LossOf(c)) \notin
          {"LIFETIME_RISK_LIMIT_REACHED", "POSITION_RISK_LIMIT_EXCEEDED"}
  <2> HIDE DEF risk
  <2> QED
    BY <1>13, <1>14, <1>18, SizedLossPasses
<1>20. Priced(p, c)
  <2>1. /\ c.bought = b /\ c.sold = s /\ c.approved = natural /\ c.maximum = natural
        /\ c.quantity = n
    BY <1>6
  <2> HIDE DEF natural, risk
  <2>2. LossOf(c) <= p.max_loss
    BY <1>14, <1>18
  <2> QED
    BY <1>8, <1>11, <1>14, <1>15, <2>1, <2>2 DEF Priced, Quoted
<1> QED
    BY <1>17, <1>19, <1>20 DEF Accepted

\* So does a spread of a structural pilot, which is never resized.
LEMMA PilotSpreadPasses ==
    ASSUME NEW p \in Policies, Structural(p), NEW m \in Markets, SnapshotValid(p, m),
           NEW funds \in Budgets, NEW e \in PilotEligible(p, m.chain), NEW n,
           n = Quantity(p, p.max_quantity, SelectionAuthority(p, funds),
                        RiskPerContract(e.strategy, e.bought, e.sold, e.maximum)),
           n = p.max_quantity,
           NEW c, c = [e EXCEPT !.quantity = n]
    PROVE  Accepted(p, funds, c)
<1> DEFINE dir == Pilots[p.key].direction
           right == IF dir = "BULLISH" THEN "C" ELSE "P"
           st == StrategyOf(dir, right)
<1>1. PICK x \in Structures(m.chain, dir) :
        /\ x[1].right = right
        /\ Abs(x[1].strike - x[2].strike) = PilotWidth
        /\ PilotTermsValid(p, x[1], x[2])
        /\ e = Candidate(p, st, x[1], x[2], PilotInitial(x[1], x[2]), x[1].ask - x[2].bid, 0)
    BY DEF PilotEligible
<1> DEFINE b == x[1]
           s == x[2]
           initial == PilotInitial(b, s)
           natural == b.ask - s.bid
           score == Min({SpreadScore(b, 5), SpreadScore(s, 5)})
<1>2. b \in m.chain /\ s \in m.chain
    BY DEF Structures
<1>3. /\ b.right = s.right /\ b.dte = s.dte /\ b.right = right
      /\ IF dir = "BULLISH" THEN b.strike < s.strike ELSE b.strike > s.strike
    BY <1>1 DEF Structures
<1>4. QuoteLimits(p) = [min_dte |-> 30, max_dte |-> 45, spread |-> 5, age |-> 20, skew |-> 3]
    BY DEF QuoteLimits
<1>5. dir \in Directions
    BY DEF Structural, Pilots, Directions
<1>6. st = IF dir = "BULLISH" THEN "BULL_CALL_DEBIT" ELSE "BEAR_PUT_DEBIT"
    BY <1>5 DEF StrategyOf, Directions
<1> HIDE DEF dir
<1>7. c = [strategy |-> st, bought |-> b, sold |-> s, quantity |-> n, dte |-> b.dte,
           approved |-> initial, maximum |-> natural, score |-> score]
  <2>1. e = [strategy |-> st, bought |-> b, sold |-> s, quantity |-> 0, dte |-> b.dte,
             approved |-> initial, maximum |-> natural, score |-> score]
    BY <1>1, <1>4 DEF Candidate
  <2> HIDE DEF b, s, st, natural, initial, score
  <2> QED
    BY <2>1
<1>8. n = Quantity(p, p.max_quantity, SelectionAuthority(p, funds), natural)
  <2>1. e.strategy = st /\ e.maximum = natural
    BY <1>1 DEF Candidate
  <2>2. RiskPerContract(e.strategy, e.bought, e.sold, e.maximum) = natural
    BY <1>6, <2>1 DEF RiskPerContract, Debit
  <2> QED
    BY <2>2
<1> HIDE DEF b, s
<1>9. /\ Quoted(b) /\ Quoted(s) /\ OptionValid(p, b) /\ OptionValid(p, s)
    BY <1>2, MarketAssumption DEF SnapshotValid, Quoted
<1>10. PilotTermsValid(p, b, s) /\ Abs(b.strike - s.strike) = PilotWidth
    BY <1>1 DEF b, s
<1>11. /\ b.dte \in 30 .. 45 /\ b.age <= 20 /\ s.age <= 20 /\ Abs(b.age - s.age) <= 3
       /\ ~TooWide(b, 5) /\ ~TooWide(s, 5)
       /\ initial > 0 /\ initial <= natural /\ natural <= PilotDebit
       /\ 4 * (PilotWidth - natural) >= 3 * natural
    BY <1>4, <1>10 DEF PilotTermsValid
<1>12. \A l \in {b, s} : /\ l.dte = b.dte /\ 0 < l.bid /\ l.bid <= l.ask
                         /\ FreshAt(l.age, 20) /\ ~TooWide(l, 5)
    BY <1>3, <1>9, <1>11 DEF OptionValid, FreshAt
<1>13. score \in 0 .. 100
  <2>1. SpreadScore(b, 5) \in 0 .. 100 /\ SpreadScore(s, 5) \in 0 .. 100
    BY <1>9, <1>12, ScoreInRange
  <2>2. SpreadScore(b, 5) \in Int /\ SpreadScore(s, 5) \in Int
    BY <2>1
  <2>3. score \in {SpreadScore(b, 5), SpreadScore(s, 5)}
    BY <2>2, MinOfTwo
  <2> HIDE DEF score
  <2> QED
    BY <2>1, <2>3
<1>14. natural \in Int /\ initial \in Int /\ natural \in Nat \ {0}
  <2>1. natural \in Int
    BY <1>9 DEF Quoted
  <2>2. initial \in Int
    <3> DEFINE t == -((b.bid + b.ask) - (s.bid + s.ask))
    <3>1. t \in Int
      BY <1>9 DEF Quoted
    <3>2. t \div 2 \in Int
      <4> HIDE DEF t
      <4> QED
        BY <3>1, Quotient
    <3>3. initial = -(t \div 2)
      BY DEF PilotInitial
    <3> HIDE DEF t, initial
    <3> QED
      BY <3>2, <3>3
  <2> HIDE DEF natural, initial
  <2> QED
    BY <1>11, <2>1, <2>2
<1>15. /\ n \in 1 .. p.max_quantity
       /\ funds.approved + n * natural <= p.lifetime_risk
       /\ n * natural <= p.max_loss
       /\ 100 * (n * natural) <= funds.equity * p.equity_fraction
  <2>1. n >= 1
    BY PolicyAssumption
  <2> HIDE DEF natural
  <2> QED
    BY <1>8, <1>14, <2>1, SizedWithinCaps
<1>16. IsVertical(c)
  <2>1. b.strike # s.strike /\ (IF b.strike < s.strike THEN "BULLISH" ELSE "BEARISH") = dir
    BY <1>3, <1>5, <1>9 DEF Quoted, Directions
  <2> HIDE DEF right
  <2>2. st = StrategyOf(IF b.strike < s.strike THEN "BULLISH" ELSE "BEARISH", b.right)
    BY <1>3, <2>1
  <2>3. /\ c.strategy = st /\ c.bought = b /\ c.sold = s
    BY <1>7
  <2> HIDE DEF st
  <2> QED
    BY <1>3, <2>1, <2>2, <2>3 DEF IsVertical
<1>17. PilotPayoffValid(p, c)
  <2>1. /\ c.strategy = st /\ c.bought = b /\ c.sold = s /\ c.approved = initial /\ c.maximum = natural
        /\ c.quantity = n
    BY <1>7
  <2>2. st = StrategyOf(Pilots[p.key].direction, IF Pilots[p.key].direction = "BULLISH" THEN "C" ELSE "P")
    BY DEF dir
  <2>3. Abs(c.sold.strike - c.bought.strike) = PilotWidth
    BY <1>9, <1>10, <2>1 DEF Abs, Quoted
  <2>4. c.maximum <= c.bought.ask - c.sold.bid
    BY <1>14, <2>1
  <2> HIDE DEF natural, initial, st
  <2>5. 0 < c.approved
    BY <1>11, <1>14, <2>1
  <2> QED
    BY <1>11, <2>1, <2>2, <2>3, <2>4, <2>5 DEF PilotPayoffValid
<1>18. OptionCandidateFailure(p, c) = "NONE"
  <2>1. /\ c.bought = b /\ c.sold = s /\ c.approved = initial /\ c.maximum = natural
        /\ c.score = score /\ c.quantity = n /\ c.dte = b.dte
    BY <1>7
  <2>2. p.min_score \in Int /\ b.dte \in Nat
    BY <1>9, <1>11, PolicyAssumption DEF Quoted
  <2> HIDE DEF natural, initial, st, score
  <2>3. \A l \in {c.bought, c.sold} :
               /\ l.dte = c.dte
               /\ 0 < l.bid /\ l.bid <= l.ask
               /\ FreshAt(l.age, QuoteLimits(p).age)
               /\ ~TooWide(l, QuoteLimits(p).spread)
    BY <1>4, <1>12, <2>1
  <2>4. 0 < c.approved /\ c.approved <= c.maximum /\ c.approved \in Int /\ c.maximum \in Int
    BY <1>11, <1>14, <2>1
  <2>5. c.score \in 0 .. 100 /\ c.dte \in Nat /\ c.quantity \in 1 .. p.max_quantity
    BY <1>13, <1>15, <2>1, <2>2
  <2>6. /\ c.dte \in QuoteLimits(p).min_dte .. QuoteLimits(p).max_dte
        /\ ~(Abs(c.bought.age - c.sold.age) > QuoteLimits(p).skew)
    <3>1. Abs(b.age - s.age) \in Int
      BY <1>9 DEF Abs, Quoted
    <3> QED
      BY <1>4, <1>11, <2>1, <3>1
  <2> QED
    BY <1>16, <1>17, <2>2, <2>3, <2>4, <2>5, <2>6, GatesPass
<1>19. LossOf(c) = n * natural
    BY <1>6, <1>7 DEF LossOf, RiskPerContract, Debit
<1>20. AccountFailure(p, funds, LossOf(c)) \notin
          {"LIFETIME_RISK_LIMIT_REACHED", "POSITION_RISK_LIMIT_EXCEEDED"}
  <2> HIDE DEF natural
  <2> QED
    BY <1>14, <1>15, <1>19, SizedLossPasses
<1>21. Priced(p, c)
  <2>1. /\ c.bought = b /\ c.sold = s /\ c.approved = initial /\ c.maximum = natural
        /\ c.quantity = n
    BY <1>7
  <2> HIDE DEF natural, initial
  <2>2. LossOf(c) <= p.max_loss
    BY <1>15, <1>19
  <2>3. 0 < c.approved /\ c.approved <= c.maximum
    BY <1>11, <1>14, <2>1
  <2> QED
    BY <1>9, <1>14, <1>15, <1>16, <2>1, <2>2, <2>3 DEF Priced, Quoted
<1> QED
    BY <1>18, <1>20, <1>21 DEF Accepted

\* A direction that is confirmed is one of two.
LEMMA DirectionIsOne ==
    ASSUME NEW p, NEW m, DeriveDirection(p, m) # NoDirection
    PROVE  DeriveDirection(p, m) \in Directions
BY DEF DeriveDirection, NoDirection, Directions, Structural, Pilots

\* Whatever the selector returns passes the gates (select_vertical_candidate and
\* _option_candidate_failure).
LEMMA SelectedIsAccepted ==
    ASSUME NEW p \in Policies, NEW m \in Markets, NEW funds \in Budgets,
           DeriveDirection(p, m) # NoDirection,
           SelectVertical(p, m, DeriveDirection(p, m), SelectionAuthority(p, funds)).reason = "SELECTED"
    PROVE  Accepted(p, funds, SelectVertical(p, m, DeriveDirection(p, m),
                                             SelectionAuthority(p, funds)).candidate)
<1> DEFINE dir == DeriveDirection(p, m)
           a == SelectionAuthority(p, funds)
           selected == SelectVertical(p, m, dir, a)
<1> SUFFICES Accepted(p, funds, selected.candidate)
    OBVIOUS
<1>1. dir \in Directions /\ selected.reason = "SELECTED"
    BY DirectionIsOne
<1> HIDE DEF dir
<1>2. /\ SnapshotValid(p, m)
      /\ \E e \in IF Structural(p) THEN PilotEligible(p, m.chain) ELSE Eligible(p, m.chain, dir) :
            LET c == selected.candidate
            IN  /\ c = [e EXCEPT !.quantity = Quantity(p, p.max_quantity, a,
                          RiskPerContract(e.strategy, e.bought, e.sold, e.maximum))]
                /\ IF Structural(p) THEN c.quantity = p.max_quantity ELSE c.quantity >= 1
  <2> HIDE DEF a
  <2> QED
    BY <1>1, SelectedIsSized
<1>3. PICK e \in IF Structural(p) THEN PilotEligible(p, m.chain) ELSE Eligible(p, m.chain, dir) :
         /\ selected.candidate = [e EXCEPT !.quantity = Quantity(p, p.max_quantity, a,
                          RiskPerContract(e.strategy, e.bought, e.sold, e.maximum))]
         /\ IF Structural(p) THEN selected.candidate.quantity = p.max_quantity
                             ELSE selected.candidate.quantity >= 1
    BY <1>2
<1> DEFINE n == Quantity(p, p.max_quantity, a,
                         RiskPerContract(e.strategy, e.bought, e.sold, e.maximum))
<1>4. selected.candidate = [e EXCEPT !.quantity = n]
    BY <1>3
<1>5. "quantity" \in DOMAIN e
  <2>1. \A st, b, s, x, y : "quantity" \in DOMAIN Candidate(p, st, b, s, x, y, 0)
    BY DEF Candidate
  <2>2. ASSUME NEW c \in Eligible(p, m.chain, dir) PROVE "quantity" \in DOMAIN c
    <3>1. \E st, b, s, x, y : c = Candidate(p, st, b, s, x, y, 0)
      BY DEF Eligible
    <3> QED
      BY <2>1, <3>1
  <2>3. ASSUME NEW c \in PilotEligible(p, m.chain) PROVE "quantity" \in DOMAIN c
    <3>1. \E st, b, s, x, y : c = Candidate(p, st, b, s, x, y, 0)
      BY DEF PilotEligible
    <3> QED
      BY <2>1, <3>1
  <2> QED
    BY <2>2, <2>3
<1>6. selected.candidate.quantity = n
  <2> HIDE DEF n, selected
  <2> QED
    BY <1>4, <1>5
<1>7. CASE Structural(p)
  <2> HIDE DEF selected
  <2>1. n = p.max_quantity
    BY <1>3, <1>6, <1>7
  <2> QED
    BY <1>2, <1>3, <1>4, <1>7, <2>1, PilotSpreadPasses
<1>8. CASE ~Structural(p)
  <2> HIDE DEF selected
  <2>1. n >= 1
    BY <1>3, <1>6, <1>8
  <2> QED
    BY <1>1, <1>2, <1>3, <1>4, <1>8, <2>1, EventSpreadPasses
<1> QED
    BY <1>7, <1>8

\* The selector and the gates are separate code (services/opportunity_selection.py,
\* policy/opportunity.py): for any policy __post_init__ admits, any chain and any account, a
\* spread the first returns is refused by none of the option gates of the second, and its loss
\* stays within what is left of the lifetime and the position risk.
THEOREM SelectionIsAcceptable ==
    question \in Questions => SelectedIsAcceptable
<1> SUFFICES ASSUME question \in Questions, question.about = "SELECTION"
             PROVE  SelectedIsAcceptable
    BY DEF SelectedIsAcceptable
<1>1. question.policy \in Policies /\ question.market \in Markets /\ question.budget \in Budgets
    BY DEF Questions
<1> QED
    BY <1>1, SelectedIsAccepted DEF SelectedIsAcceptable, Accepted

-----------------------------------------------------------------------------
(* A worse review still closes                                             *)

\* A quotient grows with its numerator, rounded down or half to even.
LEMMA QuotientGrows ==
    ASSUME NEW a \in Int, NEW b \in Int, NEW m \in Nat \ {0}, a <= b
    PROVE  a \div m \in Int /\ b \div m \in Int /\ a \div m <= b \div m
<1> DEFINE q == a \div m
<1>1. q \in Int /\ b \div m \in Int /\ q * m \in Int
    BY Quotient
<1>2. q * m <= a
  <2>1. q <= a \div m
    BY <1>1
  <2> HIDE DEF q
  <2> QED
    BY <1>1, <2>1, Quotient
<1>3. q * m <= b
    BY <1>1, <1>2
<1>4. q <= b \div m
  <2> HIDE DEF q
  <2> QED
    BY <1>1, <1>3, Quotient
<1> QED
    BY <1>1, <1>4

\* A clamped number grows with the number.
LEMMA ClampGrows ==
    ASSUME NEW x \in Int, NEW y \in Int, x <= y
    PROVE  Clamp(x) \in Nat /\ Clamp(y) \in Nat /\ Clamp(x) <= Clamp(y)
<1>1. ASSUME NEW z \in Int
      PROVE  /\ Clamp(z) = IF z < 0 THEN 0 ELSE IF z > 10000 THEN 10000 ELSE z
  <2> DEFINE t == Min({10000, z})
  <2>1. t \in {10000, z} /\ t <= 10000 /\ t <= z
    BY MinOfTwo
  <2>2. t \in Int /\ Clamp(z) = Max({0, t})
    BY <2>1 DEF Clamp, Unit
  <2> HIDE DEF t
  <2>3. Max({0, t}) \in {0, t} /\ Max({0, t}) >= 0 /\ Max({0, t}) >= t
    BY <2>2, MaxWith
  <2> QED
    BY <2>1, <2>2, <2>3
<1> QED
    BY <1>1

\* Rounding half to even keeps the order.
LEMMA RoundingGrows ==
    ASSUME NEW x \in Int, NEW y \in Int, x <= y
    PROVE  DisplayScore(x) \in Int /\ DisplayScore(y) \in Int /\ DisplayScore(x) <= DisplayScore(y)
<1> DEFINE qx == x \div 100
           qy == y \div 100
           rx == x % 100
           ry == y % 100
<1>1. qx \in Int /\ qy \in Int /\ qx <= qy
    BY QuotientGrows
<1>2. rx \in Int /\ ry \in Int /\ 0 <= rx /\ 0 <= ry /\ x = 100 * qx + rx /\ y = 100 * qy + ry
    OBVIOUS
<1>3. /\ DisplayScore(x) = IF 2 * rx > 100 \/ (2 * rx = 100 /\ qx % 2 = 1) THEN qx + 1 ELSE qx
      /\ DisplayScore(y) = IF 2 * ry > 100 \/ (2 * ry = 100 /\ qy % 2 = 1) THEN qy + 1 ELSE qy
    BY DEF DisplayScore, Unit
<1> HIDE DEF qx, qy, rx, ry
<1>4. CASE qx < qy
    BY <1>1, <1>3, <1>4
<1>5. CASE qx = qy
  <2>1. rx <= ry
    BY <1>1, <1>2, <1>5
  <2> QED
    BY <1>1, <1>2, <1>3, <1>5, <2>1
<1> QED
    BY <1>1, <1>4, <1>5

\* The loss of a position is what its result is below zero.
LEMMA LossOfPosition ==
    ASSUME NEW x \in Int PROVE Max({0, -x}) = IF x < 0 THEN -x ELSE 0
<1>1. -x \in Int
    OBVIOUS
<1>2. Max({0, -x}) \in {0, -x} /\ Max({0, -x}) >= 0 /\ Max({0, -x}) >= -x
    BY <1>1, MinOfTwo
<1> QED
    BY <1>2

\* The parts of the score that the worsening leaves alone are numbers.
LEMMA BandIsNumber ==
    ASSUME NEW v \in Int, NEW low \in Int, NEW high \in Int, NEW tolerance \in Nat \ {0}
    PROVE  BandDeviation(v, low, high, tolerance) \in Int
<1> DEFINE d == Max({low - v, v - high})
<1>1. low - v \in Int /\ v - high \in Int
    OBVIOUS
<1>2. d \in {low - v, v - high}
    BY <1>1, MinOfTwo
<1>3. 100 * Unit * d \in Int
    BY <1>1, <1>2 DEF Unit
<1>4. (100 * Unit * d) \div tolerance \in Int
  <2> DEFINE x == 100 * Unit * d
  <2>1. x \in Int
    BY <1>3
  <2> HIDE DEF x
  <2>2. x \div tolerance \in Int
    BY <2>1, Quotient
  <2> QED
    BY <2>2 DEF x
<1>5. Clamp((100 * Unit * d) \div tolerance) \in Int
  <2> HIDE DEF d
  <2> QED
    BY <1>4, ClampGrows
<1> QED
    BY <1>5 DEF BandDeviation

\* The parts of the score other than the loss are numbers.
LEMMA RestIsNumber ==
    ASSUME NEW s \in ScoreInputs
    PROVE  ExposureMismatch(s) \in Int /\ VolatilityMismatch(s) \in Int
<1> USE DEF ScoreInputs
<1>1. Max({1, s.vega_high - s.vega_low}) \in Nat \ {0}
  <2>1. s.vega_high - s.vega_low \in Int
    OBVIOUS
  <2> DEFINE t == s.vega_high - s.vega_low
  <2> HIDE DEF t
  <2>2. t \in Int
    BY <2>1 DEF t
  <2>3. Max({1, t}) \in {1, t} /\ Max({1, t}) >= 1
    BY <2>2, MaxWith
  <2>4. Max({1, t}) \in Nat \ {0}
    BY <2>2, <2>3
  <2> QED
    BY <2>4 DEF t
<1>2. VegaMismatch(s) \in Int
    BY <1>1, BandIsNumber DEF VegaMismatch
<1>3. BandDeviation(s.delta, s.delta_low, s.delta_high, 25) \in Int
    BY BandIsNumber
<1>4. BandDeviation(s.dte, s.minimum_dte, s.maximum_dte, 7) \in Int
    BY BandIsNumber
<1> DEFINE x == 100 * Unit * (Max({0, -s.theta}) - s.max_theta)
           theta == Clamp(x \div s.max_theta)
<1>5. theta \in Int
  <2>1. x \in Int
    BY LossOfPosition DEF Unit
  <2> HIDE DEF x
  <2>2. x \div s.max_theta \in Int
    BY <2>1, Quotient
  <2> QED
    BY <2>2, ClampGrows
<1> DEFINE sum == 40 * BandDeviation(s.delta, s.delta_low, s.delta_high, 25) + 25 * VegaMismatch(s)
                  + 20 * theta + 15 * BandDeviation(s.dte, s.minimum_dte, s.maximum_dte, 7)
<1>6. ExposureMismatch(s) = sum \div 100
    BY DEF ExposureMismatch
<1>7. sum \in Int
  <2> HIDE DEF theta
  <2> QED
    BY <1>2, <1>3, <1>4, <1>5
<1>8. ExposureMismatch(s) \in Int
  <2> HIDE DEF sum
  <2> QED
    BY <1>6, <1>7, Quotient
<1> DEFINE y == 500 * Unit * (s.current_iv - s.entry_iv)
           change == y \div s.entry_iv
<1>9. change \in Int
  <2>1. y \in Int
    BY DEF Unit
  <2> HIDE DEF y
  <2> QED
    BY <2>1, Quotient
<1>10. VolatilityMismatch(s) \in {Clamp(-change), Clamp(change), VegaMismatch(s)}
    BY DEF VolatilityMismatch
<1>11. Clamp(-change) \in Int /\ Clamp(change) \in Int
  <2> HIDE DEF change
  <2>1. -change \in Int
    BY <1>9
  <2> QED
    BY <1>9, <2>1, ClampGrows
<1> QED
    BY <1>2, <1>8, <1>10, <1>11

Worse(s, t) ==
    /\ t = [s EXCEPT !.pnl = t.pnl, !.horizon = t.horizon, !.drift = t.drift]
    /\ t.pnl <= s.pnl /\ t.horizon >= s.horizon /\ t.drift >= s.drift

\* Nothing but the loss, the horizon and the drift differs.
LEMMA SameOtherwise ==
    ASSUME NEW s \in ScoreInputs, NEW t \in ScoreInputs, Worse(s, t)
    PROVE  /\ t.delta = s.delta /\ t.delta_low = s.delta_low /\ t.delta_high = s.delta_high
           /\ t.vega = s.vega /\ t.vega_low = s.vega_low /\ t.vega_high = s.vega_high
           /\ t.theta = s.theta /\ t.max_theta = s.max_theta
           /\ t.dte = s.dte /\ t.minimum_dte = s.minimum_dte /\ t.maximum_dte = s.maximum_dte
           /\ t.entry_iv = s.entry_iv /\ t.current_iv = s.current_iv /\ t.view = s.view
           /\ t.maximum_loss = s.maximum_loss
BY DEF Worse, ScoreInputs

\* The score of a worse review is no lower.
LEMMA ScoreGrows ==
    ASSUME NEW s \in ScoreInputs, NEW t \in ScoreInputs, Worse(s, t)
    PROVE  /\ DriftScore(s) \in Int /\ DriftScore(t) \in Int
           /\ DriftScore(s) <= DriftScore(t)
           /\ 2 * Max({0, -s.pnl}) >= s.maximum_loss => 2 * Max({0, -t.pnl}) >= t.maximum_loss
<1> DEFINE loss(x) == Max({0, -x.pnl})
<1>1. /\ s.pnl \in Int /\ t.pnl \in Int /\ t.pnl <= s.pnl
      /\ s.horizon \in Int /\ t.horizon \in Int /\ s.horizon <= t.horizon
      /\ s.drift \in Int /\ t.drift \in Int /\ s.drift <= t.drift
      /\ s.dte \in Int /\ s.maximum_loss \in Nat \ {0}
    BY DEF ScoreInputs, Worse
<1>2. loss(s) \in Nat /\ loss(t) \in Nat /\ loss(s) <= loss(t)
    BY <1>1, LossOfPosition
<1>3. t.maximum_loss = s.maximum_loss /\ t.dte = s.dte
    BY SameOtherwise
<1>4. VegaMismatch(t) = VegaMismatch(s)
    BY SameOtherwise DEF VegaMismatch
<1>5. ExposureMismatch(t) = ExposureMismatch(s)
    BY <1>4, SameOtherwise DEF ExposureMismatch
<1>6. VolatilityMismatch(t) = VolatilityMismatch(s)
    BY <1>4, SameOtherwise DEF VolatilityMismatch
<1>7. ExposureMismatch(s) \in Int /\ VolatilityMismatch(s) \in Int
    BY RestIsNumber
<1>8. /\ Clamp(s.drift * Unit) \in Int /\ Clamp(t.drift * Unit) \in Int
      /\ Clamp(s.drift * Unit) <= Clamp(t.drift * Unit)
  <2>1. s.drift * Unit \in Int /\ t.drift * Unit \in Int /\ s.drift * Unit <= t.drift * Unit
    BY <1>1 DEF Unit
  <2> QED
    BY <2>1, ClampGrows
<1>9. TimePressure(s) \in Int /\ TimePressure(t) \in Int /\ TimePressure(s) <= TimePressure(t)
  <2> DEFINE hs == Clamp(2 * Unit * (s.horizon - 50))
             ht == Clamp(2 * Unit * (t.horizon - 50))
             x == 100 * Unit * (14 - s.dte)
             e == Clamp(x \div 7)
  <2>1. /\ 2 * Unit * (s.horizon - 50) \in Int /\ 2 * Unit * (t.horizon - 50) \in Int
        /\ 2 * Unit * (s.horizon - 50) <= 2 * Unit * (t.horizon - 50)
    BY <1>1 DEF Unit
  <2>2. hs \in Int /\ ht \in Int /\ hs <= ht
    BY <2>1, ClampGrows
  <2>3. x \in Int
    BY <1>1 DEF Unit
  <2>4. e \in Int
    <3> HIDE DEF x
    <3>1. x \div 7 \in Int
      BY <2>3, Quotient
    <3> QED
      BY <3>1, ClampGrows
  <2>5. TimePressure(s) = Max({hs, e}) /\ TimePressure(t) = Max({ht, e})
    BY <1>3 DEF TimePressure
  <2> HIDE DEF hs, ht, e
  <2>6. Max({hs, e}) \in {hs, e} /\ Max({hs, e}) >= hs /\ Max({hs, e}) >= e
    BY <2>2, <2>4, MinOfTwo
  <2>7. Max({ht, e}) \in {ht, e} /\ Max({ht, e}) >= ht /\ Max({ht, e}) >= e
    BY <2>2, <2>4, MinOfTwo
  <2> QED
    BY <2>2, <2>4, <2>5, <2>6, <2>7
<1>10. RiskUtilization(s) \in Int /\ RiskUtilization(t) \in Int /\ RiskUtilization(s) <= RiskUtilization(t)
  <2> DEFINE xs == 250 * Unit * loss(s)
             xt == 250 * Unit * loss(t)
             m == s.maximum_loss
  <2>1. xs \in Int /\ xt \in Int /\ xs <= xt
    <3> HIDE DEF loss
    <3> QED
      BY <1>2 DEF Unit
  <2>2. RiskUtilization(s) = Clamp(xs \div m - 25 * Unit) /\ RiskUtilization(t) = Clamp(xt \div m - 25 * Unit)
    BY <1>3 DEF RiskUtilization
  <2> HIDE DEF xs, xt
  <2>3. xs \div m \in Int /\ xt \div m \in Int /\ xs \div m <= xt \div m
    BY <1>1, <2>1, QuotientGrows
  <2>4. /\ xs \div m - 25 * Unit \in Int /\ xt \div m - 25 * Unit \in Int
        /\ xs \div m - 25 * Unit <= xt \div m - 25 * Unit
    BY <2>3 DEF Unit
  <2> QED
    BY <2>2, <2>4, ClampGrows
<1> DEFINE raw(x) == 35 * Clamp(x.drift * Unit) + 25 * ExposureMismatch(x)
                     + 15 * TimePressure(x) + 10 * VolatilityMismatch(x) + 15 * RiskUtilization(x)
<1>11. raw(s) \in Int /\ raw(t) \in Int /\ raw(s) <= raw(t)
    BY <1>5, <1>6, <1>7, <1>8, <1>9, <1>10
<1>12. DriftScore(s) = DisplayScore(raw(s) \div 100) /\ DriftScore(t) = DisplayScore(raw(t) \div 100)
    BY DEF DriftScore
<1>13. raw(s) \div 100 \in Int /\ raw(t) \div 100 \in Int /\ raw(s) \div 100 <= raw(t) \div 100
  <2> HIDE DEF raw
  <2> QED
    BY <1>11, QuotientGrows
<1>14. DriftScore(s) \in Int /\ DriftScore(t) \in Int /\ DriftScore(s) <= DriftScore(t)
  <2> HIDE DEF raw
  <2> QED
    BY <1>12, <1>13, RoundingGrows
<1>15. 2 * loss(s) >= s.maximum_loss => 2 * loss(t) >= t.maximum_loss
  <2> HIDE DEF loss
  <2> QED
    BY <1>1, <1>2, <1>3
<1> QED
    BY <1>14, <1>15

\* A gate that closes the milder review closes the worse one.
LEMMA GatesGrow ==
    ASSUME NEW v \in Reviews, NEW w \in Reviews, NoBetter(v, w),
           MandatoryCloseCode(v.gates, v.scores) # "NONE"
    PROVE  MandatoryCloseCode(w.gates, w.scores) # "NONE"
<1> DEFINE lost(x) == 2 * Max({0, -x.scores.pnl}) >= x.scores.maximum_loss
           near(x) == x.gates.short_dte <= 7
           broken(x) == ~x.gates.bounded
           rules(x) == << <<x.gates.strategy_close, "STRATEGY_CLOSE">>,
                          <<x.gates.verified_invalidation, "VERIFIED_INVALIDATION">>,
                          <<x.gates.price_confirmation_broken, "PRICE_CONFIRMATION_BROKEN">>,
                          <<lost(x), "LOSS_LIMIT_REACHED">>,
                          <<near(x), "SHORT_DTE_LIMIT">>,
                          <<x.gates.ex_dividend, "SHORT_CALL_EX_DIVIDEND">>,
                          <<broken(x), "DEFINED_RISK_BROKEN">>,
                          <<x.gates.risk_cap_exceeded, "RISK_CAP_EXCEEDED">>,
                          <<x.gates.contest_end, "CONTEST_END_CLOSE">>,
                          <<x.gates.weekend_failed, "WEEKEND_GATE_FAILED">> >>
           sets(x) == \/ x.gates.strategy_close \/ x.gates.verified_invalidation
                      \/ x.gates.price_confirmation_broken \/ lost(x) \/ near(x)
                      \/ x.gates.ex_dividend \/ broken(x) \/ x.gates.risk_cap_exceeded
                      \/ x.gates.contest_end \/ x.gates.weekend_failed
<1>1. ASSUME NEW x PROVE MandatoryCloseCode(x.gates, x.scores) # "NONE" <=> sets(x)
  <2>1. MandatoryCloseCode(x.gates, x.scores) = FirstOf(rules(x))
    BY DEF MandatoryCloseCode
  <2> HIDE DEF lost, near, broken
  <2>2. DOMAIN rules(x) = 1 .. 10
    OBVIOUS
  <2>3. \A i \in 1 .. 10 : rules(x)[i][2] # "NONE"
    OBVIOUS
  <2>4. (\E i \in 1 .. 10 : rules(x)[i][1]) <=> sets(x)
    OBVIOUS
  <2>5. FirstOf(rules(x)) # "NONE" <=> \E i \in DOMAIN rules(x) : rules(x)[i][1]
    <3>1. DOMAIN rules(x) \in SUBSET Nat
      BY <2>2
    <3>2. \A i \in DOMAIN rules(x) : rules(x)[i][2] # "NONE"
      BY <2>2, <2>3
    <3> HIDE DEF rules
    <3> QED
      BY <3>1, <3>2, SomeRuleApplies
  <2> QED
    <3> HIDE DEF rules, sets
    <3> QED
      BY <2>1, <2>2, <2>4, <2>5
<1>2. v.scores \in ScoreInputs /\ w.scores \in ScoreInputs /\ Worse(v.scores, w.scores)
    BY ReviewAssumption DEF NoBetter, Worse
<1>3. lost(v) => lost(w)
    BY <1>2, ScoreGrows
<1>4. near(v) => near(w)
    BY ReviewAssumption DEF NoBetter
<1>5. broken(v) => broken(w)
    BY DEF NoBetter
<1>6. \A alarm \in Alarms : v.gates[alarm] => w.gates[alarm]
    BY DEF NoBetter
<1> HIDE DEF lost, near, broken
<1>7. sets(v)
    BY <1>1
<1>8. sets(w)
    BY <1>3, <1>4, <1>5, <1>6, <1>7 DEF Alarms
<1> QED
  <2> HIDE DEF sets
  <2> QED
    BY <1>1, <1>8

\* A review that is worse in every input closes when the better one does: the score of
\* evaluate_position grows with the loss, the age and the fall of the thesis.
THEOREM WorseStillCloses ==
    question \in Questions => CloseIsMonotone
<1> SUFFICES ASSUME question \in Questions, question.about = "REVIEW",
                    EvaluateAssessment(question.review) = "CLOSE",
                    NEW w \in Reviews, NoBetter(question.review, w)
             PROVE  EvaluateAssessment(w) = "CLOSE"
    BY DEF CloseIsMonotone
<1> DEFINE v == question.review
<1>1. v \in Reviews
    BY DEF Questions
<1>2. EvaluateAssessment(v) = "CLOSE" /\ NoBetter(v, w)
    OBVIOUS
<1> HIDE DEF v
<1>3. /\ ~(v.execution_failure \/ ~v.complete)
      /\ \/ MandatoryCloseCode(v.gates, v.scores) # "NONE"
         \/ /\ v.evidence_state # "UNKNOWN"
            /\ v.thesis_status = "BROKEN" \/ DriftScore(v.scores) >= 70
    BY <1>2 DEF EvaluateAssessment
<1>4. ~(w.execution_failure \/ ~w.complete) /\ w.evidence_state = v.evidence_state
    BY <1>2, <1>3 DEF NoBetter
<1>5. CASE MandatoryCloseCode(v.gates, v.scores) # "NONE"
  <2>1. MandatoryCloseCode(w.gates, w.scores) # "NONE"
    BY <1>1, <1>2, <1>5, GatesGrow
  <2> QED
    BY <1>4, <2>1 DEF EvaluateAssessment
<1>6. CASE v.evidence_state # "UNKNOWN" /\ (v.thesis_status = "BROKEN" \/ DriftScore(v.scores) >= 70)
  <2>1. v.thesis_status = "BROKEN" => w.thesis_status = "BROKEN"
    BY <1>1, <1>2, ReviewAssumption DEF NoBetter, StatusRank
  <2>2. DriftScore(v.scores) >= 70 => DriftScore(w.scores) >= 70
    <3>1. v.scores \in ScoreInputs /\ w.scores \in ScoreInputs /\ Worse(v.scores, w.scores)
      BY <1>1, <1>2, ReviewAssumption DEF NoBetter, Worse
    <3>2. /\ DriftScore(v.scores) \in Int /\ DriftScore(w.scores) \in Int
          /\ DriftScore(v.scores) <= DriftScore(w.scores)
      BY <3>1, ScoreGrows
    <3> QED
      BY <3>2
  <2> QED
    BY <1>4, <1>6, <2>1, <2>2 DEF EvaluateAssessment
<1> QED
    BY <1>3, <1>5, <1>6

-----------------------------------------------------------------------------
(* Orders keep their loss                                                  *)

\* The sum of a function is what adding its values one at a time gives (SumFunction).
LEMMA SumIsAdded ==
    ASSUME NEW f, IsFiniteSet(DOMAIN f)
    PROVE  \E g : Adds(g, f, DOMAIN f) /\ SumFunction(f) = g[DOMAIN f]
<1> DEFINE g == CHOOSE g : Adds(g, f, DOMAIN f)
<1>1. Adds(g, f, DOMAIN f)
    BY AddsExists
<1>2. SumFunction(f) = g[DOMAIN f]
    BY DEF SumFunction, SumFunctionOnSet, FoldFunctionOnSet, MapThenFoldSet, Adds, Pick
<1> HIDE DEF g
<1> QED
    BY <1>1, <1>2

\* A sum of numbers is a number; one of naturals is at least each of them.
LEMMA SumIsNumber ==
    ASSUME NEW S, IsFiniteSet(S), NEW f, DOMAIN f = S, \A i \in S : f[i] \in Int
    PROVE  /\ SumFunction(f) \in Int
           /\ (\A i \in S : f[i] >= 0) => \A i \in S : SumFunction(f) >= f[i]
<1>1. IsFiniteSet(S)
    OBVIOUS
<1>2. PICK g : Adds(g, f, S) /\ SumFunction(f) = g[S]
    BY <1>1, SumIsAdded
<1>3. /\ g[{}] = 0
      /\ \A s \in SUBSET S : g[s] \in Int /\ \A x \in s : g[s] = f[x] + g[s \ {x}]
  BY <1>1, <1>2, AnyElementFirst
<1>4. ASSUME \A i \in S : f[i] >= 0 PROVE \A i \in S : SumFunction(f) >= f[i]
  <2> DEFINE Good == {s \in SUBSET S : g[s] >= 0}
  <2>1. ASSUME NEW s \in SUBSET S, \A t \in SUBSET s : t # s => t \in Good
        PROVE  s \in Good
    <3>1. CASE s = {}
      BY <1>3, <3>1
    <3>2. CASE s # {}
      <4>1. PICK x \in s : TRUE
        BY <3>2
      <4>2. s \ {x} \in Good
        BY <2>1
      <4>3. g[s \ {x}] >= 0 /\ g[s \ {x}] \in Int /\ f[x] \in Int /\ f[x] >= 0
        BY <1>3, <1>4, <4>2
      <4>4. g[s] = f[x] + g[s \ {x}]
        BY <1>3
      <4>5. g[s] >= 0
        BY <4>3, <4>4
      <4> QED
        BY <4>5
    <3> QED
      BY <3>1, <3>2
  <2>2. \A s \in SUBSET S : s \in Good
    <3> HIDE DEF Good
    <3> QED
      BY <1>1, <2>1, SubsetInduction
  <2>3. ASSUME NEW i \in S PROVE SumFunction(f) >= f[i]
    <3>1. S \ {i} \in SUBSET S /\ S \in SUBSET S
      OBVIOUS
    <3>2. g[S \ {i}] >= 0 /\ g[S \ {i}] \in Int
      BY <1>3, <2>2, <3>1
    <3>3. g[S] = f[i] + g[S \ {i}] /\ f[i] \in Int
      BY <1>3, <3>1
    <3> QED
      BY <1>2, <3>2, <3>3
  <2> QED
    BY <2>3
<1> QED
  <2>1. S \in SUBSET S
    OBVIOUS
  <2>2. SumFunction(f) \in Int
    BY <1>2, <1>3, <2>1
  <2> QED
    BY <1>4, <2>2

\* Quotes of n legs, each of them two numbers.
Book(q, n) == DOMAIN q = 1 .. n /\ \A i \in 1 .. n : q[i] \in Ticks

\* The best and the worst price of a package are numbers (NetLow, NetHigh).
LEMMA NetIsNumber ==
    ASSUME NEW n \in Nat, NEW legs, DOMAIN legs = 1 .. n, NEW q, Book(q, n)
    PROVE  NetLow(legs, q) \in Int /\ NetHigh(legs, q) \in Int
<1> DEFINE low == [i \in 1 .. n |-> IF legs[i].buys THEN q[i].bid ELSE -q[i].ask]
           high == [i \in 1 .. n |-> IF legs[i].buys THEN q[i].ask ELSE -q[i].bid]
<1>1. \A i \in 1 .. n : q[i].bid \in Int /\ q[i].ask \in Int
    BY DEF Book, Ticks
<1>2. /\ DOMAIN low = 1 .. n /\ \A i \in 1 .. n : low[i] \in Int
      /\ DOMAIN high = 1 .. n /\ \A i \in 1 .. n : high[i] \in Int
    BY <1>1
<1>3. NetLow(legs, q) = SumFunction(low) /\ NetHigh(legs, q) = SumFunction(high)
    BY DEF NetLow, NetHigh
<1>4. IsFiniteSet(1 .. n)
    BY FS_Interval
<1> HIDE DEF low, high
<1> QED
    BY <1>2, <1>4, <1>3, SumIsNumber

\* The spread of live quotes is not negative (PackageSpread).
LEMMA SpreadIsNatural ==
    ASSUME NEW n \in Nat \ {0}, NEW q, Book(q, n), \A i \in 1 .. n : QuoteUsable(q[i])
    PROVE  PackageSpread(q) \in Nat
<1> DEFINE w == [i \in 1 .. n |-> q[i].ask - q[i].bid]
           m == [i \in 1 .. n |-> q[i].ask + q[i].bid]
           width == SumFunction(w)
           middle == SumFunction(m)
           a == -200 * width
<1>1. \A i \in 1 .. n : q[i].bid \in Int /\ q[i].ask \in Int /\ 0 < q[i].bid /\ q[i].bid <= q[i].ask
    BY DEF Book, Ticks, QuoteUsable
<1>2. /\ DOMAIN w = 1 .. n /\ \A i \in 1 .. n : w[i] \in Int /\ w[i] >= 0
      /\ DOMAIN m = 1 .. n /\ \A i \in 1 .. n : m[i] \in Int /\ m[i] > 0
    BY <1>1
<1>3. 1 \in 1 .. n /\ IsFiniteSet(1 .. n)
    BY FS_Interval
<1>4. PackageSpread(q) = -(a \div middle)
    BY DEF PackageSpread, Book
<1>5. width \in Int /\ width >= w[1] /\ w[1] \in Int /\ w[1] >= 0
  <2> HIDE DEF w
  <2> QED
    BY <1>2, <1>3, SumIsNumber
<1>6. middle \in Int /\ middle >= m[1] /\ m[1] \in Int /\ m[1] > 0
  <2> HIDE DEF m
  <2>1. \A i \in 1 .. n : m[i] >= 0
    BY <1>2
  <2> QED
    BY <1>2, <1>3, <2>1, SumIsNumber
<1> HIDE DEF width, middle, w, m
<1>7. a \in Int /\ a <= 0 /\ middle \in Nat \ {0}
    BY <1>5, <1>6
<1> HIDE DEF a
<1>8. a \div middle \in Int /\ ~(1 <= a \div middle)
  <2>1. ~(1 * middle <= a)
    BY <1>7
  <2> QED
    BY <1>7, <2>1, Quotient
<1> QED
    BY <1>4, <1>8

\* A set of numbers with a bound has a greatest one.
LEMMA MaxIs ==
    ASSUME NEW k \in Nat, NEW S \in SUBSET (0 .. k), S # {}
    PROVE  Max(S) \in S /\ \A y \in S : y <= Max(S)
<1> DEFINE T == {k - x : x \in S}
<1>1. T \in SUBSET Nat /\ T # {}
  <2>1. ASSUME NEW x \in S PROVE k - x \in Nat
    BY <2>1
  <2>2. T # {}
    OBVIOUS
  <2> QED
    BY <2>1, <2>2
<1>2. PICK t \in T : \A u \in T : t <= u
  <2> HIDE DEF T
  <2> QED
    BY <1>1, LeastNumber
<1>3. PICK x \in S : t = k - x
    BY <1>2
<1>4. ASSUME NEW y \in S PROVE x >= y
  <2>1. k - x <= k - y
    BY <1>2, <1>3
  <2> QED
    BY <2>1
<1>5. \E z \in S : \A y \in S : z >= y
    BY <1>4
<1>6. Max(S) \in S /\ \A y \in S : Max(S) >= y
    BY <1>5 DEF Max
<1> QED
    BY <1>6

\* A replacement never asks for more than the approved maximum (NextLimit).
LEMMA NextLimitWithin ==
    ASSUME NEW e, e.maximum \in Int, NEW n \in Nat, DOMAIN e.legs = 1 .. n, NEW q, Book(q, n),
           NEW current \in Int
    PROVE  NextLimit(e, current, q) \in Int /\ NextLimit(e, current, q) <= e.maximum
<1> DEFINE width == NetHigh(e.legs, q) - NetLow(e.legs, q) + 5
           tenth == width \div 10
           step == Max({1, tenth})
           next == current + step
<1>1. width \in Int
  <2>1. NetLow(e.legs, q) \in Int /\ NetHigh(e.legs, q) \in Int
    BY NetIsNumber
  <2> QED
    BY <2>1
<1>2. tenth \in Int
  <2> HIDE DEF width
  <2> QED
    BY <1>1, Quotient
<1>3. step \in Int
  <2> HIDE DEF tenth
  <2>1. step \in {1, tenth}
    BY <1>2, MaxWith
  <2> QED
    BY <1>2, <2>1
<1>4. next \in Int
  <2> HIDE DEF step
  <2> QED
    BY <1>3
<1>5. NextLimit(e, current, q) = Min({e.maximum, next})
    BY DEF NextLimit, Increment
<1> HIDE DEF next
<1>6. Min({e.maximum, next}) \in {e.maximum, next}
    BY <1>4, MinOfTwo
<1>7. Min({e.maximum, next}) <= e.maximum
    BY <1>4, MinOfTwo
<1> QED
    BY <1>4, <1>5, <1>6, <1>7

\* An order of n legs with bounds on its limit: what the ladder needs to know of it.
Bounded(e, n) ==
    /\ n \in {2, 4} /\ DOMAIN e.legs = 1 .. n
    /\ e.minimum \in Int /\ e.maximum \in Int /\ e.minimum <= e.maximum

\* The quotes of the evidence of a bounded search are books.
LEMMA BooksAreBooks ==
    ASSUME NEW e, NEW n, Bounded(e, n), NEW q \in BooksOf(e)
    PROVE  Book(q, n)
<1>1. PICK b \in Books : q = [i \in 1 .. n |-> b[i]]
    BY DEF BooksOf, Bounded
<1>2. b \in [1 .. 4 -> Ticks]
    BY BookAssumption
<1>3. n \in {2, 4}
    BY DEF Bounded
<1>4. \A i \in 1 .. n : i \in 1 .. 4
    BY <1>3
<1> QED
    BY <1>1, <1>2, <1>4 DEF Book

\* No limit the ladder reaches is above the approved maximum (Climb).
LEMMA LimitsWithin ==
    ASSUME NEW e, NEW n, Bounded(e, n)
    PROVE  \A limit \in Limits(e) : limit \in Int /\ limit <= e.maximum
<1> DEFINE Within(S) == \A limit \in S : limit \in Int /\ limit <= e.maximum
<1>1. ASSUME NEW S, Within(S) PROVE Within(Climb(e, S, BooksOf(e)))
  <2> SUFFICES ASSUME NEW limit \in Climb(e, S, BooksOf(e)), limit \notin S
               PROVE  limit \in Int /\ limit <= e.maximum
    BY <1>1
  <2>1. PICK c \in S \X BooksOf(e) : limit = NextLimit(e, c[1], c[2])
    BY DEF Climb
  <2>2. c[1] \in Int /\ Book(c[2], n)
    BY <1>1, <2>1, BooksAreBooks
  <2>3. n \in Nat /\ DOMAIN e.legs = 1 .. n /\ e.maximum \in Int
    BY DEF Bounded
  <2> QED
    BY <2>1, <2>2, <2>3, NextLimitWithin
<1>2. Within({e.minimum})
    BY DEF Bounded
<1> QED
  <2> HIDE DEF Within
  <2>1. Within(Limits(e))
    BY <1>1, <1>2 DEF Limits
  <2> QED
    BY <2>1 DEF Within

\* The repository takes every limit the service sends while the quotes are fresh: the checks
\* of one imply those of the other (_replacement_attempt, _validate_replacement_attempt).
LEMMA LadderIsAccepted ==
    ASSUME NEW e, NEW n, Bounded(e, n)
    PROVE  SentIsAccepted(e)
<1> SUFFICES ASSUME NEW limit \in Limits(e), NEW q \in BooksOf(e),
                    ReplacementFailure(e, limit, q) = "NONE",
                    NEW delay \in {0, Fresh - Max({q[i].age : i \in DOMAIN q})}
             PROVE  ReplacementAccepted(e, limit, NextLimit(e, limit, q), q, delay)
    BY DEF SentIsAccepted
<1> DEFINE low == NetLow(e.legs, q)
           high == NetHigh(e.legs, q)
           next == NextLimit(e, limit, q)
           g1 == limit + 1 > e.maximum
           g2 == \E i \in DOMAIN q : ~QuoteUsable(q[i])
           g3 == e.action = "ROLL" /\ ~RollQuotesAuthorized(e, q)
           g4 == high <= low \/ Abs(low) >= PayoffWidth(e.legs) \/ Abs(high) >= PayoffWidth(e.legs)
           g5 == next = 0
           g6 == next <= limit
           rules == << <<g1, "REPLACEMENT_LIMIT_CAPPED">>, <<g2, "REPLACEMENT_QUOTE_INVALID">>,
                       <<g3, "ROLL_LIQUIDITY_DERIORATED">>,
                       <<g4, "REPLACEMENT_QUOTED_WIDTH_INVALID">>,
                       <<g5, "REPLACEMENT_LIMIT_ZERO">>, <<g6, "REPLACEMENT_LIMIT_CAPPED">> >>
<1>1. FirstOf(rules) = "NONE"
    BY DEF ReplacementFailure
<1>2. ~g2 /\ ~g5 /\ ~g6
  <2> HIDE DEF g1, g2, g3, g4, g5, g6
  <2>1. /\ DOMAIN rules = 1 .. 6
        /\ rules[2][1] = g2 /\ rules[5][1] = g5 /\ rules[6][1] = g6
    OBVIOUS
  <2>2. \A i \in DOMAIN rules : rules[i][2] # "NONE"
    OBVIOUS
  <2> HIDE DEF rules
  <2>3. DOMAIN rules \in SUBSET Nat
    BY <2>1
  <2>4. \A i \in DOMAIN rules : ~rules[i][1]
    BY <1>1, <2>2, <2>3, SomeRuleApplies
  <2> QED
    BY <2>1, <2>4
<1>3. Book(q, n) /\ n \in {2, 4} /\ DOMAIN q = 1 .. n
    BY BooksAreBooks DEF Bounded, Book
<1>4. next \in Int /\ next <= e.maximum /\ limit \in Int
  <2>1. limit \in Int
    BY LimitsWithin
  <2>2. n \in Nat /\ DOMAIN e.legs = 1 .. n /\ e.maximum \in Int
    BY DEF Bounded
  <2> QED
    BY <1>3, <2>1, <2>2, NextLimitWithin
<1>5. \A i \in 1 .. n : /\ q[i].age \in 0 .. 30 /\ q[i].got <= q[i].age
  <2> SUFFICES ASSUME NEW i \in 1 .. n PROVE q[i].age \in 0 .. 30 /\ q[i].got <= q[i].age
    OBVIOUS
  <2>1. QuoteUsable(q[i]) /\ q[i].age \in Int /\ q[i].got \in Int
    BY <1>2, <1>3 DEF Book, Ticks
  <2> QED
    BY <2>1 DEF QuoteUsable, Fresh
<1> DEFINE ages == {q[i].age : i \in DOMAIN q}
<1>6. Max(ages) \in ages /\ \A y \in ages : y <= Max(ages)
  <2>1. ages \in SUBSET (0 .. 30) /\ ages # {}
    <3>1. ASSUME NEW y \in ages PROVE y \in 0 .. 30
      BY <1>3, <1>5
    <3>2. 1 \in 1 .. n
      BY <1>3
    <3>3. ages # {}
      BY <1>3, <3>2
    <3> QED
      BY <3>1, <3>3
  <2> HIDE DEF ages
  <2> QED
    BY <2>1, MaxIs
<1>7. \A i \in 1 .. n : q[i].age + delay <= Fresh
  <2> SUFFICES ASSUME NEW i \in 1 .. n PROVE q[i].age + delay <= Fresh
    OBVIOUS
  <2>1. q[i].age \in ages /\ q[i].age \in 0 .. 30
    BY <1>3, <1>5
  <2>2. Max(ages) \in 0 .. 30
    BY <1>3, <1>5, <1>6
  <2>3. q[i].age <= Max(ages)
    BY <1>6, <2>1
  <2>4. delay = 0 \/ delay = 30 - Max(ages)
    BY DEF Fresh
  <2> HIDE DEF ages
  <2> QED
    BY <2>1, <2>2, <2>3, <2>4 DEF Fresh
<1>8. \A i, j \in 1 .. n : q[i].age - q[j].age <= Fresh
    BY <1>5 DEF Fresh
<1>9. limit < next /\ next # 0
    BY <1>2, <1>4
<1> HIDE DEF next
<1> QED
    BY <1>3, <1>4, <1>5, <1>7, <1>8, <1>9 DEF ReplacementAccepted, next

\* A loss is at most the top limit times the quantity.
LEMMA LimitTimesQuantity ==
    ASSUME NEW limit \in Int, NEW top \in Int, NEW n \in Nat, limit <= top
    PROVE  limit * n \in Int /\ top * n \in Int /\ limit * n <= top * n
OBVIOUS

\* More cash, no more loss (_vertical_max_loss).
LEMMA MoreCashLosesLess ==
    ASSUME NEW v \in Spreads, NEW less \in Int, NEW more \in Int, less <= more
    PROVE  /\ VerticalMaxLoss(v, less) \in Int /\ VerticalMaxLoss(v, more) \in Int
           /\ VerticalMaxLoss(v, more) <= VerticalMaxLoss(v, less)
<1> DEFINE debit == IF v.right = "C" THEN v.long_low ELSE ~v.long_low
           wide == Width(v) * v.quantity
           owed == IF debit THEN 0 ELSE wide
           a == -(less - owed)
           b == -(more - owed)
<1>1. owed \in Int
  <2>1. Width(v) \in Int /\ v.quantity \in Int
    BY DEF Spreads, Width
  <2>2. wide \in Int
    BY <2>1
  <2> HIDE DEF wide
  <2> QED
    BY <2>2
<1>2. VerticalMaxLoss(v, less) = Max({0, a}) /\ VerticalMaxLoss(v, more) = Max({0, b})
    BY DEF VerticalMaxLoss
<1>3. a \in Int /\ b \in Int /\ b <= a
  <2> HIDE DEF owed
  <2> QED
    BY <1>1
<1> HIDE DEF a, b
<1>4. Max({0, a}) \in {0, a} /\ Max({0, a}) >= 0 /\ Max({0, a}) >= a
    BY <1>3, MaxWith
<1>5. Max({0, b}) \in {0, b}
    BY <1>3, MaxWith
<1> QED
    BY <1>2, <1>3, <1>4, <1>5

\* What has been paid for the position so far is a number (Cash).
LEMMA CashIsNumber ==
    ASSUME NEW x \in Positions
    PROVE  Cash(x) \in Int
<1> DEFINE f == [i \in DOMAIN x.fills |-> x.fills[i].cash]
<1>1. x.fills \in Seq(Fills)
    BY PositionAssumption
<1>2. Len(x.fills) \in Nat /\ DOMAIN x.fills = 1 .. Len(x.fills)
    BY <1>1
<1>3. IsFiniteSet(DOMAIN x.fills)
    BY <1>2, FS_Interval
<1>4. ASSUME NEW i \in DOMAIN x.fills PROVE f[i] \in Int
  <2>1. x.fills[i] \in Fills
    BY <1>1
  <2> QED
    BY <2>1 DEF Fills
<1>5. DOMAIN f = DOMAIN x.fills
    OBVIOUS
<1> HIDE DEF f
<1> QED
    BY <1>3, <1>4, <1>5, SumIsNumber DEF Cash, f

\* Two legs and two more are four (\\o of the legs and of the quotes of a roll).
LEMMA TwoAndTwo ==
    ASSUME NEW a, NEW b, a = [i \in 1 .. 2 |-> a[i]], b = [i \in 1 .. 2 |-> b[i]]
    PROVE  /\ Len(a) = 2 /\ Len(a \o b) = 4 /\ DOMAIN (a \o b) = 1 .. 4
           /\ \A i \in 1 .. 4 : (a \o b)[i] \in {a[1], a[2], b[1], b[2]}
<1> DEFINE S == {a[1], a[2], b[1], b[2]}
<1>1. a \in [1 .. 2 -> S] /\ b \in [1 .. 2 -> S]
  <2>1. \A i \in 1 .. 2 : i = 1 \/ i = 2
    OBVIOUS
  <2>2. \A i \in 1 .. 2 : a[i] \in S /\ b[i] \in S
    BY <2>1
  <2> HIDE DEF S
  <2> QED
    BY <2>2
<1> HIDE DEF S
<1>2. a \in Seq(S) /\ b \in Seq(S)
    BY <1>1, SeqDef
<1>3. Len(a) = 2 /\ Len(b) = 2
    BY <1>1, <1>2
<1>4. a \o b \in Seq(S) /\ Len(a \o b) = 4
    BY <1>2, <1>3, ConcatProperties
<1>5. DOMAIN (a \o b) = 1 .. 4 /\ \A i \in 1 .. 4 : (a \o b)[i] \in S
    BY <1>4
<1> QED
    BY <1>3, <1>4, <1>5 DEF S

\* A vertical has two legs.
LEMMA LegsAreTwo ==
    ASSUME NEW v, NEW opening
    PROVE  Legs(v, opening) = [i \in 1 .. 2 |-> Legs(v, opening)[i]]
BY DEF Legs

\* A close is an order the envelope admits and the repository takes, and it pays at least what
\* the review counted on.
LEMMA CloseKeepsLoss ==
    ASSUME NEW x \in Positions, NEW o \in Sightings, NEW claims, Acquirable(x, o, claims),
           NEW e, e = ExitOrder(x, o, claims, "CLOSE"), e.orderable
    PROVE  /\ EnvelopeValid(e) /\ SentIsAccepted(e)
           /\ \A limit \in Limits(e) : -(limit * e.quantity) >= CloseCash(x.position, o.quotes)
<1> DEFINE legs == Legs(x.position, FALSE)
           q == o.quotes
           low == LowestLimit(legs, q)
           high == NetHigh(legs, q)
<1>1. /\ e.action = "CLOSE" /\ e.legs = legs /\ e.quantity = x.position.quantity
      /\ e.minimum = low /\ e.maximum = high /\ e.loss = x.loss
      /\ BoundsValid(legs, q)
    BY DEF ExitOrder
<1>2. /\ x.position.quantity \in 1 .. MaxOptionQuantity /\ x.loss \in 1 .. MaxApprovedRisk
    BY DEF Acquirable, ContextValid, Vertical
<1>3. DOMAIN legs = 1 .. 2 /\ Len(legs) = 2
  <2>1. legs = [i \in 1 .. 2 |-> legs[i]]
    BY LegsAreTwo
  <2> HIDE DEF legs
  <2> QED
    BY <2>1, TwoAndTwo
<1>4. Book(q, 2)
    BY SightingAssumption DEF Book
<1> HIDE DEF legs
<1>5. NetLow(legs, q) \in Int /\ high \in Int
  <2>1. 2 \in Nat
    OBVIOUS
  <2> QED
    BY <1>3, <1>4, <2>1, NetIsNumber
<1>6. low \in Int
  <2> DEFINE sum == NetLow(legs, q) + NetHigh(legs, q)
  <2>1. sum \in Int
    BY <1>5
  <2>2. low = sum \div 2
    BY DEF LowestLimit
  <2> HIDE DEF sum, low
  <2> QED
    BY <2>1, <2>2, Quotient
<1>7. low <= high
    BY <1>1 DEF BoundsValid
<1> HIDE DEF low, high, q
<1>8. Bounded(e, 2)
    BY <1>1, <1>3, <1>5, <1>6, <1>7 DEF Bounded
<1>9. EnvelopeValid(e)
    BY <1>1, <1>2, <1>3, <1>7 DEF EnvelopeValid
<1>10. ASSUME NEW limit \in Limits(e) PROVE -(limit * e.quantity) >= CloseCash(x.position, o.quotes)
  <2>1. limit \in Int /\ limit <= high
    BY <1>1, <1>8, LimitsWithin
  <2>2. e.quantity \in Nat /\ e.quantity = x.position.quantity
    BY <1>1, <1>2 DEF MaxOptionQuantity
  <2>3. limit * e.quantity \in Int /\ high * e.quantity \in Int /\ limit * e.quantity <= high * e.quantity
    BY <1>5, <2>1, <2>2, LimitTimesQuantity
  <2>4. CloseCash(x.position, o.quotes) = -(high * e.quantity)
    BY <2>2 DEF CloseCash, high, legs, q
  <2> DEFINE u == limit * e.quantity
             w == high * e.quantity
  <2> HIDE DEF u, w
  <2>5. -u >= -w
    BY <2>3 DEF u, w
  <2> QED
    BY <2>4, <2>5 DEF u, w
<1> QED
    BY <1>8, <1>9, <1>10, LadderIsAccepted

\* A review that rolls has picked a roll that is open to it and within the budget.
LEMMA RollIsPicked ==
    ASSUME NEW x, NEW o, NEW claims, EvaluateAssessment(Review(x, o, claims)) = "ROLL",
           NEW c, c = CHOOSE k \in SelectedRoll(x, o, claims) : TRUE
    PROVE  /\ ~PilotApplies(x)
           /\ c.spread <= c.max_spread /\ c.debit <= c.max_debit /\ c.within_budget
           /\ \E r \in o.rolls : \E scores : c = RollCandidate(x, o, r, scores)
<1> DEFINE v == Review(x, o, claims)
           rolls == SelectedRoll(x, o, claims)
           roll == IF rolls = {} THEN NoRoll ELSE CHOOSE k \in rolls : TRUE
<1>1. v.roll = roll
    BY DEF Review
<1>2. RollIsEligible(v, DriftScore(v.scores))
  <2> HIDE DEF v
  <2> QED
    BY DEF EvaluateAssessment, v
<1> HIDE DEF v
<1>3. /\ roll.valid /\ roll.spread <= roll.max_spread /\ roll.debit <= roll.max_debit
      /\ roll.within_budget
    BY <1>1, <1>2 DEF RollIsEligible
<1>4. rolls # {}
  <2>1. ~NoRoll.valid
    BY DEF NoRoll
  <2> HIDE DEF rolls
  <2> QED
    BY <1>3, <2>1
<1>5. roll = c /\ c \in rolls
  <2> HIDE DEF rolls
  <2> QED
    BY <1>4 DEF rolls
<1>6. ~PilotApplies(x) /\ c \in RollsInOrder(x, o, Scores(x, o, EvidenceDrift(claims)))
    BY <1>5 DEF SelectedRoll
<1>7. \E r \in o.rolls : \E scores : c = RollCandidate(x, o, r, scores)
    BY <1>6 DEF RollsInOrder
<1> QED
    BY <1>3, <1>5, <1>6, <1>7

\* A roll is an order the envelope admits and the repository takes, and whatever it fills at
\* the spread it leaves loses no more than was approved, and no more than the cap.
LEMMA RollKeepsLoss ==
    ASSUME NEW x \in Positions, NEW o \in Sightings, NEW claims, Acquirable(x, o, claims),
           EvaluateAssessment(Review(x, o, claims)) = "ROLL",
           NEW e, e = ExitOrder(x, o, claims, "ROLL"), e.orderable
    PROVE  /\ EnvelopeValid(e) /\ SentIsAccepted(e)
           /\ \A limit \in Limits(e) : LossAtLimit(e, limit) <= Min({x.loss, x.cap})
<1> DEFINE c == CHOOSE k \in SelectedRoll(x, o, claims) : TRUE
<1>1. /\ ~PilotApplies(x)
      /\ c.spread <= c.max_spread /\ c.debit <= c.max_debit /\ c.within_budget
      /\ \E r \in o.rolls : \E scores : c = RollCandidate(x, o, r, scores)
    BY RollIsPicked
<1>1a. PICK r \in o.rolls : \E scores : c = RollCandidate(x, o, r, scores)
    BY <1>1
<1>2. PICK scores : c = RollCandidate(x, o, r, scores)
    BY <1>1a
<1> DEFINE legs == RollLegs(x, r)
           q == o.quotes \o r.quotes
           low == LowestLimit(legs, q)
           high == NetHigh(legs, q)
           most == Min({x.loss, x.cap})
           n == x.position.quantity
           cash == -(high * n)
<1>3. /\ c.target = r /\ c.spread = PackageSpread(q) /\ c.max_spread = x.spread
      /\ c.debit = Max({0, -cash}) /\ c.max_debit = most
      /\ c.within_budget = (VerticalMaxLoss(r.position, Cash(x) + cash) <= most)
  <2> HIDE DEF c
  <2> DEFINE reduction == RollCandidate(x, o, r, scores).drift_reduction
             valid == RollCandidate(x, o, r, scores).valid
             free == RollCandidate(x, o, r, scores).no_prior_roll_today
             extension == RollCandidate(x, o, r, scores).extension
  <2>1. RollCandidate(x, o, r, scores) =
          [target |-> r, valid |-> valid, drift_reduction |-> reduction, extension |-> extension,
           spread |-> PackageSpread(q), max_spread |-> x.spread,
           debit |-> Max({0, -cash}), max_debit |-> most,
           within_budget |-> VerticalMaxLoss(r.position, Cash(x) + cash) <= most,
           no_prior_roll_today |-> free]
    BY DEF RollCandidate, RollCash
  <2> HIDE DEF reduction, valid, free, extension, q, cash, most
  <2> QED
    BY <1>2, <2>1
<1>4. /\ e.action = "ROLL" /\ e.legs = legs /\ e.quantity = n
      /\ e.minimum = low /\ e.maximum = high /\ e.loss = x.loss
      /\ e.spread = PackageSpread(q) /\ e.max_spread = x.spread
      /\ e.debit = Max({0, -cash}) /\ e.max_debit = most
      /\ e.after = r.position /\ e.cash = Cash(x)
      /\ BoundsValid(legs, q)
  <2> HIDE DEF c
  <2>1. e = [action |-> "ROLL", legs |-> RollLegs(x, c.target), quantity |-> x.position.quantity,
             minimum |-> LowestLimit(RollLegs(x, c.target), o.quotes \o c.target.quotes),
             maximum |-> NetHigh(RollLegs(x, c.target), o.quotes \o c.target.quotes),
             loss |-> x.loss,
             orderable |-> BoundsValid(RollLegs(x, c.target), o.quotes \o c.target.quotes),
             spread |-> c.spread, max_spread |-> x.spread, debit |-> c.debit,
             max_debit |-> Min({x.loss, x.cap}), after |-> c.target.position, cash |-> Cash(x)]
    BY DEF ExitOrder, c
  <2> HIDE DEF low, high, most, n, cash, legs, q
  <2> QED
    BY <1>3, <2>1 DEF low, high, most, n, legs, q
<1> HIDE DEF c
<1>5. /\ n \in 1 .. MaxOptionQuantity /\ x.loss \in 1 .. MaxApprovedRisk /\ x.cap \in Int
      /\ x.spread \in 1 .. 99
    BY PositionAssumption DEF Acquirable, ContextValid, Vertical
<1>6. Book(o.quotes, 2) /\ Book(r.quotes, 2) /\ r.position \in Spreads
    BY SightingAssumption DEF Book
<1>7. /\ \A i \in 1 .. 2 : QuoteUsable(o.quotes[i]) /\ QuoteUsable(r.quotes[i])
  <2>1. OptionEvidenceValid(x.position, o.quotes) /\ RollFits(x, r)
    BY <1>1, <1>2 DEF Acquirable
  <2>2. OptionEvidenceValid(r.position, r.quotes)
    BY <2>1 DEF RollFits
  <2> QED
    BY <1>6, <2>1, <2>2 DEF OptionEvidenceValid, Book
<1>8. /\ Book(q, 4) /\ \A i \in 1 .. 4 : QuoteUsable(q[i])
  <2>1. o.quotes = [i \in 1 .. 2 |-> o.quotes[i]] /\ r.quotes = [i \in 1 .. 2 |-> r.quotes[i]]
    BY SightingAssumption
  <2>2. DOMAIN q = 1 .. 4 /\ \A i \in 1 .. 4 : q[i] \in {o.quotes[1], o.quotes[2], r.quotes[1], r.quotes[2]}
    BY <2>1, TwoAndTwo
  <2>3. 1 \in 1 .. 2 /\ 2 \in 1 .. 2
    OBVIOUS
  <2>4. \A y \in {o.quotes[1], o.quotes[2], r.quotes[1], r.quotes[2]} : y \in Ticks /\ QuoteUsable(y)
    BY <1>6, <1>7, <2>3 DEF Book
  <2> HIDE DEF q
  <2> QED
    BY <2>2, <2>4 DEF Book
<1>9. DOMAIN legs = 1 .. 4 /\ Len(legs) = 4
  <2> DEFINE a == Legs(x.position, FALSE)
             b == Legs(r.position, TRUE)
  <2>1. a = [i \in 1 .. 2 |-> a[i]] /\ b = [i \in 1 .. 2 |-> b[i]]
    BY LegsAreTwo
  <2>2. legs = a \o b
    BY DEF RollLegs
  <2> HIDE DEF a, b, legs
  <2> QED
    BY <2>1, <2>2, TwoAndTwo
<1> HIDE DEF legs, q
<1>10. NetLow(legs, q) \in Int /\ high \in Int
  <2>1. 4 \in Nat
    OBVIOUS
  <2> QED
    BY <1>8, <1>9, <2>1, NetIsNumber
<1>11. low \in Int
  <2> DEFINE sum == NetLow(legs, q) + NetHigh(legs, q)
  <2>1. sum \in Int
    BY <1>10
  <2>2. low = sum \div 2
    BY DEF LowestLimit
  <2> HIDE DEF sum, low
  <2> QED
    BY <2>1, <2>2, Quotient
<1>12. low <= high
    BY <1>4 DEF BoundsValid
<1>13. PackageSpread(q) \in Nat
  <2>1. 4 \in Nat \ {0}
    OBVIOUS
  <2> QED
    BY <1>8, <2>1, SpreadIsNatural
<1> HIDE DEF low, high
<1>14. cash \in Int /\ n \in Nat
  <2>1. n \in Nat
    BY <1>5 DEF MaxOptionQuantity
  <2>2. high * n \in Int
    BY <1>10, <2>1
  <2> QED
    BY <2>1, <2>2
<1>15. most \in Int /\ most <= x.loss
  <2>1. x.loss \in Int
    BY PositionAssumption
  <2>2. most \in {x.loss, x.cap}
    BY <1>5, <2>1, MinOfTwo
  <2>3. most <= x.loss
    BY <1>5, <2>1, MinOfTwo
  <2> HIDE DEF most
  <2> QED
    BY <1>5, <2>1, <2>2, <2>3
<1> HIDE DEF most
<1>16. Max({0, -cash}) >= 0
  <2> HIDE DEF cash
  <2>1. -cash \in Int
    BY <1>14
  <2> QED
    BY <2>1, MaxWith
<1>17. Bounded(e, 4)
    BY <1>4, <1>9, <1>10, <1>11, <1>12 DEF Bounded
<1>18. EnvelopeValid(e)
  <2>1. e.spread <= e.max_spread /\ e.debit <= e.max_debit
    BY <1>1, <1>3, <1>4
  <2>2. 0 <= e.spread /\ e.max_spread < 100
    BY <1>4, <1>5, <1>13
  <2>3. 0 <= e.debit /\ e.max_debit <= e.loss
    <3>1. Max({0, -cash}) \in Int
      <4> HIDE DEF cash
      <4>1. -cash \in Int
        BY <1>14
      <4>2. Max({0, -cash}) \in {0, -cash}
        BY <4>1, MaxWith
      <4> QED
        BY <4>1, <4>2
    <3> QED
      BY <1>4, <1>15, <1>16, <3>1
  <2>4. Len(e.legs) = 4 /\ e.quantity \in 1 .. MaxOptionQuantity /\ e.loss \in 1 .. MaxApprovedRisk
        /\ e.minimum <= e.maximum /\ e.action = "ROLL"
    BY <1>4, <1>5, <1>9, <1>12
  <2> QED
    BY <2>1, <2>2, <2>3, <2>4 DEF EnvelopeValid
<1>19. ASSUME NEW limit \in Limits(e) PROVE LossAtLimit(e, limit) <= most
  <2>1. limit \in Int /\ limit <= high
    BY <1>4, <1>17, LimitsWithin
  <2>2. limit * n \in Int /\ high * n \in Int /\ limit * n <= high * n
    BY <1>10, <1>14, <2>1, LimitTimesQuantity
  <2> DEFINE paid == Cash(x) - limit * n
  <2>3. Cash(x) \in Int
    BY CashIsNumber
  <2>4. paid \in Int /\ Cash(x) + cash \in Int /\ Cash(x) + cash <= paid
    <3> DEFINE u == limit * n
               w == high * n
    <3>1. u \in Int /\ w \in Int /\ u <= w
      BY <2>2
    <3>2. cash = -w /\ paid = Cash(x) - u
      OBVIOUS
    <3> HIDE DEF u, w, cash, paid
    <3> QED
      BY <2>3, <3>1, <3>2
  <2>5. LossAtLimit(e, limit) = VerticalMaxLoss(r.position, paid)
    BY <1>4 DEF LossAtLimit
  <2> HIDE DEF paid, cash
  <2>6. /\ VerticalMaxLoss(r.position, Cash(x) + cash) \in Int
        /\ VerticalMaxLoss(r.position, paid) \in Int
        /\ VerticalMaxLoss(r.position, paid) <= VerticalMaxLoss(r.position, Cash(x) + cash)
    BY <1>6, <2>4, MoreCashLosesLess
  <2>7. VerticalMaxLoss(r.position, Cash(x) + cash) <= most
    BY <1>1, <1>3
  <2> QED
    BY <1>15, <2>5, <2>6, <2>7
<1> QED
    BY <1>17, <1>18, <1>19, LadderIsAccepted DEF most

\* A debit entry is an order the envelope admits and the repository takes, and it costs no
\* more than the loss that was approved and charged to the budget.
LEMMA EntryKeepsLoss ==
    ASSUME NEW p \in Policies, NEW c, Priced(p, c), Debit(c.strategy), NEW e, e = EntryOrder(c)
    PROVE  /\ EnvelopeValid(e) /\ SentIsAccepted(e)
           /\ \A limit \in Limits(e) : LossAtLimit(e, limit) <= e.loss
<1> DEFINE spread == [right |-> c.bought.right, expiry |-> c.dte, quantity |-> c.quantity,
                      low |-> Min({c.bought.strike, c.sold.strike}),
                      high |-> Max({c.bought.strike, c.sold.strike}),
                      long_low |-> c.bought.strike < c.sold.strike]
           legs == Legs(spread, TRUE)
           n == c.quantity
<1>1. /\ e.action = "ENTRY" /\ e.legs = legs /\ e.quantity = n
      /\ e.minimum = c.approved /\ e.maximum = c.maximum /\ e.loss = LossOf(c)
      /\ e.after = spread /\ e.cash = 0
  <2> HIDE DEF spread
  <2>1. e = [action |-> "ENTRY", legs |-> Legs(spread, TRUE), quantity |-> c.quantity,
             minimum |-> c.approved, maximum |-> c.maximum, loss |-> LossOf(c), orderable |-> TRUE,
             spread |-> 0, max_spread |-> 0, debit |-> 0, max_debit |-> 0,
             after |-> spread, cash |-> 0]
    BY DEF EntryOrder, spread
  <2> HIDE DEF n
  <2> QED
    BY <2>1 DEF n
<1>2. DOMAIN legs = 1 .. 2 /\ Len(legs) = 2
  <2>1. legs = [i \in 1 .. 2 |-> legs[i]]
    BY LegsAreTwo
  <2> HIDE DEF legs
  <2> QED
    BY <2>1, TwoAndTwo
<1>3. /\ n \in 1 .. p.max_quantity /\ p.max_quantity \in 1 .. MaxOptionQuantity
      /\ p.max_loss \in 1 .. MaxApprovedRisk
      /\ c.approved \in Int /\ c.maximum \in Int /\ 0 < c.approved /\ c.approved <= c.maximum
      /\ LossOf(c) <= p.max_loss
    BY PolicyAssumption DEF Priced
<1>4. LossOf(c) = n * c.maximum
    BY DEF LossOf, RiskPerContract
<1>5. n \in 1 .. MaxOptionQuantity /\ n \in Nat \ {0} /\ c.maximum \in Nat \ {0}
    BY <1>3 DEF MaxOptionQuantity
<1>6. LossOf(c) \in Nat \ {0}
  <2>1. \A a, b \in Nat \ {0} : a * b \in Nat \ {0}
    OBVIOUS
  <2> QED
    BY <1>4, <1>5, <2>1
<1>7. (IF spread.right = "C" THEN spread.long_low ELSE ~spread.long_low) = TRUE
  <2> DEFINE bull == c.bought.strike < c.sold.strike
  <2>1. c.strategy = StrategyOf(IF bull THEN "BULLISH" ELSE "BEARISH", c.bought.right)
    BY DEF Priced, IsVertical
  <2>2. spread.right = c.bought.right /\ spread.long_low = bull
    OBVIOUS
  <2> HIDE DEF bull, spread
  <2>3. \/ bull /\ c.bought.right = "C"
        \/ ~bull /\ c.bought.right = "P"
    BY <2>1 DEF StrategyOf, Debit
  <2> QED
    BY <2>2, <2>3
<1> HIDE DEF legs, spread
<1>8. Bounded(e, 2)
    BY <1>1, <1>2, <1>3 DEF Bounded
<1>9. EnvelopeValid(e)
  <2>1. LossOf(c) \in 1 .. MaxApprovedRisk
    <3>1. MaxApprovedRisk \in Int
      BY DEF MaxApprovedRisk
    <3> QED
      BY <1>3, <1>6, <3>1
  <2> QED
    BY <1>1, <1>2, <1>3, <1>5, <2>1 DEF EnvelopeValid
<1>10. ASSUME NEW limit \in Limits(e) PROVE LossAtLimit(e, limit) <= e.loss
  <2>1. limit \in Int /\ limit <= c.maximum
    BY <1>1, <1>8, LimitsWithin
  <2>2. limit * n \in Int /\ c.maximum * n \in Int /\ limit * n <= c.maximum * n
    BY <1>5, <2>1, LimitTimesQuantity
  <2>3. LossAtLimit(e, limit) = VerticalMaxLoss(spread, 0 - limit * n)
    BY <1>1 DEF LossAtLimit
  <2> DEFINE paid == limit * n
             cost == -((0 - paid) - 0)
  <2>4. VerticalMaxLoss(spread, 0 - paid) = Max({0, cost})
    BY <1>7 DEF VerticalMaxLoss
  <2>5. c.maximum * n = LossOf(c)
    BY <1>4, <1>5
  <2> HIDE DEF paid
  <2>6. paid \in Int /\ paid <= LossOf(c)
    BY <2>2, <2>5 DEF paid
  <2>7. cost \in Int /\ cost = paid
    BY <2>6
  <2> HIDE DEF cost
  <2>8. Max({0, cost}) \in {0, cost}
    BY <2>7, MaxWith
  <2>9. Max({0, cost}) <= LossOf(c)
    BY <1>6, <2>6, <2>7, <2>8
  <2> QED
    BY <1>1, <2>3, <2>4, <2>9 DEF paid
<1> QED
    BY <1>8, <1>9, <1>10, LadderIsAccepted

\* An order is priced once and replaced on later quotes by other code than approved it
\* (_lifecycle_proposal, _replacement_attempt, _validate_replacement_attempt). For any
\* position, any quotes and any book its replacements meet, the order is one its envelope
\* admits, no limit the service sends is refused by the repository while the quotes are fresh,
\* a close pays at least what the review counted on, and a roll or a debit entry loses no more
\* than was approved.
THEOREM OrdersAreBounded ==
    question \in Questions => OrdersKeepTheirLoss
<1> SUFFICES ASSUME question \in Questions
             PROVE  OrdersKeepTheirLoss
    OBVIOUS
<1>1. ASSUME question.about = "ORDER",
             NEW e \in ReviewedOrders(question.context, question.sighting)
      PROVE  /\ EnvelopeValid(e) /\ SentIsAccepted(e)
             /\ \A limit \in Limits(e) :
                   IF e.action = "ROLL"
                   THEN LossAtLimit(e, limit) <= Min({question.context.loss, question.context.cap})
                   ELSE -(limit * e.quantity) >= CloseCash(question.context.position,
                                                           question.sighting.quotes)
  <2> DEFINE x == question.context
             o == question.sighting
  <2>1. x \in Positions /\ o \in Sightings
    BY <1>1 DEF Questions
  <2>2. /\ Acquirable(x, o, o.claims) /\ e.orderable
        /\ \E a \in {EvaluateAssessment(Review(x, o, o.claims))} \cap {"CLOSE", "ROLL"} :
              e = ExitOrder(x, o, o.claims, a)
    BY <1>1 DEF ReviewedOrders
  <2> HIDE DEF x, o
  <2>3. PICK a \in {"CLOSE", "ROLL"} : /\ a = EvaluateAssessment(Review(x, o, o.claims))
                                       /\ e = ExitOrder(x, o, o.claims, a)
    BY <2>2
  <2>4. e.action = a
    BY <2>3 DEF ExitOrder
  <2>5. CASE a = "CLOSE"
    <3>1. /\ EnvelopeValid(e) /\ SentIsAccepted(e)
          /\ \A limit \in Limits(e) : -(limit * e.quantity) >= CloseCash(x.position, o.quotes)
      BY <2>1, <2>2, <2>3, <2>5, CloseKeepsLoss
    <3> QED
      BY <2>4, <2>5, <3>1 DEF x, o
  <2>6. CASE a = "ROLL"
    <3>1. /\ EnvelopeValid(e) /\ SentIsAccepted(e)
          /\ \A limit \in Limits(e) : LossAtLimit(e, limit) <= Min({x.loss, x.cap})
      BY <2>1, <2>2, <2>3, <2>6, RollKeepsLoss
    <3> QED
      BY <2>4, <2>6, <3>1 DEF x, o
  <2> QED
    BY <2>5, <2>6
<1>2. ASSUME question.about = "SELECTION",
             NEW chosen,
             chosen = SelectVertical(question.policy, question.market,
                                     DeriveDirection(question.policy, question.market),
                                     SelectionAuthority(question.policy, question.budget)),
             DeriveDirection(question.policy, question.market) # NoDirection,
             chosen.reason = "SELECTED", Debit(chosen.candidate.strategy),
             NEW e, e = EntryOrder(chosen.candidate)
      PROVE  /\ EnvelopeValid(e) /\ SentIsAccepted(e)
             /\ \A limit \in Limits(e) : LossAtLimit(e, limit) <= e.loss
  <2>1. question.policy \in Policies /\ question.market \in Markets /\ question.budget \in Budgets
    BY <1>2 DEF Questions
  <2>2. Priced(question.policy, chosen.candidate)
    BY <1>2, <2>1, SelectedIsAccepted DEF Accepted
  <2> QED
    BY <1>2, <2>1, <2>2, EntryKeepsLoss
<1> QED
    BY <1>1, <1>2 DEF OrdersKeepTheirLoss

-----------------------------------------------------------------------------
(* The signals of a boundary                                               *)

\* Induction over the numbers up to one: a property given as the set of those that have it.
LEMMA UpTo ==
    ASSUME NEW n \in Nat, NEW Good, 0 \in Good, \A k \in 1 .. n : k - 1 \in Good => k \in Good
    PROVE  \A k \in 0 .. n : k \in Good
<1> DEFINE Bad == {k \in 0 .. n : k \notin Good}
<1> SUFFICES ASSUME Bad # {} PROVE FALSE
    OBVIOUS
<1>1. Bad \in SUBSET Nat
    OBVIOUS
<1>2. PICK k \in Bad : \A j \in Bad : k <= j
  <2> HIDE DEF Bad
  <2> QED
    BY <1>1, LeastNumber
<1>3. k \in 1 .. n /\ k - 1 \in 0 .. n /\ ~(k <= k - 1)
    BY <1>2
<1>4. k - 1 \in Good
    BY <1>2, <1>3
<1> QED
    BY <1>2, <1>3, <1>4

\* f[n] is what a selection has kept of the first n elements of s.
Kept(f, s, S, n) == IF n = 0 THEN <<>> ELSE IF s[n] \in S THEN Append(f[n - 1], s[n]) ELSE f[n - 1]
Keeps(f, s, S) == f = [n \in 0 .. Len(s) |-> Kept(f, s, S, n)]

\* Such a function exists,
LEMMA KeepsExists ==
    ASSUME NEW T, NEW s \in Seq(T), NEW S
    PROVE  \E f : Keeps(f, s, S)
<1> DEFINE OK(n) == \E f : f = [k \in 0 .. n |-> Kept(f, s, S, k)]
           Good == {n \in 0 .. Len(s) : OK(n)}
<1>1. Len(s) \in Nat
    OBVIOUS
<1>2. OK(0)
  <2> DEFINE f == [k \in 0 .. 0 |-> <<>>]
  <2>1. \A k \in 0 .. 0 : Kept(f, s, S, k) = <<>>
    BY DEF Kept
  <2>2. f = [k \in 0 .. 0 |-> Kept(f, s, S, k)]
    BY <2>1
  <2> HIDE DEF f
  <2> QED
    BY <2>2
<1>3. ASSUME NEW n \in 1 .. Len(s), OK(n - 1) PROVE OK(n)
  <2>1. PICK g : g = [k \in 0 .. n - 1 |-> Kept(g, s, S, k)]
    BY <1>3
  <2> DEFINE h == [k \in 0 .. n |-> Kept(g, s, S, k)]
  <2>2. \A k \in 0 .. n - 1 : h[k] = g[k]
    <3>1. \A k \in 0 .. n - 1 : g[k] = Kept(g, s, S, k)
      BY <2>1
    <3>2. \A k \in 0 .. n - 1 : k \in 0 .. n
      BY <1>1
    <3> QED
      BY <3>1, <3>2
  <2>3. ASSUME NEW k \in 0 .. n PROVE h[k] = Kept(h, s, S, k)
    <3>1. h[k] = Kept(g, s, S, k)
      OBVIOUS
    <3>2. k = 0 \/ h[k - 1] = g[k - 1]
      <4>1. k = 0 \/ k - 1 \in 0 .. n - 1
        BY <1>1
      <4> HIDE DEF h
      <4> QED
        BY <2>2, <4>1
    <3> HIDE DEF h
    <3> QED
      BY <3>1, <3>2 DEF Kept
  <2>4. h = [k \in 0 .. n |-> h[k]]
    OBVIOUS
  <2> HIDE DEF h
  <2>5. h = [k \in 0 .. n |-> Kept(h, s, S, k)]
    BY <2>3, <2>4
  <2> QED
    BY <2>5
<1>4. 0 \in Good
    BY <1>1, <1>2
<1>5. ASSUME NEW k \in 1 .. Len(s), k - 1 \in Good PROVE k \in Good
  <2>1. OK(k - 1) /\ k \in 0 .. Len(s)
    BY <1>5
  <2>2. OK(k)
    <3> HIDE DEF OK
    <3> QED
      BY <1>3, <2>1
  <2> QED
    BY <2>1, <2>2
<1>6. Len(s) \in Good
  <2> HIDE DEF Good
  <2>1. \A k \in 0 .. Len(s) : k \in Good
    BY <1>1, <1>4, <1>5, UpTo
  <2> QED
    BY <1>1, <2>1
<1> QED
    BY <1>6 DEF Keeps

\* and is what Among computes.
LEMMA AmongIs ==
    ASSUME NEW T, NEW s \in Seq(T), NEW S
    PROVE  \E f : Keeps(f, s, S) /\ Among(s, S) = f[Len(s)]
<1> DEFINE f == CHOOSE f : Keeps(f, s, S)
<1>1. Keeps(f, s, S)
    BY KeepsExists
<1>2. Among(s, S) = f[Len(s)]
    BY DEF Among, Keeps, Kept
<1> HIDE DEF f
<1> QED
    BY <1>1, <1>2

\* What it has kept at each place.
LEMMA KeepsSteps ==
    ASSUME NEW T, NEW s \in Seq(T), NEW S, NEW f, Keeps(f, s, S)
    PROVE  /\ f[0] = <<>>
           /\ \A n \in 1 .. Len(s) : f[n] = IF s[n] \in S THEN Append(f[n - 1], s[n]) ELSE f[n - 1]
<1>1. Len(s) \in Nat
    OBVIOUS
<1>2. \A n \in 0 .. Len(s) : f[n] = Kept(f, s, S, n)
    BY DEF Keeps
<1>3. f[0] = <<>>
    BY <1>1, <1>2 DEF Kept
<1>4. \A n \in 1 .. Len(s) : f[n] = IF s[n] \in S THEN Append(f[n - 1], s[n]) ELSE f[n - 1]
    BY <1>1, <1>2 DEF Kept
<1> QED
    BY <1>3, <1>4

\* It keeps elements of the set only.
LEMMA KeepsType ==
    ASSUME NEW T, NEW s \in Seq(T), NEW S, NEW f, Keeps(f, s, S),
           NEW U, \A i \in DOMAIN s : s[i] \in S => s[i] \in U
    PROVE  \A n \in 0 .. Len(s) : f[n] \in Seq(U)
<1> DEFINE Good == {n \in 0 .. Len(s) : f[n] \in Seq(U)}
<1>1. Len(s) \in Nat /\ DOMAIN s = 1 .. Len(s)
    OBVIOUS
<1>2. /\ f[0] = <<>>
      /\ \A n \in 1 .. Len(s) : f[n] = IF s[n] \in S THEN Append(f[n - 1], s[n]) ELSE f[n - 1]
    BY KeepsSteps
<1>3. 0 \in Good
  <2>1. <<>> \in Seq(U) /\ 0 \in 0 .. Len(s)
    BY <1>1
  <2> QED
    BY <1>2, <2>1
<1>4. ASSUME NEW k \in 1 .. Len(s), k - 1 \in Good PROVE k \in Good
  <2>1. f[k - 1] \in Seq(U) /\ k \in 0 .. Len(s) /\ (s[k] \in S => s[k] \in U)
    BY <1>1, <1>4
  <2>2. s[k] \in S => Append(f[k - 1], s[k]) \in Seq(U)
    BY <2>1
  <2> QED
    BY <1>2, <2>1, <2>2
<1>5. \A k \in 0 .. Len(s) : k \in Good
  <2> HIDE DEF Good
  <2> QED
    BY <1>1, <1>3, <1>4, UpTo
<1> QED
    BY <1>5

\* Among selects elements of the set and of the sequence, and depends on nothing else.
LEMMA AmongType ==
    ASSUME NEW T, NEW s \in Seq(T), NEW S
    PROVE  /\ Among(s, S) \in Seq(T)
           /\ \A i \in DOMAIN Among(s, S) : Among(s, S)[i] \in T \cap S
<1> DEFINE U == T \cap S
<1>1. PICK f : Keeps(f, s, S) /\ Among(s, S) = f[Len(s)]
    BY AmongIs
<1>2. (\A i \in DOMAIN s : s[i] \in S => s[i] \in U) /\ (\A i \in DOMAIN s : s[i] \in T)
    OBVIOUS
<1>3. Len(s) \in 0 .. Len(s)
    OBVIOUS
<1> HIDE DEF U
<1>4. f[Len(s)] \in Seq(U) /\ f[Len(s)] \in Seq(T)
    BY <1>1, <1>2, <1>3, KeepsType
<1>5. \A i \in DOMAIN f[Len(s)] : f[Len(s)][i] \in U
    BY <1>4
<1> QED
    BY <1>1, <1>4, <1>5 DEF U

\* Two sets that have the same elements of the sequence select the same.
LEMMA AmongSame ==
    ASSUME NEW T, NEW s \in Seq(T), NEW S, NEW R, \A i \in DOMAIN s : s[i] \in S <=> s[i] \in R
    PROVE  Among(s, S) = Among(s, R)
<1>1. PICK f : Keeps(f, s, S) /\ Among(s, S) = f[Len(s)]
    BY AmongIs
<1>2. PICK g : Keeps(g, s, R) /\ Among(s, R) = g[Len(s)]
    BY AmongIs
<1>3. /\ f[0] = <<>>
      /\ \A n \in 1 .. Len(s) : f[n] = IF s[n] \in S THEN Append(f[n - 1], s[n]) ELSE f[n - 1]
    BY <1>1, KeepsSteps
<1>4. /\ g[0] = <<>>
      /\ \A n \in 1 .. Len(s) : g[n] = IF s[n] \in R THEN Append(g[n - 1], s[n]) ELSE g[n - 1]
    BY <1>2, KeepsSteps
<1> DEFINE Good == {n \in 0 .. Len(s) : f[n] = g[n]}
<1>5. Len(s) \in Nat /\ DOMAIN s = 1 .. Len(s)
    OBVIOUS
<1>6. 0 \in Good
    BY <1>3, <1>4, <1>5
<1>7. ASSUME NEW k \in 1 .. Len(s), k - 1 \in Good PROVE k \in Good
    BY <1>3, <1>4, <1>5, <1>7
<1>8. \A k \in 0 .. Len(s) : k \in Good
  <2> HIDE DEF Good
  <2> QED
    BY <1>5, <1>6, <1>7, UpTo
<1> QED
    BY <1>1, <1>2, <1>5, <1>8

\* One element more is selected or it is not.
LEMMA AmongAppend ==
    ASSUME NEW T, NEW s \in Seq(T), NEW x \in T, NEW S
    PROVE  Among(Append(s, x), S) = IF x \in S THEN Append(Among(s, S), x) ELSE Among(s, S)
<1> DEFINE t == Append(s, x)
<1>1. t \in Seq(T) /\ Len(s) \in Nat /\ Len(t) = Len(s) + 1 /\ t[Len(t)] = x
      /\ \A i \in 1 .. Len(s) : t[i] = s[i]
    OBVIOUS
<1> HIDE DEF t
<1>2. PICK f : Keeps(f, s, S) /\ Among(s, S) = f[Len(s)]
    BY AmongIs
<1>3. PICK g : Keeps(g, t, S) /\ Among(t, S) = g[Len(t)]
    BY <1>1, AmongIs
<1>4. /\ f[0] = <<>>
      /\ \A n \in 1 .. Len(s) : f[n] = IF s[n] \in S THEN Append(f[n - 1], s[n]) ELSE f[n - 1]
    BY <1>2, KeepsSteps
<1>5. /\ g[0] = <<>>
      /\ \A n \in 1 .. Len(t) : g[n] = IF t[n] \in S THEN Append(g[n - 1], t[n]) ELSE g[n - 1]
    BY <1>1, <1>3, KeepsSteps
<1> DEFINE Good == {n \in 0 .. Len(s) : f[n] = g[n]}
<1>6. 0 \in Good
    BY <1>1, <1>4, <1>5
<1>7. ASSUME NEW k \in 1 .. Len(s), k - 1 \in Good PROVE k \in Good
    BY <1>1, <1>4, <1>5, <1>7
<1>8. \A k \in 0 .. Len(s) : k \in Good
  <2> HIDE DEF Good
  <2> QED
    BY <1>1, <1>6, <1>7, UpTo
<1>9. f[Len(s)] = g[Len(s)] /\ Len(t) \in 1 .. Len(t) /\ Len(t) - 1 = Len(s)
    BY <1>1, <1>8
<1>10. g[Len(t)] = IF t[Len(t)] \in S THEN Append(g[Len(t) - 1], t[Len(t)]) ELSE g[Len(t) - 1]
    BY <1>5, <1>9
<1> QED
    BY <1>1, <1>2, <1>3, <1>9, <1>10 DEF t

\* Every element of s that is in B is in A; the elements of t are in S if they are in B.
Covers(A, B, s) == \A i \in DOMAIN s : s[i] \in B => s[i] \in A
Alike(S, B, t) == \A i \in DOMAIN t : t[i] \in S <=> t[i] \in B

\* To select from a selection that left nothing out is to select from the whole.
LEMMA AmongSelected ==
    ASSUME NEW T, NEW s \in Seq(T), NEW A, NEW S, NEW B,
           NEW t, t = Among(s, A), Covers(A, B, s), Alike(S, B, t)
    PROVE  Among(t, S) = Among(s, B)
<1>1. PICK f : Keeps(f, s, A) /\ Among(s, A) = f[Len(s)]
    BY AmongIs
<1>2. PICK g : Keeps(g, s, B) /\ Among(s, B) = g[Len(s)]
    BY AmongIs
<1>0. \A i \in DOMAIN s : s[i] \in T
    OBVIOUS
<1> USE DEF Covers, Alike
<1>3. /\ f[0] = <<>>
      /\ \A n \in 1 .. Len(s) : f[n] = IF s[n] \in A THEN Append(f[n - 1], s[n]) ELSE f[n - 1]
      /\ \A n \in 0 .. Len(s) : f[n] \in Seq(T)
    BY <1>1, <1>0, KeepsSteps, KeepsType
<1>4. /\ g[0] = <<>>
      /\ \A n \in 1 .. Len(s) : g[n] = IF s[n] \in B THEN Append(g[n - 1], s[n]) ELSE g[n - 1]
    BY <1>2, KeepsSteps
<1> DEFINE Good == {n \in 0 .. Len(s) : Among(f[n], B) = g[n]}
<1>5. Len(s) \in Nat /\ DOMAIN s = 1 .. Len(s) /\ \A i \in DOMAIN s : s[i] \in T
    OBVIOUS
<1>6. 0 \in Good
  <2>1. PICK h : Keeps(h, <<>>, B) /\ Among(<<>>, B) = h[Len(<<>>)]
    <3>1. <<>> \in Seq(T)
      OBVIOUS
    <3> QED
      BY <3>1, AmongIs
  <2>2. h[0] = <<>>
    <3>1. <<>> \in Seq(T)
      OBVIOUS
    <3> QED
      BY <2>1, <3>1, KeepsSteps, ZenonT(30)
  <2> QED
    BY <1>3, <1>4, <1>5, <2>1, <2>2
<1>7. ASSUME NEW k \in 1 .. Len(s), k - 1 \in Good PROVE k \in Good
  <2>1. f[k - 1] \in Seq(T) /\ Among(f[k - 1], B) = g[k - 1] /\ k \in 0 .. Len(s)
    BY <1>3, <1>5, <1>7
  <2>2. CASE s[k] \in A
    <3>2. Among(Append(f[k - 1], s[k]), B)
            = IF s[k] \in B THEN Append(Among(f[k - 1], B), s[k]) ELSE Among(f[k - 1], B)
      <4> DEFINE u == f[k - 1]
                 x == s[k]
      <4>1. u \in Seq(T) /\ x \in T
        BY <1>5, <2>1
      <4> HIDE DEF u, x
      <4>2. Among(Append(u, x), B) = IF x \in B THEN Append(Among(u, B), x) ELSE Among(u, B)
        BY <4>1, AmongAppend
      <4> QED
        BY <4>2 DEF u, x
    <3> QED
      BY <1>3, <1>4, <2>1, <2>2, <3>2
  <2>3. CASE s[k] \notin A
    <3>1. s[k] \notin B
      BY <1>5, <2>3
    <3> QED
      BY <1>3, <1>4, <2>1, <2>3, <3>1
  <2> QED
    BY <2>2, <2>3
<1>8. \A k \in 0 .. Len(s) : k \in Good
  <2> HIDE DEF Good
  <2> QED
    BY <1>5, <1>6, <1>7, UpTo
<1>9. Among(t, B) = Among(s, B)
    BY <1>1, <1>2, <1>5, <1>8
<1>10. t \in Seq(T)
    BY AmongType
<1> QED
    BY <1>9, <1>10, AmongSame

\* A selection is no longer than what it is made from.
LEMMA AmongShorter ==
    ASSUME NEW T, NEW s \in Seq(T), NEW S
    PROVE  Len(Among(s, S)) <= Len(s)
<1>1. PICK f : Keeps(f, s, S) /\ Among(s, S) = f[Len(s)]
    BY AmongIs
<1>2. /\ f[0] = <<>>
      /\ \A n \in 1 .. Len(s) : f[n] = IF s[n] \in S THEN Append(f[n - 1], s[n]) ELSE f[n - 1]
    BY <1>1, KeepsSteps
<1>3. Len(s) \in Nat /\ \A i \in DOMAIN s : s[i] \in T
    OBVIOUS
<1>4. \A n \in 0 .. Len(s) : f[n] \in Seq(T)
    BY <1>1, <1>3, KeepsType
<1> DEFINE Good == {n \in 0 .. Len(s) : Len(f[n]) <= n}
<1>5. 0 \in Good
    BY <1>2, <1>3
<1>6. ASSUME NEW k \in 1 .. Len(s), k - 1 \in Good PROVE k \in Good
  <2>1. f[k - 1] \in Seq(T) /\ Len(f[k - 1]) <= k - 1 /\ k \in 0 .. Len(s)
    BY <1>3, <1>4, <1>6
  <2>2. Len(f[k - 1]) \in Nat /\ Len(Append(f[k - 1], s[k])) = Len(f[k - 1]) + 1
    <3> DEFINE t == f[k - 1]
    <3>1. t \in Seq(T)
      BY <2>1
    <3> HIDE DEF t
    <3>2. Len(t) \in Nat /\ Len(Append(t, s[k])) = Len(t) + 1
      BY <3>1
    <3> QED
      BY <3>2 DEF t
  <2> QED
    <3>1. f[k] = IF s[k] \in S THEN Append(f[k - 1], s[k]) ELSE f[k - 1]
      BY <1>2
    <3>2. Len(f[k]) = Len(f[k - 1]) + 1 \/ Len(f[k]) = Len(f[k - 1])
      BY <2>2, <3>1
    <3>3. k \in Nat /\ Len(f[k]) <= k
      BY <1>3, <2>1, <2>2, <3>2
    <3> QED
      BY <2>1, <3>3
<1>7. \A k \in 0 .. Len(s) : k \in Good
  <2> HIDE DEF Good
  <2> QED
    BY <1>3, <1>5, <1>6, UpTo
<1> QED
    BY <1>1, <1>3, <1>7

\* Bars that complete by the boundary are the ones that start before it.
LEMMA IntradayKnown ==
    ASSUME NEW boundary \in Int, NEW bars \in DeliveredBars,
           NEW known, known = Among(bars, {b \in Range(bars) : b.start + 1 <= Due(boundary)})
    PROVE  /\ IntradayOf(known, boundary) = IntradayOf(bars, boundary)
           /\ IntradayValid(known, boundary) = IntradayValid(bars, boundary)
<1> DEFINE T == [start : Int, open : Int, high : Int, low : Int, close : Int, vwap : Int, volume : Int]
           A == {b \in Range(bars) : b.start + 1 <= Due(boundary)}
           B == {b \in Range(bars) : b.start < Due(boundary)}
           S == {b \in Range(known) : b.start < Due(boundary)}
<1>1. bars \in Seq(T) /\ Len(bars) <= SessionBars /\ Due(boundary) \in Int
    BY EvidenceAssumption DEF DeliveredBars, Due
<1>2. \A b \in T : b.start \in Int
    OBVIOUS
<1> HIDE DEF T
<1>3. \A i \in DOMAIN bars : bars[i] \in T /\ bars[i] \in Range(bars)
    BY <1>1 DEF Range
<1>4. Covers(A, B, bars)
    BY <1>1, <1>2, <1>3 DEF Covers
<1>5. known = Among(bars, A)
    OBVIOUS
<1> HIDE DEF A
<1>6. known \in Seq(T) /\ \A i \in DOMAIN known : known[i] \in T \cap A
    BY <1>1, <1>5, AmongType
<1>7. Alike(S, B, known)
  <2> SUFFICES ASSUME NEW i \in DOMAIN known PROVE known[i] \in S <=> known[i] \in B
    BY DEF Alike
  <2>1. known[i] \in A /\ known[i] \in Range(known)
    BY <1>6 DEF Range
  <2> QED
    BY <2>1 DEF A
<1> HIDE DEF S, B
<1>8. Among(known, S) = Among(bars, B)
    BY <1>1, <1>4, <1>5, <1>7, AmongSelected
<1>9. IntradayOf(known, boundary) = IntradayOf(bars, boundary)
    BY <1>8 DEF IntradayOf, S, B
<1>10. Len(known) <= SessionBars
  <2>1. Len(known) <= Len(bars) /\ Len(known) \in Nat /\ Len(bars) \in Nat
    BY <1>1, <1>5, <1>6, AmongShorter
  <2> QED
    BY <1>1, <2>1, EvidenceAssumption
<1> QED
    BY <1>1, <1>9, <1>10 DEF IntradayValid

\* The closes of the sessions up to one, and sessions that are up to one.
ClosesThrough(closes, last) == Among(closes, {b \in Range(closes) : b.session <= last})
Within(sessions, last) == \A x \in Range(sessions) : x \in Int /\ x <= last

\* Closes of later than every wanted session are not among the wanted ones.
LEMMA DailyKnown ==
    ASSUME NEW last \in Int, NEW closes \in DeliveredCloses,
           NEW known, known = ClosesThrough(closes, last),
           NEW sessions, Within(sessions, last)
    PROVE  /\ DailyOf(known, sessions) = DailyOf(closes, sessions)
           /\ DailyValid(known, sessions) = DailyValid(closes, sessions)
<1> DEFINE T == [session : Int, close : Int]
           A == {b \in Range(closes) : b.session <= last}
           B == {b \in Range(closes) : b.session \in Range(sessions)}
           S == {b \in Range(known) : b.session \in Range(sessions)}
<1>1. closes \in Seq(T) /\ Len(closes) <= DailyLimit
    BY DEF DeliveredCloses
<1>3. \A i \in DOMAIN closes : closes[i] \in Range(closes)
    BY <1>1 DEF Range
<1> HIDE DEF T
<1>4. Covers(A, B, closes)
    BY <1>3 DEF Covers, Within
<1>5. known = Among(closes, A)
    BY DEF ClosesThrough
<1> HIDE DEF A
<1>6. known \in Seq(T) /\ \A i \in DOMAIN known : known[i] \in T \cap A
    BY <1>1, <1>5, AmongType
<1>7. Alike(S, B, known)
  <2> SUFFICES ASSUME NEW i \in DOMAIN known PROVE known[i] \in S <=> known[i] \in B
    BY DEF Alike
  <2>1. known[i] \in A /\ known[i] \in Range(known)
    BY <1>6 DEF Range
  <2> QED
    BY <2>1 DEF A
<1> HIDE DEF S, B
<1>8. Among(known, S) = Among(closes, B)
    BY <1>1, <1>4, <1>5, <1>7, AmongSelected
<1>9. DailyOf(known, sessions) = DailyOf(closes, sessions)
    BY <1>8 DEF DailyOf, S, B
<1>10. Len(known) <= DailyLimit
  <2>1. Len(known) <= Len(closes) /\ Len(known) \in Nat /\ Len(closes) \in Nat
    BY <1>1, <1>5, <1>6, AmongShorter
  <2> QED
    BY <1>1, <2>1, EvidenceAssumption
<1> QED
    BY <1>1, <1>9, <1>10 DEF DailyValid

\* The sessions that beta is computed from are numbers up to the cutoff.
LEMMA SessionsThroughCutoff ==
    ASSUME NEW spec, NEW e, e.calendar \in Seq(Int), spec.cutoff \in Int
    PROVE  /\ ThroughCutoff(spec, e) \in Seq(Int)
           /\ Within(ThroughCutoff(spec, e), spec.cutoff)
<1> DEFINE A == {s \in Range(e.calendar) : s <= spec.cutoff}
           through == Among(e.calendar, A)
           first == Max({1, Len(through) - DailyCloses + 1})
           sub == SubSeq(through, first, Len(through))
<1>0. ThroughCutoff(spec, e) = sub
    BY DEF ThroughCutoff
<1>1. through \in Seq(Int) /\ \A i \in DOMAIN through : through[i] \in Int \cap A
  <2> HIDE DEF A
  <2> QED
    BY AmongType
<1>2. \A i \in DOMAIN through : through[i] \in Int /\ through[i] <= spec.cutoff
  <2> HIDE DEF through
  <2> QED
    BY <1>1
<1> HIDE DEF A, through
<1>3. first \in Int /\ first >= 1 /\ Len(through) \in Nat
  <2> DEFINE n == Len(through) - DailyCloses + 1
  <2>1. Len(through) \in Nat /\ n \in Int
    BY <1>1, EvidenceAssumption
  <2> HIDE DEF n
  <2>2. Max({1, n}) \in {1, n} /\ Max({1, n}) >= 1
    BY <2>1, MaxWith
  <2>3. Max({1, n}) \in Int
    BY <2>1, <2>2
  <2> QED
    BY <2>1, <2>2, <2>3 DEF n
<1> HIDE DEF first
<1>4. /\ sub \in Seq(Int)
      /\ \A i \in DOMAIN sub : i + first - 1 \in DOMAIN through /\ sub[i] = through[i + first - 1]
  <2>1. sub = [i \in 1 .. Len(through) - first + 1 |-> through[i + first - 1]]
    BY <1>1, <1>3
  <2>2. \A i \in 1 .. Len(through) - first + 1 :
            i + first - 1 \in DOMAIN through /\ through[i + first - 1] \in Int
    BY <1>1, <1>2, <1>3
  <2> QED
    BY <1>1, <1>2, <1>3, <2>1, <2>2
<1> HIDE DEF sub
<1> QED
    BY <1>0, <1>2, <1>4 DEF Range, Within

\* What is known at the boundary has the calendar, and selections of the bars and closes.
LEMMA KnownIs ==
    ASSUME NEW c \in SignalCases, NEW known, known = KnownAt(c.spec, c.evidence, c.boundary)
    PROVE  LET e == c.evidence
               completed(bars) == Among(bars, {b \in Range(bars) : b.start + 1 <= Due(c.boundary)})
           IN  /\ known.calendar = e.calendar
               /\ known.bars = completed(e.bars)
               /\ known.benchmark_bars = completed(e.benchmark_bars)
               /\ known.closes = ClosesThrough(e.closes, c.spec.reaction)
               /\ known.benchmark_closes = ClosesThrough(e.benchmark_closes, c.spec.cutoff)
<1>1. {"bars", "benchmark_bars", "calendar", "closes", "benchmark_closes"} \subseteq DOMAIN c.evidence
    BY DeliveryAssumption
<1> QED
    BY <1>1 DEF KnownAt, ClosesThrough

\* The signals are the same of what was delivered and of what had happened by the boundary.
LEMMA SignalsAlike ==
    ASSUME NEW c \in SignalCases, NEW known, known = KnownAt(c.spec, c.evidence, c.boundary)
    PROVE  /\ SignalsCollected(c.spec, c.evidence, c.boundary, c.boundary)
                = SignalsCollected(c.spec, known, c.boundary, c.boundary)
           /\ SignalsCollected(c.spec, known, c.boundary, c.boundary) =>
                Signals(c.spec, c.evidence, c.boundary) = Signals(c.spec, known, c.boundary)
<1> DEFINE e == c.evidence
           spec == c.spec
           boundary == c.boundary
           sessions == ThroughCutoff(spec, e)
<1>1. /\ boundary \in Int /\ spec.cutoff \in Int /\ spec.reaction \in Int
      /\ e.bars \in DeliveredBars /\ e.benchmark_bars \in DeliveredBars
      /\ e.closes \in DeliveredCloses /\ e.benchmark_closes \in DeliveredCloses
      /\ e.calendar \in Seq(Int)
    BY DeliveryAssumption
<1>2. /\ known.calendar = e.calendar
      /\ known.bars = Among(e.bars, {b \in Range(e.bars) : b.start + 1 <= Due(boundary)})
      /\ known.benchmark_bars
            = Among(e.benchmark_bars, {b \in Range(e.benchmark_bars) : b.start + 1 <= Due(boundary)})
      /\ known.closes = ClosesThrough(e.closes, spec.reaction)
      /\ known.benchmark_closes = ClosesThrough(e.benchmark_closes, spec.cutoff)
    BY KnownIs
<1> HIDE DEF e, spec, boundary
<1>3. ThroughCutoff(spec, known) = sessions
    BY <1>2 DEF ThroughCutoff
<1>4. sessions \in Seq(Int) /\ Within(sessions, spec.cutoff)
    BY <1>1, SessionsThroughCutoff
<1>5. CalendarValid(spec, known, boundary) = CalendarValid(spec, e, boundary)
    BY <1>2, <1>3 DEF CalendarValid
<1> HIDE DEF sessions
<1>6. /\ IntradayOf(known.bars, boundary) = IntradayOf(e.bars, boundary)
      /\ IntradayValid(known.bars, boundary) = IntradayValid(e.bars, boundary)
      /\ IntradayOf(known.benchmark_bars, boundary) = IntradayOf(e.benchmark_bars, boundary)
      /\ IntradayValid(known.benchmark_bars, boundary) = IntradayValid(e.benchmark_bars, boundary)
    BY <1>1, <1>2, IntradayKnown
<1>7. /\ DailyOf(known.benchmark_closes, sessions) = DailyOf(e.benchmark_closes, sessions)
      /\ DailyValid(known.benchmark_closes, sessions) = DailyValid(e.benchmark_closes, sessions)
    BY <1>1, <1>2, <1>4, DailyKnown
<1>8. ASSUME spec.cutoff < spec.reaction
      PROVE  /\ DailyOf(known.closes, sessions) = DailyOf(e.closes, sessions)
             /\ DailyValid(known.closes, sessions \o <<spec.reaction>>)
                   = DailyValid(e.closes, sessions \o <<spec.reaction>>)
             /\ DailyOf(known.closes, <<spec.reaction>>) = DailyOf(e.closes, <<spec.reaction>>)
  <2>1. Within(sessions, spec.reaction)
    BY <1>1, <1>4, <1>8 DEF Within
  <2>2. Within(<<spec.reaction>>, spec.reaction)
    BY <1>1 DEF Range, Within
  <2>3. Within(sessions \o <<spec.reaction>>, spec.reaction)
    <3> DEFINE all == sessions \o <<spec.reaction>>
    <3>1. \A i \in DOMAIN all : all[i] = spec.reaction \/ \E j \in DOMAIN sessions : all[i] = sessions[j]
      BY <1>1, <1>4
    <3> HIDE DEF all
    <3>2. \A i \in DOMAIN all : all[i] = spec.reaction \/ all[i] \in Range(sessions)
      BY <3>1 DEF Range
    <3>3. \A i \in DOMAIN all : all[i] \in Int /\ all[i] <= spec.reaction
      BY <1>1, <2>1, <3>2 DEF Within
    <3> QED
      BY <3>3 DEF all, Range, Within
  <2> QED
    BY <1>1, <1>2, <2>1, <2>2, <2>3, DailyKnown
<1>9. CalendarValid(spec, e, boundary) => spec.cutoff < spec.reaction
    BY DEF CalendarValid
<1>10. SignalsCollected(spec, e, boundary, boundary) = SignalsCollected(spec, known, boundary, boundary)
  <2>1. CASE CalendarValid(spec, e, boundary)
    BY <1>3, <1>5, <1>6, <1>7, <1>8, <1>9, <2>1 DEF SignalsCollected, sessions
  <2>2. CASE ~CalendarValid(spec, e, boundary)
    BY <1>5, <2>2 DEF SignalsCollected
  <2> QED
    BY <2>1, <2>2
<1>11. ASSUME SignalsCollected(spec, known, boundary, boundary)
       PROVE  Signals(spec, e, boundary) = Signals(spec, known, boundary)
  <2>1. spec.cutoff < spec.reaction
    BY <1>5, <1>9, <1>11 DEF SignalsCollected
  <2> QED
    BY <1>3, <1>6, <1>7, <1>8, <2>1 DEF Signals, sessions
<1> QED
    BY <1>10, <1>11 DEF e, spec, boundary

-----------------------------------------------------------------------------
(* The claims of a story                                                   *)

\* The claim at i outweighs every other claim of its cluster c.
Strongest(claims, c, i) ==
    /\ i \in DOMAIN claims /\ claims[i].cluster = c
    /\ \A j \in DOMAIN claims : j # i /\ claims[j].cluster = c =>
          TierWeight[claims[j].tier] < TierWeight[claims[i].tier]

\* The weights are numbers, and a tier that is not SECONDARY weighs more.
LEMMA TierWeights ==
    ASSUME NEW k \in ClaimRows
    PROVE  /\ TierWeight[k.tier] \in 5 .. 10
           /\ k.tier # "SECONDARY" => TierWeight[k.tier] > 5
           /\ k.tier \in {"PRIMARY", "ORIGINAL_REPORTING", "SECONDARY"}
<1>1. k.tier \in {"PRIMARY", "ORIGINAL_REPORTING", "SECONDARY"}
    BY DEF ClaimRows, TierWeight
<1>2. TierWeight["PRIMARY"] = 10 /\ TierWeight["ORIGINAL_REPORTING"] = 8 /\ TierWeight["SECONDARY"] = 5
    BY DEF TierWeight
<1> QED
    BY <1>1, <1>2

\* A cluster is judged by its strongest claim, wherever it stands in the list.
LEMMA JudgedByStrongest ==
    ASSUME NEW claims \in Seq(ClaimRows), NEW c, NEW i, Strongest(claims, c, i)
    PROVE  ClaimOf(claims, c) = claims[i]
<1> DEFINE own == {k \in DOMAIN claims : claims[k].cluster = c}
           best == {k \in own : \A j \in own : TierWeight[claims[j].tier] <= TierWeight[claims[k].tier]}
<1>1. \A j \in DOMAIN claims : TierWeight[claims[j].tier] \in Int
  <2> SUFFICES ASSUME NEW j \in DOMAIN claims PROVE TierWeight[claims[j].tier] \in Int
    OBVIOUS
  <2>1. claims[j] \in ClaimRows
    OBVIOUS
  <2>2. TierWeight[claims[j].tier] \in 5 .. 10
    BY <2>1, TierWeights
  <2> QED
    BY <2>2
<1>2. i \in best
    BY <1>1 DEF Strongest
<1>3. \A k \in best : k = i
    BY <1>1 DEF Strongest
<1>4. best = {i} /\ i \in Nat
    BY <1>2, <1>3 DEF Strongest
<1>5. Min({i}) = i
    BY <1>4, MinIs
<1>6. ClaimOf(claims, c) = claims[Min(best)]
    BY DEF ClaimOf
<1> HIDE DEF best
<1> QED
    BY <1>4, <1>5, <1>6

\* Unless tiers tie, every cluster has a strongest claim.
LEMMA StrongestExists ==
    ASSUME NEW claims \in Seq(ClaimRows), ~Tied(claims), NEW m \in DOMAIN claims
    PROVE  \E i \in DOMAIN claims : Strongest(claims, claims[m].cluster, i)
<1> DEFINE c == claims[m].cluster
           Of(t) == {i \in DOMAIN claims : claims[i].cluster = c /\ claims[i].tier = t}
<1>1. \A i \in DOMAIN claims : claims[i].tier \in {"PRIMARY", "ORIGINAL_REPORTING", "SECONDARY"}
  <2> TAKE i \in DOMAIN claims
  <2>1. claims[i] \in ClaimRows
    OBVIOUS
  <2> QED
    BY <2>1, TierWeights
<1>2. TierWeight["PRIMARY"] = 10 /\ TierWeight["ORIGINAL_REPORTING"] = 8 /\ TierWeight["SECONDARY"] = 5
    BY DEF TierWeight
<1>3. \A i, j \in DOMAIN claims : i # j /\ claims[i].cluster = claims[j].cluster =>
          claims[i].tier # claims[j].tier
    BY DEF Tied
<1>4. CASE \E i \in DOMAIN claims : claims[i].cluster = c /\ claims[i].tier = "PRIMARY"
  <2>1. PICK i \in DOMAIN claims : claims[i].cluster = c /\ claims[i].tier = "PRIMARY"
    BY <1>4
  <2>2. Strongest(claims, c, i)
    BY <1>1, <1>2, <1>3, <2>1 DEF Strongest
  <2> QED
    BY <2>2
<1>5. CASE /\ ~\E i \in DOMAIN claims : claims[i].cluster = c /\ claims[i].tier = "PRIMARY"
           /\ \E i \in DOMAIN claims : claims[i].cluster = c /\ claims[i].tier = "ORIGINAL_REPORTING"
  <2>1. PICK i \in DOMAIN claims : claims[i].cluster = c /\ claims[i].tier = "ORIGINAL_REPORTING"
    BY <1>5
  <2>2. Strongest(claims, c, i)
    BY <1>1, <1>2, <1>3, <1>5, <2>1 DEF Strongest
  <2> QED
    BY <2>2
<1>6. CASE /\ ~\E i \in DOMAIN claims : claims[i].cluster = c /\ claims[i].tier = "PRIMARY"
           /\ ~\E i \in DOMAIN claims : claims[i].cluster = c /\ claims[i].tier = "ORIGINAL_REPORTING"
  <2>1. Strongest(claims, c, m)
    BY <1>1, <1>2, <1>3, <1>6 DEF Strongest
  <2> QED
    BY <2>1
<1> QED
    BY <1>4, <1>5, <1>6

\* The stories that a list of claims is about.
Clusters(claims) == {claims[i].cluster : i \in DOMAIN claims}

\* The weights of the claims that the clusters are judged by.
WeightIn(claims) == [c \in Clusters(claims) |-> ClaimWeight(ClaimOf(claims, c))]
SignedIn(claims) == [c \in Clusters(claims) |-> Signed(ClaimOf(claims, c))]
WeightOf(claims, S) == MapThenSumSet(LAMBDA c : ClaimWeight(ClaimOf(claims, c)), S)
SignedOf(claims, S) == MapThenSumSet(LAMBDA c : Signed(ClaimOf(claims, c)), S)

\* A list has finitely many clusters.
LEMMA ClustersAreFinite ==
    ASSUME NEW claims \in Seq(ClaimRows)
    PROVE  IsFiniteSet(Clusters(claims))
<1> DEFINE f == [i \in DOMAIN claims |-> claims[i].cluster]
<1>1. IsFiniteSet(DOMAIN claims)
  <2>1. DOMAIN claims = 1 .. Len(claims) /\ Len(claims) \in Nat
    OBVIOUS
  <2>2. \A n \in Nat : IsFiniteSet(1 .. n)
    BY FS_Interval
  <2> QED
    BY <2>1, <2>2
<1>3. f \in Surjection(DOMAIN claims, Clusters(claims))
  <2>1. f \in [DOMAIN claims -> Clusters(claims)]
    BY DEF Clusters
  <2>2. \A t \in Clusters(claims) : \E i \in DOMAIN claims : f[i] = t
    BY DEF Clusters
  <2> HIDE DEF f
  <2> QED
    BY <2>1, <2>2 DEF Surjection
<1> HIDE DEF f
<1> QED
    BY <1>1, <1>3, FS_Surjection

\* The sums of score_evidence are sums over a set of clusters.
LEMMA WeightsAreAdded ==
    ASSUME NEW claims \in Seq(ClaimRows), NEW S \in SUBSET Clusters(claims)
    PROVE  /\ \E g : Adds(g, WeightIn(claims), S) /\ WeightOf(claims, S) = g[S]
           /\ \E g : Adds(g, SignedIn(claims), S) /\ SignedOf(claims, S) = g[S]
<1>1. IsFiniteSet(S)
    BY ClustersAreFinite, FS_Subset
<1>2. \A s \in SUBSET S : s # {} => Pick(s) \in Clusters(claims)
    BY DEF Pick
<1> DEFINE AddsWeights(g) ==
               g = [s \in SUBSET S |-> IF s = {} THEN 0
                                       ELSE ClaimWeight(ClaimOf(claims, Pick(s))) + g[s \ {Pick(s)}]]
           AddsSigned(g) ==
               g = [s \in SUBSET S |-> IF s = {} THEN 0
                                       ELSE Signed(ClaimOf(claims, Pick(s))) + g[s \ {Pick(s)}]]
<1>3. \A g : Adds(g, WeightIn(claims), S) <=> AddsWeights(g)
  <2>1. \A s \in SUBSET S : s # {} => WeightIn(claims)[Pick(s)] = ClaimWeight(ClaimOf(claims, Pick(s)))
    BY <1>2 DEF WeightIn
  <2> QED
    BY <2>1 DEF Adds
<1>4. \A g : Adds(g, SignedIn(claims), S) <=> AddsSigned(g)
  <2>1. \A s \in SUBSET S : s # {} => SignedIn(claims)[Pick(s)] = Signed(ClaimOf(claims, Pick(s)))
    BY <1>2 DEF SignedIn
  <2> QED
    BY <2>1 DEF Adds
<1>5. WeightOf(claims, S) = (CHOOSE g : AddsWeights(g))[S]
    BY DEF WeightOf, MapThenSumSet, MapThenFoldSet, Pick
<1>6. SignedOf(claims, S) = (CHOOSE g : AddsSigned(g))[S]
    BY DEF SignedOf, MapThenSumSet, MapThenFoldSet, Pick
<1> HIDE DEF AddsWeights, AddsSigned
<1>7. AddsWeights(CHOOSE g : AddsWeights(g)) /\ AddsSigned(CHOOSE g : AddsSigned(g))
    BY <1>1, <1>3, <1>4, AddsExists
<1> QED
    BY <1>3, <1>4, <1>5, <1>6, <1>7

\* The clusters that a claim of a tier invalidates, the groups of the original reporting among
\* them, and the clusters that count (the sets of score_evidence).
InvalidIn(claims, t) ==
    {c \in Clusters(claims) : ClaimOf(claims, c).invalidates /\ ClaimOf(claims, c).tier = t}
InvalidGroups(claims) ==
    {ClaimOf(claims, c).group : c \in InvalidIn(claims, "ORIGINAL_REPORTING")} \ {"NONE"}
CountedIn(claims) ==
    {c \in Clusters(claims) : /\ ClaimOf(claims, c).relevance >= 6
                              /\ ClaimOf(claims, c).confidence >= 6
                              /\ ClaimOf(claims, c).relation # "NEUTRAL"}

\* What score_evidence looks at, in these terms.
LEMMA WeighedIs ==
    ASSUME NEW claims
    PROVE  Weighed(claims) =
               [invalid |-> InvalidIn(claims, "PRIMARY") # {} \/ Cardinality(InvalidGroups(claims)) >= 2,
                silent |-> CountedIn(claims) = {},
                total |-> WeightOf(claims, CountedIn(claims)),
                net |-> SignedOf(claims, CountedIn(claims))]
    BY DEF Weighed, Clusters, WeightOf, SignedOf, InvalidIn, InvalidGroups, CountedIn

\* Two lists of the same clusters, each judged by the same claim.
JudgedSame(a, b) ==
    /\ Clusters(a) = Clusters(b)
    /\ \A c \in Clusters(a) : ClaimOf(a, c) = ClaimOf(b, c)

\* Lists that are judged by the same claims are weighed the same.
LEMMA WeighedSame ==
    ASSUME NEW a \in Seq(ClaimRows), NEW b \in Seq(ClaimRows), JudgedSame(a, b)
    PROVE  Weighed(a) = Weighed(b)
<1>1. Clusters(a) = Clusters(b) /\ \A c \in Clusters(a) : ClaimOf(a, c) = ClaimOf(b, c)
    BY DEF JudgedSame
<1>2. WeightIn(a) = WeightIn(b) /\ SignedIn(a) = SignedIn(b)
    BY <1>1 DEF WeightIn, SignedIn
<1>3. ASSUME NEW S \in SUBSET Clusters(a)
      PROVE  WeightOf(a, S) = WeightOf(b, S) /\ SignedOf(a, S) = SignedOf(b, S)
  <2>1. IsFiniteSet(S) /\ S \in SUBSET Clusters(b)
    BY <1>1, ClustersAreFinite, FS_Subset
  <2>2. PICK g : Adds(g, WeightIn(a), S) /\ WeightOf(a, S) = g[S]
    BY WeightsAreAdded
  <2>3. PICK h : Adds(h, WeightIn(a), S) /\ WeightOf(b, S) = h[S]
    BY <1>2, <2>1, WeightsAreAdded
  <2>4. PICK gs : Adds(gs, SignedIn(a), S) /\ SignedOf(a, S) = gs[S]
    BY WeightsAreAdded
  <2>5. PICK hs : Adds(hs, SignedIn(a), S) /\ SignedOf(b, S) = hs[S]
    BY <1>2, <2>1, WeightsAreAdded
  <2>6. g[S] = h[S] /\ gs[S] = hs[S]
    BY <2>1, <2>2, <2>3, <2>4, <2>5, AddsAgree
  <2> QED
    BY <2>2, <2>3, <2>4, <2>5, <2>6
<1>4. \A t : InvalidIn(a, t) = InvalidIn(b, t)
    BY <1>1 DEF InvalidIn
<1>5. InvalidGroups(a) = InvalidGroups(b)
  <2>1. \A c \in InvalidIn(a, "ORIGINAL_REPORTING") : c \in Clusters(a)
    BY DEF InvalidIn
  <2> QED
    BY <1>1, <1>4, <2>1 DEF InvalidGroups
<1>6. CountedIn(a) = CountedIn(b) /\ CountedIn(a) \in SUBSET Clusters(a)
    BY <1>1 DEF CountedIn
<1> QED
    BY <1>3, <1>4, <1>5, <1>6, WeighedIs

\* A list with a strongest claim for each cluster, and another in which each of them is
\* the strongest too, are judged the same.
LEMMA SameStrongest ==
    ASSUME NEW a \in Seq(ClaimRows), NEW b \in Seq(ClaimRows), Clusters(a) = Clusters(b), ~Tied(a),
           \A c, i : Strongest(a, c, i) => \E j \in DOMAIN b : b[j] = a[i] /\ Strongest(b, c, j)
    PROVE  JudgedSame(a, b)
<1> SUFFICES ASSUME NEW c \in Clusters(a) PROVE ClaimOf(a, c) = ClaimOf(b, c)
    BY DEF JudgedSame
<1>1. PICK m \in DOMAIN a : c = a[m].cluster
    BY DEF Clusters
<1>2. PICK i \in DOMAIN a : Strongest(a, c, i)
    BY <1>1, StrongestExists
<1>3. PICK j \in DOMAIN b : b[j] = a[i] /\ Strongest(b, c, j)
    BY <1>2
<1> QED
    BY <1>2, <1>3, JudgedByStrongest

\* The order of the claims does not matter,
LEMMA ReorderedSame ==
    ASSUME NEW claims \in Seq(ClaimRows), ~Tied(claims),
           NEW p \in Bijection(DOMAIN claims, DOMAIN claims)
    PROVE  Reordered(claims, p) \in Seq(ClaimRows) /\ JudgedSame(claims, Reordered(claims, p))
<1> DEFINE r == Reordered(claims, p)
           D == DOMAIN claims
<1>1. /\ \A i \in D : p[i] \in D
      /\ \A i, j \in D : p[i] = p[j] => i = j
      /\ \A i \in D : \E j \in D : p[j] = i
  <2>1. /\ p \in [D -> D] /\ IsInjective(p) /\ \A i \in D : \E j \in D : p[j] = i
    BY DEF Bijection, Injection, Surjection
  <2> QED
    BY <2>1 DEF IsInjective
<1>2. D = 1 .. Len(claims) /\ Len(claims) \in Nat /\ \A i \in D : claims[i] \in ClaimRows
    OBVIOUS
<1>3. /\ DOMAIN r = D /\ \A i \in D : r[i] = claims[p[i]]
      /\ r \in [1 .. Len(claims) -> ClaimRows]
    BY <1>1, <1>2 DEF Reordered
<1>4. r \in Seq(ClaimRows)
    BY <1>2, <1>3
<1> HIDE DEF r, D
<1>5. Clusters(r) = Clusters(claims)
  <2>1. ASSUME NEW x \in Clusters(r) PROVE x \in Clusters(claims)
    <3>1. PICK i \in D : x = r[i].cluster
      BY <1>3 DEF Clusters
    <3>2. p[i] \in D /\ r[i] = claims[p[i]]
      BY <1>1, <1>3
    <3> QED
      BY <3>1, <3>2 DEF Clusters, D
  <2>2. ASSUME NEW x \in Clusters(claims) PROVE x \in Clusters(r)
    <3>1. PICK i \in D : x = claims[i].cluster
      BY DEF Clusters, D
    <3>2. PICK j \in D : p[j] = i
      BY <1>1
    <3>3. j \in DOMAIN r /\ r[j] = claims[i]
      BY <1>3, <3>2
    <3> QED
      BY <3>1, <3>3 DEF Clusters
  <2> QED
    BY <2>1, <2>2
<1>6. ASSUME NEW c, NEW i, Strongest(claims, c, i)
      PROVE  \E j \in DOMAIN r : r[j] = claims[i] /\ Strongest(r, c, j)
  <2>1. i \in D
    BY <1>6 DEF Strongest, D
  <2>2. PICK m \in D : p[m] = i
    BY <1>1, <2>1
  <2>3. m \in DOMAIN r /\ r[m] = claims[i]
    BY <1>3, <2>2
  <2>4. ASSUME NEW j \in DOMAIN r, j # m, r[j].cluster = c
        PROVE  TierWeight[r[j].tier] < TierWeight[r[m].tier]
    <3>1. j \in D /\ p[j] \in D /\ p[j] # i /\ r[j] = claims[p[j]]
      BY <1>1, <1>3, <2>2, <2>4
    <3> QED
      BY <1>6, <2>3, <2>4, <3>1 DEF Strongest, D
  <2>5. Strongest(r, c, m)
    BY <1>6, <2>3, <2>4 DEF Strongest
  <2> QED
    BY <2>3, <2>5
<1>7. JudgedSame(claims, r)
    BY <1>4, <1>5, <1>6, SameStrongest
<1> QED
    BY <1>4, <1>7 DEF r

\* and neither does a weaker copy of a claim that is there.
LEMMA CopyIsWeaker ==
    ASSUME NEW claims \in Seq(ClaimRows), NEW m \in DOMAIN claims, claims[m].tier # "SECONDARY",
           NEW copy \in ClaimRows, copy.cluster = claims[m].cluster, copy.tier = "SECONDARY",
           NEW i, Strongest(claims, copy.cluster, i)
    PROVE  TierWeight[copy.tier] < TierWeight[claims[i].tier]
<1>1. claims[m] \in ClaimRows /\ claims[i] \in ClaimRows
    BY DEF Strongest
<1>2. /\ TierWeight[claims[m].tier] \in 5 .. 10 /\ TierWeight[claims[i].tier] \in 5 .. 10
      /\ TierWeight[claims[m].tier] > 5
    BY <1>1, TierWeights
<1>3. TierWeight[copy.tier] = 5
    BY DEF TierWeight
<1>4. m = i \/ TierWeight[claims[m].tier] < TierWeight[claims[i].tier]
    BY DEF Strongest
<1> QED
    BY <1>2, <1>3, <1>4

\* Wherever it is put, such a copy leaves every cluster its strongest claim.
LEMMA CopiedSame ==
    ASSUME NEW claims \in Seq(ClaimRows), ~Tied(claims),
           NEW m \in DOMAIN claims, claims[m].tier # "SECONDARY",
           NEW copy \in ClaimRows, copy.cluster = claims[m].cluster, copy.tier = "SECONDARY"
    PROVE  /\ Append(claims, copy) \in Seq(ClaimRows) /\ JudgedSame(claims, Append(claims, copy))
           /\ <<copy>> \o claims \in Seq(ClaimRows) /\ JudgedSame(claims, <<copy>> \o claims)
<1> DEFINE n == Len(claims)
           a == Append(claims, copy)
           b == <<copy>> \o claims
<1>1. /\ n \in Nat /\ DOMAIN claims = 1 .. n
      /\ a \in Seq(ClaimRows) /\ DOMAIN a = 1 .. n + 1 /\ a[n + 1] = copy
      /\ \A i \in 1 .. n : a[i] = claims[i]
    OBVIOUS
<1>2. /\ b \in Seq(ClaimRows) /\ DOMAIN b = 1 .. n + 1 /\ b[1] = copy
      /\ \A i \in 1 .. n : b[i + 1] = claims[i]
      /\ \A i \in 2 .. n + 1 : i - 1 \in 1 .. n /\ b[i] = claims[i - 1]
    OBVIOUS
<1> HIDE DEF n, a, b
<1>3. Clusters(a) = Clusters(claims) /\ Clusters(b) = Clusters(claims)
  <2>1. \A i \in DOMAIN a : \E j \in DOMAIN claims : a[i].cluster = claims[j].cluster
    <3> TAKE i \in DOMAIN a
    <3>1. CASE i = n + 1
      BY <1>1, <3>1
    <3>2. CASE i # n + 1
      BY <1>1, <3>2
    <3> QED
      BY <3>1, <3>2
  <2>2. \A i \in DOMAIN b : \E j \in DOMAIN claims : b[i].cluster = claims[j].cluster
    <3> TAKE i \in DOMAIN b
    <3>1. CASE i = 1
      BY <1>1, <1>2, <3>1
    <3>2. CASE i # 1
      <4>1. i \in 2 .. n + 1
        BY <1>1, <1>2, <3>2
      <4> QED
        BY <1>1, <1>2, <4>1
    <3> QED
      BY <3>1, <3>2
  <2>3. \A j \in DOMAIN claims : j \in DOMAIN a /\ j + 1 \in DOMAIN b
    BY <1>1, <1>2
  <2>4. \A j \in DOMAIN claims : a[j] = claims[j] /\ b[j + 1] = claims[j]
    BY <1>1, <1>2
  <2>5. ASSUME NEW x PROVE x \in Clusters(a) <=> x \in Clusters(claims)
    <3>1. ASSUME x \in Clusters(a) PROVE x \in Clusters(claims)
      <4>1. PICK i \in DOMAIN a : x = a[i].cluster
        BY <3>1 DEF Clusters
      <4>2. PICK j \in DOMAIN claims : a[i].cluster = claims[j].cluster
        BY <2>1
      <4> QED
        BY <4>1, <4>2 DEF Clusters
    <3>2. ASSUME x \in Clusters(claims) PROVE x \in Clusters(a)
      <4>1. PICK j \in DOMAIN claims : x = claims[j].cluster
        BY <3>2 DEF Clusters
      <4>2. j \in DOMAIN a /\ a[j] = claims[j]
        BY <2>3, <2>4
      <4> QED
        BY <4>1, <4>2 DEF Clusters
    <3> QED
      BY <3>1, <3>2
  <2>6. ASSUME NEW x PROVE x \in Clusters(b) <=> x \in Clusters(claims)
    <3>1. ASSUME x \in Clusters(b) PROVE x \in Clusters(claims)
      <4>1. PICK i \in DOMAIN b : x = b[i].cluster
        BY <3>1 DEF Clusters
      <4>2. PICK j \in DOMAIN claims : b[i].cluster = claims[j].cluster
        BY <2>2
      <4> QED
        BY <4>1, <4>2 DEF Clusters
    <3>2. ASSUME x \in Clusters(claims) PROVE x \in Clusters(b)
      <4>1. PICK j \in DOMAIN claims : x = claims[j].cluster
        BY <3>2 DEF Clusters
      <4>2. j + 1 \in DOMAIN b /\ b[j + 1] = claims[j]
        BY <2>3, <2>4
      <4> QED
        BY <4>1, <4>2 DEF Clusters
    <3> QED
      BY <3>1, <3>2
  <2> QED
    BY <2>5, <2>6
<1>4. ASSUME NEW c, NEW i, Strongest(claims, c, i)
      PROVE  /\ \E j \in DOMAIN a : a[j] = claims[i] /\ Strongest(a, c, j)
             /\ \E j \in DOMAIN b : b[j] = claims[i] /\ Strongest(b, c, j)
  <2>1. i \in 1 .. n /\ claims[i].cluster = c
    BY <1>1, <1>4 DEF Strongest
  <2>2. copy.cluster = c => TierWeight[copy.tier] < TierWeight[claims[i].tier]
    BY <1>4, CopyIsWeaker
  <2>3. \A j \in 1 .. n : j # i /\ claims[j].cluster = c =>
            TierWeight[claims[j].tier] < TierWeight[claims[i].tier]
    BY <1>1, <1>4 DEF Strongest
  <2>4. i \in DOMAIN a /\ a[i] = claims[i] /\ Strongest(a, c, i)
    <3>1. ASSUME NEW j \in DOMAIN a, j # i, a[j].cluster = c
          PROVE  TierWeight[a[j].tier] < TierWeight[a[i].tier]
      <4>1. CASE j = n + 1
        BY <1>1, <2>1, <2>2, <3>1, <4>1
      <4>2. CASE j # n + 1
        BY <1>1, <2>1, <2>3, <3>1, <4>2
      <4> QED
        BY <4>1, <4>2
    <3> QED
      BY <1>1, <2>1, <3>1 DEF Strongest
  <2>5. i + 1 \in DOMAIN b /\ b[i + 1] = claims[i] /\ Strongest(b, c, i + 1)
    <3>1. ASSUME NEW j \in DOMAIN b, j # i + 1, b[j].cluster = c
          PROVE  TierWeight[b[j].tier] < TierWeight[b[i + 1].tier]
      <4>1. CASE j = 1
        BY <1>2, <2>1, <2>2, <3>1, <4>1
      <4>2. CASE j # 1
        <5>1. j \in 2 .. n + 1
          BY <1>1, <1>2, <4>2
        <5>2. b[j] = claims[j - 1] /\ j - 1 \in 1 .. n /\ j - 1 # i
          BY <1>2, <2>1, <3>1, <5>1
        <5> QED
          BY <1>2, <2>1, <2>3, <3>1, <5>2
      <4> QED
        BY <4>1, <4>2
    <3> QED
      BY <1>1, <1>2, <2>1, <3>1 DEF Strongest
  <2> QED
    BY <2>4, <2>5
<1>5. JudgedSame(claims, a) /\ JudgedSame(claims, b)
    BY <1>1, <1>2, <1>3, <1>4, SameStrongest
<1> QED
    BY <1>1, <1>2, <1>5 DEF a, b

\* So a story counts once.
LEMMA StoryCountsOnce ==
    ASSUME NEW claims \in Seq(ClaimRows), ~Tied(claims)
    PROVE  CountsOnce(claims)
<1>1. \A a \in Seq(ClaimRows) : JudgedSame(claims, a) =>
          ScoreEvidence("ASSESSED", a) = ScoreEvidence("ASSESSED", claims)
  <2> SUFFICES ASSUME NEW a \in Seq(ClaimRows), JudgedSame(claims, a)
               PROVE  ScoreEvidence("ASSESSED", a) = ScoreEvidence("ASSESSED", claims)
    OBVIOUS
  <2>1. Weighed(claims) = Weighed(a)
    BY WeighedSame
  <2> QED
    BY <2>1 DEF ScoreEvidence
<1>2. ASSUME NEW p \in Bijection(DOMAIN claims, DOMAIN claims)
      PROVE  ScoreEvidence("ASSESSED", Reordered(claims, p)) = ScoreEvidence("ASSESSED", claims)
    BY <1>1, ReorderedSame
<1>3. ASSUME NEW m \in DOMAIN claims, claims[m].tier # "SECONDARY",
             NEW relation \in {"SUPPORTS", "CONTRADICTS"}, NEW copy,
             copy = [claims[m] EXCEPT !.tier = "SECONDARY", !.relation = relation]
      PROVE  /\ ScoreEvidence("ASSESSED", Append(claims, copy)) = ScoreEvidence("ASSESSED", claims)
             /\ ScoreEvidence("ASSESSED", <<copy>> \o claims) = ScoreEvidence("ASSESSED", claims)
  <2>1. claims[m] \in ClaimRows
    OBVIOUS
  <2>2. copy \in ClaimRows /\ copy.cluster = claims[m].cluster /\ copy.tier = "SECONDARY"
    BY <1>3, <2>1 DEF ClaimRows, TierWeight
  <2> QED
    BY <1>1, <1>3, <2>2, CopiedSame
<1> QED
    BY <1>2, <1>3 DEF CountsOnce

\* A cluster that is classified once is judged by its only claim.
LEMMA OnlyClaim ==
    ASSUME NEW claims \in Seq(ClaimRows), ClassificationsValid(claims), NEW i \in DOMAIN claims
    PROVE  ClaimOf(claims, claims[i].cluster) = claims[i]
<1> DEFINE f == [j \in DOMAIN claims |-> claims[j].cluster]
<1>1. IsInjective(f)
    BY DEF ClassificationsValid
<1>2. \A j \in DOMAIN claims : claims[j].cluster = claims[i].cluster => j = i
    BY <1>1 DEF IsInjective
<1>3. Strongest(claims, claims[i].cluster, i)
    BY <1>2 DEF Strongest
<1> QED
    BY <1>3, JudgedByStrongest

\* The claims that the clusters are judged by are then the claims of the list.
LEMMA JudgedAreListed ==
    ASSUME NEW claims \in Seq(ClaimRows), ClassificationsValid(claims)
    PROVE  /\ \A c \in Clusters(claims) : ClaimOf(claims, c) \in Range(claims)
           /\ \A k \in Range(claims) : k.cluster \in Clusters(claims) /\ ClaimOf(claims, k.cluster) = k
           /\ \A i \in DOMAIN claims : claims[i] \in Range(claims)
<1>1. ASSUME NEW c \in Clusters(claims) PROVE ClaimOf(claims, c) \in Range(claims)
  <2>1. PICK i \in DOMAIN claims : c = claims[i].cluster
    BY DEF Clusters
  <2>2. ClaimOf(claims, c) = claims[i]
    BY <2>1, OnlyClaim
  <2> QED
    BY <2>2 DEF Range
<1>2. ASSUME NEW k \in Range(claims) PROVE k.cluster \in Clusters(claims) /\ ClaimOf(claims, k.cluster) = k
  <2>1. PICK i \in DOMAIN claims : k = claims[i]
    BY DEF Range
  <2>2. ClaimOf(claims, k.cluster) = k
    BY <2>1, OnlyClaim
  <2>3. k.cluster \in Clusters(claims)
    BY <2>1 DEF Clusters
  <2> QED
    BY <2>2, <2>3
<1>3. \A i \in DOMAIN claims : claims[i] \in Range(claims)
    BY DEF Range
<1> QED
    BY <1>1, <1>2, <1>3

\* The claims of a tier that invalidate, and the groups of the original reporting among them
\* (the sets of _assess_classifications), and the same by their places (verified_invalidation).
InvalidClaims(claims, t) == {k \in Range(claims) : k.invalidates /\ k.tier = t}
ClaimGroups(claims) == {k.group : k \in InvalidClaims(claims, "ORIGINAL_REPORTING")} \ {"NONE"}
InvalidPlaces(claims, t) == {i \in DOMAIN claims : claims[i].invalidates /\ claims[i].tier = t}
PlaceGroups(claims) == {claims[i].group : i \in InvalidPlaces(claims, "ORIGINAL_REPORTING")} \ {"NONE"}

\* By cluster, by claim and by place, the same claims invalidate.
LEMMA InvalidAlike ==
    ASSUME NEW claims \in Seq(ClaimRows), ClassificationsValid(claims)
    PROVE  /\ \A t : InvalidIn(claims, t) # {} <=> InvalidClaims(claims, t) # {}
           /\ \A t : InvalidPlaces(claims, t) # {} <=> InvalidClaims(claims, t) # {}
           /\ InvalidGroups(claims) = ClaimGroups(claims)
           /\ PlaceGroups(claims) = ClaimGroups(claims)
<1>1. /\ \A c \in Clusters(claims) : ClaimOf(claims, c) \in Range(claims)
      /\ \A k \in Range(claims) : k.cluster \in Clusters(claims) /\ ClaimOf(claims, k.cluster) = k
      /\ \A i \in DOMAIN claims : claims[i] \in Range(claims)
    BY JudgedAreListed
<1>2. \A k \in Range(claims) : \E i \in DOMAIN claims : claims[i] = k
    BY DEF Range
<1>3. ASSUME NEW t
      PROVE  /\ \A c \in InvalidIn(claims, t) : ClaimOf(claims, c) \in InvalidClaims(claims, t)
             /\ \A k \in InvalidClaims(claims, t) :
                   k.cluster \in InvalidIn(claims, t) /\ ClaimOf(claims, k.cluster) = k
             /\ \A i \in InvalidPlaces(claims, t) : claims[i] \in InvalidClaims(claims, t)
             /\ \A k \in InvalidClaims(claims, t) : \E i \in InvalidPlaces(claims, t) : claims[i] = k
  <2>1. \A c \in InvalidIn(claims, t) : ClaimOf(claims, c) \in InvalidClaims(claims, t)
    BY <1>1 DEF InvalidIn, InvalidClaims
  <2>2. ASSUME NEW k \in InvalidClaims(claims, t)
        PROVE  k.cluster \in InvalidIn(claims, t) /\ ClaimOf(claims, k.cluster) = k
    <3>1. k \in Range(claims) /\ k.invalidates /\ k.tier = t
      BY DEF InvalidClaims
    <3>2. k.cluster \in Clusters(claims) /\ ClaimOf(claims, k.cluster) = k
      BY <1>1, <3>1
    <3> QED
      BY <3>1, <3>2 DEF InvalidIn
  <2>3. \A i \in InvalidPlaces(claims, t) : claims[i] \in InvalidClaims(claims, t)
    BY <1>1 DEF InvalidPlaces, InvalidClaims
  <2>4. ASSUME NEW k \in InvalidClaims(claims, t)
        PROVE  \E i \in InvalidPlaces(claims, t) : claims[i] = k
    <3>1. k \in Range(claims) /\ k.invalidates /\ k.tier = t
      BY DEF InvalidClaims
    <3>2. PICK i \in DOMAIN claims : claims[i] = k
      BY <1>2, <3>1
    <3>3. i \in InvalidPlaces(claims, t)
      BY <3>1, <3>2 DEF InvalidPlaces
    <3> QED
      BY <3>2, <3>3
  <2> QED
    BY <2>1, <2>2, <2>3, <2>4
<1>4. \A t : InvalidIn(claims, t) # {} <=> InvalidClaims(claims, t) # {}
    BY <1>3
<1>5. \A t : InvalidPlaces(claims, t) # {} <=> InvalidClaims(claims, t) # {}
    BY <1>3
<1>6. InvalidGroups(claims) = ClaimGroups(claims)
  <2>1. ASSUME NEW g, g \in InvalidGroups(claims) PROVE g \in ClaimGroups(claims)
    <3>1. PICK c \in InvalidIn(claims, "ORIGINAL_REPORTING") : g = ClaimOf(claims, c).group /\ g # "NONE"
      BY <2>1 DEF InvalidGroups
    <3>2. ClaimOf(claims, c) \in InvalidClaims(claims, "ORIGINAL_REPORTING")
      BY <1>3
    <3> QED
      BY <3>1, <3>2 DEF ClaimGroups
  <2>2. ASSUME NEW g, g \in ClaimGroups(claims) PROVE g \in InvalidGroups(claims)
    <3>1. PICK k \in InvalidClaims(claims, "ORIGINAL_REPORTING") : g = k.group /\ g # "NONE"
      BY <2>2 DEF ClaimGroups
    <3>2. k.cluster \in InvalidIn(claims, "ORIGINAL_REPORTING") /\ ClaimOf(claims, k.cluster) = k
      BY <1>3
    <3> QED
      BY <3>1, <3>2 DEF InvalidGroups
  <2> QED
    BY <2>1, <2>2
<1>7. PlaceGroups(claims) = ClaimGroups(claims)
  <2>1. ASSUME NEW g, g \in PlaceGroups(claims) PROVE g \in ClaimGroups(claims)
    <3>1. PICK i \in InvalidPlaces(claims, "ORIGINAL_REPORTING") : g = claims[i].group /\ g # "NONE"
      BY <2>1 DEF PlaceGroups
    <3>2. claims[i] \in InvalidClaims(claims, "ORIGINAL_REPORTING")
      BY <1>3
    <3> QED
      BY <3>1, <3>2 DEF ClaimGroups
  <2>2. ASSUME NEW g, g \in ClaimGroups(claims) PROVE g \in PlaceGroups(claims)
    <3>1. PICK k \in InvalidClaims(claims, "ORIGINAL_REPORTING") : g = k.group /\ g # "NONE"
      BY <2>2 DEF ClaimGroups
    <3>2. PICK i \in InvalidPlaces(claims, "ORIGINAL_REPORTING") : claims[i] = k
      BY <1>3
    <3> QED
      BY <3>1, <3>2 DEF PlaceGroups
  <2> QED
    BY <2>1, <2>2
<1> QED
    BY <1>4, <1>5, <1>6, <1>7

\* When every claim that counts supports, the two sums are one, and it is not negative.
LEMMA SupportIsWhole ==
    ASSUME NEW claims \in Seq(ClaimRows), NEW S \in SUBSET Clusters(claims),
           \A c \in S : /\ ClaimOf(claims, c).relation = "SUPPORTS"
                        /\ ClaimWeight(ClaimOf(claims, c)) \in Nat
    PROVE  WeightOf(claims, S) \in Nat /\ SignedOf(claims, S) = WeightOf(claims, S)
<1>1. IsFiniteSet(S)
    BY ClustersAreFinite, FS_Subset
<1> DEFINE w == WeightIn(claims)
           v == SignedIn(claims)
<1>2. \A c \in S : w[c] \in Nat /\ v[c] = w[c]
    BY DEF WeightIn, SignedIn, Signed
<1>3. PICK g : Adds(g, w, S) /\ WeightOf(claims, S) = g[S]
    BY WeightsAreAdded
<1>4. PICK h : Adds(h, v, S) /\ SignedOf(claims, S) = h[S]
    BY WeightsAreAdded
<1> HIDE DEF w, v
<1> DEFINE Good == {s \in SUBSET S : g[s] \in Nat /\ h[s] = g[s]}
<1>5. ASSUME NEW s \in SUBSET S, \A t \in SUBSET s : t # s => t \in Good
      PROVE  s \in Good
  <2>1. /\ g[s] = IF s = {} THEN 0 ELSE w[Pick(s)] + g[s \ {Pick(s)}]
        /\ h[s] = IF s = {} THEN 0 ELSE v[Pick(s)] + h[s \ {Pick(s)}]
    BY <1>3, <1>4 DEF Adds
  <2>2. s # {} => Pick(s) \in s
    BY DEF Pick
  <2>3. s # {} => s \ {Pick(s)} \in Good
    BY <1>5, <2>2
  <2> QED
    BY <1>2, <2>1, <2>2, <2>3
<1>6. \A s \in SUBSET S : s \in Good
  <2> HIDE DEF Good
  <2> QED
    BY <1>1, <1>5, SubsetInduction
<1> QED
    BY <1>3, <1>4, <1>6

\* The claims of a relation that count (_assess_classifications).
CountedClaims(claims, r) ==
    {k \in Range(claims) : k.relevance >= 6 /\ k.confidence >= 6 /\ k.relation = r}

\* The same among the claims that are assessed.
InvalidAmong(S, t) == {k \in S : k.invalidates /\ k.tier = t}
GroupsAmong(S) == {k.group : k \in InvalidAmong(S, "ORIGINAL_REPORTING")} \ {"NONE"}
CountedAmong(S, r) == {k \in S : k.relevance >= 6 /\ k.confidence >= 6 /\ k.relation = r}

\* What the quality of an assessment says of them.
LEMMA AssessmentIs ==
    ASSUME NEW S
    PROVE  LET invalid == InvalidAmong(S, "PRIMARY") # {} \/ Cardinality(GroupsAmong(S)) >= 2
               quality == Assessment(S).quality
           IN  /\ quality = "AUTHORITATIVE_CONTRADICTION" <=> invalid
               /\ quality = "CLEAR" => ~invalid /\ CountedAmong(S, "CONTRADICTS") = {}
    BY DEF Assessment, InvalidAmong, GroupsAmong, CountedAmong

\* The groups of the claims are finitely many.
LEMMA GroupsAreFinite ==
    ASSUME NEW claims \in Seq(ClaimRows), ClassificationsValid(claims)
    PROVE  IsFiniteSet(ClaimGroups(claims))
<1> DEFINE P == {i \in InvalidPlaces(claims, "ORIGINAL_REPORTING") : claims[i].group # "NONE"}
           f == [i \in P |-> claims[i].group]
<1>1. IsFiniteSet(P)
  <2>1. P \in SUBSET DOMAIN claims
    BY DEF InvalidPlaces
  <2>2. DOMAIN claims = 1 .. Len(claims) /\ Len(claims) \in Nat
    OBVIOUS
  <2>3. IsFiniteSet(DOMAIN claims)
    BY <2>2, FS_Interval
  <2> QED
    BY <2>1, <2>3, FS_Subset
<1>2. f \in Surjection(P, PlaceGroups(claims))
  <2>1. f \in [P -> PlaceGroups(claims)]
    BY DEF PlaceGroups
  <2>2. \A g \in PlaceGroups(claims) : \E i \in P : f[i] = g
    BY DEF PlaceGroups
  <2> HIDE DEF f, P
  <2> QED
    BY <2>1, <2>2 DEF Surjection
<1> HIDE DEF f, P
<1>3. IsFiniteSet(PlaceGroups(claims))
    BY <1>1, <1>2, FS_Surjection
<1> QED
    BY <1>3, InvalidAlike

\* What invalidates among the claims that a plan's events leave invalidates in the list, and
\* the converse holds when no claim of another event contradicts.
LEMMA LeftInvalidate ==
    ASSUME NEW claims \in Seq(ClaimRows), ClassificationsValid(claims),
           \A k \in Range(claims) : ClaimValid(k), NEW codes, NEW A,
           A = {k \in Range(claims) : k.event \in codes}
    PROVE  /\ InvalidAmong(A, "PRIMARY") # {} => InvalidClaims(claims, "PRIMARY") # {}
           /\ Cardinality(GroupsAmong(A)) >= 2 => Cardinality(ClaimGroups(claims)) >= 2
           /\ (\A k \in Range(claims) : k.event \in codes \/ k.relation # "CONTRADICTS") =>
                 /\ \A t : InvalidAmong(A, t) = InvalidClaims(claims, t)
                 /\ GroupsAmong(A) = ClaimGroups(claims)
                 /\ CountedAmong(A, "CONTRADICTS") = CountedClaims(claims, "CONTRADICTS")
<1>1. \A t : InvalidAmong(A, t) \subseteq InvalidClaims(claims, t)
    BY DEF InvalidAmong, InvalidClaims
<1>2. GroupsAmong(A) \subseteq ClaimGroups(claims)
    BY <1>1 DEF GroupsAmong, ClaimGroups
<1>3. /\ Cardinality(GroupsAmong(A)) <= Cardinality(ClaimGroups(claims))
      /\ Cardinality(GroupsAmong(A)) \in Nat /\ Cardinality(ClaimGroups(claims)) \in Nat
  <2>1. IsFiniteSet(ClaimGroups(claims))
    BY GroupsAreFinite
  <2>2. GroupsAmong(A) \in SUBSET ClaimGroups(claims)
    BY <1>2
  <2>3. IsFiniteSet(GroupsAmong(A))
    BY <2>1, <2>2, FS_Subset
  <2> QED
    BY <2>1, <2>2, <2>3, FS_Subset, FS_CardinalityType
<1>4. ASSUME \A k \in Range(claims) : k.event \in codes \/ k.relation # "CONTRADICTS"
      PROVE  /\ \A t : InvalidAmong(A, t) = InvalidClaims(claims, t)
             /\ GroupsAmong(A) = ClaimGroups(claims)
             /\ CountedAmong(A, "CONTRADICTS") = CountedClaims(claims, "CONTRADICTS")
  <2>1. \A k \in Range(claims) : k.invalidates => k.relation = "CONTRADICTS"
    BY DEF ClaimValid
  <2>2. \A k \in Range(claims) : k.invalidates \/ k.relation = "CONTRADICTS" => k \in A
    BY <1>4, <2>1
  <2>3. \A k \in A : k \in Range(claims)
    OBVIOUS
  <2>4. \A t : InvalidAmong(A, t) = InvalidClaims(claims, t)
    BY <2>2, <2>3 DEF InvalidAmong, InvalidClaims
  <2>5. GroupsAmong(A) = ClaimGroups(claims)
    BY <2>4 DEF GroupsAmong, ClaimGroups
  <2>6. CountedAmong(A, "CONTRADICTS") = CountedClaims(claims, "CONTRADICTS")
    BY <2>2, <2>3 DEF CountedAmong, CountedClaims
  <2> QED
    BY <2>4, <2>5, <2>6
<1>5. InvalidAmong(A, "PRIMARY") # {} => InvalidClaims(claims, "PRIMARY") # {}
    BY <1>1
<1>6. Cardinality(GroupsAmong(A)) >= 2 => Cardinality(ClaimGroups(claims)) >= 2
  <2> DEFINE m == Cardinality(GroupsAmong(A))
             n == Cardinality(ClaimGroups(claims))
  <2>1. m <= n /\ m \in Nat /\ n \in Nat
    BY <1>3
  <2> HIDE DEF m, n
  <2>2. m >= 2 => n >= 2
    BY <2>1
  <2> QED
    BY <2>2 DEF m, n
<1> QED
    BY <1>4, <1>5, <1>6, Zenon

\* The catalyst of a plan, the gates of a review and its score on one valid classification.
LEMMA ClassificationsJudgedAlike ==
    ASSUME NEW claims \in Seq(ClaimRows), ClassificationsValid(claims),
           \A k \in Range(claims) : ClaimValid(k), NEW codes
    PROVE  JudgedAlike(claims, codes)
<1> DEFINE invalid == InvalidClaims(claims, "PRIMARY") # {} \/ Cardinality(ClaimGroups(claims)) >= 2
           w == Weighed(claims)
           A == {k \in Range(claims) : k.event \in codes}
           invalidA == InvalidAmong(A, "PRIMARY") # {} \/ Cardinality(GroupsAmong(A)) >= 2
           quality == Catalyst([codes |-> codes], [claims |-> claims]).quality
           elsewhere == \E k \in Range(claims) : k.event \notin codes /\ k.relation = "CONTRADICTS"
<1>1. w.invalid = invalid
    BY InvalidAlike, WeighedIs
<1>2. VerifiedInvalidation(claims) = invalid
  <2>1. VerifiedInvalidation(claims)
           = (InvalidPlaces(claims, "PRIMARY") # {} \/ Cardinality(PlaceGroups(claims)) >= 2)
    BY DEF VerifiedInvalidation, InvalidPlaces, PlaceGroups
  <2> QED
    BY <2>1, InvalidAlike
<1>3. quality = IF claims = <<>> THEN "MISSING" ELSE Assessment(A).quality
    BY DEF Catalyst
<1>4. claims = <<>> => ~invalid
  <2> SUFFICES ASSUME claims = <<>> PROVE ~invalid
    OBVIOUS
  <2>1. Range(claims) = {}
    BY DEF Range
  <2>2. InvalidClaims(claims, "PRIMARY") = {} /\ ClaimGroups(claims) = {}
    BY <2>1 DEF InvalidClaims, ClaimGroups
  <2>3. Cardinality(ClaimGroups(claims)) = 0
    BY <2>2, FS_EmptySet
  <2>4. ~(Cardinality(ClaimGroups(claims)) >= 2)
    BY <2>3
  <2> QED
    BY <2>2, <2>4, Zenon
<1>5. /\ Assessment(A).quality = "AUTHORITATIVE_CONTRADICTION" <=> invalidA
      /\ Assessment(A).quality = "CLEAR" => ~invalidA /\ CountedAmong(A, "CONTRADICTS") = {}
  <2> HIDE DEF A
  <2> QED
    BY AssessmentIs
<1>6. /\ invalidA => invalid
      /\ ~elsewhere => /\ invalid => invalidA
                       /\ CountedAmong(A, "CONTRADICTS") = CountedClaims(claims, "CONTRADICTS")
  <2>1. PICK S : S = A
    OBVIOUS
  <2> HIDE DEF A
  <2>2. /\ InvalidAmong(A, "PRIMARY") # {} => InvalidClaims(claims, "PRIMARY") # {}
        /\ Cardinality(GroupsAmong(A)) >= 2 => Cardinality(ClaimGroups(claims)) >= 2
        /\ (\A k \in Range(claims) : k.event \in codes \/ k.relation # "CONTRADICTS") =>
              /\ \A t : InvalidAmong(A, t) = InvalidClaims(claims, t)
              /\ GroupsAmong(A) = ClaimGroups(claims)
              /\ CountedAmong(A, "CONTRADICTS") = CountedClaims(claims, "CONTRADICTS")
    <3>1. A = {k \in Range(claims) : k.event \in codes}
      BY DEF A
    <3> QED
      BY <3>1, LeftInvalidate
  <2> QED
    BY <2>2
<1> HIDE DEF A, invalidA, quality, elsewhere
<1>7. quality = "AUTHORITATIVE_CONTRADICTION" => invalid
    BY <1>3, <1>5, <1>6
<1>8. ~elsewhere /\ invalid => quality = "AUTHORITATIVE_CONTRADICTION"
    BY <1>3, <1>4, <1>5, <1>6
<1>9. ~elsewhere /\ quality = "CLEAR" => ~invalid /\ CountedClaims(claims, "CONTRADICTS") = {}
    BY <1>3, <1>5, <1>6
<1>10. ASSUME ~elsewhere, quality = "CLEAR" PROVE ScoreEvidence("ASSESSED", claims) = "INTACT"
  <2>1. ASSUME NEW c \in CountedIn(claims)
        PROVE  /\ ClaimOf(claims, c).relation = "SUPPORTS"
               /\ ClaimWeight(ClaimOf(claims, c)) \in Nat
    <3> DEFINE k == ClaimOf(claims, c)
    <3>1. c \in Clusters(claims) /\ k.relevance >= 6 /\ k.confidence >= 6 /\ k.relation # "NEUTRAL"
      BY DEF CountedIn
    <3>2. k \in Range(claims)
      BY <3>1, JudgedAreListed
    <3>3. k \in ClaimRows
      BY <3>2 DEF Range
    <3> HIDE DEF k
    <3>4. k.relation # "CONTRADICTS"
      BY <1>9, <1>10, <3>1, <3>2 DEF CountedClaims
    <3>5. k.relation = "SUPPORTS"
      BY <3>1, <3>3, <3>4 DEF ClaimRows
    <3>6. k.materiality \in Nat /\ k.relevance \in Nat /\ k.confidence \in Nat
      BY <3>2 DEF ClaimValid
    <3>7. TierWeight[k.tier] \in Nat
      BY <3>3, TierWeights
    <3>8. ClaimWeight(k) \in Nat
      <4> DEFINE a == k.materiality * k.relevance
      <4>1. a \in Nat
        BY <3>6
      <4> HIDE DEF a
      <4>2. a * k.confidence \in Nat
        BY <3>6, <4>1
      <4> DEFINE b == a * k.confidence
      <4> HIDE DEF b
      <4>3. b * TierWeight[k.tier] \in Nat
        BY <3>7, <4>2 DEF b
      <4> QED
        BY <4>3 DEF ClaimWeight, a, b
    <3> QED
      BY <3>5, <3>8 DEF k
  <2>2. CountedIn(claims) \in SUBSET Clusters(claims)
    BY DEF CountedIn
  <2>3. w.total \in Nat /\ w.net = w.total
    <3>1. /\ WeightOf(claims, CountedIn(claims)) \in Nat
          /\ SignedOf(claims, CountedIn(claims)) = WeightOf(claims, CountedIn(claims))
      BY <2>1, <2>2, SupportIsWhole
    <3> QED
      BY <3>1, WeighedIs
  <2>4. ~w.invalid
    BY <1>1, <1>9, <1>10
  <2> HIDE DEF w
  <2>5. 4 * w.net >= w.total
    BY <2>3
  <2> QED
    BY <2>4, <2>5 DEF ScoreEvidence, w
<1> HIDE DEF invalid
<1> QED
    BY <1>1, <1>2, <1>7, <1>8, <1>10 DEF JudgedAlike, quality, elsewhere

\* Evidence is judged by what it says: for any list of claims in which no two sources of one tier
\* tell the same story a story counts once, in every order; on a valid classification the judges
\* of a review agree, and the catalyst of a plan with any event codes differs from them only if a
\* claim of another event contradicts; and bars and closes of after the boundary change no
\* signal (policy/evaluation.py, opportunity_catalyst.py, opportunity_signals.py).
THEOREM EvidenceIsJudged ==
    question \in Questions => EvidenceIsJudgedAlike
<1> SUFFICES ASSUME question \in Questions PROVE EvidenceIsJudgedAlike
    OBVIOUS
<1>1. ASSUME question.about = "CLAIMS"
      PROVE  /\ ~Tied(question.claims) => CountsOnce(question.claims)
             /\ (/\ ClassificationsValid(question.claims)
                 /\ \A k \in Range(question.claims) : ClaimValid(k)) =>
                   \A codes \in SUBSET {k.event : k \in Range(question.claims)} :
                       JudgedAlike(question.claims, codes)
  <2>1. question.claims \in ClaimLists
    BY <1>1 DEF Questions
  <2>2. question.claims \in Seq(ClaimRows)
    BY <2>1, ClaimAssumption
  <2> QED
    BY <2>2, StoryCountsOnce, ClassificationsJudgedAlike
<1>2. ASSUME question.about = "SIGNALS" PROVE question.delivery \in SignalCases
    BY <1>2 DEF Questions
<1>3. ASSUME question.about = "SIGNALS", NEW known,
             known = KnownAt(question.delivery.spec, question.delivery.evidence, question.delivery.boundary)
      PROVE  LET c == question.delivery
             IN  /\ SignalsCollected(c.spec, c.evidence, c.boundary, c.boundary)
                      = SignalsCollected(c.spec, known, c.boundary, c.boundary)
                 /\ SignalsCollected(c.spec, known, c.boundary, c.boundary) =>
                       Signals(c.spec, c.evidence, c.boundary) = Signals(c.spec, known, c.boundary)
    BY <1>2, <1>3, SignalsAlike
<1> QED
    BY <1>1, <1>3 DEF EvidenceIsJudgedAlike

=============================================================================
