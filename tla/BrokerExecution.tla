--------------------------- MODULE BrokerExecution ---------------------------
(***************************************************************************)
(* One claimed intent on its way to a certificate: the workers that run     *)
(* ExecutionService.execute, the rows SQLAlchemyExecutionRepository keeps    *)
(* for it, and the broker.  A worker step is one database transaction or    *)
(* one broker call; between two steps of a worker every other worker, the   *)
(* broker, the network and the clock may move.                             *)
(*                                                                         *)
(* The clock is a set of flags that only time raises: a prepared permit     *)
(* has expired, the network horizon of a dispatched one has passed, the     *)
(* lookup cadence of an attempt has passed, its transition deadline has      *)
(* passed, the next boundary since the first dispatch has been reached, the  *)
(* authorization has lapsed.  Each may be raised at any moment.             *)
(***************************************************************************)
EXTENDS OrderStatus, Sequences, FiniteSetsExt

CONSTANTS
    Workers,     \* processes or threads that execute the intent
    Qty,         \* envelope.quantity
    LastOrdinal, \* how often an order may be replaced (3 in the code)
    MaxPermits,  \* bound: permits ever issued
    MaxCrashes,  \* bound: runs that end in the middle
    Faults,      \* which of the following may happen
    Prompt       \* a worker dispatches before its permit, its quotes and the authorization expire

\* timeout: the answer to a write is lost.  drop: a request never arrives.  refuse: the
\* broker answers a write with a definite error.  lookup: a lookup fails.  sweep: a sweep
\* fails reconciliation for a reason outside this intent (stale, unstable, cash).  lag: fill
\* activities are not visible yet.  lapse: the authorization runs out before the first
\* dispatch, expire: after it.  stall: an order stays in transition past its deadline.
FaultKinds == {"timeout", "drop", "refuse", "lookup", "sweep", "lag", "lapse", "expire", "stall"}

ASSUME BrokerExecutionAssumption ==
    /\ Qty \in Nat \ {0}
    /\ LastOrdinal \in 0..3
    /\ MaxPermits \in Nat /\ MaxCrashes \in Nat
    /\ Faults \subseteq FaultKinds
    /\ Prompt \in BOOLEAN

Ordinals == 0..LastOrdinal
Kinds == {"SUBMIT", "REPLACE", "CANCEL"}
PermitStates == {"PREPARED", "DISPATCHING", "LOOKUP_ONLY", "CONSUMED", "EXPIRED"}
ACTIVE == {"PREPARED", "DISPATCHING", "LOOKUP_ONLY"}
DISPATCHED == {"DISPATCHING", "LOOKUP_ONLY", "CONSUMED"}

\* Boundaries after the first dispatch: stage k is due_seconds[k - 1], Hard is 600 seconds.
Hard == LastOrdinal + 1

VARIABLES
    intent,      \* ExecutionIntentRow.state
    locked,      \* AccountRoleRow.execution_locked
    certified,   \* the filled quantity the certificate stands for
    authorized,  \* the authorization window is open
    first_valid, \* it was open at the first dispatch
    stage,       \* boundaries passed since the first dispatch
    attempts,    \* OrderAttemptRow by ordinal, with what its AttemptObservationRows say
    permits,     \* BrokerMutationPermitRow in the order of issue
    last,        \* the permit of the newest observation if it carries an order, else 0
    orders,      \* the broker's order for each ordinal
    net,         \* permits whose request is on its way to the broker
    wk,          \* what each worker is doing
    crashes      \* runs that ended in the middle so far

rows == <<intent, locked, certified, attempts, permits, last>>
clock == <<authorized, first_valid, stage, crashes>>
broker == <<orders, net>>
vars == <<rows, clock, broker, wk>>

NoOrder == [st |-> "NONE", fill |-> 0]
NoSweep == [open |-> {}, held |-> 0, good |-> TRUE]
Idle == [pc |-> "idle", mode |-> "first", kind |-> "SUBMIT", p |-> 0, ord |-> 0,
         seen |-> NoOrder, sweep |-> NoSweep, stage |-> 0, tries |-> 0]

Attempt(st, fill) == [st |-> st, fill |-> fill, looked |-> FALSE, fresh |-> FALSE, stalled |-> FALSE]
Row(o) == attempts[o + 1]
Order(o) == [st |-> Row(o).st, fill |-> Row(o).fill]
Rows == 0..(Len(attempts) - 1)

Init ==
    /\ intent = "CLAIMED"
    /\ locked = FALSE
    /\ certified = 0
    /\ authorized = TRUE
    /\ first_valid = FALSE
    /\ stage = 0
    /\ attempts = <<>>
    /\ permits = <<>>
    /\ last = 0
    /\ orders = [o \in Ordinals |-> NoOrder]
    /\ net = {}
    /\ wk = [w \in Workers |-> Idle]
    /\ crashes = 0

-----------------------------------------------------------------------------
(* What the repository reads from its rows *)

CreationKind(o) == IF o = 0 THEN "SUBMIT" ELSE "REPLACE"
Generations(kind, o) == {p \in DOMAIN permits : permits[p].kind = kind /\ permits[p].ord = o}

\* _creation_permit: the latest generation of the permit that creates the attempt
CreationPermit(o) == Max(Generations(CreationKind(o), o))
CreationState(o) == permits[CreationPermit(o)].st

\* _execution_attempt_rows: a replacement that a hard cancel superseded is left out.
Superseded == /\ Len(attempts) >= 2
              /\ Row(Len(attempts) - 1).st = "PREPARED"
              /\ CreationState(Len(attempts) - 1) = "EXPIRED"
SupersededByCancel ==
    \E p \in Generations("CANCEL", Len(attempts) - 2) :
        permits[p].pred = CreationPermit(Len(attempts) - 1)
Current == IF Superseded THEN Len(attempts) - 2 ELSE Len(attempts) - 1

\* The order a replacement or a cancel is aimed at (_canonical_attempt_for_mutation)
Target == IF Len(attempts) >= 2 /\ Row(Len(attempts) - 1).st = "PREPARED"
          THEN Len(attempts) - 2 ELSE Len(attempts) - 1

Active == {p \in DOMAIN permits : permits[p].st \in ACTIVE}

\* next_broker_mutation
Unsent == Row(Current).st = "PREPARED" /\ CreationState(Current) = "PREPARED"
Mutable == Row(Current).st \in MUTATION_ELIGIBLE /\ Active = {} /\ Row(Current).looked

SubmitDue == \/ attempts = <<>>
             \/ Current = 0 /\ Unsent /\ permits[CreationPermit(0)].late
CancelDue == /\ attempts # <<>>
             /\ \/ Current > 0 /\ Unsent /\ stage = Hard
                \/ Mutable /\ (Row(Current).st = "PARTIALLY_FILLED" \/ stage = Hard)
ReplaceDue == /\ attempts # <<>>
              /\ ~CancelDue
              /\ \/ Current > 0 /\ Unsent /\ permits[CreationPermit(Current)].late
                 \/ Mutable /\ Current < LastOrdinal /\ stage > Current
Due(kind) == CASE kind = "SUBMIT" -> SubmitDue
               [] kind = "REPLACE" -> ReplaceDue
               [] kind = "CANCEL" -> CancelDue

\* _validate_replacement_attempt: the replacement follows the attempt that the broker has
\* accepted, and no part of that one has filled. (ReplacementPricing: the rest of it, the
\* limit price and its quotes.)
ReplacementFollows(o) ==
    /\ o = Target + 1
    /\ Row(Target).st \in MUTATION_ELIGIBLE \ {"PARTIALLY_FILLED"}

\* _reconciliation_expectation_from_rows: the planned attempt is still the one the rows
\* lead to.
PlannedOrdinal(kind) == CASE kind = "SUBMIT" -> 0
                          [] kind = "REPLACE" -> Target + 1
                          [] kind = "CANCEL" -> Target
Material(kind, o, seen) ==
    CASE kind = "SUBMIT" -> attempts = <<>> \/ (Len(attempts) = 1 /\ Row(0).st = "PREPARED")
      [] kind = "REPLACE" -> ReplacementFollows(o)
      [] kind = "CANCEL" -> /\ o = Target
                            /\ seen = Order(Target)
                            /\ seen.st \in MUTATION_ELIGIBLE

\* plan_broker_mutation and the reads before it: the worker goes on to the sweep, or an
\* error ends its run.
Planned(kind) ==
    LET seen == IF kind = "CANCEL" THEN Order(Target) ELSE NoOrder
        plan == [Idle EXCEPT !.pc = "sweep", !.kind = kind, !.ord = PlannedOrdinal(kind),
                             !.seen = seen, !.stage = IF kind = "REPLACE" THEN stage ELSE 0]
    IN  IF ~locked /\ intent = "CLAIMED" /\ Material(kind, PlannedOrdinal(kind), seen)
        THEN plan ELSE Idle

Go(w, to) == wk' = [wk EXCEPT ![w] = to]
Stop(w) == Go(w, Idle)
At(w, pc) == wk[w].pc = pc

-----------------------------------------------------------------------------
(* ExecutionService.advance: lookup of an order in transition *)

\* targeted_lookup_authority
LookupActive == {p \in DOMAIN permits : permits[p].st = "LOOKUP_ONLY" /\ permits[p].ord = Current}
\* Mutant: an order in transition is not looked up.
LookupsAllowedMutable ==
    /\ Row(Current).st \in MUTATION_ELIGIBLE
    /\ \A p \in DOMAIN permits : permits[p].st \notin {"PREPARED", "DISPATCHING"}

LookupsAllowed ==
    /\ Row(Current).st \in PENDING
    /\ Row(Current).st \in MUTATION_ELIGIBLE =>
           \A p \in DOMAIN permits : permits[p].st \notin {"PREPARED", "DISPATCHING"}
ConsumedLookup ==
    {p \in IF Row(Current).st = "PENDING_CANCEL" THEN Generations("CANCEL", Current)
                                                 ELSE {CreationPermit(Current)} :
        permits[p].st = "CONSUMED"}
LookupRefused == LookupActive = {} /\ LookupsAllowed /\ ConsumedLookup = {}
LookupPermit ==
    IF LookupActive # {}
    THEN {p \in LookupActive : permits[p].late /\ ~Row(Current).fresh}
    ELSE IF LookupsAllowed /\ ~LookupRefused /\ ~Row(Current).fresh
         THEN {Max(ConsumedLookup)} ELSE {}

\* _lookup_transitional up to the call; a transition past its deadline latches the account.
LookupAuthority(w, mode) ==
    IF LookupPermit = {}
    THEN /\ Go(w, [Idle EXCEPT !.pc = IF mode = "first" /\ ~LookupRefused THEN "schedule" ELSE "idle"])
         /\ UNCHANGED locked
    ELSE /\ \E p \in LookupPermit :
                Go(w, [Idle EXCEPT !.pc = "lookup", !.mode = mode, !.p = p, !.ord = Current])
         /\ locked' = (locked \/ (Row(Current).st \in LOOKUP_ONLY /\ Row(Current).stalled))

Advance(w) ==
    /\ At(w, "idle")
    /\ intent = "CLAIMED"
    /\ IF attempts = <<>>
       THEN Go(w, [Idle EXCEPT !.pc = "schedule"]) /\ UNCHANGED locked
       ELSE LookupAuthority(w, "first")
    /\ UNCHANGED <<intent, certified, attempts, permits, last, clock, broker>>

LookupAgain(w) ==
    /\ At(w, "again")
    /\ IF intent = "CLAIMED" THEN LookupAuthority(w, "again") ELSE Stop(w) /\ UNCHANGED locked
    /\ UNCHANGED <<intent, certified, attempts, permits, last, clock, broker>>

\* AlpacaOrderWriteAdapter.lookup
Lookup(w) ==
    /\ At(w, "lookup")
    /\ \E seen \in {orders[wk[w].ord]}
                   \cup (IF "lookup" \in Faults THEN {[st |-> "FAILED", fill |-> 0]} ELSE {}) :
           Go(w, [wk[w] EXCEPT !.pc = "record", !.seen = seen])
    /\ UNCHANGED <<rows, clock, broker>>

-----------------------------------------------------------------------------
(* Observations *)

\* validate_attempt_observation
ValidObservation(o, seen) ==
    /\ StateMatchesFill(seen.st, seen.fill, Qty)
    /\ seen.fill >= Row(o).fill
    /\ Row(o).st \in TERMINAL => seen.st = Row(o).st

\* A new observation makes a final sweep that started before it too old.
Outdate(ws) == [v \in Workers |-> IF ws[v].pc = "finalize"
                                  THEN [ws[v] EXCEPT !.mode = "outdated"] ELSE ws[v]]

LookupPending(p, seen) ==
    /\ permits[p].st = "LOOKUP_ONLY"
    /\ permits[p].kind \in {"SUBMIT", "REPLACE"}
    /\ seen.st \in PENDING
    /\ ~(seen.st = "CALCULATED" /\ seen.fill = Qty)

\* Mutant: the observation is written to the newest attempt.
ObservedOrdinalNewest(p) == Len(attempts) - 1

\* The attempt an observation belongs to: the one its permit was issued for.
ObservedOrdinal(p) == permits[p].ord

\* record_attempt_observation, once its checks have passed
Observe(p, seen, lookup) ==
    LET o == ObservedOrdinal(p)
        settles == permits[p].st \in {"DISPATCHING", "LOOKUP_ONLY"} /\ ~LookupPending(p, seen)
    IN  /\ attempts' = [attempts EXCEPT ![o + 1] =
               [st |-> seen.st, fill |-> seen.fill, looked |-> @.looked \/ lookup, fresh |-> TRUE,
                stalled |-> @.stalled /\ @.st = seen.st]]
        /\ permits' = [permits EXCEPT ![p] =
               [@ EXCEPT !.st = IF settles THEN "CONSUMED" ELSE permits[p].st,
                         !.proof = IF lookup /\ permits[p].kind = "CANCEL" /\ permits[p].late
                                   THEN seen ELSE NoOrder]]
        /\ last' = p

\* _cancel_active: a cancel that is pending is looked up twice more; then the order has
\* ended, filled or not, or the run waits.
AfterCancel(w, seen) ==
    LET ended == seen.st = "FILLED" \/ (seen.st = "CANCELED" /\ seen.fill < Qty)
    IN  IF seen.st = "PENDING_CANCEL" /\ wk[w].tries < 2
        THEN [wk[w] EXCEPT !.pc = "lookup", !.tries = @ + 1, !.seen = NoOrder]
        ELSE IF ended THEN [Idle EXCEPT !.pc = "final"] ELSE Idle

\* What follows a recorded order: the certificate, the schedule, another look, or nothing.
AfterObservation(w, seen) ==
    IF wk[w].mode = "cancel" THEN AfterCancel(w, seen)
    ELSE IF RequiresFinalization(seen.st, seen.fill, Qty) THEN [Idle EXCEPT !.pc = "final"]
    ELSE IF wk[w].mode = "first" /\ seen.st \in MUTATION_ELIGIBLE
         THEN [Idle EXCEPT !.pc = "schedule"] ELSE Idle

MayLookUp(p) == intent = "CLAIMED" /\ permits[p].st \in {"CONSUMED", "LOOKUP_ONLY"}

\* A found order is recorded under the permit that authorized the lookup.
RecordLookup(w) ==
    LET p == wk[w].p
        seen == wk[w].seen
    IN  /\ At(w, "record")
        /\ seen.st \notin {"NONE", "FAILED"}
        /\ IF /\ MayLookUp(p)
              /\ permits[p].kind = "CANCEL" /\ permits[p].st = "LOOKUP_ONLY" => permits[p].late
              /\ ValidObservation(permits[p].ord, seen)
           THEN /\ Observe(p, seen, TRUE)
                /\ wk' = Outdate([wk EXCEPT ![w] = AfterObservation(w, seen)])
           ELSE Stop(w) /\ UNCHANGED <<attempts, permits, last>>
        /\ UNCHANGED <<intent, locked, certified, clock, broker>>

\* record_attempt_absence and record_attempt_lookup_failure; an order that is to be
\* cancelled and does not exist latches the account.
RecordNoOrder(w) ==
    LET p == wk[w].p
        absent == wk[w].seen.st = "NONE"
        cancels == permits[p].kind = "CANCEL"
    IN  /\ At(w, "record")
        /\ wk[w].seen.st \in {"NONE", "FAILED"}
        /\ IF MayLookUp(p) /\ (absent /\ cancels => permits[p].late)
           THEN /\ attempts' = [attempts EXCEPT ![permits[p].ord + 1].fresh = TRUE]
                /\ permits' = [permits EXCEPT ![p].proof = NoOrder]
                /\ last' = 0
                /\ locked' = (locked \/ (absent /\ cancels))
                /\ wk' = Outdate([wk EXCEPT ![w] = Idle])
           ELSE Stop(w) /\ UNCHANGED <<attempts, permits, last, locked>>
        /\ UNCHANGED <<intent, certified, clock, broker>>

-----------------------------------------------------------------------------
(* Scheduling and preparing a broker write *)

\* advance after the lookup, and _waiting_or_finalized_advance when nothing is due
Schedule(w) ==
    LET due == {kind \in Kinds : Due(kind)}
    IN  /\ At(w, "schedule")
        /\ IF intent # "CLAIMED" THEN Stop(w)
           ELSE IF due # {} /\ ~locked
           THEN \E kind \in due : Go(w, IF kind = "REPLACE" THEN [Idle EXCEPT !.pc = "quotes"]
                                                            ELSE Planned(kind))
           ELSE IF attempts = <<>> THEN Stop(w)
           ELSE IF RequiresFinalization(Row(Current).st, Row(Current).fill, Qty)
           THEN Go(w, [Idle EXCEPT !.pc = "final"])
           ELSE Go(w, [Idle EXCEPT !.pc = "again"])
        /\ UNCHANGED <<rows, clock, broker>>

\* _replace_due after the quotes: the schedule is read again, and a limit price that cannot
\* move any further ends the run.
Quotes(w) ==
    /\ At(w, "quotes")
    /\ \/ Stop(w) /\ ~Prompt
       \/ /\ intent = "CLAIMED" /\ ~locked
          /\ \E kind \in {"REPLACE", "CANCEL"} : Due(kind) /\ Go(w, Planned(kind))
       \/ /\ intent # "CLAIMED" \/ locked \/ ~(Due("REPLACE") \/ Due("CANCEL"))
          /\ Stop(w)
    /\ UNCHANGED <<rows, clock, broker>>

OpenOrders == {o \in Ordinals : orders[o].st \in PENDING}
HeldIn(book) == MapThenSumSet(LAMBDA o : book[o].fill, Ordinals)
Held == HeldIn(orders)
SweepsNow == {[open |-> {[ord |-> o, st |-> orders[o].st, fill |-> orders[o].fill] : o \in OpenOrders},
               held |-> Held, good |-> good] :
              good \in IF "sweep" \in Faults THEN BOOLEAN ELSE {TRUE}}

\* WholeAccountSweepPort.collect
Sweep(w) ==
    /\ At(w, "sweep")
    /\ \E s \in SweepsNow : Go(w, [wk[w] EXCEPT !.pc = "prepare", !.sweep = s])
    /\ UNCHANGED <<rows, clock, broker>>

\* WholeAccountReconciliation.evaluate against the expectation of the rows
SweepSafe(kind, s) ==
    /\ s.good
    /\ IF kind = "SUBMIT" THEN s.open = {} /\ s.held = 0
       ELSE /\ s.open = {[ord |-> Target, st |-> Row(Target).st, fill |-> Row(Target).fill]}
            /\ s.held = Row(Target).fill

\* The replacement attempt exists already and its permit is issued again.
Reauthorizes(kind, o) == kind = "REPLACE" /\ o \in Rows

\* Mutant: a generation that has run out is issued again even if it was dispatched.
RenewableEvenIfDispatched(p) == permits[p].late

\* _expire_prepared_generation
Renewable(p) == permits[p].st = "PREPARED" /\ permits[p].late

\* _verify_consumed_cancel_retry
RetryProven(p) == permits[p].st = "CONSUMED" /\ permits[p].proof = Order(Target)

\* The replacement a hard cancel has to supersede
Pending(kind) == IF kind = "CANCEL" /\ Target < Len(attempts) - 1
                 THEN {CreationPermit(Len(attempts) - 1)} ELSE {}
Prior(kind, o) == IF Generations(kind, o) = {} THEN {} ELSE {Max(Generations(kind, o))}

\* The per-purpose checks of prepare_broker_mutation, _expire_prepared_generation and
\* _supersede_prepared_replacement_for_hard_cancel
MayIssue(kind, o) ==
    /\ \A p \in Prior(kind, o) : Renewable(p) \/ (kind = "CANCEL" /\ RetryProven(p))
    /\ kind = "CANCEL" \/ (kind = "REPLACE" /\ ~Reauthorizes(kind, o))
           => CreationState(Target) = "CONSUMED"
    /\ \A p \in Pending(kind) : permits[p].st = "PREPARED" /\ stage = Hard

\* Mutant: a cancel is always linked to the permit that created its order.
PredecessorCreation(kind, o) ==
    IF Prior(kind, o) # {} THEN Max(Prior(kind, o))
    ELSE IF kind = "SUBMIT" THEN 0 ELSE CreationPermit(Target)

\* predecessor_permit_id of a new permit, 0 for none
Predecessor(kind, o) ==
    IF Prior(kind, o) # {} THEN Max(Prior(kind, o))
    ELSE IF Pending(kind) # {} THEN Max(Pending(kind))
    ELSE IF kind = "SUBMIT" THEN 0 ELSE CreationPermit(Target)

\* The attempt row is inserted with its first permit.
AttemptsWith(o) == IF o \in Rows THEN attempts ELSE Append(attempts, Attempt("PREPARED", 0))

Issue(kind, o) ==
    LET expiring == {p \in Prior(kind, o) \cup Pending(kind) : permits[p].st = "PREPARED"}
        new == [kind |-> kind, ord |-> o, st |-> "PREPARED", late |-> FALSE, proof |-> NoOrder,
                pred |-> Predecessor(kind, o)]
    IN  /\ permits' = Append([p \in DOMAIN permits |->
                                IF p \in expiring THEN [permits[p] EXCEPT !.st = "EXPIRED"]
                                ELSE permits[p]], new)
        /\ attempts' = AttemptsWith(o)

\* prepare_broker_mutation.  The boundary of a replacement is checked at its timing
\* authority: now for a new one, the time of the schedule for one that exists.
Prepare(w) ==
    LET kind == wk[w].kind
        o == wk[w].ord
        authority == intent = "CLAIMED" /\ ~locked /\ authorized /\ Material(kind, o, wk[w].seen)
        boundary == IF Reauthorizes(kind, o) THEN wk[w].stage ELSE stage
        cancel_due == kind = "REPLACE" /\ boundary = Hard
        safe == SweepSafe(kind, wk[w].sweep)
        issues == MayIssue(kind, o) /\ Len(permits) < MaxPermits
    IN  /\ At(w, "prepare")
        /\ \/ /\ ~authority
              /\ Stop(w) /\ UNCHANGED rows
           \/ /\ authority /\ cancel_due
              /\ Go(w, Planned("CANCEL")) /\ UNCHANGED rows
           \/ /\ authority /\ ~cancel_due /\ ~safe
              /\ locked' = TRUE
              /\ Stop(w) /\ UNCHANGED <<intent, certified, attempts, permits, last>>
           \/ /\ authority /\ ~cancel_due /\ safe /\ ~issues
              /\ Stop(w) /\ UNCHANGED rows
           \/ /\ authority /\ ~cancel_due /\ safe /\ issues
              /\ Issue(kind, o)
              /\ Go(w, [Idle EXCEPT !.pc = "acquire", !.kind = kind, !.ord = o,
                                    !.p = Len(permits) + 1,
                                    !.mode = IF kind = "CANCEL" THEN "cancel" ELSE "submit"])
              /\ UNCHANGED <<intent, locked, certified, last>>
        /\ UNCHANGED <<clock, broker>>

-----------------------------------------------------------------------------
(* Dispatch and its outcome *)

\* _validate_replacement_dispatch_authority: the day's end is too near for a replacement,
\* or its quotes may be too old by now.
CancelIsDue(p) == permits[p].kind = "REPLACE" /\ stage = Hard
QuotesMayBeStale(p) == permits[p].kind = "REPLACE" /\ ~Prompt

\* acquire_broker_dispatch and the call that follows it; the authorization is not read.
Acquire(w) ==
    LET p == wk[w].p
        valid == intent = "CLAIMED" /\ ~locked /\ permits[p].st = "PREPARED" /\ ~permits[p].late
        cancel_due == CancelIsDue(p)
    IN  /\ At(w, "acquire")
        /\ \/ /\ ~valid
              /\ Stop(w) /\ UNCHANGED <<permits, net, first_valid>>
           \/ /\ valid /\ cancel_due
              /\ Go(w, Planned("CANCEL")) /\ UNCHANGED <<permits, net, first_valid>>
           \/ /\ valid /\ ~cancel_due
              /\ QuotesMayBeStale(p)
              /\ Stop(w) /\ UNCHANGED <<permits, net, first_valid>>
           \/ /\ valid /\ ~cancel_due
              /\ permits' = [permits EXCEPT ![p].st = "DISPATCHING"]
              /\ net' = net \cup {p}
              /\ first_valid' = IF permits[p].kind = "SUBMIT" THEN authorized ELSE first_valid
              /\ Go(w, [wk[w] EXCEPT !.pc = "call"])
        /\ UNCHANGED <<intent, locked, certified, attempts, last, authorized, stage, crashes, orders>>

\* _replace_active, _submit_active: an order whose creation was not answered is looked up
\* at once, a cancelled one only after the network horizon.
AfterNoAnswer(w) == IF wk[w].kind = "CANCEL" THEN Idle ELSE [wk[w] EXCEPT !.pc = "lookup"]

\* No answer arrived: mark_broker_dispatch_ambiguous.
Ambiguous(w) ==
    LET p == wk[w].p
    IN  /\ At(w, "call")
        /\ p \notin net \/ "timeout" \in Faults
        /\ IF intent = "CLAIMED" /\ permits[p].st = "DISPATCHING"
           THEN /\ permits' = [permits EXCEPT ![p].st = "LOOKUP_ONLY"]
                /\ Go(w, AfterNoAnswer(w))
           ELSE Stop(w) /\ UNCHANGED permits
        /\ UNCHANGED <<intent, locked, certified, attempts, last, clock, broker>>

\* record_attempt_observation of the answer: refused once the account is latched.
RecordOutcome(w) ==
    LET p == wk[w].p
        seen == wk[w].seen
    IN  /\ At(w, "outcome")
        /\ IF /\ intent = "CLAIMED" /\ ~locked
              /\ permits[p].st = "DISPATCHING"
              /\ ValidObservation(permits[p].ord, seen)
           THEN /\ Observe(p, seen, FALSE)
                /\ wk' = Outdate([wk EXCEPT ![w] = AfterObservation(w, seen)])
           ELSE Stop(w) /\ UNCHANGED <<attempts, permits, last>>
        /\ UNCHANGED <<intent, locked, certified, clock, broker>>

-----------------------------------------------------------------------------
(* Finalization *)

\* The newest observation is of the current attempt.
ObservedLast == last # 0 /\ permits[last].ord = Current

\* final_reconciliation_expectation and the final sweep
FinalSweep(w) ==
    /\ At(w, "final")
    /\ IF /\ intent = "CLAIMED"
          /\ ObservedLast
          /\ OutcomeSupported(Row(Current).st, Row(Current).fill, Qty)
       THEN \E s \in SweepsNow : Go(w, [wk[w] EXCEPT !.pc = "finalize", !.mode = "first", !.sweep = s])
       ELSE Stop(w)
    /\ UNCHANGED <<rows, clock, broker>>

\* Mutant: the positions of the final sweep are not compared.
FinalSweepSafeOrdersOnly(s) == s.good /\ s.open = {}

\* _positions_after_fill: what the account holds once the current attempt has filled this
\* much of the intent.
PositionsAfterFill == Row(Current).fill

\* evaluate for the purpose FINAL: nothing open, and the positions the last attempt filled
FinalSweepSafe(s) == s.good /\ s.open = {} /\ s.held = PositionsAfterFill

\* _bound_attempt_activities: a fill whose activities the provider may not show yet.
ActivitiesMayBePending == Row(Current).fill > 0 /\ "lag" \in Faults

\* _finalize_active collects the evidence a second time before it gives up.
AfterPending(w) ==
    [Idle EXCEPT !.pc = IF wk[w].tries = 0 THEN "final" ELSE "idle", !.tries = 1 - wk[w].tries]

\* finalize_execution_authorized and validate_finalization
Finalize(w) ==
    LET s == wk[w].sweep
        cur == Row(Current)
        origin == intent = "CLAIMED" /\ first_valid /\ ObservedLast /\ cur.st \in FINALIZABLE
        safe == FinalSweepSafe(s)
        lineage == \A o \in 0..(Current - 1) : Row(o).fill = 0
    IN  /\ At(w, "finalize")
        /\ \/ /\ ~origin \/ wk[w].mode = "outdated"
              /\ Stop(w) /\ UNCHANGED rows
           \/ /\ origin /\ ActivitiesMayBePending
              /\ Go(w, AfterPending(w))
              /\ UNCHANGED rows
           \/ /\ origin /\ wk[w].mode # "outdated" /\ ~safe
              /\ locked' = TRUE
              /\ Stop(w) /\ UNCHANGED <<intent, certified, attempts, permits, last>>
           \/ /\ origin /\ wk[w].mode # "outdated" /\ safe /\ ~lineage
              /\ Stop(w) /\ UNCHANGED rows
           \/ /\ origin /\ wk[w].mode # "outdated" /\ safe /\ lineage
              /\ intent' = "TERMINAL"
              /\ certified' = cur.fill
              /\ locked' = (locked \/ (cur.fill > 0 /\ cur.fill < Qty))
              /\ Stop(w) /\ UNCHANGED <<attempts, permits, last>>
        /\ UNCHANGED <<clock, broker>>

\* The process stops, or an error outside the model ends the run.
Crash(w) ==
    /\ crashes < MaxCrashes
    /\ ~At(w, "idle")
    /\ Stop(w)
    /\ crashes' = crashes + 1
    /\ UNCHANGED <<rows, authorized, first_valid, stage, broker>>

-----------------------------------------------------------------------------
(* The broker and the network (external) *)

\* What processing the request of a permit may turn the orders into; none if it is refused.
\* A replacement is pending until the old order is closed; a fill may win that race.
Effects(p) ==
    LET o == permits[p].ord
    IN  CASE permits[p].kind = "SUBMIT" ->
               {[orders EXCEPT ![o].st = st] : st \in {"NEW", "REJECTED"}}
          [] permits[p].kind = "REPLACE" ->
               IF orders[o - 1].st \in {"NEW", "PARTIALLY_FILLED"}
               THEN {[orders EXCEPT ![o - 1].st = "PENDING_REPLACE", ![o].st = "PENDING_NEW"]} ELSE {}
          [] permits[p].kind = "CANCEL" ->
               IF orders[o].st \in {"NEW", "PARTIALLY_FILLED"}
               THEN {[orders EXCEPT ![o].st = st] : st \in {"PENDING_CANCEL", "CANCELED"}} ELSE {}

Waiting(p) == {w \in Workers : At(w, "call") /\ wk[w].p = p}

\* The request is processed and its answer arrives, or is lost with its caller or on the way;
\* the adapter reads a cancelled order again before it answers.
Deliver(p) ==
    /\ net' = net \ {p}
    /\ orders' \in Effects(p)
    /\ \/ \E w \in Waiting(p) :
              Go(w, IF permits[p].kind = "CANCEL" THEN [wk[w] EXCEPT !.pc = "reread"]
                    ELSE [wk[w] EXCEPT !.pc = "outcome", !.seen = orders'[permits[p].ord]])
       \/ (Waiting(p) = {} \/ "timeout" \in Faults) /\ UNCHANGED wk
    /\ UNCHANGED <<rows, clock>>

Reread(w) ==
    /\ At(w, "reread")
    /\ \/ Go(w, [wk[w] EXCEPT !.pc = "outcome", !.seen = orders[wk[w].ord]])
       \/ "timeout" \in Faults /\ Go(w, [wk[w] EXCEPT !.pc = "call"])
    /\ UNCHANGED <<rows, clock, broker>>

\* A definite error is raised through the service; without it the answer is uncertain.
Refuse(p) ==
    /\ Effects(p) = {} \/ "refuse" \in Faults
    /\ net' = net \ {p}
    /\ wk' = [w \in Workers |-> IF w \in Waiting(p) /\ "refuse" \in Faults THEN Idle ELSE wk[w]]
    /\ UNCHANGED <<rows, clock, orders>>

Drop(p) ==
    /\ "drop" \in Faults
    /\ net' = net \ {p}
    /\ UNCHANGED <<rows, clock, orders, wk>>

\* The order that is to replace o fails when o closes another way.
SuccessorFails(o) == o < LastOrdinal /\ orders[o + 1].st = "PENDING_NEW"
Becomes(o, new) ==
    orders' = [q \in Ordinals |-> IF q = o THEN new
                                  ELSE IF q = o + 1 /\ SuccessorFails(o)
                                       THEN [orders[q] EXCEPT !.st = "REJECTED"] ELSE orders[q]]

Fill(o) ==
    LET fill == orders[o].fill + 1
        st == orders[o].st
    IN  /\ st \in {"NEW", "PARTIALLY_FILLED", "PENDING_CANCEL", "PENDING_REPLACE"}
        /\ IF fill = Qty THEN Becomes(o, [st |-> "FILLED", fill |-> fill])
           ELSE orders' = [orders EXCEPT ![o] =
                    [st |-> IF st = "NEW" THEN "PARTIALLY_FILLED" ELSE st, fill |-> fill]]
        /\ UNCHANGED <<rows, clock, net, wk>>

\* The old order is closed, with the part of it that filled meanwhile, or it stays.
ReplaceResolves(o) ==
    /\ orders[o].st = "PENDING_REPLACE"
    /\ \/ orders' = [orders EXCEPT ![o].st = "REPLACED", ![o + 1].st = "NEW"]
       \/ Becomes(o, [orders[o] EXCEPT !.st = IF orders[o].fill = 0 THEN "NEW" ELSE "PARTIALLY_FILLED"])
    /\ UNCHANGED <<rows, clock, net, wk>>

Close(o) ==
    /\ orders[o].st \in {"NEW", "PARTIALLY_FILLED", "PENDING_CANCEL", "PENDING_REPLACE"}
    /\ \E st \in {"EXPIRED"} \cup (IF orders[o].st = "PENDING_CANCEL" THEN {"CANCELED"} ELSE {}) :
           Becomes(o, [orders[o] EXCEPT !.st = st])
    /\ UNCHANGED <<rows, clock, net, wk>>

-----------------------------------------------------------------------------
(* Time *)

\* expires_at of a prepared permit; for a dispatched one the later of expires_at and the
\* network horizon, within which its request has arrived or is gone.
PermitLate(p) ==
    /\ ~permits[p].late
    /\ \/ /\ permits[p].st = "PREPARED"
          /\ Prompt => \A w \in Workers : ~(At(w, "acquire") /\ wk[w].p = p)
       \/ /\ p \notin net
          /\ \/ permits[p].st = "LOOKUP_ONLY"
             \/ permits[p].st = "CONSUMED" /\ permits[p].kind = "CANCEL"
    /\ permits' = [permits EXCEPT ![p].late = TRUE]
    /\ UNCHANGED <<intent, locked, certified, attempts, last, clock, broker, wk>>

\* BrokerLookupPolicy.cadence
CadencePasses(o) ==
    /\ Row(o).fresh
    /\ attempts' = [attempts EXCEPT ![o + 1].fresh = FALSE]
    /\ UNCHANGED <<intent, locked, certified, permits, last, clock, broker, wk>>

\* BrokerLookupPolicy.deadline of a state that only lookups can leave
DeadlinePasses(o) ==
    /\ "stall" \in Faults
    /\ Row(o).st \in LOOKUP_ONLY
    /\ ~Row(o).stalled
    /\ attempts' = [attempts EXCEPT ![o + 1].stalled = TRUE]
    /\ UNCHANGED <<intent, locked, certified, permits, last, clock, broker, wk>>

NextBoundary ==
    /\ stage < Hard
    /\ \E p \in DOMAIN permits : permits[p].kind = "SUBMIT" /\ permits[p].st \in DISPATCHED
    /\ stage' = stage + 1
    /\ UNCHANGED <<rows, authorized, first_valid, crashes, broker, wk>>

AuthorizationLapses ==
    /\ authorized
    /\ \/ "lapse" \in Faults
       \/ /\ "expire" \in Faults
          /\ \E p \in DOMAIN permits : permits[p].kind = "SUBMIT" /\ permits[p].st \in DISPATCHED
    /\ Prompt => \A p \in DOMAIN permits : permits[p].st # "PREPARED"
    /\ authorized' = FALSE
    /\ UNCHANGED <<rows, first_valid, stage, crashes, broker, wk>>

-----------------------------------------------------------------------------

Step(w) ==
    \/ Advance(w) \/ LookupAgain(w) \/ Lookup(w) \/ RecordLookup(w) \/ RecordNoOrder(w)
    \/ Schedule(w) \/ Quotes(w) \/ Sweep(w) \/ Prepare(w) \/ Acquire(w) \/ Ambiguous(w)
    \/ Reread(w) \/ RecordOutcome(w) \/ FinalSweep(w) \/ Finalize(w)

Network(p) == Deliver(p) \/ Refuse(p) \/ Drop(p)

Next ==
    \/ \E w \in Workers : Step(w)
    \/ \E w \in Workers : Crash(w)
    \/ \E p \in net : Network(p)
    \/ \E o \in Ordinals : Fill(o) \/ ReplaceResolves(o) \/ Close(o)
    \/ \E p \in DOMAIN permits : PermitLate(p)
    \/ \E o \in Rows : CadencePasses(o) \/ DeadlinePasses(o)
    \/ NextBoundary
    \/ AuthorizationLapses

Spec == Init /\ [][Next]_vars

\* A scheduled run executes the intent again as long as it is claimed: AgentRunService.run does
\* so for an entry that waits (pending_execution_intents) and for a SUBMISSION close
\* (pending_submission_lifecycle_intents), and for no other intent: the close or the roll of a
\* DEVELOPMENT position is executed by the run that decided it and never again, and FairSpec is
\* not about those.  Besides, time passes, requests arrive, and the broker settles
\* replacements.
Fairness ==
    /\ \A w \in Workers : WF_vars(Step(w))
    /\ WF_vars(\E p \in net : Network(p))
    /\ \A o \in Ordinals : WF_vars(ReplaceResolves(o))
    /\ WF_vars(\E p \in DOMAIN permits : PermitLate(p))
    /\ WF_vars(\E o \in Rows : CadencePasses(o))
    /\ WF_vars(NextBoundary)

FairSpec == Spec /\ Fairness

\* Orders are good for the day (TimeInForce.DAY): the broker closes each of them in the end.
DaySpec == FairSpec /\ \A o \in Ordinals : WF_vars(Close(o))

-----------------------------------------------------------------------------
(* Properties *)

TypeOK ==
    /\ intent \in {"CLAIMED", "TERMINAL"}
    /\ locked \in BOOLEAN /\ authorized \in BOOLEAN /\ first_valid \in BOOLEAN
    /\ certified \in 0..Qty
    /\ stage \in 0..Hard
    /\ Len(attempts) <= LastOrdinal + 1
    /\ \A o \in Rows : Row(o).st \in KNOWN \cup {"PREPARED"} /\ Row(o).fill \in 0..Qty
    /\ Len(permits) <= MaxPermits
    /\ \A p \in DOMAIN permits : /\ permits[p].kind \in Kinds
                                 /\ permits[p].st \in PermitStates
                                 /\ permits[p].ord \in Rows
    /\ last \in {0} \cup DOMAIN permits
    /\ net \subseteq DOMAIN permits

\* Whatever workers race, time out or crash, the broker is asked at most once to create the
\* order of an attempt: a second permit generation is issued only if the first was never
\* dispatched (acquire_broker_dispatch, _expire_prepared_generation).
CreatedAtMostOnce ==
    \A o \in Rows :
        Cardinality({p \in Generations(CreationKind(o), o) : permits[p].st \in DISPATCHED}) <= 1

\* Nothing is written while the outcome of an earlier write is unknown: at most one broker
\* write of the intent is open.  The database index only covers one purpose and ordinal; the
\* rest rests on prepare_broker_mutation.
OneOpenWrite == Cardinality(Active) <= 1

\* Broker writes of one intent are serial and none is repeated, whoever races.
WritesAreSerial == CreatedAtMostOnce /\ OneOpenWrite

\* The certificate tells the truth for good: once the intent is terminal no order of it is
\* open, none can be created any more, and the quantity it certifies is the quantity held.
CertificateTruth ==
    intent = "TERMINAL" =>
        /\ OpenOrders = {}
        /\ \A p \in net : permits[p].kind = "CANCEL"
        /\ certified = Held

\* The row of an attempt never runs ahead of the broker, and a terminal row is its order.
RowsFollowBroker ==
    \A o \in Rows : Row(o).st # "PREPARED" =>
        /\ Row(o).fill <= orders[o].fill
        /\ Row(o).st \in TERMINAL => Order(o) = orders[o]

\* The errors for broken lineage are never raised: an attempt that was prepared and not sent
\* has a prepared permit, unless the hard cancel that superseded it is on record
\* (PREPARED_ATTEMPT_PERMIT_INVALID in next_broker_mutation and _execution_attempt_rows).
LineageIntact ==
    /\ Superseded => SupersededByCancel
    /\ attempts # <<>> /\ Row(Current).st = "PREPARED" => CreationState(Current) \in ACTIVE

\* A replacement was dispatched and the broker never created it: its lookups find nothing
\* for ever, by design nothing is sent again.
ReplacementMissing ==
    \E p \in DOMAIN permits : /\ permits[p].kind = "REPLACE"
                              /\ permits[p].st \in DISPATCHED
                              /\ orders[permits[p].ord].st = "NONE"

\* No run holds the permit any more.
Abandoned(p) == \A w \in Workers : ~(wk[w].pc \in {"acquire", "call", "reread", "outcome"} /\ wk[w].p = p)

\* A run ended between acquire_broker_dispatch and the record of the answer: neither the
\* schedule nor targeted_lookup_authority takes a permit up that is DISPATCHING.
NeverLookedUp == \E p \in DOMAIN permits : permits[p].st = "DISPATCHING" /\ Abandoned(p)

\* A run ended between preparing and dispatching a write: a cancel is never scheduled again
\* while its permit is PREPARED, and nothing is renewed after the authorization.
NeverRenewed ==
    \E p \in DOMAIN permits : /\ permits[p].st = "PREPARED" /\ Abandoned(p)
                              /\ permits[p].kind = "CANCEL" \/ ~authorized

\* The authorization lapsed between prepare and acquire: the order exists and
\* finalize_execution_authorized refuses it.
SentUnauthorized == ~first_valid

\* Of an intent that scheduled runs execute again (an entry, a SUBMISSION close): once the
\* broker has closed every order of it and nothing is on its way, it is finalized or the
\* account latched for the operator, whatever answers were lost, transitions stalled,
\* authorizations expired and runs ended before.  Four states that the code has no way out of
\* are left open: a replacement that the broker never created, a permit that is never looked
\* up or never renewed, and an order that was sent unauthorized.
ClosedOrdersSettle ==
    (orders[0].st # "NONE" /\ OpenOrders = {} /\ net = {})
        ~> (\/ intent = "TERMINAL" \/ locked
            \/ ReplacementMissing \/ NeverLookedUp \/ NeverRenewed \/ SentUnauthorized)
=============================================================================
