---------------------------- MODULE AccountSweep ----------------------------
(***************************************************************************)
(* Whole-account reconciliation: a sweep reads the account, its positions,  *)
(* its open orders and its activities, and then account, positions and      *)
(* orders again, one request after the other while orders execute, fees are *)
(* charged and contracts are assigned (AlpacaWholeAccountSweepPort); what   *)
(* it saw is compared with what the rows expect                             *)
(* (WholeAccountReconciliation.evaluate), and the final sweep of an order    *)
(* writes the next AccountReconciliationState of the account.               *)
(*                                                                         *)
(* BrokerExecution takes a sweep to be one look at the broker. Here it is    *)
(* the seven requests it is, for one claim at a time and a sequence of       *)
(* orders; permits, replacements and lookups are left to BrokerExecution.   *)
(* A position is a number of spreads, and an activity is named by its place *)
(* in the order of the provider's events.                                   *)
(***************************************************************************)
EXTENDS Integers, Sequences, FiniteSets, FiniteSetsExt

CONSTANTS
    Qty,            \* contracts of an order
    Price,          \* cash one contract costs or brings
    BaseCash,       \* equity of the baseline
    MaxFeeDrag,     \* MAX_UNREPORTED_FEE_DRAG
    MaxOrders,      \* bound: orders
    MaxFees,        \* bound: fees charged
    MaxForeign,     \* bound: events that nobody here caused
    None

ASSUME SweepAssumption ==
    /\ Qty \in Nat \ {0} /\ Price \in Nat \ {0} /\ BaseCash \in Nat
    /\ MaxFeeDrag \in Nat /\ MaxOrders \in Nat /\ MaxFees \in Nat /\ MaxForeign \in Nat
    /\ None \notin [cash : Int, held : Int, known : SUBSET Nat, resolved : SUBSET Nat]

VARIABLES
    account,     \* the broker: cash, whether it is blocked
    positions,   \* the broker: spreads held, whether stock was assigned
    order,       \* the broker: the newest order
    acts,        \* the provider's activities, each with whether it shows
    mature,      \* whether the baseline is older than ACTIVITY_VISIBILITY_HORIZON
    head,        \* the newest AccountReconciliationStateRow
    row,         \* the attempt row of the claimed intent
    latched,     \* execution_locked of the account
    finished,    \* orders that were finalized
    sweep,       \* the sweep that is under way
    disturbed    \* history: whether something happened that a sweep may object to

broker == <<account, positions, order, acts, mature>>
book == <<head, row, latched, finished>>
vars == <<broker, book, sweep, disturbed>>

Legs == {1, 2}
NoOrder == [open |-> FALSE, fill |-> 0, side |-> 1, executions |-> 0]
NoRow == [st |-> "NONE", fill |-> 0]
Purposes == {"BASELINE_INITIALIZATION", "SUBMIT", "CANCEL", "FINAL", "REVIEW"}
NoSweep == [pc |-> "idle"]

Init ==
    /\ account = [cash |-> BaseCash, blocked |-> FALSE]
    /\ positions = [held |-> 0, stock |-> FALSE]
    /\ order = NoOrder
    /\ acts = <<[type |-> "INITIAL_FUNDING", order |-> 0, leg |-> 0, qty |-> 0, shown |-> TRUE]>>
    /\ mature = FALSE
    /\ head = None
    /\ row = NoRow
    /\ latched = FALSE
    /\ finished = 0
    /\ sweep = NoSweep
    /\ disturbed = FALSE

-----------------------------------------------------------------------------
(* The broker and the provider of activities (external)                    *)

OpenOrders == IF order.open THEN {[n |-> finished + 1, fill |-> order.fill]} ELSE {}
Sweeping == sweep.pc # "idle" /\ sweep.purpose # "REVIEW"
Disturb(cause) == disturbed' = (disturbed \/ cause)

Posted(type, n, leg, qty) ==
    [type |-> type, order |-> n, leg |-> leg, qty |-> qty, shown |-> FALSE]

\* An execution of k contracts; each leg is reported by an activity of its own.
Execute ==
    \E k \in 1 .. (Qty - order.fill) :
        /\ order.open
        /\ order' = [order EXCEPT !.fill = @ + k, !.executions = @ + 1, !.open = order.fill + k < Qty]
        /\ positions' = [positions EXCEPT !.held = @ + order.side * k]
        /\ account' = [account EXCEPT !.cash = @ - order.side * k * Price]
        /\ acts' = acts \o [leg \in 1 .. 2 |-> Posted("FILL", finished + 1, leg, order.side * k)]
        /\ Disturb(Sweeping \/ order.executions > 0)
        /\ UNCHANGED <<mature, book, sweep>>

\* The order is cancelled or expires.
CloseOrder ==
    /\ order.open
    /\ order' = [order EXCEPT !.open = FALSE]
    /\ Disturb(Sweeping)
    /\ UNCHANGED <<account, positions, acts, mature, book, sweep>>

\* An activity shows some time after the event; fills among themselves, and the rest among
\* themselves, in the order of their events.
Show ==
    /\ \E i \in DOMAIN acts :
        /\ ~acts[i].shown
        /\ \A j \in 1 .. (i - 1) : (acts[j].type = "FILL") = (acts[i].type = "FILL") => acts[j].shown
        /\ acts' = [acts EXCEPT ![i].shown = TRUE]
    /\ UNCHANGED <<account, positions, order, mature, book, sweep, disturbed>>

Sum(is) == MapThenSumSet(LAMBDA i : acts[i].qty, is)
Count(types) == Cardinality({i \in DOMAIN acts : acts[i].type \in types})

ChargeFee ==
    /\ finished > 0 \/ order.fill > 0
    /\ Count({"FEE"}) < MaxFees
    /\ \E amount \in 1 .. (MaxFeeDrag + 1) :
        /\ account' = [account EXCEPT !.cash = @ - amount]
        /\ acts' = Append(acts, Posted("FEE", 0, 0, amount))
        /\ Disturb(Sweeping \/ amount + Sum({i \in DOMAIN acts : acts[i].type = "FEE"}) > MaxFeeDrag)
    /\ UNCHANGED <<positions, order, mature, book, sweep>>

\* An assignment, a deposit, or a restriction of the account.
Foreign ==
    /\ Count({"OPASN", "JOURNAL"}) + (IF account.blocked THEN 1 ELSE 0) < MaxForeign
    /\ \/ /\ positions.held > 0
          /\ positions' = [positions EXCEPT !.stock = TRUE]
          /\ acts' = Append(acts, Posted("OPASN", 0, 2, 1))
          /\ UNCHANGED account
       \/ /\ account' = [account EXCEPT !.cash = @ + 1]
          /\ acts' = Append(acts, Posted("JOURNAL", 0, 0, 1))
          /\ UNCHANGED positions
       \/ /\ ~account.blocked
          /\ account' = [account EXCEPT !.blocked = TRUE]
          /\ UNCHANGED <<positions, acts>>
    /\ Disturb(TRUE)
    /\ UNCHANGED <<order, mature, book, sweep>>

HorizonPasses ==
    /\ ~mature
    /\ mature' = TRUE
    /\ UNCHANGED <<account, positions, order, acts, book, sweep, disturbed>>

\* The verdict on a sweep reads nothing of the broker, so that what happens between the
\* last request and the verdict may as well happen after it.
Outside ==
    /\ sweep.pc # "judge"
    /\ Execute \/ CloseOrder \/ Show \/ ChargeFee \/ Foreign \/ HorizonPasses

-----------------------------------------------------------------------------
(* What the rows expect                                                    *)

\* AccountReconciliationState
State(cash, held, known, resolved) ==
    [cash |-> cash, held |-> held, known |-> known, resolved |-> resolved]

Side == IF head.held = 0 THEN 1 ELSE -1

\* _validated_initial_reconciliation_state, _reconciliation_expectation_from_rows,
\* _final_reconciliation_expectation_from_rows and _positions_after_fill; a review expects
\* what is recorded.
Expected(purpose) ==
    IF purpose = "BASELINE_INITIALIZATION"
    THEN [cash |-> BaseCash, held |-> 0, orders |-> {}]
    ELSE [cash |-> head.cash - Side * row.fill * Price,
          held |-> head.held + Side * row.fill,
          orders |-> IF purpose = "CANCEL" THEN {[n |-> finished + 1, fill |-> row.fill]} ELSE {}]

\* The mistake of taking any activity of the order for the whole of it.
ReportsFillLoosely(new) == \A i \in new : acts[i].order = finished + 1

\* One FILL of each leg of this order, of the quantity the attempt was observed with.
ReportsFill(new) ==
    /\ row.fill > 0
    /\ \A i \in new : acts[i].type = "FILL" /\ acts[i].order = finished + 1
    /\ Cardinality(new) = Cardinality(Legs)
    /\ {acts[i].leg : i \in new} = Legs
    /\ \A i \in new : acts[i].qty = Side * row.fill

New(seen) == {i \in seen \ head.known : acts[i].type # "FEE"}
Fees(seen) == {i \in seen \ head.known : acts[i].type = "FEE"}

\* _bound_attempt_activities: how the activities of the sweep stand to the attempt. The code
\* lets a known activity of before the window of the sweep be missing from it (the funding
\* of the account): here the baseline has read every activity there was, and all that come
\* are inside the window.
Bound(purpose, seen) ==
    IF ~(head.known \subseteq seen) THEN "KNOWN_ACTIVITY_MISSING"
    ELSE IF New(seen) = {}
         THEN IF purpose = "FINAL" /\ row.fill > 0
              THEN "ATTEMPT_ACTIVITY_EVIDENCE_PENDING" ELSE "BOUND"
         ELSE IF ReportsFill(New(seen)) THEN "BOUND" ELSE "ATTEMPT_ACTIVITY_EVIDENCE_MISMATCH"

KnownActivities(purpose, seen) ==
    IF purpose = "BASELINE_INITIALIZATION" THEN seen
    ELSE IF New(seen) = {} THEN head.known \cup Fees(seen) ELSE seen

ResolvedActivities(purpose, seen) ==
    IF purpose = "BASELINE_INITIALIZATION" THEN {}
    ELSE head.resolved \cup New(seen) \cup Fees(seen)

-----------------------------------------------------------------------------
(* The verdict on a sweep                                                  *)

\* The mistake of taking every cent for an adjustment.
CashWithinNothing(observed, expected) == observed = expected

\* _cash_within_fee_tolerance
CashWithinFeeTolerance(observed, expected) ==
    0 <= expected - observed /\ expected - observed <= MaxFeeDrag

Assignments == {"OPASN"}
Adjustments == {"JOURNAL", "FEE"}

\* WholeAccountReconciliation.evaluate: the codes that block the sweep. The account of the
\* first reading need not be looked at: where it is another, the sweep is unstable.
BlockCodes(s) ==
    LET exp == Expected(s.purpose)
        known == KnownActivities(s.purpose, s.seen)
        unresolved == {acts[i].type : i \in s.seen \ ResolvedActivities(s.purpose, s.seen)}
        blocks ==
            [ACTIVITY_WATERMARK_UNKNOWN |-> ~s.mature,
             STALE_OBSERVATION |-> s.slow,
             UNSTABLE_SWEEP |-> ~s.stable,
             ACCOUNT_NOT_EXECUTABLE |-> s.account.blocked,
             ACCOUNT_ADJUSTMENT |-> \/ ~CashWithinFeeTolerance(s.account.cash, exp.cash)
                                    \/ unresolved \cap Adjustments # {},
             UNEXPECTED_INVENTORY |-> s.positions # [held |-> exp.held, stock |-> FALSE],
             ASSIGNMENT_SUSPECTED |-> s.positions.stock \/ unresolved \cap Assignments # {},
             UNEXPECTED_OPEN_ORDER |-> s.orders # exp.orders,
             KNOWN_ACTIVITY_MISSING |-> ~(known \subseteq s.seen),
             UNEXPECTED_ACTIVITY |-> \E i \in s.seen \ known : acts[i].type # "FEE"]
    IN  {code \in DOMAIN blocks : blocks[code]}

\* RECONCILIATION_STATE_NOT_CLEAN: nothing but the funding of the account.
Clean(s) ==
    /\ s.stable
    /\ s.positions = [held |-> 0, stock |-> FALSE]
    /\ s.orders = {}
    /\ {acts[i].type : i \in s.seen} = {"INITIAL_FUNDING"}

\* _validate_account_evidence of a review: the window begins with the fill that opened the
\* position; an activity known by its date alone may be earlier and on the same day.
ReviewAgrees(s) ==
    LET own == {i \in head.known : acts[i].type = "FILL"}
        opening == CHOOSE i \in own : \A j \in own : acts[j].order < acts[i].order \/ i <= j
        window == {i \in s.seen : i >= opening \/ (s.sameDay /\ acts[i].type \notin {"FILL", "INITIAL_FUNDING"})}
    IN  /\ s.stable
        /\ ~s.account.blocked
        /\ s.positions = [held |-> head.held, stock |-> FALSE]
        /\ s.orders = {}
        /\ ~s.slow
        /\ window = {i \in own : i >= opening}

Accepted(s) ==
    CASE s.purpose = "BASELINE_INITIALIZATION" -> Clean(s) /\ BlockCodes(s) = {}
      [] s.purpose = "REVIEW" -> ReviewAgrees(s)
      [] OTHER -> Bound(s.purpose, s.seen) = "BOUND" /\ BlockCodes(s) = {}

-----------------------------------------------------------------------------
(* The sweep                                                               *)

\* When a sweep for a purpose may begin: the state is initialized once; an intent is
\* submitted, cancelled or replaced while the account is not latched, and finalized in any
\* case; an open position is reviewed once no order is on its way.
MaySweep(purpose) ==
    CASE purpose = "BASELINE_INITIALIZATION" -> head = None
      [] purpose = "SUBMIT" -> head # None /\ ~latched /\ row.st = "NONE" /\ finished < MaxOrders
      [] purpose = "CANCEL" -> ~latched /\ row.st = "OPEN"
      [] purpose = "FINAL" -> row.st = "CLOSED"
      [] OTHER -> head # None /\ head.held > 0 /\ row.st = "NONE"

Take(s, pc, more) == sweep' = [x \in DOMAIN s \cup DOMAIN more |->
                                  IF x = "pc" THEN pc ELSE IF x \in DOMAIN more THEN more[x] ELSE s[x]]

\* until is the time of the first account reading, and with it the end of the activity
\* window; stable says whether the second readings so far were those of the first.
ReadAccount ==
    \E purpose \in Purposes :
        /\ sweep.pc = "idle"
        /\ MaySweep(purpose)
        /\ sweep' = [pc |-> "positions", purpose |-> purpose, account |-> account,
                     until |-> Len(acts), mature |-> mature, stable |-> TRUE]
        /\ Disturb(purpose = "CANCEL" /\ OpenOrders # Expected("CANCEL").orders)
        /\ UNCHANGED <<broker, book>>

ReadPositions ==
    /\ sweep.pc = "positions"
    /\ Take(sweep, "orders", [positions |-> positions])
    /\ UNCHANGED <<broker, book, disturbed>>

ReadOrders ==
    /\ sweep.pc = "orders"
    /\ Take(sweep, "activities", [orders |-> OpenOrders])
    /\ UNCHANGED <<broker, book, disturbed>>

\* AccountActivitiesAdapter.collect: fills have a time, the rest only a date. A later fill is
\* not asked for, and one that is reported all the same makes the sweep fail.
InWindow(i) == acts[i].shown /\ (acts[i].type = "FILL" => i <= sweep.until)
OneLegShows(seen) ==
    \E i, j \in DOMAIN acts : /\ acts[i].type = "FILL" /\ acts[j].type = "FILL"
                              /\ acts[i].order = acts[j].order
                              /\ i \in seen /\ j \notin seen
ReadActivities ==
    LET seen == {i \in DOMAIN acts : InWindow(i)}
    IN  /\ sweep.pc = "activities"
        /\ Take(sweep, "account2", [seen |-> seen])
        /\ Disturb(Sweeping /\ OneLegShows(seen))
        /\ UNCHANGED <<broker, book>>

\* The Greeks of the positions of the first reading: the quotes of the legs are of one
\* second and fresh, or not.
ReadAccountAgain ==
    \E together \in IF sweep.pc = "account2" /\ sweep.positions.held > 0 THEN BOOLEAN ELSE {TRUE} :
        /\ sweep.pc = "account2"
        /\ Take(sweep, "positions2",
                 [account |-> account, stable |-> account = sweep.account, together |-> together,
                  moment |-> [cash |-> account.cash, held |-> positions.held,
                              stock |-> positions.stock, orders |-> OpenOrders]])
        /\ Disturb(sweep.purpose = "FINAL" /\ ~together)
        /\ UNCHANGED <<broker, book>>

\* The mistake of handing the first reading on as the final one.
ReadPositionsAgainNot ==
    /\ sweep.pc = "positions2"
    /\ Take(sweep, "orders2", [stable |-> sweep.stable])
    /\ UNCHANGED <<broker, book, disturbed>>

ReadPositionsAgain ==
    /\ sweep.pc = "positions2"
    /\ Take(sweep, "orders2", [positions |-> positions,
                               stable |-> sweep.stable /\ positions = sweep.positions])
    /\ UNCHANGED <<broker, book, disturbed>>

\* slow: the sweep, or what came after it, took longer than it may.
ReadOrdersAgain ==
    \E slow \in BOOLEAN, sameDay \in BOOLEAN :
        /\ sweep.pc = "orders2"
        /\ sameDay => sweep.purpose = "REVIEW"
        /\ Take(sweep, "judge", [orders |-> OpenOrders, slow |-> slow, sameDay |-> sameDay,
                                 stable |-> sweep.stable /\ OpenOrders = sweep.orders])
        /\ Disturb(slow /\ Sweeping)
        /\ UNCHANGED <<broker, book>>

\* A request fails, or an answer is not one the collector takes.
SweepFails ==
    /\ sweep.pc \notin {"idle", "judge"}
    /\ sweep' = NoSweep
    /\ UNCHANGED <<broker, book, disturbed>>

-----------------------------------------------------------------------------
(* What follows from it                                                    *)

\* initialize_reconciliation_state
Initialize ==
    /\ sweep.pc = "judge" /\ sweep.purpose = "BASELINE_INITIALIZATION"
    /\ head' = IF Accepted(sweep)
               THEN State(BaseCash, 0, sweep.seen, {})
               ELSE None
    /\ sweep' = NoSweep
    /\ UNCHANGED <<broker, row, latched, finished, disturbed>>

\* prepare_broker_mutation: a sweep that is not accepted latches the account.
Prepare ==
    /\ sweep.pc = "judge" /\ sweep.purpose \in {"SUBMIT", "CANCEL"}
    /\ latched' = ~Accepted(sweep)
    /\ row' = IF Accepted(sweep) /\ sweep.purpose = "SUBMIT" THEN [NoRow EXCEPT !.st = "SENT"] ELSE row
    /\ sweep' = NoSweep
    /\ UNCHANGED <<broker, head, finished, disturbed>>

\* The order reaches the broker.
Arrive ==
    /\ row.st = "SENT" /\ ~order.open /\ order.executions = 0
    /\ order' = [NoOrder EXCEPT !.open = TRUE, !.side = Side]
    /\ row' = [row EXCEPT !.st = "OPEN"]
    /\ UNCHANGED <<account, positions, acts, mature, head, latched, finished, sweep, disturbed>>

\* record_attempt_observation, by the worker that sweeps: it does so before or after. (That
\* a sweep older than an observation of another worker is refused is in BrokerExecution.)
Observe ==
    /\ sweep.pc = "idle" /\ row.st = "OPEN"
    /\ row' = [st |-> IF order.open THEN "OPEN" ELSE "CLOSED", fill |-> order.fill]
    /\ row' # row
    /\ UNCHANGED <<broker, head, latched, finished, sweep, disturbed>>

\* reconcile_actual_exposure
ExposureKnown(s) == s.positions.held = 0 \/ s.together

Partial == row.fill > 0 /\ row.fill < Qty

\* finalize_execution_authorized: evidence that is still to come is asked for again, a
\* mismatch latches the account, and a partial fill is recorded and latches it.
Finalize ==
    LET bound == Bound("FINAL", sweep.seen)
        done == Accepted(sweep) /\ ExposureKnown(sweep)
    IN  /\ sweep.pc = "judge" /\ sweep.purpose = "FINAL"
        /\ latched' = (latched \/ (bound # "ATTEMPT_ACTIVITY_EVIDENCE_PENDING" /\ (~done \/ Partial)))
        /\ Disturb(Partial)
        /\ IF done
           THEN /\ head' = State(Expected("FINAL").cash, Expected("FINAL").held,
                                 sweep.seen, ResolvedActivities("FINAL", sweep.seen))
                /\ row' = NoRow
                /\ order' = NoOrder
                /\ finished' = finished + 1
           ELSE UNCHANGED <<head, row, order, finished>>
        /\ sweep' = NoSweep
        /\ UNCHANGED <<account, positions, acts, mature>>

\* A review that is refused leaves nothing; one that is accepted goes on in PositionReview.
Review ==
    /\ sweep.pc = "judge" /\ sweep.purpose = "REVIEW"
    /\ sweep' = NoSweep
    /\ UNCHANGED <<broker, book, disturbed>>

Next ==
    \/ Outside
    \/ ReadAccount \/ ReadPositions \/ ReadOrders \/ ReadActivities
    \/ ReadAccountAgain \/ ReadPositionsAgain \/ ReadOrdersAgain \/ SweepFails
    \/ Initialize \/ Prepare \/ Arrive \/ Observe \/ Finalize \/ Review

Spec == Init /\ [][Next]_vars

-----------------------------------------------------------------------------
(* Properties                                                              *)

\* A sweep is read request by request while the account changes. One that is accepted is
\* nevertheless true of one moment, that of the second reading of the account: cash,
\* positions and open orders were then together what the rows expect. This is what lets
\* BrokerExecution take a sweep for one look at the broker.
AcceptedIsTrueAtOnce ==
    sweep.pc = "judge" /\ Accepted(sweep) =>
        LET exp == Expected(sweep.purpose)
        IN  /\ sweep.purpose # "REVIEW" => CashWithinFeeTolerance(sweep.moment.cash, exp.cash)
            /\ sweep.moment.held = (IF sweep.purpose = "REVIEW" THEN head.held ELSE exp.held)
            /\ ~sweep.moment.stock
            /\ sweep.moment.orders = (IF sweep.purpose = "REVIEW" THEN {} ELSE exp.orders)

FillsOf(n) == {i \in DOMAIN acts : acts[i].type = "FILL" /\ acts[i].order = n}

\* The reconciliation state is explained by what the provider reported: it knows every fill
\* of the orders that were finalized and of no other, on each leg they add up to the
\* positions it expects, and it can be read again (RESOLVED_ACTIVITY_HASHES_INVALID).
BooksExplained ==
    head # None =>
        LET fills == {i \in head.known : acts[i].type = "FILL"}
        IN  /\ fills = UNION {FillsOf(n) : n \in 1 .. finished}
            /\ \A leg \in Legs : Sum({i \in fills : acts[i].leg = leg}) = head.held
            /\ head.resolved \subseteq head.known

\* The account is latched for a reason: something happened that nobody here caused, fees
\* beyond the tolerance were charged, an order was executed in several parts or in part
\* only, the provider showed one leg of a fill before the other, the account changed under
\* the sweep or since the observation it was planned with, the sweep was slow, or the
\* quotes of the legs were apart. Fees within the tolerance, late activities, failing
\* requests and orders that end unfilled never latch it.
LatchHasCause == latched => disturbed
=============================================================================
