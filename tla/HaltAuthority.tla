---------------------------- MODULE HaltAuthority ----------------------------
(***************************************************************************)
(* The reducer of services/opportunity_halt_authority.py: what one symbol's *)
(* halt state is after an event of the stream, and what a read makes of it. *)
(* A snapshot is a record, the reducer a function from a snapshot and an    *)
(* event to a snapshot; Refuses is when the code raises instead.            *)
(*                                                                         *)
(* Times are naturals, None stands for a time or an epoch that is not set.  *)
(* Digests are left out: they only bind the fields to each other.           *)
(***************************************************************************)
EXTENDS Integers

CONSTANTS
    SessionOpen,    \* HaltAuthorityConfig.session_open_at
    SessionClose,   \* HaltAuthorityConfig.session_close_at
    MaxAge,         \* HaltAuthorityConfig.maximum_trade_age
    OrderTolerance, \* _TRADE_ORDER_TOLERANCE
    ReadSkew        \* _READ_SKEW_TOLERANCE

ASSUME HaltAuthorityAssumption ==
    /\ SessionOpen \in Nat /\ SessionClose \in Nat /\ SessionOpen < SessionClose
    /\ MaxAge \in Nat \ {0}
    /\ OrderTolerance \in Nat /\ ReadSkew \in Nat

None == -1
States == {"UNKNOWN", "OPEN_CONFIRMED", "HALTED_LATCHED", "RESUME_PENDING"}
HALTED == {"HALTED_LATCHED", "RESUME_PENDING"}
Codes == {"HALT", "RESUME", "OTHER"} \* what the codebook makes of a status code

Times == Nat \cup {None}
Snapshots == [state : States, epoch : Times, acknowledged_at : Times, last_sequence : Nat,
              last_event_at : Times, last_trade_at : Times, halt_latched_at : Times,
              observed_at : Nat]

\* initial_halt_authority
InitialSnapshot(at) ==
    [state |-> "UNKNOWN", epoch |-> None, acknowledged_at |-> None, last_sequence |-> 0,
     last_event_at |-> None, last_trade_at |-> None, halt_latched_at |-> None, observed_at |-> at]

\* _inside_session
InsideSession(at) == SessionOpen <= at /\ at < SessionClose

\* _validate_previous: the parts of it that are not about digests and types
ActiveEpochValid(s) ==
    \/ s.acknowledged_at = None /\ s.last_sequence = 0
    \/ /\ s.epoch # None /\ s.acknowledged_at # None /\ s.last_sequence >= 1
       /\ s.last_event_at # None /\ s.acknowledged_at <= s.last_event_at
ChronologyValid(s) ==
    /\ s.last_event_at <= s.observed_at
    /\ s.last_trade_at <= s.observed_at
    /\ s.halt_latched_at <= s.observed_at
    /\ s.last_event_at # None => /\ s.last_trade_at <= s.last_event_at
                                 /\ s.halt_latched_at <= s.last_event_at
    /\ s.acknowledged_at # None /\ s.last_trade_at # None => s.acknowledged_at < s.last_trade_at
StateValid(s) ==
    /\ s.state = "OPEN_CONFIRMED" =>
           s.acknowledged_at # None /\ s.last_trade_at # None /\ s.halt_latched_at = None
    /\ s.state \in HALTED => s.halt_latched_at # None
    /\ s.state = "RESUME_PENDING" => s.halt_latched_at < s.last_event_at
ValidPrevious(s) == ActiveEpochValid(s) /\ ChronologyValid(s) /\ StateValid(s)

\* HALT_PREVIOUS_INVALID or HALT_READ_TIME_REGRESSION
Refuses(s, at) == ~ValidPrevious(s) \/ s.observed_at - at > ReadSkew

-----------------------------------------------------------------------------
(* Results *)

Latched(s) == IF s.state \in HALTED THEN s.state ELSE "UNKNOWN"

\* Mutant: a rejected event is counted and the epoch stays acknowledged.
FailClosedStillAcknowledged(s, at) ==
    [s EXCEPT !.state = Latched(s), !.observed_at = at,
              !.last_sequence = IF s.acknowledged_at = None THEN 0 ELSE @ + 1]

\* _fail_closed
FailClosed(s, at) ==
    [s EXCEPT !.state = Latched(s), !.acknowledged_at = None, !.last_sequence = 0, !.observed_at = at]

\* _session_closed
SessionClosed(s, at) ==
    [s EXCEPT !.state = "UNKNOWN", !.acknowledged_at = None, !.last_sequence = 0,
              !.halt_latched_at = None, !.observed_at = at]

\* _acknowledge_epoch
AcknowledgeEpoch(s, e) ==
    IF \/ s.acknowledged_at # None
       \/ e.sequence # 1
       \/ e.epoch = s.epoch
       \/ e.event_at <= s.last_event_at
    THEN FailClosed(s, e.received_at)
    ELSE [s EXCEPT !.state = Latched(s), !.epoch = e.epoch, !.acknowledged_at = e.event_at,
                   !.last_sequence = 1, !.last_event_at = e.event_at, !.last_trade_at = None,
                   !.observed_at = e.received_at]

\* _failure_event
FailureEvent(s, e) ==
    [s EXCEPT !.state = Latched(s), !.acknowledged_at = None, !.last_sequence = 0,
              !.last_event_at = e.event_at, !.observed_at = e.received_at]

Accept(s, e, state) ==
    [s EXCEPT !.state = state, !.last_sequence = e.sequence, !.last_event_at = e.event_at,
              !.observed_at = e.received_at]

\* _status_event
StatusEvent(s, e) ==
    CASE e.code = "HALT" -> [Accept(s, e, "HALTED_LATCHED") EXCEPT !.halt_latched_at = e.event_at]
      [] e.code = "RESUME" -> Accept(s, e, IF s.state \in HALTED THEN "RESUME_PENDING" ELSE "UNKNOWN")
      [] OTHER -> FailClosed(s, e.received_at)

\* _trade_event: a trade of this epoch that is not too old.  That its identity differs from
\* the last one is the adapter's check too, see OnTrade.
TradeCounts(s, e) ==
    /\ e.event_at > s.acknowledged_at
    /\ e.event_at <= e.received_at
    /\ e.received_at - e.event_at <= MaxAge

TradeEvent(s, e) ==
    LET halted == s.state = "HALTED_LATCHED"
        state == IF halted THEN s.state ELSE "OPEN_CONFIRMED"
    IN  IF ~TradeCounts(s, e) THEN FailClosed(s, e.received_at)
        ELSE [Accept(s, e, state) EXCEPT !.last_trade_at = e.event_at,
                                         !.halt_latched_at = IF halted THEN @ ELSE None]

\* _chronology_acceptable
ChronologyAcceptable(s, e) ==
    \/ s.last_event_at = None
    \/ IF e.kind = "TRADE" THEN s.last_event_at - e.event_at <= OrderTolerance
                           ELSE e.event_at > s.last_event_at

\* reduce_halt_authority; read_at is always the time the event was received.
Reduce(s, e) ==
    IF ~InsideSession(e.received_at) THEN SessionClosed(s, e.received_at)
    ELSE IF ~(InsideSession(e.event_at) /\ e.event_at <= e.received_at)
         THEN FailClosed(s, e.received_at)
    ELSE IF e.kind = "EPOCH_ACK" THEN AcknowledgeEpoch(s, e)
    ELSE IF \/ s.acknowledged_at = None
            \/ e.epoch # s.epoch
            \/ e.sequence # s.last_sequence + 1
            \/ ~ChronologyAcceptable(s, e)
         THEN FailClosed(s, e.received_at)
    ELSE CASE e.kind = "FAILURE" -> FailureEvent(s, e)
           [] e.kind = "TRADING_STATUS" -> StatusEvent(s, e)
           [] e.kind = "TRADE" -> TradeEvent(s, e)

\* read_halt_authority; a trade is never later than the snapshot (ChronologyValid).
Read(s, read_at) ==
    LET at == IF read_at > s.observed_at THEN read_at ELSE s.observed_at
    IN  IF ~InsideSession(at) THEN SessionClosed(s, at)
        ELSE IF s.state \in HALTED THEN [s EXCEPT !.observed_at = at]
        ELSE IF s.state = "OPEN_CONFIRMED" /\ at - s.last_trade_at <= MaxAge
             THEN [s EXCEPT !.observed_at = at]
             ELSE [s EXCEPT !.state = "UNKNOWN", !.observed_at = at]
=============================================================================
