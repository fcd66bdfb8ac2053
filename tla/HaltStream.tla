----------------------------- MODULE HaltStream -----------------------------
(***************************************************************************)
(* AlpacaOpportunityHaltStreamAdapter: the supervised trade and status      *)
(* stream of one symbol.  Its threads are the owner (start, stop), the      *)
(* stream thread (connects, delivers messages, ends), recovery timers and   *)
(* readers (snapshot).  Every section under self._lock is one action; the   *)
(* subscribe call of a recovery is made outside the lock and is another.    *)
(* The stream itself is the pinned SDK (external): it connects, answers a   *)
(* subscription, delivers trades and statuses in any order, loses the        *)
(* connection and connects again, or ends.                                  *)
(***************************************************************************)
EXTENDS HaltAuthority

CONSTANTS
    Trades,       \* identities of the trades the exchange prints
    PrintedAt,    \* Trades -> the time the exchange stamped on the trade
    Start,        \* when the process starts
    Backoff,      \* resubscribe_backoff
    MaxLag,       \* bound: how late a status is delivered
    ReadLead,     \* how far read_at may be ahead of the adapter's clock
    MaxTime,      \* bound: the clock
    MaxEpochs,    \* bound: connections and resubscriptions
    MaxSequence,  \* bound: events of one epoch
    MaxPending    \* bound: timers, acknowledgments or subscribe calls under way at a time

ASSUME HaltStreamAssumption ==
    /\ PrintedAt \in [Trades -> Nat]
    /\ Start \in Nat /\ Backoff \in Nat \ {0} /\ ReadLead \in 0..ReadSkew
    /\ MaxTime \in Nat /\ MaxEpochs \in Nat /\ MaxSequence \in Nat /\ MaxPending \in Nat
    /\ MaxLag \in Nat

VARIABLES
    now,        \* the adapter's clock
    snapshot, epoch, sequence, \* self._snapshot, self._epoch, self._sequence
    seen,       \* self._seen_trade_ids
    born,       \* the epoch began before the session opened or not; for checking only
    due,        \* self._recovery_due_at
    timer,      \* self._recovery_timer: none, armed, or fired and waiting for the lock
    loose,      \* timers that run on although self._recovery_timer no longer names them
    thread,     \* none, running, dead
    started,    \* self._thread_started
    startup,    \* pending, ready (self._stream_ready) or failed (self._startup_error)
    stopping, closed,
    owner,      \* what the thread that calls start and stop is doing
    connected,  \* the SDK's websocket is up
    acks,       \* subscription acknowledgments on their way
    calls,      \* subscribe calls of a recovery not yet made
    heard       \* the last status code delivered, and when; for checking only

adapter == <<snapshot, epoch, sequence, born, due, timer, loose>>
process == <<thread, started, stopping, closed, owner>>
wire == <<connected, acks, calls>>
streamVars == <<now, adapter, seen, process, startup, wire, heard>>

StreamTypeOK ==
    /\ now \in Nat
    /\ snapshot \in Snapshots
    /\ epoch \in Nat \cup {None} /\ sequence \in Nat /\ born \in {"early", "inside"}
    /\ seen \subseteq Trades
    /\ due \in Times /\ timer \in {"none", "armed", "fired"} /\ loose \in Nat
    /\ thread \in {"none", "running", "dead"} /\ started \in BOOLEAN
    /\ startup \in {"pending", "ready", "failed"}
    /\ stopping \in BOOLEAN /\ closed \in BOOLEAN
    /\ owner \in {"new", "launched", "waiting", "serving", "failed", "joining", "stopped"}
    /\ connected \in BOOLEAN /\ acks \in Nat /\ calls \in Nat
    /\ heard \in [code : Codes \cup {"NONE"}, at : Nat]

StreamInit ==
    /\ now = Start
    /\ snapshot = InitialSnapshot(Start)
    /\ epoch = None /\ sequence = 0 /\ born = "early"
    /\ seen = {}
    /\ due = None /\ timer = "none" /\ loose = 0
    /\ thread = "none" /\ started = FALSE /\ startup = "pending"
    /\ stopping = FALSE /\ closed = FALSE /\ owner = "new"
    /\ connected = FALSE /\ acks = 0 /\ calls = 0
    /\ heard = [code |-> "NONE", at |-> 0]

-----------------------------------------------------------------------------
(* The adapter's private methods, as functions of a record of its fields *)

Adapter == [snapshot |-> snapshot, epoch |-> epoch, sequence |-> sequence, born |-> born,
            due |-> due, timer |-> timer, loose |-> loose]
Becomes(a) ==
    /\ snapshot' = a.snapshot /\ epoch' = a.epoch /\ sequence' = a.sequence /\ born' = a.born
    /\ due' = a.due /\ timer' = a.timer /\ loose' = a.loose

Quiet == closed \/ stopping
Alive == thread = "running" /\ started

\* _cancel_recovery: a timer that has fired cannot be cancelled any more.
CancelRecovery(a) ==
    [a EXCEPT !.timer = "none", !.due = None,
              !.loose = IF a.timer = "fired" THEN @ + 1 ELSE @]

\* _arm_recovery
ArmRecovery(a, at) ==
    IF ~InsideSession(at) THEN CancelRecovery(a)
    ELSE [a EXCEPT !.due = at + Backoff,
                   !.timer = IF @ = "none" /\ Alive /\ ~Quiet THEN "armed" ELSE @]

\* Mutant: a lost acknowledgment does not start a recovery.
SetSnapshotUnarmed(a, s) ==
    LET b == [a EXCEPT !.snapshot = s]
    IN  IF s.acknowledged_at # None /\ (a.snapshot.acknowledged_at = None \/ s.state = "OPEN_CONFIRMED")
        THEN CancelRecovery(b) ELSE b

\* _set_snapshot
SetSnapshot(a, s) ==
    LET p == a.snapshot
        b == [a EXCEPT !.snapshot = s]
    IN  IF s.acknowledged_at # None /\ (p.acknowledged_at = None \/ s.state = "OPEN_CONFIRMED")
        THEN CancelRecovery(b)
        ELSE IF \/ p.state = "OPEN_CONFIRMED" /\ s.state = "UNKNOWN"
                \/ p.acknowledged_at # None /\ s.acknowledged_at = None
             THEN ArmRecovery(b, s.observed_at)
             ELSE b

\* _emit; if the reducer raises only the sequence has moved.
Emit(a, kind, event_at, code) ==
    LET e == [kind |-> kind, epoch |-> a.epoch, sequence |-> a.sequence + 1,
              event_at |-> event_at, received_at |-> now, code |-> code]
        b == [a EXCEPT !.sequence = @ + 1]
    IN  IF a.epoch = None THEN a
        ELSE IF Refuses(a.snapshot, now) THEN b
        ELSE SetSnapshot(b, Reduce(a.snapshot, e))

\* _has_continuity
HasContinuity(a) ==
    /\ a.epoch # None /\ a.sequence > 0
    /\ a.snapshot.acknowledged_at # None
    /\ a.snapshot.epoch = a.epoch

\* _failure and _safe_failure
Failure(a) == IF HasContinuity(a) THEN Emit(a, "FAILURE", now, "OTHER") ELSE a
FailureRaises(a) == HasContinuity(a) /\ Refuses(a.snapshot, now)

\* _contain_callback_failure: what a callback did, and the failure that follows if the
\* reducer raised.
Contained(a) == IF Refuses(snapshot, now) THEN Failure(a) ELSE a

\* The epochs of the code are random, here they are counted.
NewEpoch(a) ==
    [a EXCEPT !.epoch = IF @ = None THEN 1 ELSE @ + 1, !.sequence = 0,
              !.born = IF now < SessionOpen THEN "early" ELSE "inside"]

\* Mutant: a new connection does not give up what the old one said.
ConnectionStartingKeeps(a) ==
    ArmRecovery(NewEpoch(CancelRecovery(a)), now)

\* connection_starting
ConnectionStarting(a) ==
    LET b == Failure(CancelRecovery(a))
    IN  IF Quiet THEN a
        ELSE IF FailureRaises(a) THEN b
        ELSE ArmRecovery(NewEpoch(b), now)

\* _resolve_startup_failure
StartupFails == IF startup = "pending" THEN "failed" ELSE startup

CanEmit == sequence < MaxSequence
CanConnect == epoch < MaxEpochs /\ CanEmit

-----------------------------------------------------------------------------
(* The stream thread *)

\* PinnedAlpacaStockDataStream._start_ws; the SDK subscribes once it is connected.  A
\* connection_starting that raises leaves the websocket down; the SDK tries again.
Connect ==
    /\ thread = "running" /\ ~connected /\ CanConnect /\ acks < MaxPending
    /\ Becomes(ConnectionStarting(Adapter))
    /\ connected' = (Quiet \/ ~FailureRaises(Adapter))
    /\ acks' = IF connected' THEN acks + 1 ELSE acks
    /\ UNCHANGED <<now, seen, process, startup, calls, heard>>

\* subscription_message
SubscriptionMessage(exact) ==
    LET a == Adapter
        acknowledged == exact /\ epoch # None /\ sequence = 0
    IN  /\ connected /\ acks > 0 /\ CanEmit
        /\ acks' = acks - 1
        /\ CASE Quiet -> Becomes(a) /\ UNCHANGED startup
             [] ~Quiet /\ acknowledged ->
                  /\ Becomes(Emit(a, "EPOCH_ACK", now, "OTHER"))
                  /\ startup' = IF startup = "pending" /\ ~Refuses(snapshot, now) THEN "ready" ELSE startup
             [] ~Quiet /\ ~acknowledged /\ FailureRaises(a) ->
                  Becomes(Failure(a)) /\ UNCHANGED startup
             [] OTHER ->
                  Becomes(ArmRecovery(Failure(a), now)) /\ startup' = StartupFails
        /\ UNCHANGED <<now, seen, process, connected, calls, heard>>

\* _on_trade: an identity that was seen before is malformed, a trade that printed before
\* the acknowledgment is skipped.
OnTrade(t) ==
    LET a == Adapter
        skipped == /\ snapshot.acknowledged_at # None
                   /\ snapshot.last_trade_at = None
                   /\ PrintedAt[t] <= snapshot.acknowledged_at
        emitted == Emit(a, "TRADE", PrintedAt[t], "OTHER")
    IN  /\ connected /\ CanEmit
        /\ IF Quiet THEN UNCHANGED <<adapter, seen>>
           ELSE IF t \in seen THEN Becomes(Contained(Failure(a))) /\ UNCHANGED seen
           ELSE IF skipped THEN seen' = seen \cup {t} /\ UNCHANGED adapter
           ELSE /\ Becomes(Contained(emitted))
                /\ seen' = IF Refuses(snapshot, now) THEN seen ELSE seen \cup {t}
        /\ UNCHANGED <<now, process, startup, wire, heard>>

\* _on_status
OnStatus(code, at) ==
    /\ connected /\ CanEmit
    /\ IF Quiet THEN UNCHANGED <<adapter, heard>>
       ELSE /\ heard' = [code |-> code, at |-> now]
            /\ Becomes(Contained(Emit(Adapter, "TRADING_STATUS", at, code)))
    /\ UNCHANGED <<now, seen, process, startup, wire>>

\* stream_error and unexpected_message, and a trade or status that is malformed
StreamError ==
    /\ connected /\ CanEmit
    /\ Becomes(Failure(Adapter))
    /\ startup' \in {StartupFails, startup}
    /\ UNCHANGED <<now, seen, process, wire, heard>>

\* PinnedAlpacaStockDataStream.close and stream_closed
StreamClosed ==
    /\ connected /\ CanEmit
    /\ Becomes(Failure(Adapter))
    /\ startup' = StartupFails
    /\ connected' = FALSE /\ acks' = 0
    /\ UNCHANGED <<now, seen, process, calls, heard>>

\* _run_stream after the SDK's run has returned or raised
RunStreamEnds ==
    /\ thread = "running" /\ CanEmit
    /\ Becomes(Failure(Adapter))
    /\ startup' = StartupFails
    /\ thread' = "dead"
    /\ connected' = FALSE /\ acks' = 0
    /\ UNCHANGED <<now, seen, started, stopping, closed, owner, calls, heard>>

-----------------------------------------------------------------------------
(* Recovery timers and readers *)

TimerFires ==
    /\ timer = "armed" /\ loose < MaxPending
    /\ timer' = "fired"
    /\ UNCHANGED <<now, snapshot, epoch, sequence, born, due, loose, seen, process, startup, wire, heard>>

\* _recover_live_stream: a callback forgets whatever timer is set, its own or a newer one.
RecoverLiveStream ==
    LET own == [Adapter EXCEPT !.timer = "none"]
        other == [Adapter EXCEPT !.timer = "none", !.loose = IF timer = "none" THEN @ - 1 ELSE @]
    IN  /\ CanConnect /\ calls < MaxPending
        /\ \E a \in (IF timer = "fired" THEN {own} ELSE {})
                    \cup (IF loose > 0 THEN {other} ELSE {}) :
               IF Alive /\ ~Quiet
               THEN /\ Becomes(ConnectionStarting(a))
                    /\ calls' = IF FailureRaises(a) THEN calls ELSE calls + 1
               ELSE Becomes(a) /\ UNCHANGED calls
        /\ UNCHANGED <<now, seen, process, startup, connected, acks, heard>>

\* stream.subscribe_trades outside the lock; it raises if the websocket is down.
Resubscribe ==
    /\ calls > 0
    /\ calls' = calls - 1
    /\ \/ connected /\ acks < MaxPending /\ acks' = acks + 1 /\ UNCHANGED adapter
       \/ Becomes(ArmRecovery(Adapter, now)) /\ UNCHANGED acks
    /\ UNCHANGED <<now, seen, process, startup, connected, heard>>

\* snapshot up to the release of the lock; a refused read raises.
ReadSnapshot(read_at) ==
    LET a == SetSnapshot(Adapter, Read(snapshot, read_at))
        recover == a.due # None /\ now >= a.due /\ Alive /\ ~Quiet
    IN  /\ ~Refuses(snapshot, read_at)
        /\ IF recover
           THEN /\ CanConnect /\ calls < MaxPending
                /\ Becomes(ConnectionStarting(a))
                /\ calls' = IF FailureRaises(a) THEN calls ELSE calls + 1
           ELSE Becomes(a) /\ UNCHANGED calls
        /\ UNCHANGED <<now, seen, process, startup, connected, acks, heard>>

-----------------------------------------------------------------------------
(* start and stop *)

\* start up to thread.start(), which may fail
StartThread ==
    /\ owner = "new"
    /\ \/ thread' = "running" /\ owner' = "launched" /\ UNCHANGED <<closed, startup>>
       \/ closed' = TRUE /\ owner' = "stopped" /\ startup' = "failed" /\ UNCHANGED thread
    /\ UNCHANGED <<now, adapter, seen, started, stopping, wire, heard>>

ThreadStarted ==
    /\ owner = "launched"
    /\ started' = TRUE /\ owner' = "waiting"
    /\ UNCHANGED <<now, adapter, seen, thread, stopping, closed, startup, wire, heard>>

\* start after the wait for _startup_resolved, which may time out
StartReturns ==
    /\ owner = "waiting"
    /\ owner' = IF startup = "ready" /\ thread = "running" THEN "serving" ELSE "failed"
    /\ UNCHANGED <<now, adapter, seen, thread, started, stopping, closed, startup, wire, heard>>

\* stop, also from _abort_startup, up to the join
Stop ==
    /\ owner \in {"new", "serving", "failed"}
    /\ ~closed
    /\ stopping' = TRUE /\ owner' = "joining"
    /\ Becomes(CancelRecovery(Adapter))
    /\ UNCHANGED <<now, seen, thread, started, closed, startup, wire, heard>>

\* What stop does to the authority once it has waited for the thread
Join(a) == Failure(a)

\* The join ends or times out; a thread that is still alive leaves the adapter stopping.
StopReturns ==
    /\ owner = "joining" /\ CanEmit
    /\ Becomes(Join(Adapter))
    /\ closed' = (thread # "running")
    /\ owner' = IF thread = "running" THEN "failed" ELSE "stopped"
    /\ UNCHANGED <<now, seen, thread, started, stopping, startup, wire, heard>>

Tick ==
    /\ now < MaxTime
    /\ now' = now + 1
    /\ UNCHANGED <<adapter, seen, process, startup, wire, heard>>

-----------------------------------------------------------------------------

StreamNext ==
    \/ Tick
    \/ StartThread \/ ThreadStarted \/ StartReturns \/ Stop \/ StopReturns
    \/ Connect \/ (\E exact \in BOOLEAN : SubscriptionMessage(exact))
    \/ (\E t \in Trades : OnTrade(t))
    \/ (\E code \in Codes : \E at \in {n \in 0..now : now - n <= MaxLag} : OnStatus(code, at))
    \/ StreamError \/ StreamClosed \/ RunStreamEnds
    \/ TimerFires \/ RecoverLiveStream \/ Resubscribe
    \/ (\E read_at \in now..(now + ReadLead) : ReadSnapshot(read_at))

StreamSpec == StreamInit /\ [][StreamNext]_streamVars

-----------------------------------------------------------------------------
(* Properties *)

\* NOT_HALTED always rests on a trade of the current connection that was fresh when the
\* snapshot was taken: whatever reconnects, timers and late messages come in between, an
\* open snapshot never outlives the epoch that acknowledged it.
OpenIsCurrent ==
    snapshot.state = "OPEN_CONFIRMED" =>
        /\ snapshot.epoch = epoch
        /\ snapshot.acknowledged_at # None
        /\ snapshot.acknowledged_at < snapshot.last_trade_at
        /\ snapshot.observed_at - snapshot.last_trade_at <= MaxAge

\* A halt that was delivered is not forgotten: as long as it is the last status delivered,
\* accepted by the reducer or not, the symbol is open again only by a trade that printed
\* after the halt arrived, through every loss of the connection.
HaltRemembered ==
    snapshot.state = "OPEN_CONFIRMED" /\ heard.code = "HALT" => snapshot.last_trade_at > heard.at

\* Once stop has returned nothing is open, and no late message, timer, reader or thread that
\* could not be joined opens it again.
StoppedIsNotOpen == stopping /\ owner # "joining" => snapshot.state # "OPEN_CONFIRMED"

\* A live stream whose epoch began inside the session and is not acknowledged, or no longer,
\* has its recovery under way until the session closes for the fastest reader: a timer, a
\* callback or a time after which the next read resubscribes, so that an acknowledgment that
\* never comes, is refused or is lost again is asked for again.  It is not so for an epoch
\* that began before the session: _arm_recovery arms nothing outside it, and nothing arms a
\* recovery when the session opens.
Unacknowledged == /\ Alive /\ ~Quiet /\ epoch # None /\ born = "inside"
                  /\ now + ReadLead < SessionClose /\ snapshot.acknowledged_at = None
Recovering == due # None \/ timer # "none" \/ loose > 0
RecoveryPending == Unacknowledged => Recovering
=============================================================================
