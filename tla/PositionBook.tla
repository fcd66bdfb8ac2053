---------------------------- MODULE PositionBook ----------------------------
(***************************************************************************)
(* The managed positions of one account: runs that review the open position   *)
(* and approve entries, rolls and closes; the executions that fill or do not; *)
(* and the two materializers that make transitions and snapshots of the       *)
(* fills.  A run reads, is overtaken by another run, and writes later.        *)
(*                                                                         *)
(* Who calls a step is AgentRun, what happens at the broker BrokerExecution,  *)
(* and the conditions of a claim AccountAuthority; an execution is here a     *)
(* claim followed by one of its outcomes.  A fill is known by the number of   *)
(* its intent, which the legs that an entry or a roll opens bear.             *)
(***************************************************************************)
EXTENDS Integers, Sequences, FiniteSets, Functions

CONSTANTS
    Runs,
    Roles,        \* the account roles considered
    MaxIntents,   \* bound on execution intents
    MaxTime,      \* bound on the moments that runs and finalizations are stamped with
    MaxPhase,     \* by role: odd phases are market sessions, even ones the nights between them
    MaxReviews,   \* bound on reviews that decide nothing
    Cash,         \* by intent: what its fill pays
    None

Ids == 1..MaxIntents
Time == 0..MaxTime
Phases == UNION {1..MaxPhase[r] : r \in Roles}

ASSUME BookAssumption ==
    /\ Roles \subseteq {"DEVELOPMENT", "SUBMISSION"}
    /\ MaxIntents \in Nat /\ MaxTime \in Nat /\ MaxPhase \in [Roles -> Nat \ {0}] /\ MaxReviews \in Nat
    /\ Cash \in [Ids -> Int]

VARIABLES
    role,         \* the role of the account
    now, phase,
    held,         \* legs at the broker, by the intent that opened them
    intents,      \* ExecutionIntentRow, with its authorization and its certificate
    states,       \* AccountReconciliationStateRow, one for each finalization
    positions,    \* ManagedLifecyclePositionRow
    chain,        \* ManagedPositionTransitionRow and ManagedPositionSnapshotRow by intent
    decisions,    \* AgentDecisionRow without an intent
    latched,      \* AccountRoleRow.execution_locked
    run

rows == <<intents, states, positions, chain, decisions>>
book == <<role, now, phase, held, rows, latched, run>>

InSession(p) == p % 2 = 1

IntentRow ==
    [action : {"ENTRY", "ROLL", "CLOSE"},
     fingerprint : 0..MaxIntents,  \* the inventory the order was approved for
     snapshot : 0..MaxIntents,     \* the managed snapshot in the manifest of the review
     position : Nat,
     boundary : Time, session : Phases,
     state : {"READY", "WORKING", "TERMINAL"}, submitted : Time,
     certificate : {"NONE", "FILLED", "UNFILLED", "PARTIAL"}]
StateRow == [intent : Ids, filled : SUBSET Ids, inventory : SUBSET Ids, at : Time, phase : Phases]
PositionRow == [entry : Ids, current : Ids, fingerprint : 0..MaxIntents, closed : Time, origin : Time]
TransitionRow == [position : Nat, predecessor : 0..MaxIntents, sequence : Nat,
                  action : {"ENTRY", "ROLL", "CLOSE"}, cash : Int, at : Time]
SnapshotRow == [state : Nat, cumulative : Int, rolls : Nat, session : Phases,
                fingerprint : 0..MaxIntents, activities : SUBSET Ids]
ChainRow == [transition : TransitionRow, snapshot : SnapshotRow]
DecisionRow == [kind : {"REVIEW", "NO_TRADE", "CALIBRATION"}, boundary : Time, position : Nat,
                snapshot : 0..MaxIntents]

ASSUME NoneAssumption == None \notin ChainRow /\ None \notin [position : Nat, row : PositionRow]

Idle == [pc |-> "idle", at |-> 0, session |-> 1, position |-> 0, snapshot |-> 0, fingerprint |-> 0,
         mayRoll |-> FALSE]
RunState == [pc : {"idle", "started", "entry", "loaded", "bound"}, at : Time, session : Phases,
             position : Nat, snapshot : 0..MaxIntents, fingerprint : 0..MaxIntents, mayRoll : BOOLEAN]

Init ==
    /\ role \in Roles
    /\ now = 0 /\ phase = 1
    /\ held = {}
    /\ intents = <<>> /\ states = <<>> /\ positions = <<>>
    /\ chain = [i \in Ids |-> None]
    /\ decisions = {}
    /\ latched = FALSE
    /\ run = [r \in Runs |-> Idle]

-----------------------------------------------------------------------------
(* What the tables say *)

Approved == DOMAIN intents
OpenPositions == {p \in DOMAIN positions : positions[p].closed = 0}
Recorded(i) == chain[i] # None
StateOf(i) == CHOOSE n \in DOMAIN states : states[n].intent = i

\* recover_pending and pending_execution_intents: an entry that has to be finished, or a fill
\* that is not a position, holds every later run up.
UnresolvedEntries ==
    {i \in Approved : /\ intents[i].action = "ENTRY"
                      /\ \/ intents[i].certificate = "NONE" /\ intents[i].state # "TERMINAL"
                         \/ intents[i].certificate \in {"FILLED", "PARTIAL"} /\ ~Recorded(i)}

\* pending_submission_lifecycle_intents: what is under way for the inventory that is open.
PendingLifecycle ==
    {i \in Approved : /\ intents[i].action # "ENTRY"
                      /\ \E p \in OpenPositions : positions[p].fingerprint = intents[i].fingerprint
                      /\ ~Recorded(i)
                      /\ \/ intents[i].state # "TERMINAL"
                         \/ intents[i].certificate = "FILLED"}

-----------------------------------------------------------------------------
(* Runs *)

\* No two runs have the same moment: each has a tick of its own.
Stamped(t) ==
    \/ \E r \in Runs : run[r].pc # "idle" /\ run[r].at = t
    \/ \E i \in Approved : intents[i].boundary = t
    \/ \E d \in decisions : d.boundary = t

\* observe() and the clock: trusted_at is read before anything is recovered.
StartRun(r) ==
    LET at == IF Stamped(now) THEN now + 1 ELSE now
    IN
    /\ run[r].pc = "idle"
    /\ at <= MaxTime
    /\ InSession(phase)
    /\ now' = at
    /\ run' = [run EXCEPT ![r] = [Idle EXCEPT !.pc = "started", !.at = at, !.session = phase]]
    /\ UNCHANGED <<role, phase, held, rows, latched>>

\* The recovery a run starts with leaves nothing behind, or ends it; so does the latch.
Recovered(r) ==
    /\ run[r].pc = "started"
    /\ UnresolvedEntries = {}
    /\ role = "SUBMISSION" => PendingLifecycle = {}
    /\ ~latched

\* The router asks for an entry first, positions on the book or not.
AskForEntry(r) ==
    /\ Recovered(r)
    /\ run' = [run EXCEPT ![r].pc = "entry"]
    /\ UNCHANGED <<role, now, phase, held, rows, latched>>

\* Any failure of a provider, a refusal or a stop of the process.
EndRun(r) ==
    /\ run[r].pc # "idle"
    /\ run' = [run EXCEPT ![r] = Idle]
    /\ UNCHANGED <<role, now, phase, held, rows, latched>>

Approve(r, action, fingerprint, snapshot, position) ==
    intents' = Append(intents,
        [action |-> action, fingerprint |-> fingerprint, snapshot |-> snapshot, position |-> position,
         boundary |-> run[r].at, session |-> run[r].session, state |-> "READY", submitted |-> 0,
         certificate |-> "NONE"])

\* record_decision of an opportunity: only an entry under way stops another one.
DecideEntry(r) ==
    /\ run[r].pc = "entry"
    /\ Len(intents) < MaxIntents
    /\ ~latched
    /\ \A i \in Approved : intents[i].action = "ENTRY" => intents[i].state \in {"READY", "TERMINAL"}
    /\ Approve(r, "ENTRY", 0, 0, 0)
    /\ run' = [run EXCEPT ![r] = Idle]
    /\ UNCHANGED <<role, now, phase, held, states, positions, chain, decisions, latched>>

\* A decision without a trade: of the policy, or of the calibration binding of a run that
\* has no authority to trade.
DecideNoTrade(r, kind) ==
    /\ \/ kind = "NO_TRADE" /\ run[r].pc = "entry"
       \/ kind = "CALIBRATION" /\ run[r].pc = "started" /\ role = "SUBMISSION"
    /\ Cardinality(decisions) < MaxReviews
    /\ decisions' = decisions \cup {[kind |-> kind, boundary |-> run[r].at, position |-> 0, snapshot |-> 0]}
    /\ run' = [run EXCEPT ![r] = Idle]
    /\ UNCHANGED <<role, now, phase, held, intents, states, positions, chain, latched>>

\* Mutant: a roll counts for the inventory it was approved for, which it has replaced.
RolledTodayFromHere(p) ==
    \E i \in Approved : /\ intents[i].action = "ROLL" /\ intents[i].session = phase
                        /\ intents[i].fingerprint = positions[p].fingerprint

\* The roll of a session is used once a transition of the context is one.
RolledToday(p) ==
    \E i \in Approved : /\ Recorded(i) /\ chain[i].transition.position = p
                        /\ chain[i].transition.action = "ROLL"
                        /\ chain[i].snapshot.session = phase

\* _validate_observation: no order works, the account holds what the positions say, and its
\* activity since the position was opened is the activity of the recorded transitions.
ObservationAgrees(p) ==
    LET own == {i \in Approved : Recorded(i) /\ chain[i].transition.position = p}
    IN  /\ \A i \in Approved : intents[i].state # "WORKING"
        /\ held = {positions[p].fingerprint}
        /\ {states[n].intent : n \in {k \in DOMAIN states :
                 /\ k >= chain[positions[p].entry].snapshot.state
                 /\ intents[states[k].intent].certificate = "FILLED"}} = own

\* load and observe, when no entry window is open: the review is of an open position, after
\* its first fill and in the session.
LoadContext(r) ==
    /\ Recovered(r)
    /\ \E p \in OpenPositions :
          /\ run[r].at >= positions[p].origin
          /\ run[r].session = phase
          /\ ObservationAgrees(p)
          /\ run' = [run EXCEPT ![r] = [@ EXCEPT !.pc = "loaded", !.position = p,
                                          !.snapshot = positions[p].current,
                                          !.fingerprint = positions[p].fingerprint,
                                          !.mayRoll = role = "DEVELOPMENT" /\ ~RolledToday(p)]]
    /\ UNCHANGED <<role, now, phase, held, rows, latched>>

\* The position is still the one the context was loaded from.
ContextCurrent(r) ==
    LET p == positions[run[r].position]
    IN  p.closed = 0 /\ p.current = run[r].snapshot /\ p.fingerprint = run[r].fingerprint

\* persist: the observation manifest with the snapshot that was reviewed.
PersistManifest(r) ==
    /\ run[r].pc = "loaded"
    /\ ContextCurrent(r)
    /\ run' = [run EXCEPT ![r].pc = "bound"]
    /\ UNCHANGED <<role, now, phase, held, rows, latched>>

\* record_decision of a review that decides nothing; nobody looks at the position again.
DecideHold(r) ==
    /\ run[r].pc = "bound"
    /\ Cardinality(decisions) < MaxReviews
    /\ decisions' = decisions \cup {[kind |-> "REVIEW", boundary |-> run[r].at,
                                     position |-> run[r].position, snapshot |-> run[r].snapshot]}
    /\ run' = [run EXCEPT ![r] = Idle]
    /\ UNCHANGED <<role, now, phase, held, intents, states, positions, chain, latched>>

\* _add_authorized_intent: the open position has the inventory that was reviewed, and a roll
\* is the only one approved for it in the session.
MayAuthorize(r, action) ==
    /\ \E p \in OpenPositions : positions[p].fingerprint = run[r].fingerprint
    /\ action = "ROLL" =>
          \A i \in Approved : ~(/\ intents[i].action = "ROLL" /\ intents[i].session = run[r].session
                                /\ intents[i].fingerprint = run[r].fingerprint)

DecideExit(r, action) ==
    /\ run[r].pc = "bound"
    /\ Len(intents) < MaxIntents
    /\ ~latched
    /\ action = "ROLL" => run[r].mayRoll
    /\ MayAuthorize(r, action)
    /\ Approve(r, action, run[r].fingerprint, run[r].snapshot, run[r].position)
    /\ run' = [run EXCEPT ![r] = Idle]
    /\ UNCHANGED <<role, now, phase, held, states, positions, chain, decisions, latched>>

-----------------------------------------------------------------------------
(* Executions *)

Update(i, row) == intents' = [intents EXCEPT ![i] = row]

\* The claim: one execution at a time, and for a roll or a close the inventory it was
\* approved for.
Claimable(i) ==
    /\ intents[i].state = "READY" /\ ~latched
    /\ \A j \in Approved : intents[j].state # "WORKING"
    /\ intents[i].action # "ENTRY" =>
          \E p \in OpenPositions : positions[p].fingerprint = intents[i].fingerprint

\* The claim and the first order.  An intent that is never claimed stays as it is.
Submit(i) ==
    /\ Claimable(i)
    /\ Update(i, [intents[i] EXCEPT !.state = "WORKING", !.submitted = now])
    /\ UNCHANGED <<role, now, phase, held, states, positions, chain, decisions, latched, run>>

\* A claim whose authorization lapsed before the first order, given up by the operator.
Release(i) ==
    /\ Claimable(i)
    /\ Update(i, [intents[i] EXCEPT !.state = "TERMINAL"])
    /\ UNCHANGED <<role, now, phase, held, states, positions, chain, decisions, latched, run>>

\* The account after a fill; the broker closes only what is there.
LegsAfter(i) ==
    IF intents[i].action = "ENTRY" THEN held \cup {i}
    ELSE (held \ {intents[i].fingerprint}) \cup (IF intents[i].action = "ROLL" THEN {i} ELSE {})

\* finalize_execution: the certificate and the next reconciliation state, whatever filled.
Finalize(i, certificate) ==
    LET filled == {j \in Approved : intents[j].certificate = "FILLED"}
                      \cup (IF certificate = "FILLED" THEN {i} ELSE {})
        legs == IF certificate = "FILLED" THEN LegsAfter(i) ELSE held
    IN  /\ intents[i].state = "WORKING"
        /\ now < MaxTime
        /\ certificate = "FILLED" /\ intents[i].action # "ENTRY" => intents[i].fingerprint \in held
        /\ now' = now + 1
        /\ held' = legs
        /\ Update(i, [intents[i] EXCEPT !.state = "TERMINAL", !.certificate = certificate])
        /\ states' = Append(states, [intent |-> i, filled |-> filled, inventory |-> legs,
                                     at |-> now + 1, phase |-> phase])
        /\ latched' = (latched \/ certificate = "PARTIAL")
        /\ UNCHANGED <<role, phase, positions, chain, decisions, run>>

-----------------------------------------------------------------------------
(* Materialization *)

\* _activities_match_attempts: the whole activity of the account is that of the entry.
EntryActivities(i) == states[StateOf(i)].filled = {i}

\* _validate_vertical: so is its inventory.
EntryInventory(i) == states[StateOf(i)].inventory = {i}

\* _validate_lineage: the entry was filled and finalized in a session, on its own.
EntryLineage(i) ==
    /\ intents[i].action = "ENTRY" /\ intents[i].certificate = "FILLED"
    /\ InSession(states[StateOf(i)].phase)
    /\ EntryActivities(i)
    /\ EntryInventory(i)

\* The first transition and snapshot of position p.
EntryRows(i, p) ==
    LET n == StateOf(i)
    IN  [transition |-> [position |-> p, predecessor |-> 0, sequence |-> 0, action |-> "ENTRY",
                         cash |-> Cash[i], at |-> states[n].at],
         snapshot |-> [state |-> n, cumulative |-> Cash[i], rolls |-> 0,
                       session |-> states[n].phase, fingerprint |-> i, activities |-> {i}]]

\* SQLAlchemyEntryMaterializer.materialize: the position, its first transition and snapshot.
\* The position begins with its first fill, its record with the reconciliation after it.
MaterializeEntry(i) ==
    /\ intents[i].certificate = "FILLED" /\ ~Recorded(i)
    /\ EntryLineage(i)
    /\ OpenPositions = {}
    /\ \E origin \in intents[i].submitted..states[StateOf(i)].at :
          positions' = Append(positions, [entry |-> i, current |-> i, fingerprint |-> i,
                                          closed |-> 0, origin |-> origin])
    /\ chain' = [chain EXCEPT ![i] = EntryRows(i, Len(positions) + 1)]
    /\ UNCHANGED <<role, now, phase, held, intents, states, decisions, latched, run>>

\* _validate_prior_activity_history: what is new since the snapshot.
NewActivities(i, prior) == states[StateOf(i)].filled \ prior

\* Mutant: the reconciliation states between the snapshot and the fill are not counted.
TerminalLineageUncounted(i, p) ==
    LET before == chain[positions[p].current]
        s == states[StateOf(i)]
    IN  /\ positions[p].fingerprint = intents[i].fingerprint
        /\ before.snapshot.activities \subseteq s.filled
        /\ NewActivities(i, before.snapshot.activities) = {i}
        /\ s.phase = intents[i].session

\* The review that approved the exit was of the current snapshot and began after it.
ReviewIsOfCurrent(i, p) ==
    /\ positions[p].current = intents[i].snapshot
    /\ chain[positions[p].current].transition.at <= intents[i].boundary

\* The finalization is the next reconciliation state, in the session of the review.
NextState(i, p) ==
    /\ StateOf(i) = chain[positions[p].current].snapshot.state + 1
    /\ states[StateOf(i)].phase = intents[i].session

\* _validate_intent_envelope: the order is the one approved for this position.
EnvelopeMatches(i, p) == intents[i].position = p

\* _validate_terminal_legs: it closes the inventory of the position.
TerminalLegs(i, p) == positions[p].fingerprint = intents[i].fingerprint

\* _lifecycle_activities_match_attempts: nothing but this execution happened in between.
OnlyThisExecution(i, prior) ==
    /\ prior \subseteq states[StateOf(i)].filled
    /\ NewActivities(i, prior) = {i}

\* _validate_terminal_inventory: a roll leaves its new legs, a close nothing.
TerminalInventory(i) ==
    states[StateOf(i)].inventory = (IF intents[i].action = "ROLL" THEN {i} ELSE {})

\* _validate_terminal_lineage.
TerminalLineage(i, p) ==
    /\ ReviewIsOfCurrent(i, p)
    /\ NextState(i, p)
    /\ EnvelopeMatches(i, p)
    /\ TerminalLegs(i, p)
    /\ OnlyThisExecution(i, chain[positions[p].current].snapshot.activities)
    /\ TerminalInventory(i)

\* The rolls of a day start over with the session.
RollsAfter(i, before) ==
    (IF before.session = states[StateOf(i)].phase THEN before.rolls ELSE 0)
        + (IF intents[i].action = "ROLL" THEN 1 ELSE 0)

FingerprintAfter(i) == IF intents[i].action = "ROLL" THEN i ELSE 0

\* The next transition and snapshot of position p.
TerminalRows(i, p) ==
    LET before == chain[positions[p].current]
        n == StateOf(i)
    IN  [transition |-> [position |-> p, predecessor |-> positions[p].current,
                         sequence |-> before.transition.sequence + 1,
                         action |-> intents[i].action, cash |-> Cash[i], at |-> states[n].at],
         snapshot |-> [state |-> n, cumulative |-> before.snapshot.cumulative + Cash[i],
                       rolls |-> RollsAfter(i, before.snapshot), session |-> states[n].phase,
                       fingerprint |-> FingerprintAfter(i), activities |-> states[n].filled]]

\* SQLAlchemyLifecycleTerminalMaterializer.materialize.
MaterializeTerminal(i) ==
    \E p \in OpenPositions :
        /\ intents[i].action # "ENTRY" /\ intents[i].certificate = "FILLED" /\ ~Recorded(i)
        /\ TerminalLineage(i, p)
        /\ chain' = [chain EXCEPT ![i] = TerminalRows(i, p)]
        /\ positions' = [positions EXCEPT ![p] =
              [@ EXCEPT !.current = i, !.fingerprint = FingerprintAfter(i),
                        !.closed = IF intents[i].action = "CLOSE" THEN states[StateOf(i)].at ELSE 0]]
        /\ UNCHANGED <<role, now, phase, held, intents, states, decisions, latched, run>>

MarketTurns ==
    /\ phase < MaxPhase[role]
    /\ phase' = phase + 1
    /\ UNCHANGED <<role, now, held, rows, latched, run>>

-----------------------------------------------------------------------------

BookNext ==
    \/ \E r \in Runs :
          \/ StartRun(r) \/ AskForEntry(r) \/ EndRun(r)
          \/ DecideEntry(r) \/ (\E kind \in {"NO_TRADE", "CALIBRATION"} : DecideNoTrade(r, kind))
          \/ LoadContext(r) \/ PersistManifest(r) \/ DecideHold(r)
          \/ \E action \in {"ROLL", "CLOSE"} : DecideExit(r, action)
    \/ \E i \in Approved :
          \/ Submit(i) \/ Release(i)
          \/ \E certificate \in {"FILLED", "UNFILLED", "PARTIAL"} : Finalize(i, certificate)
          \/ MaterializeEntry(i) \/ MaterializeTerminal(i)
    \/ MarketTurns

-----------------------------------------------------------------------------

\* The rows have the columns and the ranges of their tables.
BookTypeOK ==
    /\ role \in Roles
    /\ now \in Time /\ phase \in 1..MaxPhase[role]
    /\ held \subseteq Ids
    /\ intents \in Seq(IntentRow) /\ Len(intents) <= MaxIntents
    /\ states \in Seq(StateRow) /\ positions \in Seq(PositionRow)
    /\ chain \in [Ids -> ChainRow \cup {None}]
    /\ decisions \subseteq DecisionRow
    /\ latched \in BOOLEAN
    /\ run \in [Runs -> RunState]
=============================================================================
