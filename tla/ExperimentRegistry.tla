------------------------- MODULE ExperimentRegistry -------------------------
(***************************************************************************)
(* SQLAlchemyExperimentRegistry: reviewed experiments are created, compiled   *)
(* once, and armed and disarmed by owner requests that run concurrently       *)
(* under READ COMMITTED, with the row locks, unique keys and second readings  *)
(* of the code; and the runtime authority that reads an authorization in two  *)
(* statements and decides by it later.                                        *)
(***************************************************************************)
EXTENDS StrategyProtocol, Sequences

CONSTANTS
    Experiments, Clients,
    CurationsOf,    \* the curations an owner may send for each experiment
    Requests,       \* compile requests: protocol, bound, agrees
    MaxRevision,    \* bound on the revisions of an experiment
    MaxClock,       \* bound on the clock
    None

ASSUME RegistryAssumption ==
    /\ MaxRevision \in Nat /\ MaxClock \in Nat
    /\ CurationsOf \in [Experiments -> SUBSET Curation]
    /\ Requests \subseteq [protocol : Protocols, bound : BOOLEAN, agrees : BOOLEAN]
    /\ "runtime" \notin Clients

VARIABLES
    definition,   \* ReviewedExperimentDefinitionRow of each experiment: its curation
    compiled,     \* CompiledExperimentVersionRow: its protocol
    arm,          \* ExperimentArmStateRow
    events,       \* ExperimentArmEventRow, in the order of their revisions
    clock,
    txn,          \* the change of authorization each client is in
    locked,       \* the client that holds the lock of an arm row
    answer,       \* what each client was last told
    reading       \* the authorization a client or the runtime is reading

rows == <<definition, compiled, arm, events>>
requests == <<txn, locked, answer>>
vars == <<rows, clock, requests, reading>>

States == {"NOT_ARMED", "ARMED", "DISARMED"}
DefinitionRow(e) == CurationsOf[e]
CompiledRow == Protocols
ArmRow == [revision : 1..MaxRevision, state : {"ARMED", "DISARMED"}, at : 0..MaxClock]
ArmEvent == [action : {"ARM", "DISARM"}, at : 0..MaxClock]
Status == [revision : 0..MaxRevision, state : States]
Txn == [phase : {"asked", "checking", "writing", "refused"}, e : Experiments,
        action : {"ARM", "DISARM"}, expected : 0..MaxRevision, at : 0..MaxClock,
        row : ArmRow \cup {None}]
Answer == [kind : {"none", "status", "conflict", "not_armed", "write_failed"}, revision : 0..MaxRevision,
           state : States, e : Experiments \cup {None}, wrote : BOOLEAN]
Reading == [e : Experiments, row : ArmRow \cup {None}, raced : BOOLEAN, done : BOOLEAN,
            status : Status \cup {None}]
Readers == Clients \cup {"runtime"}

\* None is no row, no request, no status and nobody.
ASSUME NoneAssumption == None \notin ArmRow \cup Txn \cup Status \cup Reading \cup Clients

NoAnswer == [kind |-> "none", revision |-> 0, state |-> "NOT_ARMED", e |-> None, wrote |-> FALSE]

TypeOK ==
    /\ \A e \in Experiments : definition[e] \in DefinitionRow(e) \cup {None}
    /\ compiled \in [Experiments -> CompiledRow \cup {None}]
    /\ arm \in [Experiments -> ArmRow \cup {None}]
    /\ events \in [Experiments -> Seq(ArmEvent)]
    /\ clock \in 0..MaxClock
    /\ txn \in [Clients -> Txn \cup {None}]
    /\ locked \in [Experiments -> Clients \cup {None}]
    /\ answer \in [Clients -> Answer]
    /\ reading \in [Readers -> Reading \cup {None}]

Init ==
    /\ definition = [e \in Experiments |-> None]
    /\ compiled = [e \in Experiments |-> None]
    /\ arm = [e \in Experiments |-> None]
    /\ events = [e \in Experiments |-> <<>>]
    /\ clock = 0
    /\ txn = [c \in Clients |-> None]
    /\ locked = [e \in Experiments |-> None]
    /\ answer = [c \in Clients |-> NoAnswer]
    /\ reading = [x \in Readers |-> None]

Tick ==
    /\ clock < MaxClock
    /\ clock' = clock + 1
    /\ UNCHANGED <<rows, requests, reading>>

\* create_reviewed_experiment
Create(e, c) ==
    /\ definition[e] = None
    /\ definition' = [definition EXCEPT ![e] = c]
    /\ UNCHANGED <<compiled, arm, events, clock, requests, reading>>

\* SQLAlchemyExperimentRegistry.compile: the first protocol that compiles stays.
Compile(e, request) ==
    /\ definition[e] # None /\ compiled[e] = None
    /\ Compiles(definition[e], request)
    /\ compiled' = [compiled EXCEPT ![e] = request.protocol]
    /\ UNCHANGED <<definition, arm, events, clock, requests, reading>>

-----------------------------------------------------------------------------
(* arm and disarm *)

TargetState(action) == IF action = "ARM" THEN "ARMED" ELSE "DISARMED"
Revision(row) == IF row = None THEN 0 ELSE row.revision

\* A request of the owner; its time is taken before the transaction.
Ask(c, e, action, expected) ==
    /\ txn[c] = None /\ reading[c] = None
    /\ compiled[e] # None
    /\ txn' = [txn EXCEPT ![c] = [phase |-> "asked", e |-> e, action |-> action,
                                  expected |-> expected, at |-> clock, row |-> None]]
    /\ answer' = [answer EXCEPT ![c] = NoAnswer]
    /\ UNCHANGED <<rows, clock, locked, reading>>

\* The transaction of c ends, with its lock, and c is told.
Reply(c, kind, row, wrote) ==
    /\ answer' = [answer EXCEPT ![c] =
                    [kind |-> kind, revision |-> Revision(row), wrote |-> wrote, e |-> txn[c].e,
                     state |-> IF row = None THEN "NOT_ARMED" ELSE row.state]]
    /\ txn' = [txn EXCEPT ![c] = None]
    /\ locked' = [e \in Experiments |-> IF locked[e] = c THEN None ELSE locked[e]]

\* A request whose target is the state there is: the one that made it, or one that saw it.
IsRetry(t, row) ==
    /\ row # None /\ row.state = TargetState(t.action)
    /\ t.expected \in {row.revision, row.revision - 1}

\* What the row refuses.
Refuses(t, row) ==
    \/ row # None /\ row.state = TargetState(t.action) /\ ~IsRetry(t, row)
    \/ t.expected # Revision(row)
    \/ row # None /\ t.at < row.at

\* _change_authorization locks the row of the experiment and checks the request against it.
Load(c) ==
    LET t == txn[c]
        row == arm[t.e]
    IN  /\ t # None /\ t.phase = "asked"
        /\ locked[t.e] = None
        /\ \/ /\ IsRetry(t, row)
              /\ Reply(c, "status", row, FALSE)
           \/ /\ ~IsRetry(t, row) /\ Refuses(t, row)
              /\ Reply(c, "conflict", row, FALSE)
           \/ /\ ~IsRetry(t, row) /\ ~Refuses(t, row)
              /\ t.action = "DISARM" /\ row = None
              /\ Reply(c, "not_armed", row, FALSE)
           \/ /\ ~IsRetry(t, row) /\ ~Refuses(t, row)
              /\ t.action = "ARM" \/ row # None
              /\ txn' = [txn EXCEPT ![c].row = row,
                             ![c].phase = IF t.action = "ARM" THEN "checking" ELSE "writing"]
              /\ locked' = [locked EXCEPT ![t.e] = IF row = None THEN None ELSE c]
              /\ UNCHANGED answer
        /\ UNCHANGED <<rows, clock, reading>>

\* The other armed experiment is read with its lock, after whoever holds it.
CheckOther(c) ==
    LET t == txn[c]
        others == {e \in Experiments \ {t.e} : arm[e] # None /\ arm[e].state = "ARMED"}
    IN  /\ t # None /\ t.phase = "checking"
        /\ \A e \in others : locked[e] = None
        /\ IF others # {}
           THEN Reply(c, "conflict", t.row, FALSE)
           ELSE txn' = [txn EXCEPT ![c].phase = "writing"] /\ UNCHANGED <<locked, answer>>
        /\ UNCHANGED <<rows, clock, reading>>

\* Mutant: no key on the row and the events of an experiment.
ViolatesArmedOnly(t) ==
    /\ t.action = "ARM"
    /\ \E e \in Experiments \ {t.e} : arm[e] # None /\ arm[e].state = "ARMED"

\* Mutant: no unique index on the armed row.
ViolatesRevisionOnly(t) ==
    t.row = None /\ arm[t.e] # None

\* The keys of the two tables: one event per revision, one row per experiment, one row armed.
Violates(t) ==
    \/ Len(events[t.e]) > Revision(t.row)
    \/ t.row = None /\ arm[t.e] # None
    \/ /\ t.action = "ARM"
       /\ \E e \in Experiments \ {t.e} : arm[e] # None /\ arm[e].state = "ARMED"

\* The event and the row are written, or a key refuses them and the transaction rolls back.
Write(c) ==
    LET t == txn[c]
        row == [revision |-> Revision(t.row) + 1, state |-> TargetState(t.action), at |-> t.at]
    IN  /\ t # None /\ t.phase = "writing"
        /\ Revision(t.row) < MaxRevision
        /\ IF Violates(t)
           THEN /\ txn' = [txn EXCEPT ![c].phase = "refused"]
                /\ locked' = [e \in Experiments |-> IF locked[e] = c THEN None ELSE locked[e]]
                /\ UNCHANGED <<arm, events, answer, reading>>
           ELSE /\ arm' = [arm EXCEPT ![t.e] = row]
                /\ events' = [events EXCEPT ![t.e] = Append(@, [action |-> t.action, at |-> t.at])]
                /\ reading' = [x \in Readers |->
                                 IF reading[x] # None /\ reading[x].e = t.e /\ ~reading[x].done
                                 THEN [reading[x] EXCEPT !.raced = TRUE] ELSE reading[x]]
                /\ Reply(c, "status", row, TRUE)
        /\ UNCHANGED <<definition, compiled, clock>>

\* guard_experiment_arm_event_insert: the trigger finds a row in a revision the transaction
\* did not read. Its error is no violation of a key, so that the request is answered
\* EXPERIMENT_REGISTRY_WRITE_FAILED without a look at what the winner left. (The trigger does
\* not see a winner that has not committed; then the key refuses, in Write.)
TriggerRefuses(c) ==
    LET t == txn[c]
    IN  /\ t # None /\ t.phase = "writing"
        /\ Revision(arm[t.e]) # Revision(t.row)
        /\ Reply(c, "write_failed", t.row, FALSE)
        /\ UNCHANGED <<rows, clock, reading>>

-----------------------------------------------------------------------------
(* read_authorization *)

\* The row is read first, and the events in a second statement.
ReadRow(x, e) ==
    /\ reading[x] = None
    /\ compiled[e] # None
    /\ x \in Clients => txn[x] # None /\ txn[x].phase = "refused" /\ txn[x].e = e
    /\ reading' = [reading EXCEPT ![x] = [e |-> e, row |-> arm[e], raced |-> FALSE,
                                          done |-> FALSE, status |-> None]]
    /\ UNCHANGED <<rows, clock, requests>>

\* _decode_authorization: as many events as revisions, ARM and DISARM in turn, in the order
\* of their times, the last one being the row.
Explains(trail, row) ==
    /\ Len(trail) = row.revision
    /\ \A i \in 1..Len(trail) :
          /\ trail[i].action = IF i % 2 = 1 THEN "ARM" ELSE "DISARM"
          /\ i > 1 => trail[i - 1].at <= trail[i].at
    /\ row.state = TargetState(trail[Len(trail)].action)
    /\ row.at = trail[Len(trail)].at

\* The status a reading ends with; None when the registry calls its state invalid.
StatusRead(r) ==
    IF r.row = None
    THEN IF events[r.e] = <<>> THEN [revision |-> 0, state |-> "NOT_ARMED"] ELSE None
    ELSE IF Explains(events[r.e], r.row)
         THEN [revision |-> r.row.revision, state |-> r.row.state] ELSE None

\* The runtime keeps the status it read, or is refused.
ReadEvents ==
    /\ reading["runtime"] # None /\ ~reading["runtime"].done
    /\ reading' = [reading EXCEPT !["runtime"].done = TRUE,
                                  !["runtime"].status = StatusRead(reading["runtime"])]
    /\ UNCHANGED <<rows, clock, requests>>

\* The runtime gives up the status it has.
EndReading ==
    /\ reading["runtime"] # None /\ reading["runtime"].done
    /\ reading' = [reading EXCEPT !["runtime"] = None]
    /\ UNCHANGED <<rows, clock, requests>>

\* Mutant: a refused request succeeds whenever the registry can be read.
IsReadable(t, status) == status # None

\* The change that won is the one the request asks for.
IsSameChange(t, status) ==
    /\ status # None
    /\ status.state = TargetState(t.action)
    /\ t.expected \in {status.revision, status.revision - 1}

\* A request that a key refused is answered from what is committed by then.
Reread(c) ==
    LET same == IsSameChange(txn[c], StatusRead(reading[c]))
    IN  /\ reading[c] # None
        /\ reading' = [reading EXCEPT ![c] = None]
        /\ Reply(c, IF same THEN "status" ELSE "conflict", reading[c].row, FALSE)
        /\ UNCHANGED <<rows, clock>>

-----------------------------------------------------------------------------
(* evaluate_experiment_runtime_bridge *)

\* What the ticks of a protocol can find: over the facts that can be observed, the decision,
\* whether an exit matched and whether every safety fact held.
Findings ==
    [p \in Protocols |-> [phase \in Phases |->
        {LET e == Evaluation(p, ObservationSet(p, phase, obs))
         IN  [decision |-> Classify(phase, e), exit |-> ExitRules \cap e.matched # {}, safe |-> e.safe] :
             obs \in {o \in Observations : Buildable(p, phase, o, TRUE)}}]]

\* The runtime decides for e with the authorization it read before, as of experiment r.e.
\* The bridge asks in phase FLAT; the function it asks answers for every phase.
Verdict(e, phase, found, expected) ==
    LET r == reading["runtime"]
    IN  Disposition(phase, found.decision, r.e = e, r.status, expected)

Next ==
    \/ Tick
    \/ \E e \in Experiments :
          \/ \E c \in CurationsOf[e] : Create(e, c)
          \/ \E request \in Requests : Compile(e, request)
          \/ \E x \in Readers : ReadRow(x, e)
    \/ \E c \in Clients :
          \/ \E e \in Experiments, action \in {"ARM", "DISARM"}, expected \in 0..MaxRevision :
                Ask(c, e, action, expected)
          \/ Load(c) \/ CheckOther(c) \/ Write(c) \/ TriggerRefuses(c) \/ Reread(c)
    \/ ReadEvents
    \/ EndReading

Spec == Init /\ [][Next]_vars

-----------------------------------------------------------------------------
(* Properties *)

\* At most one experiment is armed, and every arm row is explained by its events: requests
\* that arm two experiments at once, or one experiment twice, or that carry an older time
\* than the last change, leave one of them refused and the trail readable
\* (_change_authorization, uq_one_armed_experiment, _decode_authorization).
OneArmedAndExplained ==
    /\ \A e, f \in Experiments :
          (/\ arm[e] # None /\ arm[e].state = "ARMED"
           /\ arm[f] # None /\ arm[f].state = "ARMED") => e = f
    /\ \A e \in Experiments : IF arm[e] = None THEN events[e] = <<>> ELSE Explains(events[e], arm[e])

\* A client is told of a change only if that change is committed, also when a key refused its
\* own and it is answered from what the winner left (_change_authorization).
AnswersAreCommitted ==
    \A c \in Clients : answer[c].kind = "status" =>
        /\ answer[c].revision \in 1..Len(events[answer[c].e])
        /\ TargetState(events[answer[c].e][answer[c].revision].action) = answer[c].state

\* The registry calls its state invalid only to a reading that a change overtook between its
\* two statements; no sequence of requests makes it unreadable (read_authorization).
InvalidOnlyByRace ==
    \A x \in Readers : reading[x] # None /\ ~reading[x].raced =>
        IF reading[x].done THEN reading[x].status # None ELSE StatusRead(reading[x]) # None

\* A selection is allowed only on a status that was committed as ARMED in the revision the
\* caller expects and with every safety fact observed; and an open position whose rules say
\* close is closed whatever the authorization, the safety facts or the revision are
\* (evaluate_experiment_runtime_authority, classify_protocol_decision).
VerdictsFollowAuthority ==
    (reading["runtime"] # None /\ reading["runtime"].status # None) =>
        \A e \in Experiments, phase \in Phases, expected \in 0..MaxRevision :
            compiled[e] # None =>
                \A found \in Findings[compiled[e]][phase] :
                    LET v == Verdict(e, phase, found, expected)
                    IN  /\ v = "ENTRY_SELECTION_ALLOWED" =>
                              /\ phase = "FLAT" /\ found.safe
                              /\ expected \in 1..Len(events[e])
                              /\ events[e][expected].action = "ARM"
                        /\ phase = "OPEN" => (v = "OPEN_CLOSE_PRESERVED" <=> found.exit)
=============================================================================
