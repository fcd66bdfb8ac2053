------------------------------ MODULE AgentRun ------------------------------
(***************************************************************************)
(* AgentRunService.run for the deployed role (SUBMISSION): the five-minute   *)
(* tick a run reserves, the recovery it starts with, the decision it         *)
(* records, the order it dispatches and the managed position it makes of a   *)
(* fill.  Every action is one database transaction or one call of a          *)
(* provider; between two of them another run, the owner and the clock go on, *)
(* and the process may stop.                                                *)
(*                                                                         *)
(* What ExecutionService.execute does at the broker is BrokerExecution, the   *)
(* conditions of a claim are AccountAuthority; here an execution is a claim   *)
(* followed by any of the outcomes the agent tells apart.                     *)
(***************************************************************************)
EXTENDS Naturals, FiniteSets

CONSTANTS
    Runs,          \* requests that may be in flight at the same time
    Intents,       \* identities of execution intents
    Actors,        \* who starts a run: "SCHEDULER", "OWNER" or both
    Plans,         \* opportunity plans, each with its own decision boundary
    LastBoundary,  \* the five-minute boundaries are 1..LastBoundary
    MaxStops,      \* how often a process stops in the middle of a run
    NoIntent, NoPlan

ASSUME NoIntentAssumption == NoIntent \notin Intents
ASSUME NoPlanAssumption == NoPlan \notin Plans
ASSUME ActorsAssumption == Actors \subseteq {"SCHEDULER", "OWNER"}
ASSUME IntentsAssumption == IsFiniteSet(Intents)
ASSUME BoundAssumption == LastBoundary \in Nat \ {0} /\ MaxStops \in Nat

Boundaries == 1..LastBoundary
Keys == Boundaries \X {"SCHEDULER", "OWNER"}

\* What a certificate may say: UNFILLED stands for REJECTED, CANCELED, EXPIRED and
\* REPLACED, PARTIAL for the three PARTIAL_*_RECONCILED statuses.
Outcomes == {"FILLED", "UNFILLED", "PARTIAL"}

\* Terminal codes complete_tick accepts only with a certificate.
CertificateCodes == Outcomes \cup {"MATERIALIZATION_FAILED"}

\* Terminal codes of a decision with an intent that has no certificate.
UncertifiedCodes == {"EXECUTION_BLOCKED", "PREPARATION_FAILED"}

\* NO_ACTION stands for every code of a decision that approved nothing.
OtherCodes == {"NO_ACTION", "PREVIEW_UNAVAILABLE", "RECOVERED", "RECOVERY_PENDING"}
Codes == CertificateCodes \cup UncertifiedCodes \cup OtherCodes

VARIABLES
    execution_locked, autonomous_enabled,  \* AccountRoleRow
    boundary,      \* the current five-minute boundary
    tick,          \* AgentTickRow by key
    decided,       \* plans with a policy decision (AgentInputSnapshotRow, AgentDecisionRow)
    intent,        \* ExecutionIntentRow, its authorization and its certificate
    job,           \* EntryMaterializationJobRow: 0, or the place in the order of prepared_at
    job_done,      \* EntryMaterializationJobRow.completed_at
    position,      \* ManagedLifecyclePositionRow by the entry intent it came from
    run,           \* the runs in flight
    stops

rows == <<tick, decided, intent, job, job_done, position>>
vars == <<execution_locked, autonomous_enabled, boundary, rows, run, stops>>

NoTick == [status |-> "ABSENT", decision |-> "NONE", intent |-> NoIntent, code |-> "NONE",
           certificate |-> NoIntent]

\* The columns of the row and ck_agent_tick_completion.
Ticks == {t \in [status : {"ABSENT", "RESERVED", "COMPLETED"}, decision : {"NONE", "RECORDED"},
                 intent : Intents \cup {NoIntent}, code : Codes \cup {"NONE"},
                 certificate : Intents \cup {NoIntent}] :
             (t.status = "COMPLETED") <=> (t.code # "NONE")}

NoExecution == [state |-> "ABSENT", action |-> "NONE", plan |-> NoPlan, target |-> NoIntent,
                live |-> FALSE, sent |-> FALSE, status |-> "NONE", alone |-> FALSE]
Executions == [state : {"ABSENT", "APPROVED", "CLAIMED", "TERMINAL"},
               action : {"NONE", "ENTRY", "CLOSE"},
               plan : Plans \cup {NoPlan},
               target : Intents \cup {NoIntent},   \* the position a close was approved for
               live : BOOLEAN,                     \* inside the authorization's window
               sent : BOOLEAN,                     \* it has an order attempt
               status : Outcomes \cup {"NONE"},    \* of the certificate
               alone : BOOLEAN]                    \* the final sweep held nothing else

Points == {"idle", "recover", "pending", "recover_again", "pending_again", "begin_pending",
           "begin", "lifecycle", "latch", "acquire", "decide", "audit", "prepare", "preview",
           "claim", "advance", "materialize", "complete"}

\* An execution is entered from the recovery of an entry, from the recovery of a close, or
\* from the decision of this very run.
Modes == {"NONE", "RESUME", "CLOSE", "DISPATCH"}

Idle == [pc |-> "idle", key |-> <<1, "SCHEDULER">>, authorized |-> FALSE, mode |-> "NONE",
         action |-> "NONE", intent |-> NoIntent, plan |-> NoPlan, target |-> NoIntent,
         code |-> "NONE"]
RunStates == [pc : Points, key : Keys, authorized : BOOLEAN, mode : Modes,
              action : {"NONE", "ENTRY", "CLOSE"}, intent : Intents \cup {NoIntent},
              plan : Plans \cup {NoPlan}, target : Intents \cup {NoIntent},
              code : Codes \cup {"NONE"}]

TypeOK ==
    /\ execution_locked \in BOOLEAN
    /\ autonomous_enabled \in BOOLEAN
    /\ boundary \in Boundaries
    /\ tick \in [Keys -> Ticks]
    /\ decided \subseteq Plans
    /\ intent \in [Intents -> Executions]
    /\ job \in [Intents -> Nat]
    /\ job_done \in [Intents -> BOOLEAN]
    /\ position \in [Intents -> {"NONE", "OPEN", "CLOSED"}]
    /\ run \in [Runs -> RunStates]
    /\ stops \in 0..MaxStops

Init ==
    /\ execution_locked = FALSE
    /\ autonomous_enabled = TRUE
    /\ boundary = 1
    /\ tick = [k \in Keys |-> NoTick]
    /\ decided = {}
    /\ intent = [i \in Intents |-> NoExecution]
    /\ job = [i \in Intents |-> 0]
    /\ job_done = [i \in Intents |-> FALSE]
    /\ position = [i \in Intents |-> "NONE"]
    /\ run = [r \in Runs |-> Idle]
    /\ stops = 0

-----------------------------------------------------------------------------
(* What the tables say *)

IsEntry(i) == intent[i].action = "ENTRY"
OpenPositions == {i \in Intents : position[i] = "OPEN"}

\* Entries that filled and that no filled close has taken off the book.
Held == {i \in Intents : /\ IsEntry(i)
                         /\ intent[i].status = "FILLED"
                         /\ \A j \in Intents : ~(intent[j].target = i /\ intent[j].status = "FILLED")}

OpenJobs == {i \in Intents : job[i] # 0 /\ ~job_done[i]}

\* The rows recover_pending has to do something about.
DueJobs == {i \in OpenJobs : intent[i].status # "NONE"}

\* pending_execution_intents
PendingJobs == {i \in OpenJobs : intent[i].status = "NONE" /\ intent[i].state # "TERMINAL"}

\* pending_submission_lifecycle_intents
PendingCloses ==
    {i \in Intents : /\ intent[i].action = "CLOSE"
                     /\ intent[i].target \in OpenPositions
                     /\ \/ intent[i].state \in {"APPROVED", "CLAIMED"}
                        \/ intent[i].state = "TERMINAL" /\ intent[i].status = "FILLED"}

\* Mutant: what else the account holds is not looked at.
MaterializableBesideOthers(i) ==
    /\ IsEntry(i)
    /\ job[i] # 0
    /\ intent[i].status = "FILLED"
    /\ position[i] # "CLOSED"

\* SQLAlchemyEntryMaterializer.materialize raises nothing.  The sweep of the finalization
\* must hold the two legs of the entry and nothing else, and the open position of the
\* account, if there is one, must be the one this certificate made.
Materializable(i) ==
    /\ IsEntry(i)
    /\ job[i] # 0
    /\ intent[i].status = "FILLED"
    /\ intent[i].alone
    /\ position[i] # "CLOSED"
    /\ OpenPositions \subseteq {i}

\* Mutant: what cannot be materialized is resolved without.
ResolvableUnlessPartial(i) == intent[i].status # "PARTIAL"

\* The statuses _resolve_without_materialization accepts.
Resolvable(i) == intent[i].status = "UNFILLED"

\* SQLAlchemyLifecycleTerminalMaterializer.materialize raises nothing: the final sweep is
\* empty and the position is open, or this certificate closed it before.
Closable(i) ==
    /\ intent[i].action = "CLOSE"
    /\ intent[i].status = "FILLED"
    /\ intent[i].alone
    /\ position[intent[i].target] \in {"OPEN", "CLOSED"}

-----------------------------------------------------------------------------
(* Control of a run *)

At(r, pc) == run[r].pc = pc
Goto(r, pc) == run' = [run EXCEPT ![r] = [@ EXCEPT !.pc = pc]]

\* An exception leaves run(): the caller gets AGENT_RUN_UNAVAILABLE.
Raise(r) == run' = [run EXCEPT ![r] = Idle]

\* persist_decision without a proposal, then complete_tick.
Audit(r, code) ==
    run' = [run EXCEPT ![r] = [Idle EXCEPT !.pc = "audit", !.key = run[r].key, !.code = code]]
Complete(r, code) ==
    run' = [run EXCEPT ![r] = [Idle EXCEPT !.pc = "complete", !.key = run[r].key, !.code = code,
                                           !.intent = run[r].intent]]

Enter(r, mode, i) ==
    run' = [run EXCEPT ![r] = [@ EXCEPT !.pc = "preview", !.mode = mode, !.intent = i]]

\* observe() and the clock; the two server flags are on.
Start(r, actor) ==
    LET authorized == actor = "SCHEDULER" /\ autonomous_enabled
    IN  /\ At(r, "idle")
        /\ run' = [run EXCEPT ![r] = [Idle EXCEPT !.pc = IF authorized THEN "recover" ELSE "begin",
                                                  !.key = <<boundary, actor>>,
                                                  !.authorized = authorized]]
        /\ UNCHANGED <<execution_locked, autonomous_enabled, boundary, rows, stops>>

-----------------------------------------------------------------------------
(* Recovery of entries, before a tick is begun *)

\* materialize, or _resolve_without_materialization, of the first due job; the error of a
\* job that can have neither ends the run, and the jobs after it are not looked at.
RecoverJob(r) ==
    /\ run[r].pc \in {"recover", "recover_again"}
    /\ \E i \in DueJobs :
           /\ \A j \in DueJobs : job[i] <= job[j]
           /\ IF Materializable(i)
              THEN /\ position' = [position EXCEPT ![i] = "OPEN"]
                   /\ job_done' = [job_done EXCEPT ![i] = TRUE]
                   /\ UNCHANGED run
              ELSE IF Resolvable(i)
              THEN /\ job_done' = [job_done EXCEPT ![i] = TRUE]
                   /\ UNCHANGED <<position, run>>
              ELSE Raise(r) /\ UNCHANGED <<position, job_done>>
    /\ UNCHANGED <<execution_locked, autonomous_enabled, boundary, tick, decided, intent, job, stops>>

NothingDue(r) ==
    /\ run[r].pc \in {"recover", "recover_again"}
    /\ DueJobs = {}
    /\ Goto(r, IF At(r, "recover") THEN "pending" ELSE "pending_again")
    /\ UNCHANGED <<execution_locked, autonomous_enabled, boundary, rows, stops>>

\* More than one pending intent, or one still pending after it was executed, is an error.
PendingEntry(r) ==
    /\ run[r].pc \in {"pending", "pending_again"}
    /\ \/ PendingJobs = {} /\ Goto(r, "begin")
       \/ At(r, "pending") /\ \E i \in Intents : PendingJobs = {i} /\ Enter(r, "RESUME", i)
       \/ /\ At(r, "pending_again") \/ Cardinality(PendingJobs) > 1
          /\ PendingJobs # {}
          /\ Raise(r)
    /\ UNCHANGED <<execution_locked, autonomous_enabled, boundary, rows, stops>>

-----------------------------------------------------------------------------
(* The tick *)

\* reserve_tick: nobody has the key.
Reservable(k) == tick[k].status = "ABSENT"

\* begin_tick: a key is reserved once; a completed one returns its result, and one that is
\* reserved by somebody else is AGENT_TICK_IN_PROGRESS.
BeginTick(r) ==
    /\ run[r].pc \in {"begin", "begin_pending"}
    /\ IF Reservable(run[r].key)
       THEN /\ tick' = [tick EXCEPT ![run[r].key].status = "RESERVED"]
            /\ IF At(r, "begin_pending") THEN Audit(r, "RECOVERY_PENDING")
               ELSE Goto(r, IF run[r].authorized THEN "lifecycle" ELSE "latch")
       ELSE Raise(r) /\ UNCHANGED tick
    /\ UNCHANGED <<execution_locked, autonomous_enabled, boundary, decided, intent, job, job_done,
                   position, stops>>

\* A close that is under way is recovered before anything new is looked at.
RecoverLifecycle(r) ==
    /\ At(r, "lifecycle")
    /\ \/ PendingCloses = {} /\ Goto(r, "latch")
       \/ \E i \in Intents : PendingCloses = {i} /\ Enter(r, "CLOSE", i)
       \/ Cardinality(PendingCloses) > 1 /\ Audit(r, "NO_ACTION")
    /\ UNCHANGED <<execution_locked, autonomous_enabled, boundary, rows, stops>>

\* permanent_latch; without authority to trade the run records the calibration binding.
CheckLatch(r) ==
    /\ At(r, "latch")
    /\ IF run[r].authorized /\ ~execution_locked THEN Goto(r, "acquire") ELSE Audit(r, "NO_ACTION")
    /\ UNCHANGED <<execution_locked, autonomous_enabled, boundary, rows, stops>>

\* The router asks for an entry first, positions on the book or not, and for an assessment
\* of the open position when no entry window is open.  What the policy answers is any of
\* its outcomes, except that it approves no entry while another one is reserved; a provider
\* failure is an outcome as well.
Acquire(r) ==
    /\ At(r, "acquire")
    /\ \/ Audit(r, "NO_ACTION")
       \/ \E p \in Plans, action \in {"NONE", "ENTRY"} :
              /\ action = "ENTRY" => \A i \in Intents : ~(IsEntry(i) /\ intent[i].state = "CLAIMED")
              /\ run' = [run EXCEPT ![r] = [@ EXCEPT !.pc = "decide", !.plan = p, !.action = action]]
       \/ \E i \in OpenPositions :
              run' = [run EXCEPT ![r] = [@ EXCEPT !.pc = "decide", !.target = i, !.action = "CLOSE"]]
    /\ UNCHANGED <<execution_locked, autonomous_enabled, boundary, rows, stops>>

\* record_decision of a policy decision for the run's tick.
MayDecide(r) ==
    /\ run[r].plan \notin decided
    /\ run[r].action # "NONE" => ~execution_locked /\ autonomous_enabled
    /\ run[r].action = "CLOSE" => run[r].target \in OpenPositions

\* Where a run goes on with an approved intent: _run_opportunity, _run_lifecycle.
Dispatch(action) == IF action = "ENTRY" THEN "prepare" ELSE "preview"

\* The tick, the decision, the authorization and the intent are one transaction.  An
\* authorization whose window has closed meanwhile makes it raise as well.
RecordDecision(r) ==
    LET approves == run[r].action # "NONE"
        record(i) == tick' = [tick EXCEPT ![run[r].key].decision = "RECORDED",
                                          ![run[r].key].intent = i]
    IN  /\ At(r, "decide")
        /\ \/ /\ approves \/ ~MayDecide(r)
              /\ Raise(r)
              /\ UNCHANGED <<tick, decided, intent>>
           \/ /\ ~approves /\ MayDecide(r)
              /\ decided' = decided \cup {run[r].plan}
              /\ record(NoIntent)
              /\ Complete(r, "NO_ACTION")
              /\ UNCHANGED intent
           \/ \E i \in Intents :
              /\ approves /\ MayDecide(r)
              /\ intent[i].state = "ABSENT"
              /\ decided' = decided \cup ({run[r].plan} \ {NoPlan})
              /\ record(i)
              /\ intent' = [intent EXCEPT ![i].state = "APPROVED", ![i].live = TRUE,
                                          ![i].action = run[r].action,
                                          ![i].plan = run[r].plan,
                                          ![i].target = run[r].target]
              /\ run' = [run EXCEPT ![r] =
                             [Idle EXCEPT !.pc = Dispatch(run[r].action),
                                          !.key = run[r].key, !.mode = "DISPATCH", !.intent = i]]
        /\ UNCHANGED <<execution_locked, autonomous_enabled, boundary, job, job_done, position,
                       stops>>

\* persist_decision of a decision that approves nothing.
RecordAudit(r) ==
    /\ At(r, "audit")
    /\ tick' = [tick EXCEPT ![run[r].key].decision = "RECORDED"]
    /\ Goto(r, "complete")
    /\ UNCHANGED <<execution_locked, autonomous_enabled, boundary, decided, intent, job, job_done,
                   position, stops>>

\* prepare: the job is on the table before the order may exist.
PrepareJob(r) ==
    /\ At(r, "prepare")
    /\ IF intent[run[r].intent].state = "APPROVED"
       THEN /\ job' = [job EXCEPT ![run[r].intent] = 1 + Cardinality({i \in Intents : job[i] # 0})]
            /\ Goto(r, "preview")
       ELSE Complete(r, "PREPARATION_FAILED") /\ UNCHANGED job
    /\ UNCHANGED <<execution_locked, autonomous_enabled, boundary, tick, decided, intent, job_done,
                   position, stops>>

-----------------------------------------------------------------------------
(* Execution *)

\* ExecutionBlocked out of execute, or out of submission_order_preview when code says so.
Blocked(r, code) ==
    \/ run[r].mode = "RESUME" /\ Raise(r)
    \/ /\ run[r].mode = "CLOSE"
       /\ Audit(r, IF code = "EXECUTION_BLOCKED" THEN "RECOVERY_PENDING" ELSE code)
    \/ run[r].mode = "DISPATCH" /\ Complete(r, code)

\* submission_order_preview: autonomy may have been switched off since.
Preview(r) ==
    LET i == run[r].intent
    IN  /\ At(r, "preview")
        /\ IF autonomous_enabled /\ ~(IsEntry(i) /\ intent[i].state = "TERMINAL")
           THEN Goto(r, "claim")
           ELSE Blocked(r, "PREVIEW_UNAVAILABLE")
        /\ UNCHANGED <<execution_locked, autonomous_enabled, boundary, rows, stops>>

\* claim_intent, as AccountAuthority has it.
Claimable(i) ==
    /\ ~execution_locked
    /\ autonomous_enabled
    /\ \A j \in Intents : intent[j].state # "CLAIMED"
    /\ intent[i].live
    /\ intent[i].action = "CLOSE" => intent[i].target \in OpenPositions

\* The claim of execute; an intent that is claimed or terminal already is taken as it is.
\* An entry may also be refused for its budget.
Claim(r) ==
    LET i == run[r].intent
    IN  /\ At(r, "claim")
        /\ \/ /\ intent[i].state = "APPROVED"
              /\ Claimable(i)
              /\ intent' = [intent EXCEPT ![i].state = "CLAIMED"]
              /\ Goto(r, "advance")
           \/ /\ intent[i].state = "APPROVED"
              /\ IsEntry(i) \/ ~Claimable(i)
              /\ Blocked(r, "EXECUTION_BLOCKED")
              /\ UNCHANGED intent
           \/ /\ intent[i].state \in {"CLAIMED", "TERMINAL"}
              /\ Goto(r, "advance")
              /\ UNCHANGED intent
        /\ UNCHANGED <<execution_locked, autonomous_enabled, boundary, tick, decided, job, job_done,
                       position, stops>>

\* Mutant: a filled entry or close is reported without its materialization.
CertifiedReports(r, status) ==
    \/ run[r].mode = "RESUME" /\ Goto(r, "recover_again")
    \/ run[r].mode = "CLOSE" /\ Audit(r, "RECOVERED")
    \/ run[r].mode = "DISPATCH" /\ Complete(r, status)

\* execute returns the certificate of the intent.
Certified(r, status) ==
    \/ run[r].mode = "RESUME" /\ Goto(r, "recover_again")
    \/ run[r].mode # "RESUME" /\ status = "FILLED" /\ Goto(r, "materialize")
    \/ run[r].mode = "CLOSE" /\ status # "FILLED" /\ Audit(r, "RECOVERED")
    \/ run[r].mode = "DISPATCH" /\ status # "FILLED" /\ Complete(r, status)

\* The first attempt is prepared and submitted.
FirstWrite(r) ==
    LET i == run[r].intent
    IN  /\ At(r, "advance")
        /\ intent[i].state = "CLAIMED"
        /\ ~intent[i].sent
        /\ ~execution_locked
        /\ intent' = [intent EXCEPT ![i].sent = TRUE]
        /\ UNCHANGED <<execution_locked, autonomous_enabled, boundary, tick, decided, job, job_done,
                       position, run, stops>>

\* finalize_execution_authorized of a claimed intent; a partial fill latches the account.
Finalize(r, status) ==
    LET i == run[r].intent
    IN  /\ At(r, "advance")
        /\ intent[i].state = "CLAIMED"
        /\ intent[i].sent
        /\ intent' = [intent EXCEPT ![i].state = "TERMINAL", ![i].status = status,
                                    ![i].alone = Held \subseteq {intent[i].target}]
        /\ execution_locked' = (execution_locked \/ status = "PARTIAL")
        /\ Certified(r, status)
        /\ UNCHANGED <<autonomous_enabled, boundary, tick, decided, job, job_done, position, stops>>

\* Another run finalized it; a claim the operator released has no certificate, which is
\* a KeyError.
AlreadyTerminal(r) ==
    LET i == run[r].intent
    IN  /\ At(r, "advance")
        /\ intent[i].state = "TERMINAL"
        /\ IF intent[i].status = "NONE" THEN Raise(r) ELSE Certified(r, intent[i].status)
        /\ UNCHANGED <<execution_locked, autonomous_enabled, boundary, rows, stops>>

\* ExecutionPending: the order is at the broker, or waits for its next step.
StillPending(r) ==
    /\ At(r, "advance")
    /\ intent[run[r].intent].state = "CLAIMED"
    /\ IF run[r].mode = "RESUME" THEN Goto(r, "begin_pending") ELSE Blocked(r, "EXECUTION_BLOCKED")
    /\ UNCHANGED <<execution_locked, autonomous_enabled, boundary, rows, stops>>

\* ExecutionBlocked, with the account latched when a sweep or a lookup found a mismatch.
AdvanceBlocked(r) ==
    /\ At(r, "advance")
    /\ intent[run[r].intent].state = "CLAIMED"
    /\ execution_locked' \in {execution_locked, TRUE}
    /\ Blocked(r, "EXECUTION_BLOCKED")
    /\ UNCHANGED <<autonomous_enabled, boundary, rows, stops>>

\* The materialization of a fill: of an entry with the job prepared for it, of a close by
\* closing the position.  An error leaves the fill to the next recovery.
Materialize(r) ==
    LET i == run[r].intent
        end(code) == IF run[r].mode = "CLOSE"
                     THEN Audit(r, IF code = "FILLED" THEN "RECOVERED" ELSE "RECOVERY_PENDING")
                     ELSE Complete(r, code)
    IN  /\ At(r, "materialize")
        /\ IF Materializable(i)
           THEN /\ position' = [position EXCEPT ![i] = "OPEN"]
                /\ job_done' = [job_done EXCEPT ![i] = TRUE]
                /\ end("FILLED")
           ELSE IF Closable(i)
           THEN /\ position' = [position EXCEPT ![intent[i].target] = "CLOSED"]
                /\ end("FILLED")
                /\ UNCHANGED job_done
           ELSE end("MATERIALIZATION_FAILED") /\ UNCHANGED <<position, job_done>>
        /\ UNCHANGED <<execution_locked, autonomous_enabled, boundary, tick, decided, intent, job,
                       stops>>

-----------------------------------------------------------------------------
(* Completion *)

\* _certificate_matches_decision: the certificate is of the intent the tick's decision
\* approved, and the code is its status or says that a fill was not materialized.
CertificateMatchesDecision(r) ==
    LET i == run[r].intent
    IN  /\ i # NoIntent
        /\ tick[run[r].key].intent = i
        /\ intent[i].status = IF run[r].code = "MATERIALIZATION_FAILED" THEN "FILLED"
                              ELSE run[r].code

\* complete_tick refuses a tick without a decision, a code that needs a certificate without
\* the right one, and an approved intent without a certificate, unless the code is one of
\* those that explain it.
Completable(r) ==
    /\ tick[run[r].key].decision = "RECORDED"
    /\ IF run[r].code \in CertificateCodes
       THEN CertificateMatchesDecision(r)
       ELSE tick[run[r].key].intent = NoIntent \/ run[r].code \in UncertifiedCodes

\* The row complete_tick writes.
Completed(r) ==
    [tick[run[r].key] EXCEPT !.status = "COMPLETED", !.code = run[r].code,
                             !.certificate = IF run[r].code \in CertificateCodes THEN run[r].intent
                                             ELSE NoIntent]

CompleteTick(r) ==
    /\ At(r, "complete")
    /\ IF Completable(r) THEN tick' = [tick EXCEPT ![run[r].key] = Completed(r)] ELSE UNCHANGED tick
    /\ Raise(r)
    /\ UNCHANGED <<execution_locked, autonomous_enabled, boundary, decided, intent, job, job_done,
                   position, stops>>

-----------------------------------------------------------------------------
(* The surroundings *)

SetAutonomousEnabled ==
    /\ autonomous_enabled' = ~autonomous_enabled
    /\ UNCHANGED <<execution_locked, boundary, rows, run, stops>>

NextBoundary ==
    /\ boundary < LastBoundary
    /\ boundary' = boundary + 1
    /\ UNCHANGED <<execution_locked, autonomous_enabled, rows, run, stops>>

\* Thirty seconds after the decision; only a claim looks at it.
AuthorizationExpires(i) ==
    /\ intent[i].state = "APPROVED"
    /\ intent[i].live
    /\ intent' = [intent EXCEPT ![i].live = FALSE]
    /\ UNCHANGED <<execution_locked, autonomous_enabled, boundary, tick, decided, job, job_done,
                   position, run, stops>>

\* release_unsubmitted_claim, run by the operator: a claim without an attempt is given up.
ReleaseUnsubmittedClaim(i) ==
    /\ intent[i].state = "CLAIMED"
    /\ ~intent[i].sent
    /\ intent' = [intent EXCEPT ![i].state = "TERMINAL"]
    /\ UNCHANGED <<execution_locked, autonomous_enabled, boundary, tick, decided, job, job_done,
                   position, run, stops>>

\* The process stops, or the request is cut off.
Stop(r) ==
    /\ ~At(r, "idle")
    /\ stops < MaxStops
    /\ stops' = stops + 1
    /\ Raise(r)
    /\ UNCHANGED <<execution_locked, autonomous_enabled, boundary, rows>>

-----------------------------------------------------------------------------

Step(r) ==
    \/ RecoverJob(r) \/ NothingDue(r) \/ PendingEntry(r)
    \/ BeginTick(r) \/ RecoverLifecycle(r) \/ CheckLatch(r) \/ Acquire(r)
    \/ RecordDecision(r) \/ RecordAudit(r) \/ PrepareJob(r)
    \/ Preview(r) \/ Claim(r) \/ FirstWrite(r) \/ AlreadyTerminal(r) \/ StillPending(r) \/ AdvanceBlocked(r)
    \/ \E status \in Outcomes : Finalize(r, status)
    \/ Materialize(r) \/ CompleteTick(r)

Next ==
    \/ \E r \in Runs, actor \in Actors : Start(r, actor)
    \/ \E r \in Runs : Step(r)
    \/ SetAutonomousEnabled
    \/ NextBoundary
    \/ \E i \in Intents : AuthorizationExpires(i)
    \/ \E i \in Intents : ReleaseUnsubmittedClaim(i)
    \/ \E r \in Runs : Stop(r)

Spec == Init /\ [][Next]_vars

-----------------------------------------------------------------------------
(* Properties *)

\* An entry order cannot exist without the job that leads recovery to it: whatever stops
\* between the decision, prepare and the claim, a claimed entry has its job (prepare runs
\* before execute; recovery finds entries only through their jobs).
EntryHasJob ==
    \A i \in Intents : IsEntry(i) /\ intent[i].state \in {"CLAIMED", "TERMINAL"} => job[i] # 0

\* No fill of an entry is lost: until it is a managed position its job is open and due, so
\* recover_pending meets it again; and a job is closed only by what resolved it.
FillIsNeverLost ==
    /\ \A i \in Intents :
          IsEntry(i) /\ intent[i].status = "FILLED" /\ position[i] = "NONE" => i \in DueJobs
    /\ \A i \in Intents :
          job_done[i] => \/ intent[i].status = "FILLED" /\ position[i] # "NONE"
                         \/ intent[i].status = "UNFILLED" /\ position[i] = "NONE"

\* The managed positions are what was traded: at most one is open, each is of an entry that
\* filled while nothing else was held, and a closed one was closed by a fill after which
\* nothing was.  What else fills afterwards, another entry too, gets no position beside it.
PositionsMatchFills ==
    /\ \A i, j \in OpenPositions : i = j
    /\ \A i \in Intents : position[i] # "NONE" =>
          IsEntry(i) /\ intent[i].status = "FILLED" /\ intent[i].alone
    /\ \A i \in Intents : position[i] = "CLOSED" =>
          \E j \in Intents : intent[j].target = i /\ intent[j].status = "FILLED" /\ intent[j].alone

\* A tick that reports FILLED carries the certificate of the intent it decided, and the
\* position was made, or closed, before the tick said so; a tick that reports a certificate
\* without materialization has one (complete_tick, _certificate_matches_decision).
ReportedFillIsMaterialized ==
    \A k \in Keys : LET i == tick[k].intent IN
        tick[k].status = "COMPLETED" /\ tick[k].code \in CertificateCodes =>
            /\ i # NoIntent
            /\ tick[k].certificate = i
            /\ intent[i].status =
                   IF tick[k].code = "MATERIALIZATION_FAILED" THEN "FILLED" ELSE tick[k].code
            /\ tick[k].code = "FILLED" => IF IsEntry(i) THEN position[i] # "NONE"
                                          ELSE position[intent[i].target] = "CLOSED"

\* Runs that overlap, with inputs read before the other decided, approve at most one entry
\* for a plan (AGENT_INPUT_BOUNDARY_CONFLICT).
OneEntryPerPlan ==
    \A i, j \in Intents : IsEntry(i) /\ IsEntry(j) /\ intent[i].plan = intent[j].plan => i = j

\* A tick is one run's: what it decided is not replaced, and once it is completed nothing
\* of it changes, whoever stops, restarts or runs again at the same boundary.
TickIsFinal ==
    [][\A k \in Keys :
         /\ tick[k].status = "COMPLETED" => tick'[k] = tick[k]
         /\ tick[k].intent # NoIntent => tick'[k].intent = tick[k].intent
         /\ tick[k].status # "ABSENT" => tick'[k].status # "ABSENT"]_vars
=============================================================================
