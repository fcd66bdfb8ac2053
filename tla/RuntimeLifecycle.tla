-------------------------- MODULE RuntimeLifecycle --------------------------
(***************************************************************************)
(* The life of the production runtime: build_production_agent opens the      *)
(* database, the provider clients, the MCP session and the halt stream, and   *)
(* undoes what it opened when a later step fails; while it serves, threads    *)
(* run operations under the guard of RuntimeComposition and one MCP call may  *)
(* be under way on the event loop; close and aclose drain the operations and  *)
(* close the resources in reverse order, once each, and may be called by      *)
(* several callers, cancelled, and called again after a failure.              *)
(***************************************************************************)
EXTENDS Naturals, Sequences, SequencesExt

CONSTANTS
    Threads,        \* threads that run guarded operations and may call close
    Callers,        \* tasks of the event loop that may call aclose
    MaxFailures,    \* bound on the closes that fail
    MaxCancels,     \* bound on the cancellations
    Nobody

ASSUME BoundsAssumption == MaxFailures \in Nat /\ MaxCancels \in Nat
ASSUME ActorsAssumption == Nobody \notin Threads \cup Callers \cup {"task", "call"}

\* _runtime_resources: the order of the cleanup steps, run in reverse.  The option contracts
\* share the trading client.
Steps == <<"persistence", "trading", "activities", "option_data", "stock_data", "model", "mcp">>

\* build_production_resources: the order in which the clients are constructed.
Construction == <<"trading", "option_data", "stock_data", "activities", "model", "mcp">>
Resources == Range(Steps) \cup {"halt"}
Stages == {"persist", "construct", "compose", "wire", "enter", "serving", "stopping", "stopped",
           "undone"}

VARIABLES
    stage,      \* how far build_production_agent and lifespan are
    opened,     \* resources that were opened
    closes,     \* how often each was closed
    failures, cancels,
    guard,      \* _RuntimeGuard state
    ops,        \* threads inside guard.operation
    drainer,    \* the caller inside begin_cleanup, which holds the cleanup condition
    cleaner,    \* who runs the cleanup steps: a thread, "task" or nobody
    complete,   \* steps that are complete
    task,       \* state of the latest asynchronous cleanup task
    ref,        \* whether __async_cleanup_task holds it
    awaits,     \* the task each caller of aclose awaits: the latest or an older one
    session,    \* RuntimeMCPResearch: entered, closed, closing, cleanup task
    lock,       \* its operation lock: Nobody or "call"
    mcp_step    \* where the cleanup task stands in mcp_research.aclose

built == <<stage, opened>>
fates == <<closes, failures, cancels>>
cleanup == <<guard, drainer, cleaner, complete, task, ref, awaits>>
mcp == <<session, lock, mcp_step>>
vars == <<built, fates, ops, cleanup, mcp>>

TypeOK ==
    /\ stage \in Stages
    /\ opened \subseteq Resources
    /\ closes \in [Resources -> 0..1]
    /\ failures \in 0..MaxFailures /\ cancels \in 0..MaxCancels
    /\ guard \in {"OPEN", "CLEANING", "CLEANUP_FAILED", "CLOSED"}
    /\ ops \subseteq Threads
    /\ drainer \in Threads \cup Callers \cup {Nobody}
    /\ cleaner \in Threads \cup {"task", Nobody}
    /\ complete \subseteq Range(Steps)
    /\ ref \in BOOLEAN
    /\ task \in {"none", "running", "failed", "done"}
    /\ awaits \in [Callers -> {"none", "latest", "older"}]
    /\ session \in [entered : BOOLEAN, closed : BOOLEAN, closing : BOOLEAN,
                    cleanup : {"none", "running", "failed", "done"}]
    /\ lock \in {Nobody, "call"}
    /\ mcp_step \in {"none", "lock", "wait"}

Init ==
    /\ stage = "persist"
    /\ opened = {}
    /\ closes = [r \in Resources |-> 0]
    /\ failures = 0 /\ cancels = 0
    /\ guard = "OPEN"
    /\ ops = {}
    /\ drainer = Nobody /\ cleaner = Nobody
    /\ complete = {}
    /\ task = "none" /\ ref = FALSE
    /\ awaits = [c \in Callers |-> "none"]
    /\ session = [entered |-> FALSE, closed |-> FALSE, closing |-> FALSE, cleanup |-> "none"]
    /\ lock = Nobody
    /\ mcp_step = "none"

-----------------------------------------------------------------------------
(* Startup *)

\* The closes of a set of resources, some of which fail.
CloseAll(set, failing) ==
    /\ failing \subseteq set
    /\ failures + Cardinality(failing) <= MaxFailures
    /\ failures' = failures + Cardinality(failing)
    /\ closes' = [r \in Resources |-> IF r \in set \ failing THEN closes[r] + 1 ELSE closes[r]]

\* create_runtime_persistence: migrations, schema; the engine is disposed when one fails.
OpenPersistence(fails) ==
    /\ stage = "persist"
    /\ opened' = {"persistence"}
    /\ IF fails
       THEN stage' = "undone" /\ CloseAll({"persistence"}, {})
       ELSE stage' = "construct" /\ UNCHANGED <<closes, failures>>
    /\ UNCHANGED <<cancels, ops, cleanup, mcp>>

\* The next client of build_production_resources.
NextClient == SelectInSeq(Construction, LAMBDA r : r \notin opened)

Construct ==
    /\ stage = "construct"
    /\ NextClient > 0
    /\ opened' = opened \cup {Construction[NextClient]}
    /\ stage' = IF NextClient = Len(Construction) THEN "compose" ELSE "construct"
    /\ UNCHANGED <<fates, ops, cleanup, mcp>>

\* Mutant: the failed startup closes only the clients.
UndoneByClients == opened \ {"persistence"}

\* _close_partial and the exit stack of build_production_resources: everything opened.
Undone == opened

\* A client cannot be constructed, the account cannot be registered or observed, or the
\* runtime cannot be composed: everything opened so far is closed, whatever else fails.
StartupFailsEarly(failing) ==
    /\ stage \in {"construct", "compose"}
    /\ stage' = "undone"
    /\ CloseAll(Undone, failing)
    /\ UNCHANGED <<opened, cancels, ops, cleanup, mcp>>

\* register_account, observe, build_runtime
Compose ==
    /\ stage = "compose"
    /\ stage' = "wire"
    /\ UNCHANGED <<opened, fates, ops, cleanup, mcp>>

\* build_production_opportunity_wiring starts the halt stream; without an opportunity there
\* is none.
Wire(with_halt) ==
    /\ stage = "wire"
    /\ stage' = "enter"
    /\ opened' = IF with_halt THEN opened \cup {"halt"} ELSE opened
    /\ UNCHANGED <<fates, ops, cleanup, mcp>>

\* The wiring fails: the plan is of another account, the calendar is not there, or, after the
\* halt stream was started, a part of it cannot be built and it stops the stream itself.
WireFails(with_halt, failing) ==
    /\ stage = "wire"
    /\ stage' = "stopping"
    /\ opened' = opened \cup with_halt
    /\ CloseAll(with_halt, failing)
    /\ UNCHANGED <<cancels, ops, cleanup, mcp>>

\* mcp_research.__aenter__, which a SUBMISSION runtime without an opportunity leaves out,
\* then the service is built and published in app.state.
Enter(researching) ==
    /\ stage = "enter"
    /\ stage' = "serving"
    /\ session' = [session EXCEPT !.entered = researching]
    /\ UNCHANGED <<opened, fates, ops, cleanup, lock, mcp_step>>

\* __aenter__ or a later step of the startup fails, or lifespan ends: _close_runtime_startup
\* and ProductionAgent.aclose stop the halt stream and go on to aclose.
StopHalt(failing) ==
    /\ stage \in {"enter", "serving"}
    /\ stage' = "stopping"
    /\ CloseAll(opened \cap {"halt"}, failing)
    /\ UNCHANGED <<opened, cancels, ops, cleanup, mcp>>

-----------------------------------------------------------------------------
(* Operations *)

StartOperation(t) ==
    /\ stage = "serving" /\ guard = "OPEN"
    /\ t \notin ops /\ cleaner # t /\ drainer # t
    /\ ops' = ops \cup {t}
    /\ UNCHANGED <<built, fates, cleanup, mcp>>

EndOperation(t) ==
    /\ t \in ops
    /\ ops' = ops \ {t}
    /\ UNCHANGED <<built, fates, cleanup, mcp>>

\* begin_cleanup on the event loop blocks every task of it.
LoopFree == drainer \notin Callers

\* RuntimeMCPResearch.call
MayCall ==
    /\ LoopFree /\ lock = Nobody
    /\ guard = "OPEN"
    /\ session.entered /\ ~session.closed /\ ~session.closing

StartCall ==
    /\ stage = "serving"
    /\ MayCall
    /\ lock' = "call"
    /\ UNCHANGED <<built, fates, ops, cleanup, session, mcp_step>>

EndCall ==
    /\ LoopFree /\ lock = "call"
    /\ lock' = Nobody
    /\ UNCHANGED <<built, fates, ops, cleanup, session, mcp_step>>

-----------------------------------------------------------------------------
(* close and aclose *)

Composed == stage \in {"enter", "serving", "stopping", "stopped"}

\* RuntimeComposition.close in a thread: only when no asynchronous step is left.
Close(t) ==
    /\ Composed /\ drainer = Nobody
    /\ t \notin ops /\ cleaner # t
    /\ guard \in {"OPEN", "CLEANUP_FAILED"}
    /\ "mcp" \in complete
    /\ guard' = "CLEANING"
    /\ drainer' = t
    /\ UNCHANGED <<built, fates, ops, cleaner, complete, task, ref, awaits, mcp>>

\* RuntimeComposition.aclose: start a cleanup, or join the one of this loop.
Aclose(c) ==
    /\ stage \in {"serving", "stopping", "stopped"}
    /\ drainer = Nobody /\ awaits[c] = "none"
    /\ \/ /\ guard \in {"OPEN", "CLEANUP_FAILED"}
          /\ guard' = "CLEANING"
          /\ drainer' = c
          /\ UNCHANGED awaits
       \/ /\ guard = "CLEANING" /\ ref
          /\ awaits' = [awaits EXCEPT ![c] = "latest"]
          /\ UNCHANGED <<guard, drainer>>
    /\ UNCHANGED <<built, fates, ops, cleaner, complete, task, ref, mcp>>

\* Mutant: begin_cleanup does not wait for the operations.
DrainedAtOnce == drainer # Nobody

\* begin_cleanup returns when no operation is active.
Drained == drainer # Nobody /\ ops = {}

BeginCleanup ==
    /\ Drained
    /\ IF drainer \in Threads
       THEN cleaner' = drainer /\ UNCHANGED <<task, ref, awaits, mcp_step>>
       ELSE /\ cleaner' = "task"
            /\ task' = "running"
            /\ ref' = TRUE
            /\ awaits' = [c \in Callers |-> IF c = drainer THEN "latest"
                                            ELSE IF awaits[c] = "none" THEN "none" ELSE "older"]
            /\ mcp_step' = "none"
    /\ drainer' = Nobody
    /\ UNCHANGED <<built, fates, ops, guard, complete, session, lock>>

\* The steps that are not complete.
Pending == Range(Steps) \ complete

\* The step the cleanup is at: the last one pending.
Step == Steps[SelectLastInSeq(Steps, LAMBDA r : r \in Pending)]

\* Mutant: a cleanup that fails starts over.
StartOver == {}

\* The steps that stay complete when a later one fails.
AfterFailure == complete

\* The cleanup fails: the guard says so, and a task ends with the error.
CleanupFails ==
    /\ complete' = AfterFailure
    /\ guard' = "CLEANUP_FAILED"
    /\ cleaner' = Nobody
    /\ task' = IF cleaner = "task" THEN "failed" ELSE task

\* A step whose close is synchronous.
CloseStep(fails) ==
    /\ cleaner # Nobody /\ (cleaner = "task" => LoopFree)
    /\ Pending # {} /\ Step # "mcp"
    /\ IF fails
       THEN CloseAll({Step}, {Step}) /\ CleanupFails
       ELSE /\ CloseAll({Step}, {})
            /\ complete' = complete \cup {Step}
            /\ UNCHANGED <<guard, cleaner, task>>
    /\ UNCHANGED <<built, cancels, ops, drainer, ref, awaits, mcp>>

\* Every step is complete.
CleanupEnds ==
    /\ cleaner # Nobody /\ drainer = Nobody
    /\ Pending = {}
    /\ guard' = "CLOSED"
    /\ cleaner' = Nobody
    /\ task' = IF cleaner = "task" THEN "done" ELSE task
    /\ UNCHANGED <<built, fates, ops, drainer, complete, ref, awaits, mcp>>

\* mcp_research.aclose takes the operation lock, so it waits for the call under way; it
\* starts its cleanup task or joins the one there is.
McpAclose ==
    /\ cleaner = "task" /\ LoopFree
    /\ Pending # {} /\ Step = "mcp" /\ mcp_step = "none"
    /\ lock = Nobody
    /\ IF session.closed
       THEN complete' = complete \cup {"mcp"} /\ UNCHANGED <<session, mcp_step>>
       ELSE /\ session' = IF session.cleanup = "none"
                          THEN [session EXCEPT !.closing = TRUE, !.cleanup = "running"]
                          ELSE session
            /\ mcp_step' = "wait"
            /\ UNCHANGED complete
    /\ UNCHANGED <<built, fates, ops, guard, drainer, cleaner, task, ref, awaits,
                   lock>>

\* RuntimeMCPResearch.__run_cleanup
McpCleanup(fails) ==
    /\ session.cleanup = "running" /\ LoopFree
    /\ CloseAll({"mcp"}, IF fails THEN {"mcp"} ELSE {})
    /\ session' = IF fails THEN [session EXCEPT !.cleanup = "failed"]
                  ELSE [entered |-> FALSE, closed |-> TRUE, closing |-> FALSE,
                        cleanup |-> "done"]
    /\ UNCHANGED <<built, cancels, ops, cleanup, lock, mcp_step>>

\* Mutant: the failed task is kept, and the next aclose joins it.
Forgotten == session

\* aclose forgets a cleanup task that failed.
Forget == [session EXCEPT !.cleanup = "none", !.closing = FALSE]

\* The shielded task has ended: the step is complete, or aclose raises.
McpCleanupEnds ==
    /\ mcp_step = "wait" /\ cleaner = "task" /\ LoopFree
    /\ \/ /\ session.cleanup = "done"
          /\ complete' = complete \cup {"mcp"}
          /\ UNCHANGED <<session, guard, cleaner, task>>
       \/ /\ session.cleanup = "failed" /\ lock = Nobody
          /\ session' = Forget
          /\ CleanupFails
    /\ mcp_step' = "none"
    /\ UNCHANGED <<built, fates, ops, drainer, ref, awaits, lock>>

\* The loop cancels the cleanup task while it waits for the session: the session's own task
\* is shielded and goes on, and nobody forgets it.
CancelTask ==
    /\ mcp_step = "wait" /\ cleaner = "task" /\ LoopFree
    /\ cancels < MaxCancels
    /\ cancels' = cancels + 1
    /\ session' = IF session.cleanup = "failed" THEN Forget ELSE session
    /\ CleanupFails
    /\ mcp_step' = "none"
    /\ UNCHANGED <<built, closes, failures, ops, drainer, ref, awaits, lock>>

\* A caller of aclose is cancelled: the shielded task goes on.
CancelCaller(c) ==
    /\ awaits[c] # "none" /\ LoopFree
    /\ cancels < MaxCancels
    /\ cancels' = cancels + 1
    /\ awaits' = [awaits EXCEPT ![c] = "none"]
    /\ UNCHANGED <<built, closes, failures, ops, guard, drainer, cleaner, complete,
                   task, ref, mcp>>

\* The awaited task has ended; after a failure the first caller forgets it.
AcloseReturns(c) ==
    /\ awaits[c] # "none" /\ LoopFree
    /\ awaits[c] = "older" \/ task \in {"failed", "done"}
    /\ ref' = IF awaits[c] = "latest" /\ task = "failed" THEN FALSE ELSE ref
    /\ awaits' = [awaits EXCEPT ![c] = "none"]
    /\ stage' = IF stage = "stopping" THEN "stopped" ELSE stage
    /\ UNCHANGED <<opened, fates, ops, guard, drainer, cleaner, complete, task, mcp>>

Next ==
    \/ \E fails \in BOOLEAN : OpenPersistence(fails)
    \/ Construct
    \/ \E failing \in SUBSET opened : StartupFailsEarly(failing)
    \/ Compose
    \/ \E with_halt \in BOOLEAN : Wire(with_halt)
    \/ \E with_halt, failing \in SUBSET {"halt"} : WireFails(with_halt, failing)
    \/ \E researching \in BOOLEAN : Enter(researching)
    \/ \E failing \in SUBSET {"halt"} : StopHalt(failing)
    \/ \E t \in Threads : StartOperation(t) \/ EndOperation(t) \/ Close(t)
    \/ StartCall \/ EndCall
    \/ \E c \in Callers : Aclose(c) \/ CancelCaller(c) \/ AcloseReturns(c)
    \/ BeginCleanup
    \/ \E fails \in BOOLEAN : CloseStep(fails) \/ McpCleanup(fails)
    \/ CleanupEnds
    \/ McpAclose
    \/ McpCleanupEnds
    \/ CancelTask

\* Operations, calls and closes end and the loop runs its tasks; nobody is obliged to close.
Fairness ==
    /\ \A t \in Threads : WF_vars(EndOperation(t))
    /\ WF_vars(EndCall) /\ WF_vars(BeginCleanup)
    /\ WF_vars(CloseStep(FALSE)) /\ WF_vars(McpCleanup(FALSE))
    /\ WF_vars(CleanupEnds) /\ WF_vars(McpAclose) /\ WF_vars(McpCleanupEnds)
    /\ \A c \in Callers : WF_vars(AcloseReturns(c))

Spec == Init /\ [][Next]_vars /\ Fairness

-----------------------------------------------------------------------------
(* Properties *)

\* No operation and no MCP call that is under way finds a resource it uses closed, whatever
\* cleanups start, fail, are cancelled and start again meanwhile (_RuntimeGuard,
\* RuntimeMCPResearch): a call is not counted as an operation, and is safe because the
\* session is the first step and its aclose waits for the lock of the call.
NoUseAfterClose ==
    /\ ops # {} => \A r \in Range(Steps) \ {"mcp"} : closes[r] = 0
    /\ lock = "call" => closes["mcp"] = 0 /\ closes["trading"] = 0

\* Each resource is closed at most once over all the retries, by threads or tasks, and the
\* runtime says CLOSED only when all of them are (_CleanupStep.complete, closed).
ClosedOnce ==
    /\ \A r \in Resources : closes[r] <= 1
    /\ guard = "CLOSED" => \A r \in Range(Steps) : closes[r] = 1

\* A startup that fails, and a runtime that has stopped, has closed all it opened, unless
\* some close failed (build_production_agent, build_production_opportunity_wiring,
\* _close_partial, _close_runtime_startup, ProductionAgent.aclose).
NothingLeaks ==
    /\ stage = "undone" /\ failures = 0 => \A r \in opened : closes[r] = 1
    /\ stage = "stopped" /\ failures = 0 /\ cancels = 0 => \A r \in opened : closes[r] = 1

\* Once a cleanup has begun, and as long as a failed one is followed by another, the runtime
\* is closed in the end: no stale task, lost wake-up or cancelled caller leaves it half
\* closed (RuntimeComposition.aclose, RuntimeMCPResearch.aclose).
CleanupFinishes ==
    []<>(guard # "CLEANUP_FAILED") => (guard # "OPEN" ~> guard = "CLOSED")
=============================================================================
