----------------------------- MODULE Opportunity -----------------------------
(***************************************************************************)
(* The opportunity pipeline: an operator freezes versions of a plan and    *)
(* seals the account baseline of each; scheduled runs load the newest      *)
(* version, read the providers, the entry history and the earlier          *)
(* decisions, apply the policy, store the observation and, if it approves, *)
(* the thesis, and record the decision with its entry intent.              *)
(*                                                                         *)
(* Runs may overlap, fail or crash at any step. One opportunity key and    *)
(* one trading day; the clock counts the starts of runs, so a run is named *)
(* by its trusted_at.                                                      *)
(***************************************************************************)
EXTENDS MarketEvidence

CONSTANTS
    Runs,            \* the runs that may be under way at once
    Boundaries,      \* decision boundaries a plan may be frozen for
    LiveEvidence,    \* what the providers answer
    Window,          \* how long after its boundary a plan admits entries
    Equity,          \* the account's equity and buying power, in dollars
    MaxPlans,        \* bound: versions frozen
    MaxClock         \* bound: runs started

ASSUME OpportunityAssumption ==
    /\ {spec.policy : spec \in PlanSpecs} \subseteq Policies
    /\ Boundaries \subseteq 0 .. MaxClock
    /\ MaxPlans \in Nat /\ MaxClock \in Nat

VARIABLES
    clock,       \* the trusted_at of the newest run
    plans,       \* development_opportunity_plans, by version
    captured,    \* per version: when its baseline was captured, or -1
    observed,    \* opportunity_observation_manifests, per version: trusted_at or 0
    theses,      \* thesis_versions, by version: the plan and its observation
    decisions,   \* agent_decisions of kind OPPORTUNITY
    intents,     \* the entry intents, in the order of their creation
    run          \* the state of each run

pipelineVars == <<clock, plans, captured, observed, theses, decisions, intents, run>>

Unobserved == 0
NotSealed == -1

Idle == [stage |-> "IDLE"]

Account == [equity |-> Equity, power |-> Equity]

PipelineInit ==
    /\ clock = 0
    /\ plans = <<>>
    /\ captured = [v \in 1 .. MaxPlans |-> NotSealed]
    /\ observed = [v \in 1 .. MaxPlans |-> Unobserved]
    /\ theses = <<>>
    /\ decisions = {}
    /\ intents = <<>>
    /\ run = [r \in Runs |-> Idle]

-----------------------------------------------------------------------------
(* The operator's bootstrap                                                *)

\* _plan_material: the sessions in order, the evidence window between the
\* freezing and the boundary.
PlanValid(spec, boundary, frozen) ==
    /\ spec.start < spec.cutoff /\ spec.cutoff < spec.event
    /\ spec.event < spec.reaction /\ spec.reaction <= spec.signal
    /\ spec.codes # {}
    /\ spec.window_from >= spec.window_to /\ spec.window_to >= 0
    /\ Bar * frozen <= Bar * boundary - spec.window_from

PlanRow(spec, boundary, frozen) ==
    [spec |-> spec, boundary |-> boundary, last |-> boundary + Window, frozen |-> frozen]

\* freeze_plan: the next version, frozen after the previous one. Freezing a
\* version again returns the stored row.
FreezePlan(spec, boundary, frozen) ==
    /\ Len(plans) < MaxPlans
    /\ PlanValid(spec, boundary, frozen)
    /\ plans # <<>> => /\ spec.policy.key = Last(plans).spec.policy.key
                       /\ frozen > Last(plans).frozen
    /\ plans' = Append(plans, PlanRow(spec, boundary, frozen))
    /\ UNCHANGED <<clock, captured, observed, theses, decisions, intents, run>>

\* seal_baseline: once per version, at or after its freezing. The bootstrap
\* may have crashed between the two.
SealBaseline(v) ==
    /\ v \in DOMAIN plans
    /\ captured[v] = NotSealed
    /\ clock >= plans[v].frozen
    /\ captured' = [captured EXCEPT ![v] = clock]
    /\ UNCHANGED <<clock, plans, observed, theses, decisions, intents, run>>

-----------------------------------------------------------------------------
(* A run                                                                   *)

At(r, stage) == run[r].stage = stage

Plan(r) == plans[run[r].plan]

\* The run goes on when the stage succeeds and ends in an audit otherwise.
Failed(r) == [stage |-> "FAILED", trusted |-> run[r].trusted]

Proceed(r, ok, next) == run' = [run EXCEPT ![r] = IF ok THEN next ELSE Failed(r)]

StartRun(r) ==
    /\ At(r, "IDLE")
    /\ clock < MaxClock
    /\ clock' = clock + 1
    /\ run' = [run EXCEPT ![r] = [stage |-> "PLAN", trusted |-> clock + 1]]
    /\ UNCHANGED <<plans, captured, observed, theses, decisions, intents>>

\* The newest version, as it is stored, already in force.
PlanLoads(v, at) ==
    /\ v > 0
    /\ PlanValid(plans[v].spec, plans[v].boundary, plans[v].frozen)
    /\ plans[v].frozen <= at

BaselineLoads(v) == captured[v] # NotSealed /\ captured[v] >= plans[v].frozen

\* What must hold before a provider is asked. (What is written while the
\* clock stands at t is later than the run that started at t.)
PreProviderAuthority(v, at) ==
    /\ captured[v] < at
    /\ plans[v].boundary <= at
    /\ at < plans[v].last

LoadPlan(r) ==
    LET v == Len(plans)
        at == run[r].trusted
    IN  /\ At(r, "PLAN")
        /\ Proceed(r, PlanLoads(v, at) /\ BaselineLoads(v) /\ PreProviderAuthority(v, at),
                   [stage |-> "SNAPSHOT", trusted |-> at, plan |-> v])
        /\ UNCHANGED <<clock, plans, captured, observed, theses, decisions, intents>>

Claimed == {i \in DOMAIN intents : intents[i].state = "CLAIMED"}

\* Snapshot, signals and the halt authority, read without an await between
\* them.
Collect(r, e) ==
    LET spec == Plan(r).spec
        boundary == Plan(r).boundary
        at == run[r].trusted
    IN  /\ At(r, "SNAPSHOT")
        /\ Proceed(r, /\ SnapshotCollected(spec, e, boundary, at)
                      /\ SignalsCollected(spec, e, boundary, at)
                      /\ HaltConfirmed(e),
                   [stage |-> "CATALYST", trusted |-> at, plan |-> run[r].plan,
                    evidence |-> e, open_orders |-> Claimed # {}])
        /\ UNCHANGED <<clock, plans, captured, observed, theses, decisions, intents>>

\* The catalyst is awaited; its authority is refused beyond the allowed delay.
ProduceCatalyst(r) ==
    LET spec == Plan(r).spec
        boundary == Plan(r).boundary
        at == run[r].trusted
    IN  /\ At(r, "CATALYST")
        /\ Proceed(r, CatalystProduced(spec, run[r].evidence.news, boundary, at),
                   [stage |-> "HISTORY", trusted |-> at, plan |-> run[r].plan,
                    market |-> MarketOf(spec, run[r].evidence, run[r].open_orders, boundary, at)])
        /\ UNCHANGED <<clock, plans, captured, observed, theses, decisions, intents>>

Consumed == {i \in DOMAIN intents : intents[i].filled}

\* load_entry_history refuses a fill whose execution has not ended, and more
\* than one entry of the key and day.
HistoryValid ==
    /\ \A i \in Consumed : intents[i].state = "TERMINAL"
    /\ Len(intents) <= 1

\* The budget as the rows state it; open orders are the snapshot's.
BudgetNow(openOrders) ==
    [equity |-> Account.equity, power |-> Account.power, open_orders |-> openOrders,
     reserving |-> Claimed # {},
     reserved |-> MapThenSumSet(LAMBDA i : intents[i].loss, Claimed),
     entries |-> Cardinality(Consumed),
     approved |-> MapThenSumSet(LAMBDA i : intents[i].loss, Consumed)]

LoadHistory(r) ==
    /\ At(r, "HISTORY")
    /\ Proceed(r, HistoryValid,
               [stage |-> "PRIOR", trusted |-> run[r].trusted, plan |-> run[r].plan,
                market |-> run[r].market, account |-> BudgetNow(run[r].market.open_orders)])
    /\ UNCHANGED <<clock, plans, captured, observed, theses, decisions, intents>>

DecisionsAt(boundary) == {d \in decisions : d.boundary = boundary}

PolicyDecisionsAt(boundary) == {d \in DecisionsAt(boundary) : d.kind = "POLICY"}

\* load_prior_opportunity_decision: a row of the boundary that was written
\* after this run's trusted_at is refused.
LoadPrior(r) ==
    LET boundary == Plan(r).boundary
    IN  /\ At(r, "PRIOR")
        /\ Proceed(r, \A d \in DecisionsAt(boundary) : d.created < run[r].trusted,
                   [stage |-> "DECISION", trusted |-> run[r].trusted, plan |-> run[r].plan,
                    market |-> run[r].market, account |-> run[r].account,
                    prior |-> PolicyDecisionsAt(boundary) # {}])
        /\ UNCHANGED <<clock, plans, captured, observed, theses, decisions, intents>>

PolicyOf(r) == Plan(r).spec.policy

Direction(r) == DeriveDirection(PolicyOf(r), run[r].market)

Selection(r) ==
    SelectVertical(PolicyOf(r), run[r].market, Direction(r),
                   SelectionAuthority(PolicyOf(r), run[r].account))

HasDirection(r) == Direction(r) # NoDirection

\* assemble_opportunity_input checks the ages again, repeats the selection and
\* refuses an invalid snapshot.
InputAssembles(r) ==
    /\ FreshAt(run[r].market.age, PolicyOf(r).underlying_age)
    /\ FreshAt(run[r].market.catalyst_age, PolicyOf(r).catalyst_age)
    /\ HasDirection(r) => Selection(r).reason # "SNAPSHOT_INVALID"

CandidateOf(r) == IF HasDirection(r) THEN Selection(r).candidate ELSE NoCandidate

Verdict(r) ==
    EvaluateOpportunity(PolicyOf(r),
        [prior |-> run[r].prior, delayed |-> FALSE, market |-> run[r].market,
         account |-> run[r].account, candidate |-> CandidateOf(r)])

\* The mistake of letting a later run replace the observation of its plan.
ObservationAcceptedAgain(v, at) == TRUE

\* append_observation keeps the first observation of a plan: another run's,
\* whose trusted_at differs, is refused.
ObservationAccepted(v, at) == observed[v] \in {Unobserved, at}

\* The manifest is dated at or after the plan and its baseline.
ObservationChronology(v, at) == plans[v].frozen <= at /\ captured[v] < at

\* The decision, and the observation it rests on. The thesis of an approved
\* entry is built only then.
Decide(r) ==
    LET ok == /\ InputAssembles(r)
              /\ ObservationChronology(run[r].plan, run[r].trusted)
              /\ ObservationAccepted(run[r].plan, run[r].trusted)
        approved == Verdict(r) = "ENTRY_APPROVED"
    IN  /\ At(r, "DECISION")
        /\ observed' = IF ok THEN [observed EXCEPT ![run[r].plan] = run[r].trusted] ELSE observed
        /\ Proceed(r, ok,
                   [stage |-> IF approved THEN "THESIS" ELSE "RECORD",
                    trusted |-> run[r].trusted, plan |-> run[r].plan,
                    approved |-> approved,
                    thesis |-> approved /\ ThesisBuilds(Plan(r).spec, run[r].market.chain,
                                              CandidateOf(r), Plan(r).boundary, run[r].trusted),
                    loss |-> IF approved THEN LossOf(CandidateOf(r)) ELSE 0])
        /\ UNCHANGED <<clock, plans, captured, theses, decisions, intents>>

ThesisOrigin(r) == [plan |-> run[r].plan, evidence |-> run[r].trusted]

\* persist: once per origin, under the account's lock.
Persisted(origin) == IF origin \in Range(theses) THEN theses ELSE Append(theses, origin)

\* A thesis that cannot be built fails the run, and its plan has been observed.
PersistThesis(r) ==
    /\ At(r, "THESIS")
    /\ theses' = IF run[r].thesis THEN Persisted(ThesisOrigin(r)) ELSE theses
    /\ Proceed(r, run[r].thesis, [run[r] EXCEPT !.stage = "PROPOSAL"])
    /\ UNCHANGED <<clock, plans, captured, observed, decisions, intents>>

\* The proposal expires with the entry window.
Propose(r) ==
    /\ At(r, "PROPOSAL")
    /\ Proceed(r, run[r].trusted < Plan(r).last, [run[r] EXCEPT !.stage = "RECORD"])
    /\ UNCHANGED <<clock, plans, captured, observed, theses, decisions, intents>>

\* record_decision refuses a second policy decision of a boundary.
BoundaryFree(boundary) == PolicyDecisionsAt(boundary) = {}

NoActiveEntry == \A i \in DOMAIN intents : intents[i].state = "TERMINAL"

\* record_decision: the decision and, if it approves and autonomy is on, its
\* entry intent, or nothing at all.
RecordDecision(r, autonomy) ==
    LET boundary == Plan(r).boundary
        enters == run[r].approved /\ autonomy
    IN  /\ At(r, "RECORD")
        /\ IF BoundaryFree(boundary) /\ (enters => NoActiveEntry)
           THEN /\ decisions' = decisions \cup
                      {[kind |-> "POLICY", boundary |-> boundary, plan |-> run[r].plan,
                        evidence |-> run[r].trusted, created |-> clock]}
                /\ intents' = IF enters
                              THEN Append(intents, [boundary |-> boundary, loss |-> run[r].loss,
                                                    state |-> "APPROVED", filled |-> FALSE])
                              ELSE intents
           ELSE UNCHANGED <<decisions, intents>>
        /\ run' = [run EXCEPT ![r] = Idle]
        /\ UNCHANGED <<clock, plans, captured, observed, theses>>

\* Any stage before the record may fail: providers and the database.
Break(r) ==
    /\ run[r].stage \in {"PLAN", "SNAPSHOT", "CATALYST", "HISTORY", "PRIOR", "DECISION",
                         "THESIS", "PROPOSAL"}
    /\ run' = [run EXCEPT ![r] = Failed(r)]
    /\ UNCHANGED <<clock, plans, captured, observed, theses, decisions, intents>>

\* The failure of a run is recorded as an audit, whose boundary is the time
\* of the run.
RecordAudit(r) ==
    /\ At(r, "FAILED")
    /\ decisions' = decisions \cup
          {[kind |-> "AUDIT", boundary |-> run[r].trusted, plan |-> 0,
            evidence |-> run[r].trusted, created |-> clock]}
    /\ run' = [run EXCEPT ![r] = Idle]
    /\ UNCHANGED <<clock, plans, captured, observed, theses, intents>>

Crash(r) ==
    /\ ~At(r, "IDLE")
    /\ run' = [run EXCEPT ![r] = Idle]
    /\ UNCHANGED <<clock, plans, captured, observed, theses, decisions, intents>>

-----------------------------------------------------------------------------
(* The execution of an entry, as the pipeline sees it (AccountAuthority)   *)

MoveIntent(i, from, to) ==
    /\ intents[i].state = from
    /\ intents' = [intents EXCEPT ![i].state = to]
    /\ UNCHANGED <<clock, plans, captured, observed, theses, decisions, run>>

ClaimApproved(i) == MoveIntent(i, "APPROVED", "CLAIMED")

ExpireIntent(i) == MoveIntent(i, "APPROVED", "TERMINAL")

FinishIntent(i) == MoveIntent(i, "CLAIMED", "TERMINAL")

FillIntent(i) ==
    /\ intents[i].state = "CLAIMED" /\ ~intents[i].filled
    /\ intents' = [intents EXCEPT ![i].filled = TRUE]
    /\ UNCHANGED <<clock, plans, captured, observed, theses, decisions, run>>

-----------------------------------------------------------------------------

PipelineNext ==
    \/ \E p \in PlanSpecs, b \in Boundaries, f \in {0} \cup Boundaries : FreezePlan(p, b, f)
    \/ \E v \in 1 .. MaxPlans : SealBaseline(v)
    \/ \E r \in Runs : StartRun(r)
    \/ \E r \in Runs : LoadPlan(r)
    \/ \E r \in Runs, e \in LiveEvidence : Collect(r, e)
    \/ \E r \in Runs : ProduceCatalyst(r)
    \/ \E r \in Runs : LoadHistory(r)
    \/ \E r \in Runs : LoadPrior(r)
    \/ \E r \in Runs : Decide(r)
    \/ \E r \in Runs : PersistThesis(r)
    \/ \E r \in Runs : Propose(r)
    \/ \E r \in Runs, autonomy \in BOOLEAN : RecordDecision(r, autonomy)
    \/ \E r \in Runs : Break(r)
    \/ \E r \in Runs : RecordAudit(r)
    \/ \E r \in Runs : Crash(r)
    \/ \E i \in DOMAIN intents : ClaimApproved(i)
    \/ \E i \in DOMAIN intents : ExpireIntent(i)
    \/ \E i \in DOMAIN intents : FinishIntent(i)
    \/ \E i \in DOMAIN intents : FillIntent(i)

PipelineSpec == PipelineInit /\ [][PipelineNext]_pipelineVars

-----------------------------------------------------------------------------
(* The pipeline keeps the ledger's promise                                 *)

Ledger == INSTANCE DecisionLedger WITH
    Plans <- 1 .. MaxPlans,
    Evidence <- 1 .. MaxClock,
    decided <- [b \in Boundaries |-> {<<d.plan, d.evidence>> : d \in PolicyDecisionsAt(b)}],
    entered <- {intents[i].boundary : i \in DOMAIN intents}

\* Whatever the overlap, failures, crashes and new versions of the plan, the
\* stored rows behave as the ledger: a plan keeps its first observation, a
\* boundary is decided once and from the observation its plan still holds, and
\* an entry appears only with that decision.
KeepsLedger == Ledger!LedgerSpec

=============================================================================
