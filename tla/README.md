# AlphaDecay: TLA+ models of decisions, orders, positions and what is published of them

AlphaDecay is an agent that trades options on a paper account. A scheduler (and an
owner, through an authenticated console) starts runs; a run observes the market and its
frozen plans, applies a deterministic policy, and may end in an *intent* to open, roll or
close a position; the intent is claimed against the account, executed at the broker
(Alpaca) with at most a few replacements, reconciled with the whole account, and finalized
into a certificate from which positions, performance and public archives are derived.

The modules follow that path. In the middle is what must never go wrong: an order sent
twice, a fill that is not what the certificate says, two intents working on one account, a
budget overrun, an account that is blocked for good. Before it are the evidence and the
policy that lead to an intent, after it the book of positions and what is told of it in
public. Beside it are three pieces of concurrent machinery: the stream that knows of trading
halts, the classification of news under a lease, and the life of the runtime that owns every
connection.

All paths are relative to `src/`; `repo` below is
`backend/app/persistence/sqlalchemy_repository.py`, and other paths without a directory of
their own are below `backend/app/`.

## 1. Inventory

### Components, state, operations

| component | state | operations | what makes it correct |
|---|---|---|---|
| order states (`execution/order_status.py`) | none | classify broker states: terminal, mutable, lookup only, finalizable | used by the rows below |
| account authority (`repo`, `order_limits.py`) | account row (equity, latch, fence, reservation, lifetime counters), intent rows | register, approve, claim, release, recover reservations, latch, charge | one claim at a time; the budget is the sum of fills and inside its limits |
| broker execution (`services/execution.py`, `repo`, `alpaca/trading.py`) | attempts, permits, observations, certificate | look up, schedule, sweep, prepare, acquire, call, record, finalize | no order twice, the certificate is the truth, every order settles |
| whole-account reconciliation (`execution/reconciliation.py`, `alpaca/execution_evidence.py`, `alpaca/activities.py`) | chain of reconciliation states, the latch | read the account in seven requests, bind activities to the attempt, judge, write the successor state | what is accepted was true, what is recorded is explained, a latch has a cause |
| agent runs (`services/agent.py`, `persistence/agent_repository.py`) | ticks, decisions, jobs | recover, reserve a tick, decide, dispatch, materialize, complete | no fill is lost, a tick reports what was done |
| opportunity pipeline (`services/opportunity_*`, `persistence/opportunity_*`, `alpaca/opportunity*`) | plans and their baselines, observations, theses, decisions, entries | freeze, load, collect, compute, store, decide | a boundary is decided once and from one observation |
| policy and pricing (`policy/`, `services/opportunity_selection.py`, `services/acquisition.py`) | none | select, size, gate, assess, price | what is selected is acceptable, what is worse is not kept, no order loses more than was approved |
| positions (`lifecycle/`) | managed positions, their transitions and snapshots | materialize an entry, a roll, a close; review | the book is what was traded |
| publication (`competition_archive/`, `submission_story/`, `experiments/performance_reader.py`, `experiments/windows.py`) | archive records | publish, verify, tell, project | what is published stays true and readable |
| halt authority (`services/opportunity_halt_authority.py`, `alpaca/opportunity_halt_stream.py`) | a snapshot per symbol, epochs, timers, threads | reduce an event, read, reconnect, resubscribe, start, stop | open means traded just now on this connection |
| evidence classifier and provider settings (`evidence/`, `provider_settings/`) | claims with a lease, classifications, the budget of calls, the binding | acquire, call, complete, release; replace and clear the provider | an answer is stored for what was asked of whom |
| experiments and briefs (`experiments/`, `strategy_briefs/`) | experiments, protocols, authorizations and their events | curate, compile, arm, disarm, read, decide | one is armed, answers are committed facts |
| runtime (`runtime/`) | resources, guard, cleanup tasks | build, undo, admit, drain, close, retry | nothing closed is in use, everything opened is closed |
| sessions and API, performance capture, replay, contracts, frontend, `ops/`, migrations | | | not modelled, section 6 |

`PROJECT.json` lists every component with its sources and what is left out of it.

### Interactions

`services/agent.py` is the only caller of `ExecutionService.execute`, and `execute` is
the only caller of `advance`. Everything two processes share is in the database: a
transaction locks the account row (`with_for_update`) and is atomic; *between* two
transactions, between two statements that lock nothing, and between a transaction and the
call it authorizes, any other process may run, the broker may fill, the clock moves on, and
the process may stop. That is the grain of the models: one action per transaction (or per
statement, where a reader takes no lock), one per call of a broker, a provider or a model.

Inside one process, the halt authority is shared by the websocket thread that feeds it, the
timers that resubscribe, the owner that starts and stops it and the services that read it;
the runtime by the threads that run operations, the tasks of the event loop and whoever
closes it. All of them take one lock each; what is done outside it (a subscribe call, a join,
a close that is awaited) is where they interleave.

### What is hard

1. **Writes with uncertain answers.** The intent row, the permit row and the broker
   disagree for as long as a request is under way. The code never resends: it turns the
   permit `LOOKUP_ONLY` and looks the client order id up.
2. **Generations.** A permit that expired before it was dispatched is renewed. Renewal
   races dispatch by another worker that recovered the same claim.
3. **Replace, cancel and fill race** at the broker, and a superseded replacement must
   not confuse the lineage of attempts, nor what is recorded and told of them.
4. **A view put together from several requests**: the sweep, the certificate written from a
   sweep and observations that are older than it, a status read in two statements, an archive
   record read in several.
5. **Claims and releases** of one account by several intents with leases that expire,
   and a lifetime budget that is reserved, released, recovered and charged.
6. **Latching.** Any sweep that fails reconciliation latches the account in the middle
   of whatever runs.
7. **Runs that stop half-way or overlap.** A run is a dozen transactions; a deployment or
   a crash may cut it anywhere, and the next scheduler run finds what it left: an
   observation without a decision, a decision without an order, an order without a position,
   a fill nobody reported.
8. **Evidence that ages and connections that break.** "Not halted" is a claim about the
   present, made from trades and status messages that come late, twice, out of order or
   never, over a connection that is given up and made again by several threads.
9. **The same question asked twice by different code**: the selector and the gates, the
   entry's catalyst and the review, the service's price and the repository's, the materializer
   and the readers of what it wrote.

`PROJECT.json` `hazards` names the lines, and for each the properties that would catch it.

## 2. Modules

| module | models | used by |
|---|---|---|
| `OrderStatus` | the broker's order states as the code groups them | `BrokerExecution` |
| `AccountAuthority` | the account row and the intents that compete for it | `MCAccountAuthority`, `TradingProofs` |
| `BrokerExecution` | workers, permit and attempt rows, network, broker and time for one claimed intent | `ExecutionRecord` |
| `ExecutionRecord` | what the materializers and the public story make of the rows of one execution | `MCBrokerExecution`, `BrokerExecutionProofs` |
| `AccountSweep` | the requests of a sweep, its verdict, and the chain of reconciliation states | `MCAccountSweep`, `AccountSweepProofs` |
| `AgentRun` | runs, ticks, decisions, intents, materialization jobs and managed positions | `MCAgentRun`, `AgentRunProofs` |
| `PositionBook` | entries, reviews, rolls and closes as transitions of managed positions, in both roles | `Publication` |
| `Publication` | archive, story, performance projection and windows over the position book | `MCPublication`, `PublicationProofs` |
| `Policy` | the policy as operators: assessment, selection, sizing, evidence, gates | `PositionReview`, `MarketEvidence` |
| `PositionReview` | a review from quotes to the order, and the ladder of its replacements | `PolicyCases` |
| `MarketEvidence` | market snapshot, signals, catalyst and thesis from providers' answers | `Opportunity`, `PolicyCases` |
| `PolicyCases` | questions to the policy, one behaviour each | `MCOpportunity`, `TradingProofs` |
| `DecisionLedger` | what the opportunity pipeline promises (abstract) | `Opportunity` |
| `Opportunity` | plans, baselines, the stages of a run, observations, decisions, entries; implements `DecisionLedger` | `MCOpportunity`, `TradingProofs` |
| `HaltAuthority`, `HaltStream` | the reducer of stream events; the stream adapter with its threads and timers | `MCHaltStream`, `RuntimeProofs` |
| `ModelEvidence` | classification under a lease and a budget, with the provider settings | `MCModelEvidence`, `ModelEvidenceProofs` |
| `StrategyProtocol` | what compiles, and what a compiled protocol decides, as operators | `ExperimentRegistry` |
| `ExperimentRegistry` | experiments, arming and disarming, two-statement readers | `MCExperimentRegistry`, `ExperimentRegistryProofs` |
| `RuntimeLifecycle` | startup, use and cleanup of the runtime | `MCRuntimeLifecycle`, `RuntimeProofs` |
| `TradingProofs`, `AccountSweepProofs`, `AgentRunProofs`, `BrokerExecutionProofs`, `ExperimentRegistryProofs`, `ModelEvidenceProofs`, `PublicationProofs`, `RuntimeProofs` | inductive invariants and theorems (TLAPS); `TradingProofs` is about policy, pipeline and account, `RuntimeProofs` about the two pieces of machinery inside a process, `BrokerExecutionProofs` about `ExecutionRecord` too | |
| `MC*` | instances for TLC | the `.cfg` files |

### AccountAuthority

The state is the account row (`equity`, the latch, the fence with its generation and
lease, the reservation, the lifetime counters) and the state of each intent. Actions are
the repository's transactions; their guards are the checks of the transactions in their
order, and an error is an action that is not enabled, except where the code commits
before it raises (a failed reconciliation latches the account *and* raises). A claim's
lease and the authorization window are flags raised by time. What happens at the broker
is reduced to what the account sees of it: first write, fill, outcome.
`release_unsubmitted_claim` and `recover_entry_reservations` have no caller in the
application today (tests and operator tools only); they are part of the repository's
interface and can happen here at any time.

### BrokerExecution and ExecutionRecord

`BrokerExecution` starts where `AccountAuthority` has claimed an intent and ends with the
certificate. A worker's program counter follows `ExecutionService.advance`:

    idle -> (lookup -> record) -> schedule -> (quotes) -> sweep -> prepare -> acquire
         -> call -> outcome | lookup -> final -> finalize

Each arrow is one transaction or one broker call. `attempts` and `permits` are the two
tables; `last` is the newest observation, which finalization insists on. The operators
`Superseded`, `Current` and `Target` are `_execution_attempt_rows` and
`_canonical_attempt_for_mutation`; `Due` is `next_broker_mutation`.

The broker and the network are external and modelled from the way the adapter uses them:
a request arrives once, at any later time, or is lost; its answer may be lost; a
replacement is pending until the old order is closed, perhaps with a part of it filled, and a
fill may win that race; a cancel may stay pending; an order closes at the end of the day.

**Time** is a set of flags, one for each comparison with a clock the code makes: a
permit's expiry or network horizon (`late`), the lookup cadence (`fresh`), the deadline of
a transitional state (`stalled`), the boundaries since the first dispatch (`stage`), the
authorization. A flag may be raised at any moment allowed by the order of the code's
deadlines, so every real schedule is among the modelled ones.

**Faults** are a constant, a set of kinds, so that each run says what may go wrong in it:
a crash, a lost answer (`timeout`), a lost request, a refused one, failing lookups and
sweeps, late activities, an authorization that lapses at any time (`lapse`) or only after
the first dispatch (`expire`) and a transitional state that outlives its deadline (`stall`).

`ExecutionRecord` adds no state. It says of the rows whether a filled execution can be
recorded (`Recordable`, from both materializers) and what the submission story says of the
order while it works and afterwards (`OrderStory`). Prices are in `PositionReview`, the
contents of a sweep in `AccountSweep`; several intents of one account at the broker at once
are excluded by `OneFencedClaim`, which is proved.

### AccountSweep

A sweep is not one look at the broker: `AlpacaWholeAccountSweepPort.collect` reads account,
positions, orders, activities, Greeks, and then account, positions and orders again, and
each request is an action here while the broker goes on. `BlockCodes` is
`WholeAccountReconciliation.evaluate`, `Bound` is `_bound_attempt_activities`, `Expected`
the expectation rebuilt from the rows; `head` is the newest reconciliation state. The
purposes are the initialization from the baseline, the writes (a REPLACE expects what a
CANCEL expects), the final sweep, and the review of a position, whose collector makes the
same requests and has a verdict of its own (`ReviewAgrees`).

Positions are a number of spreads, cash is counted in units of the fee tolerance, and an
activity is named by its place in the order of the events: fills have a time and are asked
for up to the first account reading, everything else has a date only. An activity shows any
time after its event. The code lets an activity of before the window of the sweep be missing
though it is known (the journal that funded the account); here the baseline knows every activity
there was, and the later ones are all in the window. An order is observed between sweeps, by the
worker that makes them; that a sweep older than another worker's observation is refused is in
`BrokerExecution`. `disturbed` is a history variable: whether something happened that a
sweep may object to.

### AgentRun

`AgentRunService.run` in the deployed role, SUBMISSION. The variables are the rows the run
reads and writes (`tick`, `decided`, `intent`, `job`, `job_done`, `position`) and, for each
run in flight, its local state; `pc` follows the code:

    idle -> recover -> pending -> (preview -> claim -> advance -> recover_again -> pending_again)
         -> begin -> lifecycle -> latch -> acquire -> decide -> prepare -> preview -> claim
         -> advance -> materialize -> complete

`mode` tells the three places that enter an execution apart: the recovery of an entry
(before there is a tick), the recovery of a close (inside the tick, not yet decided), and
the dispatch of the run's own decision. They answer the same outcome differently
(`Blocked`, `Certified`). One process awaits only while it acquires, but a deployment
overlaps two processes and either may stop between two transactions, so every transaction
and every provider call is an action. `recover_pending` is one action per job: it lists the
jobs again in each step, which is what the loop meets when another run resolved one.
An owner's run takes the path of a scheduler's run with autonomy switched off, under a tick
key of its own, so the run has the scheduler as its only actor and lets autonomy be switched
at any time.

An execution is a claim followed by any outcome (`FirstWrite`, `Finalize`, `StillPending`,
`AdvanceBlocked`): how it comes about is `BrokerExecution`, and the conditions of the claim
are `AccountAuthority`'s. `alone` records what the final sweep saw: nothing but the entry's
own legs, or nothing at all for a close. Two entries may fill while the other is held, as in the
code; `PositionsMatchFills` says that only the one that filled alone becomes a position. `ReleaseUnsubmittedClaim` is the operator's tool.

### PositionBook and Publication

`PositionBook` takes the run as known and looks at what it does to positions: reviews,
entries, rolls and closes are approved by overlapping runs, fill in full, in part or not at
all, and the two materializers turn certificates into transitions and snapshots when the
lineage they ask for is there. The role is chosen at the start: SUBMISSION recovers
lifecycle executions first, never rolls and is what archive and story are about;
DEVELOPMENT rolls, recovers no lifecycle executions and has a second session. Sessions are
the odd values of `phase`. The inventory of a position is named by the intent that opened
it. What the fill of an intent pays is a constant, `Cash`; the instance gives each intent a
power of two, so that any sum tells which fills are in it. Executions whose own rows the
materializers refuse are left to `ExecutionRecord`.

`Publication` reads that book as the archive, the story and the projection do: a publisher
reads in several statements, re-reads what it published before, and appends; the operators
`RecordHolds`, the stories and `WindowLifecycle` are the readers' verdicts. The story also looks
at the order attempts, which are `BrokerExecution`'s and not in the book: `AttemptSigns` has what
they can show of an execution (nothing sent, working, to be looked up only, filled in part, ended
and not certified, not one line), the stories take one of them as a parameter, and
`StoryCanBeTold` is about each. Of the performance reader the projection is modelled and its
evidence of a transition; that it parses attempt ids as UUIDs, and so refuses every position
before the projection, is in section 5 and not in the model.

### Policy, PositionReview, MarketEvidence, PolicyCases

The policy keeps no state, so it is written as operators over integers (cents, basis points,
days) and asked questions: `PolicyCases` has one behaviour per input of the instance, and
the invariants compare two pieces of code that must agree, or one piece of code on two
related inputs. Rounding is kept where the code rounds (up, down, half-up, floor), and so
are the order of the checks and the early returns. Greeks, names and dates are members of
small sets. A component of the drift score is cut off at a hundredth of a point, so that the
displayed score may be one off where the code's fraction is at the rounding's boundary.

The catalyst of a plan assesses the claims whose event the plan allows, and a review all claims.
`JudgedAlike` compares them for every set of event codes and names the difference: a
contradiction of an event that the plan does not allow counts in the review only. A list of
claims is compared with every permutation of it (`Reordered`), as long as no story has two
sources of one tier.

Left out, each with a comment at its definition: gates that no input of the deployed composition
reaches (`AccountFailure`, `InputFailure`), checks of a roll candidate that the acquisition
cannot fail (`RollIsEligible`), the observation times of the Greeks, the boundary and the roll in
the five-second window (`EvidenceSynchronized`), and the expiry of a proposal (`ExitOrder`).

### DecisionLedger and Opportunity

`DecisionLedger` has three facts for state: what a plan was observed with, what a boundary
was decided on, and which boundaries made an entry. `Opportunity` has plans and their
versions, baselines, audits, observations, theses, decisions, entries, and runs that load,
collect (`MarketEvidence`), compute, store and decide in separate transactions and may stop
or fail at each. `KeepsLedger` is `LedgerSpec` under the mapping given with the INSTANCE.
There is one opportunity key and one trading day; the clock counts the starts of runs, which
are five-minute bars; what becomes of an approved entry is `AgentRun`'s.

### HaltAuthority and HaltStream

`HaltAuthority` is the reducer: `Reduce(s, e)` is `reduce_halt_authority` with one
operator for each function it calls, `Read` is `read_halt_authority`, and `Refuses` says
when either raises instead (`_validate_previous`, `_validate_read_time`). A time is a
natural number, `None` is -1.

`HaltStream` is the adapter. Its private methods are functions of a record of its fields
(`CancelRecovery`, `ArmRecovery`, `SetSnapshot`, `Emit`, `Failure`, `ConnectionStarting`),
and every section under `self._lock` is one action that applies them. The subscribe call of
a recovery is made after the lock is released, so it is an action of its own, and so is
the firing of a timer: a timer that has fired cannot be cancelled and its callback still
runs, counted in `loose`. One owner calls `start` and `stop`; a join that times out leaves
the stream thread running. The websocket is external: it connects and acknowledges, delivers
trades and statuses in any order and more than once, fails, closes, or its thread ends.
`heard` is a history variable: the last status that was delivered and when; `born` another:
whether the current epoch began inside the session, which is when a recovery can be armed for it.

Left out: the events QUOTE, BAR and TRADABLE (the adapter never emits them), digests, an
epoch factory that repeats itself, and malformed payloads other than as the failure they
cause.

### ModelEvidence

Workers classify evidence as `EvidenceClassifier.classify` does: hash the evidence with the
current provider binding, look for a stored classification, claim (insert, or take over a
lease that ran out), re-read, reserve a call from the durable budget, call the model, check
the answer, retry with a repair or after a delay, complete or release under the lease's
generation. The owner replaces or clears the provider at any time. The model is external: an
answer of the instance's set, which has answers to other evidence too, a failure, or nothing
before the deadline. A cluster has an identity and sources, and a response names clusters and
sources, so that the ledger, which stores a response under a hash, could store one that is not of
the evidence of its hash: `AnswersItsBinding` says that it does not.

### StrategyProtocol and ExperimentRegistry

`StrategyProtocol` has no state: whether a curation compiles and what a protocol decides.
`ExperimentRegistry` has the tables and the requests of two clients under READ COMMITTED:
a request that waits for a lock, one that is refused by a unique key and answered from what
the winner left, one that the trigger of migration 0032 refuses because it sees a row that the
request did not (`TriggerRefuses`: EXPERIMENT_REGISTRY_WRITE_FAILED, without a second look), and
repeated keys. The bridge of the runtime asks for a verdict in phase FLAT; the function it calls
answers for every phase, and so does `Verdict`. Two readers, the runtime and a page, read the
authorization in two statements.

### RuntimeLifecycle

`build_production_agent` opens resources one by one, enters the MCP session unless it is a
SUBMISSION runtime without an opportunity, and undoes them when a later step fails;
while the runtime serves, threads run operations under the guard and one MCP call may be
under way on the event loop; `close` from a thread and `aclose` from tasks share one cleanup
task per generation, whose steps are remembered as they complete. Closes fail, callers and
tasks are cancelled.

## 3. What the runs show

| run | bounds | shows |
|---|---|---|
| `account_authority` | three intents of risk 1, 2 and 2, each approved as an entry or a close | at most one intent is claimed and the fence is its own; budget plus reservation inside the limits; counters equal the sum of recorded fills; a latched account starts nothing |
| `account_sweep` | two orders of 2 contracts (an entry and its close), one fee of 1 or 2 with a tolerance of 1, one foreign event; 4.5 million states | an accepted sweep was true, all of it, at the moment of its second account reading, whatever happened between the requests; the reconciliation state knows the fills of the finalized orders and no other, and they add up to its positions; the account is latched only for one of the causes the property lists |
| `execution_settles` | 1 worker, 2 contracts, lost answers, a crash, permits and authorizations that run out, `DaySpec` | of an intent that scheduled runs execute again: once every order is closed and nothing is on its way, the intent is finalized or the account latched, but for four cases that are named (section 5) |
| `execution_faults` | 1 worker, 2 contracts, 2 crashes, every fault; 2.1 million states | the certificate is the truth for good; the permit lineage stays readable; a certified fill that was learnt from the permit of its order can be recorded; each answer of the story is true of the broker, but for one that is named, and when there is none |
| `execution_race` | 2 workers (symmetric), lost answers; 1.0 million states | no attempt is created twice and one write is open at a time; rows are never ahead of the broker |
| `halt_evidence` | 2 trades, 2 epochs, 3 events an epoch, from before the session to its end, readers a tick ahead; 2.6 million states | an open symbol rests on a fresh trade of the current connection; a delivered halt is not forgotten; an epoch that began inside the session and is not acknowledged has its recovery under way |
| `agent_runs` | 2 overlapping runs, 2 intents, 2 plans, 2 boundaries, 1 stop | no fill is lost; a position is of an entry that filled alone, closed by a fill that left nothing; a reported fill is materialized |
| `position_book` | 2 runs, 3 intents, both roles, two sessions, 1 review, 1 record; 1.0 million states | a fill is recorded or the reason it cannot be is named; the book is what was traded and a position rolls once a session; archive, windows and projection accept what the materializers write; an archive record breaks by a late review only; when the story can be told |
| `opportunity` | 2 runs, 2 boundaries, 2 plan versions, 3 run starts; chains, budgets, reviews, claim lists and quote books of the instance | the pipeline implements `DecisionLedger`; the selector's spread passes the gates and the budget; a worse review never keeps a position a milder one closes; evidence counts by what it says, in every order, and the catalyst and the review differ only by the plan's event codes; no order or replacement loses more than was approved |
| `model_evidence` | 2 workers (symmetric), lease 2, budget 2, 2 versions of the settings | a stored classification is of the provider and classifies the clusters and sources of the evidence its hash names, stays readable, and a completed claim always has one |
| `experiment_registry` | 2 experiments, 2 clients, 2 revisions | one experiment is armed at most and its events explain its state; a client is told committed facts only; a reading is called invalid only if a change overtook it; verdicts follow a committed authorization |
| `runtime_lifecycle` | 1 thread, 2 closing tasks, 2 failing closes, 1 cancellation | nothing in use is closed; each resource is closed once; a startup that fails leaves nothing open; a cleanup that is retried ends |

### Bounds

- `LastOrdinal` is 1 where the code allows 3 replacements: a first order, a replacement
  of it and the cancel of either are the cases the code tells apart (ordinal 0, later
  ordinals, the last one). `MaxPermits` 3 or 4 allows a submit, a replace, a cancel and a
  renewed generation of one of them.
- `Qty` 2 is the least quantity with a partial fill; the race run uses 1, because its
  properties do not depend on partial fills.
- `MaxCrashes` 2: a crash, a recovery and a crash of the recovery; the liveness run has 1.
- `Prompt` is FALSE everywhere: permits, quotes and the authorization may run out between
  any two steps.
- Two workers, runs or clients: the code's fences compare a caller with *the other*, never
  count them.
- Account bounds: `EquityLevels`, the limits and the risks of the intents are chosen so
  that an entry is refused for each of the reasons the code has. `Actions` leaves out
  `ROLL`, because the account rows treat a roll as they treat a close. Generations are not
  bounded by a constant: a claim is made once per intent (a release is final for it).
- Sweep bounds: two orders let the second be planned on the state the first left, with the
  first's activities and fees still to show. A fee of 1 is inside the tolerance and one of 2
  beyond it. A price of 5 cannot be mistaken for a fee. Fills show in the order of their
  executions, and so do the other activities among themselves.
- Halt bounds: a session of three ticks with an age limit of two and a backoff of one lets
  a trade be fresh, old, too old and late within a session, and lets the session end. Two
  epochs are a connection and its successor. `MaxSequence` leaves each epoch room for an
  acknowledgment, a halt or a resume and a trade, and a halt of the first epoch meets the
  trades of the second. `MaxLag` is how late a status arrives; `ReadLead`, how far the caller's
  `read_at` may be ahead of the adapter's clock, is a tick; the proofs cover every value up to
  the read skew the code tolerates. The stream starts before the session opens, so that epochs
  begin before it and inside it.
- Agent bounds: two intents are an entry and its close, or two entries in each other's way;
  two boundaries are a tick and the recovery after it; one stop is a crash at every point of
  every run. The proofs have no bounds.
- Position bounds: three intents are an entry, a close that fails and its retry, or an
  entry, a roll and a close. Two sessions let a roll of one session be recorded in the next.
- Evidence bounds: a lease of 2 and a deadline that is shorter, as 35 seconds outlive 30; a
  budget of two calls runs out.
- Policy bounds: values on both sides of, and at, every threshold the code compares with.

Deadlock is checked in `account_authority`, `model_evidence` and `experiment_registry`. In
the others a finalized intent, the last order, a stopped adapter or runtime, the last boundary
and an answered question are ends.

### Fairness

`FairSpec` of `BrokerExecution`: a worker's next step eventually happens. That is what the
scheduler does for entries, whose jobs every run executes again, and for closes in the role
SUBMISSION (services/agent.py:266-317), and a step has a timeout; a close or a roll in the role
DEVELOPMENT is executed by the run that decided it and never again, so `ClosedOrdersSettle` does
not speak of those. Further, boundaries pass, permits and cadences
run out (clock), a request arrives or is lost (network timeouts), the broker settles a
pending replacement. `DaySpec` adds that the broker closes each order in the end: every order
is sent as `TimeInForce.DAY`. No fairness is assumed of fills, faults or crashes.

`RuntimeLifecycle`: operations and calls that were admitted end, closes that were begun end,
and the event loop runs its tasks. Nobody is obliged to close or to retry:
`CleanupFinishes` assumes that a failed cleanup is followed by another.

## 4. What is proved

**Account.** `TradingProofs`, for every finite or infinite set of intents, any limits, any
equity history and any number of generations that the assumptions of
`AccountAuthority` admit:

- `TypeCorrect`: `Spec => []TypeOK`
- `ClaimsAreFenced`: `Spec => []OneFencedClaim`
- `ReservationsMatch`: `Spec => []ReservationMatchesClaim`
- `BudgetHolds`: `Spec => []BudgetWithinLimits`
- `LatchHolds`: `Spec => LatchedAccountOnlyWindsDown`
- `BudgetIsTheFills`: `Spec => []BudgetIsSumOfFills`

`BudgetWithinLimits` is not inductive: `recover_entry_reservations` writes a reservation
without looking at the limits. It is safe because the reservation it writes is the one
the claim made (`ReservationMatchesClaim`), which needs that there is only one claim
(`OneFencedClaim`), which needs that no claim carries a generation newer than the
account's (`GenerationsBounded`). The inductive invariant `IInv` is the conjunction, and
the two actions that touch all of it, claim and finalize, have lemmas of their own.

`BudgetIsSumOfFills` compares two counters with a sum over the intents that filled. It needs
that a filled intent is over, so that none is charged twice (`FInv`), and that a sum over a
finite set grows by what one more element adds, whichever element the fold takes first. The
library's induction theorems take a predicate as a parameter, which no backend instantiates;
the induction here has the predicate as a *set of subsets* (`SubsetInduction`) and rests on the
least element of a set of numbers (`WFMin`). The same lemmas serve the books of `AccountSweep`,
the quantity held in `BrokerExecution` and the cash of a position in `Publication`.

**Opportunities.** `TradingProofs`, for any number of runs, plans, versions and boundaries:

- `PipelineInvariant`: `PipelineSpec => []PipelineInv`
- `PipelineKeepsLedger`: `PipelineSpec => KeepsLedger`, that the pipeline implements
  `DecisionLedger` under the mapping of the INSTANCE

The ledger has three facts for state, and a run writes them in separate transactions that other
runs get between. `PipelineInv` says what a run owes the rows (`RunOK`: from its decision until it
ends, the observation stored for its plan is its own, which a crash, an overlapping run or a newer
version could break), and that a policy decision is of the boundary its plan was frozen for
(`DecisionsOK`). From it each step is one of the ledger's or changes none of its rows, and the
steps that stop, fail or are refused are the ones that change none.

**Policy.** `TradingProofs`, for every policy the code accepts, any chain, budget, review, book of
quotes and approved loss:

- `SelectionIsAcceptable`: `question \in Questions => SelectedIsAcceptable`
- `WorseStillCloses`: `question \in Questions => CloseIsMonotone`
- `OrdersAreBounded`: `question \in Questions => OrdersKeepTheirLoss`
- `EvidenceIsJudged`: `question \in Questions => EvidenceIsJudgedAlike`

The policy keeps no state, so a theorem about it is about every question that can be asked. What
the selector returns was a candidate that passed each filter and each limit, and the gates ask
the same of it again. The score of a review grows with every input that gets worse: the proof
follows the order through the quotients, the clamps and the half-even rounding of each component,
then through the weights, and a gate that holds for the milder review holds for the worse.
For orders, each rounding (a debit up or down to its tick, a floored midpoint, the rungs of a
ladder) is bounded by lemmas on `\div` and `%`, and no climb passes the price at which the loss
would exceed what was authorized.

For evidence, three arguments. Unless tiers tie, every cluster has one claim that outweighs its
others (`Strongest`), and the cluster is judged by it wherever it stands (`JudgedByStrongest`); a
permutation of the list (`ReorderedSame`), or one with a weaker copy put at either end, has the same
strongest claims and so the same sums (`JudgedSame`, `WeighedSame`). A valid classification has one
claim a cluster, so the score and the gates, which go by cluster and by place, look at the same
claims (`InvalidAlike`); the catalyst looks at those that the plan's event codes leave, whose
invalidations are among all of them, and are all of them if no other claim contradicts
(`LeftInvalidate`); and a clear catalyst means that whatever counts supports, so that the
signed sum is the whole one and not negative (`SupportIsWhole`). For the signals, a list of bars or
closes is selected from element by element (`Among`), and to select from a selection that left out
only what is not wanted is to select from the whole (`AmongSelected`). Both the sums and the
selections are recursive functions; the inductions over them (`SubsetInduction`, `UpTo`) have the
predicate as a set, like the one over the budget.

**Halts.** `RuntimeProofs`, for every session, age limit, tolerance, skew and backoff, any set of
trades with any times, and any number of epochs, events, timers and calls:

- `TypeCorrect`: `StreamSpec => []StreamTypeOK`
- `OpenAlwaysCurrent`: `StreamSpec => []OpenIsCurrent`
- `HaltNeverForgotten`: `StreamSpec => []HaltRemembered`
- `StoppedNeverOpens`: `StreamSpec => []StoppedIsNotOpen`

The inductive invariant says of the snapshot that nothing in it is later than the clock and
that it is one the reducer accepts *unless it is latched* (`Sound`), that an acknowledged
epoch is the adapter's own (`Current`), and that an epoch which may open the symbol was
acknowledged after the last halt that was heard (`Remembers`). The exception for a latched
snapshot is the late trade of section 5 seen from the other side: without it the invariant
does not hold.
It does no harm to safety because a refused snapshot is never replaced, so it stays latched.
That a failure always closes an open snapshot rests on `NotRefused` (an open snapshot is
valid and not ahead of the clock by more than the skew, so the failure event is never
refused) and on `Current` (an open snapshot always has continuity, so the failure event is
always emitted). The proofs about the reducer (`ReduceSound`, `ReduceHalt`, ...) are lemmas
on snapshots; the adapter's methods have one lemma each; `StepGood` has one step per action.

`RecoveryStaysPending` is `StreamSpec => []RecoveryPending`, for every start and every reader.
The property speaks of epochs that began inside the session, since `_arm_recovery` arms nothing
for the others, and of the time until the session closes for the fastest reader, since a reader
whose clock is ahead of the adapter's cancels the recovery when the session is over for it.

**Runs.** `AgentRunProofs`, for any finite set of intents and any number of runs, plans, boundaries
and stops:

- `TypeCorrect`: `Spec => []TypeOK`
- `EntryAlwaysHasJob`: `Spec => []EntryHasJob`
- `FillNeverLost`: `Spec => []FillIsNeverLost`
- `PositionsAreFills`: `Spec => []PositionsMatchFills`
- `ReportsAreMaterialized`: `Spec => []ReportedFillIsMaterialized`
- `PlanEnteredOnce`: `Spec => []OneEntryPerPlan`
- `TicksAreFinal`: `Spec => TickIsFinal`

The properties are about rows, and what makes them hold is in the runs: that a run about
to claim an entry has prepared its job, that a run about to report FILLED has settled it,
that no two runs own one tick. `RunCoherent` says this of one run's local state, `RunsInv`
of all of them, and `RowsCoherent` adds what the rows owe each other (a certificate is
written last, an entry's plan is decided, a position comes from a fill). The proof is split
the same way: a step only lets the rows grow (`RowsGrow`), so a run that does not move stays
coherent (`CoherentStays`); the run that moves goes to a coherent state (`Moved`), and writes
no tick but its own (`TicksKept`). Every action has a lemma that shows its part of this, and
`RunsKept`, `ReportedKept` do the rest once for all of them.

**Orders.** `BrokerExecutionProofs`, for any number of workers, permits and crashes, any quantity, up to
three replacements (the code's limit), and every combination of faults:

- `ExecutionInvariant`: `Spec => []IInv`, `ExecutionTypes`: `Spec => []TypeOK`
- `WritesAreSerialHolds`: `Spec => []WritesAreSerial`
- `RowsFollowBrokerHolds`: `Spec => []RowsFollowBroker`
- `LineageIntactHolds`: `Spec => []LineageIntact`
- `CertificateTruthHolds`: `Spec => []CertificateTruth`
- `RecordInvariant`: `Spec => []RInv`
- `CertifiedFillRecordableHolds`: `Spec => []CertifiedFillRecordable`
- `StoryIsTrueHolds`: `Spec => []StoryIsTrue`

No part of `IInv` stands alone. That a write is never repeated rests on `PermitsSound`: only the
newest permit of all can be open, and a generation that is issued again has expired undispatched.
That no replacement follows a cancel is `CancelsSound`, which needs to know *why* an order was
cancelled (it was partly filled, or the day's boundary is near), because the schedule decides
from the same facts. The certificate rests on a sweep that is older than it: `WorkersSound` says
that a final sweep which found nothing open stays true until the next observation, since nothing
can create an order once the newest attempt that counts has ended (`CreatingNotEnded`). The
steps fall into those that issue a permit (`IssueInv`), those that move rows and leave the orders
alone (`Keeps`), and those of the broker (`OrdersMove`); each class has one frame lemma.
The record and the story need `RInv` on top: the newest observation has consumed its permit
unless the order goes on, and a certificate is of that observation and of the only attempt that
filled. After the certificate no step touches the rows it was made from (`Fixed`), so what is
recordable, and what the story says, is decided when it is issued.

**Reconciliation.** `AccountSweepProofs`, for any quantity, price and tolerance, and any number of
orders, fees and events from outside:

- `RowsAreSound`: `Spec => []IInv`
- `AcceptedSweepsAreTrue`: `Spec => []AcceptedIsTrueAtOnce`
- `BooksAreExplained`: `Spec => []BooksExplained`
- `LatchesHaveCauses`: `Spec => []LatchHasCause`

A sweep is seven readings, and what it accepts must have been true at one moment. The argument is
`ReadingsInOrder`: while an order works, contracts only come or only go and an order only fills
and closes, so equal readings at both ends of the sweep fix everything between them. For the
books, the verdict must not take a part of a fill for the whole: `FillsSound` says that a single
execution is two activities of the whole quantity, and that each of several executions is less
than what the row was observed with. `LatchHasCause` is the opposite direction, that a sweep
which nothing disturbed is accepted or waits for its evidence; it needs `CInv`, which says where
cash and positions of the newest state row stand (`CashSound`), that the broker is where the rows
expect it (`Calm`) and that the sweep under way has read what still is (`CalmSweep`).

**Positions and publication.** `PublicationProofs`, for any number of runs, intents, moments,
sessions, reviews and records, in both roles, whatever the fills pay:

- `BookInvariant`: `Spec => []BInv`
- `EveryFillIsRecordable`: `Spec => []FillsAreRecordable`
- `BookIsWhatWasTraded`: `Spec => []BookMatchesBroker`
- `ReadersAgree`: `Spec => []ReadersAccept`
- `OnlyLateReviewsBreak`: `Spec => []ArchiveBreaksOnlyByLateReview`
- `StoryIsTold`: `Spec => []StoryCanBeTold`

None of the five properties is inductive. `BInv` says that the account has at most one position,
because the entry has to be the first fill of the account, and that its transitions are the fills
of consecutive reconciliation states, each closing what the one before it left. A next transition
is therefore the only fill of its snapshot, as no two fills close the same legs (`HeldOK`). That
a record stays what it was when it was published rests on time: every review of the position,
stored or under way, is before a fill that waits to be recorded and before the close
(`MomentsOK`), so the transitions up to a record's moment are never added to. That a position
rolls once a session needs that no roll of the session is among the transitions up to a snapshot
a run has reviewed and would roll (`RollsOK`). Most steps touch neither book nor account; what
such a step may do is stated once (`Quiet`, `IntentsQuiet`, `RunsQuiet`, `DecisionsQuiet`), and
the finalization and the two materializers have one lemma for each part they can disturb.

**Runtime.** `RuntimeProofs`, for any threads, callers of `aclose`, failed closes and cancellations:
`RuntimeInvariant`, `RuntimeTypes`, `NoUseAfterCloseHolds`, `ClosedOnceHolds` and
`NothingLeaksHolds`. A resource is closed exactly when its step is complete (`StepsInv`); the
guard is CLEANING exactly while somebody drains or cleans, and never two at once (`GuardInv`);
and without failures and cancellations there is only the first cleanup task (`FirstTaskInv`),
which is what makes `NothingLeaks` more than a statement about the retries.

**Evidence.** `ModelEvidenceProofs`, for any workers, pieces of evidence and model outputs, every lease,
deadline, retry schedule and budget: `EvidenceInvariant`, `EvidenceTypes`,
`AnswersItsBindingHolds`, `StoredStaysReadableHolds`, and the action property
`StoredIsFinalHolds` (a stored classification is never replaced). The lease does *not* exclude
late workers, so the argument is about what a worker carries: the claim it once held exists, and
the answer it waits for is of the provider its hash names and, once it is checked, of the evidence
(`WorkOK`), because an active provider
answers with the credential of its own generation (`CredentialCurrent`).

**Experiments.** `ExperimentRegistryProofs`, for any number of experiments, owners, readers and
revisions and every set of curations and rules: `RegistryInvariant`, `RegistryTypes`, `OneArmedAndExplainedHolds`,
`AnswersAreCommittedHolds`, `InvalidOnlyByRaceHolds`, `VerdictsFollowAuthorityHolds`. A request
holds the lock of the row it was checked against, or there was none and the unique keys decide
(`RequestOK`); a reader between its two statements agrees with the row unless a change overtook
it (`ReadingOK`).

**Assumptions.** Every constant has a named `ASSUME` in the module that declares it, which TLC
evaluates in the runs. `NoneAssumption` (`ModelEvidence`, `ExperimentRegistry`, `PositionBook`)
and the last conjunct of `SweepAssumption` say that `None`, the absence of a row, is not a row;
`ActorsAssumption` (`RuntimeLifecycle`) that `Nobody` is no thread, no caller and neither of the
two marks `"task"` and `"call"`. `PolicyAssumption` is what `OpportunityPolicy.__post_init__`
accepts; `ReviewAssumption` has the entry volatility, the limit on theta and the approved loss
positive, because `score_drift` refuses others. `MarketAssumption`, `BudgetAssumption`,
`PositionAssumption`, `SightingAssumption` and the `BookAssumption` of `PositionReview` say that
what was parsed are numbers, of any sign but for a reservation, which is never negative; that of
`PositionBook` that a fill pays an integer. `EvidenceAssumption` has the counts of bars, closes and
contracts natural, and the limit on closes above their number, as `OpportunitySignalRequest`
demands. `ClaimAssumption` is the type `EvidenceClaim`, its numbers unchecked. `DeliveryAssumption`
is what parsing leaves of bars, closes and calendar, and that the provider keeps the `limit` of a
request: `_collect_daily` and `_collect_intraday` count what arrived before they drop what is
later than the boundary, so a provider that ignores the limit can fail a collection by bars that
would not have mattered.

`ReservationMatchesClaim`, `StoppedIsNotOpen`, `EntryHasJob`, `OneEntryPerPlan`, `TickIsFinal` and
`StoredIsFinal` are proved and not in the configurations: they are steps of the arguments above,
and the runs spend their time on what rests on them.

**Only model-checked:** the two liveness properties, `ClosedOrdersSettle` and `CleanupFinishes`,
since liveness under fairness is out of the prover's reach.

## 5. Disagreements between the code and what it says of itself

Each was met while modelling. A property that holds but for a named case is checked in that
form; where the plain promise does not hold, it is told here and not checked.

### Orders

- *The four cases of `ClosedOrdersSettle`.* A replacement that was dispatched and never
  created is looked up as absent for ever (`ReplacementMissing`). A process that stops
  between `acquire_broker_dispatch` and the record of the answer leaves its permit
  `DISPATCHING`, which neither `next_broker_mutation` nor `targeted_lookup_authority` picks up
  (`NeverLookedUp`; docs/public/ARCHITECTURE.md:41 promises a lookup). A prepared cancel blocks
  `next_broker_mutation`, so the renewal that `prepare_broker_mutation` would grant is never
  asked for, and nothing is renewed after the authorization (`NeverRenewed`). An
  authorization that lapses between prepare and acquire lets an order exist that
  `finalize_execution_authorized` refuses (`SentUnauthorized`).
- *Fills that are certified and never recorded.* The materializers take
  the permit of the newest observation (`repo`:2319) and want it to be the one the last
  attempt was inserted with (lifecycle/materialization.py:834,
  lifecycle/terminal_materialization.py:560). When the fill is learnt from a hard cancel that
  lost, from a permit that was issued again, or beside a superseded replacement, it is another,
  and the position is at the broker and not in the book; `CertifiedFillRecordable` speaks of all
other fills. ARCHITECTURE.md:45 says "each managed
  position is observed through its own lifecycle".
- While a replacement is prepared the story tells that no activity of the order is recorded,
  though its first order works at the broker (submission_story/repository.py:805);
  `StoryIsTrue` names the case.
- `_apply_budget_finalization` checks the entry limits again against the *current* equity when
  a fill is recorded. If equity was lowered to the floor since, a filled entry cannot be
  finalized.
- *Sign of credit limits.* The limit of a credit spread is a positive number
  (opportunity_selection.py), the sign of a debit (domain/exposure.py:76), goes into the
  envelope unchanged (entry_authority.py:97) and is sent as it is (alpaca/trading.py:297), so
  it does not bound a credit entry's loss. `OrdersKeepTheirLoss` speaks of debit entries,
  closes and rolls. A mandatory close is refused when its natural price or its floored midpoint
  is exactly 0 (LIFECYCLE_ORDER_PRICE_INVALID), a replacement when its rung is
  (REPLACEMENT_LIMIT_ZERO).

### Reconciliation

- A fill in several executions, or whose legs show one after the other, is taken for a
  mismatch and latches the account, though it is complete (`repo`:3660-3690). So do leg quotes
  more than a second apart or older than 15 seconds at finalization (execution/exposure.py:36).
- Fees add up: the expected cash never absorbs a fee, so the account is latched once all fees
  ever charged exceed $1.00 (execution/reconciliation.py:601). A review refuses any posted fee
  in its window that reconciliation explains (activities.py, `collect_lifecycle`;
  lifecycle/observation.py:190).
- The successor state takes the activities of the sweep (`repo`:2428), although the comment in
  `_bound_attempt_activities` says that earlier ones "stay known in every successor state".
- No sweep is safe within 24 hours of the capture of the baseline.

### Runs and positions

- Entries are approved while a position is open (docs/public/LIMITATIONS.md:21), but a filled
  entry is materialized only when the account holds nothing else, and reviews of a second one
  end in ENTRY_ACTIVITY_LINEAGE_INCOMPLETE; every later scheduler run ends in its recovery.
- An approved entry whose authorization lapsed before the claim keeps its job pending for ever:
  each scheduler run executes it again, is refused, and ends before its tick. A close in that
  state keeps the position from being assessed again.
- After a close ended unfilled, a later filled close cannot be materialized
  (terminal_materialization.py:502); a fill that is finalized outside the session neither
  (`FillsAreRecordable` names both).
- The performance reader parses certificate attempts as UUIDs, and certificates hold client
  order ids (experiments/performance_reader.py:438): every experiment with a position is
  refused. The projection takes decisions and positions from two moments, and one bad plan
  fails the whole list of windows.
- A review stored late by an overlapping run breaks an archive record that was published
  before it, and the story with it. The story of a calibration decision can never be told
  (submission_story/repository.py:982), one after a retried close is ambiguous, and the story
  stays on the newest position.

### Opportunities

- A decision that binds a prior one can never be recorded, so a new plan version at a decided
  boundary makes each run fail after its observation is stored. A crash, or a thesis that
  fails, after the observation is stored spends the plan: an approved entry whose chain has
  no call and put pair, or whose mean volatility has more than eight decimals, ends so.
- Catalyst invalidations with an event code outside `allowed_event_codes` are ignored. One
  quote that is too wide makes an event plan's whole snapshot invalid. Which of
  two sources of one tier stands for a story depends on the order of delivery. A plan whose
  first reaction session is its signal
  session is accepted and never decides.
- A third entry of one key and day is refused as ambiguous, though a comment in
  policy/opportunity.py says that re-entry is allowed. The gates UNDERLYING_DATA_STALE,
  MARKET_CLOSED and OPEN_ORDER_EXISTS cannot be reached.

### Halts, evidence, experiments, runtime

- A trade that printed before a halt and arrives after it, within the tolerance for reordered
  trades, leaves a snapshot whose `last_event_at` is before its `halt_latched_at`. The reducer
  refuses it from then on; the symbol stays latched and every read raises until a restart.
- An epoch that begins before the session opens arms no recovery, and nothing arms one when the
  session opens (opportunity_halt_stream.py:614): if its acknowledgment is lost the symbol stays
  unknown until the connection is. `RecoveryPending` speaks of the other epochs.
- `acquire` under READ COMMITTED can meet a claim that was completed between its statements and
  report MODEL_CLASSIFICATION_INTEGRITY_ERROR once. `read_authorization` reads two statements
  and can report EXPERIMENT_REGISTRY_STATE_INVALID once (`InvalidOnlyByRace`).
- A curation is sent back by the client; compilation checks everything of it again but the
  horizon. The runtime bridge of experiments is not wired in production.
- `ProductionAgent.aclose` marks itself closed before it closes, and a cleanup stops at its
  first failing step; a failed cleanup task answers the next `aclose` once more.

## 6. Not modelled, and the plan

Not modelled: the frontend, deployment and release scripts (`ops/` alone is a third of the
lines) and migrations, but for the trigger named in section 2, which share no state with a running
agent; serialization contracts,
digests and encryption (identity is modelled, not hashing); the parsing of market data and MCP
payloads; the replay demonstration, which runs fixed fixtures; sessions and HTTP routes, which
hand requests on; the capture of account values, which no decision reads; the in-memory
repository, a test double.

What would come next:

| what | on which module | how |
|---|---|---|
| an abstract ledger of writes | `BrokerExecution` | what `ExecutionInvariant` shows of permits, as a specification of its own that the execution refines |
