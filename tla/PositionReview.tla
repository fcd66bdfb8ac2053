--------------------------- MODULE PositionReview ---------------------------
(***************************************************************************)
(* The review of an open vertical spread and the order it may lead to:     *)
(* what the providers' answers become (services/acquisition.py), when a    *)
(* structural pilot closes (lifecycle/structural_pilot.py), the limits of  *)
(* the order, and the ladder of limits its replacements climb              *)
(* (services/execution.py), which the repository checks again.             *)
(*                                                                         *)
(* Pure, as Policy, and in its units. Times are ages in seconds at the     *)
(* moment of the decision, expiries days to go.                            *)
(***************************************************************************)
EXTENDS Policy

CONSTANTS
    Positions,   \* retained contexts: an open spread and its policy
    Sightings,   \* what the providers may answer about it: quotes, Greeks, boundaries, rolls
    Books        \* quotes of a spread's legs when a replacement is due

\* A vertical spread, a quote of one of its legs and a fill.
Spreads == [right : {"C", "P"}, expiry : Int, low : Int, high : Int, long_low : BOOLEAN,
            quantity : Int]
Ticks == [bid : Int, ask : Int, age : Int, got : Int, delta : Int]
Fills == [action : {"ENTRY", "ROLL"}, cash : Int]

\* What the rows and the providers' answers are parsed into: nothing is said
\* of the numbers, which the operators below check.
ASSUME PositionAssumption ==
    \A x \in Positions :
        /\ x.position \in Spreads /\ x.fills \in Seq(Fills)
        /\ x.loss \in Int /\ x.cap \in Int /\ x.spread \in Int

ASSUME SightingAssumption ==
    \A o \in Sightings :
        /\ o.quotes \in [1 .. 2 -> Ticks]
        /\ \A r \in o.rolls : r.position \in Spreads /\ r.quotes \in [1 .. 2 -> Ticks]

\* Quotes for as many legs as an order can have.
ASSUME BookAssumption == Books \subseteq [1 .. 4 -> Ticks]

NoShortDte == 1000
Fresh == 30
PilotQuantity == 5

-----------------------------------------------------------------------------
(* A vertical spread: right, expiry, the lower and the higher strike,      *)
(* whether the lower one is held long, and the quantity.                   *)

Vertical(v) == v.low < v.high /\ v.quantity \in 1 .. MaxOptionQuantity

Width(v) == v.high - v.low

\* The orders that open or close the spread, lower strike first.
Legs(v, opening) ==
    [i \in 1 .. 2 |-> [strike |-> IF i = 1 THEN v.low ELSE v.high, expiry |-> v.expiry,
                       right |-> v.right, buys |-> (v.long_low = (i = 1)) = opening]]

\* The best and the worst net debit of one package at these quotes: what is
\* bought at the bid and sold at the ask, or the other way round.
NetLow(legs, q) ==
    SumFunction([i \in DOMAIN legs |-> IF legs[i].buys THEN q[i].bid ELSE -q[i].ask])
NetHigh(legs, q) ==
    SumFunction([i \in DOMAIN legs |-> IF legs[i].buys THEN q[i].ask ELSE -q[i].bid])

\* What closing the spread pays now, in dollars.
CloseCash(v, q) == -(NetHigh(Legs(v, FALSE), q) * v.quantity)

\* _vertical_max_loss: the worst settlement after the cash that has flowed.
VerticalMaxLoss(v, cash) ==
    LET debit == IF v.right = "C" THEN v.long_low ELSE ~v.long_low
    IN  Max({0, -(cash - (IF debit THEN 0 ELSE Width(v) * v.quantity))})

QuoteUsable(q) ==
    /\ 0 < q.bid /\ q.bid <= q.ask
    /\ 0 <= q.got /\ q.got <= q.age /\ q.age <= Fresh

\* _validate_option_evidence: live quotes whose deltas and midpoints are
\* ordered as the strikes are, and worth less than the width.
OptionEvidenceValid(v, q) ==
    LET mid(i) == q[i].bid + q[i].ask
    IN  /\ \A i \in DOMAIN q : QuoteUsable(q[i])
        /\ q[1].delta > q[2].delta
        /\ IF v.right = "C" THEN mid(1) > mid(2) ELSE mid(1) < mid(2)
        /\ Abs(NetHigh(Legs(v, FALSE), q)) < Width(v)

\* The relative spread of a package, in hundredths rounded up.
PackageSpread(q) ==
    LET width == SumFunction([i \in DOMAIN q |-> q[i].ask - q[i].bid])
        middle == SumFunction([i \in DOMAIN q |-> q[i].ask + q[i].bid])
    IN  -((-200 * width) \div middle)

\* What the retained context must satisfy before a provider is asked.
ContextValid(x) ==
    /\ Vertical(x.position)
    /\ x.scores.delta_low <= x.scores.delta_high /\ x.scores.vega_low <= x.scores.vega_high
    /\ x.scores.max_theta > 0 /\ x.scores.entry_iv > 0
    /\ x.scores.minimum_dte \in 1 .. x.scores.maximum_dte
    /\ x.spread \in 1 .. 99
    /\ x.loss \in 1 .. MaxApprovedRisk /\ 0 < x.cap
    /\ x.fills # <<>> /\ x.fills[1].action = "ENTRY"
    /\ \A i \in 2 .. Len(x.fills) : x.fills[i].action = "ROLL"

Cash(x) == SumFunction([i \in DOMAIN x.fills |-> x.fills[i].cash])

\* The session is open and two completed bars in their order are fresh.
BoundariesValid(o) ==
    /\ o.open
    /\ Len(o.bars) = 2
    /\ o.bars[1].age > o.bars[2].age
    /\ \A i \in DOMAIN o.bars : o.bars[i].age \in 0 .. 120

\* The underlying's quote and the implied volatility are live, and everything was
\* observed within five seconds. The Greeks are observed with their quotes, and the
\* boundary and the roll's quotes, which the code compares too, are left out: more
\* observations are admitted than the code admits.
EvidenceSynchronized(o) ==
    LET ages == {o.underlying.age, o.iv_age} \cup {o.quotes[i].age : i \in DOMAIN o.quotes}
    IN  /\ QuoteUsable(o.underlying)
        /\ o.iv > 0 /\ o.iv_age \in 0 .. Fresh
        /\ Max(ages) - Min(ages) <= 5

\* Every cluster is classified once, and only contradictions invalidate.
ClassificationsValid(claims) ==
    /\ IsInjective([i \in DOMAIN claims |-> claims[i].cluster])
    /\ \A i \in DOMAIN claims : claims[i].invalidates => claims[i].relation = "CONTRADICTS"

-----------------------------------------------------------------------------
(* Gates and scores                                                        *)

\* The registered pilots this spread may be reviewed as.
PilotApplies(x) ==
    /\ x.role = "SUBMISSION"
    /\ x.key \in DOMAIN Pilots
    /\ x.position.right = IF Pilots[x.key].direction = "BULLISH" THEN "C" ELSE "P"
    /\ x.position.long_low = (Pilots[x.key].direction = "BULLISH")
    /\ x.key = "BULLISH_PILOT" \/ Width(x.position) = PilotWidth
    /\ x.position.quantity <= PilotQuantity
    /\ x.loss <= x.position.quantity * PilotDebit
    /\ Len(x.fills) = 1

\* close_reason: the mandatory time, the target at 130% of the debit paid,
\* the stop at 80% of it.
PilotCloses(x, o) ==
    LET debit == -Cash(x)
        value == CloseCash(x.position, o.quotes)
    IN  o.target_passed \/ 10 * value >= 13 * debit \/ 10 * value <= 8 * debit

PilotGates(x, o) ==
    [strategy_close |-> PilotCloses(x, o), verified_invalidation |-> FALSE,
     price_confirmation_broken |-> FALSE, short_dte |-> NoShortDte, ex_dividend |-> FALSE,
     bounded |-> TRUE, risk_cap_exceeded |-> FALSE, contest_end |-> FALSE,
     weekend_failed |-> FALSE]

\* A short call needs to know when its dividend would be assigned.
DividendKnown(x, o) == x.position.right = "C" => o.dividend # "UNKNOWN"

VerifiedInvalidation(claims) ==
    LET invalidating(t) == {i \in DOMAIN claims : claims[i].invalidates /\ claims[i].tier = t}
        groups == {claims[i].group : i \in invalidating("ORIGINAL_REPORTING")} \ {"NONE"}
    IN  invalidating("PRIMARY") # {} \/ Cardinality(groups) >= 2

\* _derive_hard_gates.
HardGates(x, o, claims) ==
    LET loss == VerticalMaxLoss(x.position, Cash(x))
    IN  [strategy_close |-> FALSE,
         verified_invalidation |-> VerifiedInvalidation(claims),
         price_confirmation_broken |-> \A i \in DOMAIN o.bars : o.bars[i].vwap < 0 /\ o.bars[i].relative < 0,
         short_dte |-> x.position.expiry,
         ex_dividend |-> x.position.right = "C" /\ o.dividend = "PASSED",
         bounded |-> TRUE,
         risk_cap_exceeded |-> loss > x.cap \/ loss > x.loss,
         contest_end |-> o.contest_end, weekend_failed |-> o.weekend]

\* The scores of the spread as it is seen.
Scores(x, o, drift) ==
    [x.scores EXCEPT !.drift = drift, !.delta = o.delta, !.vega = o.vega, !.theta = o.theta,
                     !.dte = x.position.expiry, !.horizon = o.horizon, !.current_iv = o.iv,
                     !.pnl = Cash(x) + CloseCash(x.position, o.quotes), !.maximum_loss = x.loss]

-----------------------------------------------------------------------------
(* Rolls                                                                   *)

\* A later spread of the same right, side and quantity.
RollFits(x, r) ==
    /\ Vertical(r.position)
    /\ r.position.right = x.position.right /\ r.position.long_low = x.position.long_low
    /\ r.position.quantity = x.position.quantity
    /\ r.position.expiry > x.position.expiry
    /\ OptionEvidenceValid(r.position, r.quotes)

RollLegs(x, r) == Legs(x.position, FALSE) \o Legs(r.position, TRUE)

\* The cash of the roll if both spreads trade at their natural prices.
RollCash(x, r, q) == -(NetHigh(RollLegs(x, r), q) * x.position.quantity)

\* _derive_single_roll_candidate.
RollCandidate(x, o, r, scores) ==
    LET q == o.quotes \o r.quotes
        cash == RollCash(x, r, q)
        after == [scores EXCEPT !.delta = r.delta, !.vega = r.vega, !.theta = r.theta,
                                !.dte = r.position.expiry,
                                !.pnl = Cash(x) + cash + CloseCash(r.position, r.quotes)]
    IN  [target |-> r, valid |-> \A i \in DOMAIN q : ~TooWide(q[i], x.spread),
         drift_reduction |-> DriftScore(scores) - DriftScore(after),
         extension |-> r.position.expiry - x.position.expiry,
         spread |-> PackageSpread(q), max_spread |-> x.spread,
         debit |-> Max({0, -cash}), max_debit |-> Min({x.loss, x.cap}),
         within_budget |-> VerticalMaxLoss(r.position, Cash(x) + cash) <= Min({x.loss, x.cap}),
         no_prior_roll_today |-> ~o.rolled_today]

NoRoll == [valid |-> FALSE]

\* _derive_roll_candidate: the one that reduces the drift most, then the
\* cheapest, then the most liquid, then the first by the symbols, which order by the
\* expiry and the strikes.
RollsInOrder(x, o, scores) ==
    LET open == {c \in {RollCandidate(x, o, r, scores) : r \in o.rolls} :
                   c.valid /\ c.spread <= c.max_spread /\ c.debit <= c.max_debit}
        key(c) == <<-c.drift_reduction, c.debit, c.spread,
                    c.target.position.expiry, c.target.position.low, c.target.position.high>>
    IN  {c \in open : \A other \in open \ {c} : Precedes(key(c), key(other))}

-----------------------------------------------------------------------------
(* The review                                                              *)

\* The observation is complete, or the acquisition fails.
Acquirable(x, o, claims) ==
    /\ ContextValid(x)
    /\ OptionEvidenceValid(x.position, o.quotes)
    /\ BoundariesValid(o)
    /\ EvidenceSynchronized(o)
    /\ \/ PilotApplies(x) /\ Cash(x) < 0
       \/ /\ x.role = "DEVELOPMENT"
          /\ ClassificationsValid(claims)
          /\ DividendKnown(x, o)
          /\ \A r \in o.rolls : RollFits(x, r)

SelectedRoll(x, o, claims) ==
    IF PilotApplies(x) THEN {}
    ELSE RollsInOrder(x, o, Scores(x, o, EvidenceDrift(claims)))

\* DevelopmentLifecycleAcquisition.acquire: the input of the policy. A pilot
\* has no research and does not roll.
Review(x, o, claims) ==
    LET pilot == PilotApplies(x)
        heard == IF pilot THEN <<>> ELSE claims
        state == IF heard = <<>> THEN "NO_CHANGE" ELSE "ASSESSED"
        scores == Scores(x, o, EvidenceDrift(heard))
        rolls == SelectedRoll(x, o, claims)
    IN  [execution_failure |-> FALSE, complete |-> TRUE, evidence_state |-> state,
         thesis_status |-> ScoreEvidence(state, heard), scores |-> scores,
         gates |-> IF pilot THEN PilotGates(x, o) ELSE HardGates(x, o, heard),
         roll |-> IF rolls = {} THEN NoRoll ELSE CHOOSE c \in rolls : TRUE]

-----------------------------------------------------------------------------
(* The order                                                               *)

PayoffWidth(legs) ==
    LET at(e) == {legs[i].strike : i \in {j \in DOMAIN legs : legs[j].expiry = e}}
    IN  MapThenSumSet(LAMBDA e : Max(at(e)) - Min(at(e)), {legs[i].expiry : i \in DOMAIN legs})

\* _provider_limit_bounds: from the midpoint, rounded down, to the natural
\* price.
LowestLimit(legs, q) == (NetLow(legs, q) + NetHigh(legs, q)) \div 2

BoundsValid(legs, q) ==
    LET low == LowestLimit(legs, q)
        high == NetHigh(legs, q)
    IN  /\ low # 0 /\ high # 0 /\ low <= high
        /\ Abs(low) < PayoffWidth(legs) /\ Abs(high) < PayoffWidth(legs)

\* The order of a review that closes or rolls: _lifecycle_proposal. That it expires with
\* its quotes, and is not proposed when it has, is left out: the limits are the same.
ExitOrder(x, o, claims, action) ==
    LET c == CHOOSE c \in SelectedRoll(x, o, claims) : TRUE
        r == c.target
        legs == IF action = "ROLL" THEN RollLegs(x, r) ELSE Legs(x.position, FALSE)
        q == IF action = "ROLL" THEN o.quotes \o r.quotes ELSE o.quotes
    IN  [action |-> action, legs |-> legs, quantity |-> x.position.quantity,
         minimum |-> LowestLimit(legs, q), maximum |-> NetHigh(legs, q), loss |-> x.loss,
         orderable |-> BoundsValid(legs, q),
         spread |-> IF action = "ROLL" THEN c.spread ELSE 0, max_spread |-> x.spread,
         debit |-> IF action = "ROLL" THEN c.debit ELSE 0,
         max_debit |-> Min({x.loss, x.cap}),
         after |-> IF action = "ROLL" THEN r.position ELSE x.position, cash |-> Cash(x)]

\* The order of an approved entry: build_development_entry_proposal.
EntryOrder(c) ==
    LET spread == [right |-> c.bought.right, expiry |-> c.dte, quantity |-> c.quantity,
                   low |-> Min({c.bought.strike, c.sold.strike}),
                   high |-> Max({c.bought.strike, c.sold.strike}),
                   long_low |-> c.bought.strike < c.sold.strike]
    IN  [action |-> "ENTRY", legs |-> Legs(spread, TRUE), quantity |-> c.quantity,
         minimum |-> c.approved, maximum |-> c.maximum, loss |-> LossOf(c), orderable |-> TRUE,
         spread |-> 0, max_spread |-> 0, debit |-> 0, max_debit |-> 0,
         after |-> spread, cash |-> 0]

\* OrderEnvelope: what any order must satisfy.
EnvelopeValid(e) ==
    /\ Len(e.legs) = IF e.action = "ROLL" THEN 4 ELSE 2
    /\ e.quantity \in 1 .. MaxOptionQuantity
    /\ e.minimum <= e.maximum
    /\ e.loss \in 1 .. MaxApprovedRisk
    /\ e.action = "ROLL" => /\ 0 <= e.spread /\ e.spread <= e.max_spread /\ e.max_spread < 100
                            /\ 0 <= e.debit /\ e.debit <= e.max_debit /\ e.max_debit <= e.loss

-----------------------------------------------------------------------------
(* The ladder of replacements                                              *)

\* _validate_roll_quote_authority: a roll is replaced only while its legs and
\* its package are liquid and its natural debit is still affordable.
RollQuotesAuthorized(e, q) ==
    /\ \A i \in DOMAIN q : ~TooWide(q[i], e.max_spread)
    /\ PackageSpread(q) <= e.max_spread
    /\ NetHigh(e.legs, q) * e.quantity <= e.max_debit

\* A tenth of the quoted width, at least a cent, half a cent up.
Increment(e, q) == Max({1, (NetHigh(e.legs, q) - NetLow(e.legs, q) + 5) \div 10})

\* The mistake of climbing without looking at the approved maximum.
NextLimitUncapped(e, current, q) == current + Increment(e, q)

NextLimit(e, current, q) == Min({e.maximum, current + Increment(e, q)})

\* _replacement_attempt, with the check of _replace_due before the quotes.
ReplacementFailure(e, current, q) ==
    LET low == NetLow(e.legs, q)
        high == NetHigh(e.legs, q)
    IN  FirstOf(<< <<current + 1 > e.maximum, "REPLACEMENT_LIMIT_CAPPED">>,
                   <<\E i \in DOMAIN q : ~QuoteUsable(q[i]), "REPLACEMENT_QUOTE_INVALID">>,
                   <<e.action = "ROLL" /\ ~RollQuotesAuthorized(e, q), "ROLL_LIQUIDITY_DERIORATED">>,
                   <<high <= low \/ Abs(low) >= PayoffWidth(e.legs) \/ Abs(high) >= PayoffWidth(e.legs),
                     "REPLACEMENT_QUOTED_WIDTH_INVALID">>,
                   <<NextLimit(e, current, q) = 0, "REPLACEMENT_LIMIT_ZERO">>,
                   <<NextLimit(e, current, q) <= current, "REPLACEMENT_LIMIT_CAPPED">> >>)

\* _validate_replacement_attempt: the repository's own check of the limit and
\* of the quotes' times, some seconds later.
ReplacementAccepted(e, current, limit, q, delay) ==
    /\ current < limit /\ limit # 0 /\ limit <= e.maximum
    /\ \A i \in DOMAIN q : q[i].got <= q[i].age /\ q[i].age + delay <= Fresh
    /\ \A i, j \in DOMAIN q : q[i].age - q[j].age <= Fresh

\* The limits that one more replacement may send, for any of the books: one
\* that is refused leaves the order as it is.
Climb(e, limits, books) ==
    limits \cup {NextLimit(e, c[1], c[2]) :
                   c \in {c \in limits \X books : ReplacementFailure(e, c[1], c[2]) = "NONE"}}

\* The worst loss if the order fills at a limit.
LossAtLimit(e, limit) == VerticalMaxLoss(e.after, e.cash - limit * e.quantity)

=============================================================================
