------------------------------- MODULE Policy -------------------------------
(***************************************************************************)
(* The deterministic policy: the review of an open position                *)
(* (policy/evaluation.py), the selection of a vertical spread from an      *)
(* option chain (services/opportunity_selection.py) and the gates an       *)
(* opportunity passes before an entry is approved (policy/opportunity.py). *)
(* All of it is pure, so it is modelled as operators; PolicyCases asks     *)
(* them about the inputs a model declares.                                 *)
(*                                                                         *)
(* Decimals are integers: quotes, widths and limits in cents, so that the  *)
(* loss of one contract (a multiplier of 100) is that number in dollars;   *)
(* fractions in hundredths, compared by cross-multiplication; scores in    *)
(* 1/Unit of a point.                                                      *)
(***************************************************************************)
EXTENDS Integers, Sequences, FiniteSets, FiniteSetsExt, SequencesExt

CONSTANTS
    Policies,    \* the frozen policies a plan may hold
    Markets,     \* what the providers may answer: chain, signals, halt, catalyst
    Budgets,     \* states of the account and of its entry budget
    Reviews,     \* the inputs of a review of a position
    ClaimLists   \* classified claims, in the order the providers return them

\* Limits on any order (order_limits.py).
MaxOptionQuantity == 100
MaxApprovedRisk == 100000

\* OpportunityPolicy.__post_init__ refuses any other policy.
ASSUME PolicyAssumption ==
    \A p \in Policies :
        /\ p.min_dte \in Nat \ {0} /\ p.max_dte \in Nat
        /\ p.age \in Nat \ {0} /\ p.skew \in Nat \ {0}
        /\ p.spread \in 1 .. 99 /\ p.min_score \in 0 .. 100
        /\ p.min_debit \in 1 .. 99 /\ p.max_debit \in 1 .. 99 /\ p.min_credit \in 1 .. 99
        /\ p.max_loss \in 1 .. MaxApprovedRisk /\ p.equity_fraction \in 1 .. 100
        /\ p.lifetime_risk \in Nat \ {0} /\ p.max_quantity \in 1 .. MaxOptionQuantity

\* What is read from a provider is a number, whatever its sign.
ASSUME MarketAssumption ==
    \A m \in Markets : \A o \in m.chain :
        /\ o.strike \in Int /\ o.dte \in Int
        /\ o.bid \in Int /\ o.ask \in Int /\ o.age \in Int

\* Reservations are positive amounts.
ASSUME BudgetAssumption ==
    \A a \in Budgets :
        a.equity \in Int /\ a.power \in Int /\ a.approved \in Int /\ a.reserved \in Nat

\* ScoreInput: score_drift refuses an entry volatility, a theta limit or an
\* approved loss that is not positive.
ScoreInputs ==
    [drift : Int, delta : Int, delta_low : Int, delta_high : Int, vega : Int, vega_low : Int,
     vega_high : Int, theta : Int, max_theta : Nat \ {0}, dte : Int, minimum_dte : Int,
     maximum_dte : Int, horizon : Int, entry_iv : Nat \ {0}, current_iv : Int,
     view : {"LONG", "SHORT", "NEUTRAL"}, pnl : Int, maximum_loss : Nat \ {0}]

ASSUME ReviewAssumption ==
    \A v \in Reviews :
        /\ v.scores \in ScoreInputs
        /\ v.thesis_status \in {"INTACT", "UNKNOWN", "WEAKENING", "BROKEN"}
        /\ v.gates.short_dte \in Int

\* The code of the first rule that applies, as a chain of early returns does.
FirstOf(rules) ==
    LET hits == {i \in DOMAIN rules : rules[i][1]}
    IN  IF hits = {} THEN "NONE" ELSE rules[Min(hits)][2]

Abs(x) == IF x < 0 THEN -x ELSE x

-----------------------------------------------------------------------------
(* Evidence                                                                *)

TierWeight == [PRIMARY |-> 10, ORIGINAL_REPORTING |-> 8, SECONDARY |-> 5]

\* EvidenceClaim: the numbers are checked by the operators that use them.
ClaimRows ==
    [cluster : STRING, relation : {"SUPPORTS", "CONTRADICTS", "NEUTRAL"}, materiality : Int,
     relevance : Int, confidence : Int, tier : DOMAIN TierWeight, invalidates : BOOLEAN,
     group : STRING, event : STRING]

ASSUME ClaimAssumption == ClaimLists \subseteq Seq(ClaimRows)

\* The mistake of keeping whichever claim of a cluster arrived first.
ClaimOfFirst(claims, c) ==
    claims[Min({i \in DOMAIN claims : claims[i].cluster = c})]

\* The claim a cluster is judged by: the first of the strongest tier.
ClaimOf(claims, c) ==
    LET own == {i \in DOMAIN claims : claims[i].cluster = c}
        best == {i \in own : \A j \in own :
                    TierWeight[claims[j].tier] <= TierWeight[claims[i].tier]}
    IN  claims[Min(best)]

\* Relevance and confidence are tenths; the constant divisor of the weight
\* cancels in the ratio that is compared.
ClaimWeight(k) == k.materiality * k.relevance * k.confidence * TierWeight[k.tier]

Signed(k) == IF k.relation = "SUPPORTS" THEN ClaimWeight(k) ELSE -ClaimWeight(k)

\* What score_evidence looks at: the claim of each cluster, the
\* invalidations among them, and the weights of those that count.
Weighed(claims) ==
    LET clusters == {claims[i].cluster : i \in DOMAIN claims}
        judged(c) == ClaimOf(claims, c)
        invalidated(t) == {c \in clusters : judged(c).invalidates /\ judged(c).tier = t}
        groups == {judged(c).group : c \in invalidated("ORIGINAL_REPORTING")} \ {"NONE"}
        counted == {c \in clusters : /\ judged(c).relevance >= 6
                                     /\ judged(c).confidence >= 6
                                     /\ judged(c).relation # "NEUTRAL"}
    IN  [invalid |-> invalidated("PRIMARY") # {} \/ Cardinality(groups) >= 2,
         silent |-> counted = {},
         total |-> MapThenSumSet(LAMBDA c : ClaimWeight(judged(c)), counted),
         net |-> MapThenSumSet(LAMBDA c : Signed(judged(c)), counted)]

\* score_evidence: the thesis status that the claims leave.
ScoreEvidence(state, claims) ==
    LET w == Weighed(claims)
    IN  IF state = "UNKNOWN" THEN "UNKNOWN"
        ELSE IF state = "NO_CHANGE" THEN "INTACT"
        ELSE IF w.invalid THEN "BROKEN"
        ELSE IF w.silent THEN "INTACT"
        ELSE IF 4 * w.net >= w.total THEN "INTACT"
        ELSE IF 4 * w.net <= -w.total THEN "BROKEN"
        ELSE "WEAKENING"

\* The drift that goes with it. The code keeps the fraction of a point; here the next
\* whole point stands for it.
EvidenceDrift(claims) ==
    LET w == Weighed(claims)
    IN  IF claims = <<>> THEN 0
        ELSE IF w.invalid THEN 100
        ELSE IF w.silent THEN 0
        ELSE 50 - (50 * w.net) \div w.total

-----------------------------------------------------------------------------
(* The drift score of a position                                           *)

\* Components are kept in hundredths of a point, and cut off there; the code
\* keeps every digit, so a score next to a half may be displayed one off.
Unit == 100

Clamp(x) == Max({0, Min({100 * Unit, x})})

BandDeviation(v, low, high, tolerance) ==
    IF v \in low .. high
    THEN 0
    ELSE Clamp((100 * Unit * Max({low - v, v - high})) \div tolerance)

VegaMismatch(s) ==
    BandDeviation(s.vega, s.vega_low, s.vega_high, Max({1, s.vega_high - s.vega_low}))

ExposureMismatch(s) ==
    (40 * BandDeviation(s.delta, s.delta_low, s.delta_high, 25)
     + 25 * VegaMismatch(s)
     + 20 * Clamp((100 * Unit * (Max({0, -s.theta}) - s.max_theta)) \div s.max_theta)
     + 15 * BandDeviation(s.dte, s.minimum_dte, s.maximum_dte, 7)) \div 100

TimePressure(s) ==
    Max({Clamp(2 * Unit * (s.horizon - 50)), Clamp((100 * Unit * (14 - s.dte)) \div 7)})

VolatilityMismatch(s) ==
    LET change == (500 * Unit * (s.current_iv - s.entry_iv)) \div s.entry_iv
    IN  CASE s.view = "LONG" -> Clamp(-change)
          [] s.view = "SHORT" -> Clamp(change)
          [] OTHER -> VegaMismatch(s)

RiskUtilization(s) ==
    Clamp((250 * Unit * Max({0, -s.pnl})) \div s.maximum_loss - 25 * Unit)

\* int(round(...)) of a Decimal: half to even.
DisplayScore(x) ==
    LET q == x \div Unit
        r == 2 * (x % Unit)
    IN  IF r > Unit \/ (r = Unit /\ q % 2 = 1) THEN q + 1 ELSE q

DriftScore(s) ==
    DisplayScore((35 * Clamp(s.drift * Unit) + 25 * ExposureMismatch(s)
                  + 15 * TimePressure(s) + 10 * VolatilityMismatch(s)
                  + 15 * RiskUtilization(s)) \div 100)

\* max() over a dict keeps the first of equal components.
Dominant(s) ==
    LET parts == << <<ExposureMismatch(s), "EXPOSURE">>, <<TimePressure(s), "TIME">>,
                    <<VolatilityMismatch(s), "VOLATILITY">>, <<RiskUtilization(s), "RISK">> >>
        best == {i \in DOMAIN parts : \A j \in DOMAIN parts : parts[j][1] <= parts[i][1]}
    IN  parts[Min(best)][2]

-----------------------------------------------------------------------------
(* The review of a position                                                *)

MandatoryCloseCode(g, s) ==
    FirstOf(<< <<g.strategy_close, "STRATEGY_CLOSE">>,
               <<g.verified_invalidation, "VERIFIED_INVALIDATION">>,
               <<g.price_confirmation_broken, "PRICE_CONFIRMATION_BROKEN">>,
               <<2 * Max({0, -s.pnl}) >= s.maximum_loss, "LOSS_LIMIT_REACHED">>,
               <<g.short_dte <= 7, "SHORT_DTE_LIMIT">>,
               <<g.ex_dividend, "SHORT_CALL_EX_DIVIDEND">>,
               <<~g.bounded, "DEFINED_RISK_BROKEN">>,
               <<g.risk_cap_exceeded, "RISK_CAP_EXCEEDED">>,
               <<g.contest_end, "CONTEST_END_CLOSE">>,
               <<g.weekend_failed, "WEEKEND_GATE_FAILED">> >>)

\* The code checks the signs of the candidate's numbers and that it is a pair of verticals
\* as well: RollCandidate makes no other.
RollIsEligible(v, score) ==
    /\ v.roll.valid
    /\ v.roll.spread <= v.roll.max_spread
    /\ v.roll.debit <= v.roll.max_debit
    /\ v.roll.within_budget
    /\ score \in 45 .. 69
    /\ v.thesis_status \in {"INTACT", "WEAKENING"}
    /\ Dominant(v.scores) \in {"EXPOSURE", "TIME"}
    /\ v.roll.drift_reduction >= 20
    /\ v.roll.extension \in 7 .. 35
    /\ v.roll.no_prior_roll_today

\* The mistake of looking for a roll before the score that closes.
EvaluateAssessmentRollFirst(v) ==
    LET score == DriftScore(v.scores)
    IN  IF v.execution_failure \/ ~v.complete THEN "NO_ACTION"
        ELSE IF MandatoryCloseCode(v.gates, v.scores) # "NONE" THEN "CLOSE"
        ELSE IF v.evidence_state = "UNKNOWN" THEN "NO_ACTION"
        ELSE IF v.roll.valid /\ score >= 45 THEN "ROLL"
        ELSE IF v.thesis_status = "BROKEN" \/ score >= 70 THEN "CLOSE"
        ELSE "HOLD"

\* evaluate_assessment.
EvaluateAssessment(v) ==
    LET score == DriftScore(v.scores)
    IN  IF v.execution_failure \/ ~v.complete THEN "NO_ACTION"
        ELSE IF MandatoryCloseCode(v.gates, v.scores) # "NONE" THEN "CLOSE"
        ELSE IF v.evidence_state = "UNKNOWN" THEN "NO_ACTION"
        ELSE IF v.thesis_status = "BROKEN" \/ score >= 70 THEN "CLOSE"
        ELSE IF RollIsEligible(v, score) THEN "ROLL"
        ELSE "HOLD"

-----------------------------------------------------------------------------
(* Selecting a vertical spread                                             *)

NoDirection == "NONE"
NoCandidate == [strategy |-> "NONE"]

\* The structural pilots: a direction fixed by the opportunity key and a band
\* for the delta of the bought leg.
Pilots == [BULLISH_PILOT |-> [direction |-> "BULLISH", low |-> 55, high |-> 65],
           BULLISH_OTM_PILOT |-> [direction |-> "BULLISH", low |-> 35, high |-> 50],
           BEARISH_OTM_PILOT |-> [direction |-> "BEARISH", low |-> 35, high |-> 50]]
PilotWidth == 400
PilotDebit == 225
PilotTargetDte == 38

Structural(p) == p.key \in DOMAIN Pilots

\* What a quote must satisfy: the pilot's own limits or the policy's.
QuoteLimits(p) ==
    IF Structural(p)
    THEN [min_dte |-> 30, max_dte |-> 45, spread |-> 5, age |-> 20, skew |-> 3]
    ELSE [min_dte |-> p.min_dte, max_dte |-> p.max_dte, spread |-> p.spread,
          age |-> p.age, skew |-> p.skew]

DeriveDirection(p, m) ==
    IF Structural(p) THEN Pilots[p.key].direction
    ELSE IF ~(Abs(m.vwap) > p.min_vwap /\ Abs(m.vwap) <= p.max_vwap) THEN NoDirection
    ELSE IF m.vwap > 0 /\ m.relative > p.min_relative /\ m.bull_hits >= p.trend_hits THEN "BULLISH"
    ELSE IF m.vwap < 0 /\ m.relative < -p.min_relative /\ m.bear_hits >= p.trend_hits THEN "BEARISH"
    ELSE NoDirection

\* The relative spread (ask - bid) / midpoint is above a limit in hundredths.
TooWide(o, limit) == 200 * (o.ask - o.bid) > limit * (o.ask + o.bid)

\* How much of the allowed spread is left, in whole percent rounded down.
SpreadScore(o, limit) == 100 + ((-20000 * (o.ask - o.bid)) \div (limit * (o.ask + o.bid)))

\* An option of the chain that the snapshot may hold. The pilots leave age,
\* expiry and spread to the terms of a pair.
OptionValid(p, o) ==
    /\ 0 < o.bid /\ o.bid <= o.ask
    /\ o.age >= -30
    /\ \/ Structural(p)
       \/ /\ o.age <= p.age
          /\ o.dte \in p.min_dte .. p.max_dte
          /\ ~TooWide(o, p.spread)

SnapshotValid(p, m) ==
    /\ m.market_open
    /\ ~m.open_orders
    /\ m.chain # {}
    /\ \A o \in m.chain : OptionValid(p, o)
    /\ \/ Structural(p)
       \/ \A o, q \in m.chain : Abs(o.age - q.age) <= p.skew

Debit(strategy) == strategy \in {"BULL_CALL_DEBIT", "BEAR_PUT_DEBIT"}

StrategyOf(direction, right) ==
    CASE direction = "BULLISH" /\ right = "C" -> "BULL_CALL_DEBIT"
      [] direction = "BULLISH" /\ right = "P" -> "BULL_PUT_CREDIT"
      [] direction = "BEARISH" /\ right = "P" -> "BEAR_PUT_DEBIT"
      [] OTHER -> "BEAR_CALL_CREDIT"

\* The pairs a direction trades: bullish spreads buy the lower strike,
\* bearish ones the higher.
Structures(chain, direction) ==
    {x \in chain \X chain :
        /\ x[1].right = x[2].right
        /\ x[1].dte = x[2].dte
        /\ IF direction = "BULLISH" THEN x[1].strike < x[2].strike ELSE x[1].strike > x[2].strike}

Natural(strategy, b, s) == IF Debit(strategy) THEN b.ask - s.bid ELSE s.bid - b.ask

\* The loss of one contract at the approved limit, in dollars.
RiskPerContract(strategy, b, s, limit) ==
    IF Debit(strategy) THEN limit ELSE Abs(b.strike - s.strike) - limit

TermsValid(p, strategy, b, s) ==
    LET natural == Natural(strategy, b, s)
        width == Abs(b.strike - s.strike)
    IN  /\ Abs(b.age - s.age) <= p.skew
        /\ natural > 0
        /\ IF Debit(strategy)
           THEN 100 * natural >= p.min_debit * width /\ 100 * natural <= p.max_debit * width
           ELSE 100 * natural >= p.min_credit * width /\ natural < width

\* Half of a cent rounds up, towards a fill.
PilotInitial(b, s) == -((-((b.bid + b.ask) - (s.bid + s.ask))) \div 2)

PilotTermsValid(p, b, s) ==
    LET limits == QuoteLimits(p)
        natural == b.ask - s.bid
    IN  /\ b.dte \in limits.min_dte .. limits.max_dte
        /\ b.age <= limits.age /\ s.age <= limits.age
        /\ Abs(b.age - s.age) <= limits.skew
        /\ ~TooWide(b, limits.spread) /\ ~TooWide(s, limits.spread)
        /\ PilotInitial(b, s) > 0
        /\ PilotInitial(b, s) <= natural
        /\ natural <= PilotDebit
        /\ 4 * (PilotWidth - natural) >= 3 * natural

\* The mistake of sizing from the position's own cap, whatever lifetime risk is left.
QuantityIgnoringBudget(p, requested, a, risk) ==
    Min({requested, p.max_quantity,
         Min({p.max_loss, (a.equity * p.equity_fraction) \div 100, a.power}) \div risk})

\* As many contracts as every cap allows.
Quantity(p, requested, a, risk) ==
    Min({requested, p.max_quantity,
         Min({p.max_loss, (a.equity * p.equity_fraction) \div 100, a.risk, a.power}) \div risk})

Candidate(p, strategy, b, s, approved, maximum, quantity) ==
    [strategy |-> strategy, bought |-> b, sold |-> s, quantity |-> quantity, dte |-> b.dte,
     approved |-> approved, maximum |-> maximum,
     score |-> Min({SpreadScore(b, QuoteLimits(p).spread), SpreadScore(s, QuoteLimits(p).spread)})]

\* The candidates whose terms the policy accepts, before they are sized.
Eligible(p, chain, direction) ==
    {c \in {Candidate(p, StrategyOf(direction, x[1].right), x[1], x[2],
                      Natural(StrategyOf(direction, x[1].right), x[1], x[2]),
                      Natural(StrategyOf(direction, x[1].right), x[1], x[2]), 0) :
            x \in {x \in Structures(chain, direction) :
                     TermsValid(p, StrategyOf(direction, x[1].right), x[1], x[2])}} :
        c.score >= p.min_score}

PilotEligible(p, chain) ==
    LET pilot == Pilots[p.key]
        right == IF pilot.direction = "BULLISH" THEN "C" ELSE "P"
        pairs == {x \in Structures(chain, pilot.direction) :
                    /\ x[1].right = right
                    /\ Abs(x[1].delta) \in pilot.low .. pilot.high
                    /\ Abs(x[1].strike - x[2].strike) = PilotWidth
                    /\ PilotTermsValid(p, x[1], x[2])}
    IN  {Candidate(p, StrategyOf(pilot.direction, right), x[1], x[2],
                   PilotInitial(x[1], x[2]), x[1].ask - x[2].bid, 0) : x \in pairs}

\* The loss a candidate may cause: _approved_max_loss.
LossOf(c) ==
    c.quantity * RiskPerContract(c.strategy, c.bought, c.sold,
                                 IF Debit(c.strategy) THEN c.maximum ELSE c.approved)

\* Alphabetical, as the rank key compares the strategy's name.
StrategyRank == [BEAR_CALL_CREDIT |-> 1, BEAR_PUT_DEBIT |-> 2,
                 BULL_CALL_DEBIT |-> 3, BULL_PUT_CREDIT |-> 4]

RankKey(p, c) ==
    LET risk == RiskPerContract(c.strategy, c.bought, c.sold, c.maximum)
        strikes == <<c.bought.strike, c.sold.strike>>
    IN  IF Structural(p)
        THEN <<Abs(c.dte - PilotTargetDte), -c.score, risk, c.dte>> \o strikes
        ELSE <<-c.score, risk, StrategyRank[c.strategy], c.dte>> \o strikes

Precedes(x, y) ==
    \E i \in DOMAIN x : x[i] < y[i] /\ \A j \in 1 .. i - 1 : x[j] = y[j]

\* select_vertical_candidate: the reason and the candidate.
SelectVertical(p, m, direction, a) ==
    LET eligible == IF Structural(p)
                    THEN PilotEligible(p, m.chain)
                    ELSE Eligible(p, m.chain, direction)
        sized(c) == [c EXCEPT !.quantity = Quantity(p, p.max_quantity, a,
                        RiskPerContract(c.strategy, c.bought, c.sold, c.maximum))]
        ranked == {c \in {sized(e) : e \in eligible} :
                     IF Structural(p) THEN c.quantity = p.max_quantity ELSE c.quantity >= 1}
        first == {c \in ranked : \A d \in ranked \ {c} : Precedes(RankKey(p, c), RankKey(p, d))}
    IN  IF ~SnapshotValid(p, m) THEN [reason |-> "SNAPSHOT_INVALID", candidate |-> NoCandidate]
        ELSE IF eligible = {} THEN [reason |-> "NO_ELIGIBLE_STRUCTURE", candidate |-> NoCandidate]
        ELSE IF ranked = {} THEN [reason |-> "RISK_AUTHORITY_INSUFFICIENT", candidate |-> NoCandidate]
        ELSE IF first = {} THEN [reason |-> "SNAPSHOT_INVALID", candidate |-> NoCandidate]
        ELSE [reason |-> "SELECTED", candidate |-> CHOOSE c \in first : TRUE]

\* The authority the selection is given: what is left of the lifetime budget.
SelectionAuthority(p, account) ==
    [equity |-> account.equity, power |-> account.power,
     risk |-> Min({p.max_loss, Max({0, p.lifetime_risk - account.approved - account.reserved})})]

-----------------------------------------------------------------------------
(* The gates of an opportunity                                             *)

FreshAt(age, limit) == age >= -30 /\ age <= limit

PayoffValid(p, c) ==
    LET natural == Natural(c.strategy, c.bought, c.sold)
        width == Abs(c.bought.strike - c.sold.strike)
        within(low, high, x) == 100 * x >= low * width /\ 100 * x <= high * width
    IN  IF Debit(c.strategy)
        THEN /\ c.approved <= c.maximum /\ c.maximum <= natural
             /\ \A x \in {natural, c.approved, c.maximum} : within(p.min_debit, p.max_debit, x)
        ELSE /\ c.approved >= natural
             /\ \A x \in {natural, c.approved} : 100 * x >= p.min_credit * width /\ x < width

PilotPayoffValid(p, c) ==
    /\ c.strategy = StrategyOf(Pilots[p.key].direction,
                               IF Pilots[p.key].direction = "BULLISH" THEN "C" ELSE "P")
    /\ c.quantity = p.max_quantity
    /\ Abs(c.sold.strike - c.bought.strike) = PilotWidth
    /\ 0 < c.approved /\ c.approved <= c.maximum
    /\ c.maximum <= c.bought.ask - c.sold.bid
    /\ c.maximum <= PilotDebit
    /\ 4 * (PilotWidth - c.maximum) >= 3 * c.maximum

IsVertical(c) ==
    /\ c.bought.right = c.sold.right /\ c.bought.dte = c.sold.dte
    /\ c.bought.strike # c.sold.strike
    /\ c.strategy = StrategyOf(IF c.bought.strike < c.sold.strike THEN "BULLISH" ELSE "BEARISH",
                               c.bought.right)

\* _option_candidate_failure.
OptionCandidateFailure(p, c) ==
    LET limits == QuoteLimits(p)
        legs == {c.bought, c.sold}
    IN  FirstOf(<< <<c.approved <= 0 \/ c.maximum < c.approved \/ c.score \notin 0 .. 100
                       \/ c.dte < 0, "OPTION_CANDIDATE_INVALID">>,
                   <<c.quantity \notin 1 .. p.max_quantity, "QUANTITY_OUT_OF_BOUNDS">>,
                   <<~Structural(p) /\ c.score < p.min_score, "CANDIDATE_SCORE_BELOW_MINIMUM">>,
                   <<c.dte \notin limits.min_dte .. limits.max_dte, "OPTION_DTE_OUT_OF_RANGE">>,
                   <<~IsVertical(c), "VERTICAL_STRUCTURE_INVALID">>,
                   <<\E l \in legs : l.dte # c.dte, "OPTION_DTE_MISMATCH">>,
                   <<\E l \in legs : ~(0 < l.bid /\ l.bid <= l.ask), "OPTION_QUOTE_INVALID">>,
                   <<\E l \in legs : ~FreshAt(l.age, limits.age), "OPTION_QUOTE_STALE">>,
                   <<Abs(c.bought.age - c.sold.age) > limits.skew, "OPTION_QUOTES_UNSYNCHRONIZED">>,
                   <<\E l \in legs : TooWide(l, limits.spread), "OPTION_QUOTE_TOO_WIDE">>,
                   <<IF Structural(p) THEN ~PilotPayoffValid(p, c) ELSE ~PayoffValid(p, c),
                     "OPTION_PAYOFF_INVALID">> >>)

\* _account_failure. Its checks of the snapshot itself (a book fingerprint, an
\* account state without negative amounts, an executable role) and of the last
\* entry boundary, which a plan's boundary precedes, fail for no input that
\* compose builds, and are left out.
AccountFailure(p, account, loss) ==
    FirstOf(<< <<account.equity <= p.equity_floor, "EQUITY_FLOOR_REACHED">>,
               <<account.open_orders, "OPEN_ORDER_EXISTS">>,
               <<account.reserving, "ENTRY_RESERVATION_ACTIVE">>,
               <<account.entries >= p.lifetime_entries, "LIFETIME_ENTRY_LIMIT_REACHED">>,
               <<account.approved + loss > p.lifetime_risk, "LIFETIME_RISK_LIMIT_REACHED">>,
               <<loss > p.max_loss \/ 100 * loss > account.equity * p.equity_fraction,
                 "POSITION_RISK_LIMIT_EXCEEDED">> >>)

\* The gates before a candidate is looked at. "delayed" is a decision taken
\* more than the allowed delay after its boundary. Left out are the gates that
\* no snapshot composed for the plan meets: of another scope or boundary, of
\* incomplete data or signals out of range, and of a direction that the
\* candidate does not have.
InputFailure(p, v) ==
    FirstOf(<< <<v.prior, "PRIOR_DECISION_BINDING">>,
               <<v.delayed, "DECISION_BOUNDARY_STALE">>,
               <<~v.market.market_open, "MARKET_CLOSED">>,
               <<v.market.halt = "UNKNOWN", "TRADING_HALT_STATUS_UNKNOWN">>,
               <<v.market.halt = "HALTED", "TRADING_HALTED">>,
               <<~FreshAt(v.market.age, p.underlying_age), "UNDERLYING_DATA_STALE">>,
               <<~FreshAt(v.market.catalyst_age, p.catalyst_age), "CATALYST_DATA_STALE">>,
               <<~Structural(p) /\ v.market.catalyst = "MISSING", "CATALYST_DATA_MISSING">>,
               <<~Structural(p) /\ v.market.catalyst = "AUTHORITATIVE_CONTRADICTION", "CATALYST_CONTRADICTED">>,
               <<~Structural(p) /\ v.market.catalyst_score < p.min_catalyst,
                 "CATALYST_SCORE_BELOW_MINIMUM">>,
               <<~Structural(p) /\ ~(p.min_beta < v.market.beta /\ v.market.beta <= p.max_beta),
                 "BETA_OUT_OF_BOUNDS">>,
               <<~Structural(p) /\ v.market.reaction > p.max_reaction,
                 "FIRST_REACTION_OUT_OF_SUPPORT">>,
               <<DeriveDirection(p, v.market) = NoDirection, "DIRECTION_NOT_CONFIRMED">>,
               <<v.candidate = NoCandidate, "OPTION_CANDIDATE_MISSING">> >>)

\* evaluate_opportunity: the reason of the decision.
EvaluateOpportunity(p, v) ==
    LET early == InputFailure(p, v)
        option == OptionCandidateFailure(p, v.candidate)
        account == AccountFailure(p, v.account, LossOf(v.candidate))
    IN  IF early # "NONE" THEN early
        ELSE IF option # "NONE" THEN option
        ELSE IF account # "NONE" THEN account
        ELSE "ENTRY_APPROVED"

=============================================================================
