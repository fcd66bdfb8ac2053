--------------------------- MODULE MarketEvidence ---------------------------
(***************************************************************************)
(* What the opportunity pipeline makes of the providers' answers: the      *)
(* market snapshot (alpaca/opportunity.py), the signals computed from      *)
(* daily closes and five-minute bars (opportunity_signals.py), the         *)
(* catalyst assessed from classified news (opportunity_catalyst.py) and    *)
(* the thesis an approved entry is frozen with (opportunity_thesis.py).    *)
(*                                                                         *)
(* A plan spec holds the policy, the sessions, the evidence window, the    *)
(* allowed event codes and the thesis contracts of a plan. Times are in    *)
(* bars of the session; ages and lags in seconds, a lag being how long     *)
(* after the trusted_at of the run an answer was complete. Returns are in  *)
(* basis points, beta in hundredths, both rounded down.                    *)
(***************************************************************************)
EXTENDS Policy

CONSTANTS
    PlanSpecs,     \* what a plan may be frozen with
    Lead,          \* five-minute bars of the session before the clock's zero
    SessionBars,   \* bars of a session; a request asks for no more
    DailyCloses,   \* DAILY_CLOSE_COUNT: the closes beta is computed from
    DailyLimit,    \* MAX_DAILY_BARS_PER_SYMBOL: the closes a request asks for
    MaxContracts   \* the contracts a chain may hold

ASSUME EvidenceAssumption ==
    /\ Lead \in Nat /\ SessionBars \in Nat /\ MaxContracts \in Nat
    /\ DailyCloses \in Nat /\ DailyLimit \in Nat /\ DailyCloses < DailyLimit

Bar == 300
SkewTolerance == 30

\* The elements of s that are in S, in their order.
Among(s, S) ==
    LET kept[n \in 0 .. Len(s)] ==
            IF n = 0 THEN <<>>
            ELSE IF s[n] \in S THEN Append(kept[n - 1], s[n]) ELSE kept[n - 1]
    IN  kept[Len(s)]

\* Bars between the open of the session and the boundary.
Due(boundary) == Lead + boundary

SecondsAfter(boundary, trusted) == Bar * (trusted - boundary)

-----------------------------------------------------------------------------
(* The snapshot                                                            *)

\* The provider's clock agrees with the run's and with the calendar.
SessionAgrees(e, boundary, trusted) ==
    LET now == Bar * Due(boundary) + SecondsAfter(boundary, trusted) + e.clock.offset
    IN  /\ e.clock.offset \in -120 .. SkewTolerance
        /\ Due(boundary) \in 1 .. SessionBars
        /\ e.clock.open = (0 <= now /\ now < Bar * SessionBars)

PricesOrdered(b) ==
    /\ 0 < b.low /\ 0 < b.vwap /\ 0 < b.volume
    /\ b.low <= b.open /\ b.open <= b.high
    /\ b.low <= b.close /\ b.close <= b.high

\* The one bar that completes at the boundary.
BoundaryBars(bars, boundary) ==
    {i \in DOMAIN bars : bars[i].start + 1 = Due(boundary)}

BoundaryBarValid(bars, boundary) ==
    /\ Cardinality(BoundaryBars(bars, boundary)) = 1
    /\ \A i \in BoundaryBars(bars, boundary) : PricesOrdered(bars[i])

\* One unusable quote fails the chain; a stale one is only left out.
QuoteNormal(o, lag) ==
    /\ 0 < o.bid /\ o.bid <= o.ask
    /\ o.age + lag >= 0
    /\ o.delta \in -100 .. 100
    /\ 0 < o.iv /\ 0 <= o.vega

FreshChain(spec, e) == {o \in e.options : o.age + e.lag <= spec.quote_age}

ChainCollected(spec, e) ==
    /\ e.lag <= SkewTolerance
    /\ e.options # {} /\ Cardinality(e.options) <= MaxContracts
    /\ e.contracts_known
    /\ \A o \in e.options : QuoteNormal(o, e.lag)
    /\ Cardinality(FreshChain(spec, e)) >= 2

\* collect: the account book, the session, the bars of the boundary, the chain.
SnapshotCollected(spec, e, boundary, trusted) ==
    /\ trusted >= boundary
    /\ e.account_known
    /\ SessionAgrees(e, boundary, trusted)
    /\ BoundaryBarValid(e.bars, boundary) /\ BoundaryBarValid(e.benchmark_bars, boundary)
    /\ ChainCollected(spec, e)

-----------------------------------------------------------------------------
(* The signals                                                             *)

\* The sessions beta is computed from: the last ones up to the cutoff.
ThroughCutoff(spec, e) ==
    LET through == Among(e.calendar, {s \in Range(e.calendar) : s <= spec.cutoff})
    IN  SubSeq(through, Max({1, Len(through) - DailyCloses + 1}), Len(through))

\* _collect_calendar, and the stricter order the calculation asks for.
CalendarValid(spec, e, boundary) ==
    LET sessions == ThroughCutoff(spec, e)
    IN  /\ e.calendar # <<>>
        /\ \A i \in 1 .. Len(e.calendar) - 1 : e.calendar[i] < e.calendar[i + 1]
        /\ Head(e.calendar) = spec.start /\ Last(e.calendar) = spec.signal
        /\ Len(sessions) = DailyCloses /\ Last(sessions) = spec.cutoff
        /\ spec.reaction \in Range(e.calendar)
        /\ spec.cutoff < spec.reaction /\ spec.reaction < spec.signal
        /\ Due(boundary) \in 4 .. SessionBars

\* _validate_authority, _validate_scope.
ScopeValid(spec, boundary, trusted) ==
    /\ trusted >= boundary
    /\ SecondsAfter(boundary, trusted) <= spec.policy.underlying_age

\* _collect_daily: the closes of the wanted sessions, whatever else arrives.
DailyOf(bars, sessions) == Among(bars, {b \in Range(bars) : b.session \in Range(sessions)})

DailyValid(bars, sessions) ==
    LET daily == DailyOf(bars, sessions)
    IN  /\ Len(bars) <= DailyLimit
        /\ [i \in DOMAIN daily |-> daily[i].session] = sessions
        /\ \A i \in DOMAIN daily : daily[i].close > 0

\* _collect_intraday: the bars that start before the boundary.
IntradayOf(bars, boundary) == Among(bars, {b \in Range(bars) : b.start < Due(boundary)})

IntradayValid(bars, boundary) ==
    LET known == IntradayOf(bars, boundary)
    IN  /\ Len(bars) <= SessionBars
        /\ Len(known) = Due(boundary)
        /\ \A i \in DOMAIN known : /\ known[i].start = i - 1
                                   /\ PricesOrdered(known[i])
                                   /\ known[i].low <= known[i].vwap
                                   /\ known[i].vwap <= known[i].high

BasisPoints(from, to) == (10000 * to) \div from - 10000

\* _beta60: numerators of the covariance and of the benchmark's variance.
Moments(underlying, benchmark) ==
    LET n == DailyCloses - 1
        u(i) == BasisPoints(underlying[i].close, underlying[i + 1].close)
        b(i) == BasisPoints(benchmark[i].close, benchmark[i + 1].close)
        sum(f(_)) == MapThenSumSet(f, 1 .. n)
    IN  [covariance |-> n * sum(LAMBDA i : u(i) * b(i)) - sum(u) * sum(b),
         variance |-> n * sum(LAMBDA i : b(i) * b(i)) - sum(b) * sum(b)]

BetaValid(m) == m.variance > 0 /\ m.covariance > 0 /\ m.covariance <= 3 * m.variance

\* The last four bars: how often the low did not fall, and the high did not rise.
TrendHits(bars) ==
    LET last == Len(bars) - 2 .. Len(bars)
    IN  [bull |-> Cardinality({i \in last : bars[i].low >= bars[i - 1].low}),
         bear |-> Cardinality({i \in last : bars[i].high <= bars[i - 1].high})]

VwapDistance(bars) ==
    LET volume == MapThenSumSet(LAMBDA i : bars[i].volume, DOMAIN bars)
        traded == MapThenSumSet(LAMBDA i : bars[i].vwap * bars[i].volume, DOMAIN bars)
    IN  BasisPoints(traded, Last(bars).close * volume)

SessionReturn(bars) == BasisPoints(Head(bars).open, Last(bars).close)

SignalsCollected(spec, e, boundary, trusted) ==
    /\ ScopeValid(spec, boundary, trusted)
    /\ CalendarValid(spec, e, boundary)
    /\ DailyValid(e.closes, ThroughCutoff(spec, e) \o <<spec.reaction>>)
    /\ DailyValid(e.benchmark_closes, ThroughCutoff(spec, e))
    /\ IntradayValid(e.bars, boundary) /\ IntradayValid(e.benchmark_bars, boundary)
    /\ BetaValid(Moments(DailyOf(e.closes, ThroughCutoff(spec, e)),
                         DailyOf(e.benchmark_closes, ThroughCutoff(spec, e))))

\* calculate_opportunity_signals.
Signals(spec, e, boundary) ==
    LET sessions == ThroughCutoff(spec, e)
        closes == DailyOf(e.closes, sessions)
        moments == Moments(closes, DailyOf(e.benchmark_closes, sessions))
        beta == (100 * moments.covariance) \div moments.variance
        bars == IntradayOf(e.bars, boundary)
        benchmark == IntradayOf(e.benchmark_bars, boundary)
    IN  [beta |-> beta, vwap |-> VwapDistance(bars),
         relative |-> SessionReturn(bars) - (beta * SessionReturn(benchmark)) \div 100,
         bull_hits |-> TrendHits(bars).bull, bear_hits |-> TrendHits(bars).bear,
         reaction |-> Abs(BasisPoints(Last(closes).close,
                                      Last(DailyOf(e.closes, <<spec.reaction>>)).close))]

\* The halt authority, read for this run and not UNKNOWN.
HaltConfirmed(e) == e.halt.state # "UNKNOWN" /\ e.halt.lag >= 0

-----------------------------------------------------------------------------
(* The catalyst                                                            *)

\* How long before the trusted_at of the run a claim was observed.
ClaimAge(k, boundary, trusted) == k.seen + SecondsAfter(boundary, trusted)

\* The catalyst plan is in force for the allowed delay.
CatalystPlanValid(spec, boundary, trusted) ==
    SecondsAfter(boundary, trusted) \in 0 .. spec.policy.delay

\* Research that is complete in time, from sources inside the window.
ResearchValid(spec, news, boundary, trusted) ==
    /\ Len(news.claims) <= 12
    /\ FreshAt(-news.lag, spec.policy.catalyst_age)
    /\ \A i \in DOMAIN news.claims :
          /\ news.claims[i].seen \in spec.window_to .. spec.window_from
          /\ ClaimAge(news.claims[i], boundary, trusted) <= spec.policy.catalyst_age
          /\ \A j \in DOMAIN news.claims : news.claims[i].cluster = news.claims[j].cluster => i = j

ClaimValid(k) ==
    /\ k.materiality \in 1 .. 3 /\ k.relevance \in 0 .. 10 /\ k.confidence \in 0 .. 10
    /\ k.invalidates => k.relation = "CONTRADICTS"

\* _assess_classifications.
Assessment(claims) ==
    LET invalidating(t) == {k \in claims : k.invalidates /\ k.tier = t}
        groups == {k.group : k \in invalidating("ORIGINAL_REPORTING")} \ {"NONE"}
        counted(r) == {k \in claims : k.relevance >= 6 /\ k.confidence >= 6 /\ k.relation = r}
    IN  IF invalidating("PRIMARY") # {} \/ Cardinality(groups) >= 2
        THEN [quality |-> "AUTHORITATIVE_CONTRADICTION", score |-> 0]
        ELSE IF counted("CONTRADICTS") # {} \/ counted("SUPPORTS") = {}
             THEN [quality |-> "UNRESOLVED_RISK", score |-> 0]
             ELSE [quality |-> "CLEAR",
                   score |-> Max({ClaimWeight(k) \div 30 : k \in counted("SUPPORTS")})]

\* produce: claims of other events than the plan's are not assessed.
Catalyst(spec, news) ==
    IF news.claims = <<>>
    THEN [quality |-> "MISSING", score |-> 0]
    ELSE Assessment({k \in Range(news.claims) : k.event \in spec.codes})

CatalystAge(news, boundary, trusted) ==
    IF news.claims = <<>>
    THEN -news.lag
    ELSE Min({ClaimAge(k, boundary, trusted) : k \in Range(news.claims)})

CatalystProduced(spec, news, boundary, trusted) ==
    /\ CatalystPlanValid(spec, boundary, trusted)
    /\ ResearchValid(spec, news, boundary, trusted)
    /\ \A k \in Range(news.claims) : ClaimValid(k)

\* What the policy is told of the market.
MarketOf(spec, e, openOrders, boundary, trusted) ==
    LET s == Signals(spec, e, boundary)
        c == Catalyst(spec, e.news)
    IN  [chain |-> FreshChain(spec, e), market_open |-> e.clock.open, open_orders |-> openOrders,
         vwap |-> s.vwap, relative |-> s.relative, beta |-> s.beta, reaction |-> s.reaction,
         bull_hits |-> s.bull_hits, bear_hits |-> s.bear_hits,
         halt |-> e.halt.state, age |-> -e.halt.lag,
         catalyst |-> c.quality, catalyst_score |-> c.score,
         catalyst_age |-> CatalystAge(e.news, boundary, trusted)]

-----------------------------------------------------------------------------
(* The thesis of an approved entry                                         *)

\* _paired_atm_iv needs a call and a put of one strike at the candidate's expiry.
PairedStrikes(chain, dte) ==
    {o.strike : o \in {o \in chain : o.right = "C" /\ o.dte = dte}}
    \cap {o.strike : o \in {o \in chain : o.right = "P" /\ o.dte = dte}}

\* _target_contract, and the schema: later than the boundary and than the thesis.
TargetValid(spec, boundary, trusted) == boundary + spec.target > trusted

\* _intended_exposure: the greeks of the legs, summed.
IntendedExposure(c) ==
    [delta |-> c.quantity * (c.bought.delta - c.sold.delta),
     vega |-> c.quantity * (c.bought.vega - c.sold.vega),
     theta |-> c.quantity * (c.bought.theta - c.sold.theta)]

\* _exposure_contract, _validate_exposure_contract.
ExposureWithin(limits, x, dte, loss) ==
    /\ dte \in limits.minimum_dte .. limits.maximum_dte
    /\ loss <= limits.portfolio_risk_cap
    /\ x.delta \in limits.delta_low .. limits.delta_high
    /\ x.vega \in limits.vega_low .. limits.vega_high
    /\ Abs(x.theta) <= limits.maximum_daily_theta

\* build_frozen_opportunity_thesis succeeds.
ThesisBuilds(spec, chain, c, boundary, trusted) ==
    /\ TargetValid(spec, boundary, trusted)
    /\ ExposureWithin(spec.limits, IntendedExposure(c), c.dte, LossOf(c))
    /\ PairedStrikes(chain, c.dte) # {}

=============================================================================
