---------------------------- MODULE MCOpportunity ----------------------------
(***************************************************************************)
(* An instance of the opportunity pipeline and of the policy's inputs. A   *)
(* behaviour either runs the pipeline or asks the policy one question.     *)
(***************************************************************************)
EXTENDS Opportunity, PolicyCases

MCInit == PipelineInit /\ question \in Questions \cup {NoQuestion}
MCNext == question = NoQuestion /\ PipelineNext /\ UNCHANGED question
MCSpec == MCInit /\ [][MCNext]_<<pipelineVars, question>>

\* An event policy and the three structural pilots.
EventPolicy ==
    [key |-> "EVENT", min_dte |-> 30, max_dte |-> 45, spread |-> 10, age |-> 20, skew |-> 3,
     min_vwap |-> 100, max_vwap |-> 500, min_relative |-> 100, trend_hits |-> 2,
     underlying_age |-> 600, catalyst_age |-> 900, min_catalyst |-> 60, min_beta |-> 0,
     max_beta |-> 300, max_reaction |-> 800, min_score |-> 20,
     min_debit |-> 20, max_debit |-> 60, min_credit |-> 25,
     max_loss |-> 600, equity_fraction |-> 5, lifetime_entries |-> 2, lifetime_risk |-> 1000,
     equity_floor |-> 5000, max_quantity |-> 3, delay |-> 300]

MCPolicies ==
    {EventPolicy, [EventPolicy EXCEPT !.min_score = 60, !.max_quantity = 5]}
    \cup {[EventPolicy EXCEPT !.key = k, !.max_quantity = 2] : k \in DOMAIN Pilots}

\* An event on session 4; beta from the three sessions before it.
SpecOf(policy) ==
    [policy |-> policy, start |-> 1, cutoff |-> 3, event |-> 4, reaction |-> 5, signal |-> 6,
     codes |-> {"EARNINGS"}, window_from |-> 240, window_to |-> 0, quote_age |-> 20, target |-> 9,
     limits |-> [minimum_dte |-> 10, maximum_dte |-> 45, portfolio_risk_cap |-> 800,
                 delta_low |-> 0, delta_high |-> 100, vega_low |-> 0, vega_high |-> 50,
                 maximum_daily_theta |-> 20]]

MCPlanSpecs ==
    {SpecOf(p) : p \in {EventPolicy, [EventPolicy EXCEPT !.key = "BULLISH_PILOT", !.max_quantity = 2]}}

Quote(right, strike, bid, ask, age, delta) ==
    [right |-> right, strike |-> strike, dte |-> 38, bid |-> bid, ask |-> ask,
     age |-> age, delta |-> delta, iv |-> 25, vega |-> 14 - Abs(strike - 10000) \div 100,
     theta |-> -(8 - Abs(strike - 10000) \div 200)]

Calls ==
    {Quote("C", 10000, 495, 505, 2, 60), Quote("C", 10200, 380, 400, 25, 50),
     Quote("C", 10400, 290, 300, 4, 45), Quote("C", 10800, 140, 145, 5, 36)}

Puts ==
    {Quote("P", 10000, 300, 310, 2, -40), Quote("P", 9600, 95, 99, 3, -30),
     Quote("P", 9800, 190, 200, -10, -36), Quote("P", 9200, 40, 41, 3, -20)}

Chains == {s \in SUBSET (Calls \cup Puts) : Cardinality(s) \in 2 .. 3}

Market(chain, vwap) ==
    [chain |-> chain, vwap |-> vwap, relative |-> vwap, bull_hits |-> 2, bear_hits |-> 2,
     beta |-> 100, reaction |-> 200, halt |-> "OPEN", age |-> -1, catalyst |-> "CLEAR",
     catalyst_score |-> 80, catalyst_age |-> 10, market_open |-> TRUE, open_orders |-> FALSE]

MCMarkets == {Market(c, v) : c \in Chains, v \in {300, -300}}

Tradable == {Quote("C", 10000, 495, 505, 2, 60), Quote("C", 10400, 290, 300, 4, 45)}
Paired == Tradable \cup {Quote("P", 10000, 300, 310, 2, -40)}

\* Six bars: those of the boundary and later ones that the provider adds.
BarAt(i, base, step) ==
    [start |-> i, open |-> base + 5 + step * i, high |-> base + 30 + step * i,
     low |-> base + step * i, close |-> base + 25 + step * i, vwap |-> base + 10 + step * i,
     volume |-> 1 + (i % 2)]

BarsOf(base, step) == [i \in 1 .. 6 |-> BarAt(i - 1, base, step)]

ClosesOf(prices) == [i \in DOMAIN prices |-> [session |-> i, close |-> prices[i]]]

News(relation, invalidates) ==
    [cluster |-> "A", relation |-> relation, materiality |-> 3, relevance |-> 9, confidence |-> 10,
     tier |-> "PRIMARY", invalidates |-> invalidates, group |-> "A", event |-> "EARNINGS",
     seen |-> 60]

Delivered(options, benchmark, claims) ==
    [account_known |-> TRUE, clock |-> [offset |-> 1, open |-> TRUE], lag |-> 2,
     contracts_known |-> TRUE, options |-> options,
     bars |-> BarsOf(1000, 10), benchmark_bars |-> BarsOf(1000, 0),
     calendar |-> <<1, 2, 3, 4, 5, 6>>,
     closes |-> ClosesOf(<<1000, 1020, 1010, 1000, 1030, 1040>>),
     benchmark_closes |-> ClosesOf(benchmark),
     halt |-> [state |-> "OPEN", lag |-> 1], news |-> [lag |-> 5, claims |-> claims]]

Rising == <<500, 505, 503, 500, 502, 504>>
Falling == <<500, 495, 497, 500, 502, 504>>

\* An entry for every plan; one that a pilot approves and cannot write a
\* thesis for, and an event plan rejects; no beta to hedge with.
MCLiveEvidence ==
    {Delivered(Paired, Rising, <<News("SUPPORTS", FALSE)>>),
     Delivered(Tradable, Rising, <<News("CONTRADICTS", TRUE)>>),
     Delivered(Paired, Falling, <<>>)}

MCSignalCases ==
    LET whole == Delivered(Paired, Rising, <<>>)
        deliveries == {whole, Delivered(Paired, Falling, <<>>),
                       [whole EXCEPT !.bars = SubSeq(@, 1, 5)],
                       [whole EXCEPT !.bars = SubSeq(@, 1, 3) \o SubSeq(@, 5, 6)],
                       [whole EXCEPT !.closes = Tail(@)],
                       [whole EXCEPT !.closes = SubSeq(@, 1, 5), !.bars[6].low = 2000],
                       [whole EXCEPT !.calendar = Tail(@)]}
        specs == {SpecOf(EventPolicy), [SpecOf(EventPolicy) EXCEPT !.reaction = 6],
                  [SpecOf(EventPolicy) EXCEPT !.cutoff = 4, !.start = 2]}
    IN  [spec : specs, evidence : deliveries, boundary : {1, 2, 3}]

MCBudgets ==
    {[equity |-> e, power |-> w, open_orders |-> FALSE, reserving |-> r > 0, reserved |-> r,
      entries |-> 0, approved |-> a] :
        e \in {6000, 20000}, w \in {300, 20000}, r \in {0, 250}, a \in {0, 500, 900}}

Claims(cluster) ==
    {[cluster |-> cluster, relation |-> rel, materiality |-> 2, relevance |-> 8,
      confidence |-> c, tier |-> t, invalidates |-> x, group |-> cluster, event |-> cluster] :
        rel \in {"SUPPORTS", "CONTRADICTS"}, c \in {5, 9},
        t \in {"PRIMARY", "ORIGINAL_REPORTING", "SECONDARY"}, x \in BOOLEAN}

MCClaimLists == {<<a, b>> : a, b \in Claims("A") \cup Claims("B")}
                \cup {<<a, b, c>> : a, b \in Claims("A"), c \in Claims("B")}

Calm == [drift |-> 0, delta |-> 30, delta_low |-> 20, delta_high |-> 60, vega |-> 10, vega_low |-> 5,
         vega_high |-> 15, theta |-> -5, max_theta |-> 10, dte |-> 30, minimum_dte |-> 10,
         maximum_dte |-> 45, horizon |-> 20, entry_iv |-> 20, current_iv |-> 20,
         view |-> "NEUTRAL", pnl |-> 0, maximum_loss |-> 200]

Quiet == [strategy_close |-> FALSE, verified_invalidation |-> FALSE,
          price_confirmation_broken |-> FALSE, short_dte |-> 30, ex_dividend |-> FALSE,
          bounded |-> TRUE, risk_cap_exceeded |-> FALSE, contest_end |-> FALSE,
          weekend_failed |-> FALSE]

MCReviews ==
    {[execution_failure |-> FALSE, complete |-> TRUE, evidence_state |-> "ASSESSED",
      thesis_status |-> t,
      roll |-> [valid |-> TRUE, drift_reduction |-> 20, extension |-> 14, spread |-> 5,
                max_spread |-> 10, debit |-> 50, max_debit |-> 200, within_budget |-> TRUE,
                no_prior_roll_today |-> TRUE],
      gates |-> [Quiet EXCEPT !.verified_invalidation = x],
      scores |-> [Calm EXCEPT !.drift = d, !.horizon = h, !.pnl = -l, !.delta = e]] :
        t \in {"INTACT", "WEAKENING", "BROKEN"}, x \in BOOLEAN,
        d \in {0, 60, 100}, h \in {20, 90, 100}, l \in {0, 60, 99, 100}, e \in {30, 90}}

Tick(bid, ask, delta) == [bid |-> bid, ask |-> ask, age |-> 5, got |-> 2, delta |-> delta]

Spread(right, expiry, low, high, longLow) ==
    [right |-> right, expiry |-> expiry, low |-> low, high |-> high, long_low |-> longLow,
     quantity |-> 2]

Held(role, key, spread, cash, loss) ==
    [role |-> role, key |-> key, position |-> spread, fills |-> <<[action |-> "ENTRY", cash |-> cash]>>,
     loss |-> loss, cap |-> 500, spread |-> 10, scores |-> [Calm EXCEPT !.maximum_loss = loss]]

\* A bullish call debit with little or more risk left, a bearish put debit, a
\* bullish put credit, a position that was rolled, and a pilot.
MCPositions ==
    {Held("DEVELOPMENT", "EVENT", Spread("C", 9, 10000, 10400, TRUE), -400, 404),
     Held("DEVELOPMENT", "EVENT", Spread("C", 9, 10000, 10400, TRUE), -400, 450),
     Held("DEVELOPMENT", "EVENT", Spread("P", 9, 10000, 10400, FALSE), -400, 450),
     Held("DEVELOPMENT", "EVENT", Spread("P", 6, 10000, 10400, TRUE), 300, 500),
     Held("SUBMISSION", "BULLISH_PILOT", Spread("C", 30, 10000, 10400, TRUE), -400, 450),
     [Held("DEVELOPMENT", "EVENT", Spread("C", 9, 10000, 10400, TRUE), -400, 450)
        EXCEPT !.fills = Append(@, [action |-> "ROLL", cash |-> -30])]}

CallBook == <<Tick(300, 310, 60), Tick(100, 104, 30)>>
PutBook == <<Tick(100, 104, -30), Tick(300, 310, -60)>>

Roll(right, longLow, expiry, quotes) ==
    [position |-> Spread(right, expiry, 10000, 10400, longLow), quotes |-> quotes,
     delta |-> 30, vega |-> 10, theta |-> -5]

Seen(quotes, horizon, rolls, claims) ==
    [quotes |-> quotes, delta |-> -5, vega |-> 25, theta |-> -20, horizon |-> horizon, iv |-> 20,
     underlying |-> Tick(9990, 9992, 0), iv_age |-> 6,
     open |-> TRUE, bars |-> [i \in 1 .. 2 |-> [age |-> 120 - 60 * i, vwap |-> 1, relative |-> 1]],
     dividend |-> "NONE", contest_end |-> FALSE, weekend |-> FALSE, target_passed |-> FALSE,
     rolled_today |-> FALSE, rolls |-> rolls, claims |-> claims]

LaterCalls == <<Tick(350, 358, 60), Tick(150, 153, 40)>>
LaterPuts == <<Tick(150, 153, -40), Tick(350, 358, -60)>>

CallRolls == {Roll("C", TRUE, 23, LaterCalls), Roll("C", TRUE, 30, LaterCalls)}

Contradiction ==
    <<[cluster |-> "A", relation |-> "CONTRADICTS", materiality |-> 2, relevance |-> 8,
       confidence |-> 9, tier |-> "PRIMARY", invalidates |-> TRUE, group |-> "A"]>>

MCSightings ==
    {Seen(CallBook, h, rolls, claims) : h \in {50, 100}, rolls \in SUBSET CallRolls,
                                        claims \in {<<>>, Contradiction}}
    \cup {Seen(PutBook, 100, rolls, <<>>) : rolls \in {{}, {Roll("P", FALSE, 23, LaterPuts)}}}
    \cup {[Seen(CallBook, 50, {}, <<>>) EXCEPT !.target_passed = TRUE],
          [Seen(CallBook, 50, {}, <<>>) EXCEPT !.quotes[1].bid = 230],
          [Seen(CallBook, 50, {}, <<>>) EXCEPT !.iv_age = 11],
          [Seen(CallBook, 50, {}, <<>>) EXCEPT !.dividend = "PASSED"],
          [Seen(CallBook, 50, {}, <<>>) EXCEPT !.dividend = "UNKNOWN"],
          [Seen(CallBook, 50, {}, <<>>) EXCEPT !.open = FALSE]}

\* The quotes of the legs when a replacement is due: much as they were, twice
\* as wide, and moved against the order.
MCBooks ==
    {CallBook \o LaterCalls, PutBook \o LaterPuts,
     <<Tick(260, 350, 60), Tick(80, 124, 30), Tick(340, 366, 60), Tick(148, 155, 40)>>,
     <<Tick(350, 360, 60), Tick(60, 64, 30), Tick(330, 336, 60), Tick(170, 173, 40)>>}

RunSymmetry == Permutations(Runs)

=============================================================================
