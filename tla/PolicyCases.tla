----------------------------- MODULE PolicyCases -----------------------------
(***************************************************************************)
(* What the policy and the pricing of orders promise, over the inputs a    *)
(* model declares. They keep no state: a behaviour is one question, asked  *)
(* at its start.                                                           *)
(***************************************************************************)
EXTENDS PositionReview, MarketEvidence

CONSTANT SignalCases   \* what the providers deliver, for a plan and a boundary

\* Bars and closes as they are parsed. A request for bars has a limit, which
\* the provider keeps.
DeliveredBars ==
    {bars \in Seq([start : Int, open : Int, high : Int, low : Int, close : Int, vwap : Int,
                   volume : Int]) : Len(bars) <= SessionBars}
DeliveredCloses ==
    {closes \in Seq([session : Int, close : Int]) : Len(closes) <= DailyLimit}

ASSUME DeliveryAssumption ==
    \A c \in SignalCases :
        /\ c.boundary \in Int /\ c.spec.cutoff \in Int /\ c.spec.reaction \in Int
        /\ {"bars", "benchmark_bars", "calendar", "closes", "benchmark_closes"}
               \subseteq DOMAIN c.evidence
        /\ c.evidence.bars \in DeliveredBars /\ c.evidence.benchmark_bars \in DeliveredBars
        /\ c.evidence.closes \in DeliveredCloses /\ c.evidence.benchmark_closes \in DeliveredCloses
        /\ c.evidence.calendar \in Seq(Int)

VARIABLE question

NoQuestion == [about |-> "NOTHING"]

Questions ==
    [about : {"SELECTION"}, policy : Policies, market : Markets, budget : Budgets]
    \cup [about : {"REVIEW"}, review : Reviews]
    \cup [about : {"CLAIMS"}, claims : ClaimLists]
    \cup [about : {"SIGNALS"}, delivery : SignalCases]
    \cup [about : {"ORDER"}, context : Positions, sighting : Sightings]

-----------------------------------------------------------------------------

\* The selector and the gates judge a spread by separate code. A spread the
\* selector returns passes every gate of the policy on options, and never
\* exceeds what is left of the lifetime and position risk, for any chain,
\* policy and budget.
SelectedIsAcceptable ==
    question.about = "SELECTION" =>
        LET p == question.policy
            direction == DeriveDirection(p, question.market)
            authority == SelectionAuthority(p, question.budget)
            selected == SelectVertical(p, question.market, direction, authority)
        IN  direction # NoDirection /\ selected.reason = "SELECTED" =>
              /\ OptionCandidateFailure(p, selected.candidate) = "NONE"
              /\ AccountFailure(p, question.budget, LossOf(selected.candidate)) \notin
                    {"LIFETIME_RISK_LIMIT_REACHED", "POSITION_RISK_LIMIT_EXCEEDED"}

StatusRank == [INTACT |-> 1, UNKNOWN |-> 1, WEAKENING |-> 2, BROKEN |-> 3]

\* The gates that close when they are set.
Alarms == {"strategy_close", "verified_invalidation", "price_confirmation_broken", "ex_dividend",
           "risk_cap_exceeded", "contest_end", "weekend_failed"}

\* w is the same review with nothing better: at least the loss, the horizon
\* used, the drift and the alarms of v, and any roll.
NoBetter(v, w) ==
    /\ w.execution_failure = v.execution_failure /\ w.complete = v.complete
    /\ w.evidence_state = v.evidence_state
    /\ w.scores = [v.scores EXCEPT !.pnl = w.scores.pnl, !.horizon = w.scores.horizon,
                                   !.drift = w.scores.drift]
    /\ w.scores.pnl <= v.scores.pnl
    /\ w.scores.horizon >= v.scores.horizon
    /\ w.scores.drift >= v.scores.drift
    /\ StatusRank[w.thesis_status] >= StatusRank[v.thesis_status]
    /\ \A alarm \in Alarms : v.gates[alarm] => w.gates[alarm]
    /\ w.gates.bounded => v.gates.bounded
    /\ w.gates.short_dte <= v.gates.short_dte

\* A position that would be closed is still closed when things are worse: no
\* order of the checks lets a roll, a hold or a changed dominant component
\* keep a position that a milder review closes.
CloseIsMonotone ==
    question.about = "REVIEW" =>
        (EvaluateAssessment(question.review) = "CLOSE" =>
            \A w \in Reviews : NoBetter(question.review, w) => EvaluateAssessment(w) = "CLOSE")

\* Two claims of one cluster that the tier does not tell apart.
Tied(claims) ==
    \E i, j \in DOMAIN claims : /\ i # j
                                /\ claims[i].cluster = claims[j].cluster
                                /\ claims[i].tier = claims[j].tier

\* The same claims in the order of a permutation p.
Reordered(claims, p) == [i \in DOMAIN claims |-> claims[p[i]]]

\* Neither the order of the claims nor a weaker copy of one already there
\* changes the thesis status.
CountsOnce(claims) ==
    LET status == ScoreEvidence("ASSESSED", claims)
    IN  /\ \A p \in Bijection(DOMAIN claims, DOMAIN claims) :
              ScoreEvidence("ASSESSED", Reordered(claims, p)) = status
        /\ \A i \in {i \in DOMAIN claims : claims[i].tier # "SECONDARY"},
              relation \in {"SUPPORTS", "CONTRADICTS"} :
              LET copy == [claims[i] EXCEPT !.tier = "SECONDARY", !.relation = relation]
              IN  /\ ScoreEvidence("ASSESSED", Append(claims, copy)) = status
                  /\ ScoreEvidence("ASSESSED", <<copy>> \o claims) = status

\* The gates of a review and its score judge one classification, and so does
\* the catalyst of a plan with these event codes, which assesses the claims of
\* its events only: what it takes for a contradiction invalidates in the
\* review, and unless a claim of another event contradicts, the converse holds
\* and a clear catalyst is an intact thesis.
JudgedAlike(claims, codes) ==
    LET quality == Catalyst([codes |-> codes], [claims |-> claims]).quality
        elsewhere == \E k \in Range(claims) : k.event \notin codes /\ k.relation = "CONTRADICTS"
    IN  /\ Weighed(claims).invalid = VerifiedInvalidation(claims)
        /\ quality = "AUTHORITATIVE_CONTRADICTION" => VerifiedInvalidation(claims)
        /\ ~elsewhere =>
              /\ VerifiedInvalidation(claims) => quality = "AUTHORITATIVE_CONTRADICTION"
              /\ quality = "CLEAR" => ScoreEvidence("ASSESSED", claims) = "INTACT"

\* What had happened by the boundary, and the closes up to the plan's sessions.
KnownAt(spec, e, boundary) ==
    LET completed(bars) == Among(bars, {b \in Range(bars) : b.start + 1 <= Due(boundary)})
        through(closes, session) == Among(closes, {b \in Range(closes) : b.session <= session})
    IN  [e EXCEPT !.bars = completed(@), !.benchmark_bars = completed(@),
                  !.closes = through(@, spec.reaction),
                  !.benchmark_closes = through(@, spec.cutoff)]

\* Evidence is judged by what it says and not by how it is delivered. Unless
\* two sources of one tier tell the same story, score_evidence counts a story
\* once, by its strongest source, and gives the same status for every order of
\* the claims. On a classification that their callers accept, the two judges of
\* a review agree on what invalidates a thesis, and the entry's catalyst, which
\* passes over claims of events that its plan does not allow, differs from them
\* only if such a claim contradicts. And the signals of a boundary are the same
\* whether or not the provider also delivers bars and closes of later than it.
EvidenceIsJudgedAlike ==
    /\ question.about = "CLAIMS" =>
          /\ ~Tied(question.claims) => CountsOnce(question.claims)
          /\ (/\ ClassificationsValid(question.claims)
              /\ \A k \in Range(question.claims) : ClaimValid(k)) =>
                \A codes \in SUBSET {k.event : k \in Range(question.claims)} :
                    JudgedAlike(question.claims, codes)
    /\ question.about = "SIGNALS" =>
          LET c == question.delivery
              known == KnownAt(c.spec, c.evidence, c.boundary)
          IN  /\ SignalsCollected(c.spec, c.evidence, c.boundary, c.boundary)
                  = SignalsCollected(c.spec, known, c.boundary, c.boundary)
              /\ SignalsCollected(c.spec, known, c.boundary, c.boundary) =>
                    Signals(c.spec, c.evidence, c.boundary) = Signals(c.spec, known, c.boundary)

\* The order a review leads to, if it leads to one, and the books of quotes
\* its replacements may meet.
ReviewedOrders(x, o) ==
    LET actions == {EvaluateAssessment(v) : v \in {Review(x, o, o.claims)}}
    IN  IF Acquirable(x, o, o.claims)
        THEN {e \in {ExitOrder(x, o, o.claims, a) : a \in actions \cap {"CLOSE", "ROLL"}} :
                e.orderable}
        ELSE {}

BooksOf(e) == {[i \in DOMAIN e.legs |-> b[i]] : b \in Books}

\* Every limit the order of e is sent with in two replacements, for quotes
\* that change as they like.
Limits(e) == Climb(e, Climb(e, {e.minimum}, BooksOf(e)), BooksOf(e))

\* What the service sends, the repository accepts some seconds later.
SentIsAccepted(e) ==
    \A limit \in Limits(e), q \in BooksOf(e) :
        ReplacementFailure(e, limit, q) = "NONE" =>
            \A delay \in {0, Fresh - Max({q[i].age : i \in DOMAIN q})} :
                ReplacementAccepted(e, limit, NextLimit(e, limit, q), q, delay)

\* The review prices an order once; the replacements climb on later quotes.
\* The order is one the envelope admits, every limit it is sent with is one
\* the repository accepts when the quotes are still fresh, and no fill is worse
\* than the review approved: a close realizes at least the profit or loss the
\* position was judged by, a roll or a debit entry can lose no more than its
\* approved loss.
OrdersKeepTheirLoss ==
    /\ question.about = "ORDER" =>
          \A e \in ReviewedOrders(question.context, question.sighting) :
            LET x == question.context
            IN  /\ EnvelopeValid(e) /\ SentIsAccepted(e)
                /\ \A limit \in Limits(e) :
                      IF e.action = "ROLL"
                      THEN LossAtLimit(e, limit) <= Min({x.loss, x.cap})
                      ELSE -(limit * e.quantity) >= CloseCash(x.position, question.sighting.quotes)
    /\ question.about = "SELECTION" =>
          LET p == question.policy
              direction == DeriveDirection(p, question.market)
              chosen == SelectVertical(p, question.market, direction,
                                       SelectionAuthority(p, question.budget))
              e == EntryOrder(chosen.candidate)
          IN  /\ direction # NoDirection /\ chosen.reason = "SELECTED"
              /\ Debit(chosen.candidate.strategy)
              => /\ EnvelopeValid(e) /\ SentIsAccepted(e)
                 /\ \A limit \in Limits(e) : LossAtLimit(e, limit) <= e.loss

=============================================================================
