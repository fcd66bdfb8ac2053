------------------------ MODULE MCExperimentRegistry ------------------------
(***************************************************************************)
(* Two experiments and two owners.  One experiment is created with any of a   *)
(* set of curations, complete ones and ones that miss a field, as the service *)
(* answered them or with their questions struck out; the other with a         *)
(* complete one.                                                              *)
(***************************************************************************)
EXTENDS ExperimentRegistry, TLC

CONSTANTS e1, e2, c1, c2

Symmetry == Permutations(Clients)

MCFacts == {"flat", "fresh", "trend"}
MCMandatory == {"flat", "fresh"}
MCEntryOnly == {"flat"}
MCProtocols == {"p1"}

AllOf(set) == [match |-> "ALL", predicates |-> set]
SomeOf(set) == [match |-> "ANY", predicates |-> set]
Is(f, v) == [fact |-> f, expected |-> v]

MCRules ==
    [p \in MCProtocols |->
        [entry |-> AllOf({Is("trend", TRUE)}),
         no_trade |-> SomeOf({Is("fresh", FALSE), Is("flat", FALSE)}),
         profit_exit |-> AllOf({Is("trend", TRUE), Is("fresh", TRUE)}),
         loss_exit |-> AllOf({Is("trend", FALSE)}),
         time_exit |-> AllOf({Is("trend", FALSE), Is("fresh", TRUE)}),
         invalidation |-> SomeOf({Is("trend", FALSE)})]]

MCRequests == {[protocol |-> "p1", bound |-> TRUE, agrees |-> TRUE],
               [protocol |-> "p1", bound |-> FALSE, agrees |-> TRUE],
               [protocol |-> "p1", bound |-> TRUE, agrees |-> FALSE]}

FullBrief == [missing |-> {}, direction |-> "BULLISH", single |-> TRUE]
MCBriefs == {FullBrief} \cup {[FullBrief EXCEPT !.missing = {f}] : f \in Fields}
            \cup {[FullBrief EXCEPT !.direction = "BEARISH"], [FullBrief EXCEPT !.single = FALSE]}
GoodOutput == [direction |-> "BULLISH", structure |-> "BULL_CALL", ready |-> Classes,
               conflict |-> FALSE, cites |-> TRUE, asks |-> FALSE]
MCOutputs == {[GoodOutput EXCEPT !.ready = k, !.conflict = v, !.cites = w] :
                k \in SUBSET Classes, v \in BOOLEAN, w \in BOOLEAN}

\* The fullest answer the service gives about a brief, and that answer with its questions
\* struck out.
Served ==
    {Curated(b, CHOOSE o \in MCOutputs : /\ ValidOutput(b, o)
                                        /\ \A q \in MCOutputs : ValidOutput(b, q) =>
                                               Cardinality(q.ready) <= Cardinality(o.ready)) :
        b \in MCBriefs}
StruckOut == {[c EXCEPT !.questions = {}, !.ready = Classes] : c \in Served}

MCCurationsOf ==
    [e \in Experiments |-> IF e = e1 THEN StruckOut \cup {c \in Served : "entry" \in c.brief.missing} ELSE {Curated(FullBrief, GoodOutput)}]
=============================================================================
