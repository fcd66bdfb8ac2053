-------------------------- MODULE StrategyProtocol --------------------------
(***************************************************************************)
(* From a thesis to a decision (strategy_briefs, experiments): what the       *)
(* curation model may answer about a brief, when a reviewed curation          *)
(* compiles into a protocol, what a compiled protocol decides about the       *)
(* observed facts, and what an authorization lets follow from the decision.   *)
(* A text is reduced to whether it is there; a predicate over numbers is a    *)
(* fact like any other.                                                       *)
(***************************************************************************)
EXTENDS Naturals, FiniteSets

CONSTANTS
    Facts,      \* ProtocolFact, and the numeric predicates of the rules
    Mandatory,  \* _MANDATORY_SAFETY_FACTS
    EntryOnly,  \* _ENTRY_ONLY_FACTS
    Protocols,  \* names of the rule sets a compile request may carry
    Rules       \* the rules of each

\* What a brief and its protocol fields have to say.
Fields == {"scope", "direction", "horizon", "evidence", "risk", "entry", "no_trade",
           "profit_exit", "loss_exit", "time_exit", "invalidation"}
ExitFields == {"profit_exit", "loss_exit", "time_exit", "invalidation"}
Directions == {"BULLISH", "BEARISH", "NEUTRAL", "UNSURE"}
Structures == {"BULL_CALL", "BEAR_PUT", "IRON_CONDOR", "REVIEW_REQUIRED"}
Classes == {"clarity", "evidence", "risk", "exit"}

\* A brief: the fields that are missing, its direction, and whether it names one symbol.
Brief == [missing : SUBSET Fields, direction : Directions, single : BOOLEAN]

\* What the model answers: the classes it calls READY, whether clarity is CONFLICT_REVIEW,
\* whether it cites evidence, and whether it asks on its own.
Output == [direction : Directions, structure : Structures, ready : SUBSET Classes,
           conflict : BOOLEAN, cites : BOOLEAN, asks : BOOLEAN]

StructureByDirection ==
    [BULLISH |-> "BULL_CALL", BEARISH |-> "BEAR_PUT", NEUTRAL |-> "IRON_CONDOR",
     UNSURE |-> "REVIEW_REQUIRED"]

\* brief.direction is None or UNSURE
NoDirection(b) == "direction" \in b.missing \/ b.direction = "UNSURE"

\* _validate_readiness: what the model may not call ready.
ReadinessValid(b, o) ==
    /\ NoDirection(b) \/ {"scope", "horizon"} \cap b.missing # {} => "clarity" \notin o.ready
    /\ ~NoDirection(b) /\ b.direction # o.direction => o.conflict
    /\ "evidence" \in b.missing \/ ~o.cites => "evidence" \notin o.ready
    /\ "risk" \in b.missing => "risk" \notin o.ready
    /\ ExitFields \cap b.missing # {} => "exit" \notin o.ready
    /\ ~(o.conflict /\ "clarity" \in o.ready)

\* StrategyCurationService._validate_output
ValidOutput(b, o) ==
    /\ o.cites => "evidence" \notin b.missing
    /\ o.structure \in {"REVIEW_REQUIRED", StructureByDirection[o.direction]}
    /\ ReadinessValid(b, o)

\* _blocking_questions: one for every missing field, one for a direction or a structure that
\* needs review, and those of the model.
BlockingQuestions(b, o) ==
    (b.missing \ {"direction"})
    \cup (IF NoDirection(b) \/ b.direction # o.direction THEN {"direction"} ELSE {})
    \cup (IF o.structure = "REVIEW_REQUIRED" THEN {"structure"} ELSE {})
    \cup (IF o.asks THEN {"model"} ELSE {})

\* StrategyCurationService.curate
Curated(b, o) ==
    [brief |-> b, direction |-> o.direction, structure |-> o.structure, ready |-> o.ready,
     cites |-> o.cites, questions |-> BlockingQuestions(b, o)]

Curation == [brief : Brief, direction : Directions, structure : Structures,
             ready : SUBSET Classes, cites : BOOLEAN,
             questions : SUBSET (Fields \cup {"structure", "model"})]

\* _validate_rule_binding and _validate_evidence_binding: the machine rules name the reviewed
\* texts, so each has to be there; the cited excerpts are those of the brief.
RulesBound(c, request) ==
    request.bound /\ ({"entry", "no_trade"} \cup ExitFields) \cap c.brief.missing = {}
EvidenceBound(c) == c.cites /\ "evidence" \notin c.brief.missing

\* _validate_definition: the definition's risk, expiries and codes are those of the brief.
DefinitionBound(c, request) == request.agrees /\ "risk" \notin c.brief.missing

\* compile_reviewed_protocol: the curation is what the owner sent back, not what the service
\* answered, so everything is checked again.
Compiles(c, request) ==
    /\ c.questions = {} /\ c.ready = Classes
    /\ c.direction # "UNSURE" /\ c.structure \notin {"REVIEW_REQUIRED", "IRON_CONDOR"}
    /\ c.structure = StructureByDirection[c.direction]
    /\ "direction" \notin c.brief.missing /\ c.brief.direction = c.direction
    /\ "scope" \notin c.brief.missing /\ c.brief.single
    /\ EvidenceBound(c)
    /\ RulesBound(c, request)
    /\ DefinitionBound(c, request)

-----------------------------------------------------------------------------
(* A compiled protocol *)

Phases == {"FLAT", "OPEN"}
RuleNames == {"entry", "no_trade", "profit_exit", "loss_exit", "time_exit", "invalidation"}
ExitRules == {"profit_exit", "loss_exit", "time_exit", "invalidation"}

\* MachineRule: predicates over facts, all or any of which must hold.
Rule == [match : {"ALL", "ANY"}, predicates : SUBSET [fact : Facts, expected : BOOLEAN]]

ASSUME RulesAssumption ==
    /\ Mandatory \subseteq Facts /\ EntryOnly \subseteq Mandatory
    /\ Rules \in [Protocols -> [RuleNames -> Rule]]

\* AcquiredProtocolEvidence.fact_values: some of the facts.
Observations == UNION {[known -> BOOLEAN] : known \in SUBSET Facts}

\* _required_predicates
PredicateFacts(p) == UNION {{q.fact : q \in Rules[p][n].predicates} : n \in RuleNames}

\* Facts that must have been observed; those about an entry do not matter to an open position.
RequiredFacts(p, phase) ==
    PredicateFacts(p) \cup (IF phase = "FLAT" THEN Mandatory ELSE Mandatory \ EntryOnly)

\* build_protocol_observations: blocked unless everything required was observed in time.
Buildable(p, phase, obs, timely) == timely /\ RequiredFacts(p, phase) \subseteq DOMAIN obs

\* ProtocolObservationBundle.observations: an entry fact that was ignored counts as false.
ObservationSet(p, phase, obs) ==
    [f \in RequiredFacts(p, phase) \cup EntryOnly |->
        IF f \in RequiredFacts(p, phase) THEN obs[f] ELSE FALSE]

\* _matches
Matches(rule, facts) ==
    IF rule.match = "ALL" THEN \A q \in rule.predicates : facts[q.fact] = q.expected
    ELSE \E q \in rule.predicates : facts[q.fact] = q.expected

\* evaluate_compiled_protocol
Evaluation(p, facts) ==
    [safe |-> \A f \in Mandatory : facts[f],
     matched |-> {n \in RuleNames : Matches(Rules[p][n], facts)}]

\* Mutant: a failed safety gate blocks an open position too.
ClassifyUnsafe(phase, e) ==
    IF ~e.safe THEN "BLOCKED"
    ELSE IF phase = "OPEN"
    THEN IF ExitRules \cap e.matched # {}
         THEN "CLOSE_CANDIDATE" ELSE "HOLD"
    ELSE IF {"invalidation", "no_trade"} \cap e.matched = {} /\ "entry" \in e.matched
    THEN "ENTRY_CANDIDATE" ELSE "STAND_ASIDE"

\* classify_protocol_decision
Classify(phase, e) ==
    IF phase = "OPEN"
    THEN IF ExitRules \cap e.matched # {}
         THEN "CLOSE_CANDIDATE" ELSE "HOLD"
    ELSE IF ~e.safe THEN "BLOCKED"
    ELSE IF {"invalidation", "no_trade"} \cap e.matched = {} /\ "entry" \in e.matched
    THEN "ENTRY_CANDIDATE" ELSE "STAND_ASIDE"

\* evaluate_experiment_runtime_authority: same says that the authorization is of the compiled
\* experiment, with its source and protocol hashes.
Disposition(phase, decision, same, status, expected) ==
    IF phase = "OPEN"
    THEN IF decision = "CLOSE_CANDIDATE" THEN "OPEN_CLOSE_PRESERVED" ELSE "OPEN_HOLD_PRESERVED"
    ELSE IF /\ decision = "ENTRY_CANDIDATE"
            /\ same
            /\ status.revision = expected
            /\ status.state = "ARMED"
    THEN "ENTRY_SELECTION_ALLOWED" ELSE "ENTRY_BLOCKED"
=============================================================================
