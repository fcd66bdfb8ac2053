---------------------------- MODULE Publication ----------------------------
(***************************************************************************)
(* What is made public of the position book: the competition archive, an      *)
(* append-only chain of records whose sources are hashed again at every use;  *)
(* the submission story, which retells the latest decision from the rows; and *)
(* the performance projection and the windows of an experiment.  A publisher  *)
(* reads in several statements while the book goes on.                        *)
(***************************************************************************)
EXTENDS PositionBook, FiniteSetsExt

CONSTANT MaxRecords   \* bound on archive records

VARIABLES
    archive,      \* CompetitionRecordPublicationRow in the order of published_at
    publisher     \* the position row publish_position has read, under the lane lock

vars == <<book, archive, publisher>>

RecordRow == [kind : {"NO_TRADE", "POSITION"}, subject : Nat, chain : SUBSET Ids,
              reviews : SUBSET DecisionRow, closed : Time, asOf : Time, state : {"OPEN", "CLOSED"}]

PublicationInit == Init /\ archive = <<>> /\ publisher = None

-----------------------------------------------------------------------------
(* The competition archive *)

\* The transitions of a position, and its reviews; historical ones up to a moment.
Transitions(p) == {i \in Approved : Recorded(i) /\ chain[i].transition.position = p}
Reviews(p) == {d \in decisions : d.kind = "REVIEW" /\ d.position = p}
                  \cup {[kind |-> "REVIEW", boundary |-> intents[i].boundary, position |-> p,
                         snapshot |-> intents[i].snapshot] :
                        i \in {j \in Approved : intents[j].action # "ENTRY" /\ intents[j].position = p}}
Through(ids, at) == {i \in ids : chain[i].transition.at <= at}
ReviewsThrough(p, at) == {d \in Reviews(p) : d.boundary <= at}

Last(ids) == CHOOSE i \in ids : \A j \in ids : chain[j].transition.sequence <= chain[i].transition.sequence

\* Mutant: the current snapshot is not compared.
PositionAuthorityUnbound(row, ids) == ids # {}

\* _validate_position_authority: a position row read before a transition was written is not
\* the row of the transitions.
PositionAuthority(row, ids) ==
    /\ ids # {}
    /\ LET last == Last(ids)
       IN  /\ last = row.current
           /\ chain[last].snapshot.fingerprint = row.fingerprint
           /\ row.closed = (IF chain[last].transition.action = "CLOSE" THEN chain[last].transition.at
                            ELSE 0)
    /\ {chain[i].transition.sequence : i \in ids} = 0..(Cardinality(ids) - 1)

\* The source of a record as its hash has it, with what was closed when it was made.
PositionSource(p, ids, reviews, closed) ==
    [subject |-> p, chain |-> ids, reviews |-> reviews, closed |-> closed]

\* _verify_row_source: the sources of a record up to its moment are those it was made of.
RecordHolds(record) ==
    record.kind = "POSITION" =>
        PositionSource(record.subject, record.chain, record.reviews, record.closed)
          = PositionSource(record.subject, Through(Transitions(record.subject), record.asOf),
                           ReviewsThrough(record.subject, record.asOf), record.closed)

\* _verify_chain: publishing and reading both look at every record.
ArchiveHolds == \A n \in DOMAIN archive : RecordHolds(archive[n])

\* Mutant: the moment of a record is that of its last transition.
AsOfTransition(ids, reviews) == chain[Last(ids)].transition.at

\* The moment of a record: of its last reconciliation or its last event.
AsOf(ids, reviews) ==
    LET times == {chain[i].transition.at : i \in ids} \cup {d.boundary : d \in reviews}
    IN  CHOOSE t \in times : \A u \in times : u <= t

\* publish_position reads the row of the position.
PublishBegins(p) ==
    /\ role = "SUBMISSION"
    /\ publisher = None
    /\ Len(archive) < MaxRecords
    /\ publisher' = [position |-> p, row |-> positions[p]]
    /\ UNCHANGED <<book, archive>>

\* The record publish_position would write.
PositionRecord(p, row, ids, reviews) ==
    [kind |-> "POSITION", subject |-> p, chain |-> ids, reviews |-> reviews, closed |-> row.closed,
     asOf |-> AsOf(ids, reviews),
     state |-> IF chain[Last(ids)].transition.action = "CLOSE" THEN "CLOSED" ELSE "OPEN"]

\* The rest of publish_position: the same sources are the same record, a broken archive or a
\* row that does not fit is refused.
PublishEnds ==
    LET p == publisher.position
        ids == Transitions(p)
        reviews == Reviews(p)
        known == \E n \in DOMAIN archive :
                    /\ archive[n].kind = "POSITION"
                    /\ PositionSource(archive[n].subject, archive[n].chain, archive[n].reviews,
                                      archive[n].closed)
                         = PositionSource(p, ids, reviews, publisher.row.closed)
    IN  /\ publisher # None
        /\ archive' = IF PositionAuthority(publisher.row, ids) /\ ~known /\ ArchiveHolds
                      THEN Append(archive, PositionRecord(p, publisher.row, ids, reviews))
                      ELSE archive
        /\ publisher' = None
        /\ UNCHANGED book

\* publish_no_trade: only decisions of the calibration binding are records.
PublishNoTrade(d) ==
    /\ role = "SUBMISSION"
    /\ publisher = None
    /\ Len(archive) < MaxRecords
    /\ d.kind = "CALIBRATION"
    /\ ArchiveHolds
    /\ \A n \in DOMAIN archive : ~(archive[n].kind = "NO_TRADE" /\ archive[n].subject = d.boundary)
    /\ archive' = Append(archive, [kind |-> "NO_TRADE", subject |-> d.boundary, chain |-> {},
                                   reviews |-> {}, closed |-> 0, asOf |-> d.boundary, state |-> "CLOSED"])
    /\ UNCHANGED <<book, publisher>>

-----------------------------------------------------------------------------
(* The submission story *)

\* _latest_decision without a position: the opportunity decision with the latest boundary.
OpportunityDecisions ==
    {[boundary |-> intents[i].boundary, kind |-> "ENTRY", intent |-> i] :
        i \in {j \in Approved : intents[j].action = "ENTRY"}}
      \cup {[boundary |-> d.boundary, kind |-> d.kind, intent |-> 0] :
                d \in {e \in decisions : e.kind # "REVIEW"}}
LatestDecision == CHOOSE d \in OpportunityDecisions : \A e \in OpportunityDecisions : e.boundary <= d.boundary

\* What the order attempts of an execution show, which are BrokerExecution's and may be any
\* of these: none was sent; the last one works or can only be looked up; it has filled in
\* part; it has ended or filled and is not certified; or they are not one line, since one
\* before the last has a fill or a superseded one is the last.
AttemptSigns == {"PREPARED", "WORKING", "LOOKUP_ONLY", "PARTIAL", "ENDED", "BROKEN"}

\* There are attempts to look at.
Attempted(i) == intents[i].state = "WORKING" \/ intents[i].certificate # "NONE"

\* _unterminated_entry_story: an entry without a certificate.
UnterminatedEntryStory(i, shown) ==
    IF intents[i].state = "TERMINAL" THEN "NOT_RECORDED"
    ELSE IF latched THEN "PERMANENTLY_UNSAFE"
    ELSE IF ~Attempted(i) \/ shown = "PREPARED" THEN "NOT_RECORDED"
    ELSE IF shown = "PARTIAL" THEN "PARTIAL_FILL_UNRECONCILED"
    ELSE IF shown = "ENDED" THEN "INCOMPLETE"
    ELSE IF shown = "LOOKUP_ONLY" THEN "ORDER_LOOKUP_ONLY" ELSE "ORDER_WORKING"

\* _entry_story, _terminal_entry_story: an entry without a position.
EntryStory(i, shown) ==
    IF Attempted(i) /\ shown = "BROKEN" THEN "INVALID"
    ELSE CASE intents[i].certificate = "NONE" -> UnterminatedEntryStory(i, shown)
           [] intents[i].certificate = "FILLED" -> "INCOMPLETE"
           [] intents[i].certificate = "PARTIAL" -> IF latched THEN "PARTIAL_FILL_UNSAFE" ELSE "INVALID"
           [] intents[i].certificate = "UNFILLED" -> "ENTRY_UNFILLED"

\* The lifecycle intents of the open inventory that are not transitions.
OpenExits(p) ==
    {i \in Approved : intents[i].action # "ENTRY" /\ intents[i].fingerprint = positions[p].fingerprint
                      /\ ~Recorded(i)}

\* _current_exit_state without a certificate: a fill of the last attempt is not told.
UnterminatedExitStory(i, shown) ==
    IF intents[i].state = "TERMINAL" THEN "INCOMPLETE"
    ELSE IF ~Attempted(i) \/ shown = "PREPARED" THEN "EXIT_NOT_RECORDED"
    ELSE IF shown \in {"PARTIAL", "ENDED"} THEN "INCOMPLETE"
    ELSE IF shown = "LOOKUP_ONLY" THEN "EXIT_LOOKUP_ONLY" ELSE "EXIT_WORKING"

\* Mutant: the state of the intent is looked at before its certificate.
ExitOrderStoryStateFirst(i, shown) ==
    IF Attempted(i) /\ shown = "BROKEN" THEN "INVALID"
    ELSE IF intents[i].state = "TERMINAL" \/ intents[i].certificate = "NONE"
    THEN UnterminatedExitStory(i, shown)
    ELSE IF intents[i].certificate = "UNFILLED" THEN "EXIT_UNFILLED" ELSE "INCOMPLETE"

\* _current_exit_state of the one exit there is; a partial fill has latched the account
\* before, and is not told here.
ExitOrderStory(i, shown) ==
    IF Attempted(i) /\ shown = "BROKEN" THEN "INVALID"
    ELSE CASE intents[i].certificate = "NONE" -> UnterminatedExitStory(i, shown)
           [] intents[i].certificate = "FILLED" -> "INCOMPLETE"
           [] intents[i].certificate = "PARTIAL" -> "INVALID"
           [] intents[i].certificate = "UNFILLED" -> "EXIT_UNFILLED"

\* _current_exit_state: one exit can be told, two are ambiguous.
ExitStory(p, shown) ==
    LET exits == OpenExits(p)
    IN  IF exits = {} THEN "OPEN"
        ELSE IF Cardinality(exits) > 1 THEN "AMBIGUOUS"
        ELSE ExitOrderStory(CHOOSE i \in exits : TRUE, shown)

\* _validate_position_timeline: every review lies between the entry and the close.
TimelineValid(p) ==
    \A d \in Reviews(p) :
        /\ chain[positions[p].entry].transition.at <= d.boundary
        /\ positions[p].closed = 0 \/ d.boundary < positions[p].closed

PositionStory(p, shown) ==
    IF ~PositionAuthority(positions[p], Transitions(p)) THEN "INVALID"
    ELSE IF ~TimelineValid(p) THEN "INVALID"
    ELSE IF latched THEN "PERMANENTLY_UNSAFE"
    ELSE IF positions[p].closed # 0 THEN "CLOSED"
    ELSE ExitStory(p, shown)

\* The typed result of a calibration decision is not the empty one the story asks for.
NoTradeStory(kind) == IF kind = "CALIBRATION" THEN "INVALID" ELSE "NO_TRADE"

\* latest: the newest position, or else the newest decision; and what the attempts of its
\* execution show.
Story(shown) ==
    IF positions # <<>> THEN PositionStory(Len(positions), shown)
    ELSE IF OpportunityDecisions = {} THEN "MISSING"
    ELSE IF LatestDecision.kind = "ENTRY" THEN EntryStory(LatestDecision.intent, shown)
    ELSE NoTradeStory(LatestDecision.kind)

-----------------------------------------------------------------------------
(* The performance projection and the windows *)

\* _transition_evidence: the decision was before its fill, the intent is the one that filled.
TransitionEvidence(i) ==
    /\ intents[i].certificate = "FILLED"
    /\ chain[i].transition.action = intents[i].action
    /\ intents[i].boundary <= chain[i].transition.at

\* _apply_activity: the legs after the transitions up to i, from the activity of each.
Legs(p, i) ==
    {j \in Transitions(p) :
        /\ chain[j].transition.sequence <= chain[i].transition.sequence
        /\ intents[j].action # "CLOSE"
        /\ ~\E k \in Transitions(p) : /\ chain[k].transition.sequence <= chain[i].transition.sequence
                                      /\ intents[k].action # "ENTRY" /\ intents[k].fingerprint = j}

Before(p, i) == {j \in Transitions(p) : chain[j].transition.sequence < chain[i].transition.sequence}
SumOfCash(ids) == MapThenSumSet(LAMBDA i : chain[i].transition.cash, ids)

\* _position_evidence and _validate_position: one chain of filled executions from the entry,
\* each with the inventory and the cash that its activity leaves, closed as the row says.
PositionEvidence(p) ==
    LET ids == Transitions(p)
    IN  /\ PositionAuthority(positions[p], ids)
        /\ \A i \in ids :
              LET before == Before(p, i)
                  last == Last(before)
              IN  /\ TransitionEvidence(i)
                  /\ \/ before = {} /\ chain[i].transition.predecessor = 0 /\ positions[p].entry = i
                     \/ /\ before # {} /\ chain[i].transition.predecessor = last
                        /\ chain[last].transition.at <= chain[i].transition.at
                        /\ chain[last].transition.action # "CLOSE"
                  /\ Legs(p, i) = {chain[i].snapshot.fingerprint} \ {0}
                  /\ chain[i].snapshot.cumulative = SumOfCash(before \cup {i})

\* _validate_position_order: one position after the other.
PositionOrder ==
    \A p \in DOMAIN positions : p > 1 =>
        /\ positions[p - 1].closed # 0
        /\ positions[p - 1].closed <= chain[positions[p].entry].transition.at

\* project_experiment_performance: the realized result of every closed position, or refused.
Projection ==
    IF PositionOrder /\ \A p \in DOMAIN positions : PositionEvidence(p)
    THEN [state |-> IF positions = <<>> THEN "NO_POSITION"
                    ELSE IF positions[Len(positions)].closed = 0 THEN "OPEN" ELSE "CLOSED",
          pnl |-> [p \in {q \in DOMAIN positions : positions[q].closed # 0} |-> SumOfCash(Transitions(p))]]
    ELSE [state |-> "REFUSED", pnl |-> <<>>]

\* _lifecycle of the window an entry was decided in: open, or closed with the cash of the
\* snapshot that closed it.
WindowLifecycle(i) ==
    LET p == CHOOSE q \in DOMAIN positions : positions[q].entry = i
        close == {j \in Transitions(p) : chain[j].transition.action = "CLOSE"}
    IN  IF ~\E q \in DOMAIN positions : positions[q].entry = i THEN [status |-> "NONE", pnl |-> 0]
        ELSE IF positions[p].closed = 0 THEN [status |-> "OPEN", pnl |-> 0]
        ELSE [status |-> "CLOSED", pnl |-> chain[Last(close)].snapshot.cumulative]

-----------------------------------------------------------------------------

Next ==
    \/ BookNext /\ UNCHANGED <<archive, publisher>>
    \/ \E p \in DOMAIN positions : PublishBegins(p)
    \/ PublishEnds
    \/ \E d \in decisions : PublishNoTrade(d)

Spec == PublicationInit /\ [][Next]_vars

-----------------------------------------------------------------------------
(* Properties *)

Filled(i) == intents[i].certificate = "FILLED"

\* The reasons for which a fill can never be a transition: it was finalized outside of a
\* market session, or of the session of its review; the account had traded before the entry;
\* another execution was finalized between the snapshot and it, even one that did not fill;
\* or its run had begun before the snapshot it reviewed was accepted.
OutOfSession(i) ==
    LET s == states[StateOf(i)]
    IN  IF intents[i].action = "ENTRY" THEN ~InSession(s.phase) ELSE s.phase # intents[i].session
TradedBefore(i) == intents[i].action = "ENTRY" /\ states[StateOf(i)].filled # {i}
Overtaken(i) ==
    intents[i].action # "ENTRY" /\ StateOf(i) # chain[intents[i].snapshot].snapshot.state + 1
BegunBefore(i) ==
    intents[i].action # "ENTRY" /\ intents[i].boundary < chain[intents[i].snapshot].transition.at

\* A fill that is not recorded can be recorded now, by the materializer that recovery calls,
\* or it falls under one of four reasons; and a fill under a reason is never recorded.
FillsAreRecordable ==
    \A i \in Approved : Filled(i) =>
        LET lost == OutOfSession(i) \/ TradedBefore(i) \/ Overtaken(i) \/ BegunBefore(i)
        IN  IF lost THEN ~Recorded(i)
            ELSE \/ Recorded(i)
                 \/ intents[i].action = "ENTRY" /\ EntryLineage(i) /\ OpenPositions = {}
                 \/ intents[i].action # "ENTRY" /\ \E p \in OpenPositions : TerminalLineage(i, p)

\* The book is what was traded: when every fill is recorded the open positions are the legs
\* at the broker, and what a closed position is reported to have earned is the cash of every
\* order that was ever filled for it; and in one session one roll fills at most.
BookMatchesBroker ==
    /\ (\A i \in Approved : Filled(i) => Recorded(i)) =>
          held = {positions[p].fingerprint : p \in OpenPositions}
    /\ \A p \in DOMAIN positions : positions[p].closed # 0 =>
          WindowLifecycle(positions[p].entry).pnl =
              MapThenSumSet(LAMBDA i : Cash[i],
                  {i \in Approved : Filled(i) /\ (i = positions[p].entry \/ intents[i].position = p)})
    /\ \A i, j \in Approved :
          /\ intents[i].action = "ROLL" /\ intents[j].action = "ROLL" /\ Filled(i) /\ Filled(j)
          /\ intents[i].session = intents[j].session
          => i = j

\* What the materializers write satisfies the checks of the archive, of the windows and of
\* project_experiment_performance: every position is one chain of fills that the projection
\* accepts, with one result for a closed one, closed for the projection and the windows
\* alike, and a record is of a closed position if and only if its last transition left
\* nothing.
ReadersAccept ==
    /\ Projection.state # "REFUSED"
    /\ \A p \in DOMAIN Projection.pnl :
          Projection.pnl[p] = WindowLifecycle(positions[p].entry).pnl
    /\ \A p \in DOMAIN positions :
          (positions[p].closed = 0) = (WindowLifecycle(positions[p].entry).status = "OPEN")
    /\ \A n \in DOMAIN archive : archive[n].kind = "POSITION" =>
          LET last == chain[Last(archive[n].chain)]
          IN  /\ (archive[n].state = "CLOSED") = (last.transition.action = "CLOSE")
              /\ (archive[n].closed # 0) = (last.snapshot.fingerprint = 0)

\* The archive is readable for good, but for one case: a review was stored after a record of
\* its position, with a boundary no later than the record's.
ArchiveBreaksOnlyByLateReview ==
    \A n \in DOMAIN archive : ~RecordHolds(archive[n]) =>
        /\ Through(Transitions(archive[n].subject), archive[n].asOf) = archive[n].chain
        /\ ReviewsThrough(archive[n].subject, archive[n].asOf) \ archive[n].reviews # {}

\* An order that is not certified yet has ended, or filled in part and is of an exit.
EndedUncertified(i, shown) ==
    /\ intents[i].state = "WORKING"
    /\ \/ shown = "ENDED"
       \/ shown = "PARTIAL" /\ intents[i].action # "ENTRY"

\* The story can be told, whatever the attempts of the execution show, but for these: nothing
\* was decided; the decision was of the calibration binding; a fill is not recorded; an order
\* has ended, or an exit has begun to fill, and there is no certificate yet; the attempts of
\* an execution are not one line; an exit was given up by the operator, or is the second one
\* for the inventory; or a run reviewed the position with a boundary before its entry was
\* accepted.
StoryCanBeTold ==
    \A shown \in AttemptSigns :
    LET story == Story(shown)
    IN
    role = "SUBMISSION" /\ story \in {"MISSING", "INVALID", "INCOMPLETE", "AMBIGUOUS"} =>
        \/ intents = <<>> /\ \A d \in decisions : d.kind # "NO_TRADE"
        \/ \E d \in decisions : d.kind = "CALIBRATION" /\ story = "INVALID" /\ positions = <<>>
        \/ \E i \in Approved : Filled(i) /\ ~Recorded(i)
        \/ \E i \in Approved : EndedUncertified(i, shown)
        \/ \E i \in Approved : shown = "BROKEN" /\ Attempted(i) /\ ~Recorded(i)
        \/ \E i \in Approved : /\ intents[i].state = "TERMINAL" /\ intents[i].certificate = "NONE"
                               /\ intents[i].action # "ENTRY"
        \/ \E i, j \in Approved : /\ i # j /\ intents[i].action # "ENTRY" /\ intents[j].action # "ENTRY"
                                  /\ intents[i].fingerprint = intents[j].fingerprint
        \/ \E p \in DOMAIN positions, d \in UNION {Reviews(q) : q \in DOMAIN positions} :
              d.position = p /\ d.boundary < chain[positions[p].entry].transition.at
=============================================================================
