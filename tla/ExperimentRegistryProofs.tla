---------------------- MODULE ExperimentRegistryProofs ----------------------
(***************************************************************************)
(* OneArmedAndExplained, AnswersAreCommitted, InvalidOnlyByRace and           *)
(* VerdictsFollowAuthority hold for any number of experiments and of owners,  *)
(* for every set of curations, protocols and rules, and for any number of      *)
(* revisions.                                                                *)
(*                                                                         *)
(* The invariant says of a request under way that the row it was checked      *)
(* against is still there, because it holds the lock or the keys decide, and  *)
(* of a reader between its two statements that what it has read was committed. *)
(***************************************************************************)
EXTENDS ExperimentRegistry, SequenceTheorems, TLAPS

Types ==
    /\ definition \in [Experiments -> Curation \cup {None}]
    /\ \A e \in Experiments : definition[e] \in DefinitionRow(e) \cup {None}
    /\ compiled \in [Experiments -> CompiledRow \cup {None}]
    /\ arm \in [Experiments -> ArmRow \cup {None}]
    /\ events \in [Experiments -> Seq(ArmEvent)]
    /\ clock \in 0..MaxClock
    /\ txn \in [Clients -> Txn \cup {None}]
    /\ locked \in [Experiments -> Clients \cup {None}]
    /\ answer \in [Clients -> Answer]
    /\ reading \in [Readers -> Reading \cup {None}]
    /\ \A c \in Clients : answer[c].kind = "status" => answer[c].e \in Experiments

\* The row of an experiment is the one its events explain.
Told(trail, row) == IF row = None THEN trail = <<>> ELSE Explains(trail, row)

\* A request that goes on was checked against the row it loaded, and that row stays as it is:
\* if there was one, the request holds its lock, and if there was none the keys decide.
RequestOK(c, t, rowof, lockof) ==
    t.phase \in {"checking", "writing"} =>
        /\ t.row = None => t.action = "ARM"
        /\ t.row # None => /\ lockof[t.e] = c /\ rowof[t.e] = t.row
                           /\ t.row.state # TargetState(t.action) /\ t.row.at <= t.at

\* The change a revision of a trail stands for.
Committed(trail, revision, state) ==
    /\ revision \in 1..Len(trail)
    /\ TargetState(trail[revision].action) = state

\* A reading that nothing overtook still agrees with the row; a status that was read and says
\* ARMED or DISARMED is of a committed revision; a client reads for its refused request.
ReadingOK(x, r) ==
    /\ ~r.raced /\ ~r.done => r.row = arm[r.e]
    /\ ~r.raced /\ r.done => r.status # None
    /\ r.status # None /\ r.status.state # "NOT_ARMED" => 
          Committed(events[r.e], r.status.revision, r.status.state)
    /\ x \in Clients => /\ txn[x] # None /\ txn[x].phase = "refused" /\ txn[x].e = r.e
                        /\ ~r.done /\ r.status = None

RequestsSound == \A c \in Clients : txn[c] # None => RequestOK(c, txn[c], arm, locked)
ReadingsSound == \A x \in Readers : reading[x] # None => ReadingOK(x, reading[x])

IInv == Types /\ OneArmedAndExplained /\ RequestsSound /\ AnswersAreCommitted /\ ReadingsSound

-----------------------------------------------------------------------------
(* The trail of an experiment *)

\* ARM and DISARM take turns with the parity of the revision.
LEMMA Parity ==
    ASSUME NEW n \in Nat PROVE (n % 2 = 1) <=> ~((n + 1) % 2 = 1)
OBVIOUS

\* A row is its last event.
LEMMA LastIsCommitted ==
    ASSUME NEW trail \in Seq(ArmEvent), NEW row \in ArmRow, Explains(trail, row)
    PROVE  Committed(trail, row.revision, row.state)
<1>1. Len(trail) \in Nat /\ row.revision \in 1..MaxRevision
    BY LenProperties DEF ArmRow
<1> QED
    BY <1>1, RegistryAssumption DEF Explains, Committed

\* The other change, not earlier, extends a trail; the first one is an ARM.
LEMMA AppendExplains ==
    ASSUME NEW trail \in Seq(ArmEvent), NEW row \in ArmRow \cup {None}, Told(trail, row),
           NEW action \in {"ARM", "DISARM"}, NEW at \in 0..MaxClock,
           Revision(row) < MaxRevision,
           row = None => action = "ARM",
           row # None => row.state # TargetState(action) /\ row.at <= at
    PROVE  /\ [revision |-> Revision(row) + 1, state |-> TargetState(action), at |-> at] \in ArmRow
           /\ Append(trail, [action |-> action, at |-> at]) \in Seq(ArmEvent)
           /\ Explains(Append(trail, [action |-> action, at |-> at]),
                       [revision |-> Revision(row) + 1, state |-> TargetState(action), at |-> at])
<1> DEFINE n == Len(trail)
           ev == [action |-> action, at |-> at]
           new == Append(trail, ev)
           after == [revision |-> Revision(row) + 1, state |-> TargetState(action), at |-> at]
<1>1. ev \in ArmEvent /\ ev.action = action /\ ev.at = at
    BY DEF ArmEvent
<1>2. n \in Nat /\ Revision(row) = n
    BY LenProperties, NoneAssumption DEF Told, Explains, Revision, ArmRow
<1>3. after \in ArmRow /\ after.revision = n + 1 /\ after.state = TargetState(action) /\ after.at = at
    BY <1>2, RegistryAssumption DEF ArmRow, TargetState
<1> HIDE DEF ev
<1>4. /\ new \in Seq(ArmEvent) /\ Len(new) = n + 1
      /\ \A i \in 1..n : new[i] = trail[i]
      /\ new[n + 1] = ev
    BY <1>1, AppendProperties
<1>5. ASSUME row = None PROVE Explains(new, after)
  <2>1. n = 0 /\ action = "ARM"
    BY <1>5 DEF Told
  <2>2. 1 % 2 = 1
    OBVIOUS
  <2> HIDE DEF new, after
  <2> QED
    BY <1>1, <1>3, <1>4, <2>1, <2>2 DEF Explains, ev
<1>6. ASSUME row # None PROVE Explains(new, after)
  <2>1. row \in ArmRow /\ Explains(trail, row) /\ n >= 1
    BY <1>2, <1>6 DEF Told, Revision, ArmRow
  <2>2. trail[n] \in ArmEvent /\ trail[n].action \in {"ARM", "DISARM"}
    <3>1. n \in 1..Len(trail)
      BY <1>2, <2>1
    <3>2. trail[n] \in ArmEvent
      BY <3>1, ElementOfSeq
    <3> QED
      BY <3>2 DEF ArmEvent
  <2>3. /\ trail[n].action = IF n % 2 = 1 THEN "ARM" ELSE "DISARM"
        /\ row.state = TargetState(trail[n].action) /\ row.at = trail[n].at
    BY <1>2, <2>1 DEF Explains
  <2>4. trail[n].action # action
    BY <1>6, <2>3
  <2>5. action = IF (n + 1) % 2 = 1 THEN "ARM" ELSE "DISARM"
    BY <1>2, <2>2, <2>3, <2>4, Parity
  <2> HIDE DEF new, after
  <2>6. ASSUME NEW i \in 1..(n + 1)
        PROVE  /\ new[i].action = IF i % 2 = 1 THEN "ARM" ELSE "DISARM"
               /\ i > 1 => new[i - 1].at <= new[i].at
    <3>1. CASE i \in 1..n
      <4>1. new[i] = trail[i] /\ (i > 1 => new[i - 1] = trail[i - 1])
        BY <1>2, <1>4, <3>1
      <4> QED
        BY <1>2, <2>1, <3>1, <4>1 DEF Explains
    <3>2. CASE i = n + 1
      <4>1. i - 1 = n /\ new[n] = trail[n] /\ new[i] = ev
        BY <1>2, <1>4, <2>1, <3>2
      <4>2. trail[n].at <= ev.at
        BY <1>1, <1>6, <2>3
      <4> QED
        BY <1>1, <2>5, <3>2, <4>1, <4>2
    <3> QED
      BY <1>2, <3>1, <3>2
  <2> QED
    BY <1>1, <1>2, <1>3, <1>4, <2>6 DEF Explains
<1> QED
    BY <1>3, <1>4, <1>5, <1>6 DEF ev

\* A reading that agrees with the row gives a status, and a status that says more than
\* NOT_ARMED is of a committed revision.
LEMMA StatusReadSound ==
    ASSUME IInv, NEW r \in Reading
    PROVE  /\ StatusRead(r) \in Status \cup {None}
           /\ r.row = arm[r.e] => StatusRead(r) # None
           /\ StatusRead(r) # None =>
                 \/ StatusRead(r).state = "NOT_ARMED"
                 \/ /\ r.row # None /\ StatusRead(r).state = r.row.state
                    /\ StatusRead(r).revision = r.row.revision
                    /\ Committed(events[r.e], r.row.revision, r.row.state)
<1>1. r.e \in Experiments /\ r.row \in ArmRow \cup {None} /\ Types
    BY DEF Reading, IInv
<1>2. Told(events[r.e], arm[r.e])
    BY <1>1 DEF IInv, OneArmedAndExplained, Told
<1>3. CASE r.row = None
  <2>1. [revision |-> 0, state |-> "NOT_ARMED"] \in Status
    BY RegistryAssumption DEF Status, States
  <2> QED
    BY <1>2, <1>3, <2>1, NoneAssumption DEF StatusRead, Told
<1>4. CASE r.row # None
  <2>1. r.row \in ArmRow
    BY <1>1, <1>4
  <2>2. [revision |-> r.row.revision, state |-> r.row.state] \in Status
    BY <2>1, RegistryAssumption DEF Status, States, ArmRow
  <2>3. Explains(events[r.e], r.row) => Committed(events[r.e], r.row.revision, r.row.state)
    BY <1>1, <2>1, LastIsCommitted DEF Types
  <2> QED
    BY <1>2, <1>4, <2>2, <2>3, NoneAssumption DEF StatusRead, Told
<1> QED
    BY <1>3, <1>4

-----------------------------------------------------------------------------
(* Every step preserves the invariant *)

\* A step that leaves the authorizations, the requests and the readings alone keeps the
\* invariant if it keeps the types.
LEMMA ElsewhereInv ==
    ASSUME IInv, Types', UNCHANGED <<arm, events, txn, locked, answer, reading>> PROVE IInv'
BY DEF IInv, OneArmedAndExplained, RequestsSound, RequestOK, AnswersAreCommitted, ReadingsSound,
       ReadingOK, Committed, Explains

\* The clock, a new experiment or a compiled one.
LEMMA QuietInv ==
    ASSUME IInv,
           \/ Tick
           \/ \E e \in Experiments : \/ \E c \in CurationsOf[e] : Create(e, c)
                                    \/ \E request \in Requests : Compile(e, request)
    PROVE  IInv'
<1> USE DEF rows, requests
<1>0. Types
    BY DEF IInv
<1>1. CASE Tick
  <2>1. Types'
    BY <1>0, <1>1, RegistryAssumption DEF Types, Tick
  <2> QED
    BY <1>1, <2>1, ElsewhereInv DEF Tick
<1>2. ASSUME NEW e \in Experiments, NEW c \in CurationsOf[e], Create(e, c) PROVE IInv'
  <2>1. c \in Curation
    BY RegistryAssumption
  <2>2. Types'
    BY <1>0, <1>2, <2>1 DEF Types, Create, DefinitionRow
  <2> QED
    BY <1>2, <2>2, ElsewhereInv DEF Create
<1>3. ASSUME NEW e \in Experiments, NEW request \in Requests, Compile(e, request) PROVE IInv'
  <2>1. request.protocol \in CompiledRow
    BY RegistryAssumption DEF CompiledRow
  <2>2. Types'
    BY <1>0, <1>3, <2>1 DEF Types, Compile
  <2> QED
    BY <1>3, <2>2, ElsewhereInv DEF Compile
<1> QED
    BY <1>1, <1>2, <1>3

\* What Reply does to the requests, the locks and the answers.
LEMMA ReplyFacts ==
    ASSUME Types, NEW c \in Clients, txn[c] \in Txn, NEW row \in ArmRow \cup {None},
           NEW kind \in {"status", "conflict", "not_armed", "write_failed"}, NEW wrote \in BOOLEAN,
           Reply(c, kind, row, wrote)
    PROVE  /\ txn' \in [Clients -> Txn \cup {None}]
           /\ locked' \in [Experiments -> Clients \cup {None}]
           /\ answer' \in [Clients -> Answer]
           /\ txn'[c] = None
           /\ \A d \in Clients : d # c => txn'[d] = txn[d] /\ answer'[d] = answer[d]
           /\ \A e \in Experiments : locked[e] # c => locked'[e] = locked[e]
           /\ answer'[c].kind = kind /\ answer'[c].e = txn[c].e
           /\ answer'[c].revision = Revision(row)
           /\ row # None => answer'[c].state = row.state
<1> DEFINE a == [kind |-> kind, revision |-> Revision(row), wrote |-> wrote, e |-> txn[c].e,
                 state |-> IF row = None THEN "NOT_ARMED" ELSE row.state]
<1>1. Revision(row) \in 0..MaxRevision
    BY RegistryAssumption DEF Revision, ArmRow
<1>2. (IF row = None THEN "NOT_ARMED" ELSE row.state) \in States /\ txn[c].e \in Experiments
    BY DEF ArmRow, States, Txn
<1>3. a \in Answer /\ a.kind = kind /\ a.e = txn[c].e /\ a.revision = Revision(row)
      /\ (row # None => a.state = row.state)
    BY <1>1, <1>2 DEF Answer
<1>4. answer' = [answer EXCEPT ![c] = a]
    BY DEF Reply
<1> HIDE DEF a
<1>5. answer' \in [Clients -> Answer] /\ answer'[c] = a /\ \A d \in Clients : d # c => answer'[d] = answer[d]
    BY <1>3, <1>4 DEF Types
<1>6. /\ txn' \in [Clients -> Txn \cup {None}] /\ txn'[c] = None
      /\ \A d \in Clients : d # c => txn'[d] = txn[d]
    BY DEF Types, Reply
<1>7. /\ locked' \in [Experiments -> Clients \cup {None}]
      /\ \A e \in Experiments : locked[e] # c => locked'[e] = locked[e]
    BY DEF Types, Reply
<1> QED
    BY <1>3, <1>5, <1>6, <1>7

\* A request that ends without a change keeps the invariant if what it is told is committed.
LEMMA ReplyInv ==
    ASSUME IInv, NEW c \in Clients, txn[c] \in Txn, NEW row \in ArmRow \cup {None},
           NEW kind \in {"status", "conflict", "not_armed", "write_failed"},
           Reply(c, kind, row, FALSE),
           kind = "status" => row # None /\ Committed(events[txn[c].e], row.revision, row.state),
           UNCHANGED <<rows, clock>>, reading' \in [Readers -> Reading \cup {None}],
           reading'[c] = None, \A x \in Readers : x # c => reading'[x] = reading[x]
    PROVE  IInv'
<1> USE DEF rows
<1>1. /\ txn' \in [Clients -> Txn \cup {None}]
      /\ locked' \in [Experiments -> Clients \cup {None}]
      /\ answer' \in [Clients -> Answer]
      /\ txn'[c] = None
      /\ \A d \in Clients : d # c => txn'[d] = txn[d] /\ answer'[d] = answer[d]
      /\ \A e \in Experiments : locked[e] # c => locked'[e] = locked[e]
      /\ answer'[c].kind = kind /\ answer'[c].e = txn[c].e
      /\ answer'[c].revision = Revision(row)
      /\ row # None => answer'[c].state = row.state
    BY ReplyFacts DEF IInv
<1>2. Types'
  <2>1. txn[c].e \in Experiments
    BY DEF Txn
  <2> QED
    BY <1>1, <2>1 DEF IInv, Types
<1>3. OneArmedAndExplained'
    BY DEF IInv, OneArmedAndExplained, Explains
<1>4. RequestsSound'
  <2> SUFFICES ASSUME NEW d \in Clients, txn'[d] # None PROVE RequestOK(d, txn'[d], arm', locked')
    BY DEF RequestsSound
  <2>1. d # c /\ txn'[d] = txn[d] /\ RequestOK(d, txn[d], arm, locked) /\ txn[d] \in Txn
    BY <1>1 DEF IInv, RequestsSound, Types
  <2>2. txn[d].e \in Experiments
    BY <2>1 DEF Txn
  <2> QED
    BY <1>1, <2>1, <2>2 DEF RequestOK
<1>5. AnswersAreCommitted'
  <2>1. kind = "status" => Committed(events[answer'[c].e], answer'[c].revision, answer'[c].state)
    BY <1>1 DEF Revision
  <2> QED
    BY <1>1, <2>1 DEF IInv, AnswersAreCommitted, Committed
<1>6. ReadingsSound'
  <2> SUFFICES ASSUME NEW x \in Readers, reading'[x] # None PROVE ReadingOK(x, reading[x])'
    BY DEF ReadingsSound
  <2>1. x # c /\ reading'[x] = reading[x] /\ ReadingOK(x, reading[x])
    BY DEF IInv, ReadingsSound
  <2> QED
    BY <1>1, <2>1 DEF ReadingOK, Committed
<1> QED
    BY <1>2, <1>3, <1>4, <1>5, <1>6 DEF IInv

\* A request that goes on keeps the invariant if what it becomes is sound and no other lock is
\* touched.
LEMMA MoveInv ==
    ASSUME IInv, NEW c \in Clients, NEW t \in Txn, txn' = [txn EXCEPT ![c] = t],
           locked' \in [Experiments -> Clients \cup {None}],
           \A e \in Experiments : locked[e] \notin {c, None} => locked'[e] = locked[e],
           RequestOK(c, t, arm', locked'), reading[c] = None,
           answer' = answer \/ answer' = [answer EXCEPT ![c] = NoAnswer],
           UNCHANGED <<rows, clock, reading>>
    PROVE  IInv'
<1> USE DEF rows
<1>0. Types
    BY DEF IInv
<1>1. /\ txn' \in [Clients -> Txn \cup {None}] /\ txn'[c] = t
      /\ \A d \in Clients : d # c => txn'[d] = txn[d]
    BY <1>0 DEF Types
<1>2. /\ answer' \in [Clients -> Answer]
      /\ \A d \in Clients : answer'[d] = answer[d] \/ answer'[d].kind = "none"
  <2>1. NoAnswer \in Answer /\ NoAnswer.kind = "none"
    BY RegistryAssumption DEF NoAnswer, Answer, States
  <2> QED
    BY <1>0, <2>1 DEF Types
<1>3. Types'
    BY <1>0, <1>1, <1>2 DEF Types
<1>4. OneArmedAndExplained'
    BY DEF IInv, OneArmedAndExplained, Explains
<1>5. RequestsSound'
  <2> SUFFICES ASSUME NEW d \in Clients, txn'[d] # None, d # c PROVE RequestOK(d, txn'[d], arm', locked')
    BY <1>1 DEF RequestsSound, RequestOK
  <2>1. txn'[d] = txn[d] /\ RequestOK(d, txn[d], arm, locked) /\ txn[d] \in Txn
    BY <1>0, <1>1 DEF IInv, RequestsSound, Types
  <2>2. txn[d].e \in Experiments /\ d # None
    BY <2>1, NoneAssumption DEF Txn
  <2> QED
    BY <2>1, <2>2 DEF RequestOK
<1>6. AnswersAreCommitted'
    BY <1>2 DEF IInv, AnswersAreCommitted
<1>7. ReadingsSound'
  <2> SUFFICES ASSUME NEW x \in Readers, reading'[x] # None PROVE ReadingOK(x, reading[x])'
    BY DEF ReadingsSound
  <2>1. x # c /\ ReadingOK(x, reading[x])
    BY DEF IInv, ReadingsSound
  <2> QED
    BY <1>1, <2>1 DEF ReadingOK, Committed
<1> QED
    BY <1>3, <1>4, <1>5, <1>6, <1>7 DEF IInv

\* A request of the owner begins.
LEMMA AskInv ==
    ASSUME IInv, NEW c \in Clients, NEW e \in Experiments, NEW action \in {"ARM", "DISARM"},
           NEW expected \in 0..MaxRevision, Ask(c, e, action, expected)
    PROVE  IInv'
<1> DEFINE t == [phase |-> "asked", e |-> e, action |-> action, expected |-> expected,
                 at |-> clock, row |-> None]
<1>1. t \in Txn /\ RequestOK(c, t, arm', locked')
    BY DEF IInv, Types, Txn, RequestOK
<1>2. txn' = [txn EXCEPT ![c] = t] /\ answer' = [answer EXCEPT ![c] = NoAnswer]
      /\ UNCHANGED <<rows, clock, locked, reading>> /\ reading[c] = None
    BY DEF Ask
<1> HIDE DEF t
<1> QED
    BY <1>1, <1>2, MoveInv DEF IInv, Types

\* A client that is in a request that was not refused reads nothing.
LEMMA NotReading ==
    ASSUME IInv, NEW c \in Clients, txn[c] # None => txn[c].phase # "refused"
    PROVE  reading[c] = None
BY DEF IInv, ReadingsSound, ReadingOK, Readers

\* The request is checked against the row, under its lock.
LEMMA LoadInv ==
    ASSUME IInv, NEW c \in Clients, Load(c) PROVE IInv'
<1> DEFINE t == txn[c]
           row == arm[t.e]
<1>0. /\ t \in Txn /\ t.phase = "asked" /\ t.e \in Experiments /\ locked[t.e] = None
      /\ t.action \in {"ARM", "DISARM"} /\ t.at \in 0..MaxClock
      /\ row \in ArmRow \cup {None} /\ UNCHANGED <<rows, clock, reading>> /\ Types
    BY DEF Load, IInv, Types, Txn
<1>1. reading[c] = None /\ c \in Readers /\ reading' \in [Readers -> Reading \cup {None}]
    BY <1>0, NotReading DEF Readers, Types
<1>2. CASE IsRetry(t, row) /\ Reply(c, "status", row, FALSE)
  <2>1. row \in ArmRow /\ Explains(events[t.e], row)
    BY <1>0, <1>2 DEF IsRetry, IInv, OneArmedAndExplained
  <2>2. row # None /\ Committed(events[t.e], row.revision, row.state)
    BY <1>0, <2>1, LastIsCommitted, NoneAssumption DEF Types
  <2> HIDE DEF t, row
  <2> QED
    BY <1>0, <1>1, <1>2, <2>2, ReplyInv DEF t
<1>3. CASE Reply(c, "conflict", row, FALSE) \/ Reply(c, "not_armed", row, FALSE)
    BY <1>0, <1>1, <1>3, ReplyInv
<1>4. CASE /\ ~IsRetry(t, row) /\ ~Refuses(t, row)
           /\ t.action = "ARM" \/ row # None
           /\ txn' = [txn EXCEPT ![c].row = row,
                          ![c].phase = IF t.action = "ARM" THEN "checking" ELSE "writing"]
           /\ locked' = [locked EXCEPT ![t.e] = IF row = None THEN None ELSE c]
           /\ UNCHANGED answer
  <2> DEFINE u == [t EXCEPT !.row = row, !.phase = IF t.action = "ARM" THEN "checking" ELSE "writing"]
  <2>1. txn' = [txn EXCEPT ![c] = u]
    BY <1>0, <1>4 DEF Types
  <2>2. /\ u \in Txn /\ u.row = row /\ u.e = t.e /\ u.action = t.action /\ u.at = t.at
    BY <1>0 DEF Txn
  <2>3. /\ row # None => row.state # TargetState(t.action) /\ row.at <= t.at
        /\ row = None => t.action = "ARM"
    BY <1>0, <1>4 DEF IsRetry, Refuses, ArmRow
  <2>4. /\ locked' \in [Experiments -> Clients \cup {None}]
        /\ \A e \in Experiments : locked[e] \notin {c, None} => locked'[e] = locked[e]
        /\ row # None => locked'[t.e] = c
    BY <1>0, <1>4 DEF Types
  <2>5. arm' = arm
    BY <1>0 DEF rows
  <2> HIDE DEF u
  <2>6. RequestOK(c, u, arm', locked')
    BY <2>1, <2>2, <2>3, <2>4, <2>5 DEF RequestOK, u
  <2> HIDE DEF t, row
  <2> QED
    BY <1>0, <1>1, <1>4, <2>1, <2>2, <2>4, <2>6, MoveInv
<1> QED
    BY <1>2, <1>3, <1>4 DEF Load

\* The other armed experiment is looked for.
LEMMA CheckOtherInv ==
    ASSUME IInv, NEW c \in Clients, CheckOther(c) PROVE IInv'
<1> DEFINE t == txn[c]
           u == [t EXCEPT !.phase = "writing"]
<1>0. /\ t \in Txn /\ t # None /\ t.phase = "checking" /\ t.row \in ArmRow \cup {None}
      /\ UNCHANGED <<rows, clock, reading>> /\ Types
    BY DEF CheckOther, IInv, Types, Txn
<1>1. reading[c] = None /\ c \in Readers /\ reading' \in [Readers -> Reading \cup {None}]
    BY <1>0, NotReading DEF Readers, Types
<1>2. CASE Reply(c, "conflict", t.row, FALSE)
    BY <1>0, <1>1, <1>2, ReplyInv
<1>3. CASE txn' = [txn EXCEPT ![c].phase = "writing"] /\ UNCHANGED <<locked, answer>>
  <2>1. txn' = [txn EXCEPT ![c] = u]
    BY <1>0, <1>3 DEF Types
  <2>2. u \in Txn /\ u.row = t.row /\ u.e = t.e /\ u.action = t.action /\ u.at = t.at
    BY <1>0 DEF Txn
  <2>3. RequestOK(c, t, arm, locked) /\ arm' = arm
    BY <1>0 DEF IInv, RequestsSound, rows
  <2> HIDE DEF u
  <2>4. RequestOK(c, u, arm', locked')
    BY <1>0, <1>3, <2>1, <2>2, <2>3 DEF RequestOK
  <2> HIDE DEF t
  <2> QED
    BY <1>0, <1>1, <1>3, <2>1, <2>2, <2>4, MoveInv DEF Types
<1> QED
    BY <1>2, <1>3 DEF CheckOther

\* A change that no key refuses extends the trail of its experiment by one event.
LEMMA WriteFacts ==
    ASSUME IInv, NEW c \in Clients, Write(c), ~Violates(txn[c])
    PROVE  LET t == txn[c]
               row == [revision |-> Revision(t.row) + 1, state |-> TargetState(t.action), at |-> t.at]
           IN  /\ row \in ArmRow /\ row # None
               /\ arm[t.e] = t.row
               /\ t.row # None => locked[t.e] = c
               /\ arm' \in [Experiments -> ArmRow \cup {None}] /\ arm'[t.e] = row
               /\ \A e \in Experiments : e # t.e => arm'[e] = arm[e] /\ events'[e] = events[e]
               /\ events' \in [Experiments -> Seq(ArmEvent)]
               /\ Explains(events'[t.e], row)
               /\ Len(events'[t.e]) = Len(events[t.e]) + 1
               /\ \A i \in 1..Len(events[t.e]) : events'[t.e][i] = events[t.e][i]
<1> DEFINE t == txn[c]
           row == [revision |-> Revision(t.row) + 1, state |-> TargetState(t.action), at |-> t.at]
           ev == [action |-> t.action, at |-> t.at]
<1>1. /\ t \in Txn /\ t # None /\ t.phase = "writing" /\ t.row \in ArmRow \cup {None}
      /\ t.e \in Experiments /\ t.action \in {"ARM", "DISARM"} /\ t.at \in 0..MaxClock
      /\ Revision(t.row) < MaxRevision /\ Types
    BY DEF Write, IInv, Types, Txn
<1>2. /\ t.row = None => t.action = "ARM" /\ arm[t.e] = None
      /\ t.row # None => /\ locked[t.e] = c /\ arm[t.e] = t.row
                         /\ t.row.state # TargetState(t.action) /\ t.row.at <= t.at
    BY <1>1 DEF IInv, RequestsSound, RequestOK, Violates
<1>3. Told(events[t.e], t.row) /\ events[t.e] \in Seq(ArmEvent)
    BY <1>1, <1>2 DEF IInv, OneArmedAndExplained, Told, Types
<1>4. row \in ArmRow /\ Append(events[t.e], ev) \in Seq(ArmEvent)
      /\ Explains(Append(events[t.e], ev), row)
    BY <1>1, <1>2, <1>3, AppendExplains
<1>5. arm' = [arm EXCEPT ![t.e] = row] /\ events' = [events EXCEPT ![t.e] = Append(events[t.e], ev)]
    BY <1>1 DEF Write, Types
<1>6. ev \in ArmEvent
    BY <1>1 DEF ArmEvent
<1> HIDE DEF ev
<1>7. /\ Len(Append(events[t.e], ev)) = Len(events[t.e]) + 1
      /\ \A i \in 1..Len(events[t.e]) : Append(events[t.e], ev)[i] = events[t.e][i]
    BY <1>3, <1>6, AppendProperties
<1> HIDE DEF row, t
<1>8. /\ arm' \in [Experiments -> ArmRow \cup {None}] /\ arm'[t.e] = row
      /\ events' \in [Experiments -> Seq(ArmEvent)] /\ events'[t.e] = Append(events[t.e], ev)
      /\ \A e \in Experiments : e # t.e => arm'[e] = arm[e] /\ events'[e] = events[e]
    BY <1>1, <1>4, <1>5 DEF Types
<1>9. /\ row \in ArmRow /\ row # None
      /\ arm[t.e] = t.row
      /\ t.row # None => locked[t.e] = c
      /\ Explains(events'[t.e], row)
      /\ Len(events'[t.e]) = Len(events[t.e]) + 1
      /\ \A i \in 1..Len(events[t.e]) : events'[t.e][i] = events[t.e][i]
    BY <1>2, <1>4, <1>7, <1>8, NoneAssumption
<1> QED
    BY <1>8, <1>9 DEF row, t

\* A change that is written keeps the invariant: no other is armed, the trail explains the new
\* row, and everybody who read the old one is overtaken.
LEMMA WrittenInv ==
    ASSUME IInv, NEW c \in Clients, Write(c), ~Violates(txn[c]) PROVE IInv'
<1> DEFINE t == txn[c]
           row == [revision |-> Revision(t.row) + 1, state |-> TargetState(t.action), at |-> t.at]
<1>1. /\ row \in ArmRow /\ row # None
      /\ arm[t.e] = t.row
      /\ t.row # None => locked[t.e] = c
      /\ arm' \in [Experiments -> ArmRow \cup {None}] /\ arm'[t.e] = row
      /\ \A e \in Experiments : e # t.e => arm'[e] = arm[e] /\ events'[e] = events[e]
      /\ events' \in [Experiments -> Seq(ArmEvent)]
      /\ Explains(events'[t.e], row)
      /\ Len(events'[t.e]) = Len(events[t.e]) + 1
      /\ \A i \in 1..Len(events[t.e]) : events'[t.e][i] = events[t.e][i]
    BY WriteFacts
<1>2. /\ t \in Txn /\ t # None /\ t.e \in Experiments /\ t.phase = "writing" /\ Types
      /\ Reply(c, "status", row, TRUE) /\ UNCHANGED <<definition, compiled, clock>>
      /\ reading' = [x \in Readers |->
                        IF reading[x] # None /\ reading[x].e = t.e /\ ~reading[x].done
                        THEN [reading[x] EXCEPT !.raced = TRUE] ELSE reading[x]]
      /\ row.state = TargetState(t.action)
    BY DEF Write, IInv, Types, Txn
<1>3. t.action = "ARM" => \A e \in Experiments \ {t.e} : ~(arm[e] # None /\ arm[e].state = "ARMED")
    BY DEF Violates
<1>4. t.action = "DISARM" => row.state # "ARMED"
    BY <1>2 DEF TargetState
<1>5. t.action \in {"ARM", "DISARM"}
    BY <1>2 DEF Txn
<1> HIDE DEF row
<1>6. /\ txn' \in [Clients -> Txn \cup {None}]
      /\ locked' \in [Experiments -> Clients \cup {None}]
      /\ answer' \in [Clients -> Answer]
      /\ txn'[c] = None
      /\ \A d \in Clients : d # c => txn'[d] = txn[d] /\ answer'[d] = answer[d]
      /\ \A e \in Experiments : locked[e] # c => locked'[e] = locked[e]
      /\ answer'[c].kind = "status" /\ answer'[c].e = t.e
      /\ answer'[c].revision = Revision(row)
      /\ answer'[c].state = row.state
    BY <1>1, <1>2, ReplyFacts
<1> HIDE DEF t
<1>7. \A x \in Readers : reading[x] # None =>
          /\ reading'[x] \in Reading
          /\ reading'[x].e = reading[x].e /\ reading'[x].row = reading[x].row
          /\ reading'[x].done = reading[x].done /\ reading'[x].status = reading[x].status
          /\ reading'[x].raced = reading[x].raced \/ reading'[x].raced = TRUE
          /\ reading[x].e = t.e /\ ~reading[x].done => reading'[x].raced = TRUE
    BY <1>2 DEF Types, Reading
<1>8. reading' \in [Readers -> Reading \cup {None}] /\ \A x \in Readers : reading[x] = None => reading'[x] = None
    BY <1>2, <1>7 DEF Types
<1>9. ASSUME NEW e \in Experiments, NEW r, NEW st, Committed(events[e], r, st)
      PROVE  Committed(events'[e], r, st)
  <2>1. Len(events[e]) \in Nat
    BY <1>2, LenProperties DEF Types
  <2> QED
    BY <1>1, <1>9, <2>1 DEF Committed
<1>10. Types'
    BY <1>1, <1>2, <1>6, <1>8 DEF Types
<1>11. OneArmedAndExplained'
  <2>1. ASSUME NEW e \in Experiments, NEW f \in Experiments, arm'[e] # None, arm'[e].state = "ARMED",
               arm'[f] # None, arm'[f].state = "ARMED"
        PROVE  e = f
    BY <1>1, <1>3, <1>4, <1>5, <2>1 DEF IInv, OneArmedAndExplained
  <2>2. ASSUME NEW e \in Experiments
        PROVE  (IF arm[e] = None THEN events[e] = <<>> ELSE Explains(events[e], arm[e]))'
    <3>1. CASE e = t.e
      BY <1>1, <3>1 DEF Explains
    <3>2. CASE e # t.e
      <4>1. arm'[e] = arm[e] /\ events'[e] = events[e]
        BY <1>1, <3>2
      <4>2. IF arm[e] = None THEN events[e] = <<>> ELSE Explains(events[e], arm[e])
        BY DEF IInv, OneArmedAndExplained
      <4> QED
        BY <4>1, <4>2 DEF Explains
    <3> QED
      BY <3>1, <3>2
  <2> QED
    BY <2>1, <2>2 DEF OneArmedAndExplained
<1>12. RequestsSound'
  <2> SUFFICES ASSUME NEW d \in Clients, txn'[d] # None PROVE RequestOK(d, txn'[d], arm', locked')
    BY DEF RequestsSound
  <2>1. d # c /\ txn'[d] = txn[d] /\ RequestOK(d, txn[d], arm, locked) /\ txn[d] \in Txn
    BY <1>2, <1>6 DEF IInv, RequestsSound, Types
  <2>2. txn[d].e \in Experiments
    BY <2>1 DEF Txn
  <2>3. ASSUME txn[d].row # None, txn[d].phase \in {"checking", "writing"}
        PROVE  txn[d].e # t.e /\ locked[txn[d].e] # c
    BY <1>1, <2>1, <2>3 DEF RequestOK
  <2> QED
    BY <1>1, <1>6, <2>1, <2>2, <2>3 DEF RequestOK
<1>13. AnswersAreCommitted'
  <2>1. Committed(events'[t.e], row.revision, row.state)
    BY <1>1, <1>2, LastIsCommitted
  <2>2. Revision(row) = row.revision
    BY <1>1 DEF Revision
  <2>3. ASSUME NEW d \in Clients, answer'[d].kind = "status"
        PROVE  Committed(events'[answer'[d].e], answer'[d].revision, answer'[d].state)
    <3>1. CASE d = c
      BY <1>6, <2>1, <2>2, <3>1
    <3>2. CASE d # c
      <4>1. /\ answer'[d] = answer[d] /\ answer[d].e \in Experiments
            /\ Committed(events[answer[d].e], answer[d].revision, answer[d].state)
        BY <1>2, <1>6, <2>3, <3>2 DEF IInv, AnswersAreCommitted, Committed, Types
      <4> QED
        BY <1>9, <4>1
    <3> QED
      BY <3>1, <3>2
  <2> QED
    BY <2>3 DEF AnswersAreCommitted, Committed
<1>14. ReadingsSound'
  <2> SUFFICES ASSUME NEW x \in Readers, reading'[x] # None PROVE ReadingOK(x, reading[x])'
    BY DEF ReadingsSound
  <2>1. reading[x] # None /\ reading[x] \in Reading /\ ReadingOK(x, reading[x])
    BY <1>2, <1>8 DEF IInv, ReadingsSound, Types
  <2>2. reading[x].e \in Experiments
    BY <2>1 DEF Reading
  <2>3. x \in Clients => x # c /\ txn'[x] = txn[x]
    BY <1>2, <1>6, <2>1 DEF ReadingOK, t
  <2> QED
    BY <1>1, <1>7, <1>9, <2>1, <2>2, <2>3 DEF ReadingOK
<1> QED
    BY <1>10, <1>11, <1>12, <1>13, <1>14 DEF IInv

\* A trigger refuses the change.
LEMMA TriggerRefusesInv ==
    ASSUME IInv, NEW c \in Clients, TriggerRefuses(c) PROVE IInv'
<1>1. /\ txn[c] \in Txn /\ txn[c] # None /\ txn[c].phase = "writing"
      /\ txn[c].row \in ArmRow \cup {None}
      /\ UNCHANGED <<rows, clock, reading>> /\ Types
    BY DEF TriggerRefuses, IInv, Types, Txn
<1>2. reading[c] = None /\ c \in Readers /\ reading' \in [Readers -> Reading \cup {None}]
    BY <1>1, NotReading DEF Readers, Types
<1>3. Reply(c, "write_failed", txn[c].row, FALSE)
    BY DEF TriggerRefuses
<1> QED
    BY <1>1, <1>2, <1>3, ReplyInv

\* A change is written, or a key refuses it.
LEMMA WriteInv ==
    ASSUME IInv, NEW c \in Clients, Write(c) PROVE IInv'
<1> DEFINE t == txn[c]
           u == [t EXCEPT !.phase = "refused"]
<1>1. CASE ~Violates(t)
    BY <1>1, WrittenInv
<1>2. CASE Violates(t)
  <2>1. /\ t \in Txn /\ t # None /\ t.phase = "writing" /\ Types
        /\ locked' = [e \in Experiments |-> IF locked[e] = c THEN None ELSE locked[e]]
        /\ UNCHANGED <<rows, clock, reading, answer>>
    BY <1>2 DEF Write, IInv, Types, rows
  <2>2. txn' = [txn EXCEPT ![c] = u]
    BY <1>2, <2>1 DEF Write, Types
  <2>3. u \in Txn /\ RequestOK(c, u, arm', locked')
    BY <2>1 DEF Txn, RequestOK
  <2>4. reading[c] = None
    BY <2>1, NotReading
  <2>5. /\ locked' \in [Experiments -> Clients \cup {None}]
        /\ \A e \in Experiments : locked[e] \notin {c, None} => locked'[e] = locked[e]
    BY <2>1 DEF Types
  <2> HIDE DEF u
  <2> QED
    BY <2>1, <2>2, <2>3, <2>4, <2>5, MoveInv
<1> QED
    BY <1>1, <1>2

\* A reading that begins, goes on or ends changes nothing else.
LEMMA ReadingInv ==
    ASSUME IInv, NEW x \in Readers, NEW r \in Reading \cup {None}, r # None => ReadingOK(x, r),
           reading' = [reading EXCEPT ![x] = r], UNCHANGED <<rows, clock, requests>>
    PROVE  IInv'
<1> USE DEF rows, requests
<1>1. /\ reading' \in [Readers -> Reading \cup {None}] /\ reading'[x] = r
      /\ \A y \in Readers : y # x => reading'[y] = reading[y]
    BY DEF IInv, Types
<1>2. Types'
    BY <1>1 DEF IInv, Types
<1>3. OneArmedAndExplained' /\ RequestsSound' /\ AnswersAreCommitted'
  <2>1. OneArmedAndExplained'
    BY DEF IInv, OneArmedAndExplained, Explains
  <2>2. RequestsSound'
    BY DEF IInv, RequestsSound, RequestOK
  <2>3. AnswersAreCommitted'
    BY DEF IInv, AnswersAreCommitted
  <2> QED
    BY <2>1, <2>2, <2>3
<1>4. ReadingsSound'
  <2> SUFFICES ASSUME NEW y \in Readers, reading'[y] # None PROVE ReadingOK(y, reading[y])'
    BY DEF ReadingsSound
  <2>1. ReadingOK(y, reading'[y])
    BY <1>1 DEF IInv, ReadingsSound
  <2> QED
    BY <2>1 DEF ReadingOK
<1> QED
    BY <1>2, <1>3, <1>4 DEF IInv

\* The first statement of a reading.
LEMMA ReadRowInv ==
    ASSUME IInv, NEW x \in Readers, NEW e \in Experiments, ReadRow(x, e) PROVE IInv'
<1> DEFINE r == [e |-> e, row |-> arm[e], raced |-> FALSE, done |-> FALSE, status |-> None]
<1>1. r \in Reading /\ r.e = e /\ r.row = arm[e] /\ ~r.done /\ r.status = None
    BY DEF IInv, Types, Reading
<1>2. reading' = [reading EXCEPT ![x] = r] /\ UNCHANGED <<rows, clock, requests>>
    BY DEF ReadRow
<1>3. x \in Clients => txn[x] # None /\ txn[x].phase = "refused" /\ txn[x].e = e
    BY DEF ReadRow
<1> HIDE DEF r
<1>4. ReadingOK(x, r)
    BY <1>1, <1>3 DEF ReadingOK
<1> QED
    BY <1>1, <1>2, <1>4, ReadingInv

\* The second statement of the runtime's reading.
LEMMA ReadEventsInv ==
    ASSUME IInv, ReadEvents PROVE IInv'
<1> DEFINE x == "runtime"
           r == reading[x]
           u == [r EXCEPT !.done = TRUE, !.status = StatusRead(r)]
<1>1. x \in Readers /\ x \notin Clients
    BY RegistryAssumption DEF Readers
<1>2. r \in Reading /\ ~r.done /\ ReadingOK(x, r) /\ Types
    BY <1>1 DEF ReadEvents, IInv, Types, ReadingsSound
<1>3. /\ StatusRead(r) \in Status \cup {None}
      /\ r.row = arm[r.e] => StatusRead(r) # None
      /\ StatusRead(r) # None =>
            \/ StatusRead(r).state = "NOT_ARMED"
            \/ Committed(events[r.e], StatusRead(r).revision, StatusRead(r).state)
    BY <1>2, StatusReadSound
<1>4. /\ u \in Reading /\ u.e = r.e /\ u.row = r.row /\ u.raced = r.raced /\ u.done = TRUE
      /\ u.status = StatusRead(r)
    BY <1>2, <1>3 DEF Reading
<1>5. reading' = [reading EXCEPT ![x] = u] /\ UNCHANGED <<rows, clock, requests>>
    BY <1>1, <1>2 DEF ReadEvents, Types
<1> HIDE DEF u
<1>6. ReadingOK(x, u)
    BY <1>1, <1>2, <1>3, <1>4 DEF ReadingOK
<1> HIDE DEF x
<1> QED
    BY <1>1, <1>4, <1>5, <1>6, ReadingInv

\* The runtime gives its status up.
LEMMA EndReadingInv ==
    ASSUME IInv, EndReading PROVE IInv'
<1>1. "runtime" \in Readers
    BY DEF Readers
<1> QED
    BY <1>1, ReadingInv DEF EndReading

\* A refused request is answered from what is committed by then.
LEMMA RereadInv ==
    ASSUME IInv, NEW c \in Clients, Reread(c) PROVE IInv'
<1> DEFINE r == reading[c]
           t == txn[c]
           row == r.row
           same == IsSameChange(t, StatusRead(r))
           kind == IF same THEN "status" ELSE "conflict"
<1>1. /\ c \in Readers /\ r \in Reading /\ r # None /\ t \in Txn /\ t.e = r.e /\ Types
      /\ row \in ArmRow \cup {None} /\ t.action \in {"ARM", "DISARM"}
    BY DEF Readers, Reread, IInv, Types, ReadingsSound, ReadingOK, Reading, Txn
<1>2. ASSUME same PROVE row # None /\ Committed(events[t.e], row.revision, row.state)
  <2>1. StatusRead(r) # None /\ StatusRead(r).state = TargetState(t.action)
    BY <1>2 DEF IsSameChange
  <2>2. StatusRead(r).state # "NOT_ARMED"
    BY <1>1, <2>1 DEF TargetState
  <2> QED
    BY <1>1, <2>1, <2>2, StatusReadSound
<1>3. /\ Reply(c, kind, row, FALSE) /\ UNCHANGED <<rows, clock>>
      /\ reading' = [reading EXCEPT ![c] = None]
    BY DEF Reread
<1>4. kind \in {"status", "conflict", "not_armed", "write_failed"} /\ (kind = "status" => same)
    OBVIOUS
<1> HIDE DEF kind, same, row, r
<1>5. /\ reading' \in [Readers -> Reading \cup {None}] /\ reading'[c] = None
      /\ \A x \in Readers : x # c => reading'[x] = reading[x]
    BY <1>1, <1>3 DEF Types
<1>6. kind = "status" => row # None /\ Committed(events[t.e], row.revision, row.state)
    BY <1>2, <1>4
<1>7. CASE kind = "status"
    BY <1>1, <1>3, <1>5, <1>6, <1>7, ReplyInv
<1>8. CASE kind = "conflict"
    BY <1>1, <1>3, <1>5, <1>8, ReplyInv
<1> QED
    BY <1>7, <1>8 DEF kind

-----------------------------------------------------------------------------
(* Theorems *)

\* Nothing is there at first.
LEMMA InitInv == Init => IInv
<1> SUFFICES ASSUME Init PROVE IInv
    OBVIOUS
<1>1. NoAnswer \in Answer /\ NoAnswer.kind = "none"
    BY RegistryAssumption DEF NoAnswer, Answer, States
<1>2. <<>> \in Seq(ArmEvent)
    OBVIOUS
<1>3. Types
    BY <1>1, <1>2, RegistryAssumption DEF Init, Types
<1> QED
    BY <1>1, <1>3 DEF Init, IInv, OneArmedAndExplained, RequestsSound, AnswersAreCommitted, ReadingsSound

\* Every step keeps the invariant.
LEMMA NextInv == IInv /\ [Next]_vars => IInv'
<1> SUFFICES ASSUME IInv, [Next]_vars PROVE IInv'
    OBVIOUS
<1>1. CASE UNCHANGED vars
  <2>1. Types'
    BY <1>1 DEF vars, rows, requests, IInv, Types
  <2> QED
    BY <1>1, <2>1, ElsewhereInv DEF vars, rows, requests
<1>2. ASSUME NEW e \in Experiments, NEW x \in Readers, ReadRow(x, e) PROVE IInv'
    BY <1>2, ReadRowInv
<1>3. ASSUME NEW c \in Clients, NEW e \in Experiments, NEW action \in {"ARM", "DISARM"},
             NEW expected \in 0..MaxRevision, Ask(c, e, action, expected)
      PROVE  IInv'
    BY <1>3, AskInv
<1>4. ASSUME NEW c \in Clients, Load(c) \/ CheckOther(c) \/ Write(c) \/ TriggerRefuses(c) \/ Reread(c)
      PROVE  IInv'
    BY <1>4, LoadInv, CheckOtherInv, WriteInv, TriggerRefusesInv, RereadInv
<1> QED
    BY <1>1, <1>2, <1>3, <1>4, QuietInv, ReadEventsInv, EndReadingInv DEF Next

\* The registry's rows, requests, locks, answers and readings satisfy the invariant in every
\* reachable state (SQLAlchemyExperimentRegistry).
THEOREM RegistryInvariant == Spec => []IInv
<1>1. Init => IInv
    BY InitInv
<1>2. IInv /\ [Next]_vars => IInv'
    BY NextInv
<1> QED
    BY <1>1, <1>2, PTL DEF Spec

\* Every row, request, answer and reading has its type (SQLAlchemyExperimentRegistry).
THEOREM RegistryTypes == Spec => []TypeOK
<1>1. IInv => TypeOK
    BY DEF IInv, Types, TypeOK
<1> QED
    BY <1>1, RegistryInvariant, PTL

\* At most one experiment is armed and every row is explained by its trail, however the owners'
\* requests interleave under READ COMMITTED (_change_authorization, uq_one_armed_experiment).
THEOREM OneArmedAndExplainedHolds == Spec => []OneArmedAndExplained
<1>1. IInv => OneArmedAndExplained
    BY DEF IInv
<1> QED
    BY <1>1, RegistryInvariant, PTL

\* What an owner is told of is committed, also after a refusal by a key
\* (_change_authorization).
THEOREM AnswersAreCommittedHolds == Spec => []AnswersAreCommitted
<1>1. IInv => AnswersAreCommitted
    BY DEF IInv
<1> QED
    BY <1>1, RegistryInvariant, PTL

\* The registry is unreadable only to a reading that a change overtook (read_authorization).
THEOREM InvalidOnlyByRaceHolds == Spec => []InvalidOnlyByRace
<1>1. IInv => InvalidOnlyByRace
  <2> SUFFICES ASSUME IInv, NEW x \in Readers, reading[x] # None, ~reading[x].raced
               PROVE  IF reading[x].done THEN reading[x].status # None ELSE StatusRead(reading[x]) # None
    BY DEF InvalidOnlyByRace
  <2>1. reading[x] \in Reading /\ ReadingOK(x, reading[x])
    BY DEF IInv, Types, ReadingsSound
  <2>2. CASE reading[x].done
    BY <2>1, <2>2 DEF ReadingOK
  <2>3. CASE ~reading[x].done
    BY <2>1, <2>3, StatusReadSound DEF ReadingOK
  <2> QED
    BY <2>2, <2>3
<1> QED
    BY <1>1, RegistryInvariant, PTL

\* A finding is an evaluation and its classification.
LEMMA FindingFacts ==
    ASSUME NEW p \in Protocols, NEW phase \in Phases, NEW found \in Findings[p][phase]
    PROVE  \E e : /\ found.decision = Classify(phase, e) /\ found.safe = e.safe
                  /\ found.exit = (ExitRules \cap e.matched # {})
<1>1. PICK obs \in Observations :
          LET e == Evaluation(p, ObservationSet(p, phase, obs))
          IN  found = [decision |-> Classify(phase, e), exit |-> ExitRules \cap e.matched # {}, safe |-> e.safe]
    BY DEF Findings
<1> DEFINE e == Evaluation(p, ObservationSet(p, phase, obs))
<1> HIDE DEF e
<1>2. found = [decision |-> Classify(phase, e), exit |-> ExitRules \cap e.matched # {}, safe |-> e.safe]
    BY <1>1 DEF e
<1>3. found.decision = Classify(phase, e) /\ found.safe = e.safe
      /\ found.exit = (ExitRules \cap e.matched # {})
    BY <1>2, Zenon
<1> QED
    BY <1>3

\* A selection follows only from an authorization that was committed, in the revision the
\* caller expects and with every safety fact; an open position is closed whenever its rules say
\* so (evaluate_experiment_runtime_authority, classify_protocol_decision).
THEOREM VerdictsFollowAuthorityHolds == Spec => []VerdictsFollowAuthority
<1>1. IInv => VerdictsFollowAuthority
  <2> DEFINE r == reading["runtime"]
  <2> SUFFICES ASSUME IInv, r # None, r.status # None,
                      NEW e \in Experiments, NEW phase \in Phases, NEW expected \in 0..MaxRevision,
                      compiled[e] # None, NEW found \in Findings[compiled[e]][phase]
               PROVE  LET v == Verdict(e, phase, found, expected)
                      IN  /\ v = "ENTRY_SELECTION_ALLOWED" =>
                                /\ phase = "FLAT" /\ found.safe
                                /\ expected \in 1..Len(events[e])
                                /\ events[e][expected].action = "ARM"
                          /\ phase = "OPEN" => (v = "OPEN_CLOSE_PRESERVED" <=> found.exit)
    BY DEF VerdictsFollowAuthority
  <2>1. compiled[e] \in Protocols
    BY DEF IInv, Types, CompiledRow
  <2>2. PICK ev : /\ found.decision = Classify(phase, ev) /\ found.safe = ev.safe
                  /\ found.exit = (ExitRules \cap ev.matched # {})
    BY <2>1, FindingFacts
  <2>3. r.status.state # "NOT_ARMED" => Committed(events[r.e], r.status.revision, r.status.state)
    BY DEF IInv, ReadingsSound, ReadingOK, Readers
  <2>4. CASE phase = "OPEN"
    <3>1. found.decision = IF found.exit THEN "CLOSE_CANDIDATE" ELSE "HOLD"
      BY <2>2, <2>4 DEF Classify
    <3>2. Verdict(e, phase, found, expected) =
              IF found.decision = "CLOSE_CANDIDATE" THEN "OPEN_CLOSE_PRESERVED" ELSE "OPEN_HOLD_PRESERVED"
      BY <2>4 DEF Verdict, Disposition
    <3> QED
      BY <2>4, <3>1, <3>2
  <2>5. CASE phase = "FLAT"
    <3> SUFFICES ASSUME Verdict(e, phase, found, expected) = "ENTRY_SELECTION_ALLOWED"
                 PROVE  /\ found.safe /\ expected \in 1..Len(events[e])
                        /\ events[e][expected].action = "ARM"
      BY <2>5
    <3>1. found.decision = "ENTRY_CANDIDATE" /\ r.e = e /\ r.status.revision = expected
          /\ r.status.state = "ARMED"
      BY <2>5 DEF Verdict, Disposition
    <3>2. found.safe
      BY <2>2, <2>5, <3>1 DEF Classify
    <3>3. Committed(events[e], expected, "ARMED")
      BY <2>3, <3>1
    <3> QED
      BY <3>2, <3>3 DEF Committed, TargetState
  <2> QED
    BY <2>4, <2>5 DEF Phases
<1> QED
    BY <1>1, RegistryInvariant, PTL
=============================================================================
