------------------------- MODULE PublicationProofs -------------------------
(***************************************************************************)
(* The position book and what is published of it, for any number of runs,  *)
(* intents, moments, sessions, reviews and records, and whatever the fills *)
(* pay.                                                                    *)
(*                                                                         *)
(* None of the five properties is inductive, and none can be had alone.    *)
(* BInv says that the account has at most one position, because the entry  *)
(* has to be the first fill of the account; that its transitions are the   *)
(* fills of consecutive reconciliation states, from that of the entry to   *)
(* that of the current snapshot, each closing what the one before it left; *)
(* that two fills never close the same legs, so that the next transition   *)
(* is the only fill of its snapshot; and that every review of the          *)
(* position, stored or under way, is before a fill that waits to be        *)
(* recorded and before the close. The last is what keeps a record whole:   *)
(* its moment is one of a review or a transition, so the transitions up to *)
(* it are never added to.                                                  *)
(*                                                                         *)
(* Most steps touch neither the book nor the account. What they may do is  *)
(* stated once (Quiet, IntentsQuiet, RunsQuiet, DecisionsQuiet) and shown  *)
(* to keep BInv; the finalization and the two materializers have lemmas of *)
(* their own, one for each part they can disturb.                          *)
(***************************************************************************)
EXTENDS Publication, SequenceTheorems, FiniteSetTheorems, WellFoundedInduction, TLAPS

-----------------------------------------------------------------------------
(* The inductive invariant *)

Exit(i) == intents[i].action # "ENTRY"
IsRoll(i) == intents[i].action = "ROLL"
Certified(i) == intents[i].certificate # "NONE"

\* What the fills of a set of intents paid.
CashOf(S) == MapThenSumSet(LAMBDA i : Cash[i], S)

\* The state a recorded fill was finalized with, and the one position there can be.
At(i) == chain[i].snapshot.state
Position == positions[1]

ArchiveTypeOK ==
    /\ archive \in Seq(RecordRow)
    /\ publisher \in {None} \cup [position : Nat, row : PositionRow]

\* Intents: one is under way at a time, a certificate ends one; an entry refers to nothing,
\* an exit to the snapshot of the position that was reviewed, which had legs to close.
IntentsOK ==
    /\ \A i \in Approved : /\ Certified(i) => intents[i].state = "TERMINAL"
                           /\ intents[i].boundary <= now
                           /\ intents[i].action = "ENTRY" =>
                                 intents[i].position = 0 /\ intents[i].snapshot = 0
    /\ \A i, j \in Approved : intents[i].state = "WORKING" /\ intents[j].state = "WORKING" => i = j

\* A recorded snapshot that left legs.
Reviewable(c) == c \in Ids /\ Recorded(c) /\ chain[c].transition.action # "CLOSE"

ExitsOK ==
    \A i \in Approved : Exit(i) => /\ intents[i].position = 1
                                   /\ Reviewable(intents[i].snapshot)
                                   /\ intents[i].fingerprint = intents[i].snapshot

\* Reconciliation states: one for each certificate, in the order of time and of sessions.
StatesOK ==
    /\ \A n \in DOMAIN states : /\ states[n].intent \in Approved /\ Certified(states[n].intent)
                                /\ states[n].at \in 1 .. now /\ states[n].phase <= phase
                                /\ intents[states[n].intent].boundary <= states[n].at
    /\ \A i \in Approved : Certified(i) => \E n \in DOMAIN states : states[n].intent = i
    /\ \A m, n \in DOMAIN states : m < n => /\ states[m].intent # states[n].intent
                                            /\ states[m].at < states[n].at
                                            /\ states[m].phase <= states[n].phase

\* What a state has seen filled, and what the account held then.
FillsOK ==
    \A n \in DOMAIN states :
        LET i == states[n].intent
        IN  /\ states[n].filled = {states[m].intent : m \in {k \in 1 .. n : Filled(states[k].intent)}}
            /\ Filled(i) /\ ~Exit(i) /\ states[n].filled = {i} => states[n].inventory = {i}
            /\ Filled(i) /\ Exit(i) /\ n > 1 =>
                  states[n].inventory = (states[n - 1].inventory \ {intents[i].fingerprint})
                                            \cup (IF IsRoll(i) THEN {i} ELSE {})
            /\ (\A m \in n + 1 .. Len(states) : ~Filled(states[m].intent)) =>
                  held = states[n].inventory

\* The broker holds what some fill opened and no fill closed; no two fills close the same.
HeldOK ==
    /\ \A h \in held : h \in Approved /\ Filled(h)
    /\ \A i \in Approved : Filled(i) /\ Exit(i) => intents[i].fingerprint \notin held
    /\ \A i, j \in Approved : /\ Filled(i) /\ Exit(i) /\ Filled(j) /\ Exit(j)
                              /\ intents[i].fingerprint = intents[j].fingerprint
                              => i = j

\* The rows a materializer wrote for the intent i, the first of the position or a later one.
RowOK(i) ==
    LET t == chain[i].transition
        s == chain[i].snapshot
        n == s.state
    IN  /\ i \in Approved /\ Filled(i)
        /\ n \in DOMAIN states /\ states[n].intent = i
        /\ t.position = 1 /\ t.sequence = n - At(Position.entry)
        /\ n \in At(Position.entry) .. At(Position.current)
        /\ t.action = intents[i].action /\ t.at = states[n].at /\ t.cash = Cash[i]
        /\ s.session = states[n].phase /\ s.activities = states[n].filled
        /\ s.fingerprint = (IF t.action = "CLOSE" THEN 0 ELSE i)
        /\ s.cumulative = CashOf(states[n].filled)
        /\ states[n].inventory = {s.fingerprint} \ {0}
        /\ IF i = Position.entry
           THEN /\ t.action = "ENTRY" /\ t.predecessor = 0
                /\ states[n].filled = {i} /\ InSession(states[n].phase)
           ELSE /\ t.action # "ENTRY" /\ t.predecessor = intents[i].snapshot
                /\ At(t.predecessor) = n - 1
                /\ chain[t.predecessor].transition.at <= intents[i].boundary
                /\ states[n].phase = intents[i].session

\* There is at most one position: its entry was the first fill of the account. Its rows are
\* those of consecutive states, from that of the entry to that of the current snapshot.
ChainOK ==
    /\ Len(positions) <= 1
    /\ positions = <<>> => \A i \in Ids : ~Recorded(i)
    /\ positions # <<>> =>
          /\ Recorded(Position.entry) /\ Recorded(Position.current)
          /\ \A i \in Ids : Recorded(i) => RowOK(i)
          /\ \A n \in At(Position.entry) .. At(Position.current) :
                n \in DOMAIN states /\ Recorded(states[n].intent)
          /\ Position.fingerprint = chain[Position.current].snapshot.fingerprint
          /\ Position.closed = (IF chain[Position.current].transition.action = "CLOSE"
                                THEN chain[Position.current].transition.at ELSE 0)

\* A run that has loaded the position reviews a snapshot that had legs.
Reviewing(r) == run[r].pc \in {"loaded", "bound"}
RunsOK ==
    \A r \in Runs : /\ run[r].at <= now
                    /\ Reviewing(r) => /\ run[r].position = 1 /\ positions # <<>>
                                       /\ Reviewable(run[r].snapshot)
                                       /\ run[r].fingerprint = run[r].snapshot

\* No roll up to the snapshot c is of the session or a later one.
NoRollYet(c, session) ==
    \A k \in Ids : Recorded(k) /\ chain[k].transition.action = "ROLL" /\ At(k) <= At(c) =>
        chain[k].snapshot.session < session

RollsOK ==
    /\ \A i \in Approved : IsRoll(i) => NoRollYet(intents[i].snapshot, intents[i].session)
    /\ \A r \in Runs : Reviewing(r) /\ run[r].mayRoll => NoRollYet(run[r].snapshot, run[r].session)

\* The moments of the reviews of the position, stored or under way.
Moments == {d.boundary : d \in Reviews(1)} \cup {run[r].at : r \in {q \in Runs : Reviewing(q)}}

\* The fill that closes the current snapshot and waits to be recorded.
Waiting(n) ==
    /\ positions # <<>> /\ n \in DOMAIN states /\ n = At(Position.current) + 1
    /\ Filled(states[n].intent) /\ Exit(states[n].intent)
    /\ intents[states[n].intent].fingerprint = Position.current

MomentsOK ==
    /\ \A t \in Moments : /\ t <= now
                          /\ positions # <<>> /\ Position.closed # 0 => t < Position.closed
                          /\ \A n \in DOMAIN states : Waiting(n) => t < states[n].at
    /\ positions = <<>> => Reviews(1) = {}

\* The last of the transitions of a record.
RecordOK(x) ==
    /\ positions # <<>> /\ x.subject = 1 /\ x.asOf <= now
    /\ x.chain = Through(Transitions(1), x.asOf)
    /\ x.reviews \subseteq ReviewsThrough(1, x.asOf)
    /\ \A n \in DOMAIN states : Waiting(n) => x.asOf < states[n].at
    /\ \E last \in x.chain :
          /\ \A i \in x.chain : chain[i].transition.sequence <= chain[last].transition.sequence
          /\ x.state = (IF chain[last].transition.action = "CLOSE" THEN "CLOSED" ELSE "OPEN")
          /\ (x.closed # 0) = (chain[last].transition.action = "CLOSE")

ArchiveOK ==
    /\ \A n \in DOMAIN archive : archive[n].kind = "POSITION" => RecordOK(archive[n])
    /\ publisher # None => positions # <<>> /\ publisher.position = 1

BInv == /\ BookTypeOK /\ ArchiveTypeOK /\ IntentsOK /\ ExitsOK /\ StatesOK /\ FillsOK /\ HeldOK
        /\ ChainOK /\ RunsOK /\ RollsOK /\ MomentsOK /\ ArchiveOK

-----------------------------------------------------------------------------
(* Types *)

\* What the type invariant says of the rows, one at a time.
LEMMA Rows ==
    ASSUME BookTypeOK
    PROVE  /\ Approved = 1 .. Len(intents) /\ Len(intents) \in Nat /\ Approved \subseteq Ids
           /\ \A i \in Approved : intents[i] \in IntentRow
           /\ DOMAIN states = 1 .. Len(states) /\ Len(states) \in Nat
           /\ \A n \in DOMAIN states : states[n] \in StateRow
           /\ DOMAIN positions = 1 .. Len(positions) /\ Len(positions) \in Nat
           /\ \A p \in DOMAIN positions : positions[p] \in PositionRow
           /\ DOMAIN chain = Ids /\ \A i \in Ids : Recorded(i) => chain[i] \in ChainRow
           /\ \A r \in Runs : run[r] \in RunState
           /\ MaxIntents \in Nat /\ MaxTime \in Nat
           /\ now \in Nat /\ phase \in Nat
    BY BookAssumption DEF BookTypeOK, Approved, Ids, Recorded, Time

\* The same of the next state.
LEMMA RowsNext ==
    ASSUME BookTypeOK'
    PROVE  /\ Approved' = 1 .. Len(intents') /\ Len(intents') \in Nat /\ Approved' \subseteq Ids
           /\ \A i \in Approved' : intents'[i] \in IntentRow
           /\ DOMAIN states' = 1 .. Len(states') /\ Len(states') \in Nat
           /\ \A n \in DOMAIN states' : states'[n] \in StateRow
           /\ DOMAIN positions' = 1 .. Len(positions') /\ Len(positions') \in Nat
           /\ \A p \in DOMAIN positions' : positions'[p] \in PositionRow
           /\ DOMAIN chain' = Ids /\ \A i \in Ids : Recorded(i)' => chain'[i] \in ChainRow
           /\ \A r \in Runs : run'[r] \in RunState
           /\ now' \in Nat /\ phase' \in Nat
    BY BookAssumption DEF BookTypeOK, Approved, Ids, Recorded, Time

\* Sessions and nights are numbered from one.
LEMMA PhasesAreNumbers == Phases \subseteq Nat \ {0}
<1>1. \A r \in Roles : 1 .. MaxPhase[r] \subseteq Nat \ {0}
    BY BookAssumption
<1> QED
    BY <1>1 DEF Phases

LEMMA PhaseIsPhase ==
    ASSUME BookTypeOK PROVE phase \in Phases /\ 1 \in Phases
<1>1. 1 .. MaxPhase[role] \subseteq Phases /\ MaxPhase[role] \in Nat \ {0}
    BY BookAssumption DEF BookTypeOK, Phases
<1>2. phase \in 1 .. MaxPhase[role]
    BY DEF BookTypeOK
<1> QED
    BY <1>1, <1>2

LEMMA IdleIsRun == BookTypeOK => Idle \in RunState
<1> HAVE BookTypeOK
<1>1. 1 \in Phases /\ 0 \in Time /\ 0 \in 0 .. MaxIntents
    BY PhaseIsPhase, BookAssumption DEF Time
<1> QED
    BY <1>1 DEF Idle, RunState

\* A row more, and a row changed.
LEMMA RowAdded ==
    ASSUME NEW R, NEW s \in Seq(R), NEW x \in R, NEW t, t = Append(s, x)
    PROVE  /\ t \in Seq(R) /\ Len(t) = Len(s) + 1 /\ Len(s) \in Nat
           /\ DOMAIN t = DOMAIN s \cup {Len(s) + 1} /\ Len(s) + 1 \notin DOMAIN s
           /\ t[Len(s) + 1] = x /\ \A i \in DOMAIN s : t[i] = s[i]
    OBVIOUS

\* A sequence with one row replaced has the other rows as they were.
LEMMA RowChanged ==
    ASSUME NEW R, NEW s \in Seq(R), NEW x \in R, NEW i \in DOMAIN s, NEW t, t = [s EXCEPT ![i] = x]
    PROVE  /\ t \in Seq(R) /\ Len(t) = Len(s) /\ DOMAIN t = DOMAIN s
           /\ t[i] = x /\ \A j \in DOMAIN s : j # i => t[j] = s[j]
    OBVIOUS

\* What a step does to the intents: a row is added, or one is changed.
LEMMA ApprovalAdds ==
    ASSUME BookTypeOK, NEW r \in Runs, NEW action \in {"ENTRY", "ROLL", "CLOSE"},
           NEW f \in 0 .. MaxIntents, NEW c \in 0 .. MaxIntents, NEW p \in Nat,
           Len(intents) < MaxIntents, Approve(r, action, f, c, p)
    PROVE  LET N == Len(intents) + 1
           IN  /\ intents' \in Seq(IntentRow) /\ Len(intents') <= MaxIntents
               /\ Approved' = Approved \cup {N} /\ N \in Ids /\ N \notin Approved
               /\ \A i \in Approved : intents'[i] = intents[i]
               /\ intents'[N].action = action /\ intents'[N].fingerprint = f
               /\ intents'[N].snapshot = c /\ intents'[N].position = p
               /\ intents'[N].boundary = run[r].at /\ intents'[N].session = run[r].session
               /\ intents'[N].state = "READY" /\ intents'[N].certificate = "NONE"
<1> DEFINE row == [action |-> action, fingerprint |-> f, snapshot |-> c, position |-> p,
                   boundary |-> run[r].at, session |-> run[r].session, state |-> "READY",
                   submitted |-> 0, certificate |-> "NONE"]
<1>1. run[r] \in RunState /\ 0 \in Time
    BY Rows, BookAssumption DEF Time
<1>2. row \in IntentRow
    BY <1>1 DEF IntentRow, RunState
<1>3. intents' = Append(intents, row) /\ intents \in Seq(IntentRow)
    BY DEF Approve, BookTypeOK
<1>4. /\ row.action = action /\ row.fingerprint = f /\ row.snapshot = c /\ row.position = p
      /\ row.boundary = run[r].at /\ row.session = run[r].session
      /\ row.state = "READY" /\ row.certificate = "NONE"
    OBVIOUS
<1> HIDE DEF row
<1>5. /\ intents' \in Seq(IntentRow) /\ Len(intents') = Len(intents) + 1 /\ Len(intents) \in Nat
      /\ DOMAIN intents' = DOMAIN intents \cup {Len(intents) + 1}
      /\ Len(intents) + 1 \notin DOMAIN intents /\ intents'[Len(intents) + 1] = row
      /\ \A i \in DOMAIN intents : intents'[i] = intents[i]
    BY <1>2, <1>3, RowAdded
<1>6. Len(intents) + 1 \in Ids /\ Len(intents') <= MaxIntents
    BY <1>5, BookAssumption DEF Ids
<1> QED
    BY <1>4, <1>5, <1>6 DEF Approved

\* The fields of an intent that no step changes.
SameOrder(x, y) ==
    /\ x.action = y.action /\ x.fingerprint = y.fingerprint /\ x.snapshot = y.snapshot
    /\ x.position = y.position /\ x.boundary = y.boundary /\ x.session = y.session

\* What an update of one intent does to the table of intents.
LEMMA UpdateMoves ==
    ASSUME BookTypeOK, NEW i \in Approved, NEW row \in IntentRow, Update(i, row)
    PROVE  /\ intents' \in Seq(IntentRow) /\ Len(intents') <= MaxIntents
           /\ Approved' = Approved /\ intents'[i] = row
           /\ \A j \in Approved : j # i => intents'[j] = intents[j]
<1>1. intents \in Seq(IntentRow) /\ Len(intents) <= MaxIntents
    BY DEF BookTypeOK
<1>2. intents' = [intents EXCEPT ![i] = row] /\ i \in DOMAIN intents
    BY DEF Update, Approved
<1>3. /\ intents' \in Seq(IntentRow) /\ Len(intents') = Len(intents) /\ DOMAIN intents' = DOMAIN intents
      /\ intents'[i] = row /\ \A j \in DOMAIN intents : j # i => intents'[j] = intents[j]
    BY <1>1, <1>2, RowChanged
<1> QED
    BY <1>1, <1>3 DEF Approved


-----------------------------------------------------------------------------
(* Steps that finalize and record nothing *)

OrdersKeep == Approved \subseteq Approved' /\ \A i \in Approved : SameOrder(intents'[i], intents[i])

CertificatesKeep ==
    /\ \A i \in Approved : intents'[i].certificate = intents[i].certificate
    /\ \A i \in Approved' \ Approved : intents'[i].certificate = "NONE"

Quiet ==
    /\ OrdersKeep /\ CertificatesKeep
    /\ UNCHANGED <<held, states, positions, chain>>
    /\ now <= now' /\ phase <= phase'

\* Such a step changes nothing for an intent that was there, and adds none that is filled.
LEMMA QuietIntents ==
    ASSUME Quiet
    PROVE  /\ \A i \in Approved : /\ Exit(i)' <=> Exit(i)
                                  /\ IsRoll(i)' <=> IsRoll(i)
                                  /\ Filled(i)' <=> Filled(i)
                                  /\ Certified(i)' <=> Certified(i)
                                  /\ i \in Approved'
           /\ \A i \in Approved' : Certified(i)' => i \in Approved
           /\ \A i \in Approved' : Filled(i)' => i \in Approved
           /\ \A i : (Recorded(i)' <=> Recorded(i)) /\ At(i)' = At(i)
           /\ Position' = Position
    BY DEF Quiet, OrdersKeep, SameOrder, CertificatesKeep, Exit, IsRoll, Filled, Certified, Recorded,
           At, Position

\* A quiet step leaves the states as StatesOK has them.
LEMMA QuietStates ==
    ASSUME BookTypeOK, BookTypeOK', StatesOK, Quiet
    PROVE  StatesOK'
<1>1. \A n \in DOMAIN states : /\ states[n].intent \in Approved' /\ Certified(states[n].intent)'
                               /\ states[n].at \in 1 .. now' /\ states[n].phase <= phase'
                               /\ intents'[states[n].intent].boundary <= states[n].at
  <2> TAKE n \in DOMAIN states
  <2>1. /\ states[n].intent \in Approved /\ Certified(states[n].intent)
        /\ states[n].at \in 1 .. now /\ states[n].phase <= phase
        /\ intents[states[n].intent].boundary <= states[n].at
    BY DEF StatesOK
  <2>2. now \in Nat /\ now' \in Nat /\ now <= now' /\ phase \in Nat /\ phase' \in Nat /\ phase <= phase'
    BY Rows, RowsNext DEF Quiet
  <2>3. states[n].phase \in Nat
    BY Rows, PhasesAreNumbers DEF StateRow
  <2>4. intents'[states[n].intent].boundary = intents[states[n].intent].boundary
    BY <2>1 DEF Quiet, OrdersKeep, SameOrder
  <2>5. states[n].intent \in Approved' /\ Certified(states[n].intent)'
    <3>1. states' = states
      BY DEF Quiet
    <3> QED
      BY <2>1, <3>1, QuietIntents
  <2> QED
    BY <2>1, <2>2, <2>3, <2>4, <2>5
<1>2. \A i \in Approved' : Certified(i)' => \E n \in DOMAIN states : states[n].intent = i
    BY QuietIntents DEF StatesOK
<1>3. states' = states
    BY DEF Quiet
<1> QED
    BY <1>1, <1>2, <1>3 DEF StatesOK

\* A quiet step fills nothing.
LEMMA QuietFills ==
    ASSUME BookTypeOK, StatesOK, FillsOK, Quiet
    PROVE  FillsOK'
<1>1. states' = states /\ held' = held
    BY DEF Quiet
<1>2. \A n \in DOMAIN states : /\ states[n].intent \in Approved
                               /\ Filled(states[n].intent)' <=> Filled(states[n].intent)
                               /\ Exit(states[n].intent)' <=> Exit(states[n].intent)
                               /\ IsRoll(states[n].intent)' <=> IsRoll(states[n].intent)
                               /\ intents'[states[n].intent].fingerprint = intents[states[n].intent].fingerprint
    BY QuietIntents DEF StatesOK, Quiet, OrdersKeep, SameOrder
<1>3. DOMAIN states = 1 .. Len(states) /\ Len(states) \in Nat
    BY Rows
<1> SUFFICES ASSUME NEW n \in DOMAIN states
             PROVE  LET i == states[n].intent
                    IN  /\ states[n].filled = {states[m].intent : m \in {k \in 1 .. n : Filled(states[k].intent)'}}
                        /\ Filled(i)' /\ ~Exit(i)' /\ states[n].filled = {i} => states[n].inventory = {i}
                        /\ Filled(i)' /\ Exit(i)' /\ n > 1 =>
                              states[n].inventory = (states[n - 1].inventory \ {intents'[i].fingerprint})
                                                        \cup (IF IsRoll(i)' THEN {i} ELSE {})
                        /\ (\A m \in n + 1 .. Len(states) : ~Filled(states[m].intent)') =>
                              held = states[n].inventory
    BY <1>1 DEF FillsOK
<1>4. \A k \in 1 .. n : k \in DOMAIN states
    BY <1>3
<1>5. {k \in 1 .. n : Filled(states[k].intent)'} = {k \in 1 .. n : Filled(states[k].intent)}
    BY <1>2, <1>4
<1>6. (\A m \in n + 1 .. Len(states) : ~Filled(states[m].intent)')
         <=> (\A m \in n + 1 .. Len(states) : ~Filled(states[m].intent))
    BY <1>2, <1>3
<1> QED
    BY <1>2, <1>5, <1>6 DEF FillsOK

\* A quiet step leaves the account as it is.
LEMMA QuietHeld ==
    ASSUME BookTypeOK, ExitsOK, HeldOK, Quiet
    PROVE  HeldOK'
<1>1. held' = held
    BY DEF Quiet
<1>2. \A i \in Approved : intents'[i].fingerprint = intents[i].fingerprint
    BY DEF Quiet, OrdersKeep, SameOrder
<1> QED
    BY <1>1, <1>2, QuietIntents DEF HeldOK

\* A quiet step leaves the rows of a recorded fill as they are.
LEMMA QuietRow ==
    ASSUME Quiet, NEW i, RowOK(i)
    PROVE  RowOK(i)'
<1>1. i \in Approved /\ Filled(i)
    BY DEF RowOK
<1>2. /\ i \in Approved' /\ Filled(i)' /\ intents'[i].action = intents[i].action
      /\ intents'[i].snapshot = intents[i].snapshot /\ intents'[i].boundary = intents[i].boundary
      /\ intents'[i].session = intents[i].session
    BY <1>1, QuietIntents DEF Quiet, OrdersKeep, SameOrder
<1>3. chain' = chain /\ states' = states /\ positions' = positions
    BY DEF Quiet
<1> QED
    BY <1>2, <1>3 DEF RowOK, At, Position

\* So it does with all of them.
LEMMA QuietChain ==
    ASSUME ChainOK, Quiet
    PROVE  ChainOK'
<1>1. chain' = chain /\ states' = states /\ positions' = positions
    BY DEF Quiet
<1>2. \A i \in Ids : Recorded(i)' <=> Recorded(i)
    BY QuietIntents
<1>3. \A i \in Ids : RowOK(i) => RowOK(i)'
    BY QuietRow
<1> QED
    BY <1>1, <1>2, <1>3 DEF ChainOK, Recorded, At, Position

\* What a step that loads no position does to the reviews: a review under way goes on, or
\* what it decided is stored.
SameReview(x, y) ==
    /\ x.at = y.at /\ x.session = y.session /\ x.position = y.position /\ x.snapshot = y.snapshot
    /\ x.fingerprint = y.fingerprint /\ x.mayRoll = y.mayRoll

RunsQuiet ==
    \A r \in Runs : /\ run'[r].at <= now'
                    /\ Reviewing(r)' => Reviewing(r) /\ SameReview(run'[r], run[r])

ApprovedBy(x, y) ==
    /\ x.position = y.position /\ x.snapshot = y.snapshot /\ x.fingerprint = y.fingerprint
    /\ x.boundary = y.at /\ x.session = y.session

IntentsQuiet ==
    \A i \in Approved' \ Approved : Exit(i)' =>
        \E r \in Runs : /\ Reviewing(r) /\ ApprovedBy(intents'[i], run[r])
                        /\ IsRoll(i)' => run[r].mayRoll

DecisionsQuiet ==
    /\ decisions \subseteq decisions'
    /\ \A d \in decisions' \ decisions : d.kind = "REVIEW" =>
          \E r \in Runs : Reviewing(r) /\ d.position = run[r].position /\ d.boundary = run[r].at

\* An exit that a quiet step approves was reviewed by a run that had loaded the position.
LEMMA QuietExits ==
    ASSUME ExitsOK, RunsOK, Quiet, IntentsQuiet
    PROVE  ExitsOK'
<1> SUFFICES ASSUME NEW i \in Approved', Exit(i)'
             PROVE  /\ intents'[i].position = 1 /\ Reviewable(intents'[i].snapshot)
                    /\ intents'[i].fingerprint = intents'[i].snapshot
    BY DEF Quiet, ExitsOK, Reviewable, Recorded
<1>1. CASE i \in Approved
    BY <1>1, QuietIntents DEF Quiet, OrdersKeep, SameOrder, ExitsOK
<1>2. CASE i \notin Approved
  <2>1. PICK r \in Runs : Reviewing(r) /\ ApprovedBy(intents'[i], run[r])
    BY <1>2 DEF IntentsQuiet
  <2> QED
    BY <2>1 DEF ApprovedBy, RunsOK
<1> QED
    BY <1>1, <1>2

\* A run that a quiet step moves reviews what it reviewed before.
LEMMA QuietRuns ==
    ASSUME RunsOK, Quiet, RunsQuiet
    PROVE  RunsOK'
<1> SUFFICES ASSUME NEW r \in Runs
             PROVE  /\ run'[r].at <= now'
                    /\ Reviewing(r)' => /\ run'[r].position = 1 /\ positions' # <<>>
                                        /\ Reviewable(run'[r].snapshot)
                                        /\ run'[r].fingerprint = run'[r].snapshot
    BY DEF Quiet, RunsOK, Reviewable, Recorded
<1> QED
    BY DEF RunsQuiet, SameReview, RunsOK, Quiet

\* A roll that a quiet step approves was permitted when its run loaded the position.
LEMMA QuietRolls ==
    ASSUME RollsOK, Quiet, RunsQuiet, IntentsQuiet
    PROVE  RollsOK'
<1>1. \A c, p : NoRollYet(c, p)' <=> NoRollYet(c, p)
    BY DEF Quiet, NoRollYet, Recorded, At
<1>2. ASSUME NEW i \in Approved', IsRoll(i)' PROVE NoRollYet(intents'[i].snapshot, intents'[i].session)
  <2>1. CASE i \in Approved
    BY <1>2, <2>1, QuietIntents DEF Quiet, OrdersKeep, SameOrder, RollsOK
  <2>2. CASE i \notin Approved
    <3>1. Exit(i)'
      BY <1>2 DEF IsRoll, Exit
    <3>2. PICK r \in Runs : Reviewing(r) /\ ApprovedBy(intents'[i], run[r]) /\ run[r].mayRoll
      BY <1>2, <2>2, <3>1 DEF IntentsQuiet
    <3> QED
      BY <3>2 DEF ApprovedBy, RollsOK
  <2> QED
    BY <2>1, <2>2
<1>3. ASSUME NEW r \in Runs, Reviewing(r)', run'[r].mayRoll
      PROVE  NoRollYet(run'[r].snapshot, run'[r].session)
    BY <1>3 DEF RunsQuiet, SameReview, RollsOK
<1> QED
    BY <1>1, <1>2, <1>3 DEF RollsOK

\* The fields of a review that is told of an intent.
ReviewOf(i) == [kind |-> "REVIEW", boundary |-> intents[i].boundary, position |-> 1,
                snapshot |-> intents[i].snapshot]
ReviewedFor(i) == i \in Approved /\ Exit(i) /\ intents[i].position = 1

\* The reviews of the position are stored decisions, or those of the exits.
LEMMA ReviewsAre ==
    \A d : d \in Reviews(1) <=> \/ d \in decisions /\ d.kind = "REVIEW" /\ d.position = 1
                                \/ \E i : ReviewedFor(i) /\ d = ReviewOf(i)
    BY DEF Reviews, ReviewedFor, ReviewOf, Exit

\* The same of the next state.
LEMMA ReviewsAreNext ==
    \A d : d \in Reviews(1)' <=> \/ d \in decisions' /\ d.kind = "REVIEW" /\ d.position = 1
                                 \/ \E i : ReviewedFor(i)' /\ d = ReviewOf(i)'
    BY DEF Reviews, ReviewedFor, ReviewOf, Exit

\* No review is forgotten.
LEMMA ReviewsKeep ==
    ASSUME OrdersKeep, decisions \subseteq decisions'
    PROVE  Reviews(1) \subseteq Reviews(1)'
<1>1. \A i : ReviewedFor(i) => ReviewedFor(i)' /\ ReviewOf(i)' = ReviewOf(i)
    BY DEF OrdersKeep, SameOrder, ReviewedFor, ReviewOf, Exit
<1> QED
    BY <1>1, ReviewsAre, ReviewsAreNext

\* A review that a quiet step stores is of a run that was reviewing.
LEMMA QuietReviews ==
    ASSUME RunsOK, Quiet, IntentsQuiet, DecisionsQuiet, NEW d \in Reviews(1)', d \notin Reviews(1)
    PROVE  \E r \in Runs : Reviewing(r) /\ d.boundary = run[r].at
<1>1. CASE d \in decisions' /\ d.kind = "REVIEW" /\ d.position = 1
    BY <1>1, ReviewsAre DEF DecisionsQuiet
<1>2. CASE \E i : ReviewedFor(i)' /\ d = ReviewOf(i)'
  <2>1. PICK i : ReviewedFor(i)' /\ d = ReviewOf(i)'
    BY <1>2
  <2>2. i \notin Approved
    <3> SUFFICES ASSUME i \in Approved PROVE FALSE
      OBVIOUS
    <3>1. ReviewedFor(i) /\ ReviewOf(i)' = ReviewOf(i)
      BY <2>1 DEF Quiet, OrdersKeep, SameOrder, ReviewedFor, ReviewOf, Exit
    <3> QED
      BY <2>1, <3>1, ReviewsAre
  <2>3. PICK r \in Runs : Reviewing(r) /\ ApprovedBy(intents'[i], run[r])
    BY <2>1, <2>2 DEF IntentsQuiet, ReviewedFor
  <2>4. d.boundary = intents'[i].boundary
    BY <2>1 DEF ReviewOf
  <2> QED
    BY <2>3, <2>4 DEF ApprovedBy
<1> QED
    BY <1>1, <1>2, ReviewsAreNext

\* The moments of the reviews are times of the model.
LEMMA MomentsAreTimes ==
    ASSUME BookTypeOK
    PROVE  Moments \subseteq Time
<1>1. \A d \in Reviews(1) : d.boundary \in Time
  <2>1. \A i : ReviewedFor(i) => ReviewOf(i).boundary \in Time
    BY Rows DEF ReviewedFor, ReviewOf, IntentRow
  <2>2. \A d \in decisions : d.boundary \in Time
    BY DEF BookTypeOK, DecisionRow
  <2> QED
    BY <2>1, <2>2, ReviewsAre
<1>2. \A r \in Runs : run[r].at \in Time
    BY Rows DEF RunState
<1> QED
    BY <1>1, <1>2 DEF Moments

\* No quiet step adds a moment that the close or a waiting fill has passed.
LEMMA QuietMoments ==
    ASSUME BookTypeOK, BookTypeOK', RunsOK, StatesOK, MomentsOK, Quiet, RunsQuiet, IntentsQuiet, DecisionsQuiet
    PROVE  MomentsOK'
<1>1. Moments' \subseteq Moments
  <2>1. \A d \in Reviews(1)' : d.boundary \in Moments
    BY QuietReviews DEF Moments
  <2>2. \A r \in Runs : Reviewing(r)' => run'[r].at \in Moments
    BY DEF RunsQuiet, SameReview, Moments
  <2> QED
    BY <2>1, <2>2 DEF Moments
<1>2. \A n \in DOMAIN states : Waiting(n)' => Waiting(n)
    BY QuietIntents DEF Waiting, StatesOK, Quiet, OrdersKeep, SameOrder
<1>3. positions' = positions /\ states' = states
    BY DEF Quiet
<1>4. positions = <<>> => Reviews(1)' = {}
  <2> SUFFICES ASSUME positions = <<>>, NEW d \in Reviews(1)' PROVE FALSE
    OBVIOUS
  <2>1. d \notin Reviews(1)
    BY DEF MomentsOK
  <2> QED
    BY <2>1, QuietReviews DEF RunsOK
<1>5. \A t \in Moments : t <= now'
  <2>1. Moments \subseteq Time
    BY MomentsAreTimes
  <2>2. now \in Nat /\ now' \in Nat /\ now <= now'
    BY Rows, RowsNext DEF Quiet
  <2>3. \A t \in Time : t \in Nat
    BY BookAssumption DEF Time
  <2>4. \A t \in Moments : t <= now
    BY DEF MomentsOK
  <2> QED
    BY <2>1, <2>2, <2>3, <2>4
<1> QED
    BY <1>1, <1>2, <1>3, <1>4, <1>5 DEF MomentsOK, Position

\* A quiet step writes no transition.
LEMMA QuietTransitions ==
    ASSUME BookTypeOK, ChainOK, Quiet, BookTypeOK'
    PROVE  Transitions(1)' = Transitions(1)
<1>1. \A i \in Approved' : Recorded(i) => i \in Approved
    BY RowsNext DEF ChainOK, RowOK
<1> QED
    BY <1>1, QuietIntents DEF Transitions, Quiet, OrdersKeep, Recorded

\* So a record still has the transitions it was made of.
LEMMA QuietRecord ==
    ASSUME BookTypeOK, BookTypeOK', ArchiveTypeOK, StatesOK, ChainOK, Quiet, decisions \subseteq decisions',
           NEW x \in RecordRow, RecordOK(x)
    PROVE  RecordOK(x)'
<1>1. positions' = positions /\ states' = states /\ chain' = chain
    BY DEF Quiet
<1>2. Through(Transitions(1), x.asOf)' = Through(Transitions(1), x.asOf)
    BY <1>1, QuietTransitions DEF Through
<1>3. ReviewsThrough(1, x.asOf) \subseteq ReviewsThrough(1, x.asOf)'
    BY ReviewsKeep DEF Quiet, ReviewsThrough
<1>4. \A n \in DOMAIN states : Waiting(n)' => Waiting(n)
    BY QuietIntents DEF Waiting, StatesOK, Quiet, OrdersKeep, SameOrder
<1>5. x.asOf <= now'
  <2>1. x.asOf \in Nat
    BY BookAssumption DEF RecordRow, Time
  <2> QED
    BY <2>1, Rows, RowsNext DEF RecordOK, Quiet
<1> QED
    BY <1>1, <1>2, <1>3, <1>4, <1>5 DEF RecordOK

\* A quiet step leaves the archive as ArchiveOK has it.
LEMMA QuietArchive ==
    ASSUME BookTypeOK, BookTypeOK', ArchiveTypeOK, StatesOK, ChainOK, ArchiveOK, Quiet,
           decisions \subseteq decisions', UNCHANGED <<archive, publisher>>
    PROVE  ArchiveOK'
<1>1. \A n \in DOMAIN archive : archive[n] \in RecordRow
    BY DEF ArchiveTypeOK
<1>2. \A x \in RecordRow : RecordOK(x) => RecordOK(x)'
    BY QuietRecord
<1>3. positions' = positions
    BY DEF Quiet
<1> QED
    BY <1>1, <1>2, <1>3 DEF ArchiveOK

\* A step that finalizes, records, loads and publishes nothing keeps the invariant.
LEMMA QuietInv ==
    ASSUME BInv, BookTypeOK', IntentsOK', Quiet, RunsQuiet, IntentsQuiet, DecisionsQuiet,
           UNCHANGED <<archive, publisher>>
    PROVE  BInv'
<1> USE DEF BInv
<1>1. ArchiveTypeOK'
    BY DEF ArchiveTypeOK
<1>2. StatesOK' /\ FillsOK' /\ HeldOK' /\ ChainOK'
    BY QuietStates, QuietFills, QuietHeld, QuietChain
<1>3. ExitsOK' /\ RunsOK' /\ RollsOK'
    BY QuietExits, QuietRuns, QuietRolls
<1>4. MomentsOK' /\ ArchiveOK'
    BY QuietMoments, QuietArchive DEF DecisionsQuiet
<1> QED
    BY <1>1, <1>2, <1>3, <1>4

\* Steps that leave the intents, the decisions or the runs alone are quiet there.
LEMMA SameIntents ==
    ASSUME UNCHANGED intents
    PROVE  OrdersKeep /\ CertificatesKeep /\ IntentsQuiet /\ Approved' = Approved
    BY DEF OrdersKeep, SameOrder, CertificatesKeep, IntentsQuiet, Approved

LEMMA SameDecisions == UNCHANGED decisions => DecisionsQuiet
    BY DEF DecisionsQuiet

\* Runs other than r do not move.
OnlyRun(r) == \A q \in Runs : q # r => run'[q] = run[q]

\* A step of one run leaves the others where they were.
LEMMA RunsStay ==
    ASSUME BookTypeOK, RunsOK, NEW r \in Runs, OnlyRun(r), now' \in Nat, now <= now', run'[r] \in RunState,
           run'[r].at <= now', Reviewing(r)' => Reviewing(r) /\ SameReview(run'[r], run[r])
    PROVE  RunsQuiet
<1> SUFFICES ASSUME NEW q \in Runs
             PROVE  /\ run'[q].at <= now'
                    /\ Reviewing(q)' => Reviewing(q) /\ SameReview(run'[q], run[q])
    BY DEF RunsQuiet
<1>1. CASE q = r
    BY <1>1
<1>2. CASE q # r
  <2>1. run'[q] = run[q]
    BY <1>2 DEF OnlyRun
  <2>2. run[q].at \in Nat /\ run[q].at <= now /\ now \in Nat
    BY Rows, BookAssumption, SMTT(30) DEF RunState, Time, RunsOK
  <2> QED
    BY <2>1, <2>2 DEF Reviewing, SameReview
<1> QED
    BY <1>1, <1>2

LEMMA SameRuns ==
    ASSUME BookTypeOK, RunsOK, UNCHANGED run, now' \in Nat, now <= now'
    PROVE  RunsQuiet
<1> SUFFICES ASSUME NEW q \in Runs
             PROVE  /\ run'[q].at <= now'
                    /\ Reviewing(q)' => Reviewing(q) /\ SameReview(run'[q], run[q])
    BY DEF RunsQuiet
<1>1. run[q].at \in Nat /\ run[q].at <= now /\ now \in Nat
    BY Rows, BookAssumption DEF RunState, Time, RunsOK
<1> QED
    BY <1>1 DEF Reviewing, SameReview

\* A step of one run is a step of that run only.
LEMMA RunMoves ==
    ASSUME BookTypeOK, NEW r \in Runs, NEW x \in RunState, run' = [run EXCEPT ![r] = x]
    PROVE  run' \in [Runs -> RunState] /\ run'[r] = x /\ OnlyRun(r)
    BY DEF BookTypeOK, OnlyRun

\* A run that ends reviews nothing.
LEMMA IdleQuiet ==
    ASSUME BookTypeOK, RunsOK, NEW r \in Runs, run' = [run EXCEPT ![r] = Idle], now' = now
    PROVE  run' \in [Runs -> RunState] /\ RunsQuiet
<1>1. Idle \in RunState /\ Idle.at = 0 /\ Idle.pc = "idle"
    BY IdleIsRun DEF Idle
<1>2. run' \in [Runs -> RunState] /\ run'[r] = Idle /\ OnlyRun(r)
    BY <1>1, RunMoves
<1>3. now' \in Nat /\ now <= now' /\ 0 <= now'
    BY Rows
<1>4. ~Reviewing(r)'
    BY <1>1, <1>2 DEF Reviewing
<1> QED
    BY <1>1, <1>2, <1>3, <1>4, RunsStay

\* Intents that stay as they are, with the same clock or a later one.
LEMMA SameIntentsOK ==
    ASSUME BookTypeOK, IntentsOK, UNCHANGED intents, now' \in Nat, now <= now'
    PROVE  IntentsOK'
<1>1. \A i \in Approved : intents[i].boundary \in Nat /\ now \in Nat
    BY Rows, BookAssumption DEF IntentRow, Time
<1> QED
    BY <1>1 DEF IntentsOK, Approved, Certified

-----------------------------------------------------------------------------
(* The steps of runs *)

\* One lemma for each action: the steps of a run.
LEMMA StartRunInv ==
    ASSUME BInv, NEW r \in Runs, StartRun(r), UNCHANGED <<archive, publisher>>
    PROVE  BInv'
<1> USE DEF BInv
<1> DEFINE at == IF Stamped(now) THEN now + 1 ELSE now
           x == [Idle EXCEPT !.pc = "started", !.at = at, !.session = phase]
<1>1. /\ at <= MaxTime /\ now' = at /\ run' = [run EXCEPT ![r] = x]
      /\ UNCHANGED <<role, phase, held, intents, states, positions, chain, decisions, latched>>
    BY DEF StartRun, rows
<1>2. at \in Nat /\ now <= at /\ at \in Time
    BY <1>1, Rows DEF Time
<1> HIDE DEF at
<1>3. x \in RunState /\ x.at = at /\ x.pc = "started"
  <2>1. Idle \in RunState /\ phase \in Phases
    BY IdleIsRun, PhaseIsPhase
  <2> QED
    BY <1>2, <2>1 DEF RunState
<1> HIDE DEF x
<1>4. run' \in [Runs -> RunState] /\ run'[r] = x /\ OnlyRun(r)
    BY <1>1, <1>3, RunMoves
<1>5. RunsQuiet
  <2>1. ~Reviewing(r)'
    BY <1>3, <1>4 DEF Reviewing
  <2> QED
    BY <1>1, <1>2, <1>3, <1>4, <2>1, RunsStay
<1>6. BookTypeOK'
    BY <1>1, <1>2, <1>4 DEF BookTypeOK
<1>7. IntentsOK' /\ Quiet
  <2>1. phase \in Nat
    BY Rows
  <2> QED
    BY <1>1, <1>2, <2>1, SameIntents, SameIntentsOK DEF Quiet
<1> QED
    BY <1>1, <1>5, <1>6, <1>7, SameIntents, SameDecisions, QuietInv

\* A step that only moves a run, and loads nothing.
LEMMA RunOnlyInv ==
    ASSUME BInv, NEW r \in Runs, UNCHANGED <<role, now, phase, held, rows, latched>>,
           run' \in [Runs -> RunState], RunsQuiet, UNCHANGED <<archive, publisher>>
    PROVE  BInv'
<1> USE DEF BInv
<1>1. UNCHANGED <<intents, states, positions, chain, decisions>>
    BY DEF rows
<1>2. BookTypeOK'
    BY <1>1 DEF BookTypeOK
<1>3. now \in Nat /\ phase \in Nat
    BY Rows
<1>4. IntentsOK' /\ Quiet
    BY <1>1, <1>3, SameIntents, SameIntentsOK DEF Quiet
<1> QED
    BY <1>1, <1>2, <1>4, SameIntents, SameDecisions, QuietInv

LEMMA EndRunInv ==
    ASSUME BInv, NEW r \in Runs, EndRun(r), UNCHANGED <<archive, publisher>>
    PROVE  BInv'
    BY IdleQuiet, RunOnlyInv DEF EndRun, BInv

\* The control point of a run changes.
LEMMA PcMoves ==
    ASSUME BookTypeOK, RunsOK, NEW r \in Runs, NEW pc \in {"entry", "bound"},
           run' = [run EXCEPT ![r].pc = pc], pc = "bound" => Reviewing(r), now' = now
    PROVE  run' \in [Runs -> RunState] /\ RunsQuiet
<1> DEFINE x == [run[r] EXCEPT !.pc = pc]
<1>1. x \in RunState /\ SameReview(x, run[r]) /\ x.pc = pc
    BY Rows DEF RunState, SameReview
<1>2. run' = [run EXCEPT ![r] = x]
    BY DEF BookTypeOK
<1> HIDE DEF x
<1>3. run' \in [Runs -> RunState] /\ run'[r] = x /\ OnlyRun(r)
    BY <1>1, <1>2, RunMoves
<1>4. x.at <= now /\ now \in Nat
    BY <1>1, Rows DEF SameReview, RunsOK
<1>5. Reviewing(r)' => Reviewing(r) /\ SameReview(run'[r], run[r])
    BY <1>1, <1>3 DEF Reviewing
<1>6. now' \in Nat /\ now <= now'
    BY <1>4
<1>7. run'[r] \in RunState /\ run'[r].at <= now
    BY <1>1, <1>3, <1>4
<1>8. RunsQuiet
    BY <1>3, <1>5, <1>6, <1>7, RunsStay
<1> QED
    BY <1>3, <1>8

LEMMA AskForEntryInv ==
    ASSUME BInv, NEW r \in Runs, AskForEntry(r), UNCHANGED <<archive, publisher>>
    PROVE  BInv'
<1>1. run' \in [Runs -> RunState] /\ RunsQuiet
    BY PcMoves DEF AskForEntry, BInv
<1> QED
    BY <1>1, RunOnlyInv DEF AskForEntry

LEMMA PersistManifestInv ==
    ASSUME BInv, NEW r \in Runs, PersistManifest(r), UNCHANGED <<archive, publisher>>
    PROVE  BInv'
<1>1. run' \in [Runs -> RunState] /\ RunsQuiet
  <2>1. Reviewing(r)
    BY DEF PersistManifest, Reviewing
  <2> QED
    BY <2>1, PcMoves DEF PersistManifest, BInv
<1> QED
    BY <1>1, RunOnlyInv DEF PersistManifest

\* A decision that is stored, by a run that ends with it.
LEMMA DecisionInv ==
    ASSUME BInv, NEW r \in Runs, NEW d \in DecisionRow, decisions' = decisions \cup {d},
           d.kind = "REVIEW" => Reviewing(r) /\ d.position = run[r].position /\ d.boundary = run[r].at,
           run' = [run EXCEPT ![r] = Idle],
           UNCHANGED <<role, now, phase, held, intents, states, positions, chain, latched>>,
           UNCHANGED <<archive, publisher>>
    PROVE  BInv'
<1> USE DEF BInv
<1>1. run' \in [Runs -> RunState] /\ RunsQuiet
    BY IdleQuiet
<1>2. BookTypeOK'
    BY <1>1 DEF BookTypeOK
<1>3. now \in Nat /\ phase \in Nat
    BY Rows
<1>4. IntentsOK' /\ Quiet
    BY <1>3, SameIntents, SameIntentsOK DEF Quiet
<1>5. DecisionsQuiet
    BY DEF DecisionsQuiet
<1> QED
    BY <1>1, <1>2, <1>4, <1>5, SameIntents, QuietInv

LEMMA DecideNoTradeInv ==
    ASSUME BInv, NEW r \in Runs, NEW kind \in {"NO_TRADE", "CALIBRATION"}, DecideNoTrade(r, kind),
           UNCHANGED <<archive, publisher>>
    PROVE  BInv'
<1> DEFINE d == [kind |-> kind, boundary |-> run[r].at, position |-> 0, snapshot |-> 0]
<1>1. d \in DecisionRow
  <2>1. run[r].at \in Time /\ 0 \in 0 .. MaxIntents
    BY Rows, BookAssumption DEF RunState, BInv
  <2> QED
    BY <2>1 DEF DecisionRow
<1>2. d.kind # "REVIEW" /\ decisions' = decisions \cup {d}
    BY DEF DecideNoTrade
<1>3. /\ run' = [run EXCEPT ![r] = Idle]
      /\ UNCHANGED <<role, now, phase, held, intents, states, positions, chain, latched>>
    BY DEF DecideNoTrade
<1> HIDE DEF d
<1> QED
    BY <1>1, <1>2, <1>3, DecisionInv

LEMMA DecideHoldInv ==
    ASSUME BInv, NEW r \in Runs, DecideHold(r), UNCHANGED <<archive, publisher>>
    PROVE  BInv'
<1> DEFINE d == [kind |-> "REVIEW", boundary |-> run[r].at, position |-> run[r].position,
                 snapshot |-> run[r].snapshot]
<1>1. d \in DecisionRow
    BY Rows DEF RunState, DecisionRow, BInv
<1>2. d.position = run[r].position /\ d.boundary = run[r].at /\ decisions' = decisions \cup {d}
    BY DEF DecideHold
<1>3. /\ run' = [run EXCEPT ![r] = Idle] /\ Reviewing(r)
      /\ UNCHANGED <<role, now, phase, held, intents, states, positions, chain, latched>>
    BY DEF DecideHold, Reviewing
<1> HIDE DEF d
<1> QED
    BY <1>1, <1>2, <1>3, DecisionInv

\* An intent that is approved by a run that ends with it.
LEMMA ApprovalInv ==
    ASSUME BInv, NEW r \in Runs, NEW action \in {"ENTRY", "ROLL", "CLOSE"},
           NEW f \in 0 .. MaxIntents, NEW c \in 0 .. MaxIntents, NEW p \in Nat,
           Len(intents) < MaxIntents, Approve(r, action, f, c, p),
           action = "ENTRY" => p = 0 /\ c = 0,
           action # "ENTRY" => /\ Reviewing(r) /\ p = run[r].position /\ c = run[r].snapshot
                               /\ f = run[r].fingerprint,
           action = "ROLL" => run[r].mayRoll,
           run' = [run EXCEPT ![r] = Idle],
           UNCHANGED <<role, now, phase, held, states, positions, chain, decisions, latched>>,
           UNCHANGED <<archive, publisher>>
    PROVE  BInv'
<1> USE DEF BInv
<1>0. PICK N : N = Len(intents) + 1
    OBVIOUS
<1>1. /\ intents' \in Seq(IntentRow) /\ Len(intents') <= MaxIntents
      /\ Approved' = Approved \cup {N} /\ N \in Ids /\ N \notin Approved
      /\ \A i \in Approved : intents'[i] = intents[i]
      /\ intents'[N].action = action /\ intents'[N].fingerprint = f
      /\ intents'[N].snapshot = c /\ intents'[N].position = p
      /\ intents'[N].boundary = run[r].at /\ intents'[N].session = run[r].session
      /\ intents'[N].state = "READY" /\ intents'[N].certificate = "NONE"
    BY <1>0, ApprovalAdds
<1>2. run' \in [Runs -> RunState] /\ RunsQuiet
    BY IdleQuiet
<1>3. BookTypeOK'
    BY <1>1, <1>2 DEF BookTypeOK
<1>4. IntentsOK'
  <2>1. run[r].at <= now
    BY DEF RunsOK
  <2> QED
    BY <1>1, <2>1 DEF IntentsOK, Certified
<1>5. Quiet
  <2>1. OrdersKeep /\ CertificatesKeep
    BY <1>1 DEF OrdersKeep, SameOrder, CertificatesKeep
  <2> QED
    BY <2>1, Rows DEF Quiet
<1>6. IntentsQuiet
  <2>1. \A i \in Approved' \ Approved : i = N
    BY <1>1
  <2>2. Exit(N)' => Reviewing(r) /\ ApprovedBy(intents'[N], run[r])
    BY <1>1 DEF Exit, ApprovedBy
  <2>3. IsRoll(N)' => run[r].mayRoll
    BY <1>1 DEF IsRoll
  <2> QED
    BY <2>1, <2>2, <2>3 DEF IntentsQuiet
<1> QED
    BY <1>2, <1>3, <1>4, <1>5, <1>6, SameDecisions, QuietInv

LEMMA DecideEntryInv ==
    ASSUME BInv, NEW r \in Runs, DecideEntry(r), UNCHANGED <<archive, publisher>>
    PROVE  BInv'
<1>1. /\ Len(intents) < MaxIntents /\ Approve(r, "ENTRY", 0, 0, 0) /\ run' = [run EXCEPT ![r] = Idle]
      /\ UNCHANGED <<role, now, phase, held, states, positions, chain, decisions, latched>>
    BY DEF DecideEntry
<1>2. 0 \in 0 .. MaxIntents
    BY BookAssumption
<1> QED
    BY <1>1, <1>2, ApprovalInv

LEMMA DecideExitInv ==
    ASSUME BInv, NEW r \in Runs, NEW action \in {"ROLL", "CLOSE"}, DecideExit(r, action),
           UNCHANGED <<archive, publisher>>
    PROVE  BInv'
<1>1. /\ Len(intents) < MaxIntents
      /\ Approve(r, action, run[r].fingerprint, run[r].snapshot, run[r].position)
      /\ run' = [run EXCEPT ![r] = Idle]
      /\ UNCHANGED <<role, now, phase, held, states, positions, chain, decisions, latched>>
    BY DEF DecideExit
<1>2. /\ run[r].fingerprint \in 0 .. MaxIntents /\ run[r].snapshot \in 0 .. MaxIntents
      /\ run[r].position \in Nat
    BY Rows DEF RunState, BInv
<1>3. Reviewing(r)
    BY DEF DecideExit, Reviewing
<1>4. action = "ROLL" => run[r].mayRoll
    BY DEF DecideExit
<1> QED
    BY <1>1, <1>2, <1>3, <1>4, ApprovalInv

-----------------------------------------------------------------------------
(* The position *)

\* A recorded fill has its rows, and there is a position.
LEMMA RecordedIs ==
    ASSUME ChainOK, NEW i \in Ids, Recorded(i)
    PROVE  RowOK(i) /\ positions # <<>>
    BY DEF ChainOK

\* There is one position.
LEMMA ThePosition ==
    ASSUME BookTypeOK, ChainOK, positions # <<>>
    PROVE  /\ Len(positions) = 1 /\ DOMAIN positions = {1}
           /\ Position \in PositionRow /\ Position.entry \in Ids /\ Position.current \in Ids
           /\ Position.fingerprint \in 0 .. MaxIntents /\ Position.closed \in Time
<1>1. Len(positions) = 1 /\ DOMAIN positions = {1}
  <2>1. positions \in Seq(PositionRow) /\ Len(positions) <= 1 /\ Len(positions) \in Nat
    BY Rows DEF BookTypeOK, ChainOK
  <2>2. Len(positions) # 0 /\ DOMAIN positions = 1 .. Len(positions)
    BY <2>1, EmptySeq
  <2>3. Len(positions) = 1
    BY <2>1, <2>2
  <2> QED
    BY <2>2, <2>3
<1>2. Position \in PositionRow
    BY <1>1, Rows DEF Position
<1> QED
    BY <1>1, <1>2 DEF PositionRow

\* The states of the rows of the position.
LEMMA RowStates ==
    ASSUME BookTypeOK, StatesOK, ChainOK, positions # <<>>
    PROVE  /\ RowOK(Position.entry) /\ RowOK(Position.current)
           /\ Recorded(Position.entry) /\ Recorded(Position.current)
           /\ At(Position.entry) \in Nat /\ At(Position.current) \in Nat
           /\ At(Position.entry) <= At(Position.current)
           /\ \A i \in Ids : Recorded(i) => /\ At(i) \in DOMAIN states /\ At(i) \in Nat /\ At(i) >= 1
                                            /\ states[At(i)].intent = i
                                            /\ At(Position.entry) <= At(i) /\ At(i) <= At(Position.current)
                                            /\ chain[i].transition.at = states[At(i)].at
                                            /\ states[At(i)].at \in Nat /\ states[At(i)].at # 0
                                            /\ states[At(i)].at <= now
<1>1. Position.entry \in Ids /\ Position.current \in Ids
    BY ThePosition
<1>2. Recorded(Position.entry) /\ Recorded(Position.current)
    BY DEF ChainOK
<1>3. \A i \in Ids : Recorded(i) => RowOK(i)
    BY RecordedIs
<1>4. \A i \in Ids : Recorded(i) => /\ At(i) \in DOMAIN states /\ states[At(i)].intent = i
                                    /\ At(i) \in At(Position.entry) .. At(Position.current)
                                    /\ chain[i].transition.at = states[At(i)].at
    BY <1>3 DEF RowOK, At
<1>5. \A n \in DOMAIN states : n \in Nat /\ n >= 1 /\ states[n].at \in 1 .. now /\ now \in Nat
    BY Rows DEF StatesOK
<1>6. \A i \in Ids : Recorded(i) => At(i) \in Nat
    BY <1>4, <1>5
<1>7. At(Position.entry) \in Nat /\ At(Position.current) \in Nat
    BY <1>1, <1>2, <1>6
<1> QED
    BY <1>1, <1>2, <1>3, <1>4, <1>5, <1>7

\* The position is closed by its last transition.
LEMMA ClosedIs ==
    ASSUME BookTypeOK, StatesOK, ChainOK, positions # <<>>
    PROVE  /\ Position.closed = 0 <=> chain[Position.current].transition.action # "CLOSE"
           /\ Position.closed # 0 => Position.closed = states[At(Position.current)].at
    BY RowStates, ThePosition DEF ChainOK

\* An open position is the one there is; it has the legs of its current snapshot.
LEMMA OpenIs ==
    ASSUME BookTypeOK, StatesOK, ChainOK, NEW p \in OpenPositions
    PROVE  /\ p = 1 /\ positions # <<>> /\ positions[p] = Position /\ Position.closed = 0
           /\ Position.fingerprint = Position.current /\ Reviewable(Position.current)
<1>1. positions # <<>>
    BY DEF OpenPositions
<1>2. p = 1 /\ positions[p] = Position /\ Position.closed = 0
    BY <1>1, ThePosition DEF OpenPositions, Position
<1>3. Position.current \in Ids /\ RowOK(Position.current) /\ Recorded(Position.current)
    BY <1>1, ThePosition, RowStates
<1>4. chain[Position.current].transition.action # "CLOSE"
    BY <1>1, <1>2, ClosedIs
<1>5. Position.fingerprint = Position.current
    BY <1>1, <1>3, <1>4 DEF ChainOK, RowOK
<1> QED
    BY <1>1, <1>2, <1>3, <1>4, <1>5 DEF Reviewable

\* The legs of an open position that the broker still holds were not closed by a fill.
LEMMA NoneWaits ==
    ASSUME BookTypeOK, StatesOK, HeldOK, Position.current \in held, NEW n \in DOMAIN states
    PROVE  ~Waiting(n)
    BY DEF StatesOK, HeldOK, Waiting

\* The load of the position is where a run comes to review it: the observation agrees with the
\* book, so no fill waits, and a run that may roll has found no roll of the session.
LEMMA LoadContextInv ==
    ASSUME BInv, NEW r \in Runs, LoadContext(r), UNCHANGED <<archive, publisher>>
    PROVE  BInv'
<1> USE DEF BInv
<1>1. PICK p \in OpenPositions :
          /\ run[r].session = phase
          /\ ObservationAgrees(p)
          /\ run' = [run EXCEPT ![r] = [@ EXCEPT !.pc = "loaded", !.position = p,
                                          !.snapshot = positions[p].current,
                                          !.fingerprint = positions[p].fingerprint,
                                          !.mayRoll = role = "DEVELOPMENT" /\ ~RolledToday(p)]]
    BY DEF LoadContext
<1>2. UNCHANGED <<role, now, phase, held, intents, states, positions, chain, decisions, latched>>
    BY DEF LoadContext, rows
<1>3. /\ p = 1 /\ positions # <<>> /\ positions[p] = Position /\ Position.closed = 0
      /\ Position.fingerprint = Position.current /\ Reviewable(Position.current)
    BY OpenIs
<1> DEFINE may == role = "DEVELOPMENT" /\ ~RolledToday(p)
           x == [run[r] EXCEPT !.pc = "loaded", !.position = 1, !.snapshot = Position.current,
                               !.fingerprint = Position.current, !.mayRoll = may]
<1>4. run' = [run EXCEPT ![r] = x]
    BY <1>1, <1>3 DEF BookTypeOK
<1>5. may \in BOOLEAN /\ (may => ~RolledToday(1))
    BY <1>3
<1> HIDE DEF may
<1>6. /\ x \in RunState /\ x.pc = "loaded" /\ x.position = 1 /\ x.snapshot = Position.current
      /\ x.fingerprint = Position.current /\ x.mayRoll = may /\ x.at = run[r].at
      /\ x.session = run[r].session
  <2>1. Position.current \in 0 .. MaxIntents
    BY <1>3, ThePosition DEF Ids
  <2>2. run[r] \in RunState
    BY Rows
  <2> QED
    BY <1>5, <2>1, <2>2 DEF RunState
<1> HIDE DEF x
<1>7. run' \in [Runs -> RunState] /\ run'[r] = x /\ OnlyRun(r)
    BY <1>4, <1>6, RunMoves
<1>8. BookTypeOK' /\ ArchiveTypeOK'
    BY <1>2, <1>7 DEF BookTypeOK, ArchiveTypeOK
<1>9. now \in Nat /\ phase \in Nat
    BY Rows
<1>10. Quiet /\ IntentsQuiet /\ IntentsOK'
    BY <1>2, <1>9, SameIntents, SameIntentsOK DEF Quiet
<1>11. StatesOK' /\ FillsOK' /\ HeldOK' /\ ChainOK' /\ ArchiveOK'
    BY <1>2, <1>8, <1>10, QuietStates, QuietFills, QuietHeld, QuietChain, QuietArchive
<1>12. ExitsOK'
    BY <1>10, QuietExits
<1>13. RunsOK'
  <2> SUFFICES ASSUME NEW q \in Runs
               PROVE  /\ run'[q].at <= now
                      /\ Reviewing(q)' => /\ run'[q].position = 1 /\ positions # <<>>
                                          /\ Reviewable(run'[q].snapshot)
                                          /\ run'[q].fingerprint = run'[q].snapshot
    BY <1>2 DEF RunsOK, Reviewable, Recorded
  <2>1. CASE q = r
    BY <1>3, <1>6, <1>7, <2>1 DEF RunsOK
  <2>2. CASE q # r
    <3>1. run'[q] = run[q] /\ (Reviewing(q)' <=> Reviewing(q))
      BY <1>7, <2>2 DEF OnlyRun, Reviewing
    <3> QED
      BY <3>1 DEF RunsOK
  <2> QED
    BY <2>1, <2>2
<1>14. RollsOK'
  <2>1. \A c, s : NoRollYet(c, s)' <=> NoRollYet(c, s)
    BY <1>2 DEF NoRollYet, Recorded, At
  <2>2. may => NoRollYet(Position.current, phase)
    <3> SUFFICES ASSUME ~RolledToday(1), NEW k \in Ids, Recorded(k), chain[k].transition.action = "ROLL"
                 PROVE  chain[k].snapshot.session < phase
      BY <1>5 DEF NoRollYet
    <3>1. /\ k \in Approved /\ chain[k].transition.position = 1 /\ At(k) \in DOMAIN states
          /\ chain[k].snapshot.session = states[At(k)].phase
      BY RecordedIs DEF RowOK, At
    <3>2. chain[k].snapshot.session # phase
      BY <3>1 DEF RolledToday
    <3>3. states[At(k)].phase <= phase /\ states[At(k)].phase \in Nat
      BY <3>1, Rows, PhasesAreNumbers DEF StatesOK, StateRow
    <3> QED
      BY <1>9, <3>1, <3>2, <3>3
  <2>3. \A q \in Runs : Reviewing(q)' /\ run'[q].mayRoll => NoRollYet(run'[q].snapshot, run'[q].session)
    <3> TAKE q \in Runs
    <3>1. CASE q = r
      BY <1>1, <1>6, <1>7, <2>2, <3>1
    <3>2. CASE q # r
      <4>1. run'[q] = run[q] /\ (Reviewing(q)' <=> Reviewing(q))
        BY <1>7, <3>2 DEF OnlyRun, Reviewing
      <4> QED
        BY <4>1 DEF RollsOK
    <3> QED
      BY <3>1, <3>2
  <2> QED
    BY <1>2, <2>1, <2>3 DEF RollsOK, IsRoll, Approved
<1>15. MomentsOK'
  <2>1. Moments' \subseteq Moments \cup {run[r].at}
    <3>1. Reviews(1)' = Reviews(1)
      BY <1>2 DEF Reviews, Approved
    <3>2. \A q \in Runs : Reviewing(q)' => run'[q].at = run[r].at \/ (Reviewing(q) /\ run'[q].at = run[q].at)
      BY <1>6, <1>7 DEF OnlyRun, Reviewing
    <3> QED
      BY <3>1, <3>2 DEF Moments
  <2>2. Position.current \in held
    BY <1>1, <1>3 DEF ObservationAgrees
  <2>3. \A n \in DOMAIN states : ~Waiting(n)
    BY <2>2, NoneWaits
  <2>4. \A n \in DOMAIN states : ~Waiting(n)'
    BY <1>2, <2>3 DEF Waiting, At, Position, Filled, Exit
  <2>5. run[r].at <= now
    BY DEF RunsOK
  <2>6. \A t \in Moments' : t <= now
    BY <2>1, <2>5 DEF MomentsOK
  <2>7. Position' = Position /\ positions' # <<>>
    BY <1>2, <1>3 DEF Position
  <2> QED
    BY <1>2, <1>3, <2>4, <2>6, <2>7 DEF MomentsOK
<1> QED
    BY <1>8, <1>10, <1>11, <1>12, <1>13, <1>14, <1>15

-----------------------------------------------------------------------------
(* The steps of executions *)

\* A step of one intent that certifies nothing.
LEMMA IntentInv ==
    ASSUME BInv, NEW i \in Approved, NEW row \in IntentRow, Update(i, row),
           SameOrder(row, intents[i]), row.certificate = intents[i].certificate, ~Certified(i),
           row.state = "WORKING" => \A j \in Approved : intents[j].state # "WORKING",
           UNCHANGED <<role, now, phase, held, states, positions, chain, decisions, latched, run>>,
           UNCHANGED <<archive, publisher>>
    PROVE  BInv'
<1> USE DEF BInv
<1>1. /\ intents' \in Seq(IntentRow) /\ Len(intents') <= MaxIntents
      /\ Approved' = Approved /\ intents'[i] = row
      /\ \A j \in Approved : j # i => intents'[j] = intents[j]
    BY UpdateMoves
<1>2. BookTypeOK'
    BY <1>1 DEF BookTypeOK
<1>3. now \in Nat /\ phase \in Nat
    BY Rows
<1>4. OrdersKeep /\ CertificatesKeep
    BY <1>1 DEF OrdersKeep, SameOrder, CertificatesKeep
<1>5. Quiet
    BY <1>3, <1>4 DEF Quiet
<1>6. IntentsQuiet
    BY <1>1 DEF IntentsQuiet
<1>7. IntentsOK'
  <2>1. \A j \in Approved : intents'[j].state = "WORKING" =>
            intents[j].state = "WORKING" \/ (j = i /\ \A k \in Approved : intents[k].state # "WORKING")
    BY <1>1
  <2> QED
    BY <1>1, <2>1 DEF IntentsOK, Certified, SameOrder
<1>8. RunsQuiet
    BY <1>3, SameRuns
<1> QED
    BY <1>2, <1>5, <1>6, <1>7, <1>8, SameDecisions, QuietInv

\* The claim of an intent changes nothing but its state.
LEMMA SubmitInv ==
    ASSUME BInv, NEW i \in Approved, Submit(i), UNCHANGED <<archive, publisher>>
    PROVE  BInv'
<1> DEFINE row == [intents[i] EXCEPT !.state = "WORKING", !.submitted = now]
<1>1. row \in IntentRow /\ SameOrder(row, intents[i]) /\ row.certificate = intents[i].certificate
  <2>1. intents[i] \in IntentRow /\ now \in Time
    BY Rows DEF BInv, BookTypeOK
  <2> QED
    BY <2>1 DEF IntentRow, SameOrder
<1>2. /\ Update(i, row) /\ Claimable(i)
      /\ UNCHANGED <<role, now, phase, held, states, positions, chain, decisions, latched, run>>
    BY DEF Submit
<1>3. ~Certified(i) /\ \A j \in Approved : intents[j].state # "WORKING"
    BY <1>2 DEF Claimable, BInv, IntentsOK
<1> HIDE DEF row
<1> QED
    BY <1>1, <1>2, <1>3, IntentInv

\* So does the release of one.
LEMMA ReleaseInv ==
    ASSUME BInv, NEW i \in Approved, Release(i), UNCHANGED <<archive, publisher>>
    PROVE  BInv'
<1> DEFINE row == [intents[i] EXCEPT !.state = "TERMINAL"]
<1>1. /\ row \in IntentRow /\ SameOrder(row, intents[i]) /\ row.certificate = intents[i].certificate
      /\ row.state = "TERMINAL"
  <2>1. intents[i] \in IntentRow
    BY Rows DEF BInv
  <2> QED
    BY <2>1 DEF IntentRow, SameOrder
<1>2. /\ Update(i, row) /\ Claimable(i)
      /\ UNCHANGED <<role, now, phase, held, states, positions, chain, decisions, latched, run>>
    BY DEF Release
<1>3. ~Certified(i)
    BY <1>2 DEF Claimable, BInv, IntentsOK
<1> HIDE DEF row
<1> QED
    BY <1>1, <1>2, <1>3, IntentInv

LEMMA MarketTurnsInv ==
    ASSUME BInv, MarketTurns, UNCHANGED <<archive, publisher>>
    PROVE  BInv'
<1> USE DEF BInv
<1>1. /\ phase < MaxPhase[role] /\ phase' = phase + 1
      /\ UNCHANGED <<role, now, held, intents, states, positions, chain, decisions, latched, run>>
    BY DEF MarketTurns, rows
<1>2. now \in Nat /\ phase \in Nat /\ phase \in 1 .. MaxPhase[role] /\ MaxPhase[role] \in Nat
    BY Rows, BookAssumption DEF BookTypeOK
<1>3. phase' \in 1 .. MaxPhase[role] /\ phase <= phase'
    BY <1>1, <1>2
<1>4. BookTypeOK'
    BY <1>1, <1>3 DEF BookTypeOK
<1>5. Quiet /\ IntentsOK' /\ RunsQuiet
    BY <1>1, <1>2, <1>3, SameIntents, SameIntentsOK, SameRuns DEF Quiet
<1> QED
    BY <1>1, <1>4, <1>5, SameIntents, SameDecisions, QuietInv

\* What a finalization does to the tables.
Finalized(i, certificate, N) ==
    /\ Approved' = Approved
    /\ \A j \in Approved : SameOrder(intents'[j], intents[j]) /\ (j # i => intents'[j] = intents[j])
    /\ intents[i].state = "WORKING" /\ intents'[i].state = "TERMINAL"
    /\ intents'[i].certificate = certificate
    /\ DOMAIN states = 1 .. N - 1 /\ DOMAIN states' = 1 .. N /\ Len(states') = N /\ N \in Nat \ {0}
    /\ \A n \in DOMAIN states : states'[n] = states[n]
    /\ states'[N].intent = i /\ states'[N].filled = {j \in Approved : Filled(j)'}
    /\ states'[N].inventory = held' /\ states'[N].at = now' /\ states'[N].phase = phase
    /\ now' = now + 1
    /\ held' = IF certificate = "FILLED" THEN LegsAfter(i) ELSE held
    /\ certificate = "FILLED" /\ Exit(i) => intents[i].fingerprint \in held
    /\ UNCHANGED <<role, phase, positions, chain, decisions, run>>

\* What a finalization does to the tables, stated once.
LEMMA FinalizeDoes ==
    ASSUME BInv, NEW i \in Approved, NEW certificate \in {"FILLED", "UNFILLED", "PARTIAL"},
           Finalize(i, certificate), NEW N, N = Len(states) + 1
    PROVE  BookTypeOK' /\ Finalized(i, certificate, N)
<1> USE DEF BInv
<1> DEFINE row == [intents[i] EXCEPT !.state = "TERMINAL", !.certificate = certificate]
           filled == {j \in Approved : intents[j].certificate = "FILLED"}
                         \cup (IF certificate = "FILLED" THEN {i} ELSE {})
           legs == IF certificate = "FILLED" THEN LegsAfter(i) ELSE held
           state == [intent |-> i, filled |-> filled, inventory |-> legs, at |-> now + 1, phase |-> phase]
<1>1. /\ intents[i].state = "WORKING" /\ now < MaxTime /\ now' = now + 1 /\ held' = legs
      /\ Update(i, row) /\ states' = Append(states, state)
      /\ latched' = (latched \/ certificate = "PARTIAL")
      /\ certificate = "FILLED" /\ Exit(i) => intents[i].fingerprint \in held
      /\ UNCHANGED <<role, phase, positions, chain, decisions, run>>
    BY DEF Finalize, Exit
<1>2. /\ Approved \subseteq Ids /\ intents[i] \in IntentRow /\ now \in Nat /\ held \subseteq Ids
      /\ states \in Seq(StateRow) /\ phase \in Phases /\ MaxTime \in Nat
    BY Rows, PhaseIsPhase DEF BookTypeOK
<1>3. /\ row \in IntentRow /\ SameOrder(row, intents[i]) /\ row.state = "TERMINAL"
      /\ row.certificate = certificate
    BY <1>2 DEF IntentRow, SameOrder
<1>4. legs \subseteq Ids /\ filled \subseteq Ids
    BY <1>2 DEF LegsAfter
<1>5. now + 1 \in Time
    BY <1>1, <1>2 DEF Time
<1> HIDE DEF row, legs, filled
<1>6. state \in StateRow
    BY <1>2, <1>4, <1>5 DEF StateRow
<1>7. /\ state.intent = i /\ state.filled = filled /\ state.inventory = legs /\ state.at = now + 1
      /\ state.phase = phase
    OBVIOUS
<1> HIDE DEF state
<1>8. /\ intents' \in Seq(IntentRow) /\ Len(intents') <= MaxIntents
      /\ Approved' = Approved /\ intents'[i] = row
      /\ \A j \in Approved : j # i => intents'[j] = intents[j]
    BY <1>1, <1>3, UpdateMoves
<1>9. /\ states' \in Seq(StateRow) /\ Len(states') = N
      /\ states'[N] = state /\ \A n \in DOMAIN states : states'[n] = states[n]
    BY <1>1, <1>2, <1>6, RowAdded
<1>10. DOMAIN states = 1 .. N - 1 /\ DOMAIN states' = 1 .. N /\ N \in Nat \ {0}
    BY <1>2, <1>9
<1>11. BookTypeOK'
    BY <1>1, <1>4, <1>5, <1>8, <1>9 DEF BookTypeOK
<1>12. filled = {j \in Approved : Filled(j)'}
  <2>1. ~Filled(i)
    BY <1>1 DEF IntentsOK, Certified, Filled
  <2>2. \A j \in Approved : Filled(j)' <=> j \in filled
    BY <1>3, <1>8, <2>1 DEF Filled, filled
  <2>3. filled \subseteq Approved
    BY DEF filled
  <2> QED
    BY <2>2, <2>3
<1>13. held' = IF certificate = "FILLED" THEN LegsAfter(i) ELSE held
    BY <1>1 DEF legs
<1>14. \A j \in Approved : SameOrder(intents'[j], intents[j]) /\ (j # i => intents'[j] = intents[j])
    BY <1>3, <1>8 DEF SameOrder
<1>15. Finalized(i, certificate, N)
    BY <1>1, <1>3, <1>7, <1>8, <1>9, <1>10, <1>12, <1>13, <1>14 DEF Finalized
<1> QED
    BY <1>11, <1>15

\* A finalization keeps each part of the invariant: it ends the intent,
LEMMA FinalizedIntents ==
    ASSUME BInv, NEW i \in Approved, NEW certificate \in {"FILLED", "UNFILLED", "PARTIAL"}, NEW N,
           Finalized(i, certificate, N)
    PROVE  /\ ~Certified(i) /\ ~Filled(i) /\ Certified(i)' /\ (Filled(i)' <=> certificate = "FILLED")
           /\ \A j \in Approved : (Exit(j)' <=> Exit(j)) /\ (IsRoll(j)' <=> IsRoll(j))
           /\ \A j \in Approved : j # i => (Filled(j)' <=> Filled(j)) /\ (Certified(j)' <=> Certified(j))
           /\ \A n \in DOMAIN states : states[n].intent # i /\ states[n].intent \in Approved
           /\ \A j : (Recorded(j)' <=> Recorded(j)) /\ At(j)' = At(j)
           /\ ~Recorded(i)
           /\ Position' = Position
           /\ OrdersKeep
<1> USE DEF BInv
<1>1. ~Certified(i) /\ ~Filled(i)
    BY DEF Finalized, IntentsOK, Certified, Filled
<1>2. Certified(i)' /\ (Filled(i)' <=> certificate = "FILLED")
    BY DEF Finalized, Certified, Filled
<1>3. \A j \in Approved : (Exit(j)' <=> Exit(j)) /\ (IsRoll(j)' <=> IsRoll(j))
    BY DEF Finalized, SameOrder, Exit, IsRoll
<1>4. \A j \in Approved : j # i => (Filled(j)' <=> Filled(j)) /\ (Certified(j)' <=> Certified(j))
    BY DEF Finalized, Filled, Certified
<1>5. \A n \in DOMAIN states : states[n].intent # i /\ states[n].intent \in Approved
    BY <1>1 DEF StatesOK
<1>6. (\A j : (Recorded(j)' <=> Recorded(j)) /\ At(j)' = At(j)) /\ Position' = Position
    BY DEF Finalized, Recorded, At, Position
<1>7. ~Recorded(i)
    BY <1>1, Rows, RecordedIs DEF RowOK
<1>8. OrdersKeep
    BY DEF Finalized, OrdersKeep
<1> QED
    BY <1>1, <1>2, <1>3, <1>4, <1>5, <1>6, <1>7, <1>8

\* adds the next state,
LEMMA FinalizedStates ==
    ASSUME BInv, NEW i \in Approved, NEW certificate \in {"FILLED", "UNFILLED", "PARTIAL"}, NEW N,
           Finalized(i, certificate, N), BookTypeOK'
    PROVE  IntentsOK' /\ StatesOK'
<1> USE DEF BInv
<1>1. /\ Approved' = Approved
      /\ \A j \in Approved : SameOrder(intents'[j], intents[j]) /\ (j # i => intents'[j] = intents[j])
      /\ intents[i].state = "WORKING" /\ intents'[i].state = "TERMINAL"
      /\ DOMAIN states = 1 .. N - 1 /\ DOMAIN states' = 1 .. N /\ N \in Nat \ {0}
      /\ \A n \in DOMAIN states : states'[n] = states[n]
      /\ states'[N].intent = i /\ states'[N].at = now' /\ states'[N].phase = phase
      /\ now' = now + 1 /\ phase' = phase
    BY DEF Finalized
<1>2. now \in Nat /\ phase \in Nat /\ \A j \in Approved : intents[j].boundary \in Nat /\ intents[j].boundary <= now
    BY Rows, BookAssumption DEF IntentRow, Time, IntentsOK
<1>3. \A j \in Approved : intents'[j].boundary = intents[j].boundary /\ intents'[j].position = intents[j].position
                          /\ intents'[j].snapshot = intents[j].snapshot /\ intents'[j].action = intents[j].action
    BY <1>1 DEF SameOrder
<1>4. IntentsOK'
  <2>1. \A j \in Approved : Certified(j)' => intents'[j].state = "TERMINAL"
    BY <1>1, FinalizedIntents DEF IntentsOK
  <2>2. \A j \in Approved : intents'[j].state = "WORKING" => intents[j].state = "WORKING"
    BY <1>1
  <2>3. \A j \in Approved : intents'[j].boundary <= now'
    BY <1>1, <1>2, <1>3
  <2> QED
    BY <1>1, <1>3, <2>1, <2>2, <2>3 DEF IntentsOK
<1>5. ASSUME NEW n \in 1 .. N
      PROVE  /\ states'[n].intent \in Approved' /\ Certified(states[n].intent)'
             /\ states'[n].at \in 1 .. now' /\ states'[n].phase <= phase'
             /\ intents'[states'[n].intent].boundary <= states'[n].at
  <2>1. CASE n = N
    <3>1. Certified(states[n].intent)'
      BY <1>1, <2>1, FinalizedIntents
    <3> QED
      BY <1>1, <1>2, <1>3, <2>1, <3>1
  <2>2. CASE n # N
    <3>1. n \in DOMAIN states /\ states'[n] = states[n]
      BY <1>1, <2>2
    <3>2. /\ states[n].intent \in Approved /\ Certified(states[n].intent)
          /\ states[n].at \in 1 .. now /\ states[n].phase <= phase
          /\ intents[states[n].intent].boundary <= states[n].at
      BY <3>1 DEF StatesOK
    <3>3. Certified(states[n].intent)'
      BY <3>1, <3>2, FinalizedIntents
    <3> QED
      BY <1>1, <1>2, <1>3, <3>1, <3>2, <3>3
  <2> QED
    BY <2>1, <2>2
<1>6. ASSUME NEW j \in Approved, Certified(j)' PROVE \E n \in 1 .. N : states'[n].intent = j
  <2>1. CASE j = i
    BY <1>1, <2>1
  <2>2. CASE j # i
    <3>1. PICK n \in DOMAIN states : states[n].intent = j
      BY <1>6, <2>2, FinalizedIntents DEF StatesOK
    <3> QED
      BY <1>1, <3>1
  <2> QED
    BY <2>1, <2>2
<1>7. ASSUME NEW m \in 1 .. N, NEW n \in 1 .. N, m < n
      PROVE  /\ states'[m].intent # states'[n].intent /\ states'[m].at < states'[n].at
             /\ states'[m].phase <= states'[n].phase
  <2>1. m \in DOMAIN states /\ states'[m] = states[m]
    BY <1>1, <1>7
  <2>2. CASE n = N
    <3>1. states[m].intent # i /\ states[m].at \in 1 .. now /\ states[m].phase <= phase
      BY <2>1, FinalizedIntents DEF StatesOK
    <3> QED
      BY <1>1, <1>2, <2>1, <2>2, <3>1
  <2>3. CASE n # N
    <3>1. n \in DOMAIN states /\ states'[n] = states[n]
      BY <1>1, <2>3
    <3> QED
      BY <1>7, <2>1, <3>1 DEF StatesOK
  <2> QED
    BY <2>2, <2>3
<1>8. StatesOK'
  <2>1. DOMAIN states' = 1 .. N /\ Approved' = Approved
    BY <1>1
  <2> HIDE DEF BInv
  <2> QED
    BY <1>5, <1>6, <1>7, <2>1, Zenon DEF StatesOK
<1> QED
    BY <1>4, <1>8

\* which has seen what the account filled and holds what the account holds,
LEMMA FinalizedFills ==
    ASSUME BInv, NEW i \in Approved, NEW certificate \in {"FILLED", "UNFILLED", "PARTIAL"}, NEW N,
           Finalized(i, certificate, N), BookTypeOK', StatesOK'
    PROVE  FillsOK'
<1>1. /\ Approved' = Approved
      /\ \A j \in Approved : intents'[j].fingerprint = intents[j].fingerprint
      /\ DOMAIN states = 1 .. N - 1 /\ DOMAIN states' = 1 .. N /\ N \in Nat \ {0} /\ Len(states') = N
      /\ \A n \in DOMAIN states : states'[n] = states[n]
      /\ states'[N].intent = i /\ states'[N].filled = {j \in Approved : Filled(j)'}
      /\ states'[N].inventory = held'
      /\ held' = IF certificate = "FILLED" THEN LegsAfter(i) ELSE held
    BY DEF Finalized, SameOrder
<1>2. Len(states) = N - 1
    BY <1>1, Rows DEF BInv
<1>3. \A n \in DOMAIN states : /\ Filled(states[n].intent)' <=> Filled(states[n].intent)
                               /\ Exit(states[n].intent)' <=> Exit(states[n].intent)
                               /\ IsRoll(states[n].intent)' <=> IsRoll(states[n].intent)
                               /\ states[n].intent \in Approved
    BY <1>1, FinalizedIntents
<1>4. FillsOK
    BY DEF BInv
<1> DEFINE F(n) == {states'[m].intent : m \in {k \in 1 .. n : Filled(states[k].intent)'}}
<1> SUFFICES ASSUME NEW n \in 1 .. N
             PROVE  /\ states'[n].filled = F(n)
                    /\ Filled(states[n].intent)' /\ ~Exit(states[n].intent)'
                          /\ states'[n].filled = {states'[n].intent} => states'[n].inventory = {states'[n].intent}
                    /\ Filled(states[n].intent)' /\ Exit(states[n].intent)' /\ n > 1 =>
                          states'[n].inventory =
                              (states'[n - 1].inventory \ {intents'[states'[n].intent].fingerprint})
                                  \cup (IF IsRoll(states[n].intent)' THEN {states'[n].intent} ELSE {})
                    /\ (\A m \in n + 1 .. N : ~Filled(states[m].intent)') => held' = states'[n].inventory
    BY <1>1 DEF FillsOK
<1>5. CASE n = N
  <2>1. states'[N].filled = F(N)
    <3>1. \A j \in Approved : Filled(j)' => \E m \in 1 .. N : states'[m].intent = j
      BY <1>1 DEF StatesOK, Filled, Certified
    <3>2. \A m \in 1 .. N : states'[m].intent \in Approved
      BY <1>1 DEF StatesOK
    <3>3. \A j \in Approved : Filled(j)' => j \in F(N)
      <4> SUFFICES ASSUME NEW j \in Approved, Filled(j)' PROVE j \in F(N)
        OBVIOUS
      <4>1. PICK m \in 1 .. N : states'[m].intent = j
        BY <3>1
      <4>2. Filled(states[m].intent)'
        BY <4>1
      <4> QED
        BY <4>1, <4>2
    <3>4. \A j \in F(N) : j \in Approved /\ Filled(j)'
      BY <3>2
    <3> QED
      BY <1>1, <3>3, <3>4
  <2>2. ASSUME Filled(i)', ~Exit(i)', states'[N].filled = {i} PROVE states'[N].inventory = {i}
    <3>1. held' = held \cup {i}
      BY <1>1, <2>2, FinalizedIntents DEF LegsAfter, Exit
    <3>2. \A h \in held : h \in Approved /\ Filled(h)' /\ h # i
      BY FinalizedIntents DEF BInv, HeldOK
    <3>3. held = {}
      BY <1>1, <2>2, <3>2
    <3> QED
      BY <1>1, <3>1, <3>3
  <2>3. ASSUME Filled(i)', Exit(i)', N > 1
        PROVE  states'[N].inventory = (states'[N - 1].inventory \ {intents'[i].fingerprint})
                                          \cup (IF IsRoll(i)' THEN {i} ELSE {})
    <3>1. N - 1 \in DOMAIN states /\ states'[N - 1] = states[N - 1]
      BY <1>1, <2>3
    <3>2. held = states[N - 1].inventory
      <4>1. \A m \in (N - 1) + 1 .. Len(states) : FALSE
        BY <1>1, <1>2
      <4> QED
        BY <1>4, <3>1, <4>1 DEF FillsOK
    <3>3. held' = (held \ {intents[i].fingerprint}) \cup (IF IsRoll(i) THEN {i} ELSE {})
      BY <1>1, <2>3, FinalizedIntents DEF LegsAfter, Exit, IsRoll
    <3>4. IsRoll(i)' <=> IsRoll(i)
      BY FinalizedIntents
    <3> QED
      BY <1>1, <3>1, <3>2, <3>3, <3>4
  <2>4. states'[n].intent = i
    BY <1>1, <1>5
  <2> QED
    BY <1>1, <1>5, <2>1, <2>2, <2>3, <2>4
<1>6. CASE n # N
  <2>1. n \in DOMAIN states /\ states'[n] = states[n]
    BY <1>1, <1>6
  <2>2. \A k \in 1 .. n : k \in DOMAIN states /\ states'[k] = states[k]
    BY <1>1, <2>1
  <2>3. F(n) = {states[m].intent : m \in {k \in 1 .. n : Filled(states[k].intent)}}
    BY <1>3, <2>2
  <2>4. n > 1 => states'[n - 1] = states[n - 1]
    BY <1>1, <2>1
  <2>5. ASSUME \A m \in n + 1 .. N : ~Filled(states[m].intent)' PROVE held' = states'[n].inventory
    <3>1. ~Filled(i)'
      <4>1. N \in n + 1 .. N
        BY <1>1, <2>1
      <4> QED
        BY <1>1, <2>5, <4>1
    <3>2. held' = held
      BY <1>1, <3>1, FinalizedIntents
    <3>3. \A m \in n + 1 .. Len(states) : ~Filled(states[m].intent)
      <4>1. \A m \in n + 1 .. Len(states) : m \in DOMAIN states /\ m \in n + 1 .. N
        BY <1>1, <1>2, <2>1
      <4> QED
        BY <1>3, <2>5, <4>1
    <3> QED
      BY <1>4, <2>1, <3>2, <3>3 DEF FillsOK
  <2>6. /\ states[n].filled = {states[m].intent : m \in {k \in 1 .. n : Filled(states[k].intent)}}
        /\ Filled(states[n].intent) /\ ~Exit(states[n].intent) /\ states[n].filled = {states[n].intent}
              => states[n].inventory = {states[n].intent}
        /\ Filled(states[n].intent) /\ Exit(states[n].intent) /\ n > 1 =>
              states[n].inventory = (states[n - 1].inventory \ {intents[states[n].intent].fingerprint})
                                        \cup (IF IsRoll(states[n].intent) THEN {states[n].intent} ELSE {})
    BY <1>4, <2>1 DEF FillsOK
  <2> HIDE DEF F
  <2> QED
    BY <1>1, <1>3, <2>1, <2>3, <2>4, <2>5, <2>6, ZenonT(30)
<1> QED
    BY <1>5, <1>6

\* closes only legs that are there,
LEMMA FinalizedHeld ==
    ASSUME BInv, NEW i \in Approved, NEW certificate \in {"FILLED", "UNFILLED", "PARTIAL"}, NEW N,
           Finalized(i, certificate, N)
    PROVE  HeldOK'
<1> USE DEF BInv
<1>1. /\ Approved' = Approved
      /\ \A j \in Approved : intents'[j].fingerprint = intents[j].fingerprint
      /\ held' = IF certificate = "FILLED" THEN LegsAfter(i) ELSE held
      /\ certificate = "FILLED" /\ Exit(i) => intents[i].fingerprint \in held
    BY DEF Finalized, SameOrder
<1>2. /\ Filled(i)' <=> certificate = "FILLED"
      /\ ~Filled(i)
      /\ \A j \in Approved : j # i => (Filled(j)' <=> Filled(j))
      /\ \A j \in Approved : Exit(j)' <=> Exit(j)
    BY FinalizedIntents
<1>3. held' \subseteq held \cup {i} /\ (i \in held' => Filled(i)')
    BY <1>1, <1>2 DEF LegsAfter, HeldOK
<1>4. \A h \in held' : h \in Approved /\ Filled(h)'
    BY <1>2, <1>3 DEF HeldOK
<1>5. \A j \in Approved : Exit(j) => intents[j].fingerprint # i
  <2>1. ~Recorded(i)
    BY FinalizedIntents
  <2> QED
    BY <2>1 DEF ExitsOK, Reviewable
<1>6. ASSUME NEW j \in Approved, Filled(j)', Exit(j) PROVE intents[j].fingerprint \notin held'
  <2>1. CASE j # i
    BY <1>2, <1>3, <1>5, <1>6, <2>1 DEF HeldOK
  <2>2. CASE j = i
    <3>1. held' = (held \ {intents[i].fingerprint}) \cup (IF intents[i].action = "ROLL" THEN {i} ELSE {})
      BY <1>1, <1>2, <1>6, <2>2 DEF LegsAfter, Exit
    <3> QED
      BY <1>5, <1>6, <2>2, <3>1
  <2> QED
    BY <2>1, <2>2
<1>7. ASSUME NEW j \in Approved, NEW k \in Approved, Filled(j)', Exit(j), Filled(k)', Exit(k),
             intents[j].fingerprint = intents[k].fingerprint
      PROVE  j = k
  <2>1. CASE j # i /\ k # i
    BY <1>2, <1>7, <2>1 DEF HeldOK
  <2>2. CASE j = i /\ k # i
    BY <1>1, <1>2, <1>7, <2>2 DEF HeldOK
  <2>3. CASE j # i /\ k = i
    BY <1>1, <1>2, <1>7, <2>3 DEF HeldOK
  <2> QED
    BY <2>1, <2>2, <2>3
<1> QED
    BY <1>1, <1>2, <1>4, <1>6, <1>7 DEF HeldOK

\* leaves the rows of the recorded fills,
LEMMA FinalizedRow ==
    ASSUME BInv, NEW i \in Approved, NEW certificate \in {"FILLED", "UNFILLED", "PARTIAL"}, NEW N,
           Finalized(i, certificate, N), NEW j \in Ids, Recorded(j)
    PROVE  RowOK(j)'
<1> USE DEF BInv
<1>1. RowOK(j) /\ j # i
    BY RecordedIs, FinalizedIntents
<1>2. /\ chain' = chain /\ positions' = positions /\ Approved' = Approved
      /\ intents'[j] = intents[j]
    BY <1>1 DEF Finalized, RowOK
<1>3. chain[j].snapshot.state \in DOMAIN states
    BY <1>1 DEF RowOK
<1>4. /\ chain[j].snapshot.state \in DOMAIN states'
      /\ states'[chain[j].snapshot.state] = states[chain[j].snapshot.state]
    BY <1>3 DEF Finalized
<1> QED
    BY <1>1, <1>2, <1>4 DEF RowOK, At, Position, Filled

\* and the chain as it is,
LEMMA FinalizedChain ==
    ASSUME BInv, NEW i \in Approved, NEW certificate \in {"FILLED", "UNFILLED", "PARTIAL"}, NEW N,
           Finalized(i, certificate, N)
    PROVE  ChainOK'
<1> USE DEF BInv
<1>1. chain' = chain /\ positions' = positions
    BY DEF Finalized
<1>2. \A n \in DOMAIN states : n \in DOMAIN states' /\ states'[n] = states[n]
    BY DEF Finalized
<1>3. \A j \in Ids : Recorded(j) => RowOK(j)'
    BY FinalizedRow
<1>4. positions # <<>> => \A n \in At(Position.entry) .. At(Position.current) :
                              n \in DOMAIN states' /\ chain[states'[n].intent] # None
    BY <1>2 DEF ChainOK, Recorded
<1> QED
    BY <1>1, <1>3, <1>4 DEF ChainOK, Recorded, At, Position

\* and comes after every review under way.
LEMMA FinalizedReviews ==
    ASSUME BInv, NEW i \in Approved, NEW certificate \in {"FILLED", "UNFILLED", "PARTIAL"}, NEW N,
           Finalized(i, certificate, N), BookTypeOK', UNCHANGED <<archive, publisher>>
    PROVE  ExitsOK' /\ RunsOK' /\ RollsOK' /\ MomentsOK' /\ ArchiveOK'
<1> USE DEF BInv
<1>1. /\ chain' = chain /\ positions' = positions /\ Approved' = Approved /\ run' = run /\ decisions' = decisions
      /\ \A j \in Approved : SameOrder(intents'[j], intents[j])
      /\ now' = now + 1 /\ now \in Nat
    BY Rows DEF Finalized
<1>2. \A j \in Approved : /\ intents'[j].action = intents[j].action /\ intents'[j].session = intents[j].session
                          /\ intents'[j].fingerprint = intents[j].fingerprint
                          /\ intents'[j].snapshot = intents[j].snapshot
                          /\ intents'[j].position = intents[j].position
                          /\ intents'[j].boundary = intents[j].boundary
    BY <1>1 DEF SameOrder
<1>3. ExitsOK'
    BY <1>1, <1>2 DEF ExitsOK, Exit, Reviewable, Recorded
<1>4. RunsOK'
  <2>1. \A r \in Runs : run[r].at \in Nat
    BY Rows, BookAssumption DEF RunState, Time
  <2> QED
    BY <1>1, <2>1 DEF RunsOK, Reviewing, Reviewable, Recorded
<1>5. RollsOK'
    BY <1>1, <1>2 DEF RollsOK, IsRoll, NoRollYet, Recorded, At, Reviewing
<1>6. Reviews(1)' = Reviews(1)
  <2>1. \A j : (ReviewedFor(j)' <=> ReviewedFor(j)) /\ (ReviewedFor(j) => ReviewOf(j)' = ReviewOf(j))
    BY <1>1, <1>2 DEF ReviewedFor, ReviewOf, Exit
  <2>2. \A d : d \in Reviews(1)' <=> d \in Reviews(1)
    BY <1>1, <2>1, ReviewsAre, ReviewsAreNext
  <2> QED
    BY <2>2, Zenon
<1>7. Moments' = Moments /\ \A t \in Moments : t \in Nat /\ t <= now
  <2>1. Moments' = Moments
    BY <1>1, <1>6 DEF Moments, Reviewing
  <2> QED
    BY <2>1, MomentsAreTimes, BookAssumption DEF Time, MomentsOK
<1>8. \A n \in DOMAIN states' : Waiting(n)' => (n \in DOMAIN states /\ Waiting(n) /\ states'[n] = states[n]) \/ states'[n].at = now + 1
  <2> TAKE n \in DOMAIN states'
  <2>1. CASE n \in DOMAIN states
    <3>1. states'[n] = states[n]
      BY <2>1 DEF Finalized
    <3>2. states[n].intent # i /\ states[n].intent \in Approved /\ intents'[states[n].intent] = intents[states[n].intent]
      BY <2>1, FinalizedIntents DEF Finalized
    <3> QED
      BY <1>1, <2>1, <3>1, <3>2 DEF Waiting, At, Position, Filled, Exit
  <2>2. CASE n \notin DOMAIN states
    BY <1>1, <2>2 DEF Finalized
  <2> QED
    BY <2>1, <2>2
<1>9. MomentsOK'
    BY <1>1, <1>6, <1>7, <1>8 DEF MomentsOK, Position
<1>10. ArchiveOK'
  <2>1. ASSUME NEW x \in RecordRow, RecordOK(x) PROVE RecordOK(x)'
    <3>1. Through(Transitions(1), x.asOf)' = Through(Transitions(1), x.asOf)
      BY <1>1 DEF Through, Transitions, Recorded
    <3>2. ReviewsThrough(1, x.asOf)' = ReviewsThrough(1, x.asOf)
      BY <1>6 DEF ReviewsThrough
    <3>3. x.asOf <= now /\ x.asOf \in Nat
      BY <2>1, BookAssumption DEF RecordOK, RecordRow, Time
    <3> QED
      BY <1>1, <1>8, <2>1, <3>1, <3>2, <3>3 DEF RecordOK
  <2>2. \A n \in DOMAIN archive : archive[n] \in RecordRow
    BY DEF ArchiveTypeOK
  <2> QED
    BY <1>1, <2>1, <2>2 DEF ArchiveOK
<1> QED
    BY <1>3, <1>4, <1>5, <1>9, <1>10

LEMMA FinalizeInv ==
    ASSUME BInv, NEW i \in Approved, NEW certificate \in {"FILLED", "UNFILLED", "PARTIAL"},
           Finalize(i, certificate), UNCHANGED <<archive, publisher>>
    PROVE  BInv'
<1>1. PICK N : N = Len(states) + 1
    OBVIOUS
<1>2. BookTypeOK' /\ Finalized(i, certificate, N)
    BY <1>1, FinalizeDoes
<1>3. IntentsOK' /\ StatesOK'
    BY <1>2, FinalizedStates
<1>4. FillsOK' /\ HeldOK' /\ ChainOK'
    BY <1>2, <1>3, FinalizedFills, FinalizedHeld, FinalizedChain
<1>5. ExitsOK' /\ RunsOK' /\ RollsOK' /\ MomentsOK' /\ ArchiveOK'
    BY <1>2, FinalizedReviews
<1>6. ArchiveTypeOK'
    BY DEF BInv, ArchiveTypeOK
<1> QED
    BY <1>2, <1>3, <1>4, <1>5, <1>6 DEF BInv

-----------------------------------------------------------------------------
(* Sums over finite sets. The library's induction theorems quantify over an *)
(* operator; what is used here is that every set of numbers has a least     *)
(* one, so that a property is given as the set of what has it.              *)

\* Every set of numbers that is not empty has a least one.
LEMMA LeastNumber ==
    ASSUME NEW T \in SUBSET Nat, T # {}
    PROVE  \E n \in T : \A m \in T : n <= m
<1>1. PICK n \in T : \A m \in T : <<m, n>> \notin OpToRel(<, Nat)
    BY NatLessThanWellFounded, WFMin
<1>2. ASSUME NEW m \in T PROVE n <= m
  <2>1. m \in Nat /\ n \in Nat
    OBVIOUS
  <2>2. <<m, n>> \in Nat \X Nat /\ <<m, n>>[1] = m /\ <<m, n>>[2] = n
    BY <2>1
  <2>3. ~(m < n)
    BY <1>1, <2>2 DEF OpToRel
  <2> QED
    BY <2>1, <2>3
<1> QED
    BY <1>2

Pick(s) == CHOOSE x \in s : TRUE

\* g adds up the weights of the subsets of S, an element at a time.
Adds(g, w, S) ==
    g = [s \in SUBSET S |-> IF s = {} THEN 0 ELSE w[Pick(s)] + g[s \ {Pick(s)}]]

\* Induction over the subsets of a finite set: a property given as a set of subsets.
LEMMA SubsetInduction ==
    ASSUME NEW S, IsFiniteSet(S), NEW Good,
           \A s \in SUBSET S : (\A t \in SUBSET s : t # s => t \in Good) => s \in Good
    PROVE  \A s \in SUBSET S : s \in Good
<1> SUFFICES ASSUME NEW s0 \in SUBSET S, s0 \notin Good PROVE FALSE
    OBVIOUS
<1> DEFINE T == {n \in Nat : \E s \in SUBSET S : s \notin Good /\ Cardinality(s) = n}
<1>1. \A s \in SUBSET S : IsFiniteSet(s) /\ Cardinality(s) \in Nat
    BY FS_Subset, FS_CardinalityType
<1>2. T # {}
    BY <1>1
<1>3. PICK n \in T : \A m \in T : n <= m
    BY <1>2, LeastNumber
<1>4. PICK s \in SUBSET S : s \notin Good /\ Cardinality(s) = n
    BY <1>3
<1>5. ASSUME NEW t \in SUBSET s, t # s PROVE t \in Good
  <2>1. Cardinality(t) < Cardinality(s)
    <3>1. IsFiniteSet(s) /\ Cardinality(s) \in Nat /\ Cardinality(t) \in Nat
      BY <1>1, <1>4
    <3>2. Cardinality(t) <= Cardinality(s) /\ (Cardinality(s) = Cardinality(t) => s = t)
      BY <3>1, FS_Subset
    <3> QED
      BY <1>5, <3>1, <3>2
  <2>2. t \in SUBSET S /\ Cardinality(t) \in Nat
    BY <1>1
  <2> QED
    BY <1>3, <1>4, <2>1, <2>2
<1> QED
    BY <1>4, <1>5

\* Such a function exists for every finite set.
LEMMA AddsExists ==
    ASSUME NEW S, IsFiniteSet(S), NEW w
    PROVE  \E g : Adds(g, w, S)
<1> DEFINE D(n) == {s \in SUBSET S : Cardinality(s) < n}
           Step(g, s) == IF s = {} THEN 0 ELSE w[Pick(s)] + g[s \ {Pick(s)}]
           OK(n) == \E g : g = [s \in D(n) |-> Step(g, s)]
           Bad == {n \in Nat : ~OK(n)}
<1>1. \A s \in SUBSET S : IsFiniteSet(s) /\ Cardinality(s) \in Nat /\ Cardinality(s) <= Cardinality(S)
    BY FS_Subset, FS_CardinalityType
<1>2. \A s \in SUBSET S : s # {} => /\ Pick(s) \in s /\ s \ {Pick(s)} \in SUBSET S
                                   /\ Cardinality(s \ {Pick(s)}) = Cardinality(s) - 1
    BY <1>1, FS_RemoveElement DEF Pick
<1>3. \A n \in Nat : OK(n)
  <2> SUFFICES ASSUME Bad # {} PROVE FALSE
    OBVIOUS
  <2>1. PICK n \in Bad : \A m \in Bad : n <= m
    <3> Bad \in SUBSET Nat
      OBVIOUS
    <3> HIDE DEF Bad
    <3> QED
      BY LeastNumber
  <2>2. CASE n = 0
    <3>1. D(n) = {}
      BY <1>1, <2>2
    <3>2. [s \in {} |-> 0] = [s \in D(n) |-> Step([t \in {} |-> 0], s)]
      BY <3>1
    <3> QED
      BY <3>2
  <2>3. CASE n # 0
    <3>1. n - 1 \in Nat /\ n - 1 \notin Bad
      <4>1. n \in Nat
        OBVIOUS
      <4> HIDE DEF Bad
      <4> QED
        BY <2>1, <2>3, <4>1
    <3>2. PICK g : g = [s \in D(n - 1) |-> Step(g, s)]
      BY <3>1
    <3> DEFINE h == [s \in D(n) |-> Step(g, s)]
    <3>3. ASSUME NEW s \in D(n) PROVE h[s] = Step(h, s)
      <4>1. h[s] = Step(g, s)
        OBVIOUS
      <4>2. CASE s = {}
        BY <4>1, <4>2
      <4>3. CASE s # {}
        <5> DEFINE t == s \ {Pick(s)}
        <5>1. t \in D(n - 1) /\ t \in D(n)
          BY <1>1, <1>2, <3>1, <4>3
        <5>2. g[t] = Step(g, t) /\ h[t] = Step(g, t)
          <6> HIDE DEF D, Step, t
          <6> QED
            BY <3>2, <5>1
        <5> QED
          BY <4>1, <4>3, <5>2
      <4> QED
        BY <4>2, <4>3
    <3>4. h = [s \in D(n) |-> Step(h, s)]
      <4> HIDE DEF Step, D
      <4>1. h = [s \in D(n) |-> h[s]]
        OBVIOUS
      <4> HIDE DEF h
      <4> QED
        BY <3>3, <4>1
    <3>5. OK(n)
      <4> HIDE DEF h, Step, D
      <4> QED
        BY <3>4
    <3> QED
      BY <3>5
  <2> QED
    BY <2>2, <2>3
<1>4. Cardinality(S) + 1 \in Nat /\ D(Cardinality(S) + 1) = SUBSET S
    BY <1>1
<1>5. PICK g : g = [s \in D(Cardinality(S) + 1) |-> Step(g, s)]
    BY <1>3, <1>4
<1>6. g = [s \in SUBSET S |-> Step(g, s)]
    <2> HIDE DEF D, Step
    <2> QED
      BY <1>4, <1>5
<1> QED
    BY <1>6 DEF Adds

\* It may take any element first.
LEMMA AnyElementFirst ==
    ASSUME NEW S, IsFiniteSet(S), NEW w, \A x \in S : w[x] \in Int, NEW g, Adds(g, w, S)
    PROVE  /\ g[{}] = 0
           /\ \A s \in SUBSET S : g[s] \in Int /\ \A x \in s : g[s] = w[x] + g[s \ {x}]
<1>1. \A s \in SUBSET S : g[s] = IF s = {} THEN 0 ELSE w[Pick(s)] + g[s \ {Pick(s)}]
    BY DEF Adds
<1>2. g[{}] = 0
    BY <1>1
<1>3. \A s \in SUBSET S : s # {} => Pick(s) \in s
    BY DEF Pick
<1> DEFINE Good == {s \in SUBSET S : g[s] \in Int /\ \A x \in s : g[s] = w[x] + g[s \ {x}]}
<1>4. ASSUME NEW s \in SUBSET S, \A t \in SUBSET s : t # s => t \in Good
      PROVE  s \in Good
  <2>1. CASE s = {}
    BY <1>2, <2>1
  <2>2. CASE s # {}
    <3> DEFINE y == Pick(s)
    <3>1. y \in s /\ w[y] \in Int /\ g[s] = w[y] + g[s \ {y}]
      BY <1>1, <1>3, <2>2
    <3> HIDE DEF y
    <3>2. \A x \in s : s \ {x} \in Good /\ g[s \ {x}] \in Int /\ w[x] \in Int
      BY <1>4
    <3>3. ASSUME NEW x \in s, x # y PROVE g[s] = w[x] + g[s \ {x}]
      <4>1. g[s \ {y}] = w[x] + g[(s \ {y}) \ {x}]
        BY <3>1, <3>2, <3>3
      <4>2. g[s \ {x}] = w[y] + g[(s \ {x}) \ {y}]
        BY <3>1, <3>2, <3>3
      <4>3. (s \ {x}) \ {y} = (s \ {y}) \ {x}
        OBVIOUS
      <4>4. (s \ {x}) \ {y} \in SUBSET s /\ (s \ {x}) \ {y} # s
        BY <3>1
      <4>5. g[(s \ {x}) \ {y}] \in Int
        BY <1>4, <4>4
      <4> DEFINE c == g[(s \ {x}) \ {y}]
      <4>6. g[s] = w[y] + (w[x] + c) /\ g[s \ {x}] = w[y] + c
        BY <3>1, <4>1, <4>2, <4>3
      <4>7. w[x] \in Int /\ w[y] \in Int /\ c \in Int
        BY <3>1, <3>2, <4>5
      <4> HIDE DEF c
      <4> QED
        BY <4>6, <4>7
    <3>4. g[s] \in Int
      <4>1. g[s \ {y}] \in Int
        BY <3>1, <3>2
      <4> QED
        BY <3>1, <4>1
    <3> QED
      BY <3>1, <3>3, <3>4
  <2> QED
    BY <2>1, <2>2
<1>5. \A s \in SUBSET S : s \in Good
  <2> HIDE DEF Good
  <2> QED
    BY <1>4, SubsetInduction
<1> QED
    BY <1>2, <1>5

\* Two such functions agree where both are defined.
LEMMA AddsAgree ==
    ASSUME NEW S, NEW R, IsFiniteSet(S), S \subseteq R, NEW v, NEW w, \A x \in S : v[x] = w[x],
           NEW g, NEW h, Adds(g, v, R), Adds(h, w, S)
    PROVE  \A s \in SUBSET S : g[s] = h[s]
<1> DEFINE Good == {s \in SUBSET S : g[s] = h[s]}
<1>1. ASSUME NEW s \in SUBSET S, \A t \in SUBSET s : t # s => t \in Good
      PROVE  s \in Good
  <2>1. /\ g[s] = IF s = {} THEN 0 ELSE v[Pick(s)] + g[s \ {Pick(s)}]
        /\ h[s] = IF s = {} THEN 0 ELSE w[Pick(s)] + h[s \ {Pick(s)}]
    BY DEF Adds
  <2>2. s # {} => Pick(s) \in s
    BY DEF Pick
  <2>3. s # {} => s \ {Pick(s)} \in Good /\ v[Pick(s)] = w[Pick(s)]
    BY <1>1, <2>2
  <2> QED
    BY <2>1, <2>3
<1>2. \A s \in SUBSET S : s \in Good
  <2> HIDE DEF Good
  <2> QED
    BY <1>1, SubsetInduction
<1> QED
    BY <1>2

\* There are finitely many intents.
LEMMA IdsAreFinite == IsFiniteSet(Ids) /\ \A S \in SUBSET Ids : IsFiniteSet(S)
<1>1. IsFiniteSet(Ids)
    BY BookAssumption, FS_Interval DEF Ids
<1> QED
    BY <1>1, FS_Subset

\* What the fills of a set of intents paid, and what one more adds.
LEMMA CashIsAdded ==
    ASSUME NEW S, IsFiniteSet(S)
    PROVE  \E g : Adds(g, Cash, S) /\ CashOf(S) = g[S]
<1> DEFINE g == CHOOSE g : Adds(g, Cash, S)
<1>1. Adds(g, Cash, S)
    BY AddsExists
<1>2. CashOf(S) = g[S]
    BY DEF CashOf, MapThenSumSet, MapThenFoldSet, Adds, Pick
<1> HIDE DEF g
<1> QED
    BY <1>1, <1>2

\* One more fill adds what it paid.
LEMMA CashAdds ==
    ASSUME NEW S \in SUBSET Ids, NEW i \in Ids \ S
    PROVE  /\ CashOf(S) \in Int
           /\ CashOf(S \cup {i}) = CashOf(S) + Cash[i]
<1> DEFINE R == S \cup {i}
<1>1. IsFiniteSet(S) /\ IsFiniteSet(R)
    BY IdsAreFinite
<1>2. PICK g : Adds(g, Cash, S) /\ CashOf(S) = g[S]
    BY <1>1, CashIsAdded
<1>3. PICK h : Adds(h, Cash, R) /\ CashOf(R) = h[R]
    BY <1>1, CashIsAdded
<1>4. (\A x \in R : Cash[x] \in Int) /\ (\A x \in S : Cash[x] \in Int) /\ Cash[i] \in Int
    BY BookAssumption
<1>5. g[S] \in Int
    BY <1>1, <1>2, <1>4, AnyElementFirst
<1>6. h[R] = Cash[i] + h[R \ {i}]
  <2>1. \A s \in SUBSET R : h[s] \in Int /\ \A x \in s : h[s] = Cash[x] + h[s \ {x}]
    <3> HIDE DEF R
    <3> QED
      BY <1>1, <1>3, <1>4, AnyElementFirst, SMTT(30)
  <2> QED
    BY <2>1
<1>7. R \ {i} = S /\ h[S] = g[S]
    BY <1>1, <1>2, <1>3, AddsAgree
<1> HIDE DEF R
<1>8. CashOf(R) = Cash[i] + CashOf(S)
    BY <1>2, <1>3, <1>6, <1>7
<1>9. CashOf(S) \in Int
    BY <1>2, <1>5
<1>10. CashOf(R) = CashOf(S) + Cash[i]
    BY <1>4, <1>8, <1>9
<1> QED
    BY <1>9, <1>10 DEF R

\* A single fill paid what it paid.
LEMMA CashOfOne ==
    ASSUME NEW i \in Ids
    PROVE  CashOf({i}) = Cash[i]
<1>1. CashOf({}) = 0
  <2>1. PICK g : Adds(g, Cash, {}) /\ CashOf({}) = g[{}]
    BY CashIsAdded, FS_EmptySet
  <2> QED
    BY <2>1 DEF Adds
<1>2. CashOf({} \cup {i}) = CashOf({}) + Cash[i]
    BY CashAdds
<1>3. {} \cup {i} = {i} /\ Cash[i] \in Int
    BY BookAssumption
<1> QED
    BY <1>1, <1>2, <1>3

\* The sum of what the transitions say is the sum of what the fills paid.
LEMMA SumOfCashIs ==
    ASSUME NEW ids \in SUBSET Ids, \A i \in ids : chain[i].transition.cash = Cash[i]
    PROVE  SumOfCash(ids) = CashOf(ids)
<1> DEFINE w == [i \in ids |-> chain[i].transition.cash]
           Sums(g) == g = [s \in SUBSET ids |-> IF s = {} THEN 0
                                                ELSE chain[Pick(s)].transition.cash + g[s \ {Pick(s)}]]
           h == CHOOSE g : Sums(g)
<1>1. IsFiniteSet(ids)
    BY IdsAreFinite
<1>2. \A s \in SUBSET ids : s # {} => Pick(s) \in ids /\ w[Pick(s)] = chain[Pick(s)].transition.cash
    BY DEF Pick
<1>3. ASSUME NEW g PROVE Sums(g) <=> Adds(g, w, ids)
  <2>1. [s \in SUBSET ids |-> IF s = {} THEN 0 ELSE chain[Pick(s)].transition.cash + g[s \ {Pick(s)}]]
          = [s \in SUBSET ids |-> IF s = {} THEN 0 ELSE w[Pick(s)] + g[s \ {Pick(s)}]]
    <3> HIDE DEF w
    <3> QED
      BY <1>2
  <2> HIDE DEF w
  <2> QED
    BY <2>1 DEF Adds
<1>4. \E g : Sums(g)
    <2> HIDE DEF Sums, w
    <2> QED
      BY <1>1, <1>3, AddsExists
<1>5. Adds(h, w, ids)
    <2> HIDE DEF Sums, w
    <2> QED
      BY <1>3, <1>4
<1>6. SumOfCash(ids) = h[ids]
    BY DEF SumOfCash, MapThenSumSet, MapThenFoldSet, Pick
<1>7. PICK g : Adds(g, Cash, ids) /\ CashOf(ids) = g[ids]
    BY <1>1, CashIsAdded
<1>8. \A x \in ids : Cash[x] = w[x]
    OBVIOUS
<1> HIDE DEF h, w
<1>9. g[ids] = h[ids]
    BY <1>1, <1>5, <1>7, <1>8, AddsAgree
<1> QED
    BY <1>6, <1>7, <1>9

-----------------------------------------------------------------------------
(* The steps of the materializers *)

\* A certified intent has one state.
LEMMA StateOfIs ==
    ASSUME BookTypeOK, StatesOK, NEW i \in Approved, Certified(i)
    PROVE  /\ StateOf(i) \in DOMAIN states /\ states[StateOf(i)].intent = i /\ StateOf(i) \in Nat
           /\ \A n \in DOMAIN states : states[n].intent = i => n = StateOf(i)
<1>1. \E n \in DOMAIN states : states[n].intent = i
    BY DEF StatesOK
<1>2. StateOf(i) \in DOMAIN states /\ states[StateOf(i)].intent = i
    BY <1>1 DEF StateOf
<1>3. \A m, n \in DOMAIN states : states[m].intent = states[n].intent => m = n
  <2> SUFFICES ASSUME NEW m \in DOMAIN states, NEW n \in DOMAIN states, m < n
               PROVE  states[m].intent # states[n].intent
    BY Rows, SMTT(30)
  <2> QED
    BY DEF StatesOK
<1> QED
    BY <1>2, <1>3, Rows

\* A state has seen what was filled by then.
LEMMA FilledSoFar ==
    ASSUME BookTypeOK, FillsOK, NEW m \in DOMAIN states, NEW n \in DOMAIN states, m <= n,
           Filled(states[m].intent)
    PROVE  states[m].intent \in states[n].filled
<1>1. m \in 1 .. n
    BY Rows
<1>2. states[n].filled = {states[k].intent : k \in {l \in 1 .. n : Filled(states[l].intent)}}
    BY DEF FillsOK
<1> QED
    BY <1>1, <1>2

\* The first fill of the account is not one of a position that is already there.
LEMMA FirstPosition ==
    ASSUME BInv, NEW i \in Approved, Filled(i), ~Recorded(i), states[StateOf(i)].filled = {i}
    PROVE  positions = <<>>
<1> USE DEF BInv
<1> SUFFICES ASSUME positions # <<>> PROVE FALSE
    OBVIOUS
<1> DEFINE e == Position.entry
           m == At(Position.entry)
           n == StateOf(i)
<1>1. n \in DOMAIN states /\ states[n].intent = i /\ n \in Nat
    BY StateOfIs DEF Filled, Certified
<1>2. RowOK(e) /\ Recorded(e) /\ m \in DOMAIN states /\ m \in Nat /\ states[m].intent = e
    BY RowStates, ThePosition
<1>3. states[m].filled = {e} /\ Filled(e)
    BY <1>2 DEF RowOK, At
<1>4. CASE m <= n
  <2>1. e \in states[n].filled
    BY <1>1, <1>2, <1>3, <1>4, FilledSoFar
  <2> QED
    BY <1>2, <2>1
<1>5. CASE n <= m
  <2>1. i \in states[m].filled
    BY <1>1, <1>2, <1>5, FilledSoFar
  <2> QED
    BY <1>2, <1>3, <2>1
<1> QED
    BY <1>1, <1>2, <1>4, <1>5

\* The materialization of an entry makes the first position: the book was empty.
LEMMA MaterializeEntryInv ==
    ASSUME BInv, NEW i \in Approved, MaterializeEntry(i), UNCHANGED <<archive, publisher>>
    PROVE  BInv'
<1> USE DEF BInv
<1>0. PICK n : n = StateOf(i)
    OBVIOUS
<1>1. /\ Filled(i) /\ ~Recorded(i) /\ EntryLineage(i)
      /\ chain' = [chain EXCEPT ![i] = EntryRows(i, Len(positions) + 1)]
      /\ UNCHANGED <<role, now, phase, held, intents, states, decisions, latched, run>>
    BY DEF MaterializeEntry, Filled
<1>2. PICK origin \in intents[i].submitted..states[n].at :
          positions' = Append(positions, [entry |-> i, current |-> i, fingerprint |-> i,
                                          closed |-> 0, origin |-> origin])
    BY <1>0 DEF MaterializeEntry
<1>3. /\ intents[i].action = "ENTRY" /\ InSession(states[n].phase)
      /\ states[n].filled = {i} /\ states[n].inventory = {i}
    BY <1>0, <1>1 DEF EntryLineage, EntryActivities, EntryInventory
<1>4. /\ n \in DOMAIN states /\ states[n].intent = i /\ n \in Nat /\ states[n] \in StateRow
      /\ i \in Ids /\ intents[i] \in IntentRow
    BY <1>0, <1>1, StateOfIs, Rows DEF Filled, Certified
<1>5. positions = <<>>
    BY <1>0, <1>1, <1>3, FirstPosition
<1>6. \A j \in Ids : ~Recorded(j)
    BY <1>5 DEF ChainOK
<1> DEFINE row == [entry |-> i, current |-> i, fingerprint |-> i, closed |-> 0, origin |-> origin]
           x == EntryRows(i, 1)
<1>7. row \in PositionRow
  <2>1. origin \in Time /\ 0 \in Time /\ i \in 0 .. MaxIntents
    <3>1. intents[i].submitted \in 0 .. MaxTime /\ states[n].at \in 0 .. MaxTime
      BY <1>4 DEF IntentRow, StateRow, Time
    <3>2. MaxTime \in Nat /\ MaxIntents \in Nat /\ i \in 1 .. MaxIntents
      BY <1>4, BookAssumption DEF Ids
    <3>3. origin \in intents[i].submitted .. states[n].at
      BY <1>2
    <3> QED
      BY <3>1, <3>2, <3>3 DEF Time
  <2> QED
    BY <1>4, <2>1 DEF PositionRow
<1>8. /\ row.entry = i /\ row.current = i /\ row.fingerprint = i /\ row.closed = 0
    OBVIOUS
<1>9. positions' = Append(positions, row)
    BY <1>2
<1> HIDE DEF row
<1>10. positions' \in Seq(PositionRow) /\ Len(positions') = 1 /\ positions'[1] = row
  <2>1. positions \in Seq(PositionRow) /\ Len(positions) = 0
    BY <1>5 DEF BookTypeOK
  <2> QED
    BY <1>7, <1>9, <2>1, RowAdded
<1>11. /\ x.transition.position = 1 /\ x.transition.predecessor = 0 /\ x.transition.sequence = 0
       /\ x.transition.action = "ENTRY" /\ x.transition.cash = Cash[i] /\ x.transition.at = states[n].at
       /\ x.snapshot.state = n /\ x.snapshot.cumulative = Cash[i]
       /\ x.snapshot.session = states[n].phase /\ x.snapshot.fingerprint = i
       /\ x.snapshot.activities = {i}
    BY <1>0 DEF EntryRows
<1>12. x \in ChainRow
  <2>1. /\ Cash[i] \in Int /\ 0 \in 0 .. MaxIntents /\ i \in 0 .. MaxIntents /\ states[n].at \in Time
        /\ states[n].phase \in Phases
    BY <1>4, BookAssumption DEF StateRow, Ids
  <2> QED
    BY <1>0, <1>4, <2>1 DEF EntryRows, ChainRow, TransitionRow, SnapshotRow
<1>13. chain' = [chain EXCEPT ![i] = x]
    BY <1>1, <1>5
<1> HIDE DEF x
<1>14. /\ chain' \in [Ids -> ChainRow \cup {None}] /\ chain'[i] = x
       /\ \A j \in Ids : j # i => chain'[j] = chain[j]
    BY <1>4, <1>12, <1>13 DEF BookTypeOK
<1>15. BookTypeOK' /\ ArchiveTypeOK'
  <2>1. BookTypeOK'
    BY <1>1, <1>10, <1>14 DEF BookTypeOK
  <2>2. ArchiveTypeOK'
    BY <1>1 DEF ArchiveTypeOK
  <2> QED
    BY <2>1, <2>2
<1>16. IntentsOK' /\ StatesOK' /\ FillsOK' /\ HeldOK'
  <2>1. IntentsOK' /\ StatesOK'
    BY <1>1 DEF IntentsOK, StatesOK, Approved, Certified, Filled, Exit, IsRoll
  <2>2. FillsOK' /\ HeldOK'
    BY <1>1 DEF FillsOK, HeldOK, Approved, Certified, Filled, Exit, IsRoll
  <2> QED
    BY <2>1, <2>2
<1>17. x # None
    BY <1>12, NoneAssumption
<1>18. \A j \in Ids : Recorded(j)' <=> j = i
    BY <1>6, <1>14, <1>17 DEF Recorded
<1>19. Position' = row /\ positions' # <<>> /\ At(i)' = n
  <2>1. positions' # <<>>
    BY <1>10
  <2>2. At(i)' = n
    BY <1>11, <1>14 DEF At
  <2> QED
    BY <1>10, <2>1, <2>2 DEF Position
<1>20. RowOK(i)'
  <2>1. CashOf({i}) = Cash[i] /\ i # 0
    BY <1>4, CashOfOne, BookAssumption DEF Ids
  <2>2. Approved' = Approved /\ Filled(i)' /\ intents' = intents /\ states' = states
    BY <1>1 DEF Approved, Filled
  <2>3. Position'.entry = i /\ Position'.current = i
    BY <1>8, <1>19
  <2>4. At(Position.entry)' = n /\ At(Position.current)' = n
    BY <1>11, <1>14, <2>3 DEF At
  <2>5. n \in n .. n /\ 0 = n - n /\ {i} = {i} \ {0}
    BY <1>4, <2>1
  <2> QED
    BY <1>3, <1>4, <1>11, <1>14, <2>1, <2>2, <2>3, <2>4, <2>5 DEF RowOK
<1>21. ChainOK'
  <2>1. \A m \in n .. n : m = n
    BY <1>4
  <2>2. states' = states
    BY <1>1
  <2> QED
    BY <1>4, <1>8, <1>10, <1>11, <1>14, <1>18, <1>19, <1>20, <2>1, <2>2 DEF ChainOK
<1>22. \A j \in Approved : ~Exit(j)
    BY <1>6 DEF ExitsOK, Reviewable
<1>23. \A r \in Runs : ~Reviewing(r)
    BY <1>5 DEF RunsOK
<1>24. ExitsOK'
    BY <1>1, <1>22 DEF ExitsOK, Approved, Exit
<1>25. RunsOK'
    BY <1>1, <1>23 DEF RunsOK, Reviewing
<1>26. RollsOK'
    BY <1>1, <1>22, <1>23 DEF RollsOK, Reviewing, Approved, IsRoll, Exit
<1>27. Moments' = {}
  <2>1. Reviews(1)' = {}
    BY <1>1, <1>5 DEF MomentsOK, Reviews, Approved
  <2> QED
    BY <1>1, <1>23, <2>1 DEF Moments, Reviewing
<1>28. MomentsOK'
    BY <1>19, <1>27 DEF MomentsOK
<1>29. ArchiveOK'
    BY <1>5 DEF ArchiveOK, RecordOK
<1> QED
    BY <1>15, <1>16, <1>21, <1>24, <1>25, <1>26, <1>28, <1>29

\* What the materializer of exits does to the tables: n is the state of the fill.
Appends(i, n, x) ==
    /\ i \in Approved /\ i \in Ids /\ i # 0 /\ Filled(i) /\ Exit(i) /\ ~Recorded(i)
    /\ positions # <<>> /\ Position.closed = 0 /\ Position.fingerprint = Position.current
    /\ n \in DOMAIN states /\ n \in Nat /\ states[n].intent = i /\ n = At(Position.current) + 1
    /\ intents[i].snapshot = Position.current /\ intents[i].fingerprint = Position.current
    /\ chain[Position.current].transition.at <= intents[i].boundary
    /\ states[n].phase = intents[i].session
    /\ states[n].inventory = IF IsRoll(i) THEN {i} ELSE {}
    /\ x.transition.position = 1 /\ x.transition.predecessor = Position.current
    /\ x.transition.sequence = chain[Position.current].transition.sequence + 1
    /\ x.transition.action = intents[i].action /\ x.transition.cash = Cash[i]
    /\ x.transition.at = states[n].at
    /\ x.snapshot.state = n /\ x.snapshot.cumulative = CashOf(states[n].filled)
    /\ x.snapshot.session = states[n].phase /\ x.snapshot.fingerprint = FingerprintAfter(i)
    /\ x.snapshot.activities = states[n].filled
    /\ x \in ChainRow /\ x # None
    /\ chain' = [chain EXCEPT ![i] = x] /\ chain'[i] = x
    /\ \A j \in Ids : j # i => chain'[j] = chain[j]
    /\ positions' # <<>> /\ Len(positions') = 1
    /\ Position'.entry = Position.entry /\ Position'.current = i
    /\ Position'.fingerprint = FingerprintAfter(i)
    /\ Position'.closed = (IF intents[i].action = "CLOSE" THEN states[n].at ELSE 0)
    /\ UNCHANGED <<role, now, phase, held, intents, states, decisions, latched, run>>

\* What the materialization of an exit does to the tables, stated once.
LEMMA MaterializeDoes ==
    ASSUME BInv, NEW i \in Approved, MaterializeTerminal(i), NEW n, n = StateOf(i)
    PROVE  BookTypeOK' /\ \E x : Appends(i, n, x)
<1> USE DEF BInv
<1>1. PICK p \in OpenPositions :
          /\ intents[i].action # "ENTRY" /\ intents[i].certificate = "FILLED" /\ ~Recorded(i)
          /\ TerminalLineage(i, p)
          /\ chain' = [chain EXCEPT ![i] = TerminalRows(i, p)]
          /\ positions' = [positions EXCEPT ![p] =
                [@ EXCEPT !.current = i, !.fingerprint = FingerprintAfter(i),
                          !.closed = IF intents[i].action = "CLOSE" THEN states[StateOf(i)].at ELSE 0]]
          /\ UNCHANGED <<role, now, phase, held, intents, states, decisions, latched, run>>
    BY DEF MaterializeTerminal
<1>2. /\ p = 1 /\ positions # <<>> /\ positions[p] = Position /\ positions[1] = Position
      /\ Position.closed = 0 /\ Position.fingerprint = Position.current
    BY OpenIs
<1>3. Filled(i) /\ Exit(i) /\ Certified(i)
    BY <1>1 DEF Filled, Exit, Certified
<1>4. /\ n \in DOMAIN states /\ states[n].intent = i /\ n \in Nat /\ states[n] \in StateRow
      /\ i \in Ids /\ i # 0 /\ intents[i] \in IntentRow
    BY <1>3, StateOfIs, Rows, BookAssumption DEF Ids
<1> DEFINE c == Position.current
           nc == At(Position.current)
<1>5. /\ c \in Ids /\ RowOK(c) /\ Recorded(c) /\ nc \in Nat /\ nc \in DOMAIN states /\ c # i
      /\ chain[c] \in ChainRow /\ Position \in PositionRow
    BY <1>1, <1>2, ThePosition, RowStates, Rows
<1>6. /\ c = intents[i].snapshot /\ chain[c].transition.at <= intents[i].boundary
      /\ n = nc + 1 /\ states[n].phase = intents[i].session /\ c = intents[i].fingerprint
      /\ chain[c].snapshot.activities \subseteq states[n].filled
      /\ states[n].filled \ chain[c].snapshot.activities = {i}
      /\ states[n].inventory = (IF intents[i].action = "ROLL" THEN {i} ELSE {})
    BY <1>1, <1>2 DEF TerminalLineage, ReviewIsOfCurrent, NextState, TerminalLegs, OnlyThisExecution,
                      NewActivities, TerminalInventory, At
<1>7. chain[c].snapshot.activities = states[nc].filled /\ chain[c].snapshot.cumulative = CashOf(states[nc].filled)
    BY <1>5 DEF RowOK, At
<1>8. CashOf(states[n].filled) = CashOf(states[nc].filled) + Cash[i] /\ CashOf(states[nc].filled) \in Int
  <2>1. states[n].filled = states[nc].filled \cup {i} /\ i \notin states[nc].filled
    BY <1>6, <1>7
  <2>2. states[nc].filled \in SUBSET Ids
    BY <1>5, Rows DEF StateRow
  <2> QED
    BY <1>4, <2>1, <2>2, CashAdds
<1>9. PICK x : x = TerminalRows(i, 1)
    OBVIOUS
<1>10. /\ x.transition.position = 1 /\ x.transition.predecessor = c
       /\ x.transition.sequence = chain[c].transition.sequence + 1
       /\ x.transition.action = intents[i].action /\ x.transition.cash = Cash[i]
       /\ x.transition.at = states[n].at
       /\ x.snapshot.state = n /\ x.snapshot.cumulative = chain[c].snapshot.cumulative + Cash[i]
       /\ x.snapshot.session = states[n].phase /\ x.snapshot.fingerprint = FingerprintAfter(i)
       /\ x.snapshot.activities = states[n].filled
    BY <1>2, <1>9 DEF TerminalRows
<1>11. FingerprintAfter(i) \in 0 .. MaxIntents
    BY <1>4, BookAssumption DEF FingerprintAfter, Ids
<1>12. x \in ChainRow
  <2> DEFINE k == chain[c].transition.sequence + 1
             cash == chain[c].snapshot.cumulative + Cash[i]
             rolls == RollsAfter(i, chain[c].snapshot)
  <2>1. /\ x = [transition |-> [position |-> 1, predecessor |-> c, sequence |-> k,
                                action |-> intents[i].action, cash |-> Cash[i], at |-> states[n].at],
                snapshot |-> [state |-> n, cumulative |-> cash, rolls |-> rolls,
                              session |-> states[n].phase, fingerprint |-> FingerprintAfter(i),
                              activities |-> states[n].filled]]
    BY <1>2, <1>9 DEF TerminalRows
  <2>2. /\ chain[c].transition \in TransitionRow /\ chain[c].snapshot \in SnapshotRow
    BY <1>5 DEF ChainRow
  <2>3. k \in Nat /\ Cash[i] \in Int /\ chain[c].snapshot.rolls \in Nat
    BY <1>4, <2>2, BookAssumption DEF TransitionRow, SnapshotRow
  <2>4. cash \in Int
    BY <1>7, <1>8, <2>3
  <2>5. rolls \in Nat
    BY <2>3 DEF RollsAfter
  <2>6. /\ c \in 0 .. MaxIntents /\ intents[i].action \in {"ENTRY", "ROLL", "CLOSE"} /\ states[n].at \in Time
        /\ states[n].phase \in Phases /\ states[n].filled \in SUBSET Ids
    BY <1>4, <1>5, BookAssumption DEF IntentRow, StateRow, Ids
  <2> HIDE DEF k, cash, rolls, c
  <2> QED
    BY <1>4, <1>11, <2>1, <2>3, <2>4, <2>5, <2>6 DEF ChainRow, TransitionRow, SnapshotRow
<1>13. /\ chain' \in [Ids -> ChainRow \cup {None}] /\ chain'[i] = x /\ chain' = [chain EXCEPT ![i] = x]
       /\ \A j \in Ids : j # i => chain'[j] = chain[j]
  <2>1. chain' = [chain EXCEPT ![i] = x]
    BY <1>1, <1>2, <1>9
  <2> QED
    BY <1>4, <1>12, <2>1 DEF BookTypeOK
<1> DEFINE closed == IF intents[i].action = "CLOSE" THEN states[n].at ELSE 0
           row == [Position EXCEPT !.current = i, !.fingerprint = FingerprintAfter(i), !.closed = closed]
<1>14. closed \in Time
    BY <1>4, BookAssumption DEF StateRow, Time
<1>15. positions' = [positions EXCEPT ![1] = row]
    BY <1>1, <1>2
<1> HIDE DEF closed
<1>16. /\ row \in PositionRow /\ row.entry = Position.entry /\ row.current = i
       /\ row.fingerprint = FingerprintAfter(i) /\ row.closed = closed
    BY <1>4, <1>5, <1>11, <1>14 DEF PositionRow
<1> HIDE DEF row
<1>17. positions' \in Seq(PositionRow) /\ Len(positions') = 1 /\ positions'[1] = row
  <2>1. positions \in Seq(PositionRow) /\ Len(positions) = 1 /\ 1 \in DOMAIN positions
    BY <1>2, ThePosition DEF BookTypeOK
  <2>2. row \in PositionRow
    BY <1>16
  <2>3. ASSUME NEW s \in Seq(PositionRow), Len(s) = 1, NEW y \in PositionRow, NEW t, t = [s EXCEPT ![1] = y]
        PROVE  t \in Seq(PositionRow) /\ Len(t) = 1 /\ t[1] = y
    <3>1. PICK k \in DOMAIN s : k = 1
      BY <2>3
    <3>2. t = [s EXCEPT ![k] = y]
      BY <2>3, <3>1
    <3>3. t \in Seq(PositionRow) /\ Len(t) = Len(s) /\ t[k] = y
      BY <3>2, RowChanged
    <3> QED
      BY <2>3, <3>1, <3>3
  <2> HIDE DEF BInv
  <2> QED
    BY <1>15, <2>1, <2>2, <2>3
<1>18. BookTypeOK'
    BY <1>1, <1>13, <1>17 DEF BookTypeOK
<1>19. Position' = row /\ positions' # <<>>
  <2>1. positions' # <<>>
    BY <1>17
  <2> QED
    BY <1>17, <2>1 DEF Position
<1>20. x # None
    BY <1>12, NoneAssumption
<1>21. x.snapshot.cumulative = CashOf(states[n].filled)
    BY <1>7, <1>8, <1>10
<1>22. states[n].inventory = IF IsRoll(i) THEN {i} ELSE {}
    BY <1>6 DEF IsRoll
<1>23. Appends(i, n, x)
    BY <1>1, <1>2, <1>3, <1>4, <1>6, <1>10, <1>12, <1>13, <1>16, <1>17, <1>19, <1>20, <1>21, <1>22
       DEF Appends, closed
<1> QED
    BY <1>18, <1>23

\* A row more: the others stay where they are.
LEMMA AppendsRecorded ==
    ASSUME BInv, NEW i, NEW n, NEW x, Appends(i, n, x)
    PROVE  /\ \A j \in Ids : Recorded(j)' <=> (Recorded(j) \/ j = i)
           /\ \A j \in Ids : Recorded(j) => j # i /\ chain'[j] = chain[j] /\ At(j)' = At(j)
           /\ At(i)' = n
           /\ At(Position.entry)' = At(Position.entry) /\ At(Position.current)' = n
           /\ Recorded(Position.entry)' /\ Recorded(Position.current)'
           /\ Position.entry \in Ids /\ Position.entry # i
<1> USE DEF BInv
<1>1. /\ i \in Ids /\ ~Recorded(i) /\ positions # <<>> /\ x # None /\ x.snapshot.state = n /\ chain'[i] = x
      /\ \A j \in Ids : j # i => chain'[j] = chain[j]
      /\ Position'.entry = Position.entry /\ Position'.current = i
    BY DEF Appends
<1>2. \A j \in Ids : Recorded(j)' <=> (Recorded(j) \/ j = i)
    BY <1>1 DEF Recorded
<1>3. \A j \in Ids : Recorded(j) => j # i /\ chain'[j] = chain[j] /\ At(j)' = At(j)
    BY <1>1 DEF At
<1>4. At(i)' = n
    BY <1>1 DEF At
<1>5. Position.entry \in Ids /\ Recorded(Position.entry)
    BY <1>1, ThePosition, RowStates
<1>6. At(Position.entry)' = At(Position.entry) /\ At(Position.current)' = n
    BY <1>1, <1>3, <1>5 DEF At
<1>7. Recorded(Position.entry)' /\ Recorded(Position.current)'
    BY <1>1, <1>5 DEF Recorded
<1> QED
    BY <1>2, <1>3, <1>4, <1>5, <1>6, <1>7

\* The rows that were there stay as RowOK has them,
LEMMA AppendsOldRow ==
    ASSUME BInv, NEW i, NEW n, NEW x, Appends(i, n, x), NEW j \in Ids, Recorded(j)
    PROVE  RowOK(j)'
<1> USE DEF BInv
<1>1. /\ RowOK(j) /\ chain'[j] = chain[j] /\ Position'.entry = Position.entry
      /\ intents' = intents /\ states' = states
    BY RecordedIs, AppendsRecorded DEF Appends
<1>2. /\ At(Position.entry)' = At(Position.entry) /\ At(Position.current)' = n
      /\ At(Position.entry) \in Nat /\ At(Position.current) \in Nat /\ n = At(Position.current) + 1
  <2>1. At(Position.entry)' = At(Position.entry) /\ At(Position.current)' = n
    BY AppendsRecorded
  <2>2. positions # <<>> /\ n = At(Position.current) + 1
    BY DEF Appends
  <2>3. At(Position.entry) \in Nat /\ At(Position.current) \in Nat
    BY <2>2, RowStates
  <2> QED
    BY <2>1, <2>2, <2>3
<1>3. chain[j].snapshot.state \in At(Position.entry) .. n
    BY <1>1, <1>2 DEF RowOK
<1>4. j # Position.entry => At(chain[j].transition.predecessor)' = At(chain[j].transition.predecessor)
                            /\ chain'[chain[j].transition.predecessor] = chain[chain[j].transition.predecessor]
  <2> SUFFICES ASSUME j # Position.entry
               PROVE  At(chain[j].transition.predecessor)' = At(chain[j].transition.predecessor)
                            /\ chain'[chain[j].transition.predecessor] = chain[chain[j].transition.predecessor]
    OBVIOUS
  <2>1. /\ j \in Approved /\ Exit(j) /\ chain[j].transition.predecessor = intents[j].snapshot
    BY <1>1 DEF RowOK, Exit
  <2>2. Reviewable(intents[j].snapshot)
    BY <2>1 DEF ExitsOK
  <2>3. intents[j].snapshot \in Ids /\ Recorded(intents[j].snapshot)
    BY <2>2 DEF Reviewable
  <2>4. chain'[chain[j].transition.predecessor] = chain[chain[j].transition.predecessor]
    BY <2>1, <2>3, AppendsRecorded
  <2> QED
    BY <1>1, <2>4 DEF At
<1>5. Approved' = Approved /\ (Filled(j)' <=> Filled(j))
    BY <1>1 DEF Approved, Filled
<1> QED
    BY <1>1, <1>2, <1>3, <1>4, <1>5 DEF RowOK

\* the new one is such a row,
LEMMA AppendsNewRow ==
    ASSUME BInv, NEW i, NEW n, NEW x, Appends(i, n, x)
    PROVE  RowOK(i)'
<1> USE DEF BInv
<1>0. PICK c : c = Position.current
    OBVIOUS
<1>1. /\ i \in Approved /\ Filled(i) /\ Exit(i) /\ i # 0 /\ positions # <<>>
      /\ n \in DOMAIN states /\ n \in Nat /\ states[n].intent = i /\ n = At(c) + 1
      /\ intents[i].snapshot = c /\ chain[c].transition.at <= intents[i].boundary
      /\ states[n].phase = intents[i].session
      /\ states[n].inventory = (IF IsRoll(i) THEN {i} ELSE {})
      /\ chain'[i] = x /\ intents' = intents /\ states' = states /\ Position'.entry = Position.entry
    BY <1>0 DEF Appends
<1>2. /\ x.transition.position = 1 /\ x.transition.predecessor = c
      /\ x.transition.sequence = chain[c].transition.sequence + 1
      /\ x.transition.action = intents[i].action /\ x.transition.cash = Cash[i]
      /\ x.transition.at = states[n].at
      /\ x.snapshot.state = n /\ x.snapshot.cumulative = CashOf(states[n].filled)
      /\ x.snapshot.session = states[n].phase /\ x.snapshot.fingerprint = FingerprintAfter(i)
      /\ x.snapshot.activities = states[n].filled
    BY <1>0 DEF Appends
<1>3. /\ c \in Ids /\ Recorded(c) /\ RowOK(c) /\ At(c) \in Nat
      /\ At(Position.entry) \in Nat /\ At(Position.entry) <= At(c)
    BY <1>0, <1>1, ThePosition, RowStates
<1>4. chain[c].transition.sequence = At(c) - At(Position.entry)
    BY <1>3 DEF RowOK, At
<1>5. /\ chain'[c] = chain[c] /\ At(c)' = At(c) /\ At(Position.entry)' = At(Position.entry)
      /\ At(Position.current)' = n /\ Position.entry # i
    BY <1>3, AppendsRecorded
<1>6. x.transition.sequence = n - At(Position.entry) /\ n \in At(Position.entry) .. n /\ At(c) = n - 1
    BY <1>1, <1>2, <1>3, <1>4
<1>7. intents[i].action \in {"ROLL", "CLOSE"}
    BY <1>1, Rows DEF IntentRow, Exit
<1>8. /\ FingerprintAfter(i) = (IF intents[i].action = "CLOSE" THEN 0 ELSE i)
      /\ states[n].inventory = {FingerprintAfter(i)} \ {0}
    BY <1>1, <1>7 DEF FingerprintAfter, IsRoll
<1>9. Approved' = Approved /\ Filled(i)'
    BY <1>1 DEF Approved, Filled
<1>10. At(chain[i].transition.predecessor)' = n - 1 /\ chain'[chain'[i].transition.predecessor] = chain[c]
    BY <1>1, <1>2, <1>5, <1>6 DEF At
<1> QED
    BY <1>1, <1>2, <1>5, <1>6, <1>7, <1>8, <1>9, <1>10 DEF RowOK, Exit

\* and the states from that of the entry to that of the new snapshot are recorded.
LEMMA AppendsChain ==
    ASSUME BInv, NEW i, NEW n, NEW x, Appends(i, n, x)
    PROVE  ChainOK'
<1> USE DEF BInv
<1>1. \A j \in Ids : Recorded(j)' => RowOK(j)'
    BY AppendsRecorded, AppendsOldRow, AppendsNewRow
<1>2. \A m \in At(Position.entry) .. n : m \in DOMAIN states /\ chain'[states[m].intent] # None
  <2> TAKE m \in At(Position.entry) .. n
  <2>1. /\ n = At(Position.current) + 1 /\ At(Position.entry) \in Nat /\ At(Position.current) \in Nat
        /\ n \in DOMAIN states /\ states[n].intent = i /\ chain'[i] # None /\ positions # <<>>
    BY RowStates DEF Appends
  <2>2. CASE m = n
    BY <2>1, <2>2
  <2>3. CASE m # n
    <3>1. m \in At(Position.entry) .. At(Position.current)
      BY <2>1, <2>3
    <3>2. m \in DOMAIN states /\ Recorded(states[m].intent) /\ states[m].intent \in Ids
      BY <2>1, <3>1, Rows DEF ChainOK, StateRow
    <3> QED
      BY <3>2, AppendsRecorded DEF Recorded
  <2> QED
    BY <2>2, <2>3
<1>3. \A m \in (At(Position.entry) .. At(Position.current))' : m \in DOMAIN states' /\ Recorded(states[m].intent)'
  <2>1. states' = states
    BY DEF Appends
  <2> QED
    BY <1>2, <2>1, AppendsRecorded DEF Recorded
<1>4. /\ Position'.fingerprint = chain'[Position'.current].snapshot.fingerprint
      /\ Position'.closed = (IF chain'[Position'.current].transition.action = "CLOSE"
                             THEN chain'[Position'.current].transition.at ELSE 0)
    BY DEF Appends
<1>5. Len(positions') = 1 /\ positions' # <<>>
    BY DEF Appends
<1> QED
    BY <1>1, <1>3, <1>4, <1>5, AppendsRecorded DEF ChainOK

\* The fill was waiting to be recorded: every review and every record was before it.
LEMMA AppendsWaiting ==
    ASSUME BInv, NEW i, NEW n, NEW x, Appends(i, n, x)
    PROVE  /\ Waiting(n) /\ states[n].at \in Nat
           /\ \A m \in DOMAIN states : Waiting(m)' => states[m].at \in Nat /\ states[n].at < states[m].at
<1> USE DEF BInv
<1>1. /\ n \in DOMAIN states /\ n \in Nat /\ states' = states /\ states[n].intent = i
    BY DEF Appends
<1>2. Waiting(n)
    BY <1>1 DEF Appends, Waiting
<1>3. \A m \in DOMAIN states : states[m].at \in Nat /\ m \in Nat
    BY Rows, BookAssumption DEF StateRow, Time
<1>4. ASSUME NEW m \in DOMAIN states, Waiting(m)' PROVE states[n].at < states[m].at
  <2>1. m = n + 1
    BY <1>4, AppendsRecorded DEF Waiting
  <2>2. n < m
    BY <1>1, <2>1
  <2> QED
    BY <1>1, <2>2 DEF StatesOK
<1> QED
    BY <1>1, <1>2, <1>3, <1>4

\* Every review was before the fill that is recorded now, so no record gains a transition.
LEMMA AppendsReviews ==
    ASSUME BInv, NEW i, NEW n, NEW x, Appends(i, n, x), BookTypeOK', UNCHANGED <<archive, publisher>>
    PROVE  ExitsOK' /\ RunsOK' /\ RollsOK' /\ MomentsOK' /\ ArchiveOK'
<1> USE DEF BInv
<1>1. /\ intents' = intents /\ run' = run /\ decisions' = decisions /\ states' = states /\ now' = now
      /\ Approved' = Approved /\ positions # <<>> /\ positions' # <<>>
    BY DEF Appends, Approved
<1>2. \A c : Reviewable(c) => Reviewable(c)'
    BY AppendsRecorded DEF Reviewable
<1>3. ExitsOK'
    BY <1>1, <1>2 DEF ExitsOK, Exit
<1>4. RunsOK'
    BY <1>1, <1>2 DEF RunsOK, Reviewing
<1>5. ASSUME NEW c, NEW s, Reviewable(c), NoRollYet(c, s) PROVE NoRollYet(c, s)'
  <2> SUFFICES ASSUME NEW k \in Ids, Recorded(k)', chain'[k].transition.action = "ROLL", At(k)' <= At(c)'
               PROVE  chain'[k].snapshot.session < s
    BY DEF NoRollYet
  <2>1. c \in Ids /\ Recorded(c)
    BY <1>5 DEF Reviewable
  <2>2. At(c)' = At(c) /\ At(c) <= At(Position.current) /\ At(c) \in Nat /\ At(Position.current) \in Nat
    BY <1>1, <2>1, AppendsRecorded, RowStates
  <2>3. At(i)' = n
    BY AppendsRecorded
  <2>4. k # i
    <3>1. n = At(Position.current) + 1
      BY DEF Appends
    <3> QED
      BY <2>2, <2>3, <3>1
  <2>5. Recorded(k) /\ chain'[k] = chain[k] /\ At(k)' = At(k)
    BY <2>4, AppendsRecorded
  <2> QED
    BY <1>5, <2>2, <2>5 DEF NoRollYet
<1>6. RollsOK'
  <2>1. \A j \in Approved : IsRoll(j) => Reviewable(intents[j].snapshot)
    BY DEF ExitsOK, IsRoll, Exit
  <2>2. \A r \in Runs : Reviewing(r) => Reviewable(run[r].snapshot)
    BY DEF RunsOK
  <2>3. \A j \in Approved : IsRoll(j) => NoRollYet(intents[j].snapshot, intents[j].session)'
    BY <1>1, <1>5, <2>1 DEF RollsOK
  <2>4. \A r \in Runs : Reviewing(r) /\ run[r].mayRoll => NoRollYet(run[r].snapshot, run[r].session)'
    BY <1>1, <1>5, <2>2 DEF RollsOK
  <2> QED
    BY <1>1, <2>3, <2>4 DEF RollsOK, IsRoll, Reviewing
<1>7. Reviews(1)' = Reviews(1) /\ Moments' = Moments
    BY <1>1 DEF Moments, Reviews, Reviewing
<1>8. Moments \subseteq Nat
    BY MomentsAreTimes, BookAssumption DEF Time
<1>9. n \in DOMAIN states
    BY DEF Appends
<1>10. MomentsOK'
  <2>1. \A t \in Moments : t <= now /\ t < states[n].at
    BY <1>9, AppendsWaiting DEF MomentsOK
  <2>2. Position'.closed # 0 => Position'.closed = states[n].at
    BY DEF Appends
  <2>3. \A t \in Moments, m \in DOMAIN states : Waiting(m)' => t < states[m].at
    <3> TAKE t \in Moments, m \in DOMAIN states
    <3> HAVE Waiting(m)'
    <3>1. states[m].at \in Nat /\ states[n].at \in Nat /\ states[n].at < states[m].at
      BY AppendsWaiting
    <3>2. t \in Nat /\ t < states[n].at
      BY <1>8, <2>1
    <3> QED
      BY <3>1, <3>2
  <2> QED
    BY <1>1, <1>7, <2>1, <2>2, <2>3 DEF MomentsOK
<1>11. ASSUME NEW y \in RecordRow, RecordOK(y) PROVE RecordOK(y)'
  <2>1. y.asOf < states[n].at /\ y.asOf \in Nat /\ states[n].at \in Nat
    BY <1>9, <1>11, AppendsWaiting, BookAssumption DEF RecordOK, RecordRow, Time
  <2>2. Through(Transitions(1), y.asOf)' = Through(Transitions(1), y.asOf)
    <3>1. \A j \in Approved : j \in Ids
      BY Rows
    <3>2. i \in Ids /\ chain'[i].transition.at = states[n].at
      BY DEF Appends
    <3>3. \A j \in Approved : (Recorded(j)' /\ chain'[j].transition.position = 1 /\ chain'[j].transition.at <= y.asOf)
                                <=> (Recorded(j) /\ chain[j].transition.position = 1 /\ chain[j].transition.at <= y.asOf)
      <4> TAKE j \in Approved
      <4>1. CASE j = i
        BY <2>1, <3>2, <4>1 DEF Appends
      <4>2. CASE j # i
        BY <3>1, <4>2, AppendsRecorded
      <4> QED
        BY <4>1, <4>2
    <3> QED
      BY <1>1, <3>3 DEF Through, Transitions
  <2>3. ReviewsThrough(1, y.asOf)' = ReviewsThrough(1, y.asOf)
    BY <1>7 DEF ReviewsThrough
  <2>4. \A m \in DOMAIN states : Waiting(m)' => y.asOf < states[m].at
    BY <2>1, AppendsWaiting
  <2>5. \A j \in y.chain : j \in Ids /\ chain'[j] = chain[j]
    <3>1. \A j \in y.chain : j \in Ids /\ Recorded(j)
      BY <1>11, Rows DEF RecordOK, Through, Transitions
    <3> QED
      BY <3>1, AppendsRecorded
  <2> QED
    BY <1>1, <1>11, <2>2, <2>3, <2>4, <2>5 DEF RecordOK
<1>12. ArchiveOK'
  <2>1. \A m \in DOMAIN archive : archive[m] \in RecordRow
    BY DEF ArchiveTypeOK
  <2> QED
    BY <1>1, <1>11, <2>1 DEF ArchiveOK
<1> QED
    BY <1>3, <1>4, <1>6, <1>10, <1>12

LEMMA MaterializeTerminalInv ==
    ASSUME BInv, NEW i \in Approved, MaterializeTerminal(i), UNCHANGED <<archive, publisher>>
    PROVE  BInv'
<1> USE DEF BInv
<1>0. PICK n : n = StateOf(i)
    OBVIOUS
<1>1. BookTypeOK' /\ \E x : Appends(i, n, x)
    BY <1>0, MaterializeDoes
<1>2. PICK x : Appends(i, n, x)
    BY <1>1
<1>3. UNCHANGED <<now, phase, held, intents, states>>
    BY <1>2 DEF Appends
<1>4. IntentsOK' /\ StatesOK' /\ FillsOK' /\ HeldOK'
    BY <1>3 DEF IntentsOK, StatesOK, FillsOK, HeldOK, Approved, Certified, Filled, Exit, IsRoll
<1>5. ArchiveTypeOK'
    BY DEF ArchiveTypeOK
<1> QED
    BY <1>1, <1>2, <1>4, <1>5, AppendsChain, AppendsReviews

\* The steps of the book.
LEMMA BookInv ==
    ASSUME BInv, BookNext, UNCHANGED <<archive, publisher>>
    PROVE  BInv'
<1>1. ASSUME NEW r \in Runs,
             \/ StartRun(r) \/ AskForEntry(r) \/ EndRun(r)
             \/ DecideEntry(r) \/ (\E kind \in {"NO_TRADE", "CALIBRATION"} : DecideNoTrade(r, kind))
             \/ LoadContext(r) \/ PersistManifest(r) \/ DecideHold(r)
             \/ \E action \in {"ROLL", "CLOSE"} : DecideExit(r, action)
      PROVE  BInv'
    BY <1>1, StartRunInv, AskForEntryInv, EndRunInv, DecideEntryInv, DecideNoTradeInv, LoadContextInv,
       PersistManifestInv, DecideHoldInv, DecideExitInv
<1>2. ASSUME NEW i \in Approved,
             \/ Submit(i) \/ Release(i)
             \/ \E certificate \in {"FILLED", "UNFILLED", "PARTIAL"} : Finalize(i, certificate)
             \/ MaterializeEntry(i) \/ MaterializeTerminal(i)
      PROVE  BInv'
    BY <1>2, SubmitInv, ReleaseInv, FinalizeInv, MaterializeEntryInv, MaterializeTerminalInv
<1>3. CASE MarketTurns
    BY <1>3, MarketTurnsInv
<1> QED
    BY <1>1, <1>2, <1>3 DEF BookNext

-----------------------------------------------------------------------------
(* The transitions of the position *)

\* The transitions of the position are the recorded fills.
LEMMA TheTransitions ==
    ASSUME BInv
    PROVE  /\ \A i : i \in Transitions(1) <=> i \in Ids /\ Recorded(i)
           /\ Transitions(1) # {} => positions # <<>>
           /\ positions # <<>> => Position.current \in Transitions(1) /\ Position.entry \in Transitions(1)
<1> USE DEF BInv
<1>1. \A i : i \in Transitions(1) => i \in Ids /\ Recorded(i)
    BY Rows DEF Transitions
<1>2. \A i \in Ids : Recorded(i) => i \in Transitions(1) /\ positions # <<>>
    BY RecordedIs DEF Transitions, RowOK
<1>3. positions # <<>> => /\ Position.current \in Ids /\ Recorded(Position.current)
                          /\ Position.entry \in Ids /\ Recorded(Position.entry)
    BY ThePosition, RowStates
<1> QED
    BY <1>1, <1>2, <1>3

\* The sequence of a transition counts the states from the entry; no two have the same.
LEMMA SequenceIs ==
    ASSUME BInv, NEW i \in Ids, Recorded(i)
    PROVE  /\ chain[i].transition.sequence = At(i) - At(Position.entry)
           /\ chain[i].transition.sequence \in Nat
           /\ \A j \in Ids : Recorded(j) /\ At(j) = At(i) => j = i
<1> USE DEF BInv
<1>1. positions # <<>> /\ RowOK(i)
    BY RecordedIs
<1>2. chain[i].transition.sequence = At(i) - At(Position.entry)
    BY <1>1 DEF RowOK, At
<1>3. At(i) \in Nat /\ At(Position.entry) \in Nat /\ At(Position.entry) <= At(i)
    BY <1>1, RowStates
<1>4. \A j \in Ids : Recorded(j) => states[At(j)].intent = j
    BY <1>1, RowStates
<1> QED
    BY <1>2, <1>3, <1>4

\* The last of some transitions is the one with the latest state.
LEMMA LastIs ==
    ASSUME BInv, NEW ids \in SUBSET Ids, \A i \in ids : Recorded(i), NEW l \in ids,
           \A i \in ids : At(i) <= At(l)
    PROVE  Last(ids) = l
<1> USE DEF BInv
<1> DEFINE Later(i) == \A j \in ids : chain[j].transition.sequence <= chain[i].transition.sequence
<1>1. \A i \in ids : /\ i \in Ids /\ Recorded(i) /\ At(i) \in Nat /\ At(Position.entry) \in Nat
                     /\ chain[i].transition.sequence = At(i) - At(Position.entry)
  <2> TAKE i \in ids
  <2>1. positions # <<>>
    BY RecordedIs
  <2> QED
    BY <2>1, SequenceIs, RowStates
<1>2. Later(l)
    BY <1>1
<1>3. \A i \in ids : Later(i) => i = l
  <2> SUFFICES ASSUME NEW i \in ids, Later(i) PROVE i = l
    OBVIOUS
  <2>1. At(l) <= At(i) /\ At(i) <= At(l)
    BY <1>1
  <2>2. At(i) = At(l)
    BY <1>1, <2>1
  <2> QED
    BY <1>1, <2>2, SequenceIs
<1>4. Last(ids) \in ids /\ Later(Last(ids))
  <2>1. Last(ids) = CHOOSE i \in ids : Later(i)
    BY DEF Last
  <2> HIDE DEF Later
  <2> QED
    BY <1>2, <2>1
<1> HIDE DEF Later
<1> QED
    BY <1>3, <1>4

\* The last transition is the current one.
LEMMA LastIsCurrent ==
    ASSUME BInv, positions # <<>>
    PROVE  Last(Transitions(1)) = Position.current
<1>1. /\ Transitions(1) \in SUBSET Ids /\ \A i \in Transitions(1) : Recorded(i) /\ i \in Ids
      /\ Position.current \in Transitions(1)
    BY TheTransitions
<1>2. \A i \in Transitions(1) : At(i) <= At(Position.current)
    BY <1>1, RowStates DEF BInv
<1> QED
    BY <1>1, <1>2, LastIs

-----------------------------------------------------------------------------
(* The steps of the publisher *)

\* Every set of times that is not empty has a latest one.
LEMMA LatestOf ==
    ASSUME NEW T \in SUBSET Time, T # {}
    PROVE  \E t \in T : \A u \in T : u <= t
<1> DEFINE D == {MaxTime - t : t \in T}
<1>1. \A t \in T : t \in 0 .. MaxTime /\ MaxTime \in Nat
    BY BookAssumption DEF Time
<1>2. D \in SUBSET Nat /\ D # {}
    BY <1>1
<1>3. PICK d \in D : \A e \in D : d <= e
  <2> HIDE DEF D
  <2> QED
    BY <1>2, LeastNumber
<1>4. PICK t \in T : d = MaxTime - t
    OBVIOUS
<1>5. ASSUME NEW u \in T PROVE u <= t
  <2>1. d <= MaxTime - u
    BY <1>3
  <2> QED
    BY <1>1, <1>4, <2>1
<1> QED
    BY <1>5

\* The moment of a record is not before a transition or a review, nor after a waiting fill.
LEMMA AsOfIs ==
    ASSUME BInv, positions # <<>>, NEW t, t = AsOf(Transitions(1), Reviews(1))
    PROVE  /\ t \in Time /\ t <= now
           /\ \A i \in Transitions(1) : chain[i].transition.at <= t
           /\ \A d \in Reviews(1) : d.boundary <= t
           /\ \A n \in DOMAIN states : Waiting(n) => t < states[n].at
<1> USE DEF BInv
<1> DEFINE T == {chain[i].transition.at : i \in Transitions(1)} \cup {d.boundary : d \in Reviews(1)}
<1>1. \A i \in Transitions(1) : /\ i \in Ids /\ Recorded(i) /\ chain[i].transition.at = states[At(i)].at
                                /\ At(i) \in DOMAIN states /\ At(i) \in Nat /\ At(i) <= At(Position.current)
                                /\ states[At(i)].at \in Nat /\ states[At(i)].at <= now
    BY TheTransitions, RowStates
<1>2. \A d \in Reviews(1) : d.boundary \in Moments /\ d.boundary \in Time /\ d.boundary <= now
    BY MomentsAreTimes DEF Moments, MomentsOK
<1>3. \A i \in Transitions(1) : chain[i].transition.at \in Time
    BY <1>1, Rows DEF StateRow
<1>4. T \in SUBSET Time /\ T # {} /\ \A u \in T : u <= now
    BY <1>1, <1>2, <1>3, TheTransitions
<1>5. ASSUME NEW n \in DOMAIN states, Waiting(n), NEW u \in T PROVE u < states[n].at
  <2>1. CASE u \in {d.boundary : d \in Reviews(1)}
    BY <1>2, <1>5, <2>1 DEF MomentsOK
  <2>2. CASE u \in {chain[i].transition.at : i \in Transitions(1)}
    <3>1. PICK i \in Transitions(1) : u = chain[i].transition.at
      BY <2>2
    <3>2. n = At(Position.current) + 1 /\ At(Position.current) \in Nat
      BY <1>5, RowStates DEF Waiting
    <3>3. At(i) < n
      BY <1>1, <3>2
    <3> QED
      BY <1>1, <3>1, <3>3 DEF StatesOK
  <2> QED
    BY <1>5, <2>1, <2>2
<1>6. t = CHOOSE v \in T : \A u \in T : u <= v
    BY DEF AsOf
<1>7. \A i \in Transitions(1) : chain[i].transition.at \in T
    OBVIOUS
<1>8. \A d \in Reviews(1) : d.boundary \in T
    OBVIOUS
<1> HIDE DEF T
<1>9. t \in T /\ \A u \in T : u <= t
    BY <1>4, <1>6, LatestOf
<1> QED
    BY <1>4, <1>5, <1>7, <1>8, <1>9

\* A step of the publisher leaves the book as it is.
LEMMA BookStays ==
    ASSUME BInv, UNCHANGED book
    PROVE  /\ BookTypeOK' /\ IntentsOK' /\ ExitsOK' /\ StatesOK' /\ FillsOK' /\ HeldOK'
           /\ ChainOK' /\ RunsOK' /\ RollsOK' /\ MomentsOK' /\ Quiet /\ decisions' = decisions
           /\ positions' = positions
<1> USE DEF BInv
<1>1. UNCHANGED <<role, now, phase, held, intents, states, positions, chain, decisions, latched, run>>
    BY DEF book, rows
<1>2. BookTypeOK'
    BY <1>1 DEF BookTypeOK
<1>3. now \in Nat /\ phase \in Nat
    BY Rows
<1>4. Quiet /\ IntentsQuiet /\ DecisionsQuiet /\ IntentsOK' /\ RunsQuiet
    BY <1>1, <1>3, SameIntents, SameDecisions, SameIntentsOK, SameRuns DEF Quiet
<1> QED
    BY <1>1, <1>2, <1>4, QuietStates, QuietFills, QuietHeld, QuietChain, QuietExits, QuietRuns, QuietRolls,
       QuietMoments

\* A record that was there is as good as before.
LEMMA OldRecords ==
    ASSUME BInv, UNCHANGED book, NEW n \in DOMAIN archive, archive[n].kind = "POSITION"
    PROVE  RecordOK(archive[n]) /\ \A x : x = archive[n] => RecordOK(x)'
<1>1. archive[n] \in RecordRow /\ RecordOK(archive[n])
    BY DEF BInv, ArchiveTypeOK, ArchiveOK
<1>2. \A x \in RecordRow : RecordOK(x) => RecordOK(x)'
    BY BookStays, QuietRecord DEF BInv
<1> QED
    BY <1>1, <1>2

\* The publisher reads the row of the one position.
LEMMA PublishBeginsInv ==
    ASSUME BInv, NEW p \in DOMAIN positions, PublishBegins(p)
    PROVE  BInv'
<1> USE DEF BInv
<1>1. publisher' = [position |-> p, row |-> positions[p]] /\ archive' = archive /\ UNCHANGED book
    BY DEF PublishBegins
<1>2. p = 1 /\ positions # <<>> /\ positions[p] \in PositionRow
    BY ThePosition, Rows
<1>3. ArchiveTypeOK'
    BY <1>1, <1>2 DEF ArchiveTypeOK
<1>4. ArchiveOK'
  <2>1. \A n \in DOMAIN archive : archive[n].kind = "POSITION" => RecordOK(archive[n])'
    BY <1>1, OldRecords
  <2>2. positions' # <<>> /\ publisher'.position = 1
    BY <1>1, <1>2, BookStays
  <2> QED
    BY <1>1, <2>1, <2>2 DEF ArchiveOK
<1> QED
    BY <1>1, <1>3, <1>4, BookStays

\* A record more.
LEMMA RecordInv ==
    ASSUME BInv, UNCHANGED book, NEW x \in RecordRow, archive' = Append(archive, x),
           x.kind = "POSITION" => RecordOK(x), publisher' \in {publisher, None}
    PROVE  BInv'
<1> USE DEF BInv
<1>1. /\ archive' \in Seq(RecordRow) /\ DOMAIN archive' = DOMAIN archive \cup {Len(archive) + 1}
      /\ archive'[Len(archive) + 1] = x /\ \A n \in DOMAIN archive : archive'[n] = archive[n]
    BY RowAdded DEF ArchiveTypeOK
<1>2. ArchiveTypeOK'
    BY <1>1 DEF ArchiveTypeOK
<1>3. x.kind = "POSITION" => RecordOK(x)'
    BY BookStays, QuietRecord
<1>4. \A n \in DOMAIN archive : archive[n].kind = "POSITION" => RecordOK(archive[n])'
    BY <1>1, OldRecords
<1>5. \A n \in DOMAIN archive' : archive'[n].kind = "POSITION" => RecordOK(archive[n])'
    BY <1>1, <1>3, <1>4
<1>6. publisher' # None => positions' # <<>> /\ publisher'.position = 1
    BY BookStays DEF ArchiveOK
<1> QED
    BY <1>2, <1>5, <1>6, BookStays DEF ArchiveOK

\* A record of a decision is no record of a position.
LEMMA PublishNoTradeInv ==
    ASSUME BInv, NEW d \in decisions, PublishNoTrade(d)
    PROVE  BInv'
<1> DEFINE x == [kind |-> "NO_TRADE", subject |-> d.boundary, chain |-> {}, reviews |-> {}, closed |-> 0,
                 asOf |-> d.boundary, state |-> "CLOSED"]
<1>1. archive' = Append(archive, x) /\ publisher' = publisher /\ UNCHANGED book
    BY DEF PublishNoTrade
<1>2. x \in RecordRow /\ x.kind # "POSITION"
  <2>1. d.boundary \in Time /\ d.boundary \in Nat /\ 0 \in Time
    BY BookAssumption DEF BInv, BookTypeOK, DecisionRow, Time
  <2> QED
    BY <2>1 DEF RecordRow
<1> HIDE DEF x
<1> QED
    BY <1>1, <1>2, RecordInv

\* A record has all the transitions and reviews up to its moment: the row that was read before
\* has to be the row of the last transition.
LEMMA PublishEndsInv ==
    ASSUME BInv, PublishEnds
    PROVE  BInv'
<1> USE DEF BInv
<1> DEFINE ids == Transitions(1)
           reviews == Reviews(1)
           y == PositionRecord(1, publisher.row, ids, reviews)
<1>1. /\ publisher # None /\ publisher.position = 1 /\ positions # <<>> /\ publisher.row \in PositionRow
      /\ publisher' = None /\ UNCHANGED book
    BY DEF PublishEnds, ArchiveOK, ArchiveTypeOK
<1>2. archive' = archive \/ (PositionAuthority(publisher.row, ids) /\ archive' = Append(archive, y))
    BY <1>1 DEF PublishEnds
<1>3. CASE archive' = archive
  <2>1. ArchiveTypeOK'
    BY <1>1, <1>3 DEF ArchiveTypeOK
  <2>2. \A n \in DOMAIN archive : archive[n].kind = "POSITION" => RecordOK(archive[n])'
    BY <1>1, <1>3, OldRecords
  <2> QED
    BY <1>1, <1>3, <2>1, <2>2, BookStays DEF ArchiveOK
<1>4. CASE PositionAuthority(publisher.row, ids) /\ archive' = Append(archive, y)
  <2>1. PICK t : t = AsOf(ids, reviews)
    OBVIOUS
  <2>2. /\ t \in Time /\ t <= now
        /\ \A i \in ids : chain[i].transition.at <= t
        /\ \A d \in reviews : d.boundary <= t
        /\ \A n \in DOMAIN states : Waiting(n) => t < states[n].at
    BY <1>1, <2>1, AsOfIs
  <2> DEFINE l == Position.current
             state == IF chain[l].transition.action = "CLOSE" THEN "CLOSED" ELSE "OPEN"
  <2>3. /\ Last(ids) = l /\ l \in ids /\ ids \in SUBSET Ids
        /\ \A i \in ids : i \in Ids /\ Recorded(i) /\ At(i) <= At(l) /\ At(i) \in Nat
        /\ At(Position.entry) \in Nat
    BY <1>1, LastIsCurrent, TheTransitions, RowStates
  <2>4. y = [kind |-> "POSITION", subject |-> 1, chain |-> ids, reviews |-> reviews,
             closed |-> publisher.row.closed, asOf |-> t, state |-> state]
    BY <2>1, <2>3 DEF PositionRecord
  <2>5. reviews \in SUBSET DecisionRow
    <3>1. \A i : ReviewedFor(i) => ReviewOf(i) \in DecisionRow
      BY Rows DEF ReviewedFor, ReviewOf, IntentRow, DecisionRow
    <3>2. \A d \in decisions : d \in DecisionRow
      BY DEF BookTypeOK
    <3> QED
      BY <3>1, <3>2, ReviewsAre
  <2>6. (publisher.row.closed # 0) = (chain[l].transition.action = "CLOSE") /\ publisher.row.closed \in Time
    <3>1. publisher.row.closed = (IF chain[l].transition.action = "CLOSE" THEN chain[l].transition.at ELSE 0)
      BY <1>4, <2>3 DEF PositionAuthority
    <3>2. chain[l].transition.at # 0
      BY <1>1, <2>3, RowStates
    <3> QED
      BY <1>1, <3>1, <3>2 DEF PositionRow
  <2>7. Through(ids, t) = ids /\ ReviewsThrough(1, t) = reviews
    BY <2>2 DEF Through, ReviewsThrough
  <2>8. \A i \in ids : chain[i].transition.sequence <= chain[l].transition.sequence
    BY <2>3, SequenceIs
  <2> HIDE DEF ids, reviews
  <2>9. /\ y.kind = "POSITION" /\ y.subject = 1 /\ y.chain = ids /\ y.reviews = reviews
        /\ y.closed = publisher.row.closed /\ y.asOf = t /\ y.state = state
    BY <2>4
  <2>10. y \in RecordRow
    <3>1. state \in {"OPEN", "CLOSED"}
      OBVIOUS
    <3> HIDE DEF state, y
    <3> QED
      BY <2>2, <2>3, <2>4, <2>5, <2>6, <3>1 DEF RecordRow
  <2> HIDE DEF y
  <2>11. RecordOK(y)
    BY <1>1, <2>2, <2>3, <2>6, <2>7, <2>8, <2>9 DEF RecordOK, ids, reviews
  <2> QED
    BY <1>1, <1>4, <2>10, <2>11, RecordInv
<1> QED
    BY <1>2, <1>3, <1>4

-----------------------------------------------------------------------------

\* The invariant holds of an empty book,
LEMMA InitInv == PublicationInit => BInv
<1> HAVE PublicationInit
<1>1. /\ role \in Roles /\ now = 0 /\ phase = 1 /\ held = {} /\ intents = <<>> /\ states = <<>>
      /\ positions = <<>> /\ chain = [i \in Ids |-> None] /\ decisions = {} /\ latched = FALSE
      /\ run = [r \in Runs |-> Idle] /\ archive = <<>> /\ publisher = None
    BY DEF PublicationInit, Init
<1>2. 1 \in 1 .. MaxPhase[role] /\ 1 \in Phases /\ 0 \in Time
  <2>1. MaxPhase[role] \in Nat \ {0} /\ MaxTime \in Nat
    BY <1>1, BookAssumption
  <2> QED
    BY <1>1, <2>1 DEF Phases, Time
<1>3. Idle \in RunState /\ Idle.at = 0 /\ Idle.pc = "idle"
    BY <1>2, BookAssumption DEF Idle, RunState
<1>4. BookTypeOK
  <2>1. role \in Roles /\ now \in Time /\ phase \in 1 .. MaxPhase[role] /\ held \subseteq Ids
    BY <1>1, <1>2
  <2>2. intents \in Seq(IntentRow) /\ Len(intents) <= MaxIntents
    BY <1>1, BookAssumption
  <2>3. states \in Seq(StateRow) /\ positions \in Seq(PositionRow)
    BY <1>1
  <2>4. chain \in [Ids -> ChainRow \cup {None}] /\ run \in [Runs -> RunState]
    BY <1>1, <1>3
  <2>5. decisions \subseteq DecisionRow /\ latched \in BOOLEAN
    BY <1>1
  <2> QED
    BY <2>1, <2>2, <2>3, <2>4, <2>5 DEF BookTypeOK
<1>5. ArchiveTypeOK
    BY <1>1 DEF ArchiveTypeOK
<1>6. /\ Approved = {} /\ DOMAIN states = {} /\ DOMAIN archive = {} /\ DOMAIN positions = {}
      /\ \A r \in Runs : ~Reviewing(r) /\ run[r].at = 0
      /\ \A i \in Ids : ~Recorded(i)
    BY <1>1, <1>3 DEF Approved, Reviewing, Recorded
<1>7. Reviews(1) = {}
    BY <1>1, <1>6 DEF Reviews
<1>8. Moments = {}
    BY <1>6, <1>7 DEF Moments
<1>9. IntentsOK /\ ExitsOK /\ StatesOK /\ FillsOK /\ HeldOK /\ RollsOK
    BY <1>1, <1>6 DEF IntentsOK, ExitsOK, StatesOK, FillsOK, HeldOK, RollsOK
<1>10. ChainOK /\ RunsOK /\ MomentsOK /\ ArchiveOK
    BY <1>1, <1>6, <1>7, <1>8 DEF ChainOK, RunsOK, MomentsOK, ArchiveOK
<1> QED
    BY <1>4, <1>5, <1>9, <1>10 DEF BInv

\* and every step keeps it.
LEMMA NextInv == BInv /\ [Next]_vars => BInv'
<1> SUFFICES ASSUME BInv, [Next]_vars PROVE BInv'
    OBVIOUS
<1>1. CASE BookNext /\ UNCHANGED <<archive, publisher>>
    BY <1>1, BookInv
<1>2. CASE \E p \in DOMAIN positions : PublishBegins(p)
    BY <1>2, PublishBeginsInv
<1>3. CASE PublishEnds
    BY <1>3, PublishEndsInv
<1>4. CASE \E d \in decisions : PublishNoTrade(d)
    BY <1>4, PublishNoTradeInv
<1>5. CASE UNCHANGED vars
  <2>1. UNCHANGED book /\ archive' = archive /\ publisher' = publisher
    BY <1>5 DEF vars
  <2>2. ArchiveTypeOK'
    BY <2>1 DEF BInv, ArchiveTypeOK
  <2>3. ArchiveOK'
    BY <2>1, BookStays, QuietArchive DEF BInv
  <2> QED
    BY <2>1, <2>2, <2>3, BookStays DEF BInv
<1> QED
    BY <1>1, <1>2, <1>3, <1>4, <1>5 DEF Next

\* The book keeps its invariant through every interleaving of runs, executions, the two
\* materializers and the publisher: there is at most one position, its entry is the first fill
\* of the account, and its transitions are the fills of consecutive reconciliation states, each
\* closing what the one before it left.
THEOREM BookInvariant == Spec => []BInv
<1> QED
    BY InitInv, NextInv, PTL DEF Spec

-----------------------------------------------------------------------------
(* What the invariant says of the rows *)

\* What a state has seen filled is what the state before it has, and its own fill.
LEMMA FilledNext ==
    ASSUME BInv, NEW n \in DOMAIN states, NEW m \in DOMAIN states, m = n + 1, Filled(states[m].intent)
    PROVE  /\ states[m].filled = states[n].filled \cup {states[m].intent}
           /\ states[m].intent \notin states[n].filled
<1> USE DEF BInv
<1>1. n \in Nat /\ m \in Nat /\ m \in 1 .. m
    BY Rows
<1>2. /\ states[m].filled = {states[k].intent : k \in {l \in 1 .. m : Filled(states[l].intent)}}
      /\ states[n].filled = {states[k].intent : k \in {l \in 1 .. n : Filled(states[l].intent)}}
    BY DEF FillsOK
<1>3. 1 .. m = (1 .. n) \cup {m}
    BY <1>1
<1>4. \A k \in 1 .. n : k \in DOMAIN states /\ k < m
    BY <1>1, Rows
<1>5. \A k \in 1 .. n : states[k].intent # states[m].intent
    BY <1>4 DEF StatesOK
<1>6. states[m].filled \subseteq states[n].filled \cup {states[m].intent}
    BY <1>2, <1>3
<1>7. states[n].filled \cup {states[m].intent} \subseteq states[m].filled
    BY <1>2, <1>3, <1>1
<1> QED
    BY <1>2, <1>5, <1>6, <1>7

\* The transition after one that is not the current one closed what that one had opened.
LEMMA Successor ==
    ASSUME BInv, NEW c \in Ids, Recorded(c), c # Position.current
    PROVE  /\ \E k \in Ids : /\ Recorded(k) /\ At(k) = At(c) + 1 /\ k \in Approved /\ Filled(k) /\ Exit(k)
                             /\ intents[k].snapshot = c /\ intents[k].fingerprint = c
           /\ chain[c].transition.action # "CLOSE" /\ At(c) < At(Position.current)
<1> USE DEF BInv
<1>1. positions # <<>>
    BY RecordedIs
<1>2. /\ Position.current \in Ids /\ Recorded(Position.current)
      /\ Position.entry \in Ids /\ Recorded(Position.entry)
    BY <1>1, ThePosition, RowStates
<1>3. /\ At(c) \in Nat /\ At(Position.current) \in Nat /\ At(Position.entry) \in Nat
      /\ At(Position.entry) <= At(c) /\ At(c) <= At(Position.current) /\ At(c) # At(Position.current)
    BY <1>1, <1>2, RowStates, SequenceIs
<1>4. At(c) + 1 \in At(Position.entry) .. At(Position.current)
    BY <1>3
<1> DEFINE k == states[At(c) + 1].intent
<1>5. At(c) + 1 \in DOMAIN states /\ Recorded(k) /\ k \in Ids
    BY <1>1, <1>4, Rows DEF ChainOK, StateRow
<1>6. RowOK(k) /\ k \in Approved /\ Filled(k) /\ Certified(k)
  <2>1. RowOK(k)
    BY <1>5, RecordedIs
  <2>2. k \in Approved /\ Filled(k)
    BY <2>1 DEF RowOK
  <2> QED
    BY <2>1, <2>2 DEF Filled, Certified
<1>7. At(k) = At(c) + 1
    BY <1>1, <1>5, <1>6, RowStates, StateOfIs
<1>8. k # Position.entry
    BY <1>3, <1>7
<1>9. /\ Exit(k) /\ chain[k].transition.predecessor = intents[k].snapshot
      /\ At(chain[k].transition.predecessor) = At(k) - 1
  <2> HIDE DEF k
  <2> QED
    BY <1>6, <1>8 DEF RowOK, Exit, At
<1>10. Reviewable(intents[k].snapshot) /\ intents[k].fingerprint = intents[k].snapshot
    BY <1>6, <1>9 DEF ExitsOK
<1>11. At(intents[k].snapshot) = At(c)
    BY <1>3, <1>7, <1>9
<1>12. intents[k].snapshot = c
    BY <1>10, <1>11, SequenceIs DEF Reviewable
<1> HIDE DEF k
<1> QED
    BY <1>3, <1>5, <1>6, <1>7, <1>9, <1>10, <1>12 DEF Reviewable

\* So a fill for an inventory that has been replaced is the recorded one.
LEMMA ReplacedIsRecorded ==
    ASSUME BInv, NEW i \in Approved, Filled(i), Exit(i), intents[i].snapshot # Position.current
    PROVE  Recorded(i) /\ At(i) = At(intents[i].snapshot) + 1
<1> USE DEF BInv
<1> DEFINE c == intents[i].snapshot
<1>1. c \in Ids /\ Recorded(c) /\ intents[i].fingerprint = c
    BY DEF ExitsOK, Reviewable
<1>2. PICK k \in Ids : /\ Recorded(k) /\ At(k) = At(c) + 1 /\ k \in Approved /\ Filled(k) /\ Exit(k)
                       /\ intents[k].snapshot = c /\ intents[k].fingerprint = c
    BY <1>1, Successor
<1>3. i = k
    BY <1>1, <1>2 DEF HeldOK
<1> QED
    BY <1>2, <1>3

\* A recorded fill was finalized with the state of its row.
LEMMA StateOfRecorded ==
    ASSUME BInv, NEW i \in Ids, Recorded(i)
    PROVE  StateOf(i) = At(i) /\ i \in Approved
<1>1. positions # <<>> /\ i \in Approved /\ Certified(i)
    BY RecordedIs DEF BInv, RowOK, Filled, Certified
<1>2. At(i) \in DOMAIN states /\ states[At(i)].intent = i
    BY <1>1, RowStates DEF BInv
<1> QED
    BY <1>1, <1>2, StateOfIs DEF BInv

\* What the account had filled by the state of a transition are the transitions up to it.
LEMMA FilledAreRecorded ==
    ASSUME BInv, NEW i \in Ids, Recorded(i)
    PROVE  states[At(i)].filled = {j \in Ids : Recorded(j) /\ At(j) <= At(i)}
<1> USE DEF BInv
<1> DEFINE n == At(i)
           e == Position.entry
<1>1. positions # <<>>
    BY RecordedIs
<1>2. /\ n \in DOMAIN states /\ n \in Nat /\ At(e) \in Nat /\ At(e) \in DOMAIN states /\ At(e) <= n
      /\ n <= At(Position.current) /\ At(Position.current) \in Nat /\ e \in Ids /\ RowOK(e)
      /\ states[At(e)].intent = e
    BY <1>1, RowStates, ThePosition
<1>3. states[n].filled = {states[k].intent : k \in {l \in 1 .. n : Filled(states[l].intent)}}
    BY <1>2 DEF FillsOK
<1>4. states[At(e)].filled = {e}
    BY <1>2 DEF RowOK, At
<1>5. ASSUME NEW k \in 1 .. n, Filled(states[k].intent)
      PROVE  states[k].intent \in Ids /\ Recorded(states[k].intent) /\ At(states[k].intent) <= n
  <2>1. k \in DOMAIN states /\ k \in Nat /\ k <= n
    BY <1>2, Rows
  <2>2. ~(k < At(e))
    <3> SUFFICES ASSUME k < At(e) PROVE FALSE
      OBVIOUS
    <3>1. states[k].intent \in states[At(e)].filled
      BY <1>2, <1>5, <2>1, FilledSoFar
    <3>2. states[k].intent # states[At(e)].intent
      BY <1>2, <2>1 DEF StatesOK
    <3> QED
      BY <1>2, <1>4, <3>1, <3>2
  <2>3. k \in At(e) .. At(Position.current)
    BY <1>2, <2>1, <2>2
  <2>4. Recorded(states[k].intent) /\ states[k].intent \in Ids
    BY <1>1, <2>1, <2>3, Rows DEF ChainOK, StateRow
  <2>5. At(states[k].intent) = k
    <3>1. RowOK(states[k].intent)
      BY <2>4, RecordedIs
    <3>2. states[k].intent \in Approved /\ Certified(states[k].intent)
      BY <3>1 DEF RowOK, Filled, Certified
    <3> QED
      BY <2>1, <2>4, <3>2, StateOfIs, StateOfRecorded
  <2> QED
    BY <2>1, <2>4, <2>5
<1>6. ASSUME NEW j \in Ids, Recorded(j), At(j) <= n PROVE j \in states[n].filled
  <2>1. At(j) \in DOMAIN states /\ states[At(j)].intent = j /\ Filled(j)
    BY <1>1, <1>6, RowStates, RecordedIs DEF RowOK
  <2> QED
    BY <1>2, <1>6, <2>1, FilledSoFar
<1>7. states[n].filled \subseteq Ids
    BY <1>2, Rows DEF StateRow
<1> HIDE DEF n, e
<1>8. \A j \in states[n].filled : j \in Ids /\ Recorded(j) /\ At(j) <= n
    BY <1>3, <1>5
<1> QED
    BY <1>6, <1>8 DEF n

-----------------------------------------------------------------------------
(* A fill can be recorded, or it never is *)

\* The reasons for which a fill can never be a transition, as FillsAreRecordable has them.
Lost(i) == OutOfSession(i) \/ TradedBefore(i) \/ Overtaken(i) \/ BegunBefore(i)

\* No recorded fill is under one of the reasons.
LEMMA RecordedIsNotLost ==
    ASSUME BInv, NEW i \in Approved, Recorded(i)
    PROVE  ~Lost(i)
<1> USE DEF BInv
<1> DEFINE n == At(i)
<1>1. i \in Ids
    BY Rows
<1>2. positions # <<>> /\ RowOK(i) /\ StateOf(i) = n
    BY <1>1, RecordedIs, StateOfRecorded
<1>3. n \in DOMAIN states /\ n \in Nat
    BY <1>1, <1>2, RowStates
<1>4. CASE i = Position.entry
  <2>1. intents[i].action = "ENTRY" /\ states[n].filled = {i} /\ InSession(states[n].phase)
    BY <1>2, <1>4 DEF RowOK, At
  <2> HIDE DEF n
  <2> QED
    BY <1>2, <2>1 DEF Lost, OutOfSession, TradedBefore, Overtaken, BegunBefore
<1>5. CASE i # Position.entry
  <2> DEFINE c == intents[i].snapshot
  <2>1. /\ intents[i].action # "ENTRY" /\ At(c) = n - 1 /\ states[n].phase = intents[i].session
        /\ chain[c].transition.at <= intents[i].boundary
    BY <1>2, <1>5 DEF RowOK, At
  <2>2. c \in Ids /\ Recorded(c)
    BY <2>1 DEF ExitsOK, Exit, Reviewable
  <2>3. /\ n = chain[c].snapshot.state + 1 /\ chain[c].transition.at \in Nat
        /\ intents[i].boundary \in Nat
    <3>1. At(c) \in Nat /\ chain[c].transition.at \in Nat
      BY <1>2, <2>2, RowStates
    <3>2. intents[i].boundary \in Nat
      BY Rows DEF IntentRow, Time
    <3> QED
      BY <1>3, <2>1, <3>1, <3>2 DEF At
  <2>4. ~(intents[i].boundary < chain[c].transition.at)
    BY <2>1, <2>3
  <2> HIDE DEF n
  <2> QED
    BY <1>2, <2>1, <2>3, <2>4 DEF Lost, OutOfSession, TradedBefore, Overtaken, BegunBefore
<1> QED
    BY <1>4, <1>5

\* An entry that filled on its own finds an empty book.
LEMMA EntryIsRecordable ==
    ASSUME BInv, NEW i \in Approved, Filled(i), ~Recorded(i), ~Lost(i), ~Exit(i)
    PROVE  EntryLineage(i) /\ OpenPositions = {}
<1> USE DEF BInv
<1>1. /\ intents[i].action = "ENTRY" /\ InSession(states[StateOf(i)].phase)
      /\ states[StateOf(i)].filled = {i}
    BY DEF Lost, OutOfSession, TradedBefore, Exit
<1>2. positions = <<>>
    BY <1>1, FirstPosition
<1>3. StateOf(i) \in DOMAIN states /\ states[StateOf(i)].intent = i
    BY StateOfIs DEF Filled, Certified
<1>4. states[StateOf(i)].inventory = {i}
  <2>1. PICK n : n = StateOf(i)
    OBVIOUS
  <2> QED
    BY <1>1, <1>3, <2>1 DEF FillsOK
<1> QED
    BY <1>1, <1>2, <1>4 DEF EntryLineage, EntryActivities, EntryInventory, OpenPositions, Filled

\* An exit that filled and is not recorded closes the current snapshot.
LEMMA WaitingExit ==
    ASSUME BInv, NEW i \in Approved, Filled(i), ~Recorded(i), Exit(i)
    PROVE  /\ positions # <<>> /\ intents[i].snapshot = Position.current
           /\ intents[i].fingerprint = Position.current /\ intents[i].position = 1
           /\ Position.closed = 0 /\ Position.fingerprint = Position.current /\ 1 \in OpenPositions
<1> USE DEF BInv
<1>1. /\ Reviewable(intents[i].snapshot) /\ intents[i].position = 1
      /\ intents[i].fingerprint = intents[i].snapshot
    BY DEF ExitsOK
<1>2. positions # <<>>
    BY <1>1, RecordedIs DEF Reviewable
<1>3. intents[i].snapshot = Position.current
    BY ReplacedIsRecorded
<1>4. Position.closed = 0
    BY <1>1, <1>2, <1>3, ClosedIs DEF Reviewable
<1>5. 1 \in OpenPositions
    BY <1>2, <1>4, ThePosition DEF OpenPositions, Position
<1> QED
    BY <1>1, <1>2, <1>3, <1>4, <1>5, OpenIs

\* It is the next transition, if no other execution was finalized in between.
LEMMA ExitIsRecordable ==
    ASSUME BInv, NEW i \in Approved, Filled(i), ~Recorded(i), ~Lost(i), Exit(i)
    PROVE  1 \in OpenPositions /\ TerminalLineage(i, 1)
<1> USE DEF BInv
<1> DEFINE c == Position.current
           n == StateOf(i)
           nc == At(Position.current)
<1>1. /\ positions # <<>> /\ intents[i].snapshot = c /\ intents[i].fingerprint = c
      /\ intents[i].position = 1 /\ Position.fingerprint = c /\ 1 \in OpenPositions
    BY WaitingExit
<1>2. Certified(i) /\ intents[i].action # "ENTRY"
    BY DEF Filled, Certified, Exit
<1>3. n \in DOMAIN states /\ states[n].intent = i /\ n \in Nat
    BY <1>2, StateOfIs
<1>4. c \in Ids /\ c # 0 /\ RowOK(c) /\ Recorded(c) /\ nc \in DOMAIN states /\ nc \in Nat /\ nc >= 1
    BY <1>1, ThePosition, RowStates, BookAssumption DEF Ids
<1>5. /\ states[n].phase = intents[i].session /\ n = nc + 1
      /\ ~(intents[i].boundary < chain[c].transition.at)
    BY <1>1, <1>2 DEF Lost, OutOfSession, Overtaken, BegunBefore, At
<1>6. chain[c].transition.at <= intents[i].boundary
  <2>1. chain[c].transition.at \in Nat /\ intents[i].boundary \in Nat
    BY <1>1, <1>4, RowStates, Rows, SMTT(30) DEF IntentRow, Time
  <2> QED
    BY <1>5, <2>1
<1>7. chain[c].snapshot.activities = states[nc].filled /\ states[nc].inventory = {c}
  <2>1. Reviewable(c)
    BY <1>1, <1>2 DEF ExitsOK, Exit
  <2> QED
    BY <1>4, <2>1 DEF RowOK, At, Reviewable
<1>8. states[n].filled = states[nc].filled \cup {i} /\ i \notin states[nc].filled
  <2> HIDE DEF n, nc
  <2> QED
    BY <1>3, <1>4, <1>5, FilledNext
<1>9. states[n].inventory = (IF intents[i].action = "ROLL" THEN {i} ELSE {})
  <2>1. n > 1 /\ n - 1 = nc
    BY <1>4, <1>5
  <2>2. states[n].inventory = (states[n - 1].inventory \ {intents[i].fingerprint})
                                  \cup (IF IsRoll(i) THEN {i} ELSE {})
    <3> HIDE DEF n
    <3> QED
      BY <1>3, <2>1 DEF FillsOK
  <2> QED
    BY <1>1, <1>7, <2>1, <2>2 DEF IsRoll
<1>10. positions[1] = Position
    BY DEF Position
<1>11. ReviewIsOfCurrent(i, 1) /\ NextState(i, 1) /\ EnvelopeMatches(i, 1) /\ TerminalLegs(i, 1)
    BY <1>1, <1>5, <1>6, <1>10
    DEF ReviewIsOfCurrent, NextState, EnvelopeMatches, TerminalLegs, At
<1>12. OnlyThisExecution(i, chain[c].snapshot.activities) /\ TerminalInventory(i)
    BY <1>7, <1>8, <1>9 DEF OnlyThisExecution, NewActivities, TerminalInventory
<1> QED
    BY <1>1, <1>10, <1>11, <1>12 DEF TerminalLineage

\* A fill that is not recorded can be recorded now, by the materializer that recovery calls,
\* or it falls under one of the four reasons and never is: the sweep of the materializers
\* over the certified executions leaves out no fill that it could still take in.
THEOREM EveryFillIsRecordable == Spec => []FillsAreRecordable
<1>1. ASSUME BInv PROVE FillsAreRecordable
  <2> SUFFICES ASSUME NEW i \in Approved, Filled(i)
               PROVE  IF Lost(i) THEN ~Recorded(i)
                      ELSE \/ Recorded(i)
                           \/ intents[i].action = "ENTRY" /\ EntryLineage(i) /\ OpenPositions = {}
                           \/ intents[i].action # "ENTRY" /\ \E p \in OpenPositions : TerminalLineage(i, p)
    BY DEF FillsAreRecordable, Lost
  <2>1. CASE Recorded(i)
    BY <1>1, <2>1, RecordedIsNotLost
  <2>2. CASE ~Recorded(i) /\ ~Lost(i) /\ ~Exit(i)
    BY <1>1, <2>2, EntryIsRecordable DEF Exit
  <2>3. CASE ~Recorded(i) /\ ~Lost(i) /\ Exit(i)
    BY <1>1, <2>3, ExitIsRecordable DEF Exit
  <2> QED
    BY <2>1, <2>2, <2>3
<1> QED
    BY <1>1, BookInvariant, PTL

-----------------------------------------------------------------------------
(* The book is what was traded *)

\* When every fill is recorded, nothing has filled after the current snapshot.
LEMMA HeldIsCurrent ==
    ASSUME BInv, positions # <<>>, \A i \in Approved : Filled(i) => Recorded(i)
    PROVE  held = {Position.fingerprint} \ {0}
<1> USE DEF BInv
<1> DEFINE nc == At(Position.current)
<1>1. nc \in DOMAIN states /\ nc \in Nat /\ RowOK(Position.current)
    BY ThePosition, RowStates
<1>2. ASSUME NEW m \in nc + 1 .. Len(states), Filled(states[m].intent) PROVE FALSE
  <2>1. m \in DOMAIN states /\ m \in Nat /\ m > nc
    BY <1>1, Rows
  <2>2. PICK k \in Approved : k = states[m].intent
    BY <2>1 DEF StatesOK
  <2>3. Recorded(k) /\ k \in Ids /\ Certified(k)
    BY <1>2, <2>2, Rows DEF Filled, Certified
  <2>4. m = At(k)
    BY <2>1, <2>2, <2>3, StateOfIs, StateOfRecorded
  <2>5. At(k) <= nc
    BY <2>3, RowStates
  <2> QED
    BY <1>1, <2>1, <2>4, <2>5
<1>3. held = states[nc].inventory
  <2> HIDE DEF nc
  <2> QED
    BY <1>1, <1>2 DEF FillsOK
<1>4. Position.fingerprint = chain[Position.current].snapshot.fingerprint
    BY DEF ChainOK
<1> QED
    BY <1>1, <1>3, <1>4 DEF RowOK, At

\* So the open positions are the legs at the broker.
LEMMA OpenIsHeld ==
    ASSUME BInv, \A i \in Approved : Filled(i) => Recorded(i)
    PROVE  held = {positions[p].fingerprint : p \in OpenPositions}
<1> USE DEF BInv
<1>1. CASE positions = <<>>
  <2>1. \A i \in Approved : ~Filled(i)
    BY <1>1, Rows DEF ChainOK
  <2>2. held = {}
    BY <2>1 DEF HeldOK
  <2> QED
    BY <1>1, <2>2 DEF OpenPositions
<1>2. CASE positions # <<>> /\ Position.closed = 0
  <2>1. OpenPositions = {1}
    BY <1>2, ThePosition DEF OpenPositions, Position
  <2>2. Position.fingerprint = Position.current /\ Position.current # 0
    BY <1>2, <2>1, OpenIs, ThePosition, BookAssumption DEF Ids
  <2> QED
    BY <1>2, <2>1, <2>2, HeldIsCurrent DEF Position
<1>3. CASE positions # <<>> /\ Position.closed # 0
  <2>1. OpenPositions = {}
    BY <1>3, ThePosition DEF OpenPositions, Position
  <2>2. chain[Position.current].transition.action = "CLOSE" /\ RowOK(Position.current)
    BY <1>3, ClosedIs, RowStates
  <2>3. Position.fingerprint = 0
    BY <1>3, <2>2 DEF ChainOK, RowOK
  <2> QED
    BY <1>3, <2>1, <2>3, HeldIsCurrent
<1> QED
    BY <1>1, <1>2, <1>3

\* The window of the entry of an open position, and of a closed one.
LEMMA WindowIs ==
    ASSUME BInv, positions # <<>>
    PROVE  /\ Position.closed = 0 =>
                WindowLifecycle(Position.entry) = [status |-> "OPEN", pnl |-> 0]
           /\ Position.closed # 0 =>
                WindowLifecycle(Position.entry) =
                    [status |-> "CLOSED", pnl |-> CashOf(states[At(Position.current)].filled)]
<1> USE DEF BInv
<1> DEFINE p == CHOOSE q \in DOMAIN positions : positions[q].entry = Position.entry
           close == {j \in Transitions(1) : chain[j].transition.action = "CLOSE"}
<1>1. p = 1 /\ \E q \in DOMAIN positions : positions[q].entry = Position.entry
    BY ThePosition DEF Position
<1>2. positions[1] = Position
    BY DEF Position
<1>3. CASE Position.closed = 0
    BY <1>1, <1>2, <1>3 DEF WindowLifecycle
<1>4. CASE Position.closed # 0
  <2>1. /\ chain[Position.current].transition.action = "CLOSE" /\ Position.current \in Transitions(1)
        /\ RowOK(Position.current) /\ At(Position.current) \in Nat
    BY <1>4, ClosedIs, RowStates, TheTransitions
  <2>2. \A j \in close : j \in Ids /\ Recorded(j) /\ j = Position.current
    BY TheTransitions, Successor
  <2>3. close \in SUBSET Ids /\ Position.current \in close
    BY <2>1, <2>2
  <2>4. \A j \in close : At(j) <= At(Position.current)
    BY <2>1, <2>2
  <2>5. Last(close) = Position.current
    <3> HIDE DEF close
    <3> QED
      BY <2>2, <2>3, <2>4, LastIs
  <2>6. chain[Position.current].snapshot.cumulative = CashOf(states[At(Position.current)].filled)
    BY <2>1 DEF RowOK, At
  <2>7. WindowLifecycle(Position.entry) =
            [status |-> "CLOSED", pnl |-> chain[Last(close)].snapshot.cumulative]
    BY <1>1, <1>2, <1>4 DEF WindowLifecycle
  <2> QED
    BY <1>4, <2>5, <2>6, <2>7
<1> QED
    BY <1>3, <1>4

\* What was ever filled for a closed position are its transitions.
LEMMA ClosedFills ==
    ASSUME BInv, positions # <<>>, Position.closed # 0
    PROVE  states[At(Position.current)].filled =
               {i \in Approved : Filled(i) /\ (i = Position.entry \/ intents[i].position = 1)}
<1> USE DEF BInv
<1> DEFINE F == states[At(Position.current)].filled
           G == {i \in Approved : Filled(i) /\ (i = Position.entry \/ intents[i].position = 1)}
<1>1. F = {j \in Ids : Recorded(j) /\ At(j) <= At(Position.current)}
    BY FilledAreRecorded, ThePosition, RowStates
<1>2. \A j \in Ids : Recorded(j) => At(j) <= At(Position.current)
    BY RowStates
<1>3. ASSUME NEW i \in Ids, Recorded(i) PROVE i \in G
  <2>1. RowOK(i)
    BY <1>3, RecordedIs
  <2>2. i \in Approved /\ Filled(i) /\ (i # Position.entry => Exit(i))
    BY <2>1 DEF RowOK, Exit
  <2> QED
    BY <2>2 DEF ExitsOK
<1>4. ASSUME NEW i \in G PROVE i \in Ids /\ Recorded(i)
  <2>1. i \in Approved /\ i \in Ids /\ Filled(i)
    BY Rows
  <2>2. CASE i = Position.entry
    BY <2>1, <2>2, RowStates
  <2>3. CASE i # Position.entry
    <3>1. Exit(i)
      BY <2>1, <2>3 DEF IntentsOK, Exit
    <3>2. Reviewable(intents[i].snapshot)
      BY <2>1, <3>1 DEF ExitsOK
    <3>3. intents[i].snapshot # Position.current
      BY <3>2, ClosedIs DEF Reviewable
    <3> QED
      BY <2>1, <3>1, <3>3, ReplacedIsRecorded
  <2> QED
    BY <2>2, <2>3
<1>5. F \subseteq G /\ G \subseteq F
  <2> HIDE DEF F, G
  <2> QED
    BY <1>1, <1>2, <1>3, <1>4
<1> QED
    BY <1>5

\* Two rolls of one session do not both fill: the second would have been reviewed with the
\* first one among the transitions.
LEMMA OneRollFills ==
    ASSUME BInv, NEW i \in Approved, NEW j \in Approved, IsRoll(i), IsRoll(j), Filled(i), Filled(j),
           intents[i].session = intents[j].session
    PROVE  i = j
<1> USE DEF BInv
<1>1. ASSUME NEW k \in Approved, NEW l \in Approved, IsRoll(k), IsRoll(l), Filled(k), Filled(l),
             intents[k].session = intents[l].session,
             At(intents[k].snapshot) < At(intents[l].snapshot)
      PROVE  FALSE
  <2> DEFINE c == intents[k].snapshot
             d == intents[l].snapshot
  <2>1. Exit(k) /\ Exit(l) /\ k \in Ids
    BY <1>1, Rows DEF IsRoll, Exit
  <2>2. c \in Ids /\ Recorded(c) /\ d \in Ids /\ Recorded(d)
    BY <2>1 DEF ExitsOK, Reviewable
  <2>3. positions # <<>>
    BY <2>2, RecordedIs
  <2>4. At(c) \in Nat /\ At(d) \in Nat /\ At(d) <= At(Position.current)
    BY <2>2, <2>3, RowStates
  <2>5. c # Position.current
    BY <1>1, <2>4
  <2>6. Recorded(k) /\ At(k) = At(c) + 1
    BY <1>1, <2>1, <2>5, ReplacedIsRecorded
  <2>7. At(k) <= At(d)
    BY <1>1, <2>4, <2>6
  <2>8. RowOK(k)
    BY <2>1, <2>6, RecordedIs
  <2>9. chain[k].transition.action = "ROLL" /\ chain[k].snapshot.session = intents[k].session
    BY <1>1, <2>8 DEF RowOK, IsRoll
  <2>10. NoRollYet(d, intents[l].session)
    BY <1>1 DEF RollsOK
  <2>11. chain[k].snapshot.session < intents[l].session
    BY <2>1, <2>6, <2>7, <2>9, <2>10 DEF NoRollYet
  <2>12. intents[l].session \in Nat
    BY Rows, PhasesAreNumbers DEF IntentRow
  <2> QED
    BY <1>1, <2>9, <2>11, <2>12
<1>2. Exit(i) /\ Exit(j)
    BY DEF IsRoll, Exit
<1>3. /\ intents[i].snapshot \in Ids /\ Recorded(intents[i].snapshot)
      /\ intents[j].snapshot \in Ids /\ Recorded(intents[j].snapshot)
      /\ intents[i].fingerprint = intents[i].snapshot /\ intents[j].fingerprint = intents[j].snapshot
    BY <1>2 DEF ExitsOK, Reviewable
<1>4. CASE intents[i].snapshot = intents[j].snapshot
    BY <1>2, <1>3, <1>4 DEF HeldOK
<1>5. CASE intents[i].snapshot # intents[j].snapshot
  <2>1. positions # <<>>
    BY <1>3, RecordedIs
  <2>2. At(intents[i].snapshot) \in Nat /\ At(intents[j].snapshot) \in Nat
    BY <1>3, <2>1, RowStates
  <2>3. At(intents[i].snapshot) # At(intents[j].snapshot)
    BY <1>3, <1>5, SequenceIs
  <2>4. ~(At(intents[i].snapshot) < At(intents[j].snapshot))
    BY <1>1
  <2>5. ~(At(intents[j].snapshot) < At(intents[i].snapshot))
    BY <1>1
  <2> QED
    BY <2>2, <2>3, <2>4, <2>5
<1> QED
    BY <1>4, <1>5

\* The book is what was traded: with every fill recorded the open positions are the legs at
\* the broker, a closed position is reported with the cash of every order that was ever
\* filled for it, and one roll fills at most in a session.
THEOREM BookIsWhatWasTraded == Spec => []BookMatchesBroker
<1>1. ASSUME BInv PROVE BookMatchesBroker
  <2> USE DEF BInv
  <2>1. (\A i \in Approved : Filled(i) => Recorded(i)) =>
            held = {positions[p].fingerprint : p \in OpenPositions}
    BY <1>1, OpenIsHeld
  <2>2. ASSUME NEW p \in DOMAIN positions, positions[p].closed # 0
        PROVE  WindowLifecycle(positions[p].entry).pnl =
                  MapThenSumSet(LAMBDA i : Cash[i],
                      {i \in Approved : Filled(i) /\ (i = positions[p].entry \/ intents[i].position = p)})
    <3>1. positions # <<>>
      BY <2>2
    <3>2. p = 1 /\ positions[p] = Position
      BY <1>1, <3>1, ThePosition DEF Position
    <3>3. WindowLifecycle(Position.entry).pnl = CashOf(states[At(Position.current)].filled)
      BY <1>1, <2>2, <3>1, <3>2, WindowIs
    <3>4. states[At(Position.current)].filled =
              {i \in Approved : Filled(i) /\ (i = positions[p].entry \/ intents[i].position = p)}
      BY <1>1, <2>2, <3>1, <3>2, ClosedFills
    <3> QED
      BY <3>2, <3>3, <3>4 DEF CashOf
  <2>3. \A i, j \in Approved : /\ IsRoll(i) /\ IsRoll(j) /\ Filled(i) /\ Filled(j)
                               /\ intents[i].session = intents[j].session
                               => i = j
    BY <1>1, OneRollFills
  <2> HIDE DEF BInv
  <2> QED
    BY <2>1, <2>2, <2>3 DEF BookMatchesBroker, IsRoll
<1> QED
    BY <1>1, BookInvariant, PTL

-----------------------------------------------------------------------------
(* The readers accept what the materializers write *)

\* The transitions are numbered without a gap from the entry on.
LEMMA NumberedFromEntry ==
    ASSUME BInv, positions # <<>>
    PROVE  {chain[i].transition.sequence : i \in Transitions(1)} = 0 .. (Cardinality(Transitions(1)) - 1)
<1> USE DEF BInv
<1> DEFINE a == At(Position.entry)
           b == At(Position.current)
           T == Transitions(1)
           f == [n \in a .. b |-> states[n].intent]
           Q == {chain[i].transition.sequence : i \in T}
<1>1. a \in Nat /\ b \in Nat /\ a <= b
    BY RowStates
<1>2. ASSUME NEW n \in a .. b
      PROVE  states[n].intent \in T /\ At(states[n].intent) = n
  <2>1. n \in DOMAIN states /\ Recorded(states[n].intent) /\ states[n].intent \in Ids
    BY Rows DEF ChainOK, StateRow
  <2>2. states[n].intent \in Approved /\ Certified(states[n].intent)
    BY <2>1 DEF StatesOK
  <2> QED
    BY <2>1, <2>2, StateOfIs, StateOfRecorded, TheTransitions
<1>3. ASSUME NEW i \in T
      PROVE  /\ At(i) \in a .. b /\ states[At(i)].intent = i
             /\ chain[i].transition.sequence = At(i) - a
  <2>1. i \in Ids /\ Recorded(i)
    BY TheTransitions
  <2> QED
    BY <1>1, <2>1, RowStates, SequenceIs
<1> HIDE DEF a, b, T
<1>4. f \in Bijection(a .. b, T)
    BY <1>2, <1>3 DEF Bijection, Injection, Surjection, IsInjective
<1>5. Cardinality(T) = b - a + 1
    BY <1>1, <1>4, FS_Bijection, FS_Interval DEF ExistsBijection
<1>6. \A s \in Q : s \in 0 .. (b - a)
    BY <1>1, <1>3
<1>7. ASSUME NEW s \in 0 .. (b - a) PROVE s \in Q
  <2>1. a + s \in a .. b /\ (a + s) - a = s
    BY <1>1
  <2>2. PICK i \in T : At(i) = a + s
    BY <1>2, <2>1
  <2> QED
    BY <1>3, <2>1, <2>2
<1>8. Q = 0 .. (b - a) /\ b - a = Cardinality(T) - 1
    BY <1>1, <1>5, <1>6, <1>7
<1> QED
    BY <1>8 DEF T

\* The position row is the row of its transitions.
LEMMA AuthorityHolds ==
    ASSUME BInv, positions # <<>>
    PROVE  PositionAuthority(Position, Transitions(1))
<1>1. Transitions(1) # {} /\ Last(Transitions(1)) = Position.current
    BY TheTransitions, LastIsCurrent
<1>2. /\ Position.fingerprint = chain[Position.current].snapshot.fingerprint
      /\ Position.closed = (IF chain[Position.current].transition.action = "CLOSE"
                            THEN chain[Position.current].transition.at ELSE 0)
    BY DEF BInv, ChainOK
<1> QED
    BY <1>1, <1>2, NumberedFromEntry DEF PositionAuthority

\* What is before a transition, by the states of the transitions.
LEMMA BeforeIs ==
    ASSUME BInv, NEW i \in Transitions(1)
    PROVE  \A j : j \in Before(1, i) <=> j \in Ids /\ Recorded(j) /\ At(j) < At(i)
<1> USE DEF BInv
<1>1. \A j \in Transitions(1) : /\ j \in Ids /\ Recorded(j) /\ At(j) \in Nat /\ At(Position.entry) \in Nat
                                /\ chain[j].transition.sequence = At(j) - At(Position.entry)
    BY TheTransitions, SequenceIs, RowStates
<1>2. \A j : j \in Before(1, i) <=>
          j \in Transitions(1) /\ chain[j].transition.sequence < chain[i].transition.sequence
    BY DEF Before
<1>3. \A j \in Transitions(1) :
          chain[j].transition.sequence < chain[i].transition.sequence <=> At(j) < At(i)
    BY <1>1
<1> QED
    BY <1>2, <1>3, TheTransitions

\* Each transition follows on the one that its review was of.
LEMMA FollowsPredecessor ==
    ASSUME BInv, positions # <<>>, NEW i \in Transitions(1)
    PROVE  \/ Before(1, i) = {} /\ chain[i].transition.predecessor = 0 /\ Position.entry = i
           \/ /\ Before(1, i) # {} /\ chain[i].transition.predecessor = Last(Before(1, i))
              /\ chain[Last(Before(1, i))].transition.at <= chain[i].transition.at
              /\ chain[Last(Before(1, i))].transition.action # "CLOSE"
<1> USE DEF BInv
<1>1. i \in Ids /\ Recorded(i) /\ RowOK(i)
    BY TheTransitions, RecordedIs
<1>2. \A j \in Ids : Recorded(j) => At(j) \in Nat /\ At(Position.entry) <= At(j)
    BY RowStates
<1>3. \A j : j \in Before(1, i) <=> j \in Ids /\ Recorded(j) /\ At(j) < At(i)
    BY BeforeIs
<1>4. CASE i = Position.entry
  <2>1. Before(1, i) = {}
    BY <1>1, <1>2, <1>3, <1>4
  <2> QED
    BY <1>1, <1>4, <2>1 DEF RowOK
<1>5. CASE i # Position.entry
  <2> DEFINE c == intents[i].snapshot
  <2>1. /\ i \in Approved /\ intents[i].action # "ENTRY" /\ chain[i].transition.predecessor = c
        /\ At(c) = At(i) - 1 /\ chain[c].transition.at <= intents[i].boundary
        /\ chain[i].transition.at = states[At(i)].at /\ states[At(i)].intent = i
        /\ At(i) \in DOMAIN states
    BY <1>1, <1>5 DEF RowOK, At
  <2>2. c \in Ids /\ Recorded(c) /\ chain[c].transition.action # "CLOSE"
    BY <2>1 DEF ExitsOK, Exit, Reviewable
  <2>3. chain[c].transition.at <= chain[i].transition.at
    <3>1. intents[i].boundary <= chain[i].transition.at
      BY <2>1 DEF StatesOK
    <3>2. chain[c].transition.at \in Nat /\ chain[i].transition.at \in Nat /\ intents[i].boundary \in Nat
      <4>1. chain[c].transition.at \in Nat /\ chain[i].transition.at \in Nat
        BY <1>1, <2>2, RowStates
      <4>2. intents[i].boundary \in Nat
        BY <2>1, Rows DEF IntentRow, Time
      <4> QED
        BY <4>1, <4>2
    <3> QED
      BY <2>1, <3>1, <3>2
  <2>4. c \in Before(1, i) /\ \A j \in Before(1, i) : At(j) <= At(c) /\ Recorded(j) /\ j \in Ids
    BY <1>1, <1>2, <1>3, <2>1, <2>2
  <2>5. Last(Before(1, i)) = c
    <3> HIDE DEF c
    <3> QED
      BY <2>4, LastIs
  <2> QED
    BY <2>1, <2>2, <2>3, <2>4, <2>5
<1> QED
    BY <1>4, <1>5

\* The legs that the activity leaves are those of the snapshot: every earlier transition was
\* closed by the next one, and nothing up to a transition closes its own.
LEMMA LegsAre ==
    ASSUME BInv, positions # <<>>, NEW i \in Transitions(1)
    PROVE  Legs(1, i) = {chain[i].snapshot.fingerprint} \ {0}
<1> USE DEF BInv
<1>1. i \in Ids /\ Recorded(i) /\ RowOK(i) /\ i # 0
    BY TheTransitions, RecordedIs, BookAssumption DEF Ids
<1>2. /\ intents[i].action = chain[i].transition.action
      /\ chain[i].snapshot.fingerprint = (IF chain[i].transition.action = "CLOSE" THEN 0 ELSE i)
    BY <1>1 DEF RowOK
<1>3. \A j \in Transitions(1) : /\ j \in Ids /\ Recorded(j) /\ At(j) \in Nat /\ At(Position.entry) \in Nat
                                /\ chain[j].transition.sequence = At(j) - At(Position.entry)
                                /\ At(j) <= At(Position.current) /\ At(Position.current) \in Nat
    BY TheTransitions, SequenceIs, RowStates
<1>4. \A j \in Transitions(1) :
          chain[j].transition.sequence <= chain[i].transition.sequence <=> At(j) <= At(i)
    BY <1>3
<1>5. \A j : j \in Legs(1, i) <=>
          /\ j \in Transitions(1) /\ At(j) <= At(i) /\ intents[j].action # "CLOSE"
          /\ ~\E k \in Transitions(1) : At(k) <= At(i) /\ Exit(k) /\ intents[k].fingerprint = j
    BY <1>4 DEF Legs, Exit
<1>6. ASSUME NEW j \in Legs(1, i) PROVE j = i
  <2> SUFFICES ASSUME j # i PROVE FALSE
    OBVIOUS
  <2>1. j \in Transitions(1) /\ j \in Ids /\ Recorded(j) /\ At(j) <= At(i)
    BY <1>3, <1>5
  <2>2. At(j) # At(i)
    BY <1>1, <2>1, SequenceIs
  <2>3. At(j) < At(i) /\ j # Position.current
    BY <1>3, <2>1, <2>2
  <2>4. PICK k \in Ids : /\ Recorded(k) /\ At(k) = At(j) + 1 /\ Exit(k) /\ intents[k].fingerprint = j
    BY <2>1, <2>3, Successor
  <2>5. k \in Transitions(1)
    BY <2>4, TheTransitions
  <2>6. At(k) <= At(i)
    BY <1>3, <2>1, <2>3, <2>4
  <2> QED
    BY <1>5, <2>4, <2>5, <2>6
<1>7. ASSUME NEW k \in Transitions(1), Exit(k), intents[k].fingerprint = i PROVE At(i) < At(k)
  <2>1. RowOK(k) /\ k \in Ids /\ Recorded(k)
    BY <1>3, RecordedIs
  <2>2. k \in Approved /\ At(intents[k].snapshot) = At(k) - 1
    BY <1>7, <2>1 DEF RowOK, At, Exit
  <2>3. intents[k].snapshot = i
    BY <1>7, <2>2 DEF ExitsOK
  <2> QED
    BY <1>3, <2>2, <2>3
<1>8. intents[i].action # "CLOSE" => i \in Legs(1, i)
    BY <1>3, <1>5, <1>7
<1>9. intents[i].action = "CLOSE" => i \notin Legs(1, i)
    BY <1>5
<1> QED
    BY <1>1, <1>2, <1>6, <1>8, <1>9

\* The cash of a snapshot is that of the transitions up to it.
LEMMA CumulativeIs ==
    ASSUME BInv, positions # <<>>, NEW i \in Transitions(1)
    PROVE  chain[i].snapshot.cumulative = SumOfCash(Before(1, i) \cup {i})
<1> USE DEF BInv
<1> DEFINE S == Before(1, i) \cup {i}
<1>1. i \in Ids /\ Recorded(i) /\ RowOK(i)
    BY TheTransitions, RecordedIs
<1>2. \A j \in Ids : Recorded(j) => At(j) \in Nat
    BY RowStates
<1>3. \A j : j \in Before(1, i) <=> j \in Ids /\ Recorded(j) /\ At(j) < At(i)
    BY BeforeIs
<1>4. \A j \in Ids : Recorded(j) /\ At(j) = At(i) => j = i
    BY <1>1, SequenceIs
<1>5. \A j : j \in S <=> j \in Ids /\ Recorded(j) /\ At(j) <= At(i)
    BY <1>1, <1>2, <1>3, <1>4
<1> HIDE DEF S
<1>6. states[At(i)].filled = S
    BY <1>1, <1>5, FilledAreRecorded
<1>7. \A j \in S : chain[j].transition.cash = Cash[j]
    BY <1>5, RecordedIs DEF RowOK
<1>8. SumOfCash(S) = CashOf(S)
    BY <1>5, <1>7, SumOfCashIs
<1> QED
    BY <1>1, <1>6, <1>8 DEF RowOK, At, S

\* The chain of the position is the evidence that the projection asks for.
LEMMA EvidenceHolds ==
    ASSUME BInv, positions # <<>>
    PROVE  PositionEvidence(1)
<1> USE DEF BInv
<1>1. positions[1] = Position
    BY DEF Position
<1>2. ASSUME NEW i \in Transitions(1) PROVE TransitionEvidence(i)
  <2>1. RowOK(i) /\ i \in Ids
    BY TheTransitions, RecordedIs
  <2>2. PICK n \in DOMAIN states : /\ states[n].intent = i /\ chain[i].transition.at = states[n].at
                                   /\ Filled(i) /\ chain[i].transition.action = intents[i].action
    BY <2>1 DEF RowOK
  <2>3. intents[i].boundary <= states[n].at
    BY <2>2 DEF StatesOK
  <2> QED
    BY <2>2, <2>3 DEF TransitionEvidence, Filled
<1> HIDE DEF BInv
<1> QED
    BY <1>1, <1>2, AuthorityHolds, FollowsPredecessor, LegsAre, CumulativeIs DEF PositionEvidence

\* The projection is never refused; it has the result of the window for a closed position.
LEMMA ProjectionIs ==
    ASSUME BInv
    PROVE  Projection =
              [state |-> IF positions = <<>> THEN "NO_POSITION"
                         ELSE IF positions[Len(positions)].closed = 0 THEN "OPEN" ELSE "CLOSED",
               pnl |-> [p \in {q \in DOMAIN positions : positions[q].closed # 0} |->
                            SumOfCash(Transitions(p))]]
<1>1. \A p \in DOMAIN positions : p = 1 /\ positions # <<>>
    BY ThePosition DEF BInv
<1>2. PositionOrder
    BY <1>1 DEF PositionOrder
<1>3. \A p \in DOMAIN positions : PositionEvidence(p)
    BY <1>1, EvidenceHolds
<1> QED
    BY <1>2, <1>3 DEF Projection

\* The sum that the projection reports is the cash of the snapshot that closed the position.
LEMMA TransitionsOfClosed ==
    ASSUME BInv, positions # <<>>, Position.closed # 0
    PROVE  SumOfCash(Transitions(1)) = WindowLifecycle(Position.entry).pnl
<1> USE DEF BInv
<1> DEFINE T == Transitions(1)
<1>1. \A j : j \in T <=> j \in Ids /\ Recorded(j)
    BY TheTransitions
<1>2. Position.current \in Ids /\ Recorded(Position.current)
    BY ThePosition, RowStates
<1>3. \A j \in Ids : Recorded(j) => At(j) <= At(Position.current)
    BY RowStates
<1> HIDE DEF T
<1>4. states[At(Position.current)].filled = T
  <2>1. states[At(Position.current)].filled = {j \in Ids : Recorded(j) /\ At(j) <= At(Position.current)}
    BY <1>2, FilledAreRecorded
  <2> QED
    BY <1>1, <1>3, <2>1
<1>5. \A j \in T : chain[j].transition.cash = Cash[j]
    BY <1>1, RecordedIs DEF RowOK
<1>6. SumOfCash(T) = CashOf(T)
    BY <1>1, <1>5, SumOfCashIs
<1>7. WindowLifecycle(Position.entry).pnl = CashOf(T)
    BY <1>4, WindowIs
<1> QED
    BY <1>6, <1>7 DEF T

\* A record says of the last of its transitions what the transition says.
LEMMA RecordAccepted ==
    ASSUME BInv, NEW n \in DOMAIN archive, archive[n].kind = "POSITION",
           NEW last, last = Last(archive[n].chain)
    PROVE  /\ archive[n].state = "CLOSED" <=> chain[last].transition.action = "CLOSE"
           /\ archive[n].closed # 0 <=> chain[last].snapshot.fingerprint = 0
<1> USE DEF BInv
<1> DEFINE x == archive[n]
<1>1. RecordOK(x) /\ positions # <<>>
    BY DEF ArchiveOK, RecordOK
<1>2. PICK l \in x.chain :
          /\ \A i \in x.chain : chain[i].transition.sequence <= chain[l].transition.sequence
          /\ x.state = (IF chain[l].transition.action = "CLOSE" THEN "CLOSED" ELSE "OPEN")
          /\ (x.closed # 0) = (chain[l].transition.action = "CLOSE")
    BY <1>1 DEF RecordOK
<1>3. x.chain \subseteq Transitions(1)
    BY <1>1 DEF RecordOK, Through
<1>4. \A i \in x.chain : /\ i \in Ids /\ Recorded(i) /\ At(i) \in Nat /\ At(Position.entry) \in Nat
                         /\ chain[i].transition.sequence = At(i) - At(Position.entry)
    BY <1>1, <1>3, TheTransitions, SequenceIs, RowStates
<1>5. \A i \in x.chain : At(i) <= At(l)
    BY <1>2, <1>4
<1>6. last = l
  <2> HIDE DEF x
  <2>1. Last(x.chain) = l
    BY <1>4, <1>5, LastIs
  <2> QED
    BY <2>1 DEF x
<1>7. RowOK(l) /\ l # 0
    BY <1>4, RecordedIs, BookAssumption DEF Ids
<1>8. chain[l].snapshot.fingerprint = 0 <=> chain[l].transition.action = "CLOSE"
    BY <1>7 DEF RowOK
<1>9. x.closed # 0 <=> chain[l].transition.action = "CLOSE"
    BY <1>2
<1> QED
    BY <1>2, <1>6, <1>8, <1>9

\* What the materializers write satisfies the checks of the archive, of the windows and of the
\* projection: every position is one chain of fills that the projection accepts, closed for
\* it and for the windows alike and with one result, and a record is of a closed position if
\* and only if its last transition left nothing.
THEOREM ReadersAgree == Spec => []ReadersAccept
<1>1. ASSUME BInv PROVE ReadersAccept
  <2>1. \A p \in DOMAIN positions : p = 1 /\ positions # <<>> /\ positions[p] = Position
    BY <1>1, ThePosition DEF BInv, Position
  <2>2. Projection.state # "REFUSED"
    BY <1>1, ProjectionIs
  <2>4. \A p \in DOMAIN Projection.pnl :
            Projection.pnl[p] = WindowLifecycle(positions[p].entry).pnl
    <3>1. Projection.pnl = [p \in {q \in DOMAIN positions : positions[q].closed # 0} |->
                                SumOfCash(Transitions(p))]
      BY <1>1, ProjectionIs
    <3> QED
      BY <1>1, <2>1, <3>1, TransitionsOfClosed
  <2>5. \A p \in DOMAIN positions :
            (positions[p].closed = 0) = (WindowLifecycle(positions[p].entry).status = "OPEN")
    BY <1>1, <2>1, WindowIs
  <2>6. \A n \in DOMAIN archive : archive[n].kind = "POSITION" =>
            LET last == chain[Last(archive[n].chain)]
            IN  /\ (archive[n].state = "CLOSED") = (last.transition.action = "CLOSE")
                /\ (archive[n].closed # 0) = (last.snapshot.fingerprint = 0)
    BY <1>1, RecordAccepted
  <2> QED
    BY <2>2, <2>4, <2>5, <2>6 DEF ReadersAccept
<1> QED
    BY <1>1, BookInvariant, PTL

\* The archive is readable for good, but for one case: a review that was stored after a record
\* of its position with a boundary no later than the record's. A record never loses, and never
\* gains, one of the transitions it was made of.
THEOREM OnlyLateReviewsBreak == Spec => []ArchiveBreaksOnlyByLateReview
<1>1. ASSUME BInv PROVE ArchiveBreaksOnlyByLateReview
  <2> SUFFICES ASSUME NEW n \in DOMAIN archive, ~RecordHolds(archive[n])
               PROVE  /\ Through(Transitions(archive[n].subject), archive[n].asOf) = archive[n].chain
                      /\ ReviewsThrough(archive[n].subject, archive[n].asOf) \ archive[n].reviews # {}
    BY DEF ArchiveBreaksOnlyByLateReview
  <2>1. RecordOK(archive[n])
    BY <1>1 DEF BInv, ArchiveOK, RecordHolds
  <2>2. /\ Through(Transitions(archive[n].subject), archive[n].asOf) = archive[n].chain
        /\ archive[n].reviews \subseteq ReviewsThrough(archive[n].subject, archive[n].asOf)
    BY <2>1 DEF RecordOK
  <2>3. archive[n].reviews # ReviewsThrough(archive[n].subject, archive[n].asOf)
    BY <2>2 DEF RecordHolds, PositionSource
  <2> QED
    BY <2>2, <2>3
<1> QED
    BY <1>1, BookInvariant, PTL

-----------------------------------------------------------------------------
(* The story can be told *)

\* What StoryCanBeTold has for the reasons that a story cannot be told.
NothingDecided == intents = <<>> /\ \A d \in decisions : d.kind # "NO_TRADE"
CalibrationDecided(story) ==
    \E d \in decisions : d.kind = "CALIBRATION" /\ story = "INVALID" /\ positions = <<>>
FillUnrecorded == \E i \in Approved : Filled(i) /\ ~Recorded(i)
ExitGivenUp == \E i \in Approved : /\ intents[i].state = "TERMINAL" /\ intents[i].certificate = "NONE"
                                   /\ intents[i].action # "ENTRY"
TwoExits == \E i, j \in Approved : /\ i # j /\ intents[i].action # "ENTRY" /\ intents[j].action # "ENTRY"
                                   /\ intents[i].fingerprint = intents[j].fingerprint
OrderEnded(shown) == \E i \in Approved : EndedUncertified(i, shown)
AttemptsBroken(shown) == \E i \in Approved : shown = "BROKEN" /\ Attempted(i) /\ ~Recorded(i)
EarlyReview == \E p \in DOMAIN positions, d \in UNION {Reviews(q) : q \in DOMAIN positions} :
                  d.position = p /\ d.boundary < chain[positions[p].entry].transition.at

\* A partial fill has latched the account, and the latch stays.
PartialLatched == \A i \in Approved : intents[i].certificate = "PARTIAL" => latched

\* A step that certifies nothing and leaves the latch alone keeps it so.
LEMMA PartialKept ==
    ASSUME PartialLatched, latched' = latched, Approved' = Approved,
           \A i \in Approved : intents'[i].certificate = intents[i].certificate
    PROVE  PartialLatched'
BY DEF PartialLatched

\* Neither does an approval certify anything.
LEMMA PartialApproved ==
    ASSUME BInv, PartialLatched, latched' = latched, NEW r \in Runs, NEW action, NEW f, NEW c, NEW p,
           Approve(r, action, f, c, p)
    PROVE  PartialLatched'
<1> DEFINE row == [action |-> action, fingerprint |-> f, snapshot |-> c, position |-> p,
                   boundary |-> run[r].at, session |-> run[r].session, state |-> "READY",
                   submitted |-> 0, certificate |-> "NONE"]
<1>1. intents' = Append(intents, row) /\ row.certificate = "NONE"
    BY DEF Approve
<1>2. intents \in Seq(IntentRow)
    BY DEF BInv, BookTypeOK
<1> HIDE DEF row
<1>3. /\ Approved = 1 .. Len(intents) /\ Approved' = 1 .. Len(intents) + 1 /\ Len(intents) \in Nat
      /\ \A i \in Approved : intents'[i] = intents[i]
      /\ intents'[Len(intents) + 1] = row
    BY <1>1, <1>2 DEF Approved
<1>4. \A i \in Approved' : i \in Approved \/ i = Len(intents) + 1
    BY <1>3
<1> QED
    BY <1>1, <1>3, <1>4 DEF PartialLatched

LEMMA PartialStep ==
    ASSUME BInv, PartialLatched, [Next]_vars
    PROVE  PartialLatched'
<1>1. CASE UNCHANGED <<intents, latched>>
    BY <1>1, PartialKept DEF Approved
<1>2. ASSUME NEW r \in Runs, DecideEntry(r) \/ \E action \in {"ROLL", "CLOSE"} : DecideExit(r, action)
      PROVE  PartialLatched'
    BY <1>2, PartialApproved DEF DecideEntry, DecideExit
<1>3. ASSUME NEW i \in Approved, Submit(i) \/ Release(i)
      PROVE  PartialLatched'
  <2>1. PICK row : Update(i, row) /\ row.certificate = intents[i].certificate /\ latched' = latched
    <3>1. intents[i] \in IntentRow
      BY Rows DEF BInv
    <3>2. /\ [intents[i] EXCEPT !.state = "WORKING", !.submitted = now].certificate = intents[i].certificate
          /\ [intents[i] EXCEPT !.state = "TERMINAL"].certificate = intents[i].certificate
      BY <3>1 DEF IntentRow
    <3>3. CASE Submit(i)
      BY <3>2, <3>3 DEF Submit
    <3>4. CASE Release(i)
      BY <3>2, <3>4 DEF Release
    <3> QED
      BY <1>3, <3>3, <3>4
  <2>2. /\ Approved' = Approved
        /\ \A j \in Approved : intents'[j] = IF j = i THEN row ELSE intents[j]
    BY <1>3, <2>1 DEF Update, Approved
  <2> QED
    BY <2>1, <2>2, PartialKept
<1>4. ASSUME NEW i \in Approved, NEW certificate \in {"FILLED", "UNFILLED", "PARTIAL"},
             Finalize(i, certificate)
      PROVE  PartialLatched'
  <2>1. PICK N : N = Len(states) + 1
    OBVIOUS
  <2>2. Finalized(i, certificate, N)
    BY <1>4, <2>1, FinalizeDoes
  <2>3. latched' = (latched \/ certificate = "PARTIAL")
    BY <1>4 DEF Finalize
  <2>4. /\ Approved' = Approved /\ intents'[i].certificate = certificate
        /\ \A j \in Approved : j # i => intents'[j] = intents[j]
    BY <2>2 DEF Finalized
  <2> QED
    BY <2>3, <2>4 DEF PartialLatched
<1>5. CASE BookNext
  <2>1. ASSUME NEW r \in Runs,
               \/ StartRun(r) \/ AskForEntry(r) \/ EndRun(r)
               \/ (\E kind \in {"NO_TRADE", "CALIBRATION"} : DecideNoTrade(r, kind))
               \/ LoadContext(r) \/ PersistManifest(r) \/ DecideHold(r)
        PROVE  UNCHANGED <<intents, latched>>
    BY <2>1 DEF StartRun, AskForEntry, EndRun, DecideNoTrade, LoadContext, PersistManifest, DecideHold, rows
  <2>2. ASSUME NEW i \in Approved, MaterializeEntry(i) \/ MaterializeTerminal(i)
        PROVE  UNCHANGED <<intents, latched>>
    BY <2>2 DEF MaterializeEntry, MaterializeTerminal
  <2>3. MarketTurns => UNCHANGED <<intents, latched>>
    BY DEF MarketTurns, rows
  <2> QED
    BY <1>1, <1>2, <1>3, <1>4, <1>5, <2>1, <2>2, <2>3 DEF BookNext
<1>6. CASE UNCHANGED book
    BY <1>1, <1>6 DEF book, rows
<1>7. [Next]_vars => BookNext \/ UNCHANGED book
    BY DEF Next, vars, PublishBegins, PublishEnds, PublishNoTrade
<1> QED
    BY <1>5, <1>6, <1>7

LEMMA PartialAlwaysLatched == Spec => []PartialLatched
<1>1. PublicationInit => PartialLatched
    BY DEF PublicationInit, Init, PartialLatched, Approved
<1>2. BInv /\ PartialLatched /\ [Next]_vars => PartialLatched'
    BY PartialStep
<1> QED
    BY <1>1, <1>2, BookInvariant, PTL DEF Spec

Untellable == {"MISSING", "INVALID", "INCOMPLETE", "AMBIGUOUS"}

\* A review lies before the close; one that lies before the entry is the last of the reasons.
LEMMA TimelineFails ==
    ASSUME BInv, positions # <<>>, ~TimelineValid(1)
    PROVE  EarlyReview
<1> USE DEF BInv
<1>1. positions[1] = Position /\ DOMAIN positions = {1}
    BY ThePosition DEF Position
<1>2. PICK d \in Reviews(1) : \/ ~(chain[Position.entry].transition.at <= d.boundary)
                              \/ Position.closed # 0 /\ ~(d.boundary < Position.closed)
    BY <1>1 DEF TimelineValid
<1>3. d.boundary \in Moments
    BY DEF Moments
<1>4. Position.closed # 0 => d.boundary < Position.closed
    BY <1>3 DEF MomentsOK
<1>5. d.boundary \in Nat /\ chain[Position.entry].transition.at \in Nat
  <2>1. d.boundary \in Nat
    BY <1>3, MomentsAreTimes, BookAssumption DEF Time
  <2>2. chain[Position.entry].transition.at \in Nat
    BY RowStates, ThePosition
  <2> QED
    BY <2>1, <2>2
<1>6. d.boundary < chain[Position.entry].transition.at
    BY <1>2, <1>4, <1>5
<1>7. d.position = 1
    BY ReviewsAre DEF ReviewOf
<1> QED
    BY <1>1, <1>6, <1>7 DEF EarlyReview

\* One exit that cannot be told has filled, has ended, was given up or has attempts that are
\* not one line; two are two for one inventory.  A partial fill has latched the account.
LEMMA ExitFails ==
    ASSUME BInv, PartialLatched, ~latched, NEW shown, ExitStory(1, shown) \in Untellable
    PROVE  FillUnrecorded \/ OrderEnded(shown) \/ AttemptsBroken(shown) \/ ExitGivenUp \/ TwoExits
<1> DEFINE X == OpenExits(1)
<1>1. \A i \in X : /\ i \in Approved /\ i \in Ids /\ intents[i].action # "ENTRY" /\ ~Recorded(i)
                   /\ intents[i].fingerprint = positions[1].fingerprint
    BY Rows DEF OpenExits, BInv
<1>2. IsFiniteSet(X)
    BY <1>1, IdsAreFinite
<1>3. CASE X # {} /\ Cardinality(X) > 1
  <2>1. PICK i : i \in X
    BY <1>3
  <2>2. X # {i}
    <3>1. Cardinality({i}) = 1 /\ ~(1 > 1)
      BY FS_Singleton
    <3> HIDE DEF X
    <3> QED
      BY <1>3, <3>1
  <2>3. PICK j \in X : j # i
    BY <2>1, <2>2
  <2> QED
    BY <1>1, <2>1, <2>3 DEF TwoExits
<1>4. CASE X # {} /\ ~(Cardinality(X) > 1)
  <2> DEFINE i == CHOOSE k \in X : TRUE
  <2>1. i \in X
    BY <1>4
  <2>2. ExitStory(1, shown) = ExitOrderStory(i, shown)
    BY <1>4 DEF ExitStory
  <2> HIDE DEF i
  <2>3. intents[i].certificate # "PARTIAL"
    BY <1>1, <2>1 DEF PartialLatched
  <2>4. intents[i].certificate \in {"NONE", "FILLED", "UNFILLED", "PARTIAL"}
    BY <1>1, <2>1, Rows DEF BInv, IntentRow
  <2>5. CASE Attempted(i) /\ shown = "BROKEN"
    BY <1>1, <2>1, <2>5 DEF AttemptsBroken
  <2>6. CASE intents[i].certificate = "FILLED"
    BY <1>1, <2>1, <2>6 DEF FillUnrecorded, Filled
  <2>7. CASE ~(Attempted(i) /\ shown = "BROKEN") /\ intents[i].certificate = "UNFILLED"
    BY <2>2, <2>7 DEF ExitOrderStory, Untellable
  <2>8. CASE ~(Attempted(i) /\ shown = "BROKEN") /\ intents[i].certificate = "NONE"
    <3>1. UnterminatedExitStory(i, shown) \in Untellable
      BY <2>2, <2>8 DEF ExitOrderStory
    <3>2. CASE intents[i].state = "TERMINAL"
      BY <1>1, <2>1, <2>8, <3>2 DEF ExitGivenUp
    <3>3. CASE intents[i].state # "TERMINAL"
      <4>1. Attempted(i) /\ shown \in {"PARTIAL", "ENDED"}
        BY <3>1, <3>3 DEF UnterminatedExitStory, Untellable
      <4>2. intents[i].state = "WORKING"
        BY <2>8, <4>1 DEF Attempted
      <4> QED
        BY <1>1, <2>1, <4>1, <4>2 DEF OrderEnded, EndedUncertified
    <3> QED
      BY <3>2, <3>3
  <2> QED
    BY <2>3, <2>4, <2>5, <2>6, <2>7, <2>8
<1>5. X # {}
    BY DEF ExitStory, Untellable
<1> QED
    BY <1>3, <1>4, <1>5

\* The story of a position fails for its reviews or for its exits.
LEMMA PositionStoryFails ==
    ASSUME BInv, PartialLatched, positions # <<>>, NEW shown, PositionStory(1, shown) \in Untellable
    PROVE  \/ FillUnrecorded \/ OrderEnded(shown) \/ AttemptsBroken(shown) \/ ExitGivenUp \/ TwoExits
           \/ EarlyReview
<1>1. PositionAuthority(positions[1], Transitions(1))
    BY AuthorityHolds DEF Position
<1>2. CASE ~TimelineValid(1)
    BY <1>2, TimelineFails
<1>3. CASE TimelineValid(1)
  <2>1. ExitStory(1, shown) \in Untellable /\ ~latched
    BY <1>1, <1>3 DEF PositionStory, Untellable
  <2> QED
    BY <2>1, ExitFails
<1> QED
    BY <1>2, <1>3

\* Without a position every intent is an entry, and none is recorded.
LEMMA OnlyEntries ==
    ASSUME BInv, positions = <<>>, NEW i \in Approved
    PROVE  intents[i].action = "ENTRY" /\ ~Recorded(i)
<1>1. \A j \in Ids : ~Recorded(j)
    BY DEF BInv, ChainOK
<1>2. ~Exit(i)
    BY <1>1 DEF BInv, ExitsOK, Reviewable
<1> QED
    BY <1>1, <1>2, Rows DEF BInv, Exit

\* There is a latest decision if there is one.
LEMMA LatestIs ==
    ASSUME BInv, OpportunityDecisions # {}
    PROVE  LatestDecision \in OpportunityDecisions
<1> DEFINE B == {d.boundary : d \in OpportunityDecisions}
<1>1. \A i \in Approved : intents[i].boundary \in Time
    BY Rows DEF BInv, IntentRow
<1>2. \A d \in decisions : d.boundary \in Time
    BY DEF BInv, BookTypeOK, DecisionRow
<1>3. \A d \in OpportunityDecisions : d.boundary \in Time
    BY <1>1, <1>2 DEF OpportunityDecisions
<1>4. \E t \in B : \A u \in B : u <= t
  <2>1. B \in SUBSET Time /\ B # {}
    BY <1>3
  <2> HIDE DEF B
  <2> QED
    BY <2>1, LatestOf
<1>5. \E d \in OpportunityDecisions : \A e \in OpportunityDecisions : e.boundary <= d.boundary
    BY <1>4
<1> QED
    BY <1>5 DEF LatestDecision

\* The story without a position fails for want of a decision, or for what was decided last.
LEMMA DecisionStoryFails ==
    ASSUME BInv, PartialLatched, positions = <<>>, NEW shown, Story(shown) \in Untellable
    PROVE  \/ NothingDecided \/ CalibrationDecided(Story(shown)) \/ FillUnrecorded
           \/ OrderEnded(shown) \/ AttemptsBroken(shown)
<1>1. CASE OpportunityDecisions = {}
  <2>1. Approved = {}
    BY <1>1, OnlyEntries DEF OpportunityDecisions
  <2>2. intents = <<>>
    BY <2>1, EmptySeq, Rows DEF BInv, BookTypeOK, Approved
  <2>3. \A d \in decisions : d.kind # "NO_TRADE"
    BY <1>1 DEF OpportunityDecisions
  <2> QED
    BY <2>2, <2>3 DEF NothingDecided
<1>2. CASE OpportunityDecisions # {} /\ LatestDecision.kind = "ENTRY"
  <2>1. PICK x \in OpportunityDecisions : x = LatestDecision
    BY <1>2, LatestIs
  <2>2. \A d \in decisions : d.kind # "ENTRY"
    BY DEF BInv, BookTypeOK, DecisionRow
  <2>3. PICK i \in Approved : x.intent = i
    BY <1>2, <2>1, <2>2 DEF OpportunityDecisions
  <2>4. Story(shown) = EntryStory(i, shown)
    BY <1>2, <2>1, <2>3 DEF Story
  <2>5. ~Recorded(i) /\ intents[i].certificate \in {"NONE", "FILLED", "UNFILLED", "PARTIAL"}
    BY <2>3, OnlyEntries, Rows DEF BInv, IntentRow
  <2>6. CASE Attempted(i) /\ shown = "BROKEN"
    BY <2>3, <2>5, <2>6 DEF AttemptsBroken
  <2>7. CASE intents[i].certificate = "FILLED"
    BY <2>3, <2>5, <2>7 DEF FillUnrecorded, Filled
  <2>8. CASE ~(Attempted(i) /\ shown = "BROKEN") /\ intents[i].certificate = "PARTIAL"
    <3>1. latched
      BY <2>3, <2>8 DEF PartialLatched
    <3> QED
      BY <2>4, <2>8, <3>1 DEF EntryStory, Untellable
  <2>9. CASE ~(Attempted(i) /\ shown = "BROKEN") /\ intents[i].certificate = "UNFILLED"
    BY <2>4, <2>9 DEF EntryStory, Untellable
  <2>10. CASE ~(Attempted(i) /\ shown = "BROKEN") /\ intents[i].certificate = "NONE"
    <3>1. UnterminatedEntryStory(i, shown) \in Untellable
      BY <2>4, <2>10 DEF EntryStory
    <3>2. Attempted(i) /\ shown = "ENDED"
      BY <3>1 DEF UnterminatedEntryStory, Untellable
    <3> QED
      BY <2>3, <2>10, <3>2 DEF OrderEnded, EndedUncertified, Attempted
  <2> QED
    BY <2>5, <2>6, <2>7, <2>8, <2>9, <2>10
<1>3. CASE OpportunityDecisions # {} /\ LatestDecision.kind # "ENTRY"
  <2>1. PICK x \in OpportunityDecisions : x = LatestDecision
    BY <1>3, LatestIs
  <2>2. Story(shown) = NoTradeStory(x.kind)
    BY <1>3, <2>1 DEF Story
  <2>3. x.kind = "CALIBRATION" /\ Story(shown) = "INVALID"
    BY <2>2 DEF NoTradeStory, Untellable
  <2>4. PICK d \in decisions : d.kind = "CALIBRATION"
    BY <2>1, <2>3 DEF OpportunityDecisions
  <2> QED
    BY <2>3, <2>4 DEF CalibrationDecided
<1> QED
    BY <1>1, <1>2, <1>3

\* The story can be told, but for the eight reasons: whatever the interleaving of reviews,
\* fills and materializations and whatever the attempts of the execution show, there is one
\* authority for the latest position or decision.
THEOREM StoryIsTold == Spec => []StoryCanBeTold
<1>1. ASSUME BInv, PartialLatched PROVE StoryCanBeTold
  <2> SUFFICES ASSUME NEW shown \in AttemptSigns, Story(shown) \in Untellable
               PROVE  \/ NothingDecided \/ CalibrationDecided(Story(shown)) \/ FillUnrecorded
                      \/ OrderEnded(shown) \/ AttemptsBroken(shown)
                      \/ ExitGivenUp \/ TwoExits \/ EarlyReview
    BY DEF StoryCanBeTold, Untellable, NothingDecided, CalibrationDecided, FillUnrecorded,
           OrderEnded, AttemptsBroken, ExitGivenUp, TwoExits, EarlyReview
  <2>1. CASE positions = <<>>
    BY <1>1, <2>1, DecisionStoryFails
  <2>2. CASE positions # <<>>
    <3>1. Len(positions) = 1
      BY <1>1, <2>2, ThePosition DEF BInv
    <3>2. PositionStory(1, shown) \in Untellable
      BY <2>2, <3>1 DEF Story
    <3> QED
      BY <1>1, <2>2, <3>2, PositionStoryFails
  <2> QED
    BY <2>1, <2>2
<1> QED
    BY <1>1, BookInvariant, PartialAlwaysLatched, PTL
=============================================================================
