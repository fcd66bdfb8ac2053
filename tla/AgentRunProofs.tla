--------------------------- MODULE AgentRunProofs ---------------------------
(***************************************************************************)
(* Proofs about AgentRun, for any finite set of intents and any number of    *)
(* runs, plans, boundaries and stops.                                       *)
(***************************************************************************)
EXTENDS AgentRun, FiniteSetTheorems, TLAPS

\* A run holds an intent from the decision, or from a recovery, to the end of its execution.
Holding == {"prepare", "preview", "claim", "advance", "materialize"}
Executing == {"preview", "claim", "advance", "materialize"}

\* A run owns its tick from begin_tick on; the recovery of an entry has none yet.
Owning == {"lifecycle", "latch", "acquire", "decide", "audit", "prepare", "materialize", "complete"}
Owns(v) == v.pc \in Owning \/ (v.pc \in Executing /\ v.mode # "RESUME")
Undecided(v) == \/ v.pc \in {"lifecycle", "latch", "acquire", "decide", "audit"}
                \/ v.pc \in Executing /\ v.mode = "CLOSE"

\* What a tick that reports the fill of i relies on.
Settled(i) == IF IsEntry(i) THEN position[i] # "NONE" ELSE position[intent[i].target] = "CLOSED"

\* Of a run: what it executes exists, an entry has its job by then, its tick is reserved and
\* not decided before.
RunCoherent(v) ==
    /\ v.pc \in Holding => v.intent \in Intents /\ intent[v.intent].state # "ABSENT"
    /\ v.pc \in Executing /\ IsEntry(v.intent) => job[v.intent] # 0
    /\ v.pc = "decide" /\ v.action # "CLOSE" => v.plan \in Plans
    /\ v.pc = "prepare" => v.mode = "DISPATCH"
    /\ v.pc = "materialize" => v.mode # "RESUME"
    /\ v.pc \in {"audit", "complete"} => v.code \in Codes
    /\ v.pc = "audit" => v.code # "FILLED"
    /\ Owns(v) => tick[v.key].status = "RESERVED"
    /\ Undecided(v) => tick[v.key].intent = NoIntent
    /\ v.pc = "complete" /\ v.code = "FILLED" =>
           v.intent \in Intents /\ intent[v.intent].state # "ABSENT" /\ Settled(v.intent)

RunsInv ==
    /\ run \in [Runs -> RunStates]
    /\ \A r \in Runs : RunCoherent(run[r])
    /\ \A r, s \in Runs : Owns(run[r]) /\ Owns(run[s]) /\ run[r].key = run[s].key => r = s

\* Of the rows: a certificate is written last, and once; a close has its position; a
\* position comes from a filled entry.
RowsCoherent ==
    \A i \in Intents :
        /\ intent[i].status # "NONE" => intent[i].state = "TERMINAL"
        /\ intent[i].state = "ABSENT" <=> intent[i].action = "NONE"
        /\ job[i] # 0 => intent[i].state # "ABSENT"
        /\ intent[i].action = "CLOSE" => intent[i].target \in Intents
        /\ IsEntry(i) => intent[i].plan \in decided
        /\ position[i] # "NONE" => IsEntry(i) /\ intent[i].status = "FILLED"

RowsType ==
    /\ tick \in [Keys -> Ticks]
    /\ decided \subseteq Plans
    /\ intent \in [Intents -> Executions]
    /\ job \in [Intents -> Nat]
    /\ job_done \in [Intents -> BOOLEAN]
    /\ position \in [Intents -> {"NONE", "OPEN", "CLOSED"}]

TicksCoherent == \A k \in Keys : tick[k].status = "ABSENT" => tick[k].intent = NoIntent

RowsInv == /\ RowsType /\ TicksCoherent /\ RowsCoherent /\ EntryHasJob /\ FillIsNeverLost
           /\ PositionsMatchFills /\ OneEntryPerPlan

FlagsInv == /\ execution_locked \in BOOLEAN /\ autonomous_enabled \in BOOLEAN
            /\ boundary \in Boundaries /\ stops \in 0..MaxStops

IInv == FlagsInv /\ RowsInv /\ RunsInv /\ ReportedFillIsMaterialized

-----------------------------------------------------------------------------
(* What every step keeps *)

RowsGrow ==
    \A i \in Intents :
        /\ intent[i].state # "ABSENT" =>
               /\ intent'[i].state # "ABSENT" /\ intent'[i].action = intent[i].action
               /\ intent'[i].target = intent[i].target
        /\ intent[i].status # "NONE" => intent'[i].status = intent[i].status
        /\ job[i] # 0 => job'[i] # 0
        /\ position[i] # "NONE" => position'[i] # "NONE"
        /\ position[i] = "CLOSED" => position'[i] = "CLOSED"

\* A step changes no tick, or the one its run owns or reserves.
TicksKept(r) ==
    \/ UNCHANGED tick
    \/ /\ Owns(run[r]) \/ tick[run[r].key].status = "ABSENT"
       /\ \A k \in Keys : k # run[r].key => tick'[k] = tick[k]

\* Run r goes to a coherent state, and has its tick already or has just reserved it.
Moved(r) ==
    \E v \in RunStates :
        /\ run' = [run EXCEPT ![r] = v]
        /\ RunCoherent(v)'
        /\ Owns(v) => /\ v.key = run[r].key
                      /\ Owns(run[r]) \/ tick[v.key].status = "ABSENT"

LEMMA SettledStays ==
    ASSUME RowsInv, RowsGrow, NEW i \in Intents, intent[i].state # "ABSENT", Settled(i)
    PROVE  Settled(i)'
  <1>1. CASE IsEntry(i)
    BY <1>1 DEF RowsGrow, Settled, IsEntry
  <1>2. CASE ~IsEntry(i)
    <2>1. intent[i].target \in Intents
      BY <1>2 DEF RowsInv, RowsType, RowsCoherent, Executions, IsEntry
    <2> QED BY <1>2, <2>1 DEF RowsGrow, Settled, IsEntry
  <1> QED BY <1>1, <1>2

\* A run that does not move stays coherent as long as its tick is left alone.
LEMMA CoherentStays ==
    ASSUME RowsInv, RowsGrow, NEW v \in RunStates, RunCoherent(v),
           Owns(v) => tick'[v.key] = tick[v.key]
    PROVE  RunCoherent(v)'
  <1>1. v.pc \in Holding => v.intent \in Intents /\ intent'[v.intent].state # "ABSENT"
    BY DEF RunCoherent, RowsGrow
  <1>2. v.pc \in Executing /\ intent'[v.intent].action = "ENTRY" => job'[v.intent] # 0
    BY DEF RunCoherent, RowsGrow, IsEntry, Holding, Executing
  <1>3. Undecided(v) => Owns(v)
    BY DEF Undecided, Owns, Owning, Executing
  <1>4. ASSUME v.pc = "complete", v.code = "FILLED"
        PROVE  v.intent \in Intents /\ intent'[v.intent].state # "ABSENT" /\ Settled(v.intent)'
    <2>1. v.intent \in Intents /\ intent[v.intent].state # "ABSENT" /\ Settled(v.intent)
      BY <1>4 DEF RunCoherent
    <2> QED BY <2>1, SettledStays DEF RowsGrow
  <1> QED BY <1>1, <1>2, <1>3, <1>4 DEF RunCoherent, IsEntry

\* The runs stay coherent when the rows only grow and no run moves ...
LEMMA RunsStay ==
    ASSUME RowsInv, RunsInv, RowsGrow, UNCHANGED <<run, tick>>
    PROVE  RunsInv'
  <1>1. ASSUME NEW s \in Runs PROVE RunCoherent(run[s])'
    <2>1. PICK v : v = run[s]
      OBVIOUS
    <2>2. v \in RunStates /\ RunCoherent(v)
      BY <2>1 DEF RunsInv
    <2>3. RunCoherent(v)'
      BY <2>2, CoherentStays
    <2>4. run'[s] = v
      BY <2>1
    <2> QED BY <2>3, <2>4 DEF RunCoherent, Owns, Undecided, Settled, IsEntry
  <1> QED BY <1>1 DEF RunsInv, Owns

\* ... and when one of them does.
LEMMA RunsKept ==
    ASSUME RowsInv, RunsInv, RowsGrow, NEW r \in Runs, Moved(r), TicksKept(r)
    PROVE  RunsInv'
  <1>1. PICK v \in RunStates :
            /\ run' = [run EXCEPT ![r] = v]
            /\ RunCoherent(v)'
            /\ Owns(v) => /\ v.key = run[r].key
                          /\ Owns(run[r]) \/ tick[v.key].status = "ABSENT"
    BY DEF Moved
  <1>2. run' \in [Runs -> RunStates] /\ run'[r] = v /\ \A s \in Runs : s # r => run'[s] = run[s]
    BY <1>1 DEF RunsInv
  <1>3. \A s \in Runs : s # r /\ Owns(run[s]) => tick'[run[s].key] = tick[run[s].key]
    <2> SUFFICES ASSUME NEW s \in Runs, s # r, Owns(run[s]) PROVE tick'[run[s].key] = tick[run[s].key]
      OBVIOUS
    <2>1. run[s].key \in Keys /\ tick[run[s].key].status = "RESERVED"
      BY DEF RunsInv, RunStates, RunCoherent
    <2>2. Owns(run[r]) => run[s].key # run[r].key
      BY DEF RunsInv
    <2> QED BY <2>1, <2>2 DEF TicksKept
  <1>4. ASSUME NEW s \in Runs, s # r PROVE RunCoherent(run[s])'
    <2>1. PICK w : w = run[s]
      OBVIOUS
    <2>2. w \in RunStates /\ RunCoherent(w) /\ (Owns(w) => tick'[w.key] = tick[w.key])
      BY <1>3, <1>4, <2>1 DEF RunsInv
    <2>3. RunCoherent(w)'
      BY <2>2, CoherentStays
    <2>4. run'[s] = w
      BY <1>2, <1>4, <2>1
    <2> QED BY <2>3, <2>4 DEF RunCoherent, Owns, Undecided, Settled, IsEntry
  <1>5. ASSUME NEW s \in Runs PROVE RunCoherent(run[s])'
    <2>1. CASE s = r
      BY <1>1, <1>2, <2>1 DEF RunCoherent, Owns, Undecided, Settled, IsEntry
    <2> QED BY <1>4, <2>1
  <1>6. ASSUME NEW s \in Runs, s # r, Owns(run[s]), Owns(v) PROVE run[s].key # v.key
    <2>1. tick[run[s].key].status = "RESERVED"
      BY <1>6 DEF RunsInv, RunCoherent
    <2> QED BY <1>1, <1>6, <2>1 DEF RunsInv
  <1>7. ASSUME NEW s \in Runs, NEW t \in Runs, Owns(run'[s]), Owns(run'[t]), run'[s].key = run'[t].key
        PROVE  s = t
    <2>1. CASE s = r
      BY <1>2, <1>6, <1>7, <2>1
    <2>2. CASE t = r
      BY <1>2, <1>6, <1>7, <2>2
    <2>3. CASE s # r /\ t # r
      BY <1>2, <1>7, <2>3 DEF RunsInv
    <2> QED BY <2>1, <2>2, <2>3
  <1> QED BY <1>2, <1>5, <1>7 DEF RunsInv, Owns

\* What completed ticks report stays so.
LEMMA ReportedKept ==
    ASSUME RowsInv, ReportedFillIsMaterialized, RowsGrow,
           \A k \in Keys : tick'[k] = tick[k] \/ tick'[k].status # "COMPLETED"
    PROVE  ReportedFillIsMaterialized'
  <1> SUFFICES ASSUME NEW k \in Keys, tick'[k].status = "COMPLETED", tick'[k].code \in CertificateCodes
               PROVE  LET i == tick'[k].intent IN
                        /\ i # NoIntent
                        /\ tick'[k].certificate = i
                        /\ intent'[i].status =
                             IF tick'[k].code = "MATERIALIZATION_FAILED" THEN "FILLED" ELSE tick'[k].code
                        /\ tick'[k].code = "FILLED" =>
                             IF intent'[i].action = "ENTRY" THEN position'[i] # "NONE"
                             ELSE position'[intent'[i].target] = "CLOSED"
    BY DEF ReportedFillIsMaterialized, IsEntry
  <1>0. PICK i : i = tick[k].intent
    OBVIOUS
  <1>1. tick'[k] = tick[k]
    OBVIOUS
  <1>2. /\ i # NoIntent
        /\ tick[k].certificate = i
        /\ intent[i].status = IF tick[k].code = "MATERIALIZATION_FAILED" THEN "FILLED" ELSE tick[k].code
        /\ tick[k].code = "FILLED" => Settled(i)
    BY <1>0, <1>1 DEF ReportedFillIsMaterialized, Settled
  <1>3. i \in Intents
    BY <1>0, <1>2 DEF RowsInv, RowsType, Ticks
  <1>4. intent[i].status # "NONE" /\ intent[i].state # "ABSENT"
    BY <1>1, <1>2, <1>3 DEF RowsInv, RowsCoherent, CertificateCodes, Outcomes
  <1>5. tick[k].code = "FILLED" => Settled(i)'
    <2> HAVE tick[k].code = "FILLED"
    <2> QED BY <1>2, <1>3, <1>4, SettledStays
  <1>6. intent'[i].status = intent[i].status
    BY <1>3, <1>4 DEF RowsGrow
  <1> QED BY <1>0, <1>1, <1>2, <1>5, <1>6 DEF Settled, IsEntry

-----------------------------------------------------------------------------
(* The control operators *)

LEMMA IdleType == Idle \in RunStates
  BY BoundAssumption DEF Idle, RunStates, Points, Keys, Boundaries, Modes

LEMMA DispatchType ==
    ASSUME NEW p \in Points, NEW k \in Keys, NEW i \in Intents
    PROVE  [Idle EXCEPT !.pc = p, !.key = k, !.mode = "DISPATCH", !.intent = i] \in RunStates
  BY IdleType DEF RunStates, Modes

LEMMA RaiseMoves ==
    ASSUME RunsInv, NEW r \in Runs, Raise(r)
    PROVE  Moved(r)
  <1>1. RunCoherent(Idle)'
    BY DEF RunCoherent, Idle, Holding, Executing, Owns, Owning, Undecided
  <1>2. ~Owns(Idle)
    BY DEF Idle, Owns, Owning, Executing
  <1> QED BY <1>1, <1>2, IdleType DEF Moved, Raise

LEMMA GotoMoves ==
    ASSUME RunsInv, RowsGrow, UNCHANGED tick, NEW r \in Runs, NEW p \in Points, Goto(r, p),
           p \in Executing => run[r].pc \in Executing,
           p \notin {"prepare", "decide", "complete", "audit"},
           p = "materialize" => run[r].mode # "RESUME",
           p \in Owning => Owns(run[r]),
           p \in {"lifecycle", "latch", "acquire"} => Undecided(run[r])
    PROVE  Moved(r)
  <1>0. PICK v : v = [run[r] EXCEPT !.pc = p]
    OBVIOUS
  <1>1. run[r] \in RunStates /\ RunCoherent(run[r])
    BY DEF RunsInv
  <1>2. v \in RunStates /\ v.pc = p /\ v.key = run[r].key /\ v.mode = run[r].mode
        /\ v.intent = run[r].intent
    BY <1>0, <1>1 DEF RunStates
  <1>3. run' = [run EXCEPT ![r] = v]
    BY <1>0 DEF Goto
  <1>4. Owns(v) => Owns(run[r])
    BY <1>2 DEF Owns
  <1>5. Undecided(v) => Undecided(run[r])
    BY <1>2 DEF Undecided
  <1>6. p \in Holding => p \in Executing
    BY DEF Holding, Executing
  <1>7. RunCoherent(v)'
    <2>1. v.pc \in Holding => v.intent \in Intents /\ intent'[v.intent].state # "ABSENT"
      BY <1>1, <1>2, <1>6 DEF RunCoherent, RowsGrow, Holding, Executing
    <2>2. v.pc \in Executing /\ intent'[v.intent].action = "ENTRY" => job'[v.intent] # 0
      BY <1>1, <1>2 DEF RunCoherent, RowsGrow, Holding, Executing, IsEntry
    <2>3. (Owns(v) => tick'[v.key].status = "RESERVED") /\ (Undecided(v) => tick'[v.key].intent = NoIntent)
      BY <1>1, <1>2, <1>4, <1>5 DEF RunCoherent
    <2> QED BY <1>2, <2>1, <2>2, <2>3 DEF RunCoherent, IsEntry, Owns, Undecided
  <1> QED BY <1>2, <1>3, <1>4, <1>7 DEF Moved

LEMMA AuditMoves ==
    ASSUME RunsInv, UNCHANGED tick, NEW r \in Runs, NEW code \in Codes, Audit(r, code),
           code # "FILLED", Undecided(run[r])
    PROVE  Moved(r)
  <1>0. PICK v : v = [Idle EXCEPT !.pc = "audit", !.key = run[r].key, !.code = code]
    OBVIOUS
  <1>1. run[r] \in RunStates /\ RunCoherent(run[r])
    BY DEF RunsInv
  <1>2. v \in RunStates /\ v.pc = "audit" /\ v.key = run[r].key /\ v.code = code
    BY <1>0, <1>1, IdleType DEF RunStates, Points, Idle
  <1>3. run' = [run EXCEPT ![r] = v]
    BY <1>0 DEF Audit
  <1>4. Owns(run[r])
    BY DEF Undecided, Owns, Owning, Executing
  <1>5. RunCoherent(v)'
    BY <1>1, <1>2, <1>4 DEF RunCoherent, Holding, Executing
  <1> QED BY <1>2, <1>3, <1>4, <1>5 DEF Moved

LEMMA CompleteMoves ==
    ASSUME RunsInv, NEW r \in Runs, NEW code \in Codes, Complete(r, code), Owns(run[r]),
           tick'[run[r].key].status = "RESERVED",
           code = "FILLED" => /\ run[r].intent \in Intents
                              /\ intent'[run[r].intent].state # "ABSENT"
                              /\ IF intent'[run[r].intent].action = "ENTRY"
                                 THEN position'[run[r].intent] # "NONE"
                                 ELSE position'[intent'[run[r].intent].target] = "CLOSED"
    PROVE  Moved(r)
  <1>0. PICK v : v = [Idle EXCEPT !.pc = "complete", !.key = run[r].key, !.code = code,
                               !.intent = run[r].intent]
    OBVIOUS
  <1>1. run[r] \in RunStates
    BY DEF RunsInv
  <1>2. v \in RunStates /\ v.pc = "complete" /\ v.key = run[r].key /\ v.code = code
        /\ v.intent = run[r].intent
    BY <1>0, <1>1, IdleType DEF RunStates, Points, Idle
  <1>3. run' = [run EXCEPT ![r] = v]
    BY <1>0 DEF Complete
  <1>4. RunCoherent(v)'
    BY <1>2 DEF RunCoherent, Holding, Executing, Undecided, Settled, IsEntry
  <1> QED BY <1>2, <1>3, <1>4 DEF Moved

LEMMA EnterMoves ==
    ASSUME RunsInv, UNCHANGED rows, NEW r \in Runs, NEW mode \in Modes, NEW i \in Intents,
           Enter(r, mode, i), intent[i].state # "ABSENT", IsEntry(i) => job[i] # 0,
           mode # "RESUME" => Undecided(run[r])
    PROVE  Moved(r)
  <1>0. PICK v : v = [run[r] EXCEPT !.pc = "preview", !.mode = mode, !.intent = i]
    OBVIOUS
  <1>1. run[r] \in RunStates /\ RunCoherent(run[r])
    BY DEF RunsInv
  <1>2. v \in RunStates /\ v.pc = "preview" /\ v.key = run[r].key /\ v.mode = mode /\ v.intent = i
    BY <1>0, <1>1 DEF RunStates, Points
  <1>3. run' = [run EXCEPT ![r] = v]
    BY <1>0 DEF Enter
  <1>4. Owns(v) => Undecided(run[r]) /\ Owns(run[r])
    BY <1>2 DEF Owns, Owning, Undecided, Executing
  <1>5. Undecided(v) => Undecided(run[r])
    BY <1>2 DEF Undecided
  <1>6. RunCoherent(v)'
    BY <1>1, <1>2, <1>4, <1>5 DEF RunCoherent, IsEntry, rows, Owns, Undecided
  <1> QED BY <1>2, <1>3, <1>4, <1>6 DEF Moved

\* An exception or a refusal in the middle of an execution.
LEMMA BlockedMoves ==
    ASSUME RunsInv, UNCHANGED tick, NEW r \in Runs, run[r].pc \in Executing,
           NEW code \in {"EXECUTION_BLOCKED", "PREVIEW_UNAVAILABLE"}, Blocked(r, code)
    PROVE  Moved(r)
  <1>1. CASE run[r].mode = "RESUME" /\ Raise(r)
    BY <1>1, RaiseMoves
  <1>2. CASE run[r].mode = "CLOSE" /\ Audit(r, IF code = "EXECUTION_BLOCKED" THEN "RECOVERY_PENDING" ELSE code)
    <2>1. PICK c : c = IF code = "EXECUTION_BLOCKED" THEN "RECOVERY_PENDING" ELSE code
      OBVIOUS
    <2>2. c \in Codes /\ c # "FILLED" /\ Audit(r, c)
      BY <1>2, <2>1 DEF Codes, OtherCodes
    <2> QED BY <1>2, <2>2, AuditMoves DEF Undecided
  <1>3. CASE run[r].mode = "DISPATCH" /\ Complete(r, code)
    <2>1. Owns(run[r])
      BY <1>3 DEF Owns
    <2>2. tick'[run[r].key].status = "RESERVED"
      BY <2>1 DEF RunsInv, RunCoherent
    <2> QED BY <1>3, <2>1, <2>2, CompleteMoves DEF Codes, OtherCodes, UncertifiedCodes
  <1> QED BY <1>1, <1>2, <1>3 DEF Blocked

\* The answer of an execution with a certificate.
LEMMA CertifiedMoves ==
    ASSUME RunsInv, RowsGrow, UNCHANGED tick, NEW r \in Runs, At(r, "advance"),
           NEW status \in Outcomes, Certified(r, status)
    PROVE  Moved(r)
  <1>1. CASE Goto(r, "recover_again")
    BY <1>1, GotoMoves DEF Points, Executing, Owning
  <1>2. CASE run[r].mode # "RESUME" /\ Goto(r, "materialize")
    <2>1. run[r].pc \in Executing /\ Owns(run[r])
      BY <1>2 DEF At, Owns, Executing
    <2> QED BY <1>2, <2>1, GotoMoves DEF Points
  <1>3. CASE run[r].mode = "CLOSE" /\ Audit(r, "RECOVERED")
    BY <1>3, AuditMoves DEF At, Undecided, Executing, Codes, OtherCodes
  <1>4. CASE run[r].mode = "DISPATCH" /\ status # "FILLED" /\ Complete(r, status)
    <2>1. Owns(run[r])
      BY <1>4 DEF At, Owns, Executing
    <2>2. tick'[run[r].key].status = "RESERVED"
      BY <2>1 DEF RunsInv, RunCoherent
    <2> QED BY <1>4, <2>1, <2>2, CompleteMoves DEF Codes, CertificateCodes
  <1> QED BY <1>1, <1>2, <1>3, <1>4 DEF Certified

-----------------------------------------------------------------------------
(* Steps that change no row *)

LEMMA RowsStay ==
    ASSUME RowsInv, UNCHANGED rows
    PROVE  RowsInv' /\ RowsGrow
  <1>1. RowsGrow
    BY DEF RowsGrow, rows
  <1>2. RowsType' /\ TicksCoherent' /\ RowsCoherent' /\ EntryHasJob' /\ OneEntryPerPlan'
    BY DEF RowsInv, rows, RowsType, TicksCoherent, RowsCoherent, EntryHasJob, OneEntryPerPlan, IsEntry
  <1>3. FillIsNeverLost'
    BY DEF RowsInv, rows, FillIsNeverLost, IsEntry, DueJobs, OpenJobs
  <1>4. PositionsMatchFills'
    BY DEF RowsInv, rows, PositionsMatchFills, IsEntry, OpenPositions
  <1> QED BY <1>1, <1>2, <1>3, <1>4 DEF RowsInv

LEMMA ControlStep ==
    ASSUME IInv, UNCHANGED rows, NEW r \in Runs, Moved(r), FlagsInv'
    PROVE  IInv'
  <1>1. RowsInv' /\ RowsGrow
    BY RowsStay DEF IInv
  <1>2. RunsInv'
    BY <1>1, RunsKept DEF IInv, TicksKept, rows
  <1>3. ReportedFillIsMaterialized'
    BY <1>1, ReportedKept DEF IInv, rows
  <1> QED BY <1>1, <1>2, <1>3 DEF IInv

LEMMA FlagsStay ==
    ASSUME FlagsInv, UNCHANGED <<execution_locked, autonomous_enabled, boundary, stops>>
    PROVE  FlagsInv'
  BY DEF FlagsInv

LEMMA StartStep ==
    ASSUME IInv, NEW r \in Runs, NEW actor \in Actors, Start(r, actor)
    PROVE  IInv'
  <1>0. PICK v : v = [Idle EXCEPT !.pc = IF actor = "SCHEDULER" /\ autonomous_enabled
                                         THEN "recover" ELSE "begin",
                                  !.key = <<boundary, actor>>,
                                  !.authorized = actor = "SCHEDULER" /\ autonomous_enabled]
    OBVIOUS
  <1>1. <<boundary, actor>> \in Keys
    BY ActorsAssumption DEF IInv, FlagsInv, Keys
  <1>2. v.pc \in {"recover", "begin"} /\ v \in RunStates
    BY <1>0, <1>1, IdleType DEF Idle, RunStates, Points
  <1>3. run' = [run EXCEPT ![r] = v]
    BY <1>0 DEF Start
  <1>4. RunCoherent(v)' /\ ~Owns(v)
    BY <1>2 DEF RunCoherent, Holding, Executing, Owns, Owning, Undecided
  <1>5. Moved(r)
    BY <1>2, <1>3, <1>4 DEF Moved
  <1>6. FlagsInv' /\ UNCHANGED rows
    BY FlagsStay DEF IInv, Start
  <1> QED BY <1>5, <1>6, ControlStep

LEMMA NothingDueStep ==
    ASSUME IInv, NEW r \in Runs, NothingDue(r)
    PROVE  IInv'
  <1>1. FlagsInv' /\ UNCHANGED rows /\ RunsInv /\ RowsGrow
    BY FlagsStay, RowsStay DEF IInv, NothingDue
  <1>2. \E p \in {"pending", "pending_again"} : Goto(r, p)
    BY DEF NothingDue
  <1>3. Moved(r)
    BY <1>1, <1>2, GotoMoves DEF rows, Points, Executing, Owning
  <1> QED BY <1>1, <1>3, ControlStep

LEMMA PendingEntryStep ==
    ASSUME IInv, NEW r \in Runs, PendingEntry(r)
    PROVE  IInv'
  <1>1. FlagsInv' /\ UNCHANGED rows /\ RunsInv /\ RowsInv /\ RowsGrow
    BY FlagsStay, RowsStay DEF IInv, PendingEntry
  <1>2. ASSUME Goto(r, "begin") PROVE Moved(r)
    BY <1>1, <1>2, GotoMoves DEF rows, Points, Executing, Owning
  <1>3. ASSUME NEW i \in Intents, PendingJobs = {i}, Enter(r, "RESUME", i)
        PROVE  Moved(r)
    <2>1. job[i] # 0
      BY <1>3 DEF PendingJobs, OpenJobs
    <2>2. intent[i].state # "ABSENT"
      BY <1>1, <2>1 DEF RowsInv, RowsCoherent
    <2> QED BY <1>1, <1>3, <2>1, <2>2, EnterMoves DEF Modes
  <1>4. ASSUME Raise(r) PROVE Moved(r)
    BY <1>1, <1>4, RaiseMoves
  <1>5. Moved(r)
    BY <1>2, <1>3, <1>4 DEF PendingEntry
  <1> QED BY <1>1, <1>5, ControlStep

LEMMA RecoverLifecycleStep ==
    ASSUME IInv, NEW r \in Runs, RecoverLifecycle(r)
    PROVE  IInv'
  <1>1. FlagsInv' /\ UNCHANGED rows /\ RunsInv /\ RowsInv /\ RowsGrow
    BY FlagsStay, RowsStay DEF IInv, RecoverLifecycle
  <1>2. Undecided(run[r]) /\ Owns(run[r])
    BY DEF RecoverLifecycle, At, Undecided, Owns, Owning
  <1>3. ASSUME Goto(r, "latch") PROVE Moved(r)
    BY <1>1, <1>2, <1>3, GotoMoves DEF rows, Points, Executing, Owning
  <1>4. ASSUME NEW i \in Intents, PendingCloses = {i}, Enter(r, "CLOSE", i)
        PROVE  Moved(r)
    <2>1. intent[i].action = "CLOSE" /\ intent[i].state # "ABSENT"
      BY <1>4 DEF PendingCloses
    <2> QED BY <1>1, <1>2, <1>4, <2>1, EnterMoves DEF Modes, IsEntry
  <1>5. ASSUME Audit(r, "NO_ACTION") PROVE Moved(r)
    BY <1>1, <1>2, <1>5, AuditMoves DEF rows, Codes, OtherCodes
  <1>6. Moved(r)
    BY <1>3, <1>4, <1>5 DEF RecoverLifecycle
  <1> QED BY <1>1, <1>6, ControlStep

LEMMA CheckLatchStep ==
    ASSUME IInv, NEW r \in Runs, CheckLatch(r)
    PROVE  IInv'
  <1>1. FlagsInv' /\ UNCHANGED rows /\ RunsInv /\ RowsGrow
    BY FlagsStay, RowsStay DEF IInv, CheckLatch
  <1>2. Undecided(run[r]) /\ Owns(run[r])
    BY DEF CheckLatch, At, Undecided, Owns, Owning
  <1>3. ASSUME Goto(r, "acquire") PROVE Moved(r)
    BY <1>1, <1>2, <1>3, GotoMoves DEF rows, Points, Executing, Owning
  <1>4. ASSUME Audit(r, "NO_ACTION") PROVE Moved(r)
    BY <1>1, <1>2, <1>4, AuditMoves DEF rows, Codes, OtherCodes
  <1>5. Moved(r)
    BY <1>3, <1>4 DEF CheckLatch
  <1> QED BY <1>1, <1>5, ControlStep

LEMMA AcquireStep ==
    ASSUME IInv, NEW r \in Runs, Acquire(r)
    PROVE  IInv'
  <1>1. FlagsInv' /\ UNCHANGED rows /\ RunsInv /\ RowsGrow
    BY FlagsStay, RowsStay DEF IInv, Acquire
  <1>2. Undecided(run[r]) /\ Owns(run[r])
    BY DEF Acquire, At, Undecided, Owns, Owning
  <1>3. run[r] \in RunStates /\ RunCoherent(run[r])
    BY <1>1 DEF RunsInv
  <1>4. ASSUME Audit(r, "NO_ACTION") PROVE Moved(r)
    BY <1>1, <1>2, <1>4, AuditMoves DEF rows, Codes, OtherCodes
  <1>5. ASSUME NEW v \in RunStates, run' = [run EXCEPT ![r] = v], v.pc = "decide",
               v.key = run[r].key, v.action # "CLOSE" => v.plan \in Plans
        PROVE  Moved(r)
    <2>1. RunCoherent(v)'
      BY <1>1, <1>2, <1>3, <1>5 DEF RunCoherent, Holding, Executing, rows, Owns, Undecided
    <2> QED BY <1>2, <1>5, <2>1 DEF Moved
  <1>6. ASSUME NEW p \in Plans, NEW action \in {"NONE", "ENTRY"},
               run' = [run EXCEPT ![r] = [@ EXCEPT !.pc = "decide", !.plan = p, !.action = action]]
        PROVE  Moved(r)
    <2>1. PICK v : v = [run[r] EXCEPT !.pc = "decide", !.plan = p, !.action = action]
      OBVIOUS
    <2>2. v \in RunStates /\ v.pc = "decide" /\ v.key = run[r].key /\ v.plan \in Plans
      BY <1>3, <2>1 DEF RunStates, Points
    <2> QED BY <1>5, <1>6, <2>1, <2>2
  <1>7. ASSUME NEW i \in OpenPositions,
               run' = [run EXCEPT ![r] = [@ EXCEPT !.pc = "decide", !.target = i, !.action = "CLOSE"]]
        PROVE  Moved(r)
    <2>1. PICK v : v = [run[r] EXCEPT !.pc = "decide", !.target = i, !.action = "CLOSE"]
      OBVIOUS
    <2>2. v \in RunStates /\ v.pc = "decide" /\ v.key = run[r].key /\ v.action = "CLOSE"
      BY <1>3, <2>1 DEF RunStates, Points, OpenPositions
    <2> QED BY <1>5, <1>7, <2>1, <2>2
  <1>8. Moved(r)
    BY <1>4, <1>6, <1>7 DEF Acquire
  <1> QED BY <1>1, <1>8, ControlStep

LEMMA PreviewStep ==
    ASSUME IInv, NEW r \in Runs, Preview(r)
    PROVE  IInv'
  <1>1. FlagsInv' /\ UNCHANGED rows /\ RunsInv /\ RowsGrow
    BY FlagsStay, RowsStay DEF IInv, Preview
  <1>2. run[r].pc \in Executing
    BY DEF Preview, At, Executing
  <1>3. ASSUME Goto(r, "claim") PROVE Moved(r)
    BY <1>1, <1>2, <1>3, GotoMoves DEF rows, Points, Owning
  <1>4. ASSUME Blocked(r, "PREVIEW_UNAVAILABLE") PROVE Moved(r)
    BY <1>1, <1>2, <1>4, BlockedMoves DEF rows
  <1>5. Moved(r)
    BY <1>3, <1>4 DEF Preview
  <1> QED BY <1>1, <1>5, ControlStep

LEMMA AlreadyTerminalStep ==
    ASSUME IInv, NEW r \in Runs, AlreadyTerminal(r)
    PROVE  IInv'
  <1>1. FlagsInv' /\ UNCHANGED rows /\ RunsInv /\ RowsInv /\ RowsGrow /\ At(r, "advance")
    BY FlagsStay, RowsStay DEF IInv, AlreadyTerminal
  <1>2. ASSUME Raise(r) PROVE Moved(r)
    BY <1>1, <1>2, RaiseMoves
  <1>3. ASSUME intent[run[r].intent].status # "NONE" /\ Certified(r, intent[run[r].intent].status) PROVE Moved(r)
    <2>1. run[r].intent \in Intents
      BY <1>1 DEF RunsInv, RunCoherent, At, Holding
    <2>2. intent[run[r].intent].status \in Outcomes
      BY <1>1, <1>3, <2>1 DEF RowsInv, RowsType, Executions
    <2> QED BY <1>1, <1>3, <2>2, CertifiedMoves DEF rows
  <1>4. Moved(r)
    BY <1>2, <1>3 DEF AlreadyTerminal
  <1> QED BY <1>1, <1>4, ControlStep

LEMMA StillPendingStep ==
    ASSUME IInv, NEW r \in Runs, StillPending(r)
    PROVE  IInv'
  <1>1. FlagsInv' /\ UNCHANGED rows /\ RunsInv /\ RowsGrow
    BY FlagsStay, RowsStay DEF IInv, StillPending
  <1>2. run[r].pc \in Executing
    BY DEF StillPending, At, Executing
  <1>3. ASSUME Goto(r, "begin_pending") PROVE Moved(r)
    BY <1>1, <1>3, GotoMoves DEF rows, Points, Owning, Executing
  <1>4. ASSUME Blocked(r, "EXECUTION_BLOCKED") PROVE Moved(r)
    BY <1>1, <1>2, <1>4, BlockedMoves DEF rows
  <1>5. Moved(r)
    BY <1>3, <1>4 DEF StillPending
  <1> QED BY <1>1, <1>5, ControlStep

LEMMA AdvanceBlockedStep ==
    ASSUME IInv, NEW r \in Runs, AdvanceBlocked(r)
    PROVE  IInv'
  <1>1. FlagsInv' /\ UNCHANGED rows /\ RunsInv
    BY DEF IInv, AdvanceBlocked, FlagsInv
  <1>2. run[r].pc \in Executing /\ Blocked(r, "EXECUTION_BLOCKED")
    BY DEF AdvanceBlocked, At, Executing
  <1>3. Moved(r)
    BY <1>1, <1>2, BlockedMoves DEF rows
  <1> QED BY <1>1, <1>3, ControlStep

LEMMA StopStep ==
    ASSUME IInv, NEW r \in Runs, Stop(r)
    PROVE  IInv'
  <1>1. FlagsInv' /\ UNCHANGED rows /\ RunsInv
    BY BoundAssumption DEF IInv, Stop, FlagsInv
  <1>2. Moved(r)
    BY <1>1, RaiseMoves DEF Stop
  <1> QED BY <1>1, <1>2, ControlStep

LEMMA SurroundingsStep ==
    ASSUME IInv, SetAutonomousEnabled \/ NextBoundary
    PROVE  IInv'
  <1>1. FlagsInv'
    <2>1. CASE SetAutonomousEnabled
      BY <2>1 DEF IInv, FlagsInv, SetAutonomousEnabled
    <2>2. CASE NextBoundary
      BY <2>2, BoundAssumption DEF IInv, FlagsInv, NextBoundary, Boundaries
    <2> QED BY <2>1, <2>2
  <1>2. UNCHANGED <<rows, run>>
    BY DEF SetAutonomousEnabled, NextBoundary
  <1>3. RowsInv' /\ RowsGrow
    BY <1>2, RowsStay DEF IInv
  <1>4. RunsInv'
    BY <1>2, <1>3, RunsStay DEF IInv, rows
  <1>5. ReportedFillIsMaterialized'
    BY <1>2, <1>3, ReportedKept DEF IInv, rows
  <1> QED BY <1>1, <1>3, <1>4, <1>5 DEF IInv

-----------------------------------------------------------------------------
(* Steps that change rows *)

LEMMA RowStep ==
    ASSUME IInv, FlagsInv', RowsInv', RowsGrow, NEW r \in Runs, Moved(r), TicksKept(r),
           \A k \in Keys : tick'[k] = tick[k] \/ tick'[k].status # "COMPLETED"
    PROVE  IInv'
  <1>1. RunsInv'
    BY RunsKept DEF IInv
  <1>2. ReportedFillIsMaterialized'
    BY ReportedKept DEF IInv
  <1> QED BY <1>1, <1>2 DEF IInv

LEMMA QuietStep ==
    ASSUME IInv, FlagsInv', RowsInv', RowsGrow, UNCHANGED <<run, tick>>
    PROVE  IInv'
  <1>1. RunsInv'
    BY RunsStay DEF IInv
  <1>2. ReportedFillIsMaterialized'
    BY ReportedKept DEF IInv
  <1> QED BY <1>1, <1>2 DEF IInv

\* A write of one tick row.
LEMMA TickRows ==
    ASSUME RowsInv, tick' \in [Keys -> Ticks], TicksCoherent',
           UNCHANGED <<decided, intent, job, job_done, position>>
    PROVE  RowsInv' /\ RowsGrow
  <1>1. RowsGrow
    BY DEF RowsGrow
  <1>2. RowsType' /\ RowsCoherent' /\ EntryHasJob' /\ OneEntryPerPlan'
    BY DEF RowsInv, RowsType, RowsCoherent, EntryHasJob, OneEntryPerPlan, IsEntry
  <1>3. FillIsNeverLost'
    BY DEF RowsInv, FillIsNeverLost, IsEntry, DueJobs, OpenJobs
  <1>4. PositionsMatchFills'
    BY DEF RowsInv, PositionsMatchFills, IsEntry, OpenPositions
  <1> QED BY <1>1, <1>2, <1>3, <1>4 DEF RowsInv

\* A write of an intent without a certificate that keeps what was approved.
LEMMA IntentRows ==
    ASSUME RowsInv, NEW i \in Intents, NEW w \in Executions, intent' = [intent EXCEPT ![i] = w],
           intent[i].state \in {"APPROVED", "CLAIMED"},
           w.action = intent[i].action, w.plan = intent[i].plan, w.target = intent[i].target,
           w.state # "ABSENT", w.status # "NONE" => w.state = "TERMINAL",
           IsEntry(i) /\ w.state # "APPROVED" => job[i] # 0,
           UNCHANGED <<tick, decided, job, job_done, position>>
    PROVE  RowsInv' /\ RowsGrow
  <1>1. intent'[i] = w /\ \A j \in Intents : j # i => intent'[j] = intent[j]
    BY DEF RowsInv, RowsType
  <1>2. intent[i].status = "NONE" /\ position[i] = "NONE" /\ ~job_done[i]
    BY DEF RowsInv, RowsType, RowsCoherent, FillIsNeverLost
  <1>3. RowsGrow
    BY <1>1, <1>2 DEF RowsGrow
  <1>4. RowsType' /\ TicksCoherent'
    BY DEF RowsInv, RowsType, TicksCoherent
  <1>5. RowsCoherent'
    BY <1>1, <1>2 DEF RowsInv, RowsCoherent, IsEntry
  <1>6. EntryHasJob' /\ OneEntryPerPlan'
    BY <1>1 DEF RowsInv, EntryHasJob, OneEntryPerPlan, IsEntry
  <1>7. FillIsNeverLost'
    <2>1. ASSUME NEW j \in Intents, intent'[j].action = "ENTRY", intent'[j].status = "FILLED",
                 position'[j] = "NONE"
          PROVE  j \in DueJobs'
      <3>1. CASE j = i
        BY <1>1, <1>2, <2>1, <3>1 DEF IsEntry, DueJobs, OpenJobs
      <3>2. CASE j # i
        BY <1>1, <2>1, <3>2 DEF RowsInv, FillIsNeverLost, IsEntry, DueJobs, OpenJobs
      <3> QED BY <3>1, <3>2
    <2>2. ASSUME NEW j \in Intents, job_done'[j]
          PROVE  \/ intent'[j].status = "FILLED" /\ position'[j] # "NONE"
                 \/ intent'[j].status = "UNFILLED" /\ position'[j] = "NONE"
      BY <1>1, <1>2, <2>2 DEF RowsInv, FillIsNeverLost
    <2> QED BY <2>1, <2>2 DEF FillIsNeverLost, IsEntry
  <1>8. PositionsMatchFills'
    <2>1. OpenPositions' = OpenPositions
      BY DEF OpenPositions
    <2>2. position' = position /\ \A j \in Intents : intent[j].status = "FILLED" => intent'[j] = intent[j]
      BY <1>1, <1>2
    <2>3. ASSUME NEW j \in Intents, position'[j] # "NONE"
          PROVE  intent'[j].action = "ENTRY" /\ intent'[j].status = "FILLED" /\ intent'[j].alone
      <3>1. position[j] # "NONE" /\ PositionsMatchFills
        BY <2>2, <2>3 DEF RowsInv
      <3>2. intent[j].action = "ENTRY" /\ intent[j].status = "FILLED" /\ intent[j].alone
        BY <3>1, Zenon DEF PositionsMatchFills, IsEntry
      <3>3. intent'[j] = intent[j]
        BY <2>2, <3>2
      <3> QED BY <3>2, <3>3, Zenon
    <2>4. ASSUME NEW j \in Intents, position'[j] = "CLOSED"
          PROVE  \E k \in Intents : intent'[k].target = j /\ intent'[k].status = "FILLED" /\ intent'[k].alone
      <3>1. PICK k \in Intents : intent[k].target = j /\ intent[k].status = "FILLED" /\ intent[k].alone
        BY <2>4, Zenon DEF RowsInv, PositionsMatchFills
      <3> QED BY <2>2, <3>1, Zenon
    <2> QED BY <2>1, <2>3, <2>4, Zenon DEF RowsInv, PositionsMatchFills, IsEntry
  <1> QED BY <1>3, <1>4, <1>5, <1>6, <1>7, <1>8 DEF RowsInv

\* Materialization of an entry, in a run or in the recovery.
LEMMA OpenedRows ==
    ASSUME RowsInv, NEW i \in Intents, Materializable(i),
           position' = [position EXCEPT ![i] = "OPEN"], job_done' = [job_done EXCEPT ![i] = TRUE],
           UNCHANGED <<tick, decided, intent, job>>
    PROVE  RowsInv' /\ RowsGrow
  <1>1. /\ position'[i] = "OPEN" /\ \A j \in Intents : j # i => position'[j] = position[j]
        /\ job_done'[i] = TRUE /\ \A j \in Intents : j # i => job_done'[j] = job_done[j]
    BY DEF RowsInv, RowsType
  <1>2. IsEntry(i) /\ intent[i].status = "FILLED" /\ position[i] # "CLOSED"
    BY DEF Materializable
  <1>3. RowsGrow
    BY <1>1, <1>2 DEF RowsGrow
  <1>4. RowsType' /\ TicksCoherent'
    BY DEF RowsInv, RowsType, TicksCoherent
  <1>5. RowsCoherent' /\ EntryHasJob' /\ OneEntryPerPlan'
    BY <1>1, <1>2 DEF RowsInv, RowsCoherent, EntryHasJob, OneEntryPerPlan, IsEntry
  <1>6. FillIsNeverLost'
    BY <1>1, <1>2 DEF RowsInv, FillIsNeverLost, IsEntry, DueJobs, OpenJobs
  <1>7. PositionsMatchFills'
    <2>1. OpenPositions' = {i}
      BY <1>1 DEF OpenPositions, Materializable
    <2>2. \A j \in Intents : position'[j] = "CLOSED" => position[j] = "CLOSED"
      BY <1>1
    <2>3. ASSUME NEW j \in Intents, position'[j] # "NONE"
          PROVE  intent[j].action = "ENTRY" /\ intent[j].status = "FILLED" /\ intent[j].alone
      <3>1. CASE j = i
        BY <3>1, Zenon DEF Materializable, IsEntry
      <3>2. CASE j # i
        BY <1>1, <2>3, <3>2, Zenon DEF RowsInv, PositionsMatchFills, IsEntry
      <3> QED BY <3>1, <3>2
    <2>4. intent' = intent /\ \A k, l \in OpenPositions' : k = l
      BY <2>1
    <2>5. ASSUME NEW j \in Intents, position'[j] = "CLOSED"
          PROVE  \E k \in Intents : intent[k].target = j /\ intent[k].status = "FILLED" /\ intent[k].alone
      BY <2>2, <2>5, Zenon DEF RowsInv, PositionsMatchFills
    <2>6. \A j \in Intents : position'[j] # "NONE" =>
              intent'[j].action = "ENTRY" /\ intent'[j].status = "FILLED" /\ intent'[j].alone
      BY <2>3, <2>4
    <2>7. \A j \in Intents : position'[j] = "CLOSED" =>
              \E k \in Intents : intent'[k].target = j /\ intent'[k].status = "FILLED" /\ intent'[k].alone
      BY <2>4, <2>5
    <2> QED BY <2>4, <2>6, <2>7 DEF PositionsMatchFills, IsEntry
  <1> QED BY <1>3, <1>4, <1>5, <1>6, <1>7 DEF RowsInv

LEMMA RecoverJobStep ==
    ASSUME IInv, NEW r \in Runs, RecoverJob(r)
    PROVE  IInv'
  <1>1. FlagsInv' /\ RunsInv /\ RowsInv /\ UNCHANGED <<tick, decided, intent, job>>
    BY FlagsStay DEF IInv, RecoverJob
  <1>2. PICK i \in DueJobs :
            \/ /\ Materializable(i)
               /\ position' = [position EXCEPT ![i] = "OPEN"]
               /\ job_done' = [job_done EXCEPT ![i] = TRUE]
               /\ UNCHANGED run
            \/ Resolvable(i) /\ job_done' = [job_done EXCEPT ![i] = TRUE] /\ UNCHANGED <<position, run>>
            \/ Raise(r) /\ UNCHANGED <<position, job_done>>
    BY DEF RecoverJob
  <1>3. i \in Intents
    BY DEF DueJobs, OpenJobs
  <1>4. CASE Materializable(i) /\ position' = [position EXCEPT ![i] = "OPEN"]
             /\ job_done' = [job_done EXCEPT ![i] = TRUE] /\ UNCHANGED run
    BY <1>1, <1>3, <1>4, OpenedRows, QuietStep
  <1>5. CASE Resolvable(i) /\ job_done' = [job_done EXCEPT ![i] = TRUE] /\ UNCHANGED <<position, run>>
    <2>1. /\ intent[i].status = "UNFILLED" /\ position[i] = "NONE"
          /\ \A j \in Intents : j # i => job_done'[j] = job_done[j]
      BY <1>1, <1>3, <1>5 DEF RowsInv, RowsType, RowsCoherent, Resolvable
    <2>2. RowsGrow
      BY <1>1, <1>5 DEF RowsGrow
    <2>3. RowsType' /\ TicksCoherent' /\ RowsCoherent' /\ EntryHasJob' /\ OneEntryPerPlan'
      BY <1>1, <1>5 DEF RowsInv, RowsType, TicksCoherent, RowsCoherent, EntryHasJob,
                        OneEntryPerPlan, IsEntry
    <2>4. FillIsNeverLost'
      BY <1>1, <1>5, <2>1 DEF RowsInv, FillIsNeverLost, IsEntry, DueJobs, OpenJobs
    <2>5. PositionsMatchFills'
      BY <1>1, <1>5 DEF RowsInv, PositionsMatchFills, IsEntry, OpenPositions
    <2> QED BY <1>1, <1>5, <2>2, <2>3, <2>4, <2>5, QuietStep DEF RowsInv
  <1>6. CASE Raise(r) /\ UNCHANGED <<position, job_done>>
    <2>1. Moved(r) /\ UNCHANGED rows
      BY <1>1, <1>6, RaiseMoves DEF rows
    <2> QED BY <1>1, <2>1, ControlStep
  <1> QED BY <1>2, <1>4, <1>5, <1>6

LEMMA PrepareJobStep ==
    ASSUME IInv, NEW r \in Runs, PrepareJob(r)
    PROVE  IInv'
  <1>1. FlagsInv' /\ RunsInv /\ RowsInv /\ UNCHANGED <<tick, decided, intent, job_done, position>>
    BY FlagsStay DEF IInv, PrepareJob
  <1>2. PICK i : i = run[r].intent
    OBVIOUS
  <1>3. /\ run[r] \in RunStates /\ i \in Intents /\ intent[i].state # "ABSENT"
        /\ run[r].mode = "DISPATCH" /\ Owns(run[r]) /\ tick[run[r].key].status = "RESERVED"
    BY <1>1, <1>2 DEF RunsInv, RunCoherent, PrepareJob, At, Holding, Owns, Owning
  <1>4. CASE Complete(r, "PREPARATION_FAILED") /\ UNCHANGED job
    <2>1. Moved(r)
      BY <1>1, <1>3, <1>4, CompleteMoves DEF Codes, UncertifiedCodes
    <2> QED BY <1>1, <1>4, <2>1, ControlStep DEF rows
  <1>5. CASE /\ intent[i].state = "APPROVED" /\ Goto(r, "preview")
             /\ job' = [job EXCEPT ![i] = 1 + Cardinality({j \in Intents : job[j] # 0})]
    <2>1. Cardinality({j \in Intents : job[j] # 0}) \in Nat
      <3>1. IsFiniteSet({j \in Intents : job[j] # 0})
        BY IntentsAssumption, FS_Subset
      <3> QED BY <3>1, FS_CardinalityType
    <2>2. /\ job' \in [Intents -> Nat] /\ job'[i] # 0
          /\ \A j \in Intents : j # i => job'[j] = job[j]
      BY <1>1, <1>3, <1>5, <2>1 DEF RowsInv, RowsType
    <2>3. RowsGrow
      BY <1>1, <2>2 DEF RowsGrow
    <2>4. RowsInv'
      <3>1. RowsType' /\ TicksCoherent' /\ RowsCoherent' /\ EntryHasJob' /\ OneEntryPerPlan'
        BY <1>1, <1>3, <2>2 DEF RowsInv, RowsType, TicksCoherent, RowsCoherent, EntryHasJob,
                                OneEntryPerPlan, IsEntry
      <3>2. FillIsNeverLost'
        BY <1>1, <2>2 DEF RowsInv, FillIsNeverLost, IsEntry, DueJobs, OpenJobs
      <3>3. PositionsMatchFills'
        BY <1>1 DEF RowsInv, PositionsMatchFills, IsEntry, OpenPositions
      <3> QED BY <3>1, <3>2, <3>3 DEF RowsInv
    <2>5. Moved(r)
      <3>1. PICK v : v = [run[r] EXCEPT !.pc = "preview"]
        OBVIOUS
      <3>2. v \in RunStates /\ v.pc = "preview" /\ v.key = run[r].key /\ v.mode = "DISPATCH" /\ v.intent = i
        BY <1>2, <1>3, <3>1 DEF RunStates, Points
      <3>3. run' = [run EXCEPT ![r] = v]
        BY <1>5, <3>1 DEF Goto
      <3>4. RunCoherent(v)'
        BY <1>1, <1>3, <2>2, <3>2 DEF RunCoherent, Undecided
      <3> QED BY <1>3, <3>2, <3>3, <3>4 DEF Moved
    <2> QED BY <1>1, <2>3, <2>4, <2>5, RowStep DEF TicksKept
  <1> QED BY <1>2, <1>4, <1>5 DEF PrepareJob

LEMMA ClaimStep ==
    ASSUME IInv, NEW r \in Runs, Claim(r)
    PROVE  IInv'
  <1>1. /\ FlagsInv' /\ RunsInv /\ RowsInv
        /\ UNCHANGED <<tick, decided, job, job_done, position>>
    BY FlagsStay DEF IInv, Claim
  <1>2. PICK i : i = run[r].intent
    OBVIOUS
  <1>3. run[r].pc \in Executing /\ i \in Intents /\ (IsEntry(i) => job[i] # 0)
    BY <1>1, <1>2 DEF RunsInv, RunCoherent, Claim, At, Holding, Executing
  <1>4. CASE /\ intent[i].state = "APPROVED" /\ Goto(r, "advance")
             /\ intent' = [intent EXCEPT ![i].state = "CLAIMED"]
    <2>1. PICK w : w = [intent[i] EXCEPT !.state = "CLAIMED"]
      OBVIOUS
    <2>2. intent' = [intent EXCEPT ![i] = w]
      BY <1>4, <2>1
    <2>3. intent[i] \in Executions /\ intent[i].status = "NONE"
      BY <1>1, <1>3, <1>4 DEF RowsInv, RowsType, RowsCoherent
    <2>4. /\ w \in Executions /\ w.state = "CLAIMED" /\ w.status = "NONE"
          /\ w.action = intent[i].action /\ w.plan = intent[i].plan /\ w.target = intent[i].target
      BY <2>1, <2>3 DEF Executions
    <2>5. RowsInv' /\ RowsGrow
      BY <1>1, <1>3, <1>4, <2>2, <2>4, IntentRows
    <2>6. Moved(r)
      BY <1>1, <1>3, <1>4, <2>5, GotoMoves DEF Points, Owning
    <2> QED BY <1>1, <2>5, <2>6, RowStep DEF TicksKept
  <1>5. CASE Blocked(r, "EXECUTION_BLOCKED") /\ UNCHANGED intent
    <2>1. Moved(r)
      BY <1>1, <1>3, <1>5, BlockedMoves
    <2> QED BY <1>1, <1>5, <2>1, ControlStep DEF rows
  <1>6. CASE Goto(r, "advance") /\ UNCHANGED intent
    <2>1. UNCHANGED rows
      BY <1>1, <1>6 DEF rows
    <2>2. Moved(r)
      BY <1>1, <1>3, <1>6, <2>1, RowsStay, GotoMoves DEF Points, Owning
    <2> QED BY <1>1, <2>1, <2>2, ControlStep
  <1> QED BY <1>2, <1>4, <1>5, <1>6 DEF Claim

LEMMA FinalizeStep ==
    ASSUME IInv, NEW r \in Runs, NEW status \in Outcomes, Finalize(r, status)
    PROVE  IInv'
  <1>1. /\ FlagsInv' /\ RunsInv /\ RowsInv
        /\ UNCHANGED <<tick, decided, job, job_done, position>>
    BY DEF IInv, Finalize, FlagsInv
  <1>2. PICK i : i = run[r].intent
    OBVIOUS
  <1>3. i \in Intents /\ (IsEntry(i) => job[i] # 0)
    BY <1>1, <1>2 DEF RunsInv, RunCoherent, Finalize, At, Holding, Executing
  <1>4. PICK w : w = [intent[i] EXCEPT !.state = "TERMINAL", !.status = status,
                                      !.alone = Held \subseteq {intent[i].target}]
    OBVIOUS
  <1>5. intent' = [intent EXCEPT ![i] = w] /\ intent[i].state = "CLAIMED"
    BY <1>1, <1>2, <1>3, <1>4 DEF Finalize, RowsInv, RowsType
  <1>6. intent[i] \in Executions
    BY <1>1, <1>3 DEF RowsInv, RowsType
  <1>7. (Held \subseteq {intent[i].target}) \in BOOLEAN
    OBVIOUS
  <1>8. /\ w \in Executions /\ w.state = "TERMINAL"
        /\ w.action = intent[i].action /\ w.plan = intent[i].plan /\ w.target = intent[i].target
    BY <1>4, <1>6, <1>7 DEF Executions
  <1>9. RowsInv' /\ RowsGrow
    BY <1>1, <1>3, <1>5, <1>8, IntentRows
  <1>10. Moved(r)
    BY <1>1, <1>9, CertifiedMoves DEF Finalize
  <1> QED BY <1>1, <1>9, <1>10, RowStep DEF TicksKept

\* What is written to an intent outside of a claim and a finalization.
LEMMA IntentStep ==
    ASSUME IInv, \/ \E r \in Runs : FirstWrite(r)
                 \/ \E i \in Intents : AuthorizationExpires(i) \/ ReleaseUnsubmittedClaim(i)
    PROVE  IInv'
  <1>1. /\ FlagsInv' /\ RunsInv /\ RowsInv
        /\ UNCHANGED <<tick, decided, job, job_done, position, run>>
    BY FlagsStay DEF IInv, FirstWrite, AuthorizationExpires, ReleaseUnsubmittedClaim
  <1>2. ASSUME NEW i \in Intents, NEW w, intent' = [intent EXCEPT ![i] = w],
               intent[i].state \in {"APPROVED", "CLAIMED"}, w \in Executions,
               w.state \in {intent[i].state, "TERMINAL"}, w.status = "NONE",
               w.state # "APPROVED" => intent[i].state = "CLAIMED",
               w.action = intent[i].action, w.plan = intent[i].plan, w.target = intent[i].target
        PROVE  IInv'
    <2>1. IsEntry(i) /\ w.state # "APPROVED" => job[i] # 0
      BY <1>1, <1>2 DEF RowsInv, EntryHasJob
    <2>2. RowsInv' /\ RowsGrow
      BY <1>1, <1>2, <2>1, IntentRows
    <2> QED BY <1>1, <2>2, QuietStep
  <1>3. \A i \in Intents : /\ intent[i] \in Executions
                           /\ intent[i].state \in {"APPROVED", "CLAIMED"} => intent[i].status = "NONE"
    BY <1>1 DEF RowsInv, RowsType, RowsCoherent
  <1>4. ASSUME NEW r \in Runs, FirstWrite(r) PROVE IInv'
    <2>1. PICK i : i = run[r].intent
      OBVIOUS
    <2>2. i \in Intents /\ intent[i].state = "CLAIMED"
      BY <1>1, <1>4, <2>1 DEF RunsInv, RunCoherent, FirstWrite, At, Holding
    <2>3. PICK w : w = [intent[i] EXCEPT !.sent = TRUE]
      OBVIOUS
    <2>4. intent' = [intent EXCEPT ![i] = w]
      BY <1>4, <2>1, <2>3 DEF FirstWrite
    <2> QED BY <1>2, <1>3, <2>2, <2>3, <2>4 DEF Executions
  <1>5. ASSUME NEW i \in Intents, AuthorizationExpires(i) PROVE IInv'
    <2>1. PICK w : w = [intent[i] EXCEPT !.live = FALSE]
      OBVIOUS
    <2>2. intent' = [intent EXCEPT ![i] = w] /\ intent[i].state = "APPROVED"
      BY <1>5, <2>1 DEF AuthorizationExpires
    <2> QED BY <1>2, <1>3, <2>1, <2>2 DEF Executions
  <1>6. ASSUME NEW i \in Intents, ReleaseUnsubmittedClaim(i) PROVE IInv'
    <2>1. PICK w : w = [intent[i] EXCEPT !.state = "TERMINAL"]
      OBVIOUS
    <2>2. intent' = [intent EXCEPT ![i] = w] /\ intent[i].state = "CLAIMED"
      BY <1>6, <2>1 DEF ReleaseUnsubmittedClaim
    <2> QED BY <1>2, <1>3, <2>1, <2>2 DEF Executions
  <1> QED BY <1>4, <1>5, <1>6

LEMMA MaterializeStep ==
    ASSUME IInv, NEW r \in Runs, Materialize(r)
    PROVE  IInv'
  <1>1. FlagsInv' /\ RunsInv /\ RowsInv /\ UNCHANGED <<tick, decided, intent, job>>
    BY FlagsStay DEF IInv, Materialize
  <1>2. PICK i : i = run[r].intent
    OBVIOUS
  <1>3. /\ i \in Intents /\ intent[i].state # "ABSENT"
        /\ Owns(run[r]) /\ tick[run[r].key].status = "RESERVED"
        /\ run[r].mode = "CLOSE" => Undecided(run[r])
    BY <1>1, <1>2 DEF RunsInv, RunCoherent, Materialize, At, Holding, Executing, Owns, Owning, Undecided
  <1>4. ASSUME NEW code \in {"FILLED", "MATERIALIZATION_FAILED"},
               IF run[r].mode = "CLOSE"
               THEN Audit(r, IF code = "FILLED" THEN "RECOVERED" ELSE "RECOVERY_PENDING")
               ELSE Complete(r, code),
               code = "FILLED" => IF intent'[i].action = "ENTRY" THEN position'[i] # "NONE"
                                  ELSE position'[intent'[i].target] = "CLOSED"
        PROVE  Moved(r)
    <2>1. CASE run[r].mode = "CLOSE"
      <3>1. \E c \in {"RECOVERED", "RECOVERY_PENDING"} : Audit(r, c)
        BY <1>4, <2>1
      <3> QED BY <1>1, <1>3, <2>1, <3>1, AuditMoves DEF Codes, OtherCodes
    <2>2. CASE run[r].mode # "CLOSE"
      BY <1>1, <1>2, <1>3, <1>4, <2>2, CompleteMoves DEF Codes, CertificateCodes, Outcomes
    <2> QED BY <2>1, <2>2
  <1>5. CASE Materializable(i)
    <2>1. /\ position' = [position EXCEPT ![i] = "OPEN"] /\ job_done' = [job_done EXCEPT ![i] = TRUE]
          /\ IF run[r].mode = "CLOSE" THEN Audit(r, "RECOVERED") ELSE Complete(r, "FILLED")
      BY <1>2, <1>5 DEF Materialize
    <2>2. RowsInv' /\ RowsGrow
      BY <1>1, <1>3, <1>5, <2>1, OpenedRows
    <2>3. position'[i] = "OPEN" /\ intent'[i].action = "ENTRY"
      BY <1>1, <1>3, <1>5, <2>1 DEF RowsInv, RowsType, Materializable, IsEntry
    <2>4. Moved(r)
      BY <1>4, <2>1, <2>3
    <2> QED BY <1>1, <2>2, <2>4, RowStep DEF TicksKept
  <1>6. CASE ~Materializable(i) /\ Closable(i)
    <2>1. PICK j : j = intent[i].target
      OBVIOUS
    <2>2. /\ position' = [position EXCEPT ![j] = "CLOSED"] /\ UNCHANGED job_done
          /\ IF run[r].mode = "CLOSE" THEN Audit(r, "RECOVERED") ELSE Complete(r, "FILLED")
      BY <1>2, <1>6, <2>1 DEF Materialize
    <2>3. /\ j \in Intents /\ position[j] # "NONE" /\ intent[i].status = "FILLED"
          /\ intent[i].action = "CLOSE"
      BY <1>1, <1>3, <1>6, <2>1 DEF RowsInv, RowsCoherent, Closable
    <2>4. position'[j] = "CLOSED" /\ \A k \in Intents : k # j => position'[k] = position[k]
      BY <1>1, <2>2, <2>3 DEF RowsInv, RowsType
    <2>5. RowsGrow
      BY <1>1, <2>4 DEF RowsGrow
    <2>6. RowsInv'
      <3>1. RowsType' /\ TicksCoherent'
        BY <1>1, <2>2 DEF RowsInv, RowsType, TicksCoherent
      <3>2. RowsCoherent' /\ EntryHasJob' /\ OneEntryPerPlan'
        BY <1>1, <2>3, <2>4 DEF RowsInv, RowsCoherent, EntryHasJob, OneEntryPerPlan, IsEntry
      <3>3. FillIsNeverLost'
        BY <1>1, <2>2, <2>3, <2>4 DEF RowsInv, FillIsNeverLost, IsEntry, DueJobs, OpenJobs
      <3>4. PositionsMatchFills'
        <4>1. OpenPositions' \subseteq OpenPositions
          BY <2>3, <2>4 DEF OpenPositions
        <4>2. ASSUME NEW k \in Intents, position'[k] # "NONE"
              PROVE  intent[k].action = "ENTRY" /\ intent[k].status = "FILLED" /\ intent[k].alone
          <5>1. position[k] # "NONE"
            BY <2>3, <2>4, <4>2
          <5> QED
            BY <1>1, <5>1, Zenon DEF RowsInv, PositionsMatchFills, IsEntry
        <4>3. intent[i].target = j /\ intent[i].status = "FILLED" /\ intent[i].alone
          BY <1>6, <2>1, Zenon DEF Closable
        <4>4. \A k \in Intents : position'[k] = "CLOSED" => k = j \/ position[k] = "CLOSED"
          BY <2>4, Zenon
        <4>5. intent' = intent /\ \A k, l \in OpenPositions' : k = l
          <5>1. \A k, l \in OpenPositions : k = l
            BY <1>1 DEF RowsInv, PositionsMatchFills
          <5> QED
            BY <1>1, <4>1, <5>1
        <4>6. ASSUME NEW k \in Intents, position'[k] = "CLOSED"
              PROVE  \E l \in Intents : intent[l].target = k /\ intent[l].status = "FILLED" /\ intent[l].alone
          <5>1. CASE k = j
            BY <1>3, <4>3, <5>1, Zenon
          <5>2. CASE position[k] = "CLOSED"
            BY <1>1, <5>2, Zenon DEF RowsInv, PositionsMatchFills
          <5> QED BY <4>4, <4>6, <5>1, <5>2
        <4> QED
          BY <4>2, <4>5, <4>6, Zenon DEF PositionsMatchFills, IsEntry
      <3> QED BY <3>1, <3>2, <3>3, <3>4 DEF RowsInv
    <2>7. Moved(r)
      BY <1>1, <1>4, <2>1, <2>2, <2>3, <2>4
    <2> QED BY <1>1, <2>5, <2>6, <2>7, RowStep DEF TicksKept
  <1>7. CASE ~Materializable(i) /\ ~Closable(i)
    <2>1. /\ UNCHANGED <<position, job_done>>
          /\ IF run[r].mode = "CLOSE" THEN Audit(r, "RECOVERY_PENDING")
             ELSE Complete(r, "MATERIALIZATION_FAILED")
      BY <1>2, <1>7 DEF Materialize
    <2>2. Moved(r)
      BY <1>4, <2>1
    <2> QED BY <1>1, <2>1, <2>2, ControlStep DEF rows
  <1> QED BY <1>5, <1>6, <1>7

LEMMA BeginTickStep ==
    ASSUME IInv, NEW r \in Runs, BeginTick(r)
    PROVE  IInv'
  <1>1. /\ FlagsInv' /\ RunsInv /\ RowsInv
        /\ UNCHANGED <<decided, intent, job, job_done, position>>
    BY FlagsStay DEF IInv, BeginTick
  <1>2. PICK k : k = run[r].key
    OBVIOUS
  <1>3. run[r] \in RunStates /\ k \in Keys
    BY <1>1, <1>2 DEF RunsInv, RunStates
  <1>4. CASE Raise(r) /\ UNCHANGED tick
    BY <1>1, <1>4, RaiseMoves, ControlStep DEF rows
  <1>5. CASE /\ tick[k].status = "ABSENT"
             /\ tick' = [tick EXCEPT ![k].status = "RESERVED"]
             /\ \/ Audit(r, "RECOVERY_PENDING")
                \/ Goto(r, "lifecycle") \/ Goto(r, "latch")
    <2>1. tick[k] \in Ticks /\ tick[k].intent = NoIntent
      BY <1>1, <1>3, <1>5 DEF RowsInv, RowsType, TicksCoherent
    <2>2. /\ tick'[k] = [tick[k] EXCEPT !.status = "RESERVED"]
          /\ \A l \in Keys : l # k => tick'[l] = tick[l]
      BY <1>1, <1>3, <1>5 DEF RowsInv, RowsType
    <2>3. tick'[k] \in Ticks /\ tick'[k].status = "RESERVED" /\ tick'[k].intent = NoIntent
      BY <1>5, <2>1, <2>2 DEF Ticks
    <2>4. tick' \in [Keys -> Ticks] /\ TicksCoherent'
      BY <1>1, <1>5, <2>2, <2>3 DEF RowsInv, RowsType, TicksCoherent
    <2>5. RowsInv' /\ RowsGrow
      BY <1>1, <2>4, TickRows
    <2>6. PICK v \in RunStates :
              /\ run' = [run EXCEPT ![r] = v] /\ v.key = k
              /\ v.pc \in {"audit", "lifecycle", "latch"}
              /\ v.pc = "audit" => v.code = "RECOVERY_PENDING"
      <3>1. CASE Audit(r, "RECOVERY_PENDING")
        <4>1. PICK v : v = [Idle EXCEPT !.pc = "audit", !.key = run[r].key, !.code = "RECOVERY_PENDING"]
          OBVIOUS
        <4>2. v \in RunStates /\ v.pc = "audit" /\ v.key = k /\ v.code = "RECOVERY_PENDING"
          BY <1>2, <1>3, <4>1, IdleType DEF RunStates, Points, Idle, Codes, OtherCodes
        <4> QED BY <3>1, <4>1, <4>2 DEF Audit
      <3>2. ASSUME NEW p \in {"lifecycle", "latch"}, Goto(r, p)
            PROVE  \E v \in RunStates : run' = [run EXCEPT ![r] = v] /\ v.key = k /\ v.pc = p
        <4>1. PICK v : v = [run[r] EXCEPT !.pc = p]
          OBVIOUS
        <4>2. v \in RunStates /\ v.pc = p /\ v.key = k
          BY <1>2, <1>3, <4>1 DEF RunStates, Points
        <4> QED BY <3>2, <4>1, <4>2 DEF Goto
      <3> QED BY <1>5, <3>1, <3>2
    <2>7. RunCoherent(v)'
      BY <2>3, <2>6 DEF RunCoherent, Holding, Executing, Codes, OtherCodes
    <2>8. Moved(r)
      BY <1>2, <1>5, <2>6, <2>7 DEF Moved
    <2>9. TicksKept(r)
      BY <1>2, <1>5, <2>2 DEF TicksKept
    <2> QED BY <1>1, <2>2, <2>3, <2>5, <2>8, <2>9, RowStep
  <1> QED BY <1>2, <1>4, <1>5 DEF BeginTick, Reservable

\* A run that writes the decision of the tick it owns.
LEMMA DecisionTick ==
    ASSUME RowsInv, RunsInv, NEW r \in Runs, Owns(run[r]), NEW i \in Intents \cup {NoIntent},
           tick' = [tick EXCEPT ![run[r].key].decision = "RECORDED", ![run[r].key].intent = i]
    PROVE  /\ tick' \in [Keys -> Ticks] /\ TicksCoherent' /\ TicksKept(r)
           /\ tick'[run[r].key].status = "RESERVED"
           /\ \A k \in Keys : tick'[k] = tick[k] \/ tick'[k].status # "COMPLETED"
  <1>1. PICK k : k = run[r].key
    OBVIOUS
  <1>2. k \in Keys /\ tick[k] \in Ticks /\ tick[k].status = "RESERVED"
    BY <1>1 DEF RunsInv, RunStates, RunCoherent, RowsInv, RowsType
  <1>3. /\ tick'[k] = [tick[k] EXCEPT !.decision = "RECORDED", !.intent = i]
        /\ \A l \in Keys : l # k => tick'[l] = tick[l]
    BY <1>1, <1>2 DEF RowsInv, RowsType
  <1>4. tick'[k] \in Ticks /\ tick'[k].status = "RESERVED"
    <2>1. PICK t : t = tick[k]
      OBVIOUS
    <2>2. t \in Ticks /\ t.status = "RESERVED" /\ t.code = "NONE"
      BY <1>2, <2>1 DEF Ticks
    <2>3. PICK u : u = [t EXCEPT !.decision = "RECORDED", !.intent = i]
      OBVIOUS
    <2>4. u.status = "RESERVED" /\ u.code = "NONE"
      BY <2>2, <2>3 DEF Ticks
    <2>5. u \in Ticks
      BY <2>2, <2>3, <2>4 DEF Ticks
    <2> QED BY <1>3, <2>1, <2>3, <2>4, <2>5
  <1>5. tick' \in [Keys -> Ticks]
    BY <1>1, <1>3, <1>4 DEF RowsInv, RowsType
  <1> QED BY <1>1, <1>3, <1>4, <1>5 DEF RowsInv, TicksCoherent, TicksKept

LEMMA RecordAuditStep ==
    ASSUME IInv, NEW r \in Runs, RecordAudit(r)
    PROVE  IInv'
  <1>1. /\ FlagsInv' /\ RunsInv /\ RowsInv
        /\ UNCHANGED <<decided, intent, job, job_done, position>>
    BY FlagsStay DEF IInv, RecordAudit
  <1>2. /\ run[r] \in RunStates /\ Owns(run[r]) /\ run[r].code \in Codes /\ run[r].code # "FILLED"
        /\ run[r].key \in Keys /\ tick[run[r].key].intent = NoIntent
        /\ tick[run[r].key] \in Ticks
    BY <1>1 DEF RunsInv, RunStates, RunCoherent, RecordAudit, At, Owns, Owning, Undecided,
                RowsInv, RowsType
  <1>3. tick' = [tick EXCEPT ![run[r].key].decision = "RECORDED", ![run[r].key].intent = NoIntent]
    <2>1. [tick[run[r].key] EXCEPT !.decision = "RECORDED"]
              = [tick[run[r].key] EXCEPT !.decision = "RECORDED", !.intent = NoIntent]
      BY <1>2 DEF Ticks
    <2> QED BY <1>1, <1>2, <2>1 DEF RecordAudit, RowsInv, RowsType
  <1>4. /\ tick' \in [Keys -> Ticks] /\ TicksCoherent' /\ TicksKept(r)
        /\ tick'[run[r].key].status = "RESERVED"
        /\ \A k \in Keys : tick'[k] = tick[k] \/ tick'[k].status # "COMPLETED"
    BY <1>1, <1>2, <1>3, DecisionTick
  <1>5. RowsInv' /\ RowsGrow
    BY <1>1, <1>4, TickRows
  <1>6. PICK v : v = [run[r] EXCEPT !.pc = "complete"]
    OBVIOUS
  <1>7. /\ v \in RunStates /\ v.pc = "complete" /\ v.key = run[r].key /\ v.code = run[r].code
        /\ run' = [run EXCEPT ![r] = v]
    BY <1>2, <1>6 DEF RunStates, Points, RecordAudit, Goto
  <1>8. RunCoherent(v)'
    BY <1>2, <1>4, <1>7 DEF RunCoherent, Holding, Executing, Undecided
  <1>9. Moved(r)
    BY <1>2, <1>7, <1>8 DEF Moved
  <1> QED BY <1>1, <1>4, <1>5, <1>9, RowStep

\* The rows of an approval: no entry was approved for the plan before, for then the plan
\* would have its decision.
LEMMA ApprovedRows ==
    ASSUME RowsInv, NEW i \in Intents, NEW w \in Executions, intent' = [intent EXCEPT ![i] = w],
           intent[i].state = "ABSENT", w.state = "APPROVED", w.status = "NONE",
           w.action \in {"ENTRY", "CLOSE"}, w.action = "CLOSE" => w.target \in Intents,
           w.plan \notin decided, w.action = "ENTRY" => w.plan \in decided',
           decided \subseteq decided', decided' \subseteq Plans,
           tick' \in [Keys -> Ticks], TicksCoherent', UNCHANGED <<job, job_done, position>>
    PROVE  RowsInv' /\ RowsGrow
  <1>1. intent'[i] = w /\ \A j \in Intents : j # i => intent'[j] = intent[j]
    BY DEF RowsInv, RowsType
  <1>2. /\ intent[i].status = "NONE" /\ intent[i].action = "NONE" /\ job[i] = 0
        /\ position[i] = "NONE" /\ ~job_done[i]
    BY DEF RowsInv, RowsType, RowsCoherent, FillIsNeverLost
  <1>3. RowsGrow
    BY <1>1, <1>2 DEF RowsGrow
  <1>4. RowsType'
    BY DEF RowsInv, RowsType
  <1>5. RowsCoherent'
    BY <1>1, <1>2 DEF RowsInv, RowsCoherent, IsEntry
  <1>6. EntryHasJob'
    BY <1>1 DEF RowsInv, EntryHasJob, IsEntry
  <1>7. OneEntryPerPlan'
    <2>1. \A j \in Intents : j # i /\ IsEntry(j) => intent[j].plan # w.plan
      BY DEF RowsInv, RowsCoherent
    <2> QED BY <1>1, <2>1 DEF RowsInv, OneEntryPerPlan, IsEntry
  <1>8. FillIsNeverLost'
    BY <1>1, <1>2 DEF RowsInv, FillIsNeverLost, IsEntry, DueJobs, OpenJobs
  <1>9. PositionsMatchFills'
    <2>1. OpenPositions' = OpenPositions
      BY DEF OpenPositions
    <2>2. position' = position /\ \A j \in Intents : intent[j].status = "FILLED" => intent'[j] = intent[j]
      BY <1>1, <1>2
    <2>3. ASSUME NEW j \in Intents, position'[j] # "NONE"
          PROVE  intent'[j].action = "ENTRY" /\ intent'[j].status = "FILLED" /\ intent'[j].alone
      <3>1. position[j] # "NONE" /\ PositionsMatchFills
        BY <2>2, <2>3 DEF RowsInv
      <3>2. intent[j].action = "ENTRY" /\ intent[j].status = "FILLED" /\ intent[j].alone
        BY <3>1, Zenon DEF PositionsMatchFills, IsEntry
      <3>3. intent'[j] = intent[j]
        BY <2>2, <3>2
      <3> QED BY <3>2, <3>3, Zenon
    <2>4. ASSUME NEW j \in Intents, position'[j] = "CLOSED"
          PROVE  \E k \in Intents : intent'[k].target = j /\ intent'[k].status = "FILLED" /\ intent'[k].alone
      <3>1. PICK k \in Intents : intent[k].target = j /\ intent[k].status = "FILLED" /\ intent[k].alone
        BY <2>4, Zenon DEF RowsInv, PositionsMatchFills
      <3> QED BY <2>2, <3>1, Zenon
    <2> QED BY <2>1, <2>3, <2>4, Zenon DEF RowsInv, PositionsMatchFills, IsEntry
  <1> QED BY <1>3, <1>4, <1>5, <1>6, <1>7, <1>8, <1>9 DEF RowsInv

LEMMA RecordDecisionStep ==
    ASSUME IInv, NEW r \in Runs, RecordDecision(r)
    PROVE  IInv'
  <1>1. FlagsInv' /\ RunsInv /\ RowsInv /\ UNCHANGED <<job, job_done, position>>
    BY FlagsStay DEF IInv, RecordDecision
  <1>2. PICK q : q = run[r]
    OBVIOUS
  <1>3. /\ q \in RunStates /\ q.key \in Keys /\ Owns(run[r])
        /\ q.action # "CLOSE" => q.plan \in Plans
    BY <1>1, <1>2 DEF RunsInv, RunStates, RunCoherent, RecordDecision, At, Owns, Owning
  <1>4. CASE Raise(r) /\ UNCHANGED <<tick, decided, intent>>
    BY <1>1, <1>4, RaiseMoves, ControlStep DEF rows
  <1>5. CASE /\ q.action = "NONE" /\ decided' = decided \cup {q.plan}
             /\ tick' = [tick EXCEPT ![run[r].key].decision = "RECORDED", ![run[r].key].intent = NoIntent]
             /\ Complete(r, "NO_ACTION") /\ UNCHANGED intent
    <2>1. /\ tick' \in [Keys -> Ticks] /\ TicksCoherent' /\ TicksKept(r)
          /\ tick'[run[r].key].status = "RESERVED"
          /\ \A k \in Keys : tick'[k] = tick[k] \/ tick'[k].status # "COMPLETED"
      BY <1>1, <1>3, <1>5, DecisionTick
    <2>2. RowsGrow
      BY <1>1, <1>5 DEF RowsGrow
    <2>3. RowsInv'
      <3>1. RowsType' /\ RowsCoherent' /\ EntryHasJob' /\ OneEntryPerPlan'
        BY <1>1, <1>3, <1>5, <2>1 DEF RowsInv, RowsType, RowsCoherent, EntryHasJob, OneEntryPerPlan, IsEntry
      <3>2. FillIsNeverLost'
        BY <1>1, <1>5 DEF RowsInv, FillIsNeverLost, IsEntry, DueJobs, OpenJobs
      <3>3. PositionsMatchFills'
        BY <1>1, <1>5 DEF RowsInv, PositionsMatchFills, IsEntry, OpenPositions
      <3> QED BY <2>1, <3>1, <3>2, <3>3 DEF RowsInv
    <2>4. Moved(r)
      BY <1>1, <1>3, <1>5, <2>1, CompleteMoves DEF Codes, OtherCodes
    <2> QED BY <1>1, <2>1, <2>2, <2>3, <2>4, RowStep
  <1>6. ASSUME NEW i \in Intents, q.action # "NONE", MayDecide(r), intent[i].state = "ABSENT",
               decided' = decided \cup ({q.plan} \ {NoPlan}),
               tick' = [tick EXCEPT ![run[r].key].decision = "RECORDED", ![run[r].key].intent = i],
               intent' = [intent EXCEPT ![i].state = "APPROVED", ![i].live = TRUE,
                                        ![i].action = q.action, ![i].plan = q.plan,
                                        ![i].target = q.target],
               run' = [run EXCEPT ![r] =
                           [Idle EXCEPT !.pc = Dispatch(q.action), !.key = q.key,
                                        !.mode = "DISPATCH", !.intent = i]]
        PROVE  IInv'
    <2>1. /\ tick' \in [Keys -> Ticks] /\ TicksCoherent' /\ TicksKept(r)
          /\ tick'[q.key].status = "RESERVED"
          /\ \A k \in Keys : tick'[k] = tick[k] \/ tick'[k].status # "COMPLETED"
      BY <1>1, <1>2, <1>3, <1>6, DecisionTick
    <2>2. PICK w : w = [intent[i] EXCEPT !.state = "APPROVED", !.live = TRUE, !.action = q.action,
                                         !.plan = q.plan, !.target = q.target]
      OBVIOUS
    <2>3. intent[i] \in Executions /\ intent[i].status = "NONE"
      BY <1>1, <1>6 DEF RowsInv, RowsType, RowsCoherent
    <2>4. intent' = [intent EXCEPT ![i] = w]
      BY <1>1, <1>6, <2>2 DEF RowsInv, RowsType
    <2>5. /\ w \in Executions /\ w.state = "APPROVED" /\ w.status = "NONE"
          /\ w.action = q.action /\ w.plan = q.plan /\ w.target = q.target
      BY <1>3, <2>2, <2>3 DEF Executions, RunStates
    <2>6. q.action \in {"ENTRY", "CLOSE"} /\ q.plan \in Plans \cup {NoPlan}
      BY <1>3, <1>6 DEF RunStates
    <2>7. q.plan \notin decided /\ (q.action = "CLOSE" => q.target \in Intents)
      BY <1>2, <1>6 DEF MayDecide, OpenPositions
    <2>8. decided' \subseteq Plans /\ (q.action = "ENTRY" => q.plan \in decided')
      BY <1>1, <1>3, <1>6, <2>6, NoPlanAssumption DEF RowsInv, RowsType
    <2>9. RowsInv' /\ RowsGrow
      BY <1>1, <1>6, <2>1, <2>4, <2>5, <2>6, <2>7, <2>8, ApprovedRows
    <2>10. Moved(r)
      <3>1. PICK p : p = Dispatch(q.action)
        OBVIOUS
      <3>2. p = (IF q.action = "ENTRY" THEN "prepare" ELSE "preview") /\ p \in Points
        BY <3>1 DEF Dispatch, Points
      <3>3. PICK v : v = [Idle EXCEPT !.pc = p, !.key = q.key, !.mode = "DISPATCH", !.intent = i]
        OBVIOUS
      <3>4. v.pc = p /\ v.key = q.key /\ v.mode = "DISPATCH" /\ v.intent = i
        BY <3>3 DEF Idle
      <3>5. v \in RunStates
        BY <1>3, <3>2, <3>3, DispatchType
      <3>6. intent'[i] = w
        BY <1>1, <2>4 DEF RowsInv, RowsType
      <3>7. RunCoherent(v)'
        BY <2>1, <2>5, <3>2, <3>4, <3>6 DEF RunCoherent, Executing, Undecided, IsEntry
      <3> QED BY <1>2, <1>3, <1>6, <3>1, <3>3, <3>4, <3>5, <3>7 DEF Moved
    <2> QED BY <1>1, <2>1, <2>9, <2>10, RowStep
  <1> QED BY <1>2, <1>4, <1>5, <1>6 DEF RecordDecision

LEMMA CompleteTickStep ==
    ASSUME IInv, NEW r \in Runs, CompleteTick(r)
    PROVE  IInv'
  <1>1. /\ FlagsInv' /\ RunsInv /\ RowsInv /\ Moved(r)
        /\ UNCHANGED <<decided, intent, job, job_done, position>>
    BY FlagsStay, RaiseMoves DEF IInv, CompleteTick
  <1>2. PICK k : k = run[r].key
    OBVIOUS
  <1>3. PICK i : i = run[r].intent
    OBVIOUS
  <1>4. PICK code : code = run[r].code
    OBVIOUS
  <1>5. /\ k \in Keys /\ Owns(run[r]) /\ code \in Codes /\ i \in Intents \cup {NoIntent}
        /\ code = "FILLED" => i \in Intents /\ Settled(i)
    BY <1>1, <1>2, <1>3, <1>4 DEF RunsInv, RunStates, RunCoherent, CompleteTick, At, Owns, Owning
  <1>6. CASE UNCHANGED tick
    BY <1>1, <1>6, ControlStep DEF rows
  <1>7. CASE Completable(r) /\ tick' = [tick EXCEPT ![k] = Completed(r)]
    <2>1. PICK t : t = Completed(r)
      OBVIOUS
    <2>2. tick[k] \in Ticks
      BY <1>1, <1>5 DEF RowsInv, RowsType
    <2>3. /\ t.status = "COMPLETED" /\ t.code = code /\ t.intent = tick[k].intent
          /\ t.certificate = IF code \in CertificateCodes THEN i ELSE NoIntent
      BY <1>2, <1>3, <1>4, <2>1, <2>2 DEF Completed, Ticks
    <2>4. code # "NONE"
      BY <1>5 DEF Codes, CertificateCodes, Outcomes, UncertifiedCodes, OtherCodes
    <2>5. t \in Ticks
      BY <1>2, <1>3, <1>4, <1>5, <2>1, <2>2, <2>3, <2>4 DEF Completed, Ticks
    <2>6. /\ tick' \in [Keys -> Ticks] /\ tick'[k] = t
          /\ \A l \in Keys : l # k => tick'[l] = tick[l]
      BY <1>1, <1>5, <1>7, <2>1, <2>5 DEF RowsInv, RowsType
    <2>7. TicksCoherent' /\ TicksKept(r)
      BY <1>1, <1>2, <1>5, <2>3, <2>6 DEF RowsInv, TicksCoherent, TicksKept
    <2>8. RowsInv' /\ RowsGrow
      BY <1>1, <2>6, <2>7, TickRows
    <2>9. RunsInv'
      BY <1>1, <2>7, <2>8, RunsKept
    <2>10. ReportedFillIsMaterialized'
      <3>1. code \in CertificateCodes =>
                /\ i # NoIntent /\ tick[k].intent = i
                /\ intent[i].status = IF code = "MATERIALIZATION_FAILED" THEN "FILLED" ELSE code
        BY <1>2, <1>3, <1>4, <1>7 DEF Completable, CertificateMatchesDecision
      <3> QED BY <1>1, <1>5, <2>3, <2>6, <3>1 DEF IInv, ReportedFillIsMaterialized, Settled, IsEntry
    <2> QED BY <1>1, <2>8, <2>9, <2>10 DEF IInv
  <1> QED BY <1>2, <1>6, <1>7 DEF CompleteTick

-----------------------------------------------------------------------------
(* The theorems *)

LEMMA InitIInv == Init => IInv
  <1> SUFFICES ASSUME Init PROVE IInv
    OBVIOUS
  <1>1. FlagsInv
    <2>1. execution_locked \in BOOLEAN /\ autonomous_enabled \in BOOLEAN
      BY DEF Init
    <2>2. boundary \in Boundaries /\ stops \in 0..MaxStops
      BY BoundAssumption DEF Init, Boundaries
    <2> QED BY <2>1, <2>2 DEF FlagsInv
  <1>2. NoTick \in Ticks /\ NoExecution \in Executions
    BY DEF NoTick, Ticks, NoExecution, Executions, Codes, CertificateCodes, Outcomes,
           UncertifiedCodes, OtherCodes
  <1>3. RowsType
    BY <1>2 DEF Init, RowsType
  <1>4. TicksCoherent /\ RowsCoherent /\ EntryHasJob /\ OneEntryPerPlan
    BY DEF Init, TicksCoherent, RowsCoherent, EntryHasJob, OneEntryPerPlan, NoTick, NoExecution, IsEntry
  <1>5. FillIsNeverLost /\ PositionsMatchFills
    BY DEF Init, FillIsNeverLost, PositionsMatchFills, OpenPositions, NoExecution, IsEntry
  <1>6. RunsInv
    BY IdleType DEF Init, RunsInv, RunCoherent, Idle, Holding, Executing, Owns, Owning, Undecided
  <1>7. ReportedFillIsMaterialized
    BY DEF Init, ReportedFillIsMaterialized, NoTick
  <1> QED BY <1>1, <1>3, <1>4, <1>5, <1>6, <1>7 DEF IInv, RowsInv

LEMMA NextIInv == IInv /\ [Next]_vars => IInv'
  <1> SUFFICES ASSUME IInv, [Next]_vars PROVE IInv'
    OBVIOUS
  <1>1. ASSUME NEW r \in Runs, NEW actor \in Actors, Start(r, actor) PROVE IInv'
    BY <1>1, StartStep
  <1>2. ASSUME NEW r \in Runs, Step(r) PROVE IInv'
    <2>1. CASE RecoverJob(r) \/ NothingDue(r) \/ PendingEntry(r)
      BY <2>1, RecoverJobStep, NothingDueStep, PendingEntryStep
    <2>2. CASE BeginTick(r) \/ RecoverLifecycle(r) \/ CheckLatch(r) \/ Acquire(r)
      BY <2>2, BeginTickStep, RecoverLifecycleStep, CheckLatchStep, AcquireStep
    <2>3. CASE RecordDecision(r) \/ RecordAudit(r) \/ PrepareJob(r)
      BY <2>3, RecordDecisionStep, RecordAuditStep, PrepareJobStep
    <2>4. CASE Preview(r) \/ Claim(r) \/ FirstWrite(r)
      BY <2>4, PreviewStep, ClaimStep, IntentStep
    <2>5. CASE AlreadyTerminal(r) \/ StillPending(r) \/ AdvanceBlocked(r)
      BY <2>5, AlreadyTerminalStep, StillPendingStep, AdvanceBlockedStep
    <2>6. CASE \E status \in Outcomes : Finalize(r, status)
      BY <2>6, FinalizeStep
    <2>7. CASE Materialize(r) \/ CompleteTick(r)
      BY <2>7, MaterializeStep, CompleteTickStep
    <2> QED BY <1>2, <2>1, <2>2, <2>3, <2>4, <2>5, <2>6, <2>7 DEF Step
  <1>3. CASE SetAutonomousEnabled \/ NextBoundary
    BY <1>3, SurroundingsStep
  <1>4. ASSUME NEW i \in Intents, AuthorizationExpires(i) \/ ReleaseUnsubmittedClaim(i) PROVE IInv'
    BY <1>4, IntentStep
  <1>5. ASSUME NEW r \in Runs, Stop(r) PROVE IInv'
    BY <1>5, StopStep
  <1>6. CASE UNCHANGED vars
    <2>1. FlagsInv' /\ UNCHANGED <<rows, run>>
      BY <1>6, FlagsStay DEF vars, IInv
    <2>2. RowsInv' /\ RowsGrow
      BY <2>1, RowsStay DEF IInv
    <2> QED BY <2>1, <2>2, QuietStep DEF rows
  <1> QED BY <1>1, <1>2, <1>3, <1>4, <1>5, <1>6 DEF Next

\* IInv is an invariant of AgentRunService.run and of everything around it: with TypeOK
\* and the properties below it says what a run that holds an intent or a tick may rely on.
THEOREM Inductive == Spec => []IInv
  BY InitIInv, NextIInv, PTL DEF Spec

\* The rows and the runs keep their types, ck_agent_tick_completion included, for any
\* number of runs, intents, plans and boundaries.
THEOREM TypeCorrect == Spec => []TypeOK
  <1>1. IInv => TypeOK
    BY DEF IInv, FlagsInv, RowsInv, RowsType, RunsInv, TypeOK
  <1> QED BY <1>1, Inductive, PTL

\* A claimed entry has the materialization job that leads recover_pending to it.
THEOREM EntryAlwaysHasJob == Spec => []EntryHasJob
  <1>1. IInv => EntryHasJob
    BY DEF IInv, RowsInv
  <1> QED BY <1>1, Inductive, PTL

\* The fill of an entry stays due until it is a managed position, and no job is completed
\* by anything else than its own outcome.
THEOREM FillNeverLost == Spec => []FillIsNeverLost
  <1>1. IInv => FillIsNeverLost
    BY DEF IInv, RowsInv
  <1> QED BY <1>1, Inductive, PTL

\* At most one managed position is open, each is of an entry that filled while nothing else was
\* held, and a closed one was closed by a fill after which nothing was.
THEOREM PositionsAreFills == Spec => []PositionsMatchFills
  <1>1. IInv => PositionsMatchFills
    BY DEF IInv, RowsInv
  <1> QED BY <1>1, Inductive, PTL

\* A completed tick that reports a certificate has it, and reports FILLED only after the
\* materialization.
THEOREM ReportsAreMaterialized == Spec => []ReportedFillIsMaterialized
  <1>1. IInv => ReportedFillIsMaterialized
    BY DEF IInv
  <1> QED BY <1>1, Inductive, PTL

\* Overlapping runs approve at most one entry for an opportunity plan.
THEOREM PlanEnteredOnce == Spec => []OneEntryPerPlan
  <1>1. IInv => OneEntryPerPlan
    BY DEF IInv, RowsInv
  <1> QED BY <1>1, Inductive, PTL

\* A step keeps every tick that is final, and the intent of every tick that has one.
TicksFinal ==
    \A k \in Keys :
        /\ tick[k].status = "COMPLETED" => tick'[k] = tick[k]
        /\ tick[k].intent # NoIntent => tick'[k].intent = tick[k].intent
        /\ tick[k].status # "ABSENT" => tick'[k].status # "ABSENT"

LEMMA TickWrite ==
    ASSUME IInv, NEW r \in Runs, BeginTick(r) \/ RecordDecision(r) \/ RecordAudit(r) \/ CompleteTick(r)
    PROVE  TicksFinal
  <1>1. PICK k : k = run[r].key
    OBVIOUS
  <1>2. k \in Keys /\ tick \in [Keys -> Ticks] /\ tick[k] \in Ticks
    BY <1>1 DEF IInv, RunsInv, RunStates, RowsInv, RowsType
  <1>3. CASE UNCHANGED tick
    BY <1>3 DEF TicksFinal
  <1>4. CASE tick[k].status = "ABSENT" /\ tick' = [tick EXCEPT ![k].status = "RESERVED"]
    BY <1>2, <1>4 DEF TicksFinal, Ticks
  <1>5. ASSUME NEW t, tick[k].status = "RESERVED", tick' = [tick EXCEPT ![k] = t],
               t.status # "ABSENT", tick[k].intent # NoIntent => t.intent = tick[k].intent
        PROVE  TicksFinal
    BY <1>2, <1>5 DEF TicksFinal
  <1>6. CASE BeginTick(r)
    BY <1>1, <1>3, <1>4, <1>6 DEF BeginTick, Reservable
  <1>7. CASE RecordDecision(r)
    <2>1. tick[k].status = "RESERVED" /\ tick[k].intent = NoIntent
      BY <1>1, <1>7 DEF IInv, RunsInv, RunCoherent, RecordDecision, At, Owns, Owning, Undecided
    <2>2. ASSUME NEW i, tick' = [tick EXCEPT ![k].decision = "RECORDED", ![k].intent = i]
          PROVE  TicksFinal
      <3>1. PICK t : t = [tick[k] EXCEPT !.decision = "RECORDED", !.intent = i]
        OBVIOUS
      <3>2. tick' = [tick EXCEPT ![k] = t] /\ t.status = "RESERVED"
        BY <1>2, <2>1, <2>2, <3>1 DEF Ticks
      <3> QED BY <1>5, <2>1, <3>2
    <2> QED BY <1>1, <1>3, <1>7, <2>2 DEF RecordDecision
  <1>8. CASE RecordAudit(r)
    <2>1. tick[k].status = "RESERVED" /\ tick[k].intent = NoIntent
      BY <1>1, <1>8 DEF IInv, RunsInv, RunCoherent, RecordAudit, At, Owns, Owning, Undecided
    <2>2. PICK t : t = [tick[k] EXCEPT !.decision = "RECORDED"]
      OBVIOUS
    <2>3. tick' = [tick EXCEPT ![k] = t] /\ t.status = "RESERVED"
      BY <1>1, <1>2, <1>8, <2>1, <2>2 DEF Ticks, RecordAudit
    <2> QED BY <1>5, <2>1, <2>3
  <1>9. CASE CompleteTick(r)
    <2>1. tick[k].status = "RESERVED"
      BY <1>1, <1>9 DEF IInv, RunsInv, RunCoherent, CompleteTick, At, Owns, Owning
    <2>2. PICK t : t = Completed(r)
      OBVIOUS
    <2>3. t.status = "COMPLETED" /\ t.intent = tick[k].intent
      BY <1>1, <1>2, <2>2 DEF Completed, Ticks
    <2>4. UNCHANGED tick \/ tick' = [tick EXCEPT ![k] = t]
      BY <1>1, <1>9, <2>2 DEF CompleteTick
    <2> QED BY <1>3, <1>5, <2>1, <2>3, <2>4
  <1> QED BY <1>6, <1>7, <1>8, <1>9

LEMMA TickStep == IInv /\ [Next]_vars => TicksFinal
  <1> SUFFICES ASSUME IInv, [Next]_vars PROVE TicksFinal
    OBVIOUS
  <1>1. CASE UNCHANGED tick
    BY <1>1 DEF TicksFinal
  <1>2. CASE \E r \in Runs, actor \in Actors : Start(r, actor)
    BY <1>1, <1>2 DEF Start, rows
  <1>3. ASSUME NEW r \in Runs, Step(r) PROVE TicksFinal
    <2>1. CASE RecoverJob(r) \/ NothingDue(r) \/ PendingEntry(r) \/ RecoverLifecycle(r)
               \/ CheckLatch(r) \/ Acquire(r)
      BY <1>1, <2>1 DEF RecoverJob, NothingDue, PendingEntry, RecoverLifecycle, CheckLatch, Acquire, rows
    <2>2. CASE PrepareJob(r) \/ Preview(r) \/ Claim(r) \/ FirstWrite(r) \/ AlreadyTerminal(r)
      BY <1>1, <2>2 DEF PrepareJob, Preview, Claim, FirstWrite, AlreadyTerminal, rows
    <2>3. CASE StillPending(r) \/ AdvanceBlocked(r) \/ Materialize(r)
               \/ \E status \in Outcomes : Finalize(r, status)
      BY <1>1, <2>3 DEF StillPending, AdvanceBlocked, Finalize, Materialize, rows
    <2>4. CASE BeginTick(r) \/ RecordDecision(r) \/ RecordAudit(r) \/ CompleteTick(r)
      BY <2>4, TickWrite
    <2> QED BY <1>3, <2>1, <2>2, <2>3, <2>4 DEF Step
  <1>4. CASE SetAutonomousEnabled \/ NextBoundary \/ \E r \in Runs : Stop(r)
    BY <1>1, <1>4 DEF SetAutonomousEnabled, NextBoundary, Stop, rows
  <1>5. CASE \E i \in Intents : AuthorizationExpires(i) \/ ReleaseUnsubmittedClaim(i)
    BY <1>1, <1>5 DEF AuthorizationExpires, ReleaseUnsubmittedClaim
  <1>6. CASE UNCHANGED vars
    BY <1>1, <1>6 DEF vars, rows
  <1> QED BY <1>2, <1>3, <1>4, <1>5, <1>6 DEF Next

\* A completed tick never changes, and no tick loses its reservation or the intent it
\* approved: only the run that reserved a tick writes to it.
THEOREM TicksAreFinal == Spec => TickIsFinal
  <1>1. IInv /\ [Next]_vars =>
            [\A k \in Keys :
                /\ tick[k].status = "COMPLETED" => tick'[k] = tick[k]
                /\ tick[k].intent # NoIntent => tick'[k].intent = tick[k].intent
                /\ tick[k].status # "ABSENT" => tick'[k].status # "ABSENT"]_vars
    BY TickStep DEF TicksFinal
  <1> QED BY <1>1, Inductive, PTL DEF Spec, TickIsFinal
=============================================================================
