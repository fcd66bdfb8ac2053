--------------------------- MODULE RuntimeProofs ---------------------------
(***************************************************************************)
(* The runtime of the application and the halt stream that runs in it.     *)
(*                                                                         *)
(* NoUseAfterClose, ClosedOnce and NothingLeaks hold for any number of     *)
(* threads and of callers of aclose, and for any number of failed closes   *)
(* and of cancellations.  IInv ties the record of complete steps to the    *)
(* resources: once the startup has come through, a resource is closed      *)
(* exactly when its step is complete, and the session goes before what it  *)
(* uses.  The guard is CLEANING exactly while one task drains or cleans,   *)
(* and as long as no close failed and nobody was cancelled that is the     *)
(* first task.                                                             *)
(*                                                                         *)
(* OpenIsCurrent, HaltRemembered and StoppedIsNotOpen hold for every       *)
(* session, age, tolerance, skew and backoff, for any number of trades,    *)
(* epochs, events and timers.  StreamInv says of a snapshot that it is in  *)
(* the past, that it is valid unless it is latched, that an acknowledgment *)
(* belongs to the adapter's epoch, and that a halt that was delivered left *)
(* no older acknowledgment.  The exception for a latched snapshot is       *)
(* needed: a late trade makes one that the reducer refuses ever after      *)
(* (ValidPrevious does not hold of it).  RecoveryPending is proved of      *)
(* every stream; RInv says of the adapter what the property says of the    *)
(* variables, so that each of its methods has one lemma.                   *)
(***************************************************************************)
EXTENDS RuntimeLifecycle, HaltStream, FiniteSetTheorems, TLAPS

-----------------------------------------------------------------------------
(* The runtime *)

Early == {"persist", "construct", "compose", "wire", "enter", "undone"}

\* Before the runtime serves, and when the startup was undone, the cleanup machinery is idle.
Idle ==
    /\ guard = "OPEN" /\ ops = {} /\ drainer = Nobody /\ cleaner = Nobody
    /\ lock = Nobody

StartupInv ==
    /\ stage \in Early => Idle
    /\ stage \in {"persist", "construct", "compose", "wire"} =>
          "halt" \notin opened /\ \A r \in Resources : closes[r] = 0
    /\ stage \in {"enter", "serving"} => closes["halt"] = 0
    /\ stage = "undone" /\ failures = 0 => \A r \in opened : closes[r] = 1
    /\ stage \in {"stopping", "stopped"} /\ failures = 0 /\ "halt" \in opened => closes["halt"] = 1

\* The guard is CLEANING exactly while somebody drains or cleans.
GuardInv ==
    /\ guard = "CLEANING" <=> drainer # Nobody \/ cleaner # Nobody
    /\ drainer = Nobody \/ cleaner = Nobody
    /\ guard = "OPEN" => complete = {} /\ session.cleanup = "none" /\ task = "none"
    /\ guard = "CLOSED" => complete = Range(Steps)
    /\ ops # {} => complete = {} /\ (guard = "OPEN" \/ drainer # Nobody)

\* A step is complete exactly when its resource is closed; the session may be closed before
\* its step is, and is the first to be closed.
StepsInv ==
    /\ stage # "undone" =>
          /\ \A r \in Range(Steps) \ {"mcp"} : closes[r] = 1 <=> r \in complete
          /\ closes["mcp"] = 1 <=> session.closed
    /\ session.closed <=> session.cleanup = "done"
    /\ "mcp" \in complete => session.closed
    /\ complete # {} => "mcp" \in complete
    /\ lock = "call" => session.cleanup = "none"

\* As long as no close failed and nobody was cancelled there is one cleanup task only.
FirstTaskInv ==
    /\ task = "none" => ~ref /\ \A c \in Callers : awaits[c] = "none"
    /\ task = "done" => complete = Range(Steps)
    /\ session.cleanup = "failed" => failures > 0
    /\ failures = 0 /\ cancels = 0 =>
          /\ guard # "CLEANUP_FAILED" /\ task # "failed"
          /\ drainer # Nobody => task = "none"
          /\ \A c \in Callers : awaits[c] # "older"
          /\ stage = "stopped" => complete = Range(Steps)

IInv == TypeOK /\ StartupInv /\ GuardInv /\ StepsInv /\ FirstTaskInv

-----------------------------------------------------------------------------
(* The steps and the closes *)

\* The resources of the cleanup steps.
LEMMA StepNames ==
    Range(Steps) = {"persistence", "trading", "activities", "option_data", "stock_data", "model", "mcp"}
BY DEF Range, Steps

\* The clients of build_production_resources are resources of the cleanup steps.
LEMMA ClientIsAStep ==
    ASSUME NextClient > 0 PROVE Construction[NextClient] \in Range(Steps)
<1> DEFINE I == {i \in 1..6 : Construction[i] \notin opened}
<1>1. NextClient = IF I # {} THEN Min(I) ELSE 0
    BY DEF NextClient, SelectInSeq, Construction
<1>2. NextClient \in 1..6
  <2>1. I # {}
    BY <1>1
  <2>2. \E x \in I : \A y \in I : x =< y
    BY <2>1
  <2>3. Min(I) \in I
    BY <2>2 DEF Min
  <2> QED
    BY <1>1, <2>1, <2>3
<1> QED
    BY <1>2, StepNames DEF Construction

\* The cleanup is at a pending step, and the session is the first of them.
LEMMA StepIsPending ==
    ASSUME Pending # {}
    PROVE  Step \in Pending /\ ("mcp" \in Pending => Step = "mcp")
<1> DEFINE I == {i \in 1..7 : Steps[i] \in Pending}
<1>1. Len(Steps) = 7 /\ Steps[7] = "mcp"
    BY DEF Steps
<1>2. I # {}
    BY StepNames DEF Pending, Steps
<1>3. Step = Steps[Max(I)]
    BY <1>1, <1>2 DEF Step, SelectLastInSeq
<1>4. \E x \in I : \A y \in I : x >= y
    BY <1>2
<1>5. Max(I) \in I /\ \A y \in I : Max(I) >= y
    BY <1>4 DEF Max
<1>6. ASSUME "mcp" \in Pending PROVE Max(I) = 7
    BY <1>1, <1>5, <1>6
<1> QED
    BY <1>1, <1>3, <1>5, <1>6

\* What the closes of a set leave.
CloseAllPost(set, failing) ==
    /\ failures' \in 0..MaxFailures /\ failures' >= failures
    /\ closes' \in [Resources -> 0..1]
    /\ \A r \in Resources : r \notin set => closes'[r] = closes[r]
    /\ \A r \in set : r \notin failing => closes'[r] = 1
    /\ \A r \in failing : closes'[r] = 0
    /\ failing # {} => failures' > 0

\* CloseAll counts the closes that fail and closes the others once more.
LEMMA CloseAllFacts ==
    ASSUME TypeOK, NEW set \in SUBSET Resources, NEW failing, CloseAll(set, failing),
           \A r \in set : closes[r] = 0
    PROVE  CloseAllPost(set, failing)
<1>1. IsFiniteSet(Resources)
  <2>1. \A S, x : IsFiniteSet(S) => IsFiniteSet(S \cup {x})
    BY FS_AddElement
  <2>2. IsFiniteSet({} \cup {"persistence"} \cup {"trading"} \cup {"activities"} \cup {"option_data"}
                       \cup {"stock_data"} \cup {"model"} \cup {"mcp"} \cup {"halt"})
    BY <2>1, FS_EmptySet, Zenon
  <2>3. Resources = {} \cup {"persistence"} \cup {"trading"} \cup {"activities"} \cup {"option_data"}
                       \cup {"stock_data"} \cup {"model"} \cup {"mcp"} \cup {"halt"}
    BY StepNames DEF Resources
  <2> QED
    BY <2>2, <2>3
<1>2. failing \subseteq Resources /\ failing \subseteq set
    BY DEF CloseAll
<1>3. IsFiniteSet(failing) /\ Cardinality(failing) \in Nat
    BY <1>1, <1>2, FS_Subset, FS_CardinalityType
<1>4. failing # {} => Cardinality(failing) > 0
    BY <1>3, FS_EmptySet
<1> QED
    BY <1>2, <1>3, <1>4, BoundsAssumption DEF TypeOK, CloseAll, CloseAllPost

-----------------------------------------------------------------------------
(* Every step preserves the invariant *)

\* What the proofs use of the names of the resources.
LEMMA Names ==
    /\ Resources = Range(Steps) \cup {"halt"}
    /\ "mcp" \in Range(Steps) /\ "persistence" \in Range(Steps) /\ "trading" \in Range(Steps)
    /\ "halt" \notin Range(Steps)
BY StepNames DEF Resources

\* The engine is opened, or disposed of when a migration fails.
LEMMA OpenPersistenceInv ==
    ASSUME IInv, NEW fails \in BOOLEAN, OpenPersistence(fails) PROVE IInv'
<1> USE Names DEF IInv, TypeOK, StartupInv, GuardInv, StepsInv, FirstTaskInv, Early, Idle, Stages,
        OpenPersistence,
        built, fates, cleanup, mcp
<1>0. fails => CloseAllPost({"persistence"}, {})
    BY CloseAllFacts
<1> HIDE DEF CloseAll
<1>1. TypeOK'
    BY <1>0 DEF CloseAllPost
<1>2. StartupInv'
    BY <1>0 DEF CloseAllPost
<1>3. GuardInv'
    BY <1>0 DEF CloseAllPost
<1>4. StepsInv'
    BY <1>0 DEF CloseAllPost
<1>5. FirstTaskInv'
    BY <1>0 DEF CloseAllPost
<1> QED
    BY <1>1, <1>2, <1>3, <1>4, <1>5

\* A client is constructed.
LEMMA ConstructInv ==
    ASSUME IInv, Construct PROVE IInv'
<1> USE Names DEF IInv, TypeOK, StartupInv, GuardInv, StepsInv, FirstTaskInv, Early, Idle, Stages,
        Construct,
        built, fates, cleanup, mcp
<1>0. Construction[NextClient] \in Range(Steps)
    BY ClientIsAStep
<1>1. TypeOK'
    BY <1>0
<1>2. StartupInv'
    BY <1>0
<1>3. GuardInv'
    BY <1>0
<1>4. StepsInv'
    BY <1>0
<1>5. FirstTaskInv'
    BY <1>0
<1> QED
    BY <1>1, <1>2, <1>3, <1>4, <1>5

\* A failed startup closes what it opened.
LEMMA StartupFailsEarlyInv ==
    ASSUME IInv, NEW failing \in SUBSET opened, StartupFailsEarly(failing) PROVE IInv'
<1> USE Names DEF IInv, TypeOK, StartupInv, GuardInv, StepsInv, FirstTaskInv, Early, Idle, Stages,
        StartupFailsEarly, Undone,
        built, fates, cleanup, mcp
<1>0. CloseAllPost(opened, failing)
    BY CloseAllFacts
<1>1. TypeOK'
    BY <1>0 DEF CloseAllPost
<1>2. StartupInv'
    BY <1>0 DEF CloseAllPost
<1>3. GuardInv'
    BY <1>0 DEF CloseAllPost
<1>4. StepsInv'
    BY <1>0 DEF CloseAllPost
<1>5. FirstTaskInv'
    BY <1>0 DEF CloseAllPost
<1> QED
    BY <1>1, <1>2, <1>3, <1>4, <1>5

\* The runtime is composed.
LEMMA ComposeInv ==
    ASSUME IInv, Compose PROVE IInv'
<1> USE Names DEF IInv, TypeOK, StartupInv, GuardInv, StepsInv, FirstTaskInv, Early, Idle, Stages,
        Compose,
        built, fates, cleanup, mcp
<1>1. TypeOK'
    OBVIOUS
<1>2. StartupInv'
    OBVIOUS
<1>3. GuardInv'
    OBVIOUS
<1>4. StepsInv'
    OBVIOUS
<1>5. FirstTaskInv'
    OBVIOUS
<1> QED
    BY <1>1, <1>2, <1>3, <1>4, <1>5

\* The halt stream is started.
LEMMA WireInv ==
    ASSUME IInv, NEW with_halt \in BOOLEAN, Wire(with_halt) PROVE IInv'
<1> USE Names DEF IInv, TypeOK, StartupInv, GuardInv, StepsInv, FirstTaskInv, Early, Idle, Stages,
        Wire,
        built, fates, cleanup, mcp
<1>1. TypeOK'
    OBVIOUS
<1>2. StartupInv'
    OBVIOUS
<1>3. GuardInv'
    OBVIOUS
<1>4. StepsInv'
    OBVIOUS
<1>5. FirstTaskInv'
    OBVIOUS
<1> QED
    BY <1>1, <1>2, <1>3, <1>4, <1>5

\* The wiring fails and stops the halt stream it started.
LEMMA WireFailsInv ==
    ASSUME IInv, NEW with_halt \in SUBSET {"halt"}, NEW failing \in SUBSET {"halt"}, WireFails(with_halt, failing) PROVE IInv'
<1> USE Names DEF IInv, TypeOK, StartupInv, GuardInv, StepsInv, FirstTaskInv, Early, Idle, Stages,
        WireFails,
        built, fates, cleanup, mcp
<1>0. CloseAllPost(with_halt, failing)
  <2>1. with_halt \in SUBSET Resources /\ \A r \in with_halt : closes[r] = 0
    OBVIOUS
  <2> QED
    BY <2>1, CloseAllFacts
<1>1. TypeOK'
    BY <1>0 DEF CloseAllPost
<1>2. StartupInv'
    BY <1>0 DEF CloseAllPost
<1>3. GuardInv'
    BY <1>0 DEF CloseAllPost
<1>4. StepsInv'
  <2>1. \A r \in Range(Steps) : r \notin with_halt /\ r \in Resources /\ closes[r] = 0
    OBVIOUS
  <2>2. \A r \in Range(Steps) : closes'[r] = 0
    BY <1>0, <2>1 DEF CloseAllPost
  <2> QED
    BY <2>2
<1>5. FirstTaskInv'
    BY <1>0 DEF CloseAllPost
<1> QED
    BY <1>1, <1>2, <1>3, <1>4, <1>5

\* The session is entered, or the runtime has no use for it.
LEMMA EnterInv ==
    ASSUME IInv, NEW researching \in BOOLEAN, Enter(researching) PROVE IInv'
<1> USE Names DEF IInv, TypeOK, StartupInv, GuardInv, StepsInv, FirstTaskInv, Early, Idle, Stages,
        Enter,
        built, fates, cleanup, mcp
<1>1. TypeOK'
    OBVIOUS
<1>2. StartupInv'
    OBVIOUS
<1>3. GuardInv'
    OBVIOUS
<1>4. StepsInv'
    OBVIOUS
<1>5. FirstTaskInv'
    OBVIOUS
<1> QED
    BY <1>1, <1>2, <1>3, <1>4, <1>5

\* The halt stream is stopped.
LEMMA StopHaltInv ==
    ASSUME IInv, NEW failing \in SUBSET {"halt"}, StopHalt(failing) PROVE IInv'
<1> USE Names DEF IInv, TypeOK, StartupInv, GuardInv, StepsInv, FirstTaskInv, Early, Idle, Stages,
        StopHalt,
        built, fates, cleanup, mcp
<1>0. CloseAllPost(opened \cap {"halt"}, failing)
    BY CloseAllFacts
<1>1. TypeOK'
    BY <1>0 DEF CloseAllPost
<1>2. StartupInv'
    BY <1>0 DEF CloseAllPost
<1>3. GuardInv'
    BY <1>0 DEF CloseAllPost
<1>4. StepsInv'
    BY <1>0 DEF CloseAllPost
<1>5. FirstTaskInv'
    BY <1>0 DEF CloseAllPost
<1> QED
    BY <1>1, <1>2, <1>3, <1>4, <1>5

\* A thread begins or ends an operation.
LEMMA OperationInv ==
    ASSUME IInv, NEW t \in Threads, StartOperation(t) \/ EndOperation(t) PROVE IInv'
<1> USE Names DEF IInv, TypeOK, StartupInv, GuardInv, StepsInv, FirstTaskInv, Early, Idle, Stages,
        StartOperation, EndOperation,
        built, fates, cleanup, mcp
<1>1. TypeOK'
    OBVIOUS
<1>2. StartupInv'
    OBVIOUS
<1>3. GuardInv'
    OBVIOUS
<1>4. StepsInv'
    OBVIOUS
<1>5. FirstTaskInv'
    OBVIOUS
<1> QED
    BY <1>1, <1>2, <1>3, <1>4, <1>5

\* An MCP call begins or ends.
LEMMA CallInv ==
    ASSUME IInv, StartCall \/ EndCall PROVE IInv'
<1> USE Names DEF IInv, TypeOK, StartupInv, GuardInv, StepsInv, FirstTaskInv, Early, Idle, Stages,
        StartCall, EndCall, MayCall,
        built, fates, cleanup, mcp
<1>1. TypeOK'
    BY ActorsAssumption
<1>2. StartupInv'
    BY ActorsAssumption
<1>3. GuardInv'
    BY ActorsAssumption
<1>4. StepsInv'
    BY ActorsAssumption
<1>5. FirstTaskInv'
    BY ActorsAssumption
<1> QED
    BY <1>1, <1>2, <1>3, <1>4, <1>5

\* A thread begins a cleanup.
LEMMA CloseInv ==
    ASSUME IInv, NEW t \in Threads, Close(t) PROVE IInv'
<1> USE Names DEF IInv, TypeOK, StartupInv, GuardInv, StepsInv, FirstTaskInv, Early, Idle, Stages,
        Close, Composed,
        built, fates, cleanup, mcp
<1>1. TypeOK'
    BY ActorsAssumption
<1>2. StartupInv'
    BY ActorsAssumption
<1>3. GuardInv'
    BY ActorsAssumption
<1>4. StepsInv'
    BY ActorsAssumption
<1>5. FirstTaskInv'
    BY ActorsAssumption
<1> QED
    BY <1>1, <1>2, <1>3, <1>4, <1>5

\* A caller begins a cleanup or joins one.
LEMMA AcloseInv ==
    ASSUME IInv, NEW c \in Callers, Aclose(c) PROVE IInv'
<1> USE Names DEF IInv, TypeOK, StartupInv, GuardInv, StepsInv, FirstTaskInv, Early, Idle, Stages,
        Aclose,
        built, fates, cleanup, mcp
<1>1. TypeOK'
    BY ActorsAssumption
<1>2. StartupInv'
    BY ActorsAssumption
<1>3. GuardInv'
    BY ActorsAssumption
<1>4. StepsInv'
    BY ActorsAssumption
<1>5. FirstTaskInv'
    BY ActorsAssumption
<1> QED
    BY <1>1, <1>2, <1>3, <1>4, <1>5

\* A caller of aclose is cancelled.
LEMMA CancelCallerInv ==
    ASSUME IInv, NEW c \in Callers, CancelCaller(c) PROVE IInv'
<1> USE Names DEF IInv, TypeOK, StartupInv, GuardInv, StepsInv, FirstTaskInv, Early, Idle, Stages,
        CancelCaller,
        built, fates, cleanup, mcp
<1>0. /\ cancels' \in 0..MaxCancels /\ cancels' > 0
      /\ awaits' \in [Callers -> {"none", "latest", "older"}]
      /\ \A d \in Callers : awaits'[d] \in {"none", awaits[d]}
    BY BoundsAssumption
<1>1. TypeOK'
    BY <1>0
<1>2. StartupInv' /\ GuardInv' /\ StepsInv'
    OBVIOUS
<1>3. FirstTaskInv'
    BY <1>0
<1> QED
    BY <1>1, <1>2, <1>3

\* A caller of aclose returns: without a failure or a cancellation every step is complete.
LEMMA AcloseReturnsInv ==
    ASSUME IInv, NEW c \in Callers, AcloseReturns(c) PROVE IInv'
<1> USE Names DEF IInv, TypeOK, StartupInv, GuardInv, StepsInv, FirstTaskInv, Early, Idle, Stages,
        AcloseReturns,
        built, fates, cleanup, mcp
<1>a. ref' = ref \/ ref' = FALSE
    BY Zenon
<1>b. ref' \in BOOLEAN /\ (ref' => ref)
    BY <1>a, Zenon
<1>0. /\ awaits' \in [Callers -> {"none", "latest", "older"}]
      /\ \A d \in Callers : awaits'[d] \in {"none", awaits[d]}
      /\ stage' = stage \/ (stage = "stopping" /\ stage' = "stopped")
    OBVIOUS
<1>c. UNCHANGED <<opened, fates, ops, guard, drainer, cleaner, complete, task, mcp>>
    OBVIOUS
<1>1. TypeOK'
  <2> HIDE DEF AcloseReturns, StartupInv, GuardInv, StepsInv, FirstTaskInv
  <2> QED
    BY <1>0, <1>b, <1>c
<1>2. StartupInv'
    BY <1>0
<1>3. GuardInv'
    OBVIOUS
<1>4. StepsInv'
    BY <1>0
<1>5. FirstTaskInv'
  <2>1. ASSUME failures = 0, cancels = 0 PROVE complete = Range(Steps)
    BY <2>1
  <2> QED
    BY <1>0, <1>b, <2>1
<1> QED
    BY <1>1, <1>2, <1>3, <1>4, <1>5

\* The operations have drained.
LEMMA BeginCleanupInv ==
    ASSUME IInv, BeginCleanup PROVE IInv'
<1> USE Names DEF IInv, TypeOK, StartupInv, GuardInv, StepsInv, FirstTaskInv, Early, Idle, Stages,
        BeginCleanup, Drained,
        built, fates, cleanup, mcp
<1>1. TypeOK'
  <2>1. awaits' \in [Callers -> {"none", "latest", "older"}]
    OBVIOUS
  <2>2. cleaner' \in Threads \cup {"task", Nobody}
    OBVIOUS
  <2> QED
    BY <2>1, <2>2, ZenonT(60)
<1>2. StartupInv'
    BY ActorsAssumption
<1>3. GuardInv'
    BY ActorsAssumption
<1>4. StepsInv'
    BY ActorsAssumption
<1>5. FirstTaskInv'
    BY ActorsAssumption
<1> QED
    BY <1>1, <1>2, <1>3, <1>4, <1>5

\* A synchronous step closes its resource or fails.
LEMMA CloseStepInv ==
    ASSUME IInv, NEW fails \in BOOLEAN, CloseStep(fails) PROVE IInv'
<1> USE Names DEF IInv, TypeOK, StartupInv, GuardInv, StepsInv, FirstTaskInv, Early, Idle, Stages,
        CloseStep, CleanupFails, AfterFailure,
        built, fates, cleanup, mcp
<1>a. /\ Step \in Range(Steps) /\ Step \notin complete /\ Step # "mcp" /\ "mcp" \in complete
      /\ stage \notin Early /\ cleaner # Nobody
    BY StepIsPending, ActorsAssumption DEF Pending
<1>0. CloseAllPost({Step}, IF fails THEN {Step} ELSE {})
  <2>1. closes[Step] = 0
    BY <1>a
  <2> QED
    BY <1>a, <2>1, CloseAllFacts
<1>1. TypeOK'
    BY <1>a, <1>0 DEF CloseAllPost
<1>2. StartupInv'
    BY <1>a, <1>0 DEF CloseAllPost
<1>3. GuardInv'
    BY <1>a, <1>0 DEF CloseAllPost
<1>4. StepsInv'
    BY <1>a, <1>0 DEF CloseAllPost
<1>5. FirstTaskInv'
    BY <1>a, <1>0 DEF CloseAllPost
<1> QED
    BY <1>1, <1>2, <1>3, <1>4, <1>5

\* The cleanup task of the session ends.
LEMMA McpCleanupInv ==
    ASSUME IInv, NEW fails \in BOOLEAN, McpCleanup(fails) PROVE IInv'
<1> USE Names DEF IInv, TypeOK, StartupInv, GuardInv, StepsInv, FirstTaskInv, Early, Idle, Stages,
        McpCleanup,
        built, fates, cleanup, mcp
<1>0. CloseAllPost({"mcp"}, IF fails THEN {"mcp"} ELSE {})
  <2>1. stage \notin Early /\ closes["mcp"] = 0
    OBVIOUS
  <2> QED
    BY <2>1, CloseAllFacts
<1>1. TypeOK'
    BY <1>0, ActorsAssumption DEF CloseAllPost
<1>2. StartupInv'
    BY <1>0, ActorsAssumption DEF CloseAllPost
<1>3. GuardInv'
    BY <1>0, ActorsAssumption DEF CloseAllPost
<1>4. StepsInv'
    BY <1>0, ActorsAssumption DEF CloseAllPost
<1>5. FirstTaskInv'
    BY <1>0, ActorsAssumption DEF CloseAllPost
<1> QED
    BY <1>1, <1>2, <1>3, <1>4, <1>5

\* Every step is complete.
LEMMA CleanupEndsInv ==
    ASSUME IInv, CleanupEnds PROVE IInv'
<1> USE Names DEF IInv, TypeOK, StartupInv, GuardInv, StepsInv, FirstTaskInv, Early, Idle, Stages,
        CleanupEnds, Pending,
        built, fates, cleanup, mcp
<1>1. TypeOK'
    OBVIOUS
<1>2. StartupInv'
    OBVIOUS
<1>3. GuardInv'
    OBVIOUS
<1>4. StepsInv'
    OBVIOUS
<1>5. FirstTaskInv'
    OBVIOUS
<1> QED
    BY <1>1, <1>2, <1>3, <1>4, <1>5

\* The cleanup reaches the session.
LEMMA McpAcloseInv ==
    ASSUME IInv, McpAclose PROVE IInv'
<1> USE Names DEF IInv, TypeOK, StartupInv, GuardInv, StepsInv, FirstTaskInv, Early, Idle, Stages,
        McpAclose,
        built, fates, cleanup, mcp
<1>0. /\ session' \in [entered : BOOLEAN, closed : BOOLEAN, closing : BOOLEAN,
                       cleanup : {"none", "running", "failed", "done"}]
      /\ session'.closed = session.closed
      /\ \/ session'.cleanup = session.cleanup
         \/ session'.cleanup = "running" /\ session.cleanup = "none"
      /\ complete' = complete \/ (complete' = complete \cup {"mcp"} /\ session.closed)
  <2>1. CASE session.closed
    BY <2>1
  <2>2. CASE ~session.closed /\ session.cleanup = "none"
    <3>1. /\ session' = [session EXCEPT !.closing = TRUE, !.cleanup = "running"]
          /\ complete' = complete
      BY <2>2
    <3> HIDE DEF McpAclose
    <3> QED
      BY <2>2, <3>1
  <2>3. CASE ~session.closed /\ session.cleanup # "none"
    BY <2>3
  <2> QED
    BY <2>1, <2>2, <2>3
<1>1. TypeOK'
    BY <1>0
<1>2. StartupInv'
    BY ActorsAssumption
<1>3. GuardInv'
    BY ActorsAssumption
<1>4. StepsInv'
    BY <1>0, ActorsAssumption
<1>5. FirstTaskInv'
    BY <1>0, SMTT(90)
<1> QED
    BY <1>1, <1>2, <1>3, <1>4, <1>5

\* The session has closed, or its close has failed.
LEMMA McpCleanupEndsInv ==
    ASSUME IInv, McpCleanupEnds PROVE IInv'
<1> USE Names DEF IInv, TypeOK, StartupInv, GuardInv, StepsInv, FirstTaskInv, Early, Idle, Stages,
        McpCleanupEnds, CleanupFails, AfterFailure, Forget,
        built, fates, cleanup, mcp
<1>1. TypeOK'
    BY ActorsAssumption, ZenonT(60)
<1>2. StartupInv'
    BY ActorsAssumption
<1>3. GuardInv'
    BY ActorsAssumption
<1>4. StepsInv'
    BY ActorsAssumption
<1>5. FirstTaskInv'
    BY ActorsAssumption
<1> QED
    BY <1>1, <1>2, <1>3, <1>4, <1>5

\* The cleanup task is cancelled.
LEMMA CancelTaskInv ==
    ASSUME IInv, CancelTask PROVE IInv'
<1> USE Names DEF IInv, TypeOK, StartupInv, GuardInv, StepsInv, FirstTaskInv, Early, Idle, Stages,
        CancelTask, CleanupFails, AfterFailure, Forget,
        built, fates, cleanup, mcp
<1>1. TypeOK'
  <2>1. session' \in [entered : BOOLEAN, closed : BOOLEAN, closing : BOOLEAN,
                      cleanup : {"none", "running", "failed", "done"}]
    OBVIOUS
  <2> QED
    BY <2>1, BoundsAssumption
<1>2. StartupInv'
    BY ActorsAssumption, BoundsAssumption
<1>3. GuardInv'
    BY ActorsAssumption, BoundsAssumption
<1>4. StepsInv'
    BY ActorsAssumption, BoundsAssumption
<1>5. FirstTaskInv'
    BY ActorsAssumption, BoundsAssumption
<1> QED
    BY <1>1, <1>2, <1>3, <1>4, <1>5

\* A step that changes nothing preserves the invariant.
LEMMA StutterInv ==
    ASSUME IInv, UNCHANGED vars PROVE IInv'
BY DEF IInv, TypeOK, StartupInv, GuardInv, StepsInv, FirstTaskInv, Idle, vars, built, fates, cleanup,
       mcp

\* Every step of the runtime preserves the invariant.
LEMMA NextInv ==
    ASSUME IInv, [Next]_vars PROVE IInv'
BY OpenPersistenceInv, ConstructInv, StartupFailsEarlyInv, ComposeInv, WireInv, WireFailsInv,
   EnterInv, StopHaltInv, OperationInv, CallInv, CloseInv, AcloseInv, CancelCallerInv,
   AcloseReturnsInv, BeginCleanupInv, CloseStepInv, McpCleanupInv, CleanupEndsInv, McpAcloseInv,
   McpCleanupEndsInv, CancelTaskInv, StutterInv
   DEF Next

-----------------------------------------------------------------------------
(* Theorems *)

\* Whatever fails, is cancelled and is retried, the runtime stays in the invariant: a step is
\* complete exactly when its resource is closed, and operations find nothing closed.
THEOREM RuntimeInvariant == Spec => []IInv
<1>1. Init => IInv
  <2> SUFFICES ASSUME Init PROVE IInv
    OBVIOUS
  <2> USE Names DEF Init
  <2>1. TypeOK
    <3>1. session \in [entered : BOOLEAN, closed : BOOLEAN, closing : BOOLEAN,
                       cleanup : {"none", "running", "failed", "done"}]
      OBVIOUS
    <3>2. closes \in [Resources -> 0..1] /\ awaits \in [Callers -> {"none", "latest", "older"}]
      OBVIOUS
    <3>3. failures \in 0..MaxFailures /\ cancels \in 0..MaxCancels
      BY BoundsAssumption
    <3>4. ref \in BOOLEAN
      OBVIOUS
    <3> QED
      BY <3>1, <3>2, <3>3, <3>4 DEF TypeOK, Stages
  <2>2. StartupInv
    BY DEF StartupInv, Idle
  <2>3. GuardInv /\ StepsInv
    BY ActorsAssumption DEF GuardInv, StepsInv
  <2>4. FirstTaskInv
    BY DEF FirstTaskInv
  <2> QED
    BY <2>1, <2>2, <2>3, <2>4 DEF IInv
<1>2. IInv /\ [Next]_vars => IInv'
    BY NextInv
<1> QED
    BY <1>1, <1>2, PTL DEF Spec

\* The state of the guard, the steps, the tasks and the session keeps its type.
THEOREM RuntimeTypes == Spec => []TypeOK
<1>1. IInv => TypeOK
    BY DEF IInv
<1> QED
    BY <1>1, RuntimeInvariant, PTL

\* No operation and no MCP call that is under way finds a resource it uses closed
\* (_RuntimeGuard.begin_cleanup, RuntimeMCPResearch.aclose).
THEOREM NoUseAfterCloseHolds == Spec => []NoUseAfterClose
<1>1. IInv => NoUseAfterClose
  <2> SUFFICES ASSUME IInv PROVE NoUseAfterClose
    OBVIOUS
  <2> USE Names DEF IInv, TypeOK, StartupInv, GuardInv, StepsInv
  <2>1. ASSUME ops # {} PROVE \A r \in Range(Steps) \ {"mcp"} : closes[r] = 0
    BY <2>1 DEF Early, Idle
  <2>2. ASSUME lock = "call" PROVE closes["mcp"] = 0 /\ closes["trading"] = 0
    BY <2>2, StepNames, ActorsAssumption DEF Early, Idle
  <2> QED
    BY <2>1, <2>2 DEF NoUseAfterClose
<1> QED
    BY <1>1, RuntimeInvariant, PTL

\* No resource is closed twice over all the retries, and CLOSED is said only when every step
\* has closed its resource (_CleanupStep.complete, _RuntimeGuard.finish_cleanup).
THEOREM ClosedOnceHolds == Spec => []ClosedOnce
<1>1. IInv => ClosedOnce
    BY Names DEF IInv, TypeOK, StartupInv, GuardInv, StepsInv, Early, Idle, ClosedOnce
<1> QED
    BY <1>1, RuntimeInvariant, PTL

\* A startup that fails, and a runtime that has stopped, has closed all it opened, unless a
\* close failed (_close_partial, _close_runtime_startup, ProductionAgent.aclose).
THEOREM NothingLeaksHolds == Spec => []NothingLeaks
<1>1. IInv => NothingLeaks
    BY Names DEF IInv, TypeOK, StartupInv, GuardInv, StepsInv, FirstTaskInv, NothingLeaks
<1> QED
    BY <1>1, RuntimeInvariant, PTL

-----------------------------------------------------------------------------
(* The halt stream *)

Events == [kind : {"EPOCH_ACK", "FAILURE", "TRADING_STATUS", "TRADE"}, epoch : Nat, sequence : Nat,
           event_at : Nat, received_at : Nat, code : Codes]
Timers == {"none", "armed", "fired"}
Adapters == [snapshot : Snapshots, epoch : Times, sequence : Nat, born : {"early", "inside"},
             due : Times, timer : Timers, loose : Nat]
Heard == [code : Codes \cup {"NONE"}, at : Nat]

\* A snapshot at time t: nothing in it is later, it is valid unless it is latched, and an
\* open one rests on a fresh trade.
Sound(s, t) ==
    /\ s.observed_at <= t + ReadLead
    /\ s.acknowledged_at <= t /\ s.last_event_at <= t
    /\ s.last_trade_at <= t /\ s.halt_latched_at <= t
    /\ s.state # "HALTED_LATCHED" => ValidPrevious(s)
    /\ s.state = "OPEN_CONFIRMED" => s.observed_at - s.last_trade_at <= MaxAge

\* An acknowledged epoch is the one the adapter is in.
Current(s, ep, sq) == s.acknowledged_at # None => ep # None /\ s.epoch = ep /\ sq > 0

\* An epoch that may open the symbol was acknowledged after the halt that was heard last.
Remembers(s, h) ==
    h.code = "HALT" /\ s.acknowledged_at # None /\ s.state # "HALTED_LATCHED"
        => h.at <= s.acknowledged_at

Good(a, t, h) ==
    /\ a \in Adapters
    /\ Sound(a.snapshot, t)
    /\ Current(a.snapshot, a.epoch, a.sequence)
    /\ Remembers(a.snapshot, h)

\* The type invariant without the adapter's fields
RestOK ==
    /\ now \in Nat /\ heard \in Heard
    /\ seen \subseteq Trades
    /\ thread \in {"none", "running", "dead"} /\ started \in BOOLEAN
    /\ startup \in {"pending", "ready", "failed"}
    /\ stopping \in BOOLEAN /\ closed \in BOOLEAN
    /\ owner \in {"new", "launched", "waiting", "serving", "failed", "joining", "stopped"}
    /\ connected \in BOOLEAN /\ acks \in Nat /\ calls \in Nat

StreamInv == StreamTypeOK /\ Good(Adapter, now, heard) /\ heard.at <= now /\ StoppedIsNotOpen

USE DEF None

-----------------------------------------------------------------------------
(* The reducer *)

\* The reducer returns a snapshot.
LEMMA ReduceType ==
    ASSUME NEW s \in Snapshots, NEW e \in Events PROVE Reduce(s, e) \in Snapshots
<1> USE DEF Snapshots, Events, Times, States
<1>1. SessionClosed(s, e.received_at) \in Snapshots
    BY DEF SessionClosed
<1>2. FailClosed(s, e.received_at) \in Snapshots
    BY ZenonT(60) DEF FailClosed, Latched, HALTED
<1>3. AcknowledgeEpoch(s, e) \in Snapshots
    BY <1>2, ZenonT(60) DEF AcknowledgeEpoch, Latched, HALTED
<1>4. FailureEvent(s, e) \in Snapshots
    BY DEF FailureEvent, Latched, HALTED
<1>5. StatusEvent(s, e) \in Snapshots
    BY <1>2, ZenonT(60) DEF StatusEvent, Accept, Codes
<1>6. TradeEvent(s, e) \in Snapshots
  <2>1. ASSUME NEW st \in States, NEW h \in Times
        PROVE  [Accept(s, e, st) EXCEPT !.last_trade_at = e.event_at, !.halt_latched_at = h] \in Snapshots
    BY DEF Accept
  <2>2. Accept(s, e, s.state).halt_latched_at = s.halt_latched_at /\ s.halt_latched_at \in Times
    BY DEF Accept
  <2>3. None \in Times /\ s.state \in States /\ "OPEN_CONFIRMED" \in States
    OBVIOUS
  <2> HIDE DEF Snapshots, Times, States
  <2> QED
    BY <1>2, <2>1, <2>2, <2>3 DEF TradeEvent
<1>7. e.kind \in {"EPOCH_ACK", "FAILURE", "TRADING_STATUS", "TRADE"}
    OBVIOUS
<1> HIDE DEF Snapshots, Events
<1> QED
    BY <1>1, <1>2, <1>3, <1>4, <1>5, <1>6, <1>7 DEF Reduce

\* A snapshot that the reducer accepts leads to a sound one, whatever the event.
LEMMA ReduceSound ==
    ASSUME NEW s \in Snapshots, NEW e \in Events, Sound(s, e.received_at), ValidPrevious(s),
           e.kind = "EPOCH_ACK" => e.event_at = e.received_at
    PROVE  Sound(Reduce(s, e), e.received_at)
<1> DEFINE t == e.received_at
<1> USE HaltAuthorityAssumption, HaltStreamAssumption
        DEF Snapshots, Events, Times, States, HALTED, Codes, Latched, Sound, ValidPrevious,
            ActiveEpochValid, ChronologyValid, StateValid
<1>1. Sound(SessionClosed(s, t), t)
    BY DEF SessionClosed
<1>2. Sound(FailClosed(s, t), t)
    BY DEF FailClosed
<1>3. ASSUME e.event_at = t PROVE Sound(AcknowledgeEpoch(s, e), t)
    BY <1>2, <1>3 DEF AcknowledgeEpoch
<1>4. ASSUME s.acknowledged_at # None, e.event_at <= t, e.sequence = s.last_sequence + 1,
             ChronologyAcceptable(s, e)
      PROVE  /\ e.kind = "FAILURE" => Sound(FailureEvent(s, e), t)
             /\ e.kind = "TRADING_STATUS" => Sound(StatusEvent(s, e), t)
             /\ e.kind = "TRADE" => Sound(TradeEvent(s, e), t)
  <2>1. ASSUME e.kind = "FAILURE" PROVE Sound(FailureEvent(s, e), t)
    BY <1>4, <2>1 DEF FailureEvent, ChronologyAcceptable
  <2>2. ASSUME e.kind = "TRADING_STATUS" PROVE Sound(StatusEvent(s, e), t)
    BY <1>2, <1>4, <2>2 DEF StatusEvent, Accept, ChronologyAcceptable
  <2>3. ASSUME e.kind = "TRADE" PROVE Sound(TradeEvent(s, e), t)
    BY <1>2, <1>4, <2>3 DEF TradeEvent, TradeCounts, Accept, ChronologyAcceptable
  <2> QED
    BY <2>1, <2>2, <2>3
<1> HIDE DEF Sound, ValidPrevious
<1> QED
    BY <1>1, <1>2, <1>3, <1>4 DEF Reduce

\* Only an event of the epoch itself leaves it acknowledged.
LEMMA ReduceEpoch ==
    ASSUME NEW s \in Snapshots, NEW e \in Events, Reduce(s, e).acknowledged_at # None
    PROVE  Reduce(s, e).epoch = e.epoch
BY DEF Snapshots, Events, Times, States, HALTED, Codes, Reduce, SessionClosed, FailClosed, Latched,
       AcknowledgeEpoch, FailureEvent, StatusEvent, TradeEvent, Accept

\* A failure of the stream ends the epoch and leaves nothing open.
LEMMA ReduceFailure ==
    ASSUME NEW s \in Snapshots, NEW e \in Events, e.kind = "FAILURE"
    PROVE  /\ Reduce(s, e).acknowledged_at = None
           /\ Reduce(s, e).state # "OPEN_CONFIRMED"
BY DEF Snapshots, Events, Times, States, HALTED, Codes, Reduce, SessionClosed, FailClosed, Latched,
       FailureEvent

\* A halt latches or, if it is rejected, ends the epoch.
LEMMA ReduceHalt ==
    ASSUME NEW s \in Snapshots, NEW e \in Events, e.kind = "TRADING_STATUS", e.code = "HALT"
    PROVE  Reduce(s, e).acknowledged_at = None \/ Reduce(s, e).state = "HALTED_LATCHED"
BY DEF Snapshots, Events, Times, States, HALTED, Codes, Reduce, SessionClosed, FailClosed, Latched,
       StatusEvent, Accept

\* What is not a status leaves the last halt remembered.
LEMMA ReduceRemembers ==
    ASSUME NEW s \in Snapshots, NEW e \in Events, NEW h \in Heard, Remembers(s, h),
           h.at <= e.received_at, e.kind # "TRADING_STATUS",
           e.kind = "EPOCH_ACK" => e.event_at = e.received_at
    PROVE  Remembers(Reduce(s, e), h)
BY DEF Snapshots, Events, Times, States, HALTED, Codes, Heard, Remembers, Reduce, SessionClosed,
       FailClosed, Latched, AcknowledgeEpoch, FailureEvent, TradeEvent, Accept

\* A read keeps a snapshot sound and remembers what it remembered; it never opens.
LEMMA ReadSound ==
    ASSUME NEW s \in Snapshots, NEW t \in Nat, NEW r \in t..(t + ReadLead), NEW h \in Heard,
           Sound(s, t), ValidPrevious(s), Remembers(s, h)
    PROVE  /\ Read(s, r) \in Snapshots
           /\ Sound(Read(s, r), t)
           /\ ValidPrevious(Read(s, r))
           /\ Remembers(Read(s, r), h)
           /\ Read(s, r).acknowledged_at \in {s.acknowledged_at, None}
           /\ Read(s, r).epoch = s.epoch
           /\ s.state # "OPEN_CONFIRMED" => Read(s, r).state # "OPEN_CONFIRMED"
<1> USE HaltAuthorityAssumption, HaltStreamAssumption
        DEF Snapshots, Times, States, HALTED, Heard, Sound, ValidPrevious, ActiveEpochValid,
            ChronologyValid, StateValid, Remembers
<1>0. PICK at \in Nat : /\ at = IF r > s.observed_at THEN r ELSE s.observed_at
                       /\ at <= t + ReadLead /\ at >= s.observed_at
    OBVIOUS
<1> DEFINE q == Read(s, r)
           Fresh == s.state = "OPEN_CONFIRMED" /\ at - s.last_trade_at <= MaxAge
<1>1. CASE ~InsideSession(at)
  <2>1. q = SessionClosed(s, at)
    BY <1>0, <1>1 DEF Read
  <2>2. q \in Snapshots
    <3> HIDE DEF Sound, ValidPrevious, Remembers
    <3>1. SessionClosed(s, at) \in Snapshots
      BY <1>0, ZenonT(60) DEF SessionClosed
    <3> QED
      BY <2>1, <3>1
  <2>3. /\ q.state = "UNKNOWN" /\ q.acknowledged_at = None /\ q.last_sequence = 0
        /\ q.halt_latched_at = None /\ q.observed_at = at /\ q.epoch = s.epoch
        /\ q.last_event_at = s.last_event_at /\ q.last_trade_at = s.last_trade_at
    BY <2>1 DEF SessionClosed
  <2> HIDE DEF q
  <2> QED
    BY <1>0, <2>2, <2>3 DEF q
<1>2. CASE InsideSession(at) /\ (s.state \in HALTED \/ Fresh)
  <2>1. q = [s EXCEPT !.observed_at = at]
    BY <1>0, <1>2 DEF Read
  <2>2. q \in Snapshots
    BY <1>0, <2>1
  <2>3. /\ q.state = s.state /\ q.acknowledged_at = s.acknowledged_at
        /\ q.last_sequence = s.last_sequence /\ q.halt_latched_at = s.halt_latched_at
        /\ q.observed_at = at /\ q.epoch = s.epoch
        /\ q.last_event_at = s.last_event_at /\ q.last_trade_at = s.last_trade_at
    BY <2>1
  <2> HIDE DEF q
  <2> QED
    BY <1>0, <1>2, <2>2, <2>3 DEF q
<1>3. CASE InsideSession(at) /\ s.state \notin HALTED /\ ~Fresh
  <2>1. q = [s EXCEPT !.state = "UNKNOWN", !.observed_at = at]
    BY <1>0, <1>3 DEF Read
  <2>2. q \in Snapshots
    BY <1>0, <2>1
  <2>3. /\ q.state = "UNKNOWN" /\ q.acknowledged_at = s.acknowledged_at
        /\ q.last_sequence = s.last_sequence /\ q.halt_latched_at = s.halt_latched_at
        /\ q.observed_at = at /\ q.epoch = s.epoch
        /\ q.last_event_at = s.last_event_at /\ q.last_trade_at = s.last_trade_at
    BY <2>1
  <2> HIDE DEF q
  <2> QED
    BY <1>0, <1>3, <2>2, <2>3 DEF q
<1> QED
    BY <1>1, <1>2, <1>3

-----------------------------------------------------------------------------
(* The adapter's methods *)

\* Timers leave the authority alone.
LEMMA CancelKeeps ==
    ASSUME NEW a \in Adapters
    PROVE  /\ CancelRecovery(a) \in Adapters
           /\ CancelRecovery(a).snapshot = a.snapshot
           /\ CancelRecovery(a).epoch = a.epoch
           /\ CancelRecovery(a).sequence = a.sequence
           /\ CancelRecovery(a).born = a.born
<1>1. ASSUME NEW l \in Nat
      PROVE  /\ [a EXCEPT !.timer = "none", !.due = None, !.loose = l] \in Adapters
             /\ [a EXCEPT !.timer = "none", !.due = None, !.loose = l].snapshot = a.snapshot
             /\ [a EXCEPT !.timer = "none", !.due = None, !.loose = l].epoch = a.epoch
             /\ [a EXCEPT !.timer = "none", !.due = None, !.loose = l].sequence = a.sequence
             /\ [a EXCEPT !.timer = "none", !.due = None, !.loose = l].born = a.born
    BY DEF Adapters, Timers, Times
<1>2. (IF a.timer = "fired" THEN a.loose + 1 ELSE a.loose) \in Nat
    BY DEF Adapters
<1> QED
    BY <1>1, <1>2 DEF CancelRecovery

\* Arming a recovery leaves the authority alone.
LEMMA ArmKeeps ==
    ASSUME NEW a \in Adapters, NEW at \in Nat
    PROVE  /\ ArmRecovery(a, at) \in Adapters
           /\ ArmRecovery(a, at).snapshot = a.snapshot
           /\ ArmRecovery(a, at).epoch = a.epoch
           /\ ArmRecovery(a, at).sequence = a.sequence
           /\ ArmRecovery(a, at).born = a.born
<1>1. CASE ~InsideSession(at)
    BY <1>1, CancelKeeps DEF ArmRecovery
<1>2. CASE InsideSession(at)
  <2>1. at + Backoff \in Times
    BY HaltStreamAssumption DEF Times
  <2>2. ASSUME NEW d \in Times, NEW t \in Timers
        PROVE  /\ [a EXCEPT !.due = d, !.timer = t] \in Adapters
               /\ [a EXCEPT !.due = d, !.timer = t].snapshot = a.snapshot
               /\ [a EXCEPT !.due = d, !.timer = t].epoch = a.epoch
               /\ [a EXCEPT !.due = d, !.timer = t].sequence = a.sequence
               /\ [a EXCEPT !.due = d, !.timer = t].born = a.born
    BY DEF Adapters
  <2>3. (IF a.timer = "none" /\ Alive /\ ~Quiet THEN "armed" ELSE a.timer) \in Timers
    BY DEF Adapters, Timers
  <2> QED
    BY <1>2, <2>1, <2>2, <2>3 DEF ArmRecovery
<1> QED
    BY <1>1, <1>2

\* Publishing a snapshot sets it and nothing else but the timers.
LEMMA SetKeeps ==
    ASSUME NEW a \in Adapters, NEW s \in Snapshots
    PROVE  /\ SetSnapshot(a, s) \in Adapters
           /\ SetSnapshot(a, s).snapshot = s
           /\ SetSnapshot(a, s).epoch = a.epoch
           /\ SetSnapshot(a, s).sequence = a.sequence
           /\ SetSnapshot(a, s).born = a.born
<1> DEFINE b == [a EXCEPT !.snapshot = s]
<1>1. /\ b \in Adapters /\ b.snapshot = s /\ b.epoch = a.epoch /\ b.sequence = a.sequence
      /\ b.born = a.born
    BY DEF Adapters
<1>2. s.observed_at \in Nat
    BY DEF Snapshots
<1>3. SetSnapshot(a, s) \in {b, CancelRecovery(b), ArmRecovery(b, s.observed_at)}
    BY DEF SetSnapshot
<1> HIDE DEF b
<1> QED
    BY <1>1, <1>2, <1>3, CancelKeeps, ArmKeeps

\* A snapshot that is not latched is never refused: it is valid and not ahead of the clock by
\* more than a read may be.
LEMMA NotRefused ==
    ASSUME NEW s \in Snapshots, NEW t \in Nat, Sound(s, t), s.state # "HALTED_LATCHED"
    PROVE  ~Refuses(s, t)
BY HaltAuthorityAssumption, HaltStreamAssumption DEF Snapshots, Sound, Refuses

\* What the adapter publishes from a good state is good, with a new status heard or not.
LEMMA EmitGood ==
    ASSUME now \in Nat, NEW a \in Adapters, NEW h \in Heard, NEW g \in Heard,
           Good(a, now, h), h.at <= now, g.at <= now,
           NEW kind \in {"EPOCH_ACK", "FAILURE", "TRADING_STATUS", "TRADE"},
           NEW at \in Nat, NEW code \in Codes,
           kind = "EPOCH_ACK" => at = now,
           kind # "TRADING_STATUS" => g = h,
           kind = "TRADING_STATUS" => g.code = code
    PROVE  Good(Emit(a, kind, at, code), now, g)
<1> DEFINE e == [kind |-> kind, epoch |-> a.epoch, sequence |-> a.sequence + 1,
                 event_at |-> at, received_at |-> now, code |-> code]
           b == [a EXCEPT !.sequence = @ + 1]
           s == a.snapshot
<1>1. /\ s \in Snapshots /\ a.epoch \in Times /\ a.sequence \in Nat
      /\ b \in Adapters /\ b.snapshot = s /\ b.epoch = a.epoch /\ b.sequence = a.sequence + 1
    BY DEF Adapters
<1>2. Sound(s, now) /\ Current(s, a.epoch, a.sequence) /\ Remembers(s, h)
    BY DEF Good
<1>3. CASE a.epoch = None
  <2>1. Emit(a, kind, at, code) = a
    BY <1>3 DEF Emit
  <2>2. s.acknowledged_at = None
    BY <1>2, <1>3 DEF Current
  <2> QED
    BY <2>1, <2>2 DEF Good, Remembers
<1>4. CASE a.epoch # None /\ Refuses(s, now)
  <2>1. Emit(a, kind, at, code) = b
    BY <1>4 DEF Emit
  <2>2. s.state = "HALTED_LATCHED"
    BY <1>1, <1>2, <1>4, NotRefused
  <2>3. Current(s, b.epoch, b.sequence)
    BY <1>1, <1>2 DEF Current
  <2>4. Remembers(s, g)
    BY <2>2 DEF Remembers
  <2> HIDE DEF b
  <2> QED
    BY <1>1, <1>2, <2>1, <2>3, <2>4 DEF Good
<1>5. CASE a.epoch # None /\ ~Refuses(s, now)
  <2> DEFINE r == Reduce(s, e)
  <2>1. e \in Events /\ e.received_at = now /\ e.kind = kind /\ e.code = code /\ e.event_at = at
        /\ e.epoch = a.epoch
    BY <1>1, <1>5 DEF Events, Times
  <2>2. ValidPrevious(s)
    BY <1>5 DEF Refuses
  <2> HIDE DEF e
  <2>3. r \in Snapshots
    BY <1>1, <2>1, ReduceType
  <2>4. Sound(r, now)
    BY <1>1, <1>2, <2>1, <2>2, ReduceSound
  <2>5. Current(r, a.epoch, a.sequence + 1)
    BY <1>1, <1>5, <2>1, ReduceEpoch DEF Current
  <2>6. Remembers(r, g)
    <3>1. CASE kind # "TRADING_STATUS"
      BY <1>1, <1>2, <2>1, <3>1, ReduceRemembers
    <3>2. CASE kind = "TRADING_STATUS"
      BY <1>1, <2>1, <3>2, ReduceHalt DEF Remembers
    <3> QED
      BY <3>1, <3>2
  <2>7. Emit(a, kind, at, code) = SetSnapshot(b, r)
    BY <1>5 DEF Emit, e
  <2> HIDE DEF b, r
  <2> QED
    BY <1>1, <2>3, <2>4, <2>5, <2>6, <2>7, SetKeeps DEF Good
<1> QED
    BY <1>3, <1>4, <1>5

\* A failure keeps the state good and leaves nothing open.  It ends the epoch, unless the
\* snapshot is one that the reducer refuses.
LEMMA FailureGood ==
    ASSUME now \in Nat, NEW a \in Adapters, NEW h \in Heard, Good(a, now, h), h.at <= now
    PROVE  /\ Good(Failure(a), now, h)
           /\ Failure(a).snapshot.state # "OPEN_CONFIRMED"
           /\ ~FailureRaises(a) => Failure(a).snapshot.acknowledged_at = None
           /\ Failure(a).epoch = a.epoch
<1> DEFINE s == a.snapshot
           e == [kind |-> "FAILURE", epoch |-> a.epoch, sequence |-> a.sequence + 1,
                 event_at |-> now, received_at |-> now, code |-> "OTHER"]
           b == [a EXCEPT !.sequence = @ + 1]
<1>1. /\ s \in Snapshots /\ a.epoch \in Times /\ a.sequence \in Nat
      /\ b \in Adapters /\ b.snapshot = s /\ b.epoch = a.epoch
    BY DEF Adapters
<1>2. Sound(s, now) /\ Current(s, a.epoch, a.sequence)
    BY DEF Good
<1>3. CASE ~HasContinuity(a)
  <2>1. s.acknowledged_at = None
    BY <1>2, <1>3 DEF HasContinuity, Current
  <2>2. s.state # "OPEN_CONFIRMED"
    BY <1>1, <1>2, <2>1 DEF Sound, ValidPrevious, StateValid
  <2> QED
    BY <1>3, <2>1, <2>2 DEF Failure
<1>4. CASE HasContinuity(a)
  <2>1. Failure(a) = Emit(a, "FAILURE", now, "OTHER")
    BY <1>4 DEF Failure
  <2>2. Good(Failure(a), now, h)
    BY <2>1, EmitGood DEF Codes
  <2>3. a.epoch # None
    BY <1>4 DEF HasContinuity
  <2>4. CASE Refuses(s, now)
    <3>1. Failure(a) = b
      BY <2>1, <2>3, <2>4 DEF Emit
    <3>2. s.state = "HALTED_LATCHED"
      BY <1>1, <1>2, <2>4, NotRefused
    <3> HIDE DEF b
    <3> QED
      BY <1>1, <1>4, <2>2, <2>4, <3>1, <3>2 DEF FailureRaises
  <2>5. CASE ~Refuses(s, now)
    <3>1. Failure(a) = SetSnapshot(b, Reduce(s, e))
      BY <2>1, <2>3, <2>5 DEF Emit
    <3>2. e \in Events /\ e.kind = "FAILURE"
      BY <1>1, <2>3 DEF Events, Times, Codes
    <3> HIDE DEF e, b
    <3>3. /\ Reduce(s, e) \in Snapshots
          /\ Reduce(s, e).acknowledged_at = None
          /\ Reduce(s, e).state # "OPEN_CONFIRMED"
      BY <1>1, <3>2, ReduceType, ReduceFailure
    <3> QED
      BY <1>1, <2>2, <3>1, <3>3, SetKeeps
  <2> QED
    BY <2>4, <2>5
<1> QED
    BY <1>3, <1>4

\* Only the clock, the snapshot, the epoch and the sequence matter to a good state.
LEMMA SameGood ==
    ASSUME NEW a \in Adapters, NEW b \in Adapters, NEW t \in Nat, NEW h \in Heard, Good(a, t, h),
           b.snapshot = a.snapshot, b.epoch = a.epoch, b.sequence = a.sequence
    PROVE  Good(b, t, h)
BY DEF Good

\* A new epoch keeps the snapshot, and says whether it began inside the session.
LEMMA NewEpochKeeps ==
    ASSUME NEW a \in Adapters
    PROVE  /\ NewEpoch(a) \in Adapters
           /\ NewEpoch(a).snapshot = a.snapshot
           /\ NewEpoch(a).born = "inside" => ~(now < SessionOpen)
<1>1. (IF a.epoch = None THEN 1 ELSE a.epoch + 1) \in Times
    BY DEF Adapters, Times
<1>2. PICK when \in {"early", "inside"} : when = IF now < SessionOpen THEN "early" ELSE "inside"
    OBVIOUS
<1>3. PICK ep \in Times : NewEpoch(a) = [a EXCEPT !.epoch = ep, !.sequence = 0, !.born = when]
    BY <1>1, <1>2 DEF NewEpoch
<1> DEFINE m == [a EXCEPT !.epoch = ep, !.sequence = 0, !.born = when]
<1>4. m \in Adapters /\ m.snapshot = a.snapshot /\ m.born = when
    BY DEF Adapters
<1> HIDE DEF m
<1> QED
    BY <1>2, <1>3, <1>4 DEF m

\* A new connection or a resubscription keeps the state good; it opens nothing.
LEMMA ConnectionGood ==
    ASSUME now \in Nat, NEW a \in Adapters, NEW h \in Heard, Good(a, now, h), h.at <= now
    PROVE  /\ Good(ConnectionStarting(a), now, h)
           /\ Quiet => ConnectionStarting(a) = a
<1> DEFINE c == CancelRecovery(a)
           b == Failure(c)
           n == NewEpoch(b)
<1>1. c \in Adapters /\ c.snapshot = a.snapshot /\ c.epoch = a.epoch /\ c.sequence = a.sequence
    BY CancelKeeps
<1>2. Good(c, now, h)
    BY <1>1, SameGood
<1>3. FailureRaises(c) <=> FailureRaises(a)
    BY <1>1 DEF FailureRaises, HasContinuity
<1> HIDE DEF c
<1>4. Good(b, now, h) /\ (~FailureRaises(a) => b.snapshot.acknowledged_at = None)
    BY <1>1, <1>2, <1>3, FailureGood
<1>5. b \in Adapters
    BY <1>4 DEF Good
<1> HIDE DEF b
<1>6. ASSUME ~FailureRaises(a) PROVE Good(ArmRecovery(n, now), now, h)
  <2>3. n \in Adapters /\ n.snapshot = b.snapshot
    BY <1>5, NewEpochKeeps
  <2> HIDE DEF n
  <2>4. Good(n, now, h)
    BY <1>4, <1>6, <2>3 DEF Good, Current
  <2> QED
    BY <2>3, <2>4, ArmKeeps, SameGood
<1>7. CASE Quiet
  <2>1. ConnectionStarting(a) = a
    BY <1>7 DEF ConnectionStarting
  <2> QED
    BY <2>1
<1>8. CASE ~Quiet /\ FailureRaises(a)
  <2>1. ConnectionStarting(a) = b
    BY <1>8 DEF ConnectionStarting, b, c
  <2> QED
    BY <1>4, <1>8, <2>1
<1>9. CASE ~Quiet /\ ~FailureRaises(a)
  <2>1. ConnectionStarting(a) = ArmRecovery(n, now)
    BY <1>9 DEF ConnectionStarting, b, c
  <2> HIDE DEF n
  <2> QED
    BY <1>6, <1>9, <2>1
<1> HIDE DEF n
<1> QED
    BY <1>7, <1>8, <1>9

-----------------------------------------------------------------------------
(* The invariant *)

\* The process starts in a good state.
LEMMA InitGood == StreamInit => StreamInv
<1> SUFFICES ASSUME StreamInit PROVE StreamInv
    OBVIOUS
<1> USE HaltAuthorityAssumption, HaltStreamAssumption
        DEF StreamInit, Snapshots, Times, States, Codes, InitialSnapshot
<1>1. StreamTypeOK
    BY DEF StreamTypeOK
<1>2. Adapter \in Adapters
    BY DEF Adapter, Adapters, Timers
<1>3. Sound(snapshot, now) /\ Current(snapshot, epoch, sequence) /\ Remembers(snapshot, heard)
    BY DEF Sound, Current, Remembers, HALTED, ValidPrevious, ActiveEpochValid, ChronologyValid, StateValid
<1>4. heard.at <= now /\ StoppedIsNotOpen
    BY DEF StoppedIsNotOpen
<1> QED
    BY <1>1, <1>2, <1>3, <1>4 DEF StreamInv, Good, Adapter

\* Every step keeps the state good.
LEMMA StepGood == StreamInv /\ [StreamNext]_streamVars => StreamInv'
<1> SUFFICES ASSUME StreamInv, [StreamNext]_streamVars PROVE StreamInv'
    OBVIOUS
<1>1. /\ now \in Nat /\ heard \in Heard /\ heard.at \in Nat /\ heard.at <= now
      /\ Adapter \in Adapters /\ Adapter.snapshot = snapshot /\ Adapter.epoch = epoch
      /\ Adapter.sequence = sequence
      /\ Good(Adapter, now, heard)
      /\ RestOK /\ StoppedIsNotOpen
    BY DEF StreamInv, StreamTypeOK, RestOK, Heard, Adapter, Adapters, Timers, Times
\* How every action is shown to keep the invariant
<1>2. ASSUME NEW a, Good(a, now, heard'), Becomes(a), now' = now, heard'.at <= now, RestOK',
             stopping' /\ owner' # "joining" => a.snapshot.state # "OPEN_CONFIRMED"
      PROVE  StreamInv'
  <2>1. Adapter' = a /\ a.snapshot = snapshot'
    BY <1>2 DEF Good, Adapters, Adapter, Becomes
  <2>2. Good(Adapter', now', heard')
    BY <1>2, <2>1
  <2>3. a \in Adapters
    BY <1>2 DEF Good
  <2>4. StreamTypeOK'
    BY <1>2, <2>3 DEF Adapters, Becomes, Timers, Times, StreamTypeOK, RestOK, Heard
  <2>5. StoppedIsNotOpen'
    BY <1>2, <2>1 DEF StoppedIsNotOpen
  <2> QED
    BY <1>2, <2>2, <2>4, <2>5 DEF StreamInv, Good
<1>3. ASSUME UNCHANGED adapter PROVE Becomes(Adapter)
    BY <1>3 DEF adapter, Becomes, Adapter
<1> DEFINE F == Failure(Adapter)
<1>4. Good(F, now, heard) /\ F.snapshot.state # "OPEN_CONFIRMED" /\ F \in Adapters
    BY <1>1, FailureGood DEF Good
<1>5. stopping /\ owner # "joining" => Adapter.snapshot.state # "OPEN_CONFIRMED"
    BY <1>1 DEF StoppedIsNotOpen
<1> USE DEF process, wire
<1>10. CASE Tick
  <2>1. Good(Adapter, now', heard)
    <3>1. now' \in Nat /\ now' = now + 1 /\ snapshot \in Snapshots
      BY <1>1, <1>10 DEF Tick, Adapters
    <3>2. Sound(snapshot, now')
      BY <1>1, <3>1, HaltStreamAssumption DEF Good, Sound, Snapshots, Times
    <3> QED
      BY <1>1, <3>2 DEF Good
  <2>2. Adapter' = Adapter /\ RestOK' /\ heard' = heard /\ now' = now + 1 /\ StoppedIsNotOpen'
    BY <1>1, <1>10 DEF Tick, adapter, Adapter, RestOK, StoppedIsNotOpen
  <2>3. StreamTypeOK'
    BY <1>10, <2>2 DEF StreamInv, StreamTypeOK, RestOK, Heard, Tick, adapter
  <2> QED
    BY <1>1, <2>1, <2>2, <2>3 DEF StreamInv
<1>11. CASE StartThread \/ ThreadStarted \/ StartReturns
  <2>1. RestOK'
    BY <1>1, <1>11 DEF StartThread, ThreadStarted, StartReturns, RestOK
  <2>2. now' = now /\ heard' = heard /\ stopping' = stopping /\ owner # "joining" /\ UNCHANGED adapter
    BY <1>11 DEF StartThread, ThreadStarted, StartReturns
  <2> QED
    BY <1>1, <1>2, <1>3, <1>5, <2>1, <2>2
<1>12. CASE Stop
  <2>1. Good(CancelRecovery(Adapter), now, heard)
    BY <1>1, CancelKeeps, SameGood
  <2> QED
    BY <1>1, <1>2, <1>12, <2>1 DEF Stop, RestOK
<1>13. CASE StopReturns
    BY <1>1, <1>2, <1>4, <1>13 DEF StopReturns, Join, RestOK
<1>14. CASE Connect
  <2>1. Good(ConnectionStarting(Adapter), now, heard) /\ (Quiet => ConnectionStarting(Adapter) = Adapter)
    BY <1>1, ConnectionGood
  <2>2. RestOK'
    BY <1>1, <1>14 DEF Connect, RestOK
  <2>3. stopping' /\ owner' # "joining" => ConnectionStarting(Adapter).snapshot.state # "OPEN_CONFIRMED"
    BY <1>5, <1>14, <2>1 DEF Connect, Quiet
  <2> QED
    BY <1>1, <1>2, <1>14, <2>1, <2>2, <2>3 DEF Connect
<1>15. ASSUME NEW exact \in BOOLEAN, SubscriptionMessage(exact) PROVE StreamInv'
  <2> DEFINE E == Emit(Adapter, "EPOCH_ACK", now, "OTHER")
             A == ArmRecovery(F, now)
  <2>1. RestOK' /\ now' = now /\ heard' = heard /\ stopping' = stopping /\ owner' = owner
    BY <1>1, <1>15 DEF SubscriptionMessage, RestOK, StartupFails
  <2>2. Good(E, now, heard)
    BY <1>1, EmitGood DEF Codes
  <2>3. Good(A, now, heard) /\ A.snapshot.state # "OPEN_CONFIRMED"
    BY <1>1, <1>4, ArmKeeps, SameGood
  <2>4. (Quiet /\ Becomes(Adapter)) \/ (~Quiet /\ Becomes(E)) \/ Becomes(F) \/ Becomes(A)
    BY <1>15 DEF SubscriptionMessage
  <2> HIDE DEF E, A, F
  <2> QED
    BY <1>1, <1>2, <1>4, <1>5, <2>1, <2>2, <2>3, <2>4 DEF Quiet
<1>16. ASSUME NEW t \in Trades, OnTrade(t) PROVE StreamInv'
  <2> DEFINE E == Emit(Adapter, "TRADE", PrintedAt[t], "OTHER")
  <2>1. RestOK' /\ now' = now /\ heard' = heard /\ stopping' = stopping /\ owner' = owner
    BY <1>1, <1>16 DEF OnTrade, RestOK
  <2>2. Good(E, now, heard)
    BY <1>1, EmitGood, HaltStreamAssumption DEF Codes
  <2>3. \/ UNCHANGED adapter
        \/ ~Quiet /\ Becomes(Contained(E))
        \/ ~Quiet /\ Becomes(Contained(F))
    BY <1>16 DEF OnTrade
  <2>4. ASSUME NEW a, Good(a, now, heard) PROVE Good(Contained(a), now, heard)
    BY <1>1, <2>4, FailureGood DEF Contained, Good
  <2> HIDE DEF E, F
  <2> QED
    BY <1>1, <1>2, <1>3, <1>4, <1>5, <2>1, <2>2, <2>3, <2>4 DEF Quiet
<1>17. ASSUME NEW code \in Codes, NEW at \in Nat, OnStatus(code, at) PROVE StreamInv'
  <2> DEFINE E == Emit(Adapter, "TRADING_STATUS", at, code)
             g == [code |-> code, at |-> now]
  <2>1. RestOK' /\ now' = now /\ stopping' = stopping /\ owner' = owner
    BY <1>1, <1>17 DEF OnStatus, RestOK, Heard
  <2>2. CASE Quiet
    BY <1>1, <1>2, <1>3, <1>5, <1>17, <2>1, <2>2 DEF OnStatus
  <2>3. CASE ~Quiet
    <3>1. g \in Heard /\ g.at <= now /\ g.code = code /\ heard' = g /\ Becomes(Contained(E))
      BY <1>1, <1>17, <2>3 DEF OnStatus, Heard
    <3> HIDE DEF g
    <3>2. Good(E, now, g)
      BY <1>1, <3>1, EmitGood
    <3> HIDE DEF E
    <3>3. Good(Contained(E), now, g)
      BY <1>1, <3>1, <3>2, FailureGood DEF Contained, Good
    <3> QED
      BY <1>1, <1>2, <2>1, <2>3, <3>1, <3>3 DEF Quiet
  <2> QED
    BY <2>2, <2>3
<1>18. CASE StreamError \/ StreamClosed \/ RunStreamEnds
  <2>1. RestOK'
    <3>1. StartupFails \in {"pending", "ready", "failed"} /\ startup \in {"pending", "ready", "failed"}
      BY <1>1 DEF StartupFails, RestOK
    <3>2. startup' \in {StartupFails, startup} /\ thread' \in {thread, "dead"} /\ connected' \in {connected, FALSE}
          /\ acks' \in {acks, 0} /\ UNCHANGED <<now, heard, seen, started, stopping, closed, owner, calls>>
      BY <1>18 DEF StreamError, StreamClosed, RunStreamEnds
    <3>3. /\ startup' \in {"pending", "ready", "failed"} /\ thread' \in {"none", "running", "dead"}
          /\ connected' \in BOOLEAN
      BY <1>1, <3>1, <3>2, Zenon DEF RestOK
    <3>4. acks' \in Nat
      BY <1>1, <3>2 DEF RestOK
    <3> QED
      BY <1>1, <3>2, <3>3, <3>4 DEF RestOK
  <2>2. now' = now /\ heard' = heard /\ Becomes(F)
    BY <1>18 DEF StreamError, StreamClosed, RunStreamEnds
  <2> HIDE DEF F
  <2> QED
    BY <1>1, <1>2, <1>4, <2>1, <2>2
<1>19. CASE TimerFires
  <2> DEFINE a == [Adapter EXCEPT !.timer = "fired"]
  <2>1. /\ a \in Adapters /\ a.snapshot = snapshot /\ a.epoch = epoch /\ a.sequence = sequence
        /\ Becomes(a)
    BY <1>1, <1>19 DEF TimerFires, Adapter, Adapters, Timers, Becomes
  <2>2. RestOK' /\ now' = now /\ heard' = heard /\ stopping' = stopping /\ owner' = owner
    BY <1>1, <1>19 DEF TimerFires, RestOK
  <2> HIDE DEF a
  <2>3. Good(a, now, heard)
    BY <1>1, <2>1, SameGood
  <2> QED
    BY <1>1, <1>2, <1>5, <2>1, <2>2, <2>3
<1>20. CASE RecoverLiveStream
  <2>1. RestOK' /\ now' = now /\ heard' = heard /\ stopping' = stopping /\ owner' = owner
    BY <1>1, <1>20 DEF RecoverLiveStream, RestOK
  <2> DEFINE own == [Adapter EXCEPT !.timer = "none"]
             other == [Adapter EXCEPT !.timer = "none", !.loose = IF timer = "none" THEN @ - 1 ELSE @]
  <2>2. PICK a \in (IF timer = "fired" THEN {own} ELSE {}) \cup (IF loose > 0 THEN {other} ELSE {}) :
            Becomes(a) \/ (~Quiet /\ Becomes(ConnectionStarting(a)))
    BY <1>20 DEF RecoverLiveStream
  <2>3. a \in Adapters /\ a.snapshot = snapshot /\ a.epoch = epoch /\ a.sequence = sequence
    <3>1. Adapter.loose = loose /\ loose \in Nat
      BY <1>1 DEF Adapter, Adapters
    <3>2. CASE a = own
      BY <1>1, <3>2 DEF Adapters, Timers
    <3>3. CASE loose > 0 /\ a = other
      <4>1. PICK l \in Nat : l = IF timer = "none" THEN loose - 1 ELSE loose
        BY <3>1, <3>3
      <4>2. a = [Adapter EXCEPT !.timer = "none", !.loose = l]
        BY <3>1, <3>3, <4>1
      <4> HIDE DEF other
      <4> QED
        BY <1>1, <4>2 DEF Adapters, Timers
    <3> HIDE DEF own, other
    <3> QED
      BY <3>2, <3>3
  <2> HIDE DEF own, other
  <2>5. Good(a, now, heard)
    BY <1>1, <2>3, SameGood
  <2>6. Good(ConnectionStarting(a), now, heard)
    BY <1>1, <2>3, <2>5, ConnectionGood
  <2> QED
    BY <1>1, <1>2, <1>5, <2>1, <2>2, <2>3, <2>5, <2>6 DEF Quiet
<1>21. CASE Resubscribe
  <2>1. Good(ArmRecovery(Adapter, now), now, heard) /\ ArmRecovery(Adapter, now).snapshot = snapshot
    BY <1>1, ArmKeeps, SameGood
  <2>2. RestOK'
    BY <1>1, <1>21 DEF Resubscribe, RestOK
  <2> QED
    BY <1>1, <1>2, <1>3, <1>5, <1>21, <2>1, <2>2 DEF Resubscribe
<1>22. ASSUME NEW read_at \in now..(now + ReadLead), ReadSnapshot(read_at) PROVE StreamInv'
  <2> DEFINE r == Read(snapshot, read_at)
             a == SetSnapshot(Adapter, r)
  <2>1. RestOK' /\ now' = now /\ heard' = heard /\ stopping' = stopping /\ owner' = owner
    BY <1>1, <1>22 DEF ReadSnapshot, RestOK
  <2>2. snapshot \in Snapshots /\ Sound(snapshot, now) /\ ValidPrevious(snapshot)
        /\ Remembers(snapshot, heard) /\ Current(snapshot, epoch, sequence)
    BY <1>1, <1>22 DEF ReadSnapshot, Refuses, Good, Adapters
  <2>3. /\ r \in Snapshots /\ Sound(r, now) /\ Remembers(r, heard)
        /\ r.acknowledged_at \in {snapshot.acknowledged_at, None} /\ r.epoch = snapshot.epoch
        /\ snapshot.state # "OPEN_CONFIRMED" => r.state # "OPEN_CONFIRMED"
    BY <1>1, <2>2, ReadSound
  <2>4. Becomes(a) \/ (~Quiet /\ Becomes(ConnectionStarting(a)))
    BY <1>22 DEF ReadSnapshot
  <2> HIDE DEF r
  <2>5. a \in Adapters /\ a.snapshot = r /\ a.epoch = epoch /\ a.sequence = sequence
    BY <1>1, <2>3, SetKeeps
  <2> HIDE DEF a
  <2>6. Current(r, epoch, sequence)
    BY <2>2, <2>3 DEF Current
  <2>7. Good(a, now, heard)
    BY <2>3, <2>5, <2>6 DEF Good
  <2>8. Good(ConnectionStarting(a), now, heard)
    BY <1>1, <2>5, <2>7, ConnectionGood
  <2> QED
    BY <1>1, <1>2, <1>5, <2>1, <2>3, <2>4, <2>5, <2>7, <2>8 DEF Quiet
<1>23. CASE UNCHANGED streamVars
    BY <1>1, <1>2, <1>3, <1>5, <1>23 DEF streamVars, RestOK
<1> QED
    BY <1>1, <1>10, <1>11, <1>12, <1>13, <1>14, <1>15, <1>16, <1>17, <1>18, <1>19, <1>20, <1>21, <1>22,
       <1>23 DEF StreamNext

-----------------------------------------------------------------------------
(* The theorems *)

\* The invariant is inductive.
THEOREM InvariantHolds == StreamSpec => []StreamInv
BY InitGood, StepGood, PTL DEF StreamSpec

\* The adapter's fields always have their types; the reducer never takes a sequence number
\* below zero and the recovery never runs more timers than it started.
THEOREM TypeCorrect == StreamSpec => []StreamTypeOK
<1>1. StreamInv => StreamTypeOK
    BY DEF StreamInv
<1> QED
    BY <1>1, InvariantHolds, PTL

\* An open snapshot always rests on a fresh trade of the current connection.
THEOREM OpenAlwaysCurrent == StreamSpec => []OpenIsCurrent
<1>1. StreamInv => OpenIsCurrent
  <2> SUFFICES ASSUME StreamInv, snapshot.state = "OPEN_CONFIRMED" PROVE OpenIsCurrent
    BY DEF OpenIsCurrent
  <2>1. snapshot \in Snapshots /\ Sound(snapshot, now) /\ Current(snapshot, epoch, sequence)
    BY DEF StreamInv, StreamTypeOK, Good, Adapter
  <2> QED
    BY <2>1 DEF OpenIsCurrent, Sound, Current, ValidPrevious, StateValid, ChronologyValid
<1> QED
    BY <1>1, InvariantHolds, PTL

\* A halt that was delivered is not forgotten, however the connection fails.
THEOREM HaltNeverForgotten == StreamSpec => []HaltRemembered
<1>1. StreamInv => HaltRemembered
  <2> SUFFICES ASSUME StreamInv, snapshot.state = "OPEN_CONFIRMED", heard.code = "HALT"
               PROVE  snapshot.last_trade_at > heard.at
    BY DEF HaltRemembered
  <2>1. snapshot \in Snapshots /\ Sound(snapshot, now) /\ Remembers(snapshot, heard) /\ heard \in Heard
    BY DEF StreamInv, StreamTypeOK, Good, Adapter, Heard
  <2> QED
    BY <2>1 DEF Sound, Remembers, ValidPrevious, StateValid, ChronologyValid, Snapshots, Times, Heard
<1> QED
    BY <1>1, InvariantHolds, PTL

\* After stop has returned the symbol is never open again, whatever threads are left.
THEOREM StoppedNeverOpens == StreamSpec => []StoppedIsNotOpen
<1>1. StreamInv => StoppedIsNotOpen
    BY DEF StreamInv
<1> QED
    BY <1>1, InvariantHolds, PTL

-----------------------------------------------------------------------------
(* The recovery *)

\* An epoch that began inside the session is not from before it.
Late(a) == a.born = "inside" => now >= SessionOpen

\* An adapter that waits for an acknowledgment of such an epoch has a time after which it
\* asks again.  This is more than RecoveryPending says: the time alone is enough, whatever
\* became of the timers, and it is set before the thread counts as started.
Asks(a) ==
    /\ Late(a)
    /\ a.epoch # None /\ a.born = "inside" /\ now + ReadLead < SessionClose
           /\ a.snapshot.acknowledged_at = None => a.due # None

\* Only stop joins the thread, and it is stopping from then on.
JoinsStopping == owner = "joining" => stopping

RInv == ~Quiet => Asks(Adapter)

\* Only stop joins the thread.
LEMMA StepJoins ==
    ASSUME JoinsStopping, [StreamNext]_streamVars PROVE JoinsStopping'
BY DEF JoinsStopping, StreamNext, streamVars, process, Tick, StartThread, ThreadStarted, StartReturns, Stop,
       StopReturns, Connect, SubscriptionMessage, OnTrade, OnStatus, StreamError, StreamClosed,
       RunStreamEnds, TimerFires, RecoverLiveStream, Resubscribe, ReadSnapshot

\* A recovery that is armed at this moment, or a little ahead of it, sets the time.
LEMMA ArmAsks ==
    ASSUME now \in Nat, NEW a \in Adapters, Late(a), NEW at \in Nat, now <= at, at <= now + ReadLead
    PROVE  Asks(ArmRecovery(a, at))
<1>1. ArmRecovery(a, at).born = a.born
    BY ArmKeeps
<1>2. ASSUME InsideSession(at) PROVE ArmRecovery(a, at).due = at + Backoff
    BY <1>2 DEF ArmRecovery, Adapters
<1>3. at + Backoff # None
    BY HaltStreamAssumption
<1>4. ASSUME a.born = "inside", now + ReadLead < SessionClose PROVE InsideSession(at)
    BY <1>4, HaltStreamAssumption, HaltAuthorityAssumption DEF InsideSession, Late
<1> QED
    BY <1>1, <1>2, <1>3, <1>4 DEF Asks, Late

\* Publishing a snapshot of this moment, or of a little ahead of it, never loses the recovery.
LEMMA SetAsks ==
    ASSUME now \in Nat, NEW a \in Adapters, NEW s \in Snapshots, Asks(a),
           now <= s.observed_at, s.observed_at <= now + ReadLead,
           a.snapshot.state = "OPEN_CONFIRMED" => a.snapshot.acknowledged_at # None
    PROVE  Asks(SetSnapshot(a, s))
<1> DEFINE b == [a EXCEPT !.snapshot = s]
<1>1. /\ b \in Adapters /\ b.snapshot = s /\ b.epoch = a.epoch /\ b.born = a.born /\ b.due = a.due
      /\ Late(b) /\ s.observed_at \in Nat
    BY DEF Adapters, Asks, Late, Snapshots
<1>2. SetSnapshot(a, s).snapshot = s /\ SetSnapshot(a, s).born = a.born
    BY SetKeeps
<1> HIDE DEF b
<1>3. CASE s.acknowledged_at # None
    BY <1>2, <1>3 DEF Asks, Late
<1>4. CASE s.acknowledged_at = None /\ a.snapshot.acknowledged_at # None
  <2>1. SetSnapshot(a, s) = ArmRecovery(b, s.observed_at)
    BY <1>4 DEF SetSnapshot, b
  <2> QED
    BY <1>1, <2>1, ArmAsks
<1>5. CASE s.acknowledged_at = None /\ a.snapshot.acknowledged_at = None
  <2>1. SetSnapshot(a, s) = b
    BY <1>5 DEF SetSnapshot, b
  <2> QED
    BY <1>1, <1>5, <2>1 DEF Asks
<1> QED
    BY <1>3, <1>4, <1>5

\* The reducer stamps what it returns with the time of the event.
LEMMA ReduceNow ==
    ASSUME NEW s \in Snapshots, NEW e \in Events PROVE Reduce(s, e).observed_at = e.received_at
BY DEF Snapshots, Events, Times, States, HALTED, Codes, Reduce, SessionClosed, FailClosed, Latched,
       AcknowledgeEpoch, FailureEvent, StatusEvent, TradeEvent, Accept

\* A good snapshot that is open is acknowledged.
LEMMA OpenAcknowledged ==
    ASSUME NEW a, NEW h, Good(a, now, h), a.snapshot.state = "OPEN_CONFIRMED"
    PROVE  a.snapshot.acknowledged_at # None
BY DEF Good, Sound, ValidPrevious, StateValid

\* An event never loses the recovery.
LEMMA EmitAsks ==
    ASSUME now \in Nat, NEW a \in Adapters, NEW h \in Heard, Good(a, now, h), Asks(a),
           NEW kind \in {"EPOCH_ACK", "FAILURE", "TRADING_STATUS", "TRADE"},
           NEW at \in Nat, NEW code \in Codes
    PROVE  Asks(Emit(a, kind, at, code))
<1> DEFINE e == [kind |-> kind, epoch |-> a.epoch, sequence |-> a.sequence + 1,
                 event_at |-> at, received_at |-> now, code |-> code]
           b == [a EXCEPT !.sequence = @ + 1]
           s == a.snapshot
<1>1. /\ s \in Snapshots /\ a.epoch \in Times /\ a.sequence \in Nat
      /\ b \in Adapters /\ b.snapshot = s /\ b.epoch = a.epoch /\ b.born = a.born /\ b.due = a.due
    BY DEF Adapters
<1>2. Asks(b)
    BY <1>1 DEF Asks, Late
<1>3. CASE a.epoch = None
    BY <1>3 DEF Emit
<1>4. CASE a.epoch # None /\ Refuses(s, now)
  <2>1. Emit(a, kind, at, code) = b
    BY <1>4 DEF Emit
  <2> QED
    BY <1>2, <2>1
<1>5. CASE a.epoch # None /\ ~Refuses(s, now)
  <2>1. e \in Events /\ e.received_at = now
    BY <1>1, <1>5 DEF Events, Times
  <2>2. Emit(a, kind, at, code) = SetSnapshot(b, Reduce(s, e))
    BY <1>5 DEF Emit
  <2> HIDE DEF e, b
  <2>3. Reduce(s, e) \in Snapshots /\ Reduce(s, e).observed_at = now
    BY <1>1, <2>1, ReduceType, ReduceNow
  <2>4. b.snapshot.state = "OPEN_CONFIRMED" => b.snapshot.acknowledged_at # None
    BY <1>1, OpenAcknowledged
  <2> QED
    BY <1>1, <1>2, <2>2, <2>3, <2>4, SetAsks, HaltStreamAssumption
<1> QED
    BY <1>3, <1>4, <1>5

\* A failure never loses the recovery.
LEMMA FailureAsks ==
    ASSUME now \in Nat, NEW a \in Adapters, NEW h \in Heard, Good(a, now, h), Asks(a)
    PROVE  Asks(Failure(a))
BY EmitAsks DEF Failure, Codes

\* A connection or a resubscription that starts arms a recovery, unless its failure raises:
\* then the epoch is still the acknowledged one.
LEMMA ConnectionAsks ==
    ASSUME now \in Nat, NEW a \in Adapters, NEW h \in Heard, Good(a, now, h), h.at <= now, ~Quiet,
           Late(a)
    PROVE  Asks(ConnectionStarting(a))
<1> DEFINE c == CancelRecovery(a)
           b == Failure(c)
           n == NewEpoch(b)
<1>1. /\ c \in Adapters /\ c.snapshot = a.snapshot /\ c.epoch = a.epoch /\ c.sequence = a.sequence
      /\ c.born = a.born
    BY CancelKeeps
<1>2. Good(c, now, h)
    BY <1>1, SameGood
<1>3. FailureRaises(c) <=> FailureRaises(a)
    BY <1>1 DEF FailureRaises, HasContinuity
<1>4. CASE FailureRaises(a)
  <2>1. ConnectionStarting(a) = b
    BY <1>4 DEF ConnectionStarting
  <2>2. HasContinuity(c) /\ Refuses(c.snapshot, now)
    BY <1>3, <1>4 DEF FailureRaises
  <2> HIDE DEF c
  <2>3. b = [c EXCEPT !.sequence = @ + 1] /\ c.snapshot.acknowledged_at # None
    BY <2>2 DEF Failure, Emit, HasContinuity
  <2>4. b.snapshot = c.snapshot /\ b.born = a.born
    BY <1>1, <2>3 DEF Adapters
  <2> QED
    BY <2>1, <2>3, <2>4 DEF Asks, Late
<1>5. CASE ~FailureRaises(a)
  <2>1. ConnectionStarting(a) = ArmRecovery(n, now)
    BY <1>5 DEF ConnectionStarting
  <2> HIDE DEF c
  <2>2. b \in Adapters
    BY <1>1, <1>2, FailureGood DEF Good
  <2> HIDE DEF b
  <2>3. n \in Adapters /\ Late(n)
    BY <2>2, NewEpochKeeps, HaltAuthorityAssumption DEF Late
  <2> HIDE DEF n
  <2> QED
    BY <2>1, <2>3, ArmAsks, HaltStreamAssumption
<1> QED
    BY <1>4, <1>5

\* Every step keeps the recovery.
LEMMA StepAsks ==
    ASSUME StreamInv, JoinsStopping, RInv, [StreamNext]_streamVars
    PROVE  RInv'
<1>1. /\ now \in Nat /\ heard \in Heard /\ heard.at <= now
      /\ Adapter \in Adapters /\ Adapter.snapshot = snapshot /\ Adapter.epoch = epoch
      /\ Adapter.due = due /\ Good(Adapter, now, heard)
      /\ Adapter.born = born /\ (~Quiet => Asks(Adapter))
    BY DEF StreamInv, StreamTypeOK, RInv, Heard, Adapter, Adapters, Timers, Times
\* How every action is shown to keep the recovery
<1>2. ASSUME NEW a \in Adapters, Becomes(a), now' = now, ~Quiet' => Asks(a) PROVE RInv'
  <2>1. Adapter' = a
    BY <1>2 DEF Adapters, Adapter, Becomes
  <2>2. ASSUME ~Quiet' PROVE Asks(Adapter)'
    BY <1>2, <2>1, <2>2 DEF Asks, Late
  <2> QED
    BY <2>2 DEF RInv
<1>3. ASSUME UNCHANGED adapter PROVE Becomes(Adapter)
    BY <1>3 DEF adapter, Becomes, Adapter
<1> DEFINE F == Failure(Adapter)
<1>4. F \in Adapters /\ Good(F, now, heard) /\ (~Quiet => Asks(F))
    BY <1>1, FailureGood, FailureAsks DEF Good
<1> USE DEF process, wire
<1>10. CASE Tick
  <2>1. Adapter' = Adapter /\ Quiet' = Quiet /\ now' = now + 1
    BY <1>10 DEF Tick, adapter, Adapter, Quiet
  <2>2. /\ now' + ReadLead < SessionClose => now + ReadLead < SessionClose
        /\ now >= SessionOpen => now' >= SessionOpen
    BY <1>1, <2>1, HaltAuthorityAssumption, HaltStreamAssumption
  <2>3. ASSUME ~Quiet PROVE Asks(Adapter)'
    BY <1>1, <2>1, <2>2, <2>3 DEF Asks, Late
  <2> QED
    BY <2>1, <2>3 DEF RInv
<1>11. CASE StartThread \/ ThreadStarted \/ StartReturns
  <2>1. now' = now /\ UNCHANGED adapter /\ (~Quiet' => ~Quiet)
    BY <1>11 DEF StartThread, ThreadStarted, StartReturns, Quiet
  <2> QED
    BY <1>1, <1>2, <1>3, <2>1
<1>12. CASE Stop
  <2>1. Quiet' /\ now' = now
    BY <1>12 DEF Stop, Quiet
  <2> QED
    BY <1>1, <2>1 DEF RInv
<1>13. CASE StopReturns
  <2>1. now' = now /\ Quiet'
    BY <1>13 DEF StopReturns, Quiet, JoinsStopping
  <2> QED
    BY <1>1, <2>1 DEF RInv
<1>14. CASE Connect
  <2>1. now' = now /\ Quiet' = Quiet /\ Becomes(ConnectionStarting(Adapter))
    BY <1>14 DEF Connect, Quiet
  <2>2. ConnectionStarting(Adapter) \in Adapters
    BY <1>1, ConnectionGood DEF Good
  <2>3. ~Quiet => Asks(ConnectionStarting(Adapter))
    BY <1>1, ConnectionAsks DEF Asks
  <2> QED
    BY <1>2, <2>1, <2>2, <2>3
<1>15. ASSUME NEW exact \in BOOLEAN, SubscriptionMessage(exact) PROVE RInv'
  <2> DEFINE E == Emit(Adapter, "EPOCH_ACK", now, "OTHER")
             A == ArmRecovery(F, now)
  <2>1. now' = now /\ Quiet' = Quiet
    BY <1>15 DEF SubscriptionMessage, Quiet
  <2>2. E \in Adapters /\ (~Quiet => Asks(E))
    BY <1>1, EmitGood, EmitAsks DEF Codes, Good
  <2>3. A \in Adapters /\ (~Quiet => Asks(A))
    BY <1>1, <1>4, ArmKeeps, ArmAsks, HaltStreamAssumption DEF Asks
  <2>4. Becomes(Adapter) \/ Becomes(E) \/ Becomes(F) \/ Becomes(A)
    BY <1>15 DEF SubscriptionMessage
  <2> HIDE DEF E, A, F
  <2> QED
    BY <1>1, <1>2, <1>4, <2>1, <2>2, <2>3, <2>4
<1>c. ASSUME NEW a, NEW h \in Heard, Good(a, now, h), h.at <= now, ~Quiet => Asks(a)
      PROVE  Contained(a) \in Adapters /\ (~Quiet => Asks(Contained(a)))
    BY <1>1, <1>c, FailureGood, FailureAsks DEF Contained, Good
<1>16. ASSUME NEW t \in Trades, OnTrade(t) PROVE RInv'
  <2> DEFINE E == Emit(Adapter, "TRADE", PrintedAt[t], "OTHER")
  <2>1. now' = now /\ Quiet' = Quiet
    BY <1>16 DEF OnTrade, Quiet
  <2>2. Good(E, now, heard) /\ (~Quiet => Asks(E))
    BY <1>1, EmitGood, EmitAsks, HaltStreamAssumption DEF Codes
  <2>3. UNCHANGED adapter \/ Becomes(Contained(E)) \/ Becomes(Contained(F))
    BY <1>16 DEF OnTrade
  <2> HIDE DEF E, F
  <2> QED
    BY <1>1, <1>2, <1>3, <1>4, <1>c, <2>1, <2>2, <2>3
<1>17. ASSUME NEW code \in Codes, NEW at \in Nat, OnStatus(code, at) PROVE RInv'
  <2> DEFINE E == Emit(Adapter, "TRADING_STATUS", at, code)
             g == [code |-> code, at |-> now]
  <2>1. now' = now /\ Quiet' = Quiet
    BY <1>17 DEF OnStatus, Quiet
  <2>2. g \in Heard /\ g.at <= now /\ g.code = code
    BY <1>1 DEF Heard
  <2> HIDE DEF g
  <2>3. Good(E, now, g) /\ (~Quiet => Asks(E))
    BY <1>1, <2>2, EmitGood, EmitAsks
  <2>4. UNCHANGED adapter \/ Becomes(Contained(E))
    BY <1>17 DEF OnStatus
  <2> HIDE DEF E
  <2> QED
    BY <1>1, <1>2, <1>3, <1>c, <2>1, <2>2, <2>3, <2>4
<1>18. CASE StreamError \/ StreamClosed \/ RunStreamEnds
  <2>1. now' = now /\ Quiet' = Quiet /\ Becomes(F)
    BY <1>18 DEF StreamError, StreamClosed, RunStreamEnds, Quiet
  <2> HIDE DEF F
  <2> QED
    BY <1>2, <1>4, <2>1
<1>19. CASE TimerFires
  <2>1. /\ now' = now /\ Quiet' = Quiet
        /\ Adapter'.epoch = Adapter.epoch /\ Adapter'.snapshot = Adapter.snapshot
        /\ Adapter'.due = Adapter.due /\ Adapter'.born = Adapter.born
    BY <1>19 DEF TimerFires, Quiet, Adapter
  <2>2. ASSUME ~Quiet PROVE Asks(Adapter)'
    BY <1>1, <2>1, <2>2 DEF Asks, Late
  <2> QED
    BY <1>1, <2>1, <2>2 DEF RInv
<1>20. CASE RecoverLiveStream
  <2>1. now' = now /\ Quiet' = Quiet
    BY <1>20 DEF RecoverLiveStream, Quiet
  <2> DEFINE own == [Adapter EXCEPT !.timer = "none"]
             other == [Adapter EXCEPT !.timer = "none", !.loose = IF timer = "none" THEN @ - 1 ELSE @]
  <2>2. PICK a \in (IF timer = "fired" THEN {own} ELSE {}) \cup (IF loose > 0 THEN {other} ELSE {}) :
            Becomes(a) \/ (~Quiet /\ Becomes(ConnectionStarting(a)))
    BY <1>20 DEF RecoverLiveStream
  <2>3. /\ a \in Adapters /\ a.snapshot = Adapter.snapshot /\ a.epoch = Adapter.epoch
        /\ a.sequence = Adapter.sequence /\ a.due = Adapter.due /\ a.born = Adapter.born
    <3>1. Adapter.loose = loose /\ loose \in Nat
      BY <1>1 DEF Adapter, Adapters
    <3>2. CASE a = own
      BY <1>1, <3>2 DEF Adapters, Timers
    <3>3. CASE loose > 0 /\ a = other
      <4>1. PICK l \in Nat : l = IF timer = "none" THEN loose - 1 ELSE loose
        BY <3>1, <3>3
      <4>2. a = [Adapter EXCEPT !.timer = "none", !.loose = l]
        BY <3>1, <3>3, <4>1
      <4> HIDE DEF other
      <4> QED
        BY <1>1, <4>2 DEF Adapters, Timers
    <3> HIDE DEF own, other
    <3> QED
      BY <3>2, <3>3
  <2> HIDE DEF own, other
  <2>4. Good(a, now, heard) /\ (~Quiet => Asks(a))
    BY <1>1, <2>3, SameGood DEF Asks, Late
  <2>5. /\ ConnectionStarting(a) \in Adapters
        /\ ~Quiet => Asks(ConnectionStarting(a))
    BY <1>1, <2>3, <2>4, ConnectionGood, ConnectionAsks DEF Good, Asks
  <2> QED
    BY <1>2, <2>1, <2>2, <2>3, <2>4, <2>5
<1>21. CASE Resubscribe
  <2>1. ArmRecovery(Adapter, now) \in Adapters /\ (~Quiet => Asks(ArmRecovery(Adapter, now)))
    BY <1>1, ArmKeeps, ArmAsks, HaltStreamAssumption DEF Asks
  <2>2. now' = now /\ Quiet' = Quiet /\ (UNCHANGED adapter \/ Becomes(ArmRecovery(Adapter, now)))
    BY <1>21 DEF Resubscribe, Quiet
  <2> QED
    BY <1>1, <1>2, <1>3, <2>1, <2>2
<1>22. ASSUME NEW read_at \in now..(now + ReadLead), ReadSnapshot(read_at) PROVE RInv'
  <2> DEFINE r == Read(snapshot, read_at)
             a == SetSnapshot(Adapter, r)
  <2>1. now' = now /\ Quiet' = Quiet
    BY <1>22 DEF ReadSnapshot, Quiet
  <2>2. snapshot \in Snapshots /\ Sound(snapshot, now) /\ ValidPrevious(snapshot)
        /\ Remembers(snapshot, heard) /\ Current(snapshot, epoch, sequence)
    BY <1>1, <1>22 DEF ReadSnapshot, Refuses, Good, Adapters, Adapter
  <2>3. /\ r \in Snapshots /\ Sound(r, now) /\ Remembers(r, heard)
        /\ r.acknowledged_at \in {snapshot.acknowledged_at, None} /\ r.epoch = snapshot.epoch
    BY <1>1, <2>2, ReadSound
  <2>4. now <= r.observed_at /\ r.observed_at <= now + ReadLead
    <3>1. PICK at \in Nat : /\ at = IF read_at > snapshot.observed_at THEN read_at ELSE snapshot.observed_at
                            /\ now <= at
      BY <1>1, <2>2, HaltStreamAssumption DEF Snapshots
    <3>2. r.observed_at = at
      BY <2>2, <3>1 DEF Read, SessionClosed, Snapshots
    <3> QED
      BY <2>3, <3>1, <3>2 DEF Sound
  <2>5. Becomes(a) \/ (~Quiet /\ Becomes(ConnectionStarting(a)))
    BY <1>22 DEF ReadSnapshot
  <2> HIDE DEF r
  <2>6. a \in Adapters /\ a.snapshot = r /\ a.epoch = Adapter.epoch /\ a.sequence = Adapter.sequence
    BY <1>1, <2>3, SetKeeps
  <2>7. ~Quiet => Asks(a)
    BY <1>1, <2>3, <2>4, SetAsks, OpenAcknowledged
  <2> HIDE DEF a
  <2>8. Good(a, now, heard)
    BY <2>2, <2>3, <2>6 DEF Good, Current, Adapter
  <2>9. /\ ConnectionStarting(a) \in Adapters
        /\ ~Quiet => Asks(ConnectionStarting(a))
    BY <1>1, <2>6, <2>7, <2>8, ConnectionGood, ConnectionAsks DEF Good, Asks
  <2> QED
    BY <1>2, <2>1, <2>5, <2>6, <2>7, <2>9
<1>23. CASE UNCHANGED streamVars
    BY <1>1, <1>2, <1>3, <1>23 DEF streamVars, Quiet
<1> QED
    BY <1>1, <1>10, <1>11, <1>12, <1>13, <1>14, <1>15, <1>16, <1>17, <1>18, <1>19, <1>20, <1>21, <1>22,
       <1>23 DEF StreamNext

\* A live stream whose epoch began inside the session and is not acknowledged has its recovery
\* under way, for every backoff, whenever the process starts, however far readers are ahead and
\* however connections, timers, readers and stop interleave (_arm_recovery, _set_snapshot).
THEOREM RecoveryStaysPending == StreamSpec => []RecoveryPending
<1>1. StreamInit => RInv
    BY DEF StreamInit, RInv, Asks, Late, Adapter
<1>2. StreamInv /\ JoinsStopping /\ RInv /\ [StreamNext]_streamVars => RInv'
    BY StepAsks
<1>3. StreamInit => JoinsStopping
    BY DEF StreamInit, JoinsStopping
<1>4. JoinsStopping /\ [StreamNext]_streamVars => JoinsStopping'
    BY StepJoins
<1>5. RInv => RecoveryPending
    BY DEF RInv, Asks, Adapter, RecoveryPending, Unacknowledged, Recovering
<1> QED
    BY <1>1, <1>2, <1>3, <1>4, <1>5, InvariantHolds, PTL DEF StreamSpec
=============================================================================
