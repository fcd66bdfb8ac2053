------------------------- MODULE ModelEvidenceProofs -------------------------
(***************************************************************************)
(* AnswersItsBinding and StoredStaysReadable hold for any number of workers, *)
(* pieces of evidence and model outputs, for every lease, deadline, retry     *)
(* schedule and budget, and however often the owner changes the provider.    *)
(*                                                                         *)
(* The invariant is about what a worker carries from one transaction to the  *)
(* next: the claim it held a lease of still exists, and the answer it waits   *)
(* for or keeps is of the provider its hash names, and the one it keeps of    *)
(* the evidence its hash names.  That needs that an active provider answers  *)
(* with the credential of its own generation.                                *)
(***************************************************************************)
EXTENDS ModelEvidence, TLAPS

Work == [pc : Phases, hash : Hashes \cup {None}, generation : Nat, remaining : 0..TotalTimeout,
         attempt : 0..1, retry : 0..Len(Delays), pause : Nat, origin : Bindings \cup {None},
         response : Responses \cup {None}]

Types ==
    /\ settings \in SettingsRow \cup {None}
    /\ claim \in [Hashes -> ClaimRow \cup {None}]
    /\ stored \in [Hashes -> StoredRow \cup {None}]
    /\ request_count \in 0..HardLimit
    /\ worker \in [Workers -> Work]

\* An active provider answers with the credential of its own generation.
CredentialCurrent == settings # None /\ settings.active => settings.credential = settings.generation

\* The phases in which a worker has held the lease of its evidence
Holding == {"leased", "ready", "calling", "awaiting", "sleeping", "complete", "release"}

\* A call is about a hash; once it has held a lease the claim exists; an answer that is waited
\* for, or kept, is of the provider that the hash names, and a kept one of its evidence.
WorkOK(r, claims) ==
    /\ r.pc # "idle" => r.hash \in Hashes
    /\ r.pc \in Holding => claims[r.hash] # None
    /\ r.pc \in {"awaiting", "complete"} => r.origin = r.hash[2]
    /\ r.pc = "complete" => r.response \in Responses /\ ValidResponse(r.response, r.hash[1])

WorkSound == \A w \in Workers : WorkOK(worker[w], claim)

IInv == Types /\ CredentialCurrent /\ WorkSound /\ AnswersItsBinding /\ StoredStaysReadable

-----------------------------------------------------------------------------
(* Steps that touch one worker only *)

\* What the types use of the bounds.
LEMMA Limits ==
    /\ 0 \in 0..TotalTimeout /\ TotalTimeout \in 0..TotalTimeout
    /\ 0 \in 0..LeaseTtl /\ LeaseTtl \in 0..LeaseTtl
    /\ Len(Delays) \in Nat /\ 0 \in 0..Len(Delays)
    /\ 0 \in 0..1 /\ 1 \in 0..1
BY LimitsAssumption

\* A step of a worker that leaves the settings and the ledger alone keeps the invariant if
\* what the worker becomes is sound.
LEMMA MoveInv ==
    ASSUME IInv, NEW w \in Workers, NEW r \in Work, WorkOK(r, claim),
           worker' = [worker EXCEPT ![w] = r], UNCHANGED <<settings, claim, stored>>,
           request_count' \in 0..HardLimit
    PROVE  IInv'
<1> USE DEF IInv
<1>1. Types'
    BY DEF Types
<1>2. WorkSound'
    BY DEF Types, WorkSound
<1>3. CredentialCurrent' /\ AnswersItsBinding' /\ StoredStaysReadable'
    BY DEF CredentialCurrent, AnswersItsBinding, StoredStaysReadable, StoredAgrees
<1> QED
    BY <1>1, <1>2, <1>3

\* A worker that has nothing to do is sound.
LEMMA IdleOK == Idle \in Work /\ WorkOK(Idle, claim)
BY LimitsAssumption DEF Idle, Work, Phases, WorkOK, Holding

\* A call that ends leaves the worker idle.
LEMMA EndsInv ==
    ASSUME IInv, NEW w \in Workers, Ends(w), UNCHANGED <<settings, claim, stored, request_count>>
    PROVE  IInv'
BY MoveInv, IdleOK DEF Ends, IInv, Types

\* A call that fails still knows its lease.
LEMMA FailInv ==
    ASSUME IInv, NEW w \in Workers, worker[w].pc \in Holding, Fail(w),
           UNCHANGED <<settings, claim, stored, request_count>>
    PROVE  IInv'
<1> DEFINE r == [Idle EXCEPT !.pc = "release", !.hash = worker[w].hash,
                            !.generation = worker[w].generation]
<1>1. worker[w] \in Work /\ WorkOK(worker[w], claim)
    BY DEF IInv, Types, WorkSound
<1>2. r \in Work /\ WorkOK(r, claim)
  <2>1. r \in Work
    BY <1>1, Limits DEF Idle, Work, Phases
  <2> QED
    BY <1>1, <2>1 DEF Idle, Work, WorkOK, Holding
<1> QED
    BY <1>2, MoveInv DEF Fail, IInv, Types

\* A worker that goes on to a phase without an answer is sound in it.
LEMMA GoToInv ==
    ASSUME IInv, NEW w \in Workers, NEW pc \in Phases \ {"idle", "awaiting", "complete"},
           worker[w].pc # "idle", pc \in Holding => worker[w].pc \in Holding, GoTo(w, pc),
           UNCHANGED <<settings, claim, stored>>, request_count' \in 0..HardLimit
    PROVE  IInv'
<1> DEFINE r == [worker[w] EXCEPT !.pc = pc]
<1>1. worker[w] \in Work /\ WorkOK(worker[w], claim) /\ worker \in [Workers -> Work]
    BY DEF IInv, Types, WorkSound
<1>2. r \in Work /\ WorkOK(r, claim)
    BY <1>1 DEF Work, WorkOK
<1>3. worker' = [worker EXCEPT ![w] = r]
    BY <1>1 DEF GoTo
<1> QED
    BY <1>2, <1>3, MoveInv

-----------------------------------------------------------------------------
(* The provider settings *)

\* The owner replaces or clears the provider: the credential goes with its generation.
LEMMA SettingsInv ==
    ASSUME IInv, Replace \/ Clear PROVE IInv'
<1> USE DEF IInv, ledger
<1>1. settings' \in SettingsRow /\ CredentialCurrent'
  <2>1. CASE Replace
    <3> DEFINE g == IF settings = None THEN 1 ELSE settings.generation + 1
    <3>1. g \in 1..MaxSettings
      BY <2>1, LimitsAssumption DEF Replace, Types, SettingsRow
    <3>2. settings' = [active |-> TRUE, generation |-> g, credential |-> g]
      BY <2>1 DEF Replace
    <3> HIDE DEF g
    <3> QED
      BY <3>1, <3>2 DEF SettingsRow, CredentialCurrent
  <2>2. CASE Clear
    <3>1. settings \in SettingsRow /\ settings.generation + 1 \in 1..MaxSettings
      BY <2>2, LimitsAssumption DEF Clear, Types, SettingsRow
    <3>2. settings' = [settings EXCEPT !.active = FALSE, !.generation = settings.generation + 1]
      BY <2>2 DEF Clear
    <3> QED
      BY <3>1, <3>2 DEF SettingsRow, CredentialCurrent
  <2> QED
    BY <2>1, <2>2
<1>2. UNCHANGED <<claim, stored, request_count, worker>>
    BY DEF Replace, Clear
<1> QED
    BY <1>1, <1>2 DEF Types, WorkSound, WorkOK, AnswersItsBinding, StoredStaysReadable, StoredAgrees

\* The provider in force is the default or a generation of the settings.
LEMMA BindingType ==
    ASSUME IInv PROVE Binding \in Bindings
BY LimitsAssumption, NoneAssumption DEF IInv, Types, Binding, Bindings, Default, SettingsRow

\* A request is answered by the provider it names, or not at all.
LEMMA OriginIsBinding ==
    ASSUME IInv, NEW b \in Bindings, OriginOf(b) # None PROVE OriginOf(b) = b
BY DEF IInv, CredentialCurrent, OriginOf, Binding, Default

-----------------------------------------------------------------------------
(* The steps of a classification *)

\* A classification starts with the provider in force.
LEMMA ClassifyInv ==
    ASSUME IInv, NEW w \in Workers, NEW input \in Inputs, Classify(w, input) PROVE IInv'
<1> DEFINE r == [Idle EXCEPT !.pc = "read", !.hash = <<input, Binding>>]
<1>1. <<input, Binding>> \in Hashes
    BY BindingType DEF Hashes
<1>2. r \in Work /\ WorkOK(r, claim)
  <2>1. r \in Work
    BY <1>1, Limits DEF Idle, Work, Phases
  <2> QED
    BY <1>1, <2>1 DEF Idle, Work, WorkOK, Holding
<1>3. worker' = [worker EXCEPT ![w] = r]
    BY DEF Classify
<1> QED
    BY <1>2, <1>3, MoveInv DEF Classify, ledger, IInv, Types

\* Looking for the stored classification.
LEMMA ReadStoredInv ==
    ASSUME IInv, NEW w \in Workers, ReadStored(w, "read", "claim") \/ ReadStored(w, "reread", "inspect")
    PROVE  IInv'
<1>1. CASE Ends(w)
    BY <1>1, EndsInv DEF ReadStored, ledger
<1>2. CASE GoTo(w, "claim") \/ GoTo(w, "inspect")
    BY <1>2, GoToInv DEF ReadStored, ledger, At, Phases, Holding, IInv, Types
<1> QED
    BY <1>1, <1>2 DEF ReadStored

\* The claim of evidence without a classification is inserted or taken over.
LEMMA AcquireLeaseInv ==
    ASSUME IInv, NEW w \in Workers, AcquireLease(w) PROVE IInv'
<1> DEFINE h == worker[w].hash
           g == IF claim[h] = None THEN 1 ELSE claim[h].generation + 1
           c == [state |-> "PENDING", generation |-> g, owner |-> w, expires |-> LeaseTtl]
           r == [worker[w] EXCEPT !.pc = "leased", !.generation = g]
<1>0. /\ worker \in [Workers -> Work] /\ worker[w] \in Work /\ WorkOK(worker[w], claim)
      /\ h \in Hashes /\ worker[w].pc = "claim"
      /\ claim \in [Hashes -> ClaimRow \cup {None}]
    BY DEF IInv, Types, WorkSound, WorkOK, AcquireLease, At
<1>1. CASE ~Free(h)
    BY <1>0, <1>1, GoToInv DEF AcquireLease, Phases, Holding, IInv, Types
<1>2. CASE Free(h)
  <2>1. claim' = [claim EXCEPT ![h] = c] /\ UNCHANGED <<settings, stored, request_count>>
    BY <1>2 DEF AcquireLease
  <2>2. worker' = [worker EXCEPT ![w] = r]
    BY <1>0, <1>2 DEF AcquireLease
  <2>3. g \in Nat
    BY <1>0, NoneAssumption DEF ClaimRow
  <2>4. c \in ClaimRow /\ c # None /\ c.state = "PENDING"
    BY <2>3, LimitsAssumption, NoneAssumption DEF ClaimRow
  <2>5. r \in Work /\ r.hash = h /\ r.pc = "leased"
    BY <1>0, <2>3 DEF Work, Phases
  <2> HIDE DEF c, g, r
  <2>6. claim'[h] = c /\ \A k \in Hashes : k # h => claim'[k] = claim[k]
    BY <1>0, <2>1
  <2>7. stored[h] = None
    BY <1>0, <1>2 DEF IInv, StoredStaysReadable, StoredAgrees, Free
  <2>8. Types'
    BY <1>0, <2>1, <2>2, <2>4, <2>5 DEF IInv, Types
  <2>9. WorkSound'
    <3>1. WorkOK(r, claim')
      BY <1>0, <2>4, <2>5, <2>6 DEF WorkOK
    <3>2. ASSUME NEW v \in Workers, v # w PROVE WorkOK(worker[v], claim')
      BY <2>4, <2>6, <3>2 DEF IInv, WorkSound, WorkOK, Holding
    <3> QED
      BY <1>0, <2>2, <3>1, <3>2 DEF WorkSound
  <2>10. StoredStaysReadable'
    BY <2>1, <2>4, <2>6, <2>7 DEF IInv, StoredStaysReadable, StoredAgrees
  <2>11. CredentialCurrent' /\ AnswersItsBinding'
    BY <2>1 DEF IInv, CredentialCurrent, AnswersItsBinding
  <2> QED
    BY <2>8, <2>9, <2>10, <2>11 DEF IInv
<1> QED
    BY <1>1, <1>2

\* The deadline starts.
LEMMA StartDeadlineInv ==
    ASSUME IInv, NEW w \in Workers, StartDeadline(w) PROVE IInv'
<1> DEFINE r == [worker[w] EXCEPT !.pc = "ready", !.remaining = TotalTimeout]
<1>0. worker \in [Workers -> Work] /\ worker[w] \in Work /\ WorkOK(worker[w], claim)
    BY DEF IInv, Types, WorkSound
<1>1. r \in Work /\ WorkOK(r, claim)
  <2>1. r \in Work
    BY <1>0, Limits DEF Work, Phases
  <2> QED
    BY <1>0, <2>1 DEF StartDeadline, At, Work, WorkOK, Holding
<1>2. worker' = [worker EXCEPT ![w] = r]
    BY <1>0 DEF StartDeadline
<1> QED
    BY <1>1, <1>2, MoveInv DEF StartDeadline, ledger, IInv, Types

\* A request is reserved in the budget, which it never exceeds, or refused.
LEMMA ReserveInv ==
    ASSUME IInv, NEW w \in Workers, Reserve(w) \/ ReserveFails(w) PROVE IInv'
<1>1. CASE Reserve(w)
  <2>1. request_count' \in 0..HardLimit
    BY <1>1, LimitsAssumption DEF Reserve, IInv, Types
  <2> QED
    BY <1>1, <2>1, GoToInv DEF Reserve, ledger, At, Phases, Holding
<1>2. CASE ReserveFails(w)
    BY <1>2, FailInv DEF ReserveFails, ledger, At, Holding
<1> QED
    BY <1>1, <1>2

\* The request goes to the provider the hash names, or fails.
LEMMA CallInv ==
    ASSUME IInv, NEW w \in Workers, Call(w) PROVE IInv'
<1> DEFINE o == OriginOf(worker[w].hash[2])
           r == [worker[w] EXCEPT !.pc = "awaiting", !.origin = o]
<1>0. /\ worker \in [Workers -> Work] /\ worker[w] \in Work /\ WorkOK(worker[w], claim)
      /\ worker[w].pc = "calling"
    BY DEF IInv, Types, WorkSound, Call, At
<1>1. CASE o = None
    BY <1>0, <1>1, FailInv DEF Call, ledger, Holding
<1>2. CASE o # None
  <2>1. worker[w].hash \in Hashes /\ worker[w].hash[2] \in Bindings
    BY <1>0 DEF WorkOK, Hashes
  <2>2. o = worker[w].hash[2]
    BY <1>2, <2>1, OriginIsBinding
  <2> HIDE DEF o
  <2>3. r \in Work /\ WorkOK(r, claim)
    BY <1>0, <2>1, <2>2 DEF Work, Phases, WorkOK, Holding
  <2>4. worker' = [worker EXCEPT ![w] = r]
    BY <1>0, <1>2 DEF Call, o
  <2> QED
    BY <2>3, <2>4, MoveInv DEF Call, ledger, IInv, Types
<1> QED
    BY <1>1, <1>2

\* The model answers.
LEMMA AnswerInv ==
    ASSUME IInv, NEW w \in Workers, NEW response \in Responses, Answer(w, response) PROVE IInv'
<1> DEFINE r == [worker[w] EXCEPT !.pc = "complete", !.response = response, !.remaining = 0,
                                  !.attempt = 0, !.retry = 0]
           q == [worker[w] EXCEPT !.pc = "ready", !.attempt = @ + 1, !.retry = 0]
<1>0. /\ worker \in [Workers -> Work] /\ worker[w] \in Work /\ WorkOK(worker[w], claim)
      /\ worker[w].pc = "awaiting" /\ Len(Delays) \in Nat
    BY LimitsAssumption DEF IInv, Types, WorkSound, Answer, At
<1>1. ASSUME ValidResponse(response, worker[w].hash[1]) PROVE r \in Work /\ WorkOK(r, claim)
  <2>1. r \in Work
    BY <1>0, Limits DEF Work, Phases
  <2> QED
    BY <1>0, <1>1, <2>1 DEF Work, WorkOK, Holding
<1>2. ASSUME worker[w].attempt = 0 PROVE q \in Work /\ WorkOK(q, claim)
  <2>1. worker[w].attempt + 1 = 1
    BY <1>2
  <2>2. q \in Work
    BY <1>0, <2>1, Limits DEF Work, Phases
  <2> QED
    BY <1>0, <2>2 DEF Work, WorkOK, Holding
<1>3. \/ ValidResponse(response, worker[w].hash[1]) /\ worker' = [worker EXCEPT ![w] = r]
      \/ worker[w].attempt = 0 /\ worker' = [worker EXCEPT ![w] = q]
      \/ Fail(w)
    BY <1>0 DEF Answer, MayAskAgain
<1> QED
    BY <1>0, <1>1, <1>2, <1>3, MoveInv, FailInv DEF Answer, ledger, Holding, IInv, Types

\* A transient failure of the provider is retried after a pause, or ends the call.
LEMMA TransientFailureInv ==
    ASSUME IInv, NEW w \in Workers, TransientFailure(w) PROVE IInv'
<1> DEFINE n == worker[w].retry + 1
           r == [worker[w] EXCEPT !.pc = "sleeping", !.retry = n, !.pause = Delays[n]]
<1>0. /\ worker \in [Workers -> Work] /\ worker[w] \in Work /\ WorkOK(worker[w], claim)
      /\ worker[w].pc = "awaiting" /\ Len(Delays) \in Nat
    BY LimitsAssumption DEF IInv, Types, WorkSound, TransientFailure, At
<1>1. ASSUME worker[w].retry < Len(Delays) PROVE r \in Work /\ WorkOK(r, claim)
  <2>1. n \in 0..Len(Delays) /\ Delays[n] \in Nat
    BY <1>0, <1>1, LimitsAssumption DEF Work
  <2> HIDE DEF n
  <2> QED
    BY <1>0, <2>1 DEF Work, Phases, WorkOK, Holding
<1>2. (worker[w].retry < Len(Delays) /\ worker' = [worker EXCEPT ![w] = r]) \/ Fail(w)
    BY <1>0 DEF TransientFailure
<1> QED
    BY <1>0, <1>1, <1>2, MoveInv, FailInv DEF TransientFailure, ledger, Holding, IInv, Types

\* The classification is stored under the lease, and its claim completed with it.
LEMMA CompleteInv ==
    ASSUME IInv, NEW w \in Workers, NEW acknowledged \in BOOLEAN, Complete(w, acknowledged)
    PROVE  IInv'
<1> DEFINE h == worker[w].hash
           row == [generation |-> worker[w].generation, response |-> worker[w].response,
                   origin |-> worker[w].origin]
           c == [claim[h] EXCEPT !.state = "COMPLETED", !.owner = None, !.expires = 0]
           f == [Idle EXCEPT !.pc = "release", !.hash = h, !.generation = worker[w].generation]
<1>0. /\ worker \in [Workers -> Work] /\ worker[w] \in Work /\ WorkOK(worker[w], claim)
      /\ worker[w].pc = "complete" /\ h \in Hashes
      /\ claim \in [Hashes -> ClaimRow \cup {None}]
      /\ stored \in [Hashes -> StoredRow \cup {None}]
    BY DEF IInv, Types, WorkSound, WorkOK, Complete, At
<1>1. claim[h] \in ClaimRow /\ claim[h].generation = worker[w].generation
    BY <1>0 DEF Complete, HoldsLease
<1>2. /\ worker[w].origin = h[2] /\ h[2] \in Bindings
      /\ worker[w].response \in Responses /\ ValidResponse(worker[w].response, h[1])
    BY <1>0 DEF WorkOK, Complete, Hashes
<1>3. row \in StoredRow /\ row # None /\ row.origin = h[2] /\ ValidResponse(row.response, h[1])
      /\ row.generation = claim[h].generation
    BY <1>0, <1>1, <1>2, NoneAssumption DEF StoredRow, Work
<1>4. c \in ClaimRow /\ c # None /\ c.state = "COMPLETED" /\ c.generation = claim[h].generation
  <2>1. c \in ClaimRow /\ c.state = "COMPLETED" /\ c.generation = claim[h].generation
    BY <1>1, Limits DEF ClaimRow
  <2> QED
    BY <2>1, NoneAssumption
<1>5. stored' = [stored EXCEPT ![h] = row] /\ claim' = [claim EXCEPT ![h] = c]
      /\ UNCHANGED <<settings, request_count>>
    BY <1>0 DEF Complete
<1>6. f \in Work /\ f.hash = h /\ f.pc = "release"
    BY <1>0, Limits DEF Idle, Work, Phases
<1>7. worker' = [worker EXCEPT ![w] = Idle] \/ worker' = [worker EXCEPT ![w] = f]
    BY DEF Complete, Ends, Fail
<1> HIDE DEF row, c, f
<1>8. /\ claim'[h] = c /\ \A k \in Hashes : k # h => claim'[k] = claim[k]
      /\ stored'[h] = row /\ \A k \in Hashes : k # h => stored'[k] = stored[k]
    BY <1>0, <1>5
<1>9. Types'
    BY <1>0, <1>3, <1>4, <1>5, <1>6, <1>7, IdleOK DEF IInv, Types
<1>10. WorkSound'
  <2>1. WorkOK(f, claim') /\ WorkOK(Idle, claim')
    BY <1>0, <1>4, <1>6, <1>8 DEF WorkOK, Idle, Holding
  <2>2. ASSUME NEW v \in Workers, v # w PROVE WorkOK(worker[v], claim')
    BY <1>4, <1>8, <2>2 DEF IInv, WorkSound, WorkOK, Holding
  <2> QED
    BY <1>0, <1>7, <2>1, <2>2 DEF WorkSound
<1>11. AnswersItsBinding'
    BY <1>3, <1>8 DEF IInv, AnswersItsBinding
<1>12. StoredStaysReadable'
    BY <1>3, <1>4, <1>8 DEF IInv, StoredStaysReadable, StoredAgrees
<1>13. CredentialCurrent'
    BY <1>5 DEF IInv, CredentialCurrent
<1> QED
    BY <1>9, <1>10, <1>11, <1>12, <1>13 DEF IInv

\* A claim that is still the lease's own is given back; a completed one is left alone.
LEMMA ReleaseInv ==
    ASSUME IInv, NEW w \in Workers, Release(w) PROVE IInv'
<1> DEFINE h == worker[w].hash
           c == [claim[h] EXCEPT !.generation = @ + 1, !.owner = None, !.expires = 0]
<1>0. /\ worker \in [Workers -> Work] /\ worker[w] \in Work /\ WorkOK(worker[w], claim)
      /\ worker[w].pc = "release" /\ h \in Hashes
      /\ claim \in [Hashes -> ClaimRow \cup {None}] /\ claim[h] \in ClaimRow
    BY DEF IInv, Types, WorkSound, WorkOK, Release, At, Holding
<1>1. CASE claim' = claim
    BY <1>1, EndsInv DEF Release
<1>2. CASE claim[h].state = "PENDING" /\ claim' = [claim EXCEPT ![h] = c]
  <2>1. c \in ClaimRow /\ c # None /\ c.state = "PENDING"
    <3>0. claim[h].generation + 1 \in Nat
      BY <1>0 DEF ClaimRow
    <3>1. c \in ClaimRow /\ c.state = "PENDING"
      BY <1>0, <1>2, <3>0, Limits DEF ClaimRow
    <3> QED
      BY <3>1, NoneAssumption
  <2> HIDE DEF c
  <2>2. claim'[h] = c /\ \A k \in Hashes : k # h => claim'[k] = claim[k]
    BY <1>0, <1>2
  <2>3. worker' = [worker EXCEPT ![w] = Idle] /\ UNCHANGED <<settings, stored, request_count>>
    BY DEF Release, Ends
  <2>4. Types'
    BY <1>0, <1>2, <2>1, <2>3, IdleOK DEF IInv, Types
  <2>5. WorkSound'
    <3>1. WorkOK(Idle, claim')
      BY DEF WorkOK, Idle, Holding
    <3>2. ASSUME NEW v \in Workers, v # w PROVE WorkOK(worker[v], claim')
      BY <2>1, <2>2, <3>2 DEF IInv, WorkSound, WorkOK, Holding
    <3> QED
      BY <1>0, <2>3, <3>1, <3>2 DEF WorkSound
  <2>6. StoredStaysReadable'
    BY <1>0, <1>2, <2>1, <2>2, <2>3 DEF IInv, StoredStaysReadable, StoredAgrees
  <2>7. CredentialCurrent' /\ AnswersItsBinding'
    BY <2>3 DEF IInv, CredentialCurrent, AnswersItsBinding
  <2> QED
    BY <2>4, <2>5, <2>6, <2>7 DEF IInv
<1>3. claim' = claim \/ (claim[h].state = "PENDING" /\ claim' = [claim EXCEPT ![h] = c])
    BY <1>0 DEF Release
<1> QED
    BY <1>1, <1>2, <1>3

\* A second passes: leases and pauses run down and nothing else changes.
LEMMA TickInv ==
    ASSUME IInv, Tick PROVE IInv'
<1>0. /\ worker \in [Workers -> Work] /\ claim \in [Hashes -> ClaimRow \cup {None}]
      /\ UNCHANGED <<settings, stored, request_count>>
    BY DEF IInv, Types, Tick
<1>1. ASSUME NEW h \in Hashes
      PROVE  /\ claim[h] = None => claim'[h] = None
             /\ claim[h] # None => /\ claim'[h] \in ClaimRow /\ claim'[h] # None
                                  /\ claim'[h].state = claim[h].state
                                  /\ claim'[h].generation = claim[h].generation
  <2>1. CASE claim[h] = None
    BY <2>1 DEF Tick
  <2>2. CASE claim[h] # None
    <3>1. claim'[h] = [claim[h] EXCEPT !.expires = Less(@)] /\ claim[h] \in ClaimRow
      BY <1>0, <2>2 DEF Tick
    <3>2. Less(claim[h].expires) \in 0..LeaseTtl
      BY <3>1, LimitsAssumption DEF Less, ClaimRow
    <3> QED
      BY <2>2, <3>1, <3>2, NoneAssumption DEF ClaimRow
  <2> QED
    BY <2>1, <2>2
<1>2. ASSUME NEW w \in Workers
      PROVE  /\ worker'[w] \in Work
             /\ worker'[w].pc = worker[w].pc /\ worker'[w].hash = worker[w].hash
             /\ worker'[w].origin = worker[w].origin /\ worker'[w].response = worker[w].response
  <2>1. worker'[w] = [worker[w] EXCEPT !.remaining = Less(@), !.pause = Less(@)] /\ worker[w] \in Work
    BY <1>0 DEF Tick
  <2>2. Less(worker[w].remaining) \in 0..TotalTimeout /\ Less(worker[w].pause) \in Nat
    <3>1. worker[w].remaining \in 0..TotalTimeout /\ worker[w].pause \in Nat
      BY <2>1 DEF Work
    <3> QED
      BY <3>1, LimitsAssumption DEF Less
  <2> QED
    BY <2>1, <2>2 DEF Work
<1>3. Types'
    BY <1>0, <1>1, <1>2 DEF IInv, Types, Tick
<1>4. WorkSound'
    BY <1>1, <1>2 DEF IInv, WorkSound, WorkOK, Holding
<1>5. AnswersItsBinding' /\ CredentialCurrent'
    BY <1>0 DEF IInv, AnswersItsBinding, CredentialCurrent
<1>6. StoredStaysReadable'
    BY <1>0, <1>1 DEF IInv, StoredStaysReadable, StoredAgrees
<1> QED
    BY <1>3, <1>4, <1>5, <1>6 DEF IInv

\* Every step preserves the invariant.
LEMMA NextInv ==
    ASSUME IInv, [Next]_vars PROVE IInv'
<1>1. ASSUME NEW w \in Workers, InspectClaim(w) \/ ReleaseFails(w) \/ Crash(w) PROVE IInv'
    BY <1>1, EndsInv DEF InspectClaim, ReleaseFails, Crash, ledger
<1>2. ASSUME NEW w \in Workers, ProviderFails(w) \/ CompleteFails(w) PROVE IInv'
    BY <1>2, FailInv DEF ProviderFails, CompleteFails, At, Holding, ledger
<1>3. ASSUME NEW w \in Workers, Wake(w) PROVE IInv'
    BY <1>3, GoToInv DEF Wake, At, Phases, Holding, ledger, IInv, Types
<1>4. CASE UNCHANGED vars
    BY <1>4 DEF vars, IInv, Types, CredentialCurrent, WorkSound, WorkOK, AnswersItsBinding,
                StoredStaysReadable, StoredAgrees
<1> QED
    BY <1>1, <1>2, <1>3, <1>4, SettingsInv, ClassifyInv, ReadStoredInv, AcquireLeaseInv,
       StartDeadlineInv, ReserveInv, CallInv, AnswerInv, TransientFailureInv, CompleteInv,
       ReleaseInv, TickInv
       DEF Next

-----------------------------------------------------------------------------
(* Theorems *)

\* Whatever the workers, the owner and the clock do, the ledger stays in the invariant.
THEOREM EvidenceInvariant == Spec => []IInv
<1>1. Init => IInv
  <2> SUFFICES ASSUME Init PROVE IInv
    OBVIOUS
  <2>1. Types
    BY IdleOK, LimitsAssumption DEF Init, Types
  <2>2. WorkSound
    BY IdleOK DEF Init, WorkSound
  <2>3. CredentialCurrent /\ AnswersItsBinding /\ StoredStaysReadable
    BY DEF Init, CredentialCurrent, AnswersItsBinding, StoredStaysReadable, StoredAgrees
  <2> QED
    BY <2>1, <2>2, <2>3 DEF IInv
<1>2. IInv /\ [Next]_vars => IInv'
    BY NextInv
<1> QED
    BY <1>1, <1>2, PTL DEF Spec

\* The rows of the ledger and of the settings keep their types, and the model calls stay
\* within the durable budget (ModelCallBudgetRow.hard_limit).
THEOREM EvidenceTypes == Spec => []TypeOK
<1>1. IInv => TypeOK
    BY DEF IInv, Types, TypeOK, Work
<1> QED
    BY <1>1, EvidenceInvariant, PTL

\* A stored classification is of the provider its hash names, and classifies each cluster of
\* the evidence its hash names from that cluster's sources (OwnerModelTransportResolver.generate,
\* EvidenceClassifier._validate_response).
THEOREM AnswersItsBindingHolds == Spec => []AnswersItsBinding
<1>1. IInv => AnswersItsBinding
    BY DEF IInv
<1> QED
    BY <1>1, EvidenceInvariant, PTL

\* A stored classification agrees with its claim, and a completed claim has one
\* (SQLAlchemyEvidenceLedger._read_stored, complete, release).
THEOREM StoredStaysReadableHolds == Spec => []StoredStaysReadable
<1>1. IInv => StoredStaysReadable
    BY DEF IInv
<1> QED
    BY <1>1, EvidenceInvariant, PTL

\* A classification that is stored is never replaced, by a late completion, a takeover or a
\* retry after a commit that was not acknowledged (SQLAlchemyEvidenceLedger.complete).
StoredIsFinal == \A h \in Hashes : stored[h] # None => stored'[h] = stored[h]

\* No step replaces a stored classification.
THEOREM StoredIsFinalHolds == Spec => [][StoredIsFinal]_vars
<1>1. IInv /\ [Next]_vars => [StoredIsFinal]_vars
  <2> SUFFICES ASSUME IInv, Next PROVE StoredIsFinal
    BY DEF vars, StoredIsFinal
  <2>1. ASSUME NEW w \in Workers, NEW acknowledged \in BOOLEAN, Complete(w, acknowledged)
        PROVE  StoredIsFinal
    <3>1. stored \in [Hashes -> StoredRow \cup {None}]
      BY DEF IInv, Types
    <3>2. claim[worker[w].hash].state = "PENDING"
      BY <2>1 DEF Complete, HoldsLease
    <3>3. worker[w].hash \in Hashes
      BY <2>1 DEF IInv, WorkSound, WorkOK, Complete, At
    <3>4. stored[worker[w].hash] = None
      BY <3>2, <3>3 DEF IInv, StoredStaysReadable, StoredAgrees
    <3> QED
      BY <2>1, <3>1, <3>3, <3>4 DEF Complete, StoredIsFinal
  <2>2. ASSUME stored' = stored PROVE StoredIsFinal
    BY <2>2 DEF StoredIsFinal
  <2> QED
    BY <2>1, <2>2, ZenonT(60) DEF Next, Replace, Clear, Classify, ReadStored, AcquireLease, InspectClaim,
       StartDeadline, Reserve, ReserveFails, Call, Answer, TransientFailure, ProviderFails, Wake,
       CompleteFails, Release, ReleaseFails, Crash, Tick, ledger
<1> QED
    BY <1>1, EvidenceInvariant, PTL DEF Spec
=============================================================================
