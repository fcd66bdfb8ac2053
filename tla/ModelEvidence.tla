---------------------------- MODULE ModelEvidence ----------------------------
(***************************************************************************)
(* Classification of news evidence by a model, as EvidenceClassifier runs   *)
(* it against the database: the owner may replace or clear the model         *)
(* provider meanwhile (OwnerProviderSettingsService), every call of a model  *)
(* is paid from one durable budget, and SQLAlchemyEvidenceLedger lets one     *)
(* worker at a time own the classification of one piece of evidence, under   *)
(* a lease that expires.  A worker is a process with one call under way.     *)
(* PostgreSQL runs the ledger READ COMMITTED, so each statement of acquire   *)
(* is a step of its own; the writes of complete, release and replace are one *)
(* transaction each.  Clocks are the time that is left: of a lease, of the   *)
(* classification, of the pause before a retry.  The provider, its endpoint, *)
(* its model and its credential are named by the generation of the settings  *)
(* under which the owner entered them; 0 is the deployment's own provider.    *)
(***************************************************************************)
EXTENDS Naturals, Sequences, Functions

CONSTANTS
    Workers,            \* processes that classify
    Inputs,             \* evidence: sequences of clusters [id, sources]
    Responses,          \* model output: sequences of items [cluster, sources, invalidation]
    InvalidationIds,    \* invalidation_condition_ids of the context
    LeaseTtl,           \* lease_ttl
    TotalTimeout,       \* total_timeout_seconds
    Delays,             \* pauses before the retries of a transient failure
    HardLimit,          \* ModelCallBudgetRow.hard_limit
    MaxClusters,        \* twelve in the code
    MaxSettings,        \* bound on the generations of the settings
    MaxClaims,          \* bound on the generations of a claim that a call starts from
    None

ASSUME LimitsAssumption ==
    /\ LeaseTtl \in Nat \ {0} /\ TotalTimeout \in Nat \ {0}
    /\ HardLimit \in Nat
    /\ MaxSettings \in Nat /\ MaxClaims \in Nat /\ MaxClusters \in Nat
    /\ Delays \in Seq(Nat \ {0})

\* ModelProviderBinding; DEFAULT_GEMINI_BINDING has generation 0.
Default == 0
Bindings == Default..MaxSettings
Hashes == Inputs \X Bindings

VARIABLES
    settings,       \* OwnerProviderSettingsRow, or None
    claim,          \* EvidenceClassificationClaimRow of each hash, or None
    stored,         \* EvidenceClassificationRow of each hash, or None
    request_count,  \* ModelCallBudgetRow.request_count
    worker         \* the call each worker runs

vars == <<settings, claim, stored, request_count, worker>>

Phases == {"idle", "read", "claim", "reread", "inspect", "leased", "ready", "calling",
           "awaiting", "sleeping", "complete", "release"}
Idle == [pc |-> "idle", hash |-> None, generation |-> 0, remaining |-> 0, attempt |-> 0,
         retry |-> 0, pause |-> 0, origin |-> None, response |-> None]

\* OwnerProviderSettingsRow, EvidenceClassificationClaimRow, EvidenceClassificationRow
SettingsRow == [active : BOOLEAN, generation : 1..MaxSettings, credential : 1..MaxSettings]
ClaimRow == [state : {"PENDING", "COMPLETED"}, generation : Nat, owner : Workers \cup {None},
             expires : 0..LeaseTtl]
StoredRow == [generation : Nat, response : Responses, origin : Bindings]

\* None is no row.
ASSUME NoneAssumption == None \notin SettingsRow \cup ClaimRow \cup StoredRow

TypeOK ==
    /\ settings \in SettingsRow \cup {None}
    /\ \A h \in Hashes : claim[h] \in ClaimRow \cup {None} /\ stored[h] \in StoredRow \cup {None}
    /\ request_count \in 0..HardLimit
    /\ \A w \in Workers :
           /\ worker[w].pc \in Phases
           /\ worker[w].hash \in Hashes \cup {None}
           /\ worker[w].remaining \in 0..TotalTimeout
           /\ worker[w].attempt \in 0..1
           /\ worker[w].retry \in 0..Len(Delays)
           /\ worker[w].origin \in Bindings \cup {None}
           /\ worker[w].response \in Responses \cup {None}

Init ==
    /\ settings = None
    /\ claim = [h \in Hashes |-> None]
    /\ stored = [h \in Hashes |-> None]
    /\ request_count = 0
    /\ worker = [w \in Workers |-> Idle]

ledger == <<claim, stored>>

-----------------------------------------------------------------------------
(* Validation *)

\* No two entries of the list name the same source.
SourcesDistinct(list) ==
    \A i, j \in DOMAIN list : \A a \in DOMAIN list[i].sources, b \in DOMAIN list[j].sources :
        list[i].sources[a] = list[j].sources[b] => i = j /\ a = b

\* _validate_input_clusters
ValidInput(clusters) ==
    /\ Len(clusters) <= MaxClusters
    /\ IsInjective([i \in DOMAIN clusters |-> clusters[i].id])
    /\ SourcesDistinct(clusters)

\* _validate_response: every cluster once, each with sources of its own and no other.
ValidResponse(response, clusters) ==
    /\ IsInjective([i \in DOMAIN response |-> response[i].cluster])
    /\ {response[i].cluster : i \in DOMAIN response} = {clusters[i].id : i \in DOMAIN clusters}
    /\ \A i \in DOMAIN response :
           /\ IsInjective(response[i].sources)
           /\ \E c \in Range(clusters) :
                  /\ c.id = response[i].cluster
                  /\ Range(response[i].sources) \subseteq Range(c.sources)
           /\ response[i].invalidation \in InvalidationIds \cup {None}

\* _classification_payload: what complete accepts, checked without the input.
Storable(response) ==
    /\ Len(response) \in 1..MaxClusters
    /\ IsInjective([i \in DOMAIN response |-> response[i].cluster])
    /\ SourcesDistinct(response)

-----------------------------------------------------------------------------
(* Provider settings *)

\* OwnerModelTransportResolver.resolve_binding
Binding == IF settings = None \/ ~settings.active THEN Default ELSE settings.generation

\* SQLAlchemyProviderSettingsRepository.replace; the row is locked, and the credential is
\* encrypted under the metadata it is stored with.
Replace ==
    LET generation == IF settings = None THEN 1 ELSE settings.generation + 1
    IN  /\ generation <= MaxSettings
        /\ settings' = [active |-> TRUE, generation |-> generation, credential |-> generation]
        /\ UNCHANGED <<ledger, request_count, worker>>

\* SQLAlchemyProviderSettingsRepository.clear
Clear ==
    /\ settings # None /\ settings.active
    /\ settings.generation < MaxSettings
    /\ settings' = [settings EXCEPT !.active = FALSE, !.generation = @ + 1]
    /\ UNCHANGED <<ledger, request_count, worker>>

-----------------------------------------------------------------------------
(* A classification *)

At(w, pc) == worker[w].pc = pc
GoTo(w, pc) == worker' = [worker EXCEPT ![w].pc = pc]

\* The call ends, with a classification or without.
Ends(w) == worker' = [worker EXCEPT ![w] = Idle]

\* The classification failed while the lease was held: what is left is to release it.
Fail(w) ==
    worker' = [worker EXCEPT ![w] = [Idle EXCEPT !.pc = "release", !.hash = worker[w].hash,
                                                 !.generation = worker[w].generation]]

\* _classify_context up to the lease: the provider is read once and is part of the hash.
Classify(w, input) ==
    /\ At(w, "idle")
    /\ ValidInput(input) /\ input # <<>>
    /\ LET hash == <<input, Binding>>
       IN  /\ claim[hash] # None => claim[hash].generation < MaxClaims
           /\ worker' = [worker EXCEPT ![w] = [Idle EXCEPT !.pc = "read", !.hash = hash]]
    /\ UNCHANGED <<settings, ledger, request_count>>

\* _read_stored: the row must agree with its claim.
StoredAgrees(h) ==
    /\ claim[h] # None
    /\ claim[h].state = "COMPLETED"
    /\ claim[h].generation = stored[h].generation

\* acquire reads the classification, first and once more at the end; without one it goes on,
\* and one that disagrees with its claim is MODEL_CLASSIFICATION_INTEGRITY_ERROR.
ReadStored(w, here, next) ==
    LET h == worker[w].hash
    IN  /\ At(w, here)
        /\ IF stored[h] = None THEN GoTo(w, next) ELSE Ends(w)
        /\ UNCHANGED <<settings, ledger, request_count>>

\* The claim of the evidence can be inserted, or taken over.
Free(h) ==
    IF claim[h] = None THEN TRUE ELSE claim[h].state = "PENDING" /\ claim[h].expires = 0

\* acquire inserts the claim, or takes over one whose lease has run out.
AcquireLease(w) ==
    LET h == worker[w].hash
        generation == IF claim[h] = None THEN 1 ELSE claim[h].generation + 1
    IN  /\ At(w, "claim")
        /\ \/ /\ Free(h)
              /\ claim' = [claim EXCEPT ![h] = [state |-> "PENDING", generation |-> generation,
                                                owner |-> w, expires |-> LeaseTtl]]
              /\ worker' = [worker EXCEPT ![w].pc = "leased", ![w].generation = generation]
           \/ ~Free(h) /\ GoTo(w, "reread") /\ UNCHANGED claim
        /\ UNCHANGED <<settings, stored, request_count>>

\* acquire looks at the claim it could not take: MODEL_CLASSIFICATION_IN_PROGRESS when it is
\* pending, MODEL_CLASSIFICATION_INTEGRITY_ERROR otherwise.
InspectClaim(w) ==
    /\ At(w, "inspect")
    /\ Ends(w)
    /\ UNCHANGED <<settings, ledger, request_count>>

\* The deadline of the whole classification starts after the lease.
StartDeadline(w) ==
    /\ At(w, "leased")
    /\ worker' = [worker EXCEPT ![w].pc = "ready", ![w].remaining = TotalTimeout]
    /\ UNCHANGED <<settings, ledger, request_count>>

\* _generate reserves the request in the durable budget.
Reserve(w) ==
    /\ At(w, "ready")
    /\ worker[w].remaining > 0
    /\ request_count < HardLimit
    /\ request_count' = request_count + 1
    /\ GoTo(w, "calling")
    /\ UNCHANGED <<settings, ledger>>

\* MODEL_TIMEOUT, MODEL_CALL_BUDGET_EXHAUSTED of the process or of the ledger, or the ledger
\* cannot be reached.
ReserveFails(w) ==
    /\ At(w, "ready")
    /\ Fail(w)
    /\ UNCHANGED <<settings, ledger, request_count>>

\* Mutant: the credential is resolved whatever its binding is now.
OriginNow(binding) ==
    IF binding = Default \/ settings = None THEN Default ELSE settings.credential

\* The provider that answers a request made under the binding, if it is still configured.
OriginOf(binding) ==
    IF Binding # binding THEN None
    ELSE IF binding = Default THEN Default ELSE settings.credential

\* OwnerModelTransportResolver.generate reads the settings again and refuses a request made
\* under another binding (MODEL_PROVIDER_CHANGED); the call itself follows.
Call(w) ==
    LET origin == OriginOf(worker[w].hash[2])
    IN  /\ At(w, "calling")
        /\ IF origin = None
           THEN Fail(w)
           ELSE worker' = [worker EXCEPT ![w].pc = "awaiting", ![w].origin = origin]
        /\ UNCHANGED <<settings, ledger, request_count>>

\* classify makes two attempts.
MayAskAgain(w) == worker[w].attempt = 0

\* The model answers: a valid response is completed, an invalid one is asked for once more.
Answer(w, response) ==
    LET me == worker[w]
    IN  /\ At(w, "awaiting")
        /\ \/ /\ ValidResponse(response, me.hash[1])
              /\ worker' = [worker EXCEPT ![w].pc = "complete", ![w].response = response,
                                         ![w].remaining = 0, ![w].attempt = 0, ![w].retry = 0]
           \/ /\ ~ValidResponse(response, me.hash[1])
              /\ MayAskAgain(w)
              /\ worker' = [worker EXCEPT ![w].pc = "ready", ![w].attempt = @ + 1,
                                         ![w].retry = 0]
           \/ /\ ~ValidResponse(response, me.hash[1])
              /\ ~MayAskAgain(w)
              /\ Fail(w)
        /\ UNCHANGED <<settings, ledger, request_count>>

\* A transient failure is retried after a pause that must end before the deadline.
TransientFailure(w) ==
    LET me == worker[w]
    IN  /\ At(w, "awaiting")
        /\ IF me.retry < Len(Delays) /\ Delays[me.retry + 1] < me.remaining
           THEN worker' = [worker EXCEPT ![w].pc = "sleeping", ![w].retry = @ + 1,
                                         ![w].pause = Delays[me.retry + 1]]
           ELSE Fail(w)
        /\ UNCHANGED <<settings, ledger, request_count>>

\* A timeout, a quota or any other error of the provider.
ProviderFails(w) ==
    /\ At(w, "awaiting")
    /\ Fail(w)
    /\ UNCHANGED <<settings, ledger, request_count>>

Wake(w) ==
    /\ At(w, "sleeping") /\ worker[w].pause = 0
    /\ GoTo(w, "ready")
    /\ UNCHANGED <<settings, ledger, request_count>>

\* Mutant: the generation of the lease is not compared.
HoldsAnyLease(w) ==
    LET c == claim[worker[w].hash]
    IN  c # None /\ c.state = "PENDING"

\* _lease_matches
HoldsLease(w) ==
    LET c == claim[worker[w].hash]
    IN  /\ c # None /\ c.state = "PENDING"
        /\ c.generation = worker[w].generation
        /\ c.owner = w
        /\ c.expires > 0

\* complete stores the classification and completes the claim in one transaction, under the
\* lease; the commit may be lost on its way back.
Complete(w, acknowledged) ==
    LET me == worker[w]
        row == [generation |-> me.generation, response |-> me.response, origin |-> me.origin]
    IN  /\ At(w, "complete")
        /\ Storable(me.response)
        /\ HoldsLease(w)
        /\ stored' = [stored EXCEPT ![me.hash] = row]
        /\ claim' = [claim EXCEPT ![me.hash].state = "COMPLETED", ![me.hash].owner = None,
                                  ![me.hash].expires = 0]
        /\ IF acknowledged THEN Ends(w) ELSE Fail(w)
        /\ UNCHANGED <<settings, request_count>>

\* MODEL_CLASSIFICATION_LEASE_LOST, a payload that is refused, or a database failure.
CompleteFails(w) ==
    /\ At(w, "complete")
    /\ Fail(w)
    /\ UNCHANGED <<settings, ledger, request_count>>

\* release gives a claim back that is still this lease's, and fences it off.
Release(w) ==
    LET h == worker[w].hash
        mine == /\ claim[h].state = "PENDING"
                /\ claim[h].generation = worker[w].generation
                /\ claim[h].owner = w
    IN  /\ At(w, "release")
        /\ claim' = IF mine
                    THEN [claim EXCEPT ![h].generation = @ + 1, ![h].owner = None,
                                       ![h].expires = 0]
                    ELSE claim
        /\ Ends(w)
        /\ UNCHANGED <<settings, stored, request_count>>

\* The database cannot be reached: the lease is left to expire.
ReleaseFails(w) ==
    /\ At(w, "release")
    /\ Ends(w)
    /\ UNCHANGED <<settings, ledger, request_count>>

\* The process dies and its lease stays.
Crash(w) ==
    /\ ~At(w, "idle")
    /\ Ends(w)
    /\ UNCHANGED <<settings, ledger, request_count>>

\* A second passes.
Less(n) == IF n = 0 THEN 0 ELSE n - 1
Tick ==
    /\ claim' = [h \in Hashes |->
                    IF claim[h] = None THEN None ELSE [claim[h] EXCEPT !.expires = Less(@)]]
    /\ worker' = [w \in Workers |->
                    [worker[w] EXCEPT !.remaining = Less(@), !.pause = Less(@)]]
    /\ UNCHANGED <<settings, stored, request_count>>

Next ==
    \/ Replace
    \/ Clear
    \/ \E w \in Workers :
           \/ \E input \in Inputs : Classify(w, input)
           \/ ReadStored(w, "read", "claim")
           \/ AcquireLease(w)
           \/ ReadStored(w, "reread", "inspect")
           \/ InspectClaim(w)
           \/ StartDeadline(w)
           \/ Reserve(w)
           \/ ReserveFails(w)
           \/ Call(w)
           \/ \E response \in Responses : Answer(w, response)
           \/ TransientFailure(w)
           \/ ProviderFails(w)
           \/ Wake(w)
           \/ \E acknowledged \in BOOLEAN : Complete(w, acknowledged)
           \/ CompleteFails(w)
           \/ Release(w)
           \/ ReleaseFails(w)
           \/ Crash(w)
    \/ Tick

Spec == Init /\ [][Next]_vars

-----------------------------------------------------------------------------
(* Properties *)

\* A stored classification is of the provider and the credential its hash names, although the
\* owner may replace or clear the settings between the moment the hash is computed and every
\* later call (OwnerModelTransportResolver.generate); and it classifies the evidence its hash
\* names: each cluster of it once, from sources of that cluster, and no other.  The ledger
\* that stores it sees the hash and the response only.
AnswersItsBinding ==
    \A h \in Hashes : stored[h] # None =>
        /\ stored[h].origin = h[2]
        /\ ValidResponse(stored[h].response, h[1])

\* Whatever takeovers, late completions and late releases happen, a stored classification
\* agrees with its claim, so the integrity check of _read_stored refuses none of them; and a
\* completed claim has its classification, so whoever meets it in InspectClaim (a worker that
\* looked for the classification just before it was stored) is served by its next call.
StoredStaysReadable ==
    \A h \in Hashes :
        stored[h] # None \/ (claim[h] # None /\ claim[h].state = "COMPLETED")
        => stored[h] # None /\ StoredAgrees(h)
=============================================================================
