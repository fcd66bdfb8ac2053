----------------------- MODULE BrokerExecutionProofs -----------------------
(***************************************************************************)
(* Broker writes are serial, the rows follow the broker, the lineage of the   *)
(* attempts is never broken and a certificate tells the truth: for any        *)
(* number of workers, replacements, permits, crashes and contracts, and for   *)
(* every combination of faults.                                              *)
(*                                                                         *)
(* IInv ties permits, rows, orders and workers together: only the newest      *)
(* permit is open, a generation that is issued again was never dispatched, no *)
(* replacement follows a cancel, a row follows its order, and a final sweep   *)
(* that found nothing open stays true until the next observation.  What is    *)
(* recorded and told of an execution (ExecutionRecord) needs RInv as well:    *)
(* the newest observation has settled its permit, and the certificate is of   *)
(* that observation and of the only attempt that filled.                     *)
(***************************************************************************)
EXTENDS ExecutionRecord, SequenceTheorems, FiniteSetTheorems, WellFoundedInduction, TLAPS

\* The states the broker gives an order here.
Live == {"NEW", "PARTIALLY_FILLED", "PENDING_CANCEL", "PENDING_REPLACE"}
BrokerStates == Live \cup TERMINAL \cup {"NONE", "PENDING_NEW"}

BrokerOrder == [st : BrokerStates, fill : 0..Qty]
Seen == [st : BrokerStates \cup {"FAILED", "PREPARED"}, fill : 0..Qty]
AttemptRow == [st : (BrokerStates \ {"NONE"}) \cup {"PREPARED"}, fill : 0..Qty, looked : BOOLEAN,
               fresh : BOOLEAN, stalled : BOOLEAN]
Permit == [kind : Kinds, ord : Ordinals, st : PermitStates, late : BOOLEAN, proof : Seen, pred : Nat]
Sums == {HeldIn(f) : f \in [Ordinals -> BrokerOrder]}
Swept == [open : SUBSET [ord : Ordinals, st : BrokerStates, fill : 0..Qty], held : Sums \cup {0},
          good : BOOLEAN]
Steps == {"idle", "schedule", "lookup", "record", "again", "quotes", "sweep", "prepare", "acquire",
          "call", "reread", "outcome", "final", "finalize"}
Worker == [pc : Steps, mode : {"first", "again", "cancel", "submit", "outdated"}, kind : Kinds,
           p : Nat, ord : Ordinals, seen : Seen, sweep : Swept, stage : 0..Hard, tries : Int]

Types ==
    /\ intent \in {"CLAIMED", "TERMINAL"}
    /\ locked \in BOOLEAN /\ authorized \in BOOLEAN /\ first_valid \in BOOLEAN
    /\ certified \in 0..Qty
    /\ stage \in 0..Hard
    /\ attempts \in Seq(AttemptRow) /\ Len(attempts) <= LastOrdinal + 1
    /\ permits \in Seq(Permit) /\ Len(permits) <= MaxPermits
    /\ last \in 0..Len(permits)
    /\ orders \in [Ordinals -> BrokerOrder]
    /\ net \subseteq DOMAIN permits
    /\ wk \in [Workers -> Worker]

Newest == Len(attempts) - 1
Creates(p) == permits[p].kind # "CANCEL"
Creating(p, o) == Creates(p) /\ permits[p].ord = o

\* Every generation that was to create the attempt has expired.
GivenUp(o) == \A p \in DOMAIN permits : Creating(p, o) => permits[p].st = "EXPIRED"

\* Every attempt has a permit that creates it; of several generations all but the last have
\* expired; and only the newest permit of all can be open.
PermitsSound ==
    /\ \A p \in DOMAIN permits :
          /\ permits[p].ord \in Rows
          /\ permits[p].kind = "SUBMIT" => permits[p].ord = 0
          /\ permits[p].kind = "REPLACE" => permits[p].ord # 0
          /\ permits[p].st \in ACTIVE => p = Len(permits)
          /\ Creates(p) /\ p = Len(permits) => permits[p].ord = Newest
          /\ Creates(p) /\ permits[p].st = "CONSUMED" => Row(permits[p].ord).st # "PREPARED"
          /\ Creates(p) /\ permits[p].ord < Newest => permits[p].st \in {"CONSUMED", "EXPIRED"}
    /\ \A o \in Rows : \E p \in DOMAIN permits : Creating(p, o)
    /\ \A p, q \in DOMAIN permits :
          Creates(p) /\ Creates(q) /\ permits[q].ord = permits[p].ord /\ p < q => permits[p].st = "EXPIRED"

\* An order is cancelled because it was partly filled or because the day's boundary is near,
\* and no replacement of it follows; one that was prepared before is given up for it.
CancelsSound ==
    /\ \A p \in DOMAIN permits : ~Creates(p) =>
          /\ Row(permits[p].ord).st # "PREPARED"
          /\ \/ /\ permits[p].ord = Newest
                /\ stage = Hard \/ Row(Newest).fill > 0
             \/ /\ permits[p].ord = Newest - 1
                /\ Row(Newest).st = "PREPARED" /\ GivenUp(Newest) /\ stage = Hard
    /\ \A o \in Rows : GivenUp(o) =>
          /\ o = Newest /\ o > 0 /\ Row(o).st = "PREPARED"
          /\ \E p, q \in DOMAIN permits :
                /\ ~Creates(p) /\ permits[p].ord = o - 1 /\ permits[p].pred = q
                /\ Creating(q, o) /\ \A r \in DOMAIN permits : Creating(r, o) => r <= q

\* A row that was observed follows its order.
Follows(seen, order) ==
    /\ order.st # "NONE" /\ seen.fill <= order.fill
    /\ seen.st \in TERMINAL => seen.st = order.st /\ seen.fill = order.fill

RowsSound ==
    \A o \in Rows :
        /\ Row(o).st = "PREPARED" => o = Newest /\ Row(o).fill = 0
        /\ Row(o).st # "PREPARED" => StateMatchesFill(Row(o).st, Row(o).fill, Qty) /\ Follows(Row(o), orders[o])

\* An order exists only once its attempt was dispatched, and a request that creates one is
\* on its way only while there is none.
OrdersSound ==
    /\ \A o \in Ordinals :
          /\ o \notin Rows => orders[o].st = "NONE"
          /\ orders[o].st \in {"NONE", "PENDING_NEW"} => orders[o].fill = 0
          /\ orders[o].st \in Live => orders[o].fill < Qty
          /\ orders[o].st = "PENDING_REPLACE" => o < LastOrdinal /\ orders[o + 1].st = "PENDING_NEW"
    /\ \A p \in net : permits[p].st \in DISPATCHED
    /\ \A p \in DOMAIN permits :
          Creates(p) /\ (p \in net \/ permits[p].st = "PREPARED") => orders[permits[p].ord].st = "NONE"

\* The newest attempt that counts has ended and no order is open.
Ended == attempts # <<>> /\ Row(Current).st \in TERMINAL /\ OpenOrders = {}

\* What a worker carries from one step to the next.
WorkerOK(r) ==
    /\ r.pc \in {"acquire", "call", "reread", "outcome", "lookup", "record"} =>
          r.p \in DOMAIN permits /\ r.ord = permits[r.p].ord
    /\ r.pc = "again" => attempts # <<>>
    /\ r.pc \in {"sweep", "prepare"} =>
          /\ r.stage <= stage
          /\ r.kind = "SUBMIT" => r.ord = 0
          /\ r.kind # "SUBMIT" => attempts # <<>>
          /\ r.kind = "CANCEL" => r.ord \in Rows /\ (stage = Hard \/ Row(r.ord).fill > 0)
    /\ r.pc \in {"record", "outcome"} /\ r.seen.st \notin {"NONE", "FAILED"} =>
          r.seen.st # "PREPARED" /\ Follows(r.seen, orders[r.ord])
    /\ r.pc = "finalize" /\ r.mode # "outdated" /\ r.sweep.open = {} => Ended /\ r.sweep.held = Held

WorkersSound == \A w \in Workers : WorkerOK(wk[w])

CertificateSound == intent = "TERMINAL" => Ended /\ certified = Held

IInv == Types /\ PermitsSound /\ CancelsSound /\ RowsSound /\ OrdersSound /\ WorkersSound /\ CertificateSound

-----------------------------------------------------------------------------
(* The latest generation of a permit *)

\* A set of permits has a latest one.
LEMMA MaxIs ==
    ASSUME NEW n \in Nat, NEW S \in SUBSET (1..n), S # {}
    PROVE  Max(S) \in S /\ \A y \in S : y <= Max(S)
<1> DEFINE Lt == OpToRel(<, Nat)
           Bounds == {k \in Nat : \A y \in S : y <= k}
<1>1. \A x, y \in Nat : <<x, y>> \in Lt <=> x < y
    BY DEF OpToRel
<1>2. PICK k \in Bounds : \A j \in Bounds : ~(<<j, k>> \in Lt)
  <2>1. Bounds \subseteq Nat /\ n \in Bounds
    OBVIOUS
  <2>2. IsWellFoundedOn(Lt, Nat)
    BY NatLessThanWellFounded
  <2> HIDE DEF Bounds, Lt
  <2> QED
    BY <2>1, <2>2, WFMin
<1>3. k \in Nat /\ (\A y \in S : y <= k) /\ \A j \in Nat : (\A y \in S : y <= j) => ~(j < k)
    BY <1>1, <1>2
<1>4. k \in S
  <2> SUFFICES ASSUME k \notin S PROVE FALSE
    OBVIOUS
  <2>1. \A y \in S : y \in Nat /\ y # k /\ y >= 1
    OBVIOUS
  <2>2. PICK z \in S : TRUE
    OBVIOUS
  <2>3. k >= 1
    BY <1>3, <2>1, <2>2
  <2>4. k - 1 \in Nat /\ (\A y \in S : y <= k - 1) /\ k - 1 < k
    BY <1>3, <2>1, <2>3
  <2> QED
    BY <1>3, <2>4
<1>5. \E x \in S : \A y \in S : x >= y
    BY <1>3, <1>4
<1> QED
    BY <1>5 DEF Max

\* The one member of a set is its maximum.
LEMMA MaxOfOne ==
    ASSUME NEW n \in Nat PROVE Max({n}) = n
<1>1. \E x \in {n} : \A y \in {n} : x >= y
    OBVIOUS
<1> QED
    BY <1>1 DEF Max

\* The shape of the rows.
LEMMA Shape ==
    ASSUME Types
    PROVE  /\ DOMAIN permits = 1..Len(permits) /\ Len(permits) \in Nat
           /\ Len(attempts) \in Nat /\ Newest \in Int /\ LastOrdinal \in Nat /\ Hard \in Nat
           /\ Rows \subseteq Ordinals /\ (attempts = <<>> <=> Len(attempts) = 0)
           /\ Newest \in Rows <=> attempts # <<>>
           /\ \A p \in DOMAIN permits : permits[p] \in Permit
           /\ \A o \in Rows : Row(o) \in AttemptRow /\ o \in Int
<1>1. /\ DOMAIN permits = 1..Len(permits) /\ Len(permits) \in Nat /\ Len(attempts) \in Nat
      /\ attempts \in Seq(AttemptRow) /\ permits \in Seq(Permit)
      /\ (attempts = <<>> <=> Len(attempts) = 0)
    BY LenProperties, EmptySeq DEF Types
<1>2. ASSUME NEW p \in 1..Len(permits) PROVE permits[p] \in Permit
    BY <1>1, ElementOfSeq
<1>3. ASSUME NEW o \in Rows PROVE Row(o) \in AttemptRow /\ o \in Int
  <2>1. o + 1 \in 1..Len(attempts) /\ o \in Int
    BY <1>1 DEF Rows
  <2> QED
    BY <1>1, <2>1, ElementOfSeq DEF Row
<1>4. LastOrdinal \in Nat /\ Hard \in Nat
    BY BrokerExecutionAssumption DEF Hard
<1>5. Newest \in Int /\ (Newest \in Rows <=> attempts # <<>>) /\ Rows \subseteq Ordinals
    BY <1>1, <1>4 DEF Newest, Rows, Ordinals, Types
<1> QED
    BY <1>1, <1>2, <1>3, <1>4, <1>5

\* The generations that are to create an attempt, and the latest of them.
LEMMA CreationIs ==
    ASSUME Types, PermitsSound, NEW o \in Rows
    PROVE  /\ \A p \in DOMAIN permits : p \in Generations(CreationKind(o), o) <=> Creating(p, o)
           /\ CreationPermit(o) \in DOMAIN permits /\ Creating(CreationPermit(o), o)
           /\ \A p \in DOMAIN permits : Creating(p, o) => p <= CreationPermit(o)
<1>1. /\ DOMAIN permits = 1..Len(permits) /\ Len(permits) \in Nat /\ o \in Int
      /\ \A p \in DOMAIN permits : permits[p].kind \in Kinds
    BY Shape DEF Permit
<1>2. \A p \in DOMAIN permits : p \in Generations(CreationKind(o), o) <=> Creating(p, o)
    BY <1>1 DEF Generations, CreationKind, Creating, Creates, PermitsSound, Kinds
<1>3. /\ Generations(CreationKind(o), o) \in SUBSET (1..Len(permits))
      /\ Generations(CreationKind(o), o) # {}
    BY <1>1, <1>2 DEF Generations, PermitsSound
<1>4. /\ CreationPermit(o) \in Generations(CreationKind(o), o)
      /\ \A y \in Generations(CreationKind(o), o) : y <= CreationPermit(o)
    BY <1>1, <1>3, MaxIs DEF CreationPermit
<1> QED
    BY <1>1, <1>2, <1>3, <1>4

\* An attempt is given up exactly if the latest of its generations has expired.
LEMMA GivenUpIs ==
    ASSUME Types, PermitsSound, NEW o \in Rows
    PROVE  GivenUp(o) <=> CreationState(o) = "EXPIRED"
<1>1. /\ CreationPermit(o) \in DOMAIN permits /\ Creating(CreationPermit(o), o)
      /\ \A p \in DOMAIN permits : Creating(p, o) => p <= CreationPermit(o)
    BY CreationIs
<1>2. \A p \in DOMAIN permits : p \in Nat
    BY Shape
<1>3. ASSUME NEW p \in DOMAIN permits, Creating(p, o), CreationState(o) = "EXPIRED"
      PROVE  permits[p].st = "EXPIRED"
  <2>1. CASE p = CreationPermit(o)
    BY <1>3, <2>1 DEF CreationState
  <2>2. CASE p < CreationPermit(o)
    BY <1>1, <1>3, <2>2 DEF PermitsSound, Creating
  <2> QED
    BY <1>1, <1>2, <1>3, <2>1, <2>2
<1> QED
    BY <1>1, <1>3 DEF GivenUp, CreationState

\* Current and Target in terms of the newest row.
CurrentFacts ==
    /\ Superseded <=> Newest > 0 /\ Row(Newest).st = "PREPARED" /\ GivenUp(Newest)
    /\ Current = IF Superseded THEN Newest - 1 ELSE Newest
    /\ Target = IF Newest > 0 /\ Row(Newest).st = "PREPARED" THEN Newest - 1 ELSE Newest
    /\ Current \in Rows /\ Target \in Rows

LEMMA CurrentIs == Types /\ PermitsSound /\ attempts # <<>> => CurrentFacts
<1> SUFFICES ASSUME Types, PermitsSound, attempts # <<>> PROVE CurrentFacts
    OBVIOUS
<1>1. /\ Len(attempts) \in Nat /\ Len(attempts) # 0 /\ Newest = Len(attempts) - 1 /\ Newest \in Rows
      /\ Newest \in Int
    BY Shape DEF Newest
<1>2. Len(attempts) - 2 = Newest - 1 /\ (Len(attempts) >= 2 <=> Newest > 0)
    BY <1>1
<1>3. Superseded <=> Newest > 0 /\ Row(Newest).st = "PREPARED" /\ GivenUp(Newest)
    BY <1>1, <1>2, GivenUpIs DEF Superseded
<1>4. Current = IF Superseded THEN Newest - 1 ELSE Newest
    BY <1>1, <1>2 DEF Current
<1>5. Target = IF Newest > 0 /\ Row(Newest).st = "PREPARED" THEN Newest - 1 ELSE Newest
    BY <1>1, <1>2 DEF Target
<1>6. Current \in Rows /\ Target \in Rows
    BY <1>1, <1>3, <1>4, <1>5 DEF Rows
<1> QED
    BY <1>3, <1>4, <1>5, <1>6 DEF CurrentFacts

\* The same of the next state.
LEMMA CurrentIsNext == (Types /\ PermitsSound /\ attempts # <<>> => CurrentFacts)'
BY CurrentIs, PTL

-----------------------------------------------------------------------------
(* Steps that issue no permit and leave the orders alone *)

\* A permit is dispatched, is left to lookups, is settled by an observation, or stays as it is.
PermitMoves(p) ==
    /\ permits'[p].kind = permits[p].kind /\ permits'[p].ord = permits[p].ord
    /\ permits'[p].pred = permits[p].pred
    /\ \/ permits'[p].st = permits[p].st
       \/ permits[p].st = "PREPARED" /\ permits'[p].st = "DISPATCHING"
       \/ permits[p].st = "DISPATCHING" /\ permits'[p].st = "LOOKUP_ONLY"
       \/ /\ permits[p].st \in {"DISPATCHING", "LOOKUP_ONLY"} /\ permits'[p].st = "CONSUMED"
          /\ attempts'[permits[p].ord + 1].st # "PREPARED"

SameRow(o) == attempts'[o + 1].st = Row(o).st /\ attempts'[o + 1].fill = Row(o).fill

\* A row stays as it is, or takes what was seen of its order.
RowMoves(o) ==
    \/ SameRow(o)
    \/ /\ attempts'[o + 1].st # "PREPARED" /\ ~GivenUp(o)
       /\ StateMatchesFill(attempts'[o + 1].st, attempts'[o + 1].fill, Qty)
       /\ Follows(attempts'[o + 1], orders[o])
       /\ Row(o).fill <= attempts'[o + 1].fill

Keeps ==
    /\ Len(permits') = Len(permits) /\ \A p \in DOMAIN permits : PermitMoves(p)
    /\ Len(attempts') = Len(attempts) /\ \A o \in Rows : RowMoves(o)
    /\ orders' = orders /\ stage <= stage'
    /\ net' \subseteq net \cup {p \in DOMAIN permits : permits[p].st = "PREPARED" /\ permits'[p].st = "DISPATCHING"}

\* What they leave as it is.
LEMMA KeepsFrame ==
    ASSUME IInv, Types', Keeps
    PROVE  /\ DOMAIN permits' = DOMAIN permits /\ Rows' = Rows /\ Newest' = Newest
           /\ \A p \in DOMAIN permits : permits'[p].st = "EXPIRED" <=> permits[p].st = "EXPIRED"
           /\ \A o \in Rows : GivenUp(o)' <=> GivenUp(o)
           /\ stage = Hard => stage' = Hard
           /\ attempts' = <<>> <=> attempts = <<>>
<1>1. DOMAIN permits' = DOMAIN permits /\ Rows' = Rows /\ Newest' = Newest
    BY LenProperties DEF Keeps, Types, IInv, Rows, Newest
<1>2. \A p \in DOMAIN permits : permits'[p].st = "EXPIRED" <=> permits[p].st = "EXPIRED"
    BY DEF Keeps, PermitMoves
<1>3. ASSUME NEW o \in Rows PROVE GivenUp(o)' <=> GivenUp(o)
    BY <1>1, <1>2 DEF GivenUp, Creating, Creates, Keeps, PermitMoves
<1>4. stage = Hard => stage' = Hard
    BY BrokerExecutionAssumption DEF Keeps, Types, IInv, Hard
<1>5. attempts' = <<>> <=> attempts = <<>>
    BY LenProperties, EmptySeq DEF Keeps, Types, IInv
<1> QED
    BY <1>1, <1>2, <1>3, <1>4, <1>5

LEMMA KeepsPermits ==
    ASSUME IInv, Types', Keeps PROVE PermitsSound'
<1>1. DOMAIN permits' = DOMAIN permits /\ Rows' = Rows /\ Newest' = Newest
    BY KeepsFrame
<1>2. ASSUME NEW p \in DOMAIN permits
      PROVE  /\ permits'[p].kind = permits[p].kind /\ permits'[p].ord = permits[p].ord
             /\ permits'[p].st \in ACTIVE => permits[p].st \in ACTIVE
             /\ permits[p].st = "CONSUMED" => permits'[p].st = "CONSUMED"
             /\ permits[p].st = "EXPIRED" => permits'[p].st = "EXPIRED"
             /\ permits'[p].st = "CONSUMED" =>
                    permits[p].st = "CONSUMED" \/ attempts'[permits[p].ord + 1].st # "PREPARED"
    BY DEF Keeps, PermitMoves, ACTIVE
<1>3. ASSUME NEW o \in Rows, Row(o).st # "PREPARED" PROVE attempts'[o + 1].st # "PREPARED"
    BY <1>3 DEF Keeps, RowMoves, SameRow
<1>4. ASSUME NEW p \in DOMAIN permits
      PROVE  /\ permits[p].ord \in Rows
             /\ permits[p].kind = "SUBMIT" => permits[p].ord = 0
             /\ permits[p].kind = "REPLACE" => permits[p].ord # 0
             /\ permits[p].st \in ACTIVE => p = Len(permits)
             /\ Creates(p) /\ p = Len(permits) => permits[p].ord = Newest
             /\ Creates(p) /\ permits[p].st = "CONSUMED" => Row(permits[p].ord).st # "PREPARED"
             /\ Creates(p) /\ permits[p].ord < Newest => permits[p].st \in {"CONSUMED", "EXPIRED"}
    BY DEF IInv, PermitsSound
<1>5. \A p \in DOMAIN permits : Creates(p)' <=> Creates(p)
    BY <1>2 DEF Creates
<1>6. ASSUME NEW p \in DOMAIN permits'
      PROVE  /\ permits'[p].ord \in Rows'
             /\ permits'[p].kind = "SUBMIT" => permits'[p].ord = 0
             /\ permits'[p].kind = "REPLACE" => permits'[p].ord # 0
             /\ permits'[p].st \in ACTIVE => p = Len(permits')
             /\ Creates(p)' /\ p = Len(permits') => permits'[p].ord = Newest'
             /\ Creates(p)' /\ permits'[p].st = "CONSUMED" => attempts'[permits'[p].ord + 1].st # "PREPARED"
             /\ Creates(p)' /\ permits'[p].ord < Newest' => permits'[p].st \in {"CONSUMED", "EXPIRED"}
  <2>1. Len(permits') = Len(permits) /\ p \in DOMAIN permits
    BY <1>1 DEF Keeps
  <2> QED
    BY <1>1, <1>2, <1>3, <1>4, <1>5, <2>1 DEF Row
<1>7. \A o \in Rows' : \E p \in DOMAIN permits' : Creating(p, o)'
    BY <1>1, <1>2 DEF IInv, PermitsSound, Creating, Creates
<1>8. ASSUME NEW p \in DOMAIN permits', NEW q \in DOMAIN permits', Creates(p)',
             Creates(q)', permits'[q].ord = permits'[p].ord, p < q
      PROVE  permits'[p].st = "EXPIRED"
    BY <1>1, <1>2, <1>8 DEF IInv, PermitsSound, Creates
<1> QED
    BY <1>6, <1>7, <1>8 DEF PermitsSound, Row

LEMMA KeepsCancels ==
    ASSUME IInv, Types', Keeps PROVE CancelsSound'
<1>1. /\ DOMAIN permits' = DOMAIN permits /\ Rows' = Rows /\ Newest' = Newest
      /\ \A o \in Rows : GivenUp(o)' <=> GivenUp(o)
      /\ stage = Hard => stage' = Hard
    BY KeepsFrame
<1>2. \A p \in DOMAIN permits : /\ permits'[p].kind = permits[p].kind /\ permits'[p].ord = permits[p].ord
                                /\ permits'[p].pred = permits[p].pred
    BY DEF Keeps, PermitMoves
<1>3. ASSUME NEW o \in Rows
      PROVE  /\ Row(o).st # "PREPARED" => attempts'[o + 1].st # "PREPARED"
             /\ GivenUp(o) => attempts'[o + 1].st = Row(o).st
             /\ Row(o).fill > 0 => attempts'[o + 1].fill > 0
  <2>1. Row(o).fill \in Nat /\ (attempts'[o + 1]).fill \in Nat
    <3>1. Row(o) \in AttemptRow /\ Row(o)' \in AttemptRow
      BY <1>1, Shape, SMTT(30) DEF IInv, Types, Rows, Row
    <3> QED
      BY <3>1 DEF AttemptRow, Row
  <2> QED
    BY <2>1 DEF Keeps, RowMoves, SameRow
<1>4. ASSUME NEW p \in DOMAIN permits', ~Creates(p)'
      PROVE  /\ Row(permits[p].ord)'.st # "PREPARED"
             /\ \/ /\ permits'[p].ord = Newest'
                   /\ stage' = Hard \/ Row(Newest)'.fill > 0
                \/ /\ permits'[p].ord = Newest' - 1
                   /\ Row(Newest)'.st = "PREPARED" /\ GivenUp(Newest)' /\ stage' = Hard
  <2>1. p \in DOMAIN permits /\ ~Creates(p) /\ permits[p].ord \in Rows /\ Newest \in Rows
    BY <1>1, <1>2, <1>4, Shape DEF Creates, IInv, PermitsSound, Rows
  <2> QED
    BY <1>1, <1>2, <1>3, <2>1 DEF IInv, CancelsSound, Row, GivenUp
<1>5. ASSUME NEW o \in Rows', GivenUp(o)'
      PROVE  /\ o = Newest' /\ o > 0 /\ Row(o)'.st = "PREPARED"
             /\ \E p, q \in DOMAIN permits' :
                   /\ ~Creates(p)' /\ permits'[p].ord = o - 1 /\ permits'[p].pred = q
                   /\ Creating(q, o)' /\ \A r \in DOMAIN permits' : Creating(r, o)' => r <= q
    BY <1>1, <1>2, <1>3, <1>5 DEF IInv, CancelsSound, Creates, Creating, Row
<1> QED
    BY <1>4, <1>5 DEF CancelsSound

LEMMA KeepsRows ==
    ASSUME IInv, Types', Keeps PROVE RowsSound' /\ OrdersSound'
<1>1. DOMAIN permits' = DOMAIN permits /\ Rows' = Rows /\ Newest' = Newest /\ orders' = orders
    BY KeepsFrame DEF Keeps
<1>2. RowsSound'
  <2> SUFFICES ASSUME NEW o \in Rows
               PROVE  /\ attempts'[o + 1].st = "PREPARED" => o = Newest /\ attempts'[o + 1].fill = 0
                      /\ attempts'[o + 1].st # "PREPARED" =>
                            /\ StateMatchesFill(attempts'[o + 1].st, attempts'[o + 1].fill, Qty)
                            /\ Follows(attempts'[o + 1], orders[o])
    BY <1>1 DEF RowsSound, Row, Follows, StateMatchesFill
  <2>1. RowMoves(o)
    BY DEF Keeps
  <2>2. CASE SameRow(o)
    BY <2>2 DEF SameRow, IInv, RowsSound, Follows
  <2> QED
    BY <2>1, <2>2 DEF RowMoves
<1>3. \A p \in DOMAIN permits :
          /\ permits'[p].kind = permits[p].kind /\ permits'[p].ord = permits[p].ord
          /\ permits[p].st \in DISPATCHED => permits'[p].st \in DISPATCHED
          /\ permits'[p].st = "PREPARED" => permits[p].st = "PREPARED"
    BY DEF Keeps, PermitMoves, DISPATCHED
<1>4. net \subseteq DOMAIN permits
      /\ net' \subseteq net \cup {p \in DOMAIN permits : permits[p].st = "PREPARED" /\ permits'[p].st = "DISPATCHING"}
    BY DEF Keeps, IInv, Types
<1>5. \A p \in net' : permits'[p].st \in DISPATCHED
    BY <1>3, <1>4 DEF IInv, OrdersSound, DISPATCHED
<1>6. \A p \in DOMAIN permits' :
          Creates(p)' /\ (p \in net' \/ permits'[p].st = "PREPARED") => orders'[permits'[p].ord].st = "NONE"
    BY <1>1, <1>3, <1>4 DEF IInv, OrdersSound, Creates
<1>7. OrdersSound'
    BY <1>1, <1>5, <1>6 DEF IInv, OrdersSound
<1> QED
    BY <1>2, <1>7

\* The attempt that counts and the order it is about stay the same.
LEMMA KeepsCurrent ==
    ASSUME IInv, Types', Keeps, attempts # <<>> PROVE Current' = Current
<1>1. /\ Newest' = Newest /\ attempts' # <<>> /\ Rows' = Rows
      /\ \A o \in Rows : GivenUp(o)' <=> GivenUp(o)
    BY KeepsFrame
<1>2. PermitsSound'
    BY KeepsPermits
<1>3. /\ Superseded <=> Newest > 0 /\ Row(Newest).st = "PREPARED" /\ GivenUp(Newest)
      /\ Current = IF Superseded THEN Newest - 1 ELSE Newest
    BY CurrentIs DEF IInv, CurrentFacts
<1>4. /\ Superseded' <=> Newest' > 0 /\ Row(Newest)'.st = "PREPARED" /\ GivenUp(Newest)'
      /\ Current' = IF Superseded' THEN Newest' - 1 ELSE Newest'
    BY <1>1, <1>2, CurrentIsNext DEF CurrentFacts
<1>5. Newest \in Rows
    BY Shape DEF IInv
<1>6. GivenUp(Newest)' <=> GivenUp(Newest)
    BY <1>1, <1>5 DEF GivenUp
<1>7. GivenUp(Newest) => attempts'[Newest + 1].st = Row(Newest).st
    BY <1>5 DEF Keeps, RowMoves, SameRow
<1> QED
    BY <1>1, <1>3, <1>4, <1>6, <1>7 DEF Row

\* Such a step keeps the invariant if what the workers then carry is sound, and if no final
\* sweep outlives an observation.
LEMMA KeepInv ==
    ASSUME IInv, Types', Keeps, intent' = intent, certified' = certified,
           \A w \in Workers : WorkerOK(wk'[w]),
           \/ \A o \in Rows : SameRow(o)
           \/ /\ intent = "CLAIMED"
              /\ \A w \in Workers : wk'[w].pc = "finalize" => wk'[w].mode = "outdated"
    PROVE  IInv'
<1>1. /\ DOMAIN permits' = DOMAIN permits /\ Rows' = Rows /\ Newest' = Newest /\ orders' = orders
      /\ stage = Hard => stage' = Hard
      /\ attempts' = <<>> <=> attempts = <<>>
    BY KeepsFrame DEF Keeps
<1>2. ASSUME \A o \in Rows : SameRow(o), Ended PROVE Ended'
  <2>1. Current' = Current /\ Current \in Rows /\ attempts' # <<>>
    BY <1>1, <1>2, KeepsCurrent, CurrentIs DEF Ended, IInv, CurrentFacts
  <2>2. attempts'[Current + 1].st = Row(Current).st
    BY <1>2, <2>1 DEF SameRow
  <2> QED
    BY <1>1, <1>2, <2>1, <2>2 DEF Ended, Row, OpenOrders
<1>3. Held' = Held
    BY <1>1 DEF Held
<1>4. ASSUME NEW w \in Workers PROVE WorkerOK(wk[w])'
  <2> DEFINE r == wk'[w]
  <2>0. WorkerOK(r) /\ r \in Worker
    BY DEF Types
  <2>1. ASSUME r.pc \in {"acquire", "call", "reread", "outcome", "lookup", "record"}
        PROVE  r.p \in DOMAIN permits' /\ r.ord = permits'[r.p].ord
    BY <1>1, <2>0, <2>1 DEF WorkerOK, Keeps, PermitMoves
  <2>5. r.pc = "again" => attempts' # <<>>
    BY <1>1, <2>0 DEF WorkerOK
  <2>2. ASSUME r.pc \in {"sweep", "prepare"}
        PROVE  /\ r.stage <= stage'
               /\ r.kind = "SUBMIT" => r.ord = 0
               /\ r.kind # "SUBMIT" => attempts' # <<>>
               /\ r.kind = "CANCEL" => r.ord \in Rows' /\ (stage' = Hard \/ attempts'[r.ord + 1].fill > 0)
    <3>1. r.stage \in Int /\ stage \in Int /\ stage' \in Int /\ stage <= stage'
      BY <2>0 DEF Worker, IInv, Types, Keeps
    <3>2. ASSUME r.ord \in Rows, Row(r.ord).fill > 0 PROVE attempts'[r.ord + 1].fill > 0
      <4>1. Row(r.ord) \in AttemptRow /\ attempts'[r.ord + 1] \in AttemptRow
        BY <1>1, <3>2, Shape, SMTT(30) DEF IInv, Types, Rows, Row
      <4>2. RowMoves(r.ord)
        BY <3>2 DEF Keeps
      <4> QED
        BY <3>2, <4>1, <4>2 DEF RowMoves, SameRow, AttemptRow
    <3> QED
      BY <1>1, <2>0, <2>2, <3>1, <3>2 DEF WorkerOK
  <2>3. ASSUME r.pc \in {"record", "outcome"}, r.seen.st \notin {"NONE", "FAILED"}
        PROVE  r.seen.st # "PREPARED" /\ Follows(r.seen, orders'[r.ord])
    BY <1>1, <2>0, <2>3 DEF WorkerOK
  <2>4. ASSUME r.pc = "finalize", r.mode # "outdated", r.sweep.open = {}
        PROVE  Ended' /\ r.sweep.held = Held'
    BY <1>2, <1>3, <2>0, <2>4 DEF WorkerOK
  <2> HIDE DEF r
  <2> QED
    BY <2>1, <2>2, <2>3, <2>4, <2>5 DEF WorkerOK, Row, Follows, r
<1>5. CertificateSound'
    BY <1>2, <1>3 DEF CertificateSound, IInv
<1> QED
    BY <1>4, <1>5, KeepsPermits, KeepsCancels, KeepsRows DEF IInv, WorkersSound

-----------------------------------------------------------------------------
(* Steps of a worker that change none of the rows the invariant is about *)

\* One worker moves on.
LEMMA MoveInv ==
    ASSUME IInv, NEW w \in Workers, NEW to \in Worker, WorkerOK(to), Go(w, to),
           locked' \in BOOLEAN, authorized' \in BOOLEAN, first_valid' \in BOOLEAN,
           UNCHANGED <<intent, certified, attempts, permits, last, stage, orders, net>>
    PROVE  IInv'
<1>1. wk' \in [Workers -> Worker] /\ wk'[w] = to /\ \A v \in Workers : v # w => wk'[v] = wk[v]
    BY DEF Go, IInv, Types
<1>2. Types'
    BY <1>1 DEF IInv, Types
<1>3. \A v \in Workers : WorkerOK(wk'[v])
    BY <1>1 DEF IInv, WorkersSound
<1>4. Keeps
  <2>1. stage <= stage'
    BY Shape DEF IInv, Types
  <2> QED
    BY <2>1 DEF Keeps, PermitMoves, RowMoves, SameRow, Row
<1>5. \A o \in Rows : SameRow(o)
    BY DEF SameRow, Row
<1> QED
    BY <1>2, <1>3, <1>4, <1>5, KeepInv

\* A run ends.
LEMMA IdleOK == Idle \in Worker /\ WorkerOK(Idle)
<1>1. NoOrder \in Seen /\ NoSweep \in Swept
    BY BrokerExecutionAssumption DEF NoOrder, NoSweep, Seen, Swept, BrokerStates
<1>2. 0 \in Ordinals /\ 0 \in 0..Hard
    BY BrokerExecutionAssumption DEF Ordinals, Hard
<1> QED
    BY <1>1, <1>2 DEF Idle, Worker, WorkerOK, Steps, Kinds

LEMMA StopInv ==
    ASSUME IInv, NEW w \in Workers, Stop(w),
           locked' \in BOOLEAN, authorized' \in BOOLEAN, first_valid' \in BOOLEAN,
           UNCHANGED <<intent, certified, attempts, permits, last, stage, orders, net>>
    PROVE  IInv'
BY IdleOK, MoveInv DEF Stop

\* A step that carries nothing begins.
LEMMA StepOK ==
    ASSUME NEW pc \in {"idle", "schedule", "quotes", "again", "final"}, pc = "again" => attempts # <<>>
    PROVE  [Idle EXCEPT !.pc = pc] \in Worker /\ WorkerOK([Idle EXCEPT !.pc = pc])
<1>1. [Idle EXCEPT !.pc = pc] \in Worker /\ [Idle EXCEPT !.pc = pc].pc = pc
    BY IdleOK DEF Worker, Steps
<1> HIDE DEF Idle
<1> QED
    BY <1>1 DEF WorkerOK

\* A replacement that was given up was so at the day's boundary.
LEMMA SupersededLate ==
    ASSUME IInv, attempts # <<>>, Superseded PROVE stage = Hard
<1>1. Newest \in Rows /\ GivenUp(Newest) /\ Newest \in Int
    BY CurrentIs, Shape DEF IInv, CurrentFacts
<1>2. PICK p \in DOMAIN permits : ~Creates(p) /\ permits[p].ord = Newest - 1
    BY <1>1 DEF IInv, CancelsSound
<1> QED
    BY <1>1, <1>2 DEF IInv, CancelsSound

\* What is due can be planned: a replacement has an ordinal left, and a cancel its cause.
LEMMA DueFacts ==
    ASSUME IInv
    PROVE  /\ ReplaceDue => attempts # <<>> /\ Target + 1 \in Ordinals
           /\ CancelDue => attempts # <<>> /\ (stage = Hard \/ Row(Target).fill > 0)
<1> SUFFICES ASSUME attempts # <<>>
             PROVE  /\ ReplaceDue => Target + 1 \in Ordinals
                    /\ CancelDue => stage = Hard \/ Row(Target).fill > 0
    BY DEF ReplaceDue, CancelDue
<1>1. /\ Superseded <=> Newest > 0 /\ Row(Newest).st = "PREPARED" /\ GivenUp(Newest)
      /\ Current = IF Superseded THEN Newest - 1 ELSE Newest
      /\ Target = IF Newest > 0 /\ Row(Newest).st = "PREPARED" THEN Newest - 1 ELSE Newest
      /\ Current \in Rows /\ Target \in Rows
    BY CurrentIs DEF IInv, CurrentFacts
<1>2. /\ Newest \in Int /\ Newest \in Rows /\ Rows \subseteq Ordinals /\ LastOrdinal \in Nat
      /\ \A o \in Rows : o >= 0 /\ o \in Int
    BY Shape DEF IInv, Rows
<1>3. ASSUME Row(Current).st \in MUTATION_ELIGIBLE PROVE Target = Current /\ Row(Current).st # "PREPARED"
    BY <1>1, <1>3 DEF MUTATION_ELIGIBLE
<1>4. ASSUME ReplaceDue PROVE Target + 1 \in Ordinals
  <2>1. CASE Current > 0 /\ Unsent
    <3>1. Current = Newest /\ Row(Newest).st = "PREPARED"
      BY <1>1, <2>1 DEF Unsent, IInv, RowsSound
    <3> QED
      BY <1>1, <1>2, <2>1, <3>1
  <2>2. CASE Mutable /\ Current < LastOrdinal
    <3>1. ~Superseded
      BY <1>4, <2>2, SupersededLate DEF ReplaceDue, CancelDue
    <3>2. Target = Newest /\ Newest < LastOrdinal
      BY <1>1, <1>3, <2>2, <3>1 DEF Mutable
    <3> QED
      BY <1>2, <3>2 DEF Ordinals
  <2> QED
    BY <1>4, <2>1, <2>2 DEF ReplaceDue
<1>5. ASSUME CancelDue, stage # Hard PROVE Row(Target).fill > 0
  <2>1. Row(Current).st = "PARTIALLY_FILLED"
    BY <1>5 DEF CancelDue
  <2>2. Target = Current /\ StateMatchesFill(Row(Current).st, Row(Current).fill, Qty)
    BY <1>1, <1>3, <2>1 DEF IInv, RowsSound, MUTATION_ELIGIBLE
  <2> QED
    BY <2>1, <2>2 DEF StateMatchesFill
<1> QED
    BY <1>4, <1>5

\* A plan is sound if the write is due.
LEMMA PlannedOK ==
    ASSUME IInv, NEW kind \in Kinds,
           kind = "REPLACE" => attempts # <<>> /\ Target + 1 \in Ordinals,
           kind = "CANCEL" => attempts # <<>> /\ (stage = Hard \/ Row(Target).fill > 0)
    PROVE  Planned(kind) \in Worker /\ WorkerOK(Planned(kind))
<1> DEFINE seen == IF kind = "CANCEL" THEN Order(Target) ELSE NoOrder
           at == IF kind = "REPLACE" THEN stage ELSE 0
           plan == [Idle EXCEPT !.pc = "sweep", !.kind = kind, !.ord = PlannedOrdinal(kind),
                                !.seen = seen, !.stage = at]
<1>1. seen \in Seen
  <2>1. CASE kind = "CANCEL"
    <3>1. Row(Target) \in AttemptRow
      BY <2>1, CurrentIs, Shape DEF IInv, CurrentFacts
    <3> QED
      BY <2>1, <3>1 DEF Order, AttemptRow, Seen
  <2>2. CASE kind # "CANCEL"
    BY <2>2, IdleOK DEF Idle, Worker
  <2> QED
    BY <2>1, <2>2
<1>2. at \in 0..Hard /\ at <= stage
    BY Shape DEF IInv, Types
<1>3. /\ PlannedOrdinal(kind) \in Ordinals
      /\ kind = "SUBMIT" => PlannedOrdinal(kind) = 0
      /\ kind = "CANCEL" => PlannedOrdinal(kind) = Target /\ Target \in Rows
  <2>1. CASE kind = "SUBMIT"
    BY <2>1, BrokerExecutionAssumption DEF PlannedOrdinal, Ordinals
  <2>2. CASE kind = "REPLACE"
    BY <2>2 DEF PlannedOrdinal
  <2>3. CASE kind = "CANCEL"
    BY <2>3, CurrentIs, Shape DEF PlannedOrdinal, IInv, CurrentFacts
  <2> QED
    BY <2>1, <2>2, <2>3 DEF Kinds
<1> HIDE DEF seen, at
<1>4. /\ plan \in Worker /\ plan.pc = "sweep" /\ plan.kind = kind /\ plan.ord = PlannedOrdinal(kind)
      /\ plan.stage = at
    BY <1>1, <1>2, <1>3, IdleOK DEF Worker, Steps
<1> HIDE DEF plan
<1>5. WorkerOK(plan)
    BY <1>2, <1>3, <1>4 DEF WorkerOK, Kinds
<1>6. Planned(kind) = plan \/ Planned(kind) = Idle
    BY DEF Planned, plan, seen, at
<1> QED
    BY <1>4, <1>5, <1>6, IdleOK

\* A write that is due is planned.
LEMMA DuePlannedOK ==
    ASSUME IInv, NEW kind \in Kinds, Due(kind) PROVE Planned(kind) \in Worker /\ WorkerOK(Planned(kind))
<1>1. /\ kind = "REPLACE" => attempts # <<>> /\ Target + 1 \in Ordinals
      /\ kind = "CANCEL" => attempts # <<>> /\ (stage = Hard \/ Row(Target).fill > 0)
    BY DueFacts DEF Due
<1> QED
    BY <1>1, PlannedOK

LEMMA ScheduleInv ==
    ASSUME IInv, NEW w \in Workers, Schedule(w) \/ Quotes(w) PROVE IInv'
<1> USE DEF rows, clock, broker
<1>0. /\ UNCHANGED <<rows, clock, broker>> /\ locked' \in BOOLEAN /\ authorized' \in BOOLEAN
      /\ first_valid' \in BOOLEAN
    BY DEF Schedule, Quotes, IInv, Types
<1>1. PICK to \in Worker : WorkerOK(to) /\ Go(w, to)
  <2>1. CASE Quotes(w)
    <3>1. CASE Stop(w)
      BY <3>1, IdleOK DEF Stop
    <3>2. CASE \E kind \in {"REPLACE", "CANCEL"} : Due(kind) /\ Go(w, Planned(kind))
      BY <3>2, DuePlannedOK DEF Kinds
    <3> QED
      BY <2>1, <3>1, <3>2 DEF Quotes
  <2>2. CASE Schedule(w)
    <3>1. CASE Stop(w)
      BY <3>1, IdleOK DEF Stop
    <3>2. ASSUME NEW kind \in Kinds, Due(kind),
                 Go(w, IF kind = "REPLACE" THEN [Idle EXCEPT !.pc = "quotes"] ELSE Planned(kind))
          PROVE  \E to \in Worker : WorkerOK(to) /\ Go(w, to)
      BY <3>2, DuePlannedOK, StepOK
    <3>3. CASE Go(w, [Idle EXCEPT !.pc = "final"]) \/ (attempts # <<>> /\ Go(w, [Idle EXCEPT !.pc = "again"]))
      BY <3>3, StepOK
    <3> QED
      BY <2>2, <3>1, <3>2, <3>3 DEF Schedule
  <2> QED
    BY <2>1, <2>2
<1> QED
    BY <1>0, <1>1, MoveInv

\* A lookup is authorized by a permit of the attempt that counts.
LEMMA LookupPermitIs ==
    ASSUME IInv, attempts # <<>>, NEW p \in LookupPermit
    PROVE  p \in DOMAIN permits /\ permits[p].ord = Current
<1>1. Current \in Rows /\ Types /\ PermitsSound
    BY CurrentIs DEF IInv, CurrentFacts
<1>2. CASE LookupActive # {}
    BY <1>2 DEF LookupPermit, LookupActive
<1>3. CASE LookupActive = {}
  <2>1. p = Max(ConsumedLookup) /\ ConsumedLookup # {}
    BY <1>3 DEF LookupPermit, LookupRefused
  <2>2. ConsumedLookup \subseteq {q \in DOMAIN permits : permits[q].ord = Current}
    BY <1>1, CreationIs DEF ConsumedLookup, Generations, Creating
  <2>3. DOMAIN permits = 1..Len(permits) /\ Len(permits) \in Nat
    BY <1>1, Shape
  <2>4. ConsumedLookup \in SUBSET (1..Len(permits))
    BY <2>2, <2>3
  <2>5. p \in ConsumedLookup
    BY <2>1, <2>3, <2>4, MaxIs
  <2> QED
    BY <2>2, <2>5
<1> QED
    BY <1>2, <1>3

\* advance and the lookups of _waiting_or_finalized_advance
LEMMA LookupAuthorityInv ==
    ASSUME IInv, NEW w \in Workers, NEW mode \in {"first", "again"}, attempts # <<>>,
           LookupAuthority(w, mode),
           UNCHANGED <<intent, certified, attempts, permits, last, clock, broker>>
    PROVE  IInv'
<1> USE DEF clock, broker
<1>1. CASE LookupPermit = {}
  <2>1. locked' \in BOOLEAN /\ authorized' \in BOOLEAN /\ first_valid' \in BOOLEAN
    BY <1>1 DEF LookupAuthority, IInv, Types
  <2>2. PICK pc \in {"idle", "schedule"} : Go(w, [Idle EXCEPT !.pc = pc])
    BY <1>1 DEF LookupAuthority
  <2>3. [Idle EXCEPT !.pc = pc] \in Worker /\ WorkerOK([Idle EXCEPT !.pc = pc])
    BY StepOK
  <2> HIDE DEF Idle
  <2> QED
    BY <2>1, <2>2, <2>3, MoveInv
<1>2. CASE LookupPermit # {}
  <2>1. PICK p \in LookupPermit : Go(w, [Idle EXCEPT !.pc = "lookup", !.mode = mode, !.p = p, !.ord = Current])
    BY <1>2 DEF LookupAuthority
  <2> DEFINE to == [Idle EXCEPT !.pc = "lookup", !.mode = mode, !.p = p, !.ord = Current]
  <2>2. p \in DOMAIN permits /\ permits[p].ord = Current /\ p \in Nat /\ Current \in Ordinals
    <3>1. Current \in Ordinals
      BY CurrentIs, Shape DEF IInv, CurrentFacts
    <3>2. p \in DOMAIN permits /\ permits[p].ord = Current
      BY LookupPermitIs
    <3>3. p \in Nat
      BY <3>2, Shape DEF IInv
    <3> QED
      BY <3>1, <3>2, <3>3
  <2>3. to \in Worker /\ to.pc = "lookup" /\ to.p = p /\ to.ord = Current
    BY <2>2, IdleOK DEF Worker, Steps
  <2>4. locked' \in BOOLEAN /\ authorized' \in BOOLEAN /\ first_valid' \in BOOLEAN
    BY <1>2 DEF LookupAuthority, IInv, Types
  <2> HIDE DEF to
  <2>5. WorkerOK(to)
    BY <2>2, <2>3 DEF WorkerOK
  <2> QED
    BY <2>1, <2>3, <2>4, <2>5, MoveInv DEF to
<1> QED
    BY <1>1, <1>2

LEMMA AdvanceInv ==
    ASSUME IInv, NEW w \in Workers, Advance(w) \/ LookupAgain(w) PROVE IInv'
<1> USE DEF clock, broker
<1>0. /\ UNCHANGED <<intent, certified, attempts, permits, last, clock, broker>>
      /\ authorized' \in BOOLEAN /\ first_valid' \in BOOLEAN
    BY DEF Advance, LookupAgain, IInv, Types
<1>1. CASE Advance(w)
  <2>1. CASE attempts = <<>>
    <3>1. Go(w, [Idle EXCEPT !.pc = "schedule"]) /\ locked' \in BOOLEAN
      BY <1>1, <2>1 DEF Advance, IInv, Types
    <3>2. [Idle EXCEPT !.pc = "schedule"] \in Worker /\ WorkerOK([Idle EXCEPT !.pc = "schedule"])
      BY StepOK
    <3> HIDE DEF Idle
    <3> QED
      BY <1>0, <3>1, <3>2, MoveInv
  <2>2. CASE attempts # <<>>
    BY <1>0, <1>1, <2>2, LookupAuthorityInv DEF Advance
  <2> QED
    BY <2>1, <2>2
<1>2. CASE LookupAgain(w)
  <2>1. CASE Stop(w) /\ UNCHANGED locked
    <3>1. locked' \in BOOLEAN
      BY <2>1 DEF IInv, Types
    <3> QED
      BY <1>0, <2>1, <3>1, StopInv
  <2>2. CASE LookupAuthority(w, "again")
    <3>1. attempts # <<>>
      BY <1>2 DEF LookupAgain, At, IInv, WorkersSound, WorkerOK
    <3> QED
      BY <1>0, <2>2, <3>1, LookupAuthorityInv
  <2> QED
    BY <1>2, <2>1, <2>2 DEF LookupAgain
<1> QED
    BY <1>1, <1>2

\* The order is read; what is seen stays true of it.
LEMMA ReadOrderInv ==
    ASSUME IInv, NEW w \in Workers, Lookup(w) \/ Reread(w) PROVE IInv'
<1> USE DEF rows, clock, broker
<1> DEFINE r == wk[w]
<1>0. /\ UNCHANGED <<rows, clock, broker>> /\ locked' \in BOOLEAN /\ authorized' \in BOOLEAN
      /\ first_valid' \in BOOLEAN /\ r \in Worker /\ WorkerOK(r) /\ r.pc \in {"lookup", "reread"}
    BY DEF Lookup, Reread, At, IInv, Types, WorkersSound
<1>1. r.p \in DOMAIN permits /\ r.ord = permits[r.p].ord /\ r.ord \in Ordinals
    BY <1>0 DEF WorkerOK, Worker
<1>2. orders[r.ord] \in BrokerOrder /\ orders[r.ord].fill \in Int /\ orders[r.ord].st # "PREPARED"
  <2>1. orders[r.ord] \in BrokerOrder
    BY <1>1 DEF IInv, Types
  <2> QED
    BY <2>1 DEF BrokerOrder, BrokerStates, Live, TERMINAL
<1>3. ASSUME NEW pc \in {"record", "outcome"},
             NEW seen \in {orders[r.ord]} \cup {[st |-> "FAILED", fill |-> 0]},
             Go(w, [r EXCEPT !.pc = pc, !.seen = seen])
      PROVE  IInv'
  <2> DEFINE to == [r EXCEPT !.pc = pc, !.seen = seen]
  <2>1. seen \in Seen
    BY <1>2, BrokerExecutionAssumption DEF Seen, BrokerOrder
  <2>2. to \in Worker /\ to.pc = pc /\ to.seen = seen /\ to.p = r.p /\ to.ord = r.ord
    BY <1>0, <2>1 DEF Worker, Steps
  <2> HIDE DEF to
  <2>3. seen.st \notin {"NONE", "FAILED"} => seen.st # "PREPARED" /\ Follows(seen, orders[r.ord])
    BY <1>2 DEF Follows
  <2>4. WorkerOK(to)
    BY <1>1, <2>2, <2>3 DEF WorkerOK
  <2> QED
    BY <1>0, <1>3, <2>2, <2>4, MoveInv DEF to
<1>4. ASSUME Go(w, [r EXCEPT !.pc = "call"]) PROVE IInv'
  <2> DEFINE to == [r EXCEPT !.pc = "call"]
  <2>1. to \in Worker /\ to.pc = "call" /\ to.p = r.p /\ to.ord = r.ord
    BY <1>0 DEF Worker, Steps
  <2> HIDE DEF to
  <2>2. WorkerOK(to)
    BY <1>1, <2>1 DEF WorkerOK
  <2> QED
    BY <1>0, <1>4, <2>1, <2>2, MoveInv DEF to
<1>5. CASE Lookup(w)
    BY <1>3, <1>5 DEF Lookup
<1>6. CASE Reread(w)
    BY <1>3, <1>4, <1>6 DEF Reread
<1> QED
    BY <1>5, <1>6

\* The account is swept before a write, or before the certificate.
LEMMA SweepInv ==
    ASSUME IInv, NEW w \in Workers, Sweep(w) \/ FinalSweep(w) PROVE IInv'
<1> USE DEF rows, clock, broker
<1> DEFINE r == wk[w]
<1>0. /\ UNCHANGED <<rows, clock, broker>> /\ locked' \in BOOLEAN /\ authorized' \in BOOLEAN
      /\ first_valid' \in BOOLEAN /\ r \in Worker /\ WorkerOK(r)
    BY DEF Sweep, FinalSweep, IInv, Types, WorkersSound
<1>1. ASSUME NEW s \in SweepsNow
      PROVE  s \in Swept /\ s.held = Held /\ (s.open = {} => OpenOrders = {})
  <2> DEFINE open == {[ord |-> o, st |-> orders[o].st, fill |-> orders[o].fill] : o \in OpenOrders}
  <2>1. PICK good \in BOOLEAN : s = [open |-> open, held |-> Held, good |-> good]
    BY DEF SweepsNow
  <2>2. open \subseteq [ord : Ordinals, st : BrokerStates, fill : 0..Qty]
    BY DEF IInv, Types, BrokerOrder, OpenOrders
  <2>3. Held \in Sums
    BY DEF Held, Sums, IInv, Types
  <2>4. open = {} => OpenOrders = {}
    OBVIOUS
  <2> HIDE DEF open
  <2> QED
    BY <2>1, <2>2, <2>3, <2>4 DEF Swept
<1>2. CASE Sweep(w)
  <2>1. PICK s \in SweepsNow : Go(w, [r EXCEPT !.pc = "prepare", !.sweep = s])
    BY <1>2 DEF Sweep
  <2> DEFINE to == [r EXCEPT !.pc = "prepare", !.sweep = s]
  <2>2. r.pc = "sweep" /\ s \in Swept
    BY <1>1, <1>2 DEF Sweep, At
  <2>3. to \in Worker /\ to.pc = "prepare" /\ to.kind = r.kind /\ to.ord = r.ord /\ to.stage = r.stage
    BY <1>0, <2>2 DEF Worker, Steps
  <2> HIDE DEF to
  <2>4. WorkerOK(to)
    BY <1>0, <2>2, <2>3 DEF WorkerOK
  <2> QED
    BY <1>0, <2>1, <2>3, <2>4, MoveInv DEF to
<1>3. CASE FinalSweep(w)
  <2>1. CASE Stop(w)
    BY <1>0, <2>1, StopInv
  <2>2. ASSUME intent = "CLAIMED", ObservedLast, OutcomeSupported(Row(Current).st, Row(Current).fill, Qty),
               NEW s \in SweepsNow, Go(w, [r EXCEPT !.pc = "finalize", !.mode = "first", !.sweep = s])
        PROVE  IInv'
    <3> DEFINE to == [r EXCEPT !.pc = "finalize", !.mode = "first", !.sweep = s]
    <3>1. attempts # <<>>
      <4>1. last \in DOMAIN permits
        BY <2>2, Shape DEF ObservedLast, IInv, Types
      <4>2. permits[last].ord \in Rows
        BY <4>1 DEF IInv, PermitsSound
      <4> QED
        BY <4>2, Shape DEF IInv, Rows
    <3>2. Row(Current) \in AttemptRow
      BY <3>1, CurrentIs, Shape DEF IInv, CurrentFacts
    <3>3. Row(Current).st \in TERMINAL
      BY <2>2, <3>2 DEF OutcomeSupported, AttemptRow, BrokerStates, Live, TERMINAL
    <3>4. s \in Swept /\ s.held = Held /\ (s.open = {} => OpenOrders = {})
      BY <1>1
    <3>5. to \in Worker /\ to.pc = "finalize" /\ to.sweep = s
      BY <1>0, <3>4 DEF Worker, Steps
    <3> HIDE DEF to
    <3>6. WorkerOK(to)
      BY <3>1, <3>3, <3>4, <3>5 DEF WorkerOK, Ended
    <3> QED
      BY <1>0, <2>2, <3>5, <3>6, MoveInv DEF to
  <2> QED
    BY <1>3, <2>1, <2>2 DEF FinalSweep
<1> QED
    BY <1>2, <1>3

LEMMA CrashInv ==
    ASSUME IInv, NEW w \in Workers, Crash(w) PROVE IInv'
<1>1. locked' \in BOOLEAN /\ authorized' \in BOOLEAN /\ first_valid' \in BOOLEAN
      /\ UNCHANGED <<intent, certified, attempts, permits, last, stage, orders, net>>
    BY DEF Crash, rows, broker, IInv, Types
<1> QED
    BY <1>1, StopInv DEF Crash

-----------------------------------------------------------------------------
(* Observations and the other changes of a permit *)

\* A permit that changes and stays what it is for.
LEMMA PermitChange ==
    ASSUME Types, NEW p \in DOMAIN permits, NEW new \in Permit, permits' = [permits EXCEPT ![p] = new]
    PROVE  /\ permits' \in Seq(Permit) /\ Len(permits') = Len(permits) /\ DOMAIN permits' = DOMAIN permits
           /\ permits'[p] = new /\ \A q \in DOMAIN permits : q # p => permits'[q] = permits[q]
<1>1. DOMAIN permits = 1..Len(permits) /\ permits \in Seq(Permit) /\ p \in 1..Len(permits)
    BY Shape DEF Types
<1> QED
    BY <1>1, ExceptSeq

\* A row that changes.
LEMMA RowChange ==
    ASSUME Types, NEW o \in Rows, NEW new \in AttemptRow, attempts' = [attempts EXCEPT ![o + 1] = new]
    PROVE  /\ attempts' \in Seq(AttemptRow) /\ Len(attempts') = Len(attempts)
           /\ attempts'[o + 1] = new /\ \A i \in Rows : i # o => attempts'[i + 1] = attempts[i + 1]
<1>1. o \in Int /\ o + 1 \in 1..Len(attempts) /\ attempts \in Seq(AttemptRow)
      /\ \A i \in Rows : i \in Int /\ i + 1 \in 1..Len(attempts)
    BY Shape DEF Types, Rows
<1>2. \A i \in Rows : i # o => i + 1 # o + 1
    BY <1>1
<1>3. /\ attempts' \in Seq(AttemptRow) /\ Len(attempts') = Len(attempts)
      /\ \A j \in 1..Len(attempts) : attempts'[j] = IF j = o + 1 THEN new ELSE attempts[j]
    BY <1>1, ExceptSeq
<1> QED
    BY <1>1, <1>2, <1>3

\* What follows an observation carries nothing but the cancel that is looked up again.
LEMMA AfterObservationOK ==
    ASSUME IInv, NEW w \in Workers, wk[w].pc \in {"record", "outcome"}, NEW seen
    PROVE  AfterObservation(w, seen) \in Worker /\ WorkerOK(AfterObservation(w, seen))
           /\ AfterObservation(w, seen).pc # "finalize"
<1> DEFINE r == wk[w]
           more == r.tries + 1
           again == [r EXCEPT !.pc = "lookup", !.tries = more, !.seen = NoOrder]
<1>0. r \in Worker /\ r.p \in DOMAIN permits /\ r.ord = permits[r.p].ord
    BY DEF IInv, Types, WorkersSound, WorkerOK
<1>1. again \in Worker /\ again.pc = "lookup" /\ again.p = r.p /\ again.ord = r.ord
  <2>1. NoOrder \in Seen /\ more \in Int
    BY <1>0, IdleOK DEF Idle, Worker
  <2> HIDE DEF more
  <2> QED
    BY <1>0, <2>1 DEF Worker, Steps
<1> HIDE DEF again
<1>2. WorkerOK(again) /\ again.pc # "finalize"
    BY <1>0, <1>1 DEF WorkerOK
<1>3. ASSUME NEW pc \in {"final", "schedule"}
      PROVE  /\ [Idle EXCEPT !.pc = pc] \in Worker /\ WorkerOK([Idle EXCEPT !.pc = pc])
             /\ [Idle EXCEPT !.pc = pc].pc # "finalize"
  <2>1. [Idle EXCEPT !.pc = pc].pc = pc
    BY DEF Idle
  <2> QED
    BY <2>1, StepOK
<1>4. Idle \in Worker /\ WorkerOK(Idle) /\ Idle.pc # "finalize"
    BY IdleOK DEF Idle
<1>5. AfterObservation(w, seen) \in {again, Idle, [Idle EXCEPT !.pc = "final"], [Idle EXCEPT !.pc = "schedule"]}
    BY DEF AfterObservation, AfterCancel, again
<1> HIDE DEF Idle
<1> QED
    BY <1>1, <1>2, <1>3, <1>4, <1>5

\* A final sweep that is outdated carries no more than it did.
LEMMA OutdateOK ==
    ASSUME IInv, NEW w \in Workers, NEW to \in Worker, WorkerOK(to),
           wk' = Outdate([wk EXCEPT ![w] = to])
    PROVE  /\ wk' \in [Workers -> Worker] /\ \A v \in Workers : WorkerOK(wk'[v])
           /\ \A v \in Workers : wk'[v].pc = "finalize" => wk'[v].mode = "outdated"
<1> DEFINE ws == [wk EXCEPT ![w] = to]
<1>1. ws \in [Workers -> Worker] /\ \A v \in Workers : WorkerOK(ws[v])
    BY DEF IInv, Types, WorkersSound
<1> HIDE DEF ws
<1>2. wk' = [v \in Workers |-> IF ws[v].pc = "finalize" THEN [ws[v] EXCEPT !.mode = "outdated"] ELSE ws[v]]
    BY DEF Outdate, ws
<1>3. ASSUME NEW v \in Workers
      PROVE  wk'[v] \in Worker /\ WorkerOK(wk'[v]) /\ (wk'[v].pc = "finalize" => wk'[v].mode = "outdated")
  <2>1. CASE ws[v].pc = "finalize"
    <3> DEFINE r == [ws[v] EXCEPT !.mode = "outdated"]
    <3>1. r \in Worker /\ r.pc = "finalize" /\ r.mode = "outdated" /\ wk'[v] = r
      BY <1>1, <1>2, <2>1 DEF Worker
    <3> HIDE DEF r
    <3> QED
      BY <3>1 DEF WorkerOK
  <2>2. CASE ws[v].pc # "finalize"
    BY <1>1, <1>2, <2>2
  <2> QED
    BY <2>1, <2>2
<1> QED
    BY <1>2, <1>3

\* record_attempt_observation: the row of the permit's attempt takes what was seen of its order.
LEMMA ObserveInv ==
    ASSUME IInv, NEW w \in Workers, wk[w].pc \in {"record", "outcome"}, NEW lookup \in BOOLEAN,
           intent = "CLAIMED", permits[wk[w].p].st \in DISPATCHED,
           ValidObservation(permits[wk[w].p].ord, wk[w].seen), Observe(wk[w].p, wk[w].seen, lookup),
           wk' = Outdate([wk EXCEPT ![w] = AfterObservation(w, wk[w].seen)]),
           UNCHANGED <<intent, locked, certified, clock, broker>>
    PROVE  IInv'
<1> DEFINE r == wk[w]
           p == r.p
           seen == r.seen
           o == permits[p].ord
           row == [st |-> seen.st, fill |-> seen.fill, looked |-> Row(o).looked \/ lookup, fresh |-> TRUE,
                   stalled |-> Row(o).stalled /\ Row(o).st = seen.st]
           settles == permits[p].st \in {"DISPATCHING", "LOOKUP_ONLY"} /\ ~LookupPending(p, seen)
           proof == IF lookup /\ permits[p].kind = "CANCEL" /\ permits[p].late THEN seen ELSE NoOrder
           new == [permits[p] EXCEPT !.st = IF settles THEN "CONSUMED" ELSE permits[p].st, !.proof = proof]
<1>1. r \in Worker /\ WorkerOK(r) /\ p \in DOMAIN permits /\ r.ord = o /\ o \in Rows /\ seen \in Seen
  <2>1. r \in Worker /\ WorkerOK(r) /\ p \in DOMAIN permits /\ r.ord = o
    BY DEF IInv, Types, WorkersSound, WorkerOK
  <2> QED
    BY <2>1 DEF IInv, PermitsSound, Worker
<1>2. /\ StateMatchesFill(seen.st, seen.fill, Qty) /\ seen.fill >= Row(o).fill
      /\ seen.st \notin {"NONE", "FAILED", "PREPARED"}
    BY DEF ValidObservation, StateMatchesFill, KNOWN, PENDING, MUTATION_ELIGIBLE, LOOKUP_ONLY, TERMINAL
<1>3. Follows(seen, orders[o])
    BY <1>1, <1>2 DEF WorkerOK
<1>4. Row(o) \in AttemptRow /\ permits[p] \in Permit
    BY <1>1, Shape DEF IInv
<1>5. row \in AttemptRow /\ row.st = seen.st /\ row.fill = seen.fill
    BY <1>1, <1>2, <1>4 DEF AttemptRow, Seen
<1>6. /\ new \in Permit /\ new.kind = permits[p].kind /\ new.ord = o /\ new.pred = permits[p].pred
      /\ new.st = IF settles THEN "CONSUMED" ELSE permits[p].st
  <2>1. proof \in Seen
    BY <1>1, IdleOK DEF Idle, Worker
  <2>2. (IF settles THEN "CONSUMED" ELSE permits[p].st) \in PermitStates
    BY <1>4 DEF Permit, PermitStates
  <2> HIDE DEF proof, settles
  <2> QED
    BY <1>4, <2>1, <2>2 DEF Permit
<1>7. attempts' = [attempts EXCEPT ![o + 1] = row]
    BY DEF Observe, ObservedOrdinal, Row
<1>8. permits' = [permits EXCEPT ![p] = new] /\ last' = p
    BY DEF Observe
<1>9. settles => permits[p].st \in {"DISPATCHING", "LOOKUP_ONLY"}
    OBVIOUS
<1>10. ~GivenUp(o)
  <2>1. permits[p].st # "EXPIRED"
    BY DEF DISPATCHED
  <2>2. CASE Creates(p)
    BY <1>1, <2>1, <2>2 DEF GivenUp, Creating
  <2>3. CASE ~Creates(p)
    BY <1>1, <2>3 DEF IInv, CancelsSound
  <2> QED
    BY <2>2, <2>3
<1>11. AfterObservation(w, seen) \in Worker /\ WorkerOK(AfterObservation(w, seen))
    BY AfterObservationOK
<1>12. /\ wk' \in [Workers -> Worker] /\ \A v \in Workers : WorkerOK(wk'[v])
       /\ \A v \in Workers : wk'[v].pc = "finalize" => wk'[v].mode = "outdated"
  <2> DEFINE to == AfterObservation(w, seen)
  <2>1. to \in Worker /\ WorkerOK(to) /\ wk' = Outdate([wk EXCEPT ![w] = to])
    BY <1>11
  <2> HIDE DEF to
  <2> QED
    BY <2>1, OutdateOK
<1> HIDE DEF row, new, settles, proof
<1>13. /\ permits' \in Seq(Permit) /\ Len(permits') = Len(permits) /\ DOMAIN permits' = DOMAIN permits
       /\ permits'[p] = new /\ \A q \in DOMAIN permits : q # p => permits'[q] = permits[q]
    BY <1>1, <1>6, <1>8, PermitChange DEF IInv
<1>14. /\ attempts' \in Seq(AttemptRow) /\ Len(attempts') = Len(attempts)
       /\ attempts'[o + 1] = row /\ \A i \in Rows : i # o => attempts'[i + 1] = attempts[i + 1]
    BY <1>1, <1>5, <1>7, RowChange DEF IInv
<1>15. Types'
  <2>1. last' \in 0..Len(permits')
    BY <1>1, <1>8, <1>13, Shape DEF IInv
  <2> QED
    BY <1>12, <1>13, <1>14, <2>1 DEF IInv, Types, clock, broker
<1>16. Keeps
  <2>1. \A q \in DOMAIN permits : PermitMoves(q)
    BY <1>2, <1>5, <1>6, <1>9, <1>13, <1>14 DEF PermitMoves
  <2>2. \A i \in Rows : RowMoves(i)
    BY <1>2, <1>3, <1>5, <1>10, <1>14 DEF RowMoves, SameRow, Row, Follows
  <2>3. orders' = orders /\ stage <= stage' /\ net' = net
    BY Shape DEF clock, broker, IInv, Types
  <2> QED
    BY <1>13, <1>14, <2>1, <2>2, <2>3 DEF Keeps
<1> QED
    BY <1>12, <1>15, <1>16, KeepInv

LEMMA RecordInv ==
    ASSUME IInv, NEW w \in Workers, RecordLookup(w) \/ RecordOutcome(w) PROVE IInv'
<1> DEFINE p == wk[w].p
           seen == wk[w].seen
<1>1. wk[w].pc \in {"record", "outcome"} /\ UNCHANGED <<intent, locked, certified, clock, broker>>
    BY DEF RecordLookup, RecordOutcome, At
<1>2. CASE Stop(w) /\ UNCHANGED <<attempts, permits, last>>
  <2>1. /\ locked' \in BOOLEAN /\ authorized' \in BOOLEAN /\ first_valid' \in BOOLEAN
        /\ UNCHANGED <<intent, certified, attempts, permits, last, stage, orders, net>>
    BY <1>1, <1>2 DEF clock, broker, IInv, Types
  <2> QED
    BY <1>2, <2>1, StopInv
<1>3. ASSUME NEW lookup \in BOOLEAN, intent = "CLAIMED", permits[p].st \in DISPATCHED,
             ValidObservation(permits[p].ord, seen), Observe(p, seen, lookup),
             wk' = Outdate([wk EXCEPT ![w] = AfterObservation(w, seen)])
      PROVE  IInv'
    BY <1>1, <1>3, ObserveInv
<1>4. CASE RecordLookup(w)
    BY <1>2, <1>3, <1>4 DEF RecordLookup, MayLookUp, DISPATCHED
<1>5. CASE RecordOutcome(w)
    BY <1>2, <1>3, <1>5 DEF RecordOutcome, DISPATCHED
<1> QED
    BY <1>4, <1>5

\* A change of what the invariant is not about, and of no worker but those that stop.
LEMMA FlagInv ==
    ASSUME IInv, Types', Keeps, UNCHANGED <<intent, certified>>, \A o \in Rows : SameRow(o),
           \A v \in Workers : WorkerOK(wk'[v])
    PROVE  IInv'
BY KeepInv

\* The lookup found no order, or failed.
LEMMA RecordNoOrderInv ==
    ASSUME IInv, NEW w \in Workers, RecordNoOrder(w) PROVE IInv'
<1> USE DEF clock, broker
<1> DEFINE r == wk[w]
           p == r.p
           o == permits[p].ord
           row == [Row(o) EXCEPT !.fresh = TRUE]
           new == [permits[p] EXCEPT !.proof = NoOrder]
<1>0. UNCHANGED <<intent, certified, clock, broker>> /\ r.pc = "record"
    BY DEF RecordNoOrder, At
<1>1. CASE Stop(w) /\ UNCHANGED <<attempts, permits, last, locked>>
  <2>1. /\ locked' \in BOOLEAN /\ authorized' \in BOOLEAN /\ first_valid' \in BOOLEAN
        /\ UNCHANGED <<intent, certified, attempts, permits, last, stage, orders, net>>
    BY <1>0, <1>1 DEF IInv, Types
  <2> QED
    BY <1>1, <2>1, StopInv
<1>2. CASE /\ attempts' = [attempts EXCEPT ![permits[p].ord + 1].fresh = TRUE]
           /\ permits' = [permits EXCEPT ![p].proof = NoOrder]
           /\ last' = 0
           /\ locked' \in BOOLEAN
           /\ wk' = Outdate([wk EXCEPT ![w] = Idle])
  <2>1. p \in DOMAIN permits /\ o \in Rows
    BY <1>0 DEF IInv, WorkersSound, WorkerOK, PermitsSound
  <2>2. Row(o) \in AttemptRow /\ permits[p] \in Permit /\ NoOrder \in Seen
    BY <2>1, Shape, IdleOK DEF IInv, Idle, Worker
  <2>3. row \in AttemptRow /\ row.st = Row(o).st /\ row.fill = Row(o).fill
    BY <2>2 DEF AttemptRow
  <2>4. /\ new \in Permit /\ new.kind = permits[p].kind /\ new.ord = o /\ new.pred = permits[p].pred
        /\ new.st = permits[p].st
    BY <2>2 DEF Permit
  <2>5. attempts' = [attempts EXCEPT ![o + 1] = row] /\ permits' = [permits EXCEPT ![p] = new]
    BY <1>2 DEF Row
  <2>6. /\ wk' \in [Workers -> Worker] /\ \A v \in Workers : WorkerOK(wk'[v])
    BY <1>2, OutdateOK, IdleOK
  <2> HIDE DEF row, new
  <2>7. /\ permits' \in Seq(Permit) /\ Len(permits') = Len(permits) /\ DOMAIN permits' = DOMAIN permits
        /\ permits'[p] = new /\ \A q \in DOMAIN permits : q # p => permits'[q] = permits[q]
    BY <2>1, <2>4, <2>5, PermitChange DEF IInv
  <2>8. /\ attempts' \in Seq(AttemptRow) /\ Len(attempts') = Len(attempts)
        /\ attempts'[o + 1] = row /\ \A i \in Rows : i # o => attempts'[i + 1] = attempts[i + 1]
    BY <2>1, <2>3, <2>5, RowChange DEF IInv
  <2>9. Types'
    <3>1. last' \in 0..Len(permits')
      <4>1. Len(permits) \in Nat
        BY Shape DEF IInv
      <4>2. last' = 0 /\ Len(permits') = Len(permits)
        BY <1>2, <2>7
      <4> QED
        BY <4>1, <4>2
    <3> QED
      BY <1>0, <1>2, <2>6, <2>7, <2>8, <3>1 DEF IInv, Types
  <2>10. \A i \in Rows : SameRow(i)
    BY <2>3, <2>8 DEF SameRow, Row
  <2>11. Keeps
    <3>1. \A q \in DOMAIN permits : PermitMoves(q)
      BY <2>4, <2>7 DEF PermitMoves
    <3>2. stage <= stage'
      BY <1>0, Shape DEF IInv, Types
    <3> QED
      BY <1>0, <2>7, <2>8, <2>10, <3>1, <3>2 DEF Keeps, RowMoves
  <2> QED
    BY <1>0, <2>6, <2>9, <2>10, <2>11, FlagInv
<1>3. locked \in BOOLEAN
    BY DEF IInv, Types
<1> QED
    BY <1>1, <1>2, <1>3 DEF RecordNoOrder

\* One permit changes, and one worker may move on.
LEMMA PermitInv ==
    ASSUME IInv, NEW p \in DOMAIN permits, NEW new \in Permit, permits' = [permits EXCEPT ![p] = new],
           new.kind = permits[p].kind, new.ord = permits[p].ord, new.pred = permits[p].pred,
           \/ new.st = permits[p].st
           \/ permits[p].st = "PREPARED" /\ new.st = "DISPATCHING"
           \/ permits[p].st = "DISPATCHING" /\ new.st = "LOOKUP_ONLY",
           \/ net' = net
           \/ net' = net \cup {p} /\ permits[p].st = "PREPARED" /\ new.st = "DISPATCHING",
           wk' \in [Workers -> Worker], \A v \in Workers : WorkerOK(wk'[v]),
           authorized' \in BOOLEAN, first_valid' \in BOOLEAN,
           UNCHANGED <<intent, locked, certified, attempts, last, stage, orders>>
    PROVE  IInv'
<1>1. /\ permits' \in Seq(Permit) /\ Len(permits') = Len(permits) /\ DOMAIN permits' = DOMAIN permits
      /\ permits'[p] = new /\ \A q \in DOMAIN permits : q # p => permits'[q] = permits[q]
    BY PermitChange DEF IInv
<1>2. Types'
    BY <1>1 DEF IInv, Types
<1>3. \A i \in Rows : SameRow(i)
    BY DEF SameRow, Row
<1>4. Keeps
  <2>1. \A q \in DOMAIN permits : PermitMoves(q)
    BY <1>1 DEF PermitMoves
  <2>2. stage <= stage'
    BY Shape DEF IInv, Types
  <2>3. net' \subseteq net \cup {q \in DOMAIN permits : permits[q].st = "PREPARED" /\ permits'[q].st = "DISPATCHING"}
    BY <1>1
  <2> QED
    BY <1>1, <1>3, <2>1, <2>2, <2>3 DEF Keeps, RowMoves
<1> QED
    BY <1>2, <1>3, <1>4, FlagInv

\* acquire_broker_dispatch
LEMMA AcquireInv ==
    ASSUME IInv, NEW w \in Workers, Acquire(w) PROVE IInv'
<1> DEFINE r == wk[w]
           p == r.p
<1>0. /\ UNCHANGED <<intent, locked, certified, attempts, last, authorized, stage, crashes, orders>>
      /\ r \in Worker /\ r.pc = "acquire" /\ p \in DOMAIN permits /\ r.ord = permits[p].ord
      /\ permits[p] \in Permit /\ permits[p].ord \in Rows
  <2>1. r.pc = "acquire" /\ UNCHANGED <<intent, locked, certified, attempts, last, authorized, stage, crashes, orders>>
    BY DEF Acquire, At
  <2>2. r \in Worker /\ p \in DOMAIN permits /\ r.ord = permits[p].ord
    BY <2>1 DEF IInv, Types, WorkersSound, WorkerOK
  <2> QED
    BY <2>1, <2>2, Shape DEF IInv, PermitsSound
<1>1. CASE UNCHANGED <<permits, net, first_valid>> /\ Stop(w)
  <2>1. locked' \in BOOLEAN /\ authorized' \in BOOLEAN /\ first_valid' \in BOOLEAN
    BY <1>0, <1>1 DEF IInv, Types
  <2> QED
    BY <1>0, <1>1, <2>1, StopInv
<1>2. CASE CancelIsDue(p) /\ Go(w, Planned("CANCEL")) /\ UNCHANGED <<permits, net, first_valid>>
  <2>1. locked' \in BOOLEAN /\ authorized' \in BOOLEAN /\ first_valid' \in BOOLEAN
    BY <1>0, <1>2 DEF IInv, Types
  <2>2. attempts # <<>> /\ stage = Hard
    BY <1>0, <1>2, Shape DEF CancelIsDue, Rows, IInv
  <2>3. Planned("CANCEL") \in Worker /\ WorkerOK(Planned("CANCEL"))
    BY <2>2, PlannedOK DEF Kinds
  <2> QED
    BY <1>0, <1>2, <2>1, <2>3, MoveInv
<1>3. CASE /\ permits[p].st = "PREPARED"
           /\ permits' = [permits EXCEPT ![p].st = "DISPATCHING"]
           /\ net' = net \cup {p}
           /\ first_valid' = IF permits[p].kind = "SUBMIT" THEN authorized ELSE first_valid
           /\ Go(w, [wk[w] EXCEPT !.pc = "call"])
  <2> DEFINE new == [permits[p] EXCEPT !.st = "DISPATCHING"]
             to == [r EXCEPT !.pc = "call"]
  <2>1. /\ new \in Permit /\ new.kind = permits[p].kind /\ new.ord = permits[p].ord
        /\ new.pred = permits[p].pred /\ new.st = "DISPATCHING"
    BY <1>0 DEF Permit, PermitStates
  <2>2. to \in Worker /\ to.pc = "call" /\ to.p = p /\ to.ord = r.ord
    BY <1>0 DEF Worker, Steps
  <2>3. permits' = [permits EXCEPT ![p] = new] /\ wk' = [wk EXCEPT ![w] = to]
    BY <1>3 DEF Go
  <2> HIDE DEF new, to
  <2>4. WorkerOK(to)
    BY <1>0, <2>2 DEF WorkerOK
  <2>5. wk' \in [Workers -> Worker] /\ \A v \in Workers : WorkerOK(wk'[v])
    BY <2>2, <2>3, <2>4 DEF IInv, Types, WorkersSound
  <2>6. authorized' \in BOOLEAN /\ first_valid' \in BOOLEAN
    BY <1>0, <1>3 DEF IInv, Types
  <2> QED
    BY <1>0, <1>3, <2>1, <2>3, <2>5, <2>6, PermitInv
<1> QED
    BY <1>1, <1>2, <1>3 DEF Acquire

\* mark_broker_dispatch_ambiguous
LEMMA AmbiguousInv ==
    ASSUME IInv, NEW w \in Workers, Ambiguous(w) PROVE IInv'
<1> USE DEF clock, broker
<1> DEFINE r == wk[w]
           p == r.p
<1>0. /\ UNCHANGED <<intent, locked, certified, attempts, last, clock, broker>>
      /\ r \in Worker /\ r.pc = "call" /\ p \in DOMAIN permits /\ r.ord = permits[p].ord
      /\ permits[p] \in Permit
  <2>1. r.pc = "call" /\ UNCHANGED <<intent, locked, certified, attempts, last, clock, broker>>
    BY DEF Ambiguous, At
  <2>2. r \in Worker /\ p \in DOMAIN permits /\ r.ord = permits[p].ord
    BY <2>1 DEF IInv, Types, WorkersSound, WorkerOK
  <2> QED
    BY <2>1, <2>2, Shape DEF IInv
<1>1. locked' \in BOOLEAN /\ authorized' \in BOOLEAN /\ first_valid' \in BOOLEAN
    BY <1>0 DEF IInv, Types
<1>2. CASE Stop(w) /\ UNCHANGED permits
    BY <1>0, <1>1, <1>2, StopInv
<1>3. CASE /\ permits[p].st = "DISPATCHING"
           /\ permits' = [permits EXCEPT ![p].st = "LOOKUP_ONLY"]
           /\ Go(w, AfterNoAnswer(w))
  <2> DEFINE new == [permits[p] EXCEPT !.st = "LOOKUP_ONLY"]
             on == [r EXCEPT !.pc = "lookup"]
             to == AfterNoAnswer(w)
  <2>1. /\ new \in Permit /\ new.kind = permits[p].kind /\ new.ord = permits[p].ord
        /\ new.pred = permits[p].pred /\ new.st = "LOOKUP_ONLY"
    BY <1>0 DEF Permit, PermitStates
  <2>2. on \in Worker /\ on.pc = "lookup" /\ on.p = p /\ on.ord = r.ord
    BY <1>0 DEF Worker, Steps
  <2>3. permits' = [permits EXCEPT ![p] = new] /\ wk' = [wk EXCEPT ![w] = to]
    BY <1>3 DEF Go
  <2>4. to = on \/ to = Idle
    BY DEF AfterNoAnswer
  <2> HIDE DEF new, on, to
  <2>5. to \in Worker /\ WorkerOK(to)
    BY <1>0, <2>2, <2>4, IdleOK DEF WorkerOK
  <2>6. wk' \in [Workers -> Worker] /\ \A v \in Workers : WorkerOK(wk'[v])
    BY <2>3, <2>5 DEF IInv, Types, WorkersSound
  <2> QED
    BY <1>0, <1>1, <1>3, <2>1, <2>3, <2>6, PermitInv
<1> QED
    BY <1>2, <1>3 DEF Ambiguous

-----------------------------------------------------------------------------
(* Time and lost requests *)

\* Nothing changes but flags of the clock, requests that are gone, and workers that stop.
LEMMA QuietInv ==
    ASSUME IInv, UNCHANGED <<intent, locked, certified, attempts, permits, last, orders, first_valid>>,
           stage' \in 0..Hard, stage <= stage', authorized' \in BOOLEAN, net' \subseteq net,
           wk' \in [Workers -> Worker], \A v \in Workers : WorkerOK(wk'[v])
    PROVE  IInv'
<1>1. Types'
    BY DEF IInv, Types
<1>2. \A i \in Rows : SameRow(i)
    BY DEF SameRow, Row
<1>3. Keeps
    BY <1>2 DEF Keeps, PermitMoves, RowMoves
<1> QED
    BY <1>1, <1>2, <1>3, FlagInv

LEMMA QuietStepInv ==
    ASSUME IInv, \/ NextBoundary \/ AuthorizationLapses
                 \/ \E p \in net : Drop(p) \/ Refuse(p)
    PROVE  IInv'
<1> USE DEF rows, clock, broker
<1>1. /\ wk \in [Workers -> Worker] /\ \A v \in Workers : WorkerOK(wk[v])
      /\ stage \in 0..Hard /\ stage <= stage /\ authorized \in BOOLEAN /\ Hard \in Nat /\ stage \in Int
    BY Shape DEF IInv, Types, WorkersSound
<1>2. CASE NextBoundary
  <2>1. stage' \in 0..Hard /\ stage <= stage'
    BY <1>1, <1>2 DEF NextBoundary
  <2> QED
    BY <1>1, <1>2, <2>1, QuietInv DEF NextBoundary
<1>3. CASE AuthorizationLapses
    BY <1>1, <1>3, QuietInv DEF AuthorizationLapses
<1>4. ASSUME NEW p \in net, Drop(p) PROVE IInv'
    BY <1>1, <1>4, QuietInv DEF Drop
<1>5. ASSUME NEW p \in net, Refuse(p) PROVE IInv'
  <2>1. wk' = [w \in Workers |-> IF w \in Waiting(p) /\ "refuse" \in Faults THEN Idle ELSE wk[w]]
    BY <1>5 DEF Refuse
  <2>2. wk' \in [Workers -> Worker] /\ \A v \in Workers : WorkerOK(wk'[v])
    BY <1>1, <2>1, IdleOK
  <2> QED
    BY <1>1, <1>5, <2>2, QuietInv DEF Refuse
<1> QED
    BY <1>2, <1>3, <1>4, <1>5

LEMMA PermitLateInv ==
    ASSUME IInv, NEW p \in DOMAIN permits, PermitLate(p) PROVE IInv'
<1> USE DEF clock, broker
<1> DEFINE new == [permits[p] EXCEPT !.late = TRUE]
<1>1. UNCHANGED <<intent, locked, certified, attempts, last, clock, broker, wk>>
      /\ permits' = [permits EXCEPT ![p] = new]
    BY DEF PermitLate
<1>2. permits[p] \in Permit
    BY Shape DEF IInv
<1>3. /\ new \in Permit /\ new.kind = permits[p].kind /\ new.ord = permits[p].ord
      /\ new.pred = permits[p].pred /\ new.st = permits[p].st
    BY <1>2 DEF Permit
<1>4. /\ wk' \in [Workers -> Worker] /\ \A v \in Workers : WorkerOK(wk'[v])
      /\ authorized' \in BOOLEAN /\ first_valid' \in BOOLEAN
    BY <1>1 DEF IInv, Types, WorkersSound
<1> HIDE DEF new
<1> QED
    BY <1>1, <1>3, <1>4, PermitInv

LEMMA RowFlagInv ==
    ASSUME IInv, NEW o \in Rows, CadencePasses(o) \/ DeadlinePasses(o) PROVE IInv'
<1> USE DEF clock, broker
<1>1. UNCHANGED <<intent, locked, certified, permits, last, clock, broker, wk>>
    BY DEF CadencePasses, DeadlinePasses
<1>2. Row(o) \in AttemptRow
    BY Shape DEF IInv
<1>3. PICK new \in AttemptRow : /\ new.st = Row(o).st /\ new.fill = Row(o).fill
                                /\ attempts' = [attempts EXCEPT ![o + 1] = new]
  <2>1. CASE CadencePasses(o)
    <3> DEFINE row == [Row(o) EXCEPT !.fresh = FALSE]
    <3>1. row \in AttemptRow /\ row.st = Row(o).st /\ row.fill = Row(o).fill
      BY <1>2 DEF AttemptRow
    <3>2. attempts' = [attempts EXCEPT ![o + 1] = row]
      BY <2>1 DEF CadencePasses, Row
    <3> HIDE DEF row
    <3> QED
      BY <3>1, <3>2
  <2>2. CASE DeadlinePasses(o)
    <3> DEFINE row == [Row(o) EXCEPT !.stalled = TRUE]
    <3>1. row \in AttemptRow /\ row.st = Row(o).st /\ row.fill = Row(o).fill
      BY <1>2 DEF AttemptRow
    <3>2. attempts' = [attempts EXCEPT ![o + 1] = row]
      BY <2>2 DEF DeadlinePasses, Row
    <3> HIDE DEF row
    <3> QED
      BY <3>1, <3>2
  <2> QED
    BY <2>1, <2>2
<1>4. /\ attempts' \in Seq(AttemptRow) /\ Len(attempts') = Len(attempts)
      /\ attempts'[o + 1] = new /\ \A i \in Rows : i # o => attempts'[i + 1] = attempts[i + 1]
    BY <1>3, RowChange DEF IInv
<1>5. Types'
    BY <1>1, <1>4 DEF IInv, Types
<1>6. \A i \in Rows : SameRow(i)
    BY <1>3, <1>4 DEF SameRow, Row
<1>7. Keeps
  <2>1. stage <= stage'
    BY <1>1, Shape DEF IInv, Types
  <2> QED
    BY <1>1, <1>4, <1>6, <2>1 DEF Keeps, RowMoves, PermitMoves
<1>8. \A v \in Workers : WorkerOK(wk'[v])
    BY <1>1 DEF IInv, WorkersSound
<1> QED
    BY <1>1, <1>5, <1>6, <1>7, <1>8, FlagInv

-----------------------------------------------------------------------------
(* The certificate *)

\* finalize_execution_authorized: the sweep that is compared is still true of the account.
LEMMA FinalizeInv ==
    ASSUME IInv, NEW w \in Workers, Finalize(w) PROVE IInv'
<1> USE DEF rows, clock, broker
<1> DEFINE r == wk[w]
           s == r.sweep
<1>0. /\ UNCHANGED <<clock, broker, attempts, permits, last>> /\ r.pc = "finalize"
      /\ authorized' \in BOOLEAN /\ first_valid' \in BOOLEAN /\ r \in Worker /\ WorkerOK(r)
  <2>1. UNCHANGED <<clock, broker, attempts, permits, last>> /\ r.pc = "finalize"
    BY DEF Finalize, At
  <2> QED
    BY <2>1 DEF IInv, Types, WorkersSound
<1>1. CASE Stop(w) /\ locked' \in BOOLEAN /\ UNCHANGED <<intent, certified>>
    BY <1>0, <1>1, StopInv
<1>2. CASE Go(w, AfterPending(w)) /\ UNCHANGED <<intent, certified, locked>>
  <2> DEFINE pc == IF r.tries = 0 THEN "final" ELSE "idle"
             more == 1 - r.tries
             to == [Idle EXCEPT !.pc = pc, !.tries = more]
  <2>1. pc \in {"final", "idle"} /\ more \in Int
    BY <1>0 DEF Worker
  <2> HIDE DEF pc, more
  <2>2. to \in Worker /\ to.pc = pc
    BY <2>1, IdleOK DEF Worker, Steps
  <2>3. Go(w, to) /\ locked' \in BOOLEAN
    BY <1>2 DEF AfterPending, pc, more, IInv, Types
  <2> HIDE DEF to
  <2>4. WorkerOK(to)
    BY <2>1, <2>2 DEF WorkerOK
  <2> QED
    BY <1>0, <1>2, <2>2, <2>3, <2>4, MoveInv
<1>3. CASE /\ r.mode # "outdated" /\ FinalSweepSafe(s) /\ intent' = "TERMINAL"
           /\ certified' = Row(Current).fill /\ locked' \in BOOLEAN /\ Stop(w)
  <2>1. Ended /\ s.held = Held /\ certified' = Held
    BY <1>0, <1>3 DEF WorkerOK, FinalSweepSafe, PositionsAfterFill
  <2>2. wk' \in [Workers -> Worker] /\ \A v \in Workers : WorkerOK(wk'[v])
    BY <1>3, IdleOK DEF Stop, Go, IInv, Types, WorkersSound
  <2>3. Row(Current) \in AttemptRow
    BY <2>1, CurrentIs, Shape DEF Ended, IInv, CurrentFacts
  <2>4. certified' \in 0..Qty
    BY <1>3, <2>3 DEF AttemptRow
  <2>5. Types'
    BY <1>0, <1>3, <2>2, <2>4 DEF IInv, Types
  <2>6. Keeps
    <3>1. stage <= stage'
      BY <1>0, Shape DEF IInv, Types
    <3> QED
      BY <1>0, <3>1 DEF Keeps, PermitMoves, RowMoves, SameRow, Row
  <2>7. PermitsSound' /\ CancelsSound' /\ RowsSound' /\ OrdersSound'
    BY <2>5, <2>6, KeepsPermits, KeepsCancels, KeepsRows
  <2>8. Current' = Current
    BY <2>1, <2>5, <2>6, KeepsCurrent DEF Ended
  <2>9. Ended' /\ Held' = Held
    BY <1>0, <2>1, <2>8 DEF Ended, OpenOrders, Held, Row
  <2>10. Rows' = Rows
    BY <1>0 DEF Rows
  <2>11. ASSUME NEW v \in Workers PROVE WorkerOK(wk[v])'
    BY <1>0, <2>2, <2>9, <2>10 DEF WorkerOK, Row
  <2> QED
    BY <1>3, <2>1, <2>5, <2>7, <2>9, <2>11 DEF IInv, WorkersSound, CertificateSound
<1>4. locked \in BOOLEAN
    BY DEF IInv, Types
<1> QED
    BY <1>1, <1>2, <1>3, <1>4 DEF Finalize

-----------------------------------------------------------------------------
(* The broker *)

\* Once an order exists it stays, its fill only grows, and one that has ended does not change.
OrdersMove ==
    /\ orders' \in [Ordinals -> BrokerOrder]
    /\ \A o \in Ordinals :
          /\ orders[o].st # "NONE" => orders'[o].st # "NONE"
          /\ orders[o].fill <= orders'[o].fill
          /\ orders[o].st \in TERMINAL => orders'[o] = orders[o]
          /\ orders'[o].st \in {"NONE", "PENDING_NEW"} => orders'[o].fill = 0
          /\ orders'[o].st \in Live => orders'[o].fill < Qty
          /\ orders'[o].st = "PENDING_REPLACE" => o < LastOrdinal /\ orders'[o + 1].st = "PENDING_NEW"

\* The answer to a write reaches the worker that waits for it.
Answered(v) ==
    /\ wk[v].pc = "call" /\ wk'[v].pc \in {"reread", "outcome"}
    /\ wk'[v].p = wk[v].p /\ wk'[v].ord = wk[v].ord
    /\ wk'[v].pc = "outcome" => wk'[v].seen = orders'[wk[v].ord]

LEMMA FollowsOn ==
    ASSUME Types, OrdersMove, NEW o \in Ordinals, NEW seen, seen.fill \in Int, Follows(seen, orders[o])
    PROVE  Follows(seen, orders'[o])
<1>1. /\ orders[o] \in BrokerOrder /\ orders'[o] \in BrokerOrder
      /\ orders[o].st # "NONE" => orders'[o].st # "NONE"
      /\ orders[o].fill <= orders'[o].fill
      /\ orders[o].st \in TERMINAL => orders'[o] = orders[o]
    BY DEF OrdersMove, Types
<1>2. orders[o].fill \in Int /\ orders'[o].fill \in Int
    BY <1>1 DEF BrokerOrder
<1> QED
    BY <1>1, <1>2 DEF Follows

LEMMA OrdersInv ==
    ASSUME IInv, OrdersMove, ~Ended, net' \subseteq net, UNCHANGED <<rows, clock>>,
           \A o \in Ordinals : orders[o].st = "NONE" /\ orders'[o].st # "NONE" =>
               /\ o \in Rows
               /\ \A p \in DOMAIN permits :
                     Creating(p, o) => p \notin net' /\ permits[p].st # "PREPARED",
           wk' \in [Workers -> Worker], \A v \in Workers : wk'[v] = wk[v] \/ Answered(v)
    PROVE  IInv'
<1> USE DEF rows, clock
<1>1. Types'
    BY DEF IInv, Types, OrdersMove
<1>2. Rows' = Rows /\ Newest' = Newest
    BY DEF Rows, Newest
<1>3. PermitsSound'
    BY <1>2 DEF IInv, PermitsSound, Row, Creates, Creating
<1>4. CancelsSound'
    BY <1>2 DEF IInv, CancelsSound, Row, Creates, Creating, GivenUp
<1>5. RowsSound'
  <2> SUFFICES ASSUME NEW o \in Rows, Row(o).st # "PREPARED" PROVE Follows(Row(o), orders'[o])
    BY <1>2 DEF IInv, RowsSound, Row, Follows
  <2>1. o \in Ordinals /\ Row(o) \in AttemptRow
    BY Shape DEF IInv
  <2>2. Row(o).fill \in Int /\ Follows(Row(o), orders[o])
    BY <2>1 DEF AttemptRow, IInv, RowsSound
  <2> QED
    BY <2>1, <2>2, FollowsOn DEF IInv
<1>6. OrdersSound'
  <2>1. \A o \in Ordinals : o \notin Rows' => orders'[o].st = "NONE"
    BY <1>2 DEF IInv, OrdersSound
  <2>2. \A p \in net' : permits'[p].st \in DISPATCHED
    BY DEF IInv, OrdersSound
  <2>3. ASSUME NEW p \in DOMAIN permits', Creates(p)', p \in net' \/ permits'[p].st = "PREPARED"
        PROVE  orders'[permits'[p].ord].st = "NONE"
    <3>1. permits[p].ord \in Ordinals
      BY <2>3, Shape DEF Permit, IInv
    <3> QED
      BY <2>3, <3>1 DEF IInv, OrdersSound, Creates, Creating
  <2> QED
    BY <2>1, <2>2, <2>3 DEF OrdersSound, OrdersMove
<1>7. ASSUME NEW v \in Workers PROVE WorkerOK(wk[v])'
  <2> DEFINE r == wk[v]
  <2>0. r \in Worker /\ WorkerOK(r) /\ r.ord \in Ordinals
    BY DEF IInv, Types, WorkersSound, Worker
  <2>1. CASE wk'[v] = wk[v]
    <3>1. ASSUME r.pc \in {"record", "outcome"}, r.seen.st \notin {"NONE", "FAILED"}
          PROVE  r.seen.st # "PREPARED" /\ Follows(r.seen, orders'[r.ord])
      <4>1. r.seen.st # "PREPARED" /\ Follows(r.seen, orders[r.ord])
        BY <2>0, <3>1 DEF WorkerOK
      <4>2. r.seen.fill \in Int
        BY <2>0 DEF Worker, Seen
      <4> QED
        BY <2>0, <4>1, <4>2, FollowsOn DEF IInv
    <3>2. ~(r.pc = "finalize" /\ r.mode # "outdated" /\ r.sweep.open = {})
      BY <2>0 DEF WorkerOK
    <3> QED
      BY <1>2, <2>0, <2>1, <3>1, <3>2 DEF WorkerOK, Row
  <2>2. CASE Answered(v)
    <3> DEFINE n == wk'[v]
    <3>1. n \in Worker /\ n.pc \in {"reread", "outcome"} /\ n.p \in DOMAIN permits /\ n.ord = permits[n.p].ord
      BY <2>0, <2>2 DEF Answered, WorkerOK
    <3>2. ASSUME n.pc = "outcome", n.seen.st \notin {"NONE", "FAILED"}
          PROVE  n.seen.st # "PREPARED" /\ Follows(n.seen, orders'[n.ord])
      <4>1. n.seen = orders'[n.ord] /\ n.ord \in Ordinals
        BY <2>0, <2>2, <3>2 DEF Answered
      <4>2. orders'[n.ord] \in BrokerOrder
        BY <4>1 DEF OrdersMove
      <4>3. n.seen.st # "PREPARED" /\ n.seen.fill \in Int
        BY <4>1, <4>2 DEF BrokerOrder, BrokerStates, Live, TERMINAL
      <4> QED
        BY <3>2, <4>1, <4>3 DEF Follows
    <3> HIDE DEF n
    <3> QED
      BY <3>1, <3>2 DEF WorkerOK, n
  <2> QED
    BY <2>1, <2>2
<1>8. CertificateSound'
    BY DEF IInv, CertificateSound
<1> QED
    BY <1>1, <1>3, <1>4, <1>5, <1>6, <1>7, <1>8 DEF IInv, WorkersSound

\* An open order: the intent has not ended.
LEMMA OpenNotEnded ==
    ASSUME NEW o \in Ordinals, orders[o].st \in Live PROVE ~Ended
BY DEF Ended, OpenOrders, Live, PENDING, MUTATION_ELIGIBLE, LOOKUP_ONLY

\* An order closes, or is open again; one that was to replace it is rejected.
LEMMA BecomesMoves ==
    ASSUME IInv, NEW o \in Ordinals, orders[o].st \in Live, NEW new \in BrokerOrder, Becomes(o, new),
           new.st \in TERMINAL \cup {"NEW", "PARTIALLY_FILLED"}, new.st \in Live => new.fill < Qty,
           orders[o].fill <= new.fill
    PROVE  OrdersMove /\ \A q \in Ordinals : orders[q].st = "NONE" => orders'[q].st = "NONE"
<1>1. \A q \in Ordinals : /\ orders[q] \in BrokerOrder /\ orders[q].fill \in Int /\ q \in Int
                          /\ orders[q].st \in {"NONE", "PENDING_NEW"} => orders[q].fill = 0
                          /\ orders[q].st \in Live => orders[q].fill < Qty
                          /\ orders[q].st = "PENDING_REPLACE" => q < LastOrdinal /\ orders[q + 1].st = "PENDING_NEW"
  <2>1. \A q \in Ordinals : orders[q] \in BrokerOrder
    BY DEF IInv, Types
  <2> QED
    BY <2>1 DEF IInv, OrdersSound, BrokerOrder, Ordinals
<1>2. \A q \in Ordinals : orders'[q] = IF q = o THEN new
                                       ELSE IF q = o + 1 /\ SuccessorFails(o)
                                            THEN [orders[q] EXCEPT !.st = "REJECTED"] ELSE orders[q]
    BY DEF Becomes
<1>3. ASSUME NEW q \in Ordinals
      PROVE  /\ orders'[q] \in BrokerOrder
             /\ orders[q].st # "NONE" => orders'[q].st # "NONE"
             /\ orders[q].st = "NONE" => orders'[q].st = "NONE"
             /\ orders[q].fill <= orders'[q].fill
             /\ orders[q].st \in TERMINAL => orders'[q] = orders[q]
             /\ orders'[q].st \in {"NONE", "PENDING_NEW"} => orders'[q].fill = 0
             /\ orders'[q].st \in Live => orders'[q].fill < Qty
             /\ orders'[q].st = "PENDING_REPLACE" => orders'[q] = orders[q] /\ q # o
  <2>1. CASE q = o
    BY <1>1, <1>2, <2>1 DEF Live, TERMINAL, BrokerOrder
  <2>2. CASE q # o /\ q = o + 1 /\ SuccessorFails(o)
    <3>1. orders'[q] = [orders[q] EXCEPT !.st = "REJECTED"] /\ orders[q].st = "PENDING_NEW"
      BY <1>2, <2>2 DEF SuccessorFails
    <3>2. orders'[q].st = "REJECTED" /\ orders'[q].fill = orders[q].fill /\ orders'[q] \in BrokerOrder
      BY <1>1, <3>1 DEF BrokerOrder, BrokerStates, TERMINAL
    <3> QED
      BY <1>1, <2>2, <3>1, <3>2 DEF Live, TERMINAL
  <2>3. CASE q # o /\ ~(q = o + 1 /\ SuccessorFails(o))
    <3>1. orders'[q] = orders[q]
      BY <1>2, <2>3
    <3> QED
      BY <1>1, <2>3, <3>1
  <2> QED
    BY <2>1, <2>2, <2>3
<1>4. ASSUME NEW q \in Ordinals, orders'[q].st = "PENDING_REPLACE"
      PROVE  q < LastOrdinal /\ orders'[q + 1].st = "PENDING_NEW"
  <2>1. q # o /\ q < LastOrdinal /\ orders[q + 1].st = "PENDING_NEW" /\ q + 1 \in Ordinals
    BY <1>1, <1>3, <1>4, BrokerExecutionAssumption DEF Ordinals
  <2>2. q + 1 # o /\ q + 1 # o + 1
    BY <1>1, <2>1 DEF Live
  <2> QED
    BY <1>2, <2>1, <2>2
<1>5. orders' \in [Ordinals -> BrokerOrder]
    BY <1>2, <1>3 DEF Becomes
<1> QED
    BY <1>3, <1>4, <1>5 DEF OrdersMove

LEMMA BrokerInv ==
    ASSUME IInv, NEW o \in Ordinals, Fill(o) \/ ReplaceResolves(o) \/ Close(o) PROVE IInv'
<1>0. /\ UNCHANGED <<rows, clock, net, wk>> /\ orders[o].st \in Live
      /\ orders[o] \in BrokerOrder /\ orders[o].fill \in Nat /\ orders[o].fill < Qty /\ Qty \in Nat
      /\ o \in Int /\ LastOrdinal \in Nat
  <2>1. UNCHANGED <<rows, clock, net, wk>> /\ orders[o].st \in Live
    BY DEF Fill, ReplaceResolves, Close, Live
  <2>2. orders[o] \in BrokerOrder
    BY DEF IInv, Types
  <2> QED
    BY <2>1, <2>2, BrokerExecutionAssumption DEF IInv, OrdersSound, BrokerOrder, Ordinals
<1>1. ASSUME OrdersMove, \A q \in Ordinals : orders[q].st = "NONE" => orders'[q].st = "NONE" PROVE IInv'
  <2>1. ~Ended /\ net' \subseteq net /\ wk' \in [Workers -> Worker]
    BY <1>0, OpenNotEnded DEF IInv, Types
  <2> QED
    BY <1>0, <1>1, <2>1, OrdersInv
<1>2. ASSUME NEW new \in BrokerOrder, Becomes(o, new), new.st \in TERMINAL \cup {"NEW", "PARTIALLY_FILLED"},
             new.st \in Live => new.fill < Qty, orders[o].fill <= new.fill
      PROVE  IInv'
    BY <1>0, <1>1, <1>2, BecomesMoves
<1>3. \A q \in Ordinals : /\ orders[q] \in BrokerOrder /\ orders[q].fill \in Int /\ q \in Int
                          /\ orders[q].st \in {"NONE", "PENDING_NEW"} => orders[q].fill = 0
                          /\ orders[q].st \in Live => orders[q].fill < Qty
                          /\ orders[q].st = "PENDING_REPLACE" =>
                                q < LastOrdinal /\ q + 1 \in Ordinals /\ orders[q + 1].st = "PENDING_NEW"
  <2>1. \A q \in Ordinals : orders[q] \in BrokerOrder
    BY DEF IInv, Types
  <2> QED
    BY <1>0, <2>1 DEF IInv, OrdersSound, BrokerOrder, Ordinals
<1>4. CASE Fill(o)
  <2> DEFINE fill == orders[o].fill + 1
  <2>1. fill \in 0..Qty /\ orders[o].fill <= fill
    BY <1>0
  <2>2. CASE fill = Qty
    <3> DEFINE new == [st |-> "FILLED", fill |-> fill]
    <3>1. new \in BrokerOrder /\ new.st = "FILLED" /\ new.fill = fill
      BY <2>1 DEF BrokerOrder, BrokerStates, TERMINAL
    <3>2. Becomes(o, new)
      BY <1>4, <2>2 DEF Fill
    <3> HIDE DEF new, fill
    <3> QED
      BY <1>2, <2>1, <3>1, <3>2 DEF TERMINAL, Live
  <2>3. CASE fill # Qty
    <3> DEFINE st == IF orders[o].st = "NEW" THEN "PARTIALLY_FILLED" ELSE orders[o].st
               new == [st |-> st, fill |-> fill]
    <3>1. st \in Live /\ (st = "PENDING_REPLACE" => orders[o].st = "PENDING_REPLACE") /\ fill < Qty
      BY <1>0, <2>1, <2>3 DEF Live
    <3>2. orders' = [orders EXCEPT ![o] = new]
      BY <1>4, <2>3 DEF Fill
    <3> HIDE DEF fill, st
    <3>3. new \in BrokerOrder /\ new.st = st /\ new.fill = fill
      BY <2>1, <3>1 DEF BrokerOrder, BrokerStates
    <3> HIDE DEF new
    <3>4. /\ orders' \in [Ordinals -> BrokerOrder] /\ orders'[o] = new
          /\ \A q \in Ordinals : q # o => orders'[q] = orders[q]
      BY <3>2, <3>3 DEF IInv, Types
    <3>5. ASSUME NEW q \in Ordinals, orders'[q].st = "PENDING_REPLACE"
          PROVE  q < LastOrdinal /\ orders'[q + 1].st = "PENDING_NEW"
      <4>1. q < LastOrdinal /\ q + 1 \in Ordinals /\ orders[q + 1].st = "PENDING_NEW"
        BY <1>3, <3>1, <3>3, <3>4, <3>5
      <4>2. q + 1 # o
        BY <1>0, <4>1 DEF Live
      <4> QED
        BY <3>4, <4>1, <4>2
    <3>6. OrdersMove /\ \A q \in Ordinals : orders[q].st = "NONE" => orders'[q].st = "NONE"
      <4>1. ASSUME NEW q \in Ordinals
            PROVE  /\ orders[q].st # "NONE" <=> orders'[q].st # "NONE"
                   /\ orders[q].fill <= orders'[q].fill
                   /\ orders[q].st \in TERMINAL => orders'[q] = orders[q]
                   /\ orders'[q].st \in {"NONE", "PENDING_NEW"} => orders'[q].fill = 0
                   /\ orders'[q].st \in Live => orders'[q].fill < Qty
        <5>1. CASE q = o
          BY <1>0, <2>1, <3>1, <3>3, <3>4, <5>1 DEF Live, TERMINAL
        <5>2. CASE q # o
          BY <1>3, <3>4, <5>2
        <5> QED
          BY <5>1, <5>2
      <4> QED
        BY <3>4, <3>5, <4>1 DEF OrdersMove
    <3> QED
      BY <1>1, <3>6
  <2> QED
    BY <2>2, <2>3
<1>5. CASE ReplaceResolves(o)
  <2>0. orders[o].st = "PENDING_REPLACE" /\ o + 1 \in Ordinals /\ orders[o + 1].st = "PENDING_NEW"
        /\ orders[o + 1].fill = 0
    BY <1>3, <1>5 DEF ReplaceResolves
  <2>1. CASE orders' = [orders EXCEPT ![o].st = "REPLACED", ![o + 1].st = "NEW"]
    <3> DEFINE old == [orders[o] EXCEPT !.st = "REPLACED"]
               new == [orders[o + 1] EXCEPT !.st = "NEW"]
    <3>1. old \in BrokerOrder /\ old.st = "REPLACED" /\ old.fill = orders[o].fill
      BY <1>0 DEF BrokerOrder, BrokerStates, TERMINAL
    <3>2. new \in BrokerOrder /\ new.st = "NEW" /\ new.fill = 0
      BY <1>3, <2>0 DEF BrokerOrder, BrokerStates, Live
    <3>3. /\ orders' \in [Ordinals -> BrokerOrder] /\ orders'[o] = old /\ orders'[o + 1] = new
          /\ \A q \in Ordinals : q # o /\ q # o + 1 => orders'[q] = orders[q]
      <4>1. o # o + 1 /\ orders \in [Ordinals -> BrokerOrder]
        BY <1>0 DEF IInv, Types
      <4>2. orders' = [orders EXCEPT ![o] = old, ![o + 1] = new]
        BY <2>0, <2>1, <4>1
      <4> HIDE DEF old, new
      <4> QED
        BY <2>0, <3>1, <3>2, <4>1, <4>2
    <3> HIDE DEF old, new
    <3>4. ASSUME NEW q \in Ordinals, orders'[q].st = "PENDING_REPLACE"
          PROVE  q < LastOrdinal /\ orders'[q + 1].st = "PENDING_NEW"
      <4>1. q # o /\ q < LastOrdinal /\ q + 1 \in Ordinals /\ orders[q + 1].st = "PENDING_NEW" /\ q \in Int
        BY <1>3, <3>1, <3>2, <3>3, <3>4
      <4>2. q + 1 # o /\ q + 1 # o + 1
        BY <1>0, <2>0, <4>1
      <4> QED
        BY <3>3, <4>1, <4>2
    <3>5. ASSUME NEW q \in Ordinals
          PROVE  /\ orders[q].st # "NONE" <=> orders'[q].st # "NONE"
                 /\ orders[q].fill <= orders'[q].fill
                 /\ orders[q].st \in TERMINAL => orders'[q] = orders[q]
                 /\ orders'[q].st \in {"NONE", "PENDING_NEW"} => orders'[q].fill = 0
                 /\ orders'[q].st \in Live => orders'[q].fill < Qty
      <4>1. CASE q = o
        BY <1>0, <2>0, <3>1, <3>3, <4>1 DEF Live, TERMINAL
      <4>2. CASE q = o + 1
        BY <1>0, <2>0, <3>2, <3>3, <4>2, BrokerExecutionAssumption DEF Live, TERMINAL
      <4>3. CASE q # o /\ q # o + 1
        BY <1>3, <3>3, <4>3
      <4> QED
        BY <4>1, <4>2, <4>3
    <3> QED
      BY <1>1, <3>3, <3>4, <3>5 DEF OrdersMove
  <2>2. CASE Becomes(o, [orders[o] EXCEPT !.st = IF orders[o].fill = 0 THEN "NEW" ELSE "PARTIALLY_FILLED"])
    <3> DEFINE st == IF orders[o].fill = 0 THEN "NEW" ELSE "PARTIALLY_FILLED"
               new == [orders[o] EXCEPT !.st = st]
    <3>1. st \in {"NEW", "PARTIALLY_FILLED"} /\ Becomes(o, new)
      BY <2>2
    <3> HIDE DEF st
    <3>2. new \in BrokerOrder /\ new.st = st /\ new.fill = orders[o].fill
      BY <1>0, <3>1 DEF BrokerOrder, BrokerStates, Live
    <3> HIDE DEF new
    <3> QED
      BY <1>0, <1>2, <3>1, <3>2
  <2> QED
    BY <1>5, <2>1, <2>2 DEF ReplaceResolves
<1>6. CASE Close(o)
  <2>1. PICK st \in {"EXPIRED", "CANCELED"} : Becomes(o, [orders[o] EXCEPT !.st = st])
    BY <1>6 DEF Close
  <2> DEFINE new == [orders[o] EXCEPT !.st = st]
  <2>2. new \in BrokerOrder /\ new.st = st /\ new.fill = orders[o].fill
    BY <1>0 DEF BrokerOrder, BrokerStates, TERMINAL
  <2>3. Becomes(o, new) /\ st \in TERMINAL /\ st \notin Live
    BY <2>1 DEF TERMINAL, Live
  <2> HIDE DEF new
  <2> QED
    BY <1>0, <1>2, <2>2, <2>3
<1> QED
    BY <1>4, <1>5, <1>6

\* While an order may still be created the intent has not ended.
LEMMA CreatingNotEnded ==
    ASSUME IInv, NEW p \in DOMAIN permits, Creates(p), p \in net \/ permits[p].st = "PREPARED"
    PROVE  ~Ended /\ permits[p].st # "EXPIRED" /\ orders[permits[p].ord].st = "NONE"
<1> DEFINE o == permits[p].ord
<1>1. o \in Rows /\ permits[p].st # "EXPIRED" /\ orders[o].st = "NONE"
    BY DEF IInv, PermitsSound, OrdersSound, DISPATCHED
<1>2. Row(o).st = "PREPARED" /\ o = Newest
    BY <1>1 DEF IInv, RowsSound, Follows
<1>3. ~GivenUp(Newest)
    BY <1>1, <1>2 DEF GivenUp, Creating
<1>4. attempts # <<>> => Current = Newest
    BY <1>3, CurrentIs DEF IInv, CurrentFacts
<1>5. "PREPARED" \notin TERMINAL
    BY DEF TERMINAL
<1> QED
    BY <1>1, <1>2, <1>4, <1>5 DEF Ended

\* Of the permits that create an order one at most is on its way or still to be sent.
LEMMA OneCreation ==
    ASSUME IInv, NEW p \in net, NEW q \in DOMAIN permits, Creates(p), Creating(q, permits[p].ord),
           q \in net \/ permits[q].st = "PREPARED"
    PROVE  q = p
<1>1. p \in DOMAIN permits /\ p \in Int /\ q \in Int
    BY Shape DEF IInv, Types
<1>2. permits[p].st # "EXPIRED" /\ permits[q].st # "EXPIRED"
    BY <1>1, CreatingNotEnded DEF Creating
<1>3. ~(p < q) /\ ~(q < p)
    BY <1>1, <1>2 DEF IInv, PermitsSound, Creating
<1> QED
    BY <1>1, <1>3

LEMMA DeliverInv ==
    ASSUME IInv, NEW p \in net, Deliver(p) PROVE IInv'
<1> DEFINE o == permits[p].ord
<1>0. /\ UNCHANGED <<rows, clock>> /\ net' = net \ {p} /\ net' \subseteq net /\ p \in DOMAIN permits
      /\ o \in Rows /\ o \in Ordinals /\ o \in Int /\ permits[p].kind \in Kinds
  <2>1. p \in DOMAIN permits
    BY DEF IInv, Types
  <2>2. o \in Rows /\ permits[p] \in Permit
    BY <2>1, Shape DEF IInv, PermitsSound
  <2> QED
    BY <2>1, <2>2, Shape DEF Deliver, IInv, Permit
<1>1. \A q \in Ordinals : /\ orders[q] \in BrokerOrder /\ orders[q].fill \in Nat /\ q \in Int
                          /\ orders[q].st \in {"NONE", "PENDING_NEW"} => orders[q].fill = 0
                          /\ orders[q].st \in Live => orders[q].fill < Qty
                          /\ orders[q].st = "PENDING_REPLACE" =>
                                q < LastOrdinal /\ q + 1 \in Ordinals /\ orders[q + 1].st = "PENDING_NEW"
  <2>1. \A q \in Ordinals : orders[q] \in BrokerOrder
    BY DEF IInv, Types
  <2> QED
    BY <2>1, BrokerExecutionAssumption DEF IInv, OrdersSound, BrokerOrder, Ordinals
<1>2. wk' \in [Workers -> Worker] /\ \A v \in Workers : wk'[v] = wk[v] \/ Answered(v)
  <2>1. CASE UNCHANGED wk
    BY <2>1 DEF IInv, Types
  <2>2. ASSUME NEW w \in Waiting(p),
               Go(w, IF permits[p].kind = "CANCEL" THEN [wk[w] EXCEPT !.pc = "reread"]
                     ELSE [wk[w] EXCEPT !.pc = "outcome", !.seen = orders'[o]])
        PROVE  wk' \in [Workers -> Worker] /\ \A v \in Workers : wk'[v] = wk[v] \/ Answered(v)
    <3> DEFINE r == wk[w]
               seen == orders'[o]
               read == [r EXCEPT !.pc = "reread"]
               out == [r EXCEPT !.pc = "outcome", !.seen = seen]
    <3>1. w \in Workers /\ r.pc = "call" /\ r.p = p /\ r \in Worker /\ r.ord = o
      <4>1. w \in Workers /\ r.pc = "call" /\ r.p = p
        BY DEF Waiting, At
      <4> QED
        BY <4>1 DEF IInv, Types, WorkersSound, WorkerOK
    <3>2. seen \in Seen
      <4>1. orders' \in Effects(p)
        BY DEF Deliver
      <4>2. orders' \in [Ordinals -> BrokerOrder]
        <5>1. orders \in [Ordinals -> BrokerOrder]
          BY DEF IInv, Types
        <5>2. CASE permits[p].kind = "SUBMIT"
          <6>1. PICK st \in {"NEW", "REJECTED"} : orders' = [orders EXCEPT ![o].st = st]
            BY <4>1, <5>2 DEF Effects
          <6> QED
            BY <1>0, <5>1, <6>1 DEF BrokerOrder, BrokerStates, Live, TERMINAL
        <5>3. CASE permits[p].kind = "REPLACE"
          <6>1. orders' = [orders EXCEPT ![o - 1].st = "PENDING_REPLACE", ![o].st = "PENDING_NEW"]
            BY <4>1, <5>3 DEF Effects
          <6> QED
            BY <1>0, <5>1, <6>1 DEF BrokerOrder, BrokerStates, Live
        <5>4. CASE permits[p].kind = "CANCEL"
          <6>1. PICK st \in {"PENDING_CANCEL", "CANCELED"} : orders' = [orders EXCEPT ![o].st = st]
            BY <4>1, <5>4 DEF Effects
          <6> QED
            BY <1>0, <5>1, <6>1 DEF BrokerOrder, BrokerStates, Live, TERMINAL
        <5> QED
          BY <1>0, <5>2, <5>3, <5>4 DEF Kinds
      <4> QED
        BY <1>0, <4>2 DEF BrokerOrder, Seen
    <3> HIDE DEF seen
    <3>3. read \in Worker /\ read.pc = "reread" /\ read.p = r.p /\ read.ord = r.ord
      BY <3>1 DEF Worker, Steps
    <3>4. out \in Worker /\ out.pc = "outcome" /\ out.p = r.p /\ out.ord = r.ord /\ out.seen = seen
      BY <3>1, <3>2 DEF Worker, Steps
    <3>5. wk' = [wk EXCEPT ![w] = read] \/ wk' = [wk EXCEPT ![w] = out]
      BY <2>2 DEF Go, seen
    <3> HIDE DEF read, out
    <3>6. /\ wk' \in [Workers -> Worker] /\ wk'[w] \in {read, out}
          /\ \A v \in Workers : v # w => wk'[v] = wk[v]
      BY <3>1, <3>3, <3>4, <3>5 DEF IInv, Types
    <3>7. Answered(w)
      BY <3>1, <3>3, <3>4, <3>6 DEF Answered, seen
    <3> QED
      BY <3>6, <3>7
  <2> QED
    BY <2>1, <2>2 DEF Deliver
<1>3. ASSUME OrdersMove, ~Ended,
             \A q \in Ordinals : orders[q].st = "NONE" /\ orders'[q].st # "NONE" => q = o /\ Creates(p)
      PROVE  IInv'
  <2>1. ASSUME NEW q \in Ordinals, orders[q].st = "NONE", orders'[q].st # "NONE"
        PROVE  /\ q \in Rows
               /\ \A x \in DOMAIN permits : Creating(x, q) => x \notin net' /\ permits[x].st # "PREPARED"
    <3>1. q = o /\ Creates(p)
      BY <1>3, <2>1
    <3>2. permits[p].st # "PREPARED"
      BY DEF IInv, OrdersSound, DISPATCHED
    <3> QED
      BY <1>0, <3>1, <3>2, OneCreation
  <2> QED
    BY <1>0, <1>2, <1>3, <2>1, OrdersInv
\* One order takes a state that is neither PENDING_REPLACE nor PENDING_NEW.
<1>4. ASSUME NEW st \in {"NEW", "REJECTED", "PENDING_CANCEL", "CANCELED"},
             orders' = [orders EXCEPT ![o].st = st],
             orders[o].st \in {"NEW", "PARTIALLY_FILLED"} \/ (orders[o].st = "NONE" /\ Creates(p))
      PROVE  IInv'
  <2> DEFINE new == [orders[o] EXCEPT !.st = st]
  <2>1. new \in BrokerOrder /\ new.st = st /\ new.fill = orders[o].fill
    BY <1>0, <1>1 DEF BrokerOrder, BrokerStates, Live, TERMINAL
  <2>2. orders' = [orders EXCEPT ![o] = new]
    BY <1>4
  <2> HIDE DEF new
  <2>3. /\ orders' \in [Ordinals -> BrokerOrder] /\ orders'[o] = new
        /\ \A q \in Ordinals : q # o => orders'[q] = orders[q]
    BY <1>0, <2>1, <2>2 DEF IInv, Types
  <2>4. ASSUME NEW q \in Ordinals, orders'[q].st = "PENDING_REPLACE"
        PROVE  q < LastOrdinal /\ orders'[q + 1].st = "PENDING_NEW"
    <3>1. q # o /\ q < LastOrdinal /\ q + 1 \in Ordinals /\ orders[q + 1].st = "PENDING_NEW"
      BY <1>1, <2>1, <2>3, <2>4
    <3>2. q + 1 # o
      BY <1>4, <3>1
    <3> QED
      BY <2>3, <3>1, <3>2
  <2>5. orders[o].fill < Qty /\ orders[o].fill \in Nat
    BY <1>0, <1>1, <1>4, BrokerExecutionAssumption DEF Live
  <2>6. ASSUME NEW q \in Ordinals
        PROVE  /\ orders[q].st # "NONE" => orders'[q].st # "NONE"
               /\ orders[q].fill <= orders'[q].fill
               /\ orders[q].st \in TERMINAL => orders'[q] = orders[q]
               /\ orders'[q].st \in {"NONE", "PENDING_NEW"} => orders'[q].fill = 0
               /\ orders'[q].st \in Live => orders'[q].fill < Qty
    <3>1. CASE q = o
      BY <1>4, <2>1, <2>3, <2>5, <3>1 DEF Live, TERMINAL
    <3>2. CASE q # o
      BY <1>1, <2>3, <3>2
    <3> QED
      BY <3>1, <3>2
  <2>7. ~Ended
    <3>1. CASE orders[o].st \in {"NEW", "PARTIALLY_FILLED"}
      BY <1>0, <3>1, OpenNotEnded DEF Live
    <3>2. CASE Creates(p)
      BY <1>0, <3>2, CreatingNotEnded
    <3> QED
      BY <1>4, <3>1, <3>2
  <2>8. OrdersMove
    BY <2>3, <2>4, <2>6 DEF OrdersMove
  <2>9. \A q \in Ordinals : orders[q].st = "NONE" /\ orders'[q].st # "NONE" => q = o /\ Creates(p)
    BY <1>4, <2>3
  <2> QED
    BY <1>3, <2>7, <2>8, <2>9
<1>5. CASE permits[p].kind = "SUBMIT"
  <2>1. PICK st \in {"NEW", "REJECTED"} : orders' = [orders EXCEPT ![o].st = st]
    BY <1>5 DEF Deliver, Effects
  <2>2. Creates(p) /\ orders[o].st = "NONE"
    BY <1>0, <1>5, CreatingNotEnded DEF Creates
  <2> QED
    BY <1>4, <2>1, <2>2
<1>6. CASE permits[p].kind = "CANCEL"
  <2>1. PICK st \in {"PENDING_CANCEL", "CANCELED"} : orders' = [orders EXCEPT ![o].st = st]
    BY <1>6 DEF Deliver, Effects
  <2>2. orders[o].st \in {"NEW", "PARTIALLY_FILLED"}
    BY <1>6 DEF Deliver, Effects
  <2> QED
    BY <1>4, <2>1, <2>2
<1>7. CASE permits[p].kind = "REPLACE"
  <2>1. /\ orders' = [orders EXCEPT ![o - 1].st = "PENDING_REPLACE", ![o].st = "PENDING_NEW"]
        /\ orders[o - 1].st \in {"NEW", "PARTIALLY_FILLED"}
    BY <1>7 DEF Deliver, Effects
  <2>2. Creates(p) /\ orders[o].st = "NONE"
    BY <1>0, <1>7, CreatingNotEnded DEF Creates
  <2>3. o # 0 /\ o - 1 \in Ordinals /\ o - 1 # o /\ o <= LastOrdinal /\ LastOrdinal \in Nat
    BY <1>0, <1>7, BrokerExecutionAssumption DEF IInv, PermitsSound, Ordinals
  <2> DEFINE old == [orders[o - 1] EXCEPT !.st = "PENDING_REPLACE"]
             new == [orders[o] EXCEPT !.st = "PENDING_NEW"]
  <2>4. old \in BrokerOrder /\ old.st = "PENDING_REPLACE" /\ old.fill = orders[o - 1].fill
    BY <1>1, <2>3 DEF BrokerOrder, BrokerStates, Live
  <2>5. new \in BrokerOrder /\ new.st = "PENDING_NEW" /\ new.fill = 0
    BY <1>0, <1>1, <2>2 DEF BrokerOrder, BrokerStates
  <2>6. orders' = [orders EXCEPT ![o - 1] = old, ![o] = new]
    BY <1>0, <2>1, <2>3 DEF IInv, Types
  <2> HIDE DEF old, new
  <2>7. /\ orders' \in [Ordinals -> BrokerOrder] /\ orders'[o] = new /\ orders'[o - 1] = old
        /\ \A q \in Ordinals : q # o /\ q # o - 1 => orders'[q] = orders[q]
    BY <1>0, <2>3, <2>4, <2>5, <2>6 DEF IInv, Types
  <2>8. ASSUME NEW q \in Ordinals, orders'[q].st = "PENDING_REPLACE"
        PROVE  q < LastOrdinal /\ orders'[q + 1].st = "PENDING_NEW"
    <3>1. CASE q = o - 1
      <4>1. q + 1 = o
        BY <1>0, <3>1
      <4> QED
        BY <1>0, <2>3, <2>5, <2>7, <3>1, <4>1
    <3>2. CASE q # o - 1
      <4>1. q # o /\ q < LastOrdinal /\ q + 1 \in Ordinals /\ orders[q + 1].st = "PENDING_NEW"
        BY <1>1, <2>5, <2>7, <2>8, <3>2
      <4>2. q + 1 # o /\ q + 1 # o - 1
        BY <2>1, <2>2, <4>1
      <4> QED
        BY <2>7, <4>1, <4>2
    <3> QED
      BY <3>1, <3>2
  <2>9. ASSUME NEW q \in Ordinals
        PROVE  /\ orders[q].st # "NONE" => orders'[q].st # "NONE"
               /\ orders[q].fill <= orders'[q].fill
               /\ orders[q].st \in TERMINAL => orders'[q] = orders[q]
               /\ orders'[q].st \in {"NONE", "PENDING_NEW"} => orders'[q].fill = 0
               /\ orders'[q].st \in Live => orders'[q].fill < Qty
    <3>1. CASE q = o
      BY <1>0, <1>1, <2>2, <2>5, <2>7, <3>1 DEF Live, TERMINAL
    <3>2. CASE q = o - 1
      <4>1. /\ orders[q].st \in {"NEW", "PARTIALLY_FILLED"} /\ orders[q].fill < Qty /\ orders[q].fill \in Nat
            /\ orders'[q].st = "PENDING_REPLACE" /\ orders'[q].fill = orders[q].fill
        <5>1. orders[q].st \in Live /\ orders[q] \in BrokerOrder
          BY <1>1, <2>1, <2>3, <3>2 DEF Live
        <5>2. orders[q].fill < Qty /\ orders[q].fill \in Nat
          BY <1>1, <2>3, <3>2, <5>1 DEF BrokerOrder
        <5>3. orders'[q].st = "PENDING_REPLACE" /\ orders'[q].fill = orders[q].fill
          BY <2>4, <2>7, <3>2
        <5> QED
          BY <2>1, <3>2, <5>2, <5>3
      <4> QED
        BY <4>1 DEF Live, TERMINAL
    <3>3. CASE q # o /\ q # o - 1
      BY <1>1, <2>7, <3>3
    <3> QED
      BY <3>1, <3>2, <3>3
  <2>10. ~Ended
    BY <1>0, <2>2, CreatingNotEnded
  <2>11. OrdersMove
    BY <2>7, <2>8, <2>9 DEF OrdersMove
  <2>12. \A q \in Ordinals : orders[q].st = "NONE" /\ orders'[q].st # "NONE" => q = o /\ Creates(p)
    BY <2>1, <2>2, <2>7
  <2> QED
    BY <1>3, <2>10, <2>11, <2>12
<1> QED
    BY <1>0, <1>5, <1>6, <1>7 DEF Kinds

-----------------------------------------------------------------------------
(* A new permit *)

\* The permits that a new one puts an end to.
Expiring(kind, o) == {p \in Prior(kind, o) \cup Pending(kind) : permits[p].st = "PREPARED"}

\* What the checks of prepare_broker_mutation establish: every open permit expires with the
\* new one; an attempt is created by one generation at a time; a replacement follows an
\* order that is not cancelled; and a hard cancel names the replacement that it gives up.
Issuable(kind, o) ==
    /\ Expiring(kind, o) \subseteq DOMAIN permits /\ Active \subseteq Expiring(kind, o)
    /\ Predecessor(kind, o) \in Nat
    /\ ~Ended
    /\ \A q \in Rows : ~GivenUp(q)
    /\ kind # "CANCEL" =>
          /\ orders[o].st = "NONE"
          /\ \A p \in DOMAIN permits : Creating(p, o) => p \in Expiring(kind, o) \/ permits[p].st = "EXPIRED"
          /\ \A p \in Expiring(kind, o) : permits[p].ord = o
          /\ kind = "SUBMIT" => o = 0
          /\ kind = "REPLACE" => o > 0
          /\ \/ o \in Rows /\ o = Newest
             \/ /\ o \notin Rows /\ o = Newest + 1 /\ \A p \in DOMAIN permits : Creates(p)
                /\ \A q \in Rows : Row(q).st # "PREPARED"
    /\ kind = "CANCEL" =>
          /\ o \in Rows /\ Row(o).st # "PREPARED"
          /\ \/ /\ o = Newest /\ (stage = Hard \/ Row(Newest).fill > 0)
                /\ \A p \in Expiring(kind, o) : ~Creates(p)
             \/ /\ o = Newest - 1 /\ Row(Newest).st = "PREPARED" /\ stage = Hard
                /\ Newest \in Rows /\ Newest > 0
                /\ Expiring(kind, o) = {CreationPermit(Newest)}
                /\ Predecessor(kind, o) = CreationPermit(Newest)

\* The latest permit of a purpose.
LEMMA PriorIs ==
    ASSUME Types, NEW kind, NEW o
    PROVE  /\ Prior(kind, o) \subseteq DOMAIN permits
           /\ \A p \in Prior(kind, o) : /\ permits[p].kind = kind /\ permits[p].ord = o
                                        /\ Prior(kind, o) = {p} /\ Max(Prior(kind, o)) = p
           /\ \A p \in Generations(kind, o) : \E q \in Prior(kind, o) : p <= q
<1>1. DOMAIN permits = 1..Len(permits) /\ Len(permits) \in Nat
    BY Shape
<1>2. Generations(kind, o) \in SUBSET (1..Len(permits))
    BY <1>1 DEF Generations
<1>3. CASE Generations(kind, o) = {}
    BY <1>3 DEF Prior
<1>4. CASE Generations(kind, o) # {}
  <2> DEFINE m == Max(Generations(kind, o))
  <2>1. m \in Generations(kind, o) /\ \A y \in Generations(kind, o) : y <= m
    BY <1>1, <1>2, <1>4, MaxIs
  <2>2. Prior(kind, o) = {m} /\ m \in Nat /\ m \in DOMAIN permits
    BY <1>1, <1>2, <1>4, <2>1 DEF Prior
  <2>3. Max({m}) = m
    BY <2>2, MaxOfOne
  <2> HIDE DEF m
  <2> QED
    BY <2>1, <2>2, <2>3 DEF Generations
<1> QED
    BY <1>3, <1>4

\* The permit of the newest attempt ran out and is issued again.
LEMMA ReissueIs ==
    ASSUME IInv, attempts # <<>>, NEW kind, kind = CreationKind(Newest), Row(Newest).st = "PREPARED",
           MayIssue(kind, Newest)
    PROVE  Issuable(kind, Newest)
<1> DEFINE o == Newest
           c == CreationPermit(o)
<1>1. /\ o \in Rows /\ c \in DOMAIN permits /\ Creating(c, o) /\ o \in Int
      /\ \A p \in DOMAIN permits : Creating(p, o) => p <= c
      /\ \A p \in DOMAIN permits : p \in Generations(kind, o) <=> Creating(p, o)
  <2>1. o \in Rows /\ o \in Int
    BY Shape DEF IInv
  <2> QED
    BY <2>1, CreationIs DEF IInv
<1>2. kind # "CANCEL" /\ (kind = "SUBMIT" => o = 0) /\ (kind = "REPLACE" => o > 0)
    BY <1>1 DEF CreationKind, Rows
<1>3. Prior(kind, o) = {c} /\ c \in Nat /\ Max({c}) = c
  <2>1. Generations(kind, o) # {}
    BY <1>1
  <2>2. c \in Nat
    BY <1>1, Shape DEF IInv
  <2> QED
    BY <2>1, <2>2, MaxOfOne DEF Prior, CreationPermit
<1>4. permits[c].st = "PREPARED"
    BY <1>2, <1>3 DEF MayIssue, Renewable
<1>5. Expiring(kind, o) = {c}
    BY <1>2, <1>3, <1>4 DEF Expiring, Pending
<1>6. Active \subseteq {c}
  <2>1. c = Len(permits)
    BY <1>1, <1>4 DEF IInv, PermitsSound, ACTIVE
  <2> QED
    BY <2>1 DEF Active, IInv, PermitsSound
<1>7. ~Ended /\ orders[o].st = "NONE"
    BY <1>1, <1>4, CreatingNotEnded DEF Creating
<1>8. \A q \in Rows : ~GivenUp(q)
    BY <1>1, <1>4 DEF IInv, CancelsSound, GivenUp
<1>9. ASSUME NEW p \in DOMAIN permits, Creating(p, o) PROVE p = c \/ permits[p].st = "EXPIRED"
  <2>1. p <= c /\ p \in Int /\ c \in Int
    BY <1>1, <1>9, Shape DEF IInv
  <2>2. p < c => permits[p].st = "EXPIRED"
    BY <1>1, <1>9 DEF IInv, PermitsSound, Creating
  <2> QED
    BY <2>1, <2>2
<1>10. Predecessor(kind, o) \in Nat
    BY <1>3 DEF Predecessor
<1>11. \A p \in Expiring(kind, o) : permits[p].ord = o
    BY <1>1, <1>5 DEF Creating
<1> HIDE DEF c
<1> QED
    BY <1>1, <1>2, <1>5, <1>6, <1>7, <1>8, <1>9, <1>10, <1>11 DEF Issuable

LEMMA SubmitIs ==
    ASSUME IInv, NEW seen, Material("SUBMIT", 0, seen), MayIssue("SUBMIT", 0) PROVE Issuable("SUBMIT", 0)
<1>1. CASE attempts = <<>>
  <2>1. Rows = {} /\ Newest = -1 /\ 0 \in Ordinals
    BY <1>1, Shape, BrokerExecutionAssumption DEF IInv, Rows, Newest, Ordinals
  <2>2. DOMAIN permits = {}
    BY <2>1 DEF IInv, PermitsSound
  <2>3. Prior("SUBMIT", 0) = {} /\ Pending("SUBMIT") = {}
    BY <2>2 DEF Prior, Generations, Pending
  <2>4. Expiring("SUBMIT", 0) = {} /\ Active = {} /\ Predecessor("SUBMIT", 0) = 0
    BY <2>2, <2>3 DEF Expiring, Active, Predecessor
  <2>5. orders[0].st = "NONE"
    BY <2>1 DEF IInv, OrdersSound
  <2> QED
    BY <1>1, <2>1, <2>2, <2>4, <2>5 DEF Issuable, Ended
<1>2. CASE Len(attempts) = 1 /\ Row(0).st = "PREPARED"
  <2>1. Newest = 0 /\ attempts # <<>>
    BY <1>2, Shape DEF IInv, Newest
  <2>2. CreationKind(Newest) = "SUBMIT"
    BY <2>1 DEF CreationKind
  <2> QED
    BY <1>2, <2>1, <2>2, ReissueIs
<1> QED
    BY <1>1, <1>2 DEF Material

\* The attempt the broker has accepted counts, and its own creation is settled.
LEMMA AcceptedIs ==
    ASSUME IInv, attempts # <<>>, Row(Newest).st \in MUTATION_ELIGIBLE, CreationState(Newest) = "CONSUMED"
    PROVE  /\ ~Ended /\ \A q \in Rows : ~GivenUp(q) /\ Row(q).st # "PREPARED"
           /\ \A p \in Active : ~Creates(p)
           /\ \A p \in DOMAIN permits : ~Creates(p) => permits[p].ord = Newest /\ (stage = Hard \/ Row(Newest).fill > 0)
<1>1. Row(Newest).st \notin TERMINAL \cup {"PREPARED"} /\ Newest \in Rows
    BY Shape DEF IInv, MUTATION_ELIGIBLE, TERMINAL
<1>2. Current = Newest
    BY <1>1, CurrentIs DEF IInv, CurrentFacts
<1>3. \A q \in Rows : ~GivenUp(q) /\ Row(q).st # "PREPARED"
    BY <1>1 DEF IInv, CancelsSound, RowsSound
<1>4. ASSUME NEW p \in Active PROVE ~Creates(p)
  <2>1. p \in DOMAIN permits /\ p = Len(permits) /\ permits[p].st \in ACTIVE
    BY DEF Active, IInv, PermitsSound
  <2>2. ASSUME Creates(p) PROVE FALSE
    <3>1. Creating(p, Newest)
      BY <2>1, <2>2 DEF IInv, PermitsSound, Creating
    <3>2. p <= CreationPermit(Newest) /\ CreationPermit(Newest) \in DOMAIN permits
      BY <1>1, <2>1, <3>1, CreationIs DEF IInv
    <3>3. p = CreationPermit(Newest)
      BY <2>1, <3>2, Shape DEF IInv
    <3> QED
      BY <2>1, <3>3 DEF CreationState, ACTIVE
  <2> QED
    BY <2>2
<1>5. \A p \in DOMAIN permits : ~Creates(p) => permits[p].ord = Newest /\ (stage = Hard \/ Row(Newest).fill > 0)
    BY <1>1 DEF IInv, CancelsSound
<1> QED
    BY <1>1, <1>2, <1>3, <1>4, <1>5 DEF Ended

LEMMA ReplaceIs ==
    ASSUME IInv, attempts # <<>>, NEW o \in Ordinals, NEW seen, Material("REPLACE", o, seen),
           MayIssue("REPLACE", o), o \notin Rows => stage # Hard
    PROVE  Issuable("REPLACE", o)
<1>1. /\ o = Target + 1 /\ Target \in Rows /\ Row(Target).st \in MUTATION_ELIGIBLE \ {"PARTIALLY_FILLED"}
      /\ Target = IF Newest > 0 /\ Row(Newest).st = "PREPARED" THEN Newest - 1 ELSE Newest
      /\ Newest \in Int /\ Newest \in Rows
    BY CurrentIs, Shape DEF Material, ReplacementFollows, IInv, CurrentFacts
<1>2. CASE o \in Rows
  <2>1. o = Newest /\ Newest > 0 /\ Row(Newest).st = "PREPARED"
    BY <1>1, <1>2, Shape DEF IInv, Rows, Newest
  <2>2. CreationKind(Newest) = "REPLACE"
    BY <2>1 DEF CreationKind
  <2> QED
    BY <2>1, <2>2, ReissueIs
<1>3. CASE o \notin Rows
  <2>1. Target = Newest /\ o = Newest + 1 /\ o > 0
    BY <1>1, <1>3 DEF Rows
  <2>2. CreationState(Newest) = "CONSUMED"
    BY <1>3, <2>1 DEF MayIssue, Reauthorizes
  <2>3. /\ ~Ended /\ \A q \in Rows : ~GivenUp(q) /\ Row(q).st # "PREPARED"
        /\ \A p \in Active : ~Creates(p)
        /\ \A p \in DOMAIN permits : ~Creates(p) => permits[p].ord = Newest /\ (stage = Hard \/ Row(Newest).fill > 0)
    BY <1>1, <2>1, <2>2, AcceptedIs
  <2>4. Row(Newest).fill = 0
    <3>1. Row(Newest) \in AttemptRow /\ StateMatchesFill(Row(Newest).st, Row(Newest).fill, Qty)
      BY <1>1, <2>3, Shape DEF IInv, RowsSound
    <3>2. Row(Newest).st \in ZERO_FILL
      BY <1>1, <2>1, <3>1 DEF MUTATION_ELIGIBLE, ZERO_FILL
    <3> QED
      BY <3>1, <3>2 DEF StateMatchesFill
  <2>5. \A p \in DOMAIN permits : Creates(p) /\ permits[p].ord \in Rows
    BY <1>3, <2>3, <2>4 DEF IInv, PermitsSound
  <2>6. Prior("REPLACE", o) = {} /\ Pending("REPLACE") = {}
    BY <1>3, <2>5 DEF Prior, Generations, Pending
  <2>7. Expiring("REPLACE", o) = {} /\ Active = {}
    BY <2>3, <2>5, <2>6 DEF Expiring, Active
  <2>8. Predecessor("REPLACE", o) \in Nat
    <3>1. CreationPermit(Newest) \in DOMAIN permits
      BY <1>1, CreationIs DEF IInv
    <3>2. CreationPermit(Newest) \in Nat
      BY <3>1, Shape DEF IInv
    <3> QED
      BY <2>1, <2>6, <3>2 DEF Predecessor
  <2>9. orders[o].st = "NONE" /\ \A p \in DOMAIN permits : ~Creating(p, o)
    BY <1>3, <2>5 DEF IInv, OrdersSound, Creating
  <2> QED
    BY <1>3, <2>1, <2>3, <2>5, <2>7, <2>8, <2>9 DEF Issuable
<1> QED
    BY <1>2, <1>3

LEMMA CancelIs ==
    ASSUME IInv, attempts # <<>>, NEW o \in Rows, NEW seen, Material("CANCEL", o, seen), MayIssue("CANCEL", o),
           stage = Hard \/ Row(o).fill > 0
    PROVE  Issuable("CANCEL", o)
<1>1. /\ o = Target /\ Target \in Rows /\ Row(Target).st \in MUTATION_ELIGIBLE
      /\ Target = IF Newest > 0 /\ Row(Newest).st = "PREPARED" THEN Newest - 1 ELSE Newest
      /\ Newest \in Int /\ Newest \in Rows /\ Newest = Len(attempts) - 1
      /\ CreationState(Target) = "CONSUMED" /\ Row(Target).st # "PREPARED"
  <2>1. o = Target /\ Row(Target).st \in MUTATION_ELIGIBLE /\ CreationState(Target) = "CONSUMED"
    BY DEF Material, Order, MayIssue
  <2> QED
    BY <2>1, CurrentIs, Shape DEF IInv, CurrentFacts, MUTATION_ELIGIBLE, Newest
<1>2. /\ Prior("CANCEL", o) \subseteq DOMAIN permits
      /\ \A p \in Prior("CANCEL", o) : /\ permits[p].kind = "CANCEL" /\ permits[p].ord = o
                                       /\ Prior("CANCEL", o) = {p} /\ Max(Prior("CANCEL", o)) = p
      /\ \A p \in Generations("CANCEL", o) : \E q \in Prior("CANCEL", o) : p <= q
    BY PriorIs DEF IInv
<1>3. \A q \in Rows : CreationPermit(q) \in DOMAIN permits /\ CreationPermit(q) \in Nat /\ Creating(CreationPermit(q), q)
  <2>1. \A q \in Rows : CreationPermit(q) \in DOMAIN permits /\ Creating(CreationPermit(q), q)
    BY CreationIs DEF IInv
  <2> QED
    BY <2>1, Shape DEF IInv
<1>4. CASE Target = Newest
  <2>1. /\ ~Ended /\ \A q \in Rows : ~GivenUp(q) /\ Row(q).st # "PREPARED"
        /\ \A p \in Active : ~Creates(p)
        /\ \A p \in DOMAIN permits : ~Creates(p) => permits[p].ord = Newest /\ (stage = Hard \/ Row(Newest).fill > 0)
    BY <1>1, <1>4, AcceptedIs
  <2>2. Pending("CANCEL") = {}
    BY <1>1, <1>4 DEF Pending
  <2>3. Expiring("CANCEL", o) = {p \in Prior("CANCEL", o) : permits[p].st = "PREPARED"}
    BY <2>2 DEF Expiring
  <2>4. ASSUME NEW p \in Active PROVE p \in Expiring("CANCEL", o)
    <3>1. p \in DOMAIN permits /\ p = Len(permits) /\ permits[p].st \in ACTIVE
      BY DEF Active, IInv, PermitsSound
    <3>2. p \in Generations("CANCEL", o)
      BY <1>1, <1>4, <2>1, <3>1 DEF Generations, Creates
    <3>3. PICK q \in Prior("CANCEL", o) : p <= q
      BY <1>2, <3>2
    <3>4. q = p
      BY <1>2, <3>1, <3>3, Shape DEF IInv
    <3>5. permits[p].st = "PREPARED"
      BY <3>1, <3>3, <3>4 DEF MayIssue, Renewable, RetryProven, ACTIVE
    <3> QED
      BY <2>3, <3>3, <3>4, <3>5
  <2>5. Predecessor("CANCEL", o) \in Nat
    <3>1. \A p \in Prior("CANCEL", o) : p \in Nat
      BY <1>2, Shape DEF IInv
    <3> QED
      BY <1>1, <1>2, <1>3, <2>2, <3>1 DEF Predecessor
  <2>6. Expiring("CANCEL", o) \subseteq DOMAIN permits /\ \A p \in Expiring("CANCEL", o) : ~Creates(p)
    BY <1>2, <2>3 DEF Creates
  <2> QED
    BY <1>1, <1>4, <2>1, <2>4, <2>5, <2>6 DEF Issuable
<1>5. CASE Target # Newest
  <2> DEFINE c == CreationPermit(Newest)
  <2>1. Newest > 0 /\ Row(Newest).st = "PREPARED" /\ o = Newest - 1
    BY <1>1, <1>5
  <2>2. Pending("CANCEL") = {c} /\ Max({c}) = c
    BY <1>1, <1>3, <2>1, MaxOfOne DEF Pending
  <2>3. permits[c].st = "PREPARED" /\ stage = Hard /\ c \in DOMAIN permits /\ Creating(c, Newest)
    BY <1>1, <1>3, <2>2 DEF MayIssue
  <2>4. \A q \in Rows : ~GivenUp(q)
    BY <1>1, <2>3 DEF IInv, CancelsSound, GivenUp
  <2>5. Prior("CANCEL", o) = {}
    <3>1. ASSUME NEW p \in Prior("CANCEL", o) PROVE FALSE
      <4>1. p \in DOMAIN permits /\ ~Creates(p) /\ permits[p].ord = Newest - 1
        BY <1>2, <2>1 DEF Creates
      <4>2. ~GivenUp(Newest) /\ Newest - 1 # Newest
        BY <1>1, <2>4
      <4> QED
        BY <4>1, <4>2 DEF IInv, CancelsSound
    <3> QED
      BY <3>1
  <2>6. Expiring("CANCEL", o) = {c} /\ Predecessor("CANCEL", o) = c /\ c \in Nat
    BY <1>1, <1>3, <2>2, <2>3, <2>5 DEF Expiring, Predecessor
  <2>7. Active \subseteq {c}
    <3>1. c = Len(permits)
      BY <2>3 DEF IInv, PermitsSound, ACTIVE
    <3> QED
      BY <3>1 DEF Active, IInv, PermitsSound
  <2>8. ~Ended
    BY <2>3, CreatingNotEnded DEF Creating
  <2> HIDE DEF c
  <2> QED
    BY <1>1, <2>1, <2>3, <2>4, <2>6, <2>7, <2>8 DEF Issuable, c
<1> QED
    BY <1>4, <1>5

\* The permits after one was issued.
LEMMA IssuePermits ==
    ASSUME IInv, NEW kind \in Kinds, NEW o \in Ordinals, Issuable(kind, o), Issue(kind, o)
    PROVE  /\ permits' \in Seq(Permit) /\ Len(permits') = Len(permits) + 1
           /\ DOMAIN permits' = DOMAIN permits \cup {Len(permits) + 1} /\ Len(permits) + 1 \notin DOMAIN permits
           /\ \A p \in DOMAIN permits :
                 /\ permits'[p].kind = permits[p].kind /\ permits'[p].ord = permits[p].ord
                 /\ permits'[p].pred = permits[p].pred
                 /\ permits'[p].st = IF p \in Expiring(kind, o) THEN "EXPIRED" ELSE permits[p].st
           /\ permits'[Len(permits) + 1].kind = kind /\ permits'[Len(permits) + 1].ord = o
           /\ permits'[Len(permits) + 1].st = "PREPARED"
           /\ permits'[Len(permits) + 1].pred = Predecessor(kind, o)
<1> DEFINE n == Len(permits) + 1
           aged == [p \in DOMAIN permits |-> IF p \in Expiring(kind, o) THEN [permits[p] EXCEPT !.st = "EXPIRED"]
                                             ELSE permits[p]]
           pred == Predecessor(kind, o)
           new == [kind |-> kind, ord |-> o, st |-> "PREPARED", late |-> FALSE, proof |-> NoOrder, pred |-> pred]
<1>1. /\ DOMAIN permits = 1..Len(permits) /\ Len(permits) \in Nat
      /\ \A p \in DOMAIN permits : permits[p] \in Permit
    BY Shape DEF IInv
<1>2. permits' = Append(aged, new)
    BY DEF Issue, Expiring
<1>3. new \in Permit /\ new.kind = kind /\ new.ord = o /\ new.st = "PREPARED" /\ new.pred = pred
  <2>1. NoOrder \in Seen /\ pred \in Nat
    BY IdleOK DEF Idle, Worker, Issuable
  <2> HIDE DEF pred
  <2> QED
    BY <2>1 DEF Permit, PermitStates
<1>4. ASSUME NEW p \in DOMAIN permits
      PROVE  /\ aged[p] \in Permit /\ aged[p].kind = permits[p].kind /\ aged[p].ord = permits[p].ord
             /\ aged[p].pred = permits[p].pred
             /\ aged[p].st = IF p \in Expiring(kind, o) THEN "EXPIRED" ELSE permits[p].st
  <2>1. permits[p] \in Permit
    BY <1>1
  <2>2. CASE p \in Expiring(kind, o)
    BY <2>1, <2>2 DEF Permit, PermitStates
  <2>3. CASE p \notin Expiring(kind, o)
    BY <2>1, <2>3
  <2> QED
    BY <2>2, <2>3
<1>5. aged \in Seq(Permit) /\ Len(aged) = Len(permits)
  <2>1. aged \in [1..Len(permits) -> Permit]
    BY <1>1, <1>4
  <2> HIDE DEF aged
  <2> QED
    BY <1>1, <2>1, SeqDef, LenProperties
<1> HIDE DEF aged, new
<1>6. /\ permits' \in Seq(Permit) /\ Len(permits') = n /\ permits'[n] = new
      /\ \A p \in 1..Len(permits) : permits'[p] = aged[p]
    BY <1>2, <1>3, <1>5, AppendProperties
<1>7. DOMAIN permits' = DOMAIN permits \cup {n} /\ n \notin DOMAIN permits
    BY <1>1, <1>6, LenProperties
<1>8. /\ \A p \in DOMAIN permits :
            /\ permits'[p].kind = permits[p].kind /\ permits'[p].ord = permits[p].ord
            /\ permits'[p].pred = permits[p].pred
            /\ permits'[p].st = IF p \in Expiring(kind, o) THEN "EXPIRED" ELSE permits[p].st
      /\ permits'[n].kind = kind /\ permits'[n].ord = o
      /\ permits'[n].st = "PREPARED" /\ permits'[n].pred = Predecessor(kind, o)
    BY <1>1, <1>3, <1>4, <1>6
<1> QED
    BY <1>6, <1>7, <1>8

\* The attempts after a permit was issued.
LEMMA IssueAttempts ==
    ASSUME IInv, NEW kind \in Kinds, NEW o \in Ordinals, Issuable(kind, o), Issue(kind, o)
    PROVE  /\ attempts' \in Seq(AttemptRow) /\ Len(attempts') <= LastOrdinal + 1
           /\ Rows' = Rows \cup {o} /\ \A q \in Rows : attempts'[q + 1] = Row(q)
           /\ o \in Rows => Newest' = Newest
           /\ o \notin Rows => Newest' = o /\ attempts'[o + 1].st = "PREPARED" /\ attempts'[o + 1].fill = 0
<1>1. /\ Len(attempts) \in Nat /\ attempts \in Seq(AttemptRow) /\ Newest = Len(attempts) - 1
      /\ LastOrdinal \in Nat
    BY Shape DEF IInv, Types, Newest
<1>2. attempts' = AttemptsWith(o)
    BY DEF Issue
<1>3. CASE o \in Rows
  <2>1. attempts' = attempts
    BY <1>2, <1>3 DEF AttemptsWith
  <2>2. Rows' = Rows \cup {o} /\ Newest' = Newest /\ Len(attempts') <= LastOrdinal + 1
    BY <1>3, <2>1 DEF Rows, Newest, IInv, Types
  <2> QED
    BY <1>1, <1>3, <2>1, <2>2 DEF Row
<1>4. CASE o \notin Rows
  <2> DEFINE row == Attempt("PREPARED", 0)
  <2>1. row \in AttemptRow /\ row.st = "PREPARED" /\ row.fill = 0
    BY BrokerExecutionAssumption DEF Attempt, AttemptRow
  <2>2. attempts' = Append(attempts, row)
    BY <1>2, <1>4 DEF AttemptsWith
  <2> HIDE DEF row
  <2>3. /\ attempts' \in Seq(AttemptRow) /\ Len(attempts') = Len(attempts) + 1
        /\ attempts'[Len(attempts) + 1] = row
        /\ \A i \in 1..Len(attempts) : attempts'[i] = attempts[i]
    BY <1>1, <2>1, <2>2, AppendProperties
  <2>4. o = Len(attempts) /\ o <= LastOrdinal
    BY <1>1, <1>4 DEF Issuable, Ordinals
  <2>5. Rows' = Rows \cup {o} /\ Newest' = o
    BY <1>1, <2>3, <2>4 DEF Rows, Newest
  <2>6. \A q \in Rows : attempts'[q + 1] = Row(q)
    BY <1>1, <2>3 DEF Rows, Row
  <2> QED
    BY <1>1, <1>4, <2>1, <2>3, <2>4, <2>5, <2>6
<1> QED
    BY <1>3, <1>4

\* prepare_broker_mutation: the new permit is the only open one.
LEMMA IssueInv ==
    ASSUME IInv, NEW kind \in Kinds, NEW o \in Ordinals, Issuable(kind, o), Issue(kind, o),
           intent = "CLAIMED", Len(permits) < MaxPermits, UNCHANGED <<intent, locked, certified, last, clock, broker>>,
           wk' \in [Workers -> Worker],
           \A v \in Workers : \/ wk'[v] = wk[v]
                              \/ wk'[v].pc = "acquire" /\ wk'[v].p = Len(permits) + 1 /\ wk'[v].ord = o
    PROVE  IInv'
<1> USE DEF clock, broker
<1> DEFINE E == Expiring(kind, o)
<1>0. PICK n : n = Len(permits) + 1
    OBVIOUS
<1>1. /\ permits' \in Seq(Permit) /\ Len(permits') = n
      /\ DOMAIN permits' = DOMAIN permits \cup {n} /\ n \notin DOMAIN permits
      /\ \A p \in DOMAIN permits :
            /\ permits'[p].kind = permits[p].kind /\ permits'[p].ord = permits[p].ord
            /\ permits'[p].pred = permits[p].pred
            /\ permits'[p].st = IF p \in E THEN "EXPIRED" ELSE permits[p].st
      /\ permits'[n].kind = kind /\ permits'[n].ord = o
      /\ permits'[n].st = "PREPARED" /\ permits'[n].pred = Predecessor(kind, o)
    BY <1>0, IssuePermits
<1>2. /\ attempts' \in Seq(AttemptRow) /\ Len(attempts') <= LastOrdinal + 1
      /\ Rows' = Rows \cup {o} /\ (\A q \in Rows : attempts'[q + 1] = Row(q))
      /\ o \in Rows => Newest' = Newest
      /\ o \notin Rows => Newest' = o /\ attempts'[o + 1].st = "PREPARED" /\ attempts'[o + 1].fill = 0
    BY IssueAttempts
<1>3. /\ \A p \in DOMAIN permits : p \in Nat /\ p < n /\ permits[p] \in Permit /\ permits[p].ord \in Rows
      /\ n \in Nat /\ \A q \in Rows : q \in Int
      /\ Newest \in Int /\ (\A q \in Rows : q <= Newest) /\ (o \in Rows => Newest \in Rows) /\ o \in Int
  <2>1. \A q \in Rows : q <= Newest /\ (o \in Rows => Newest \in Rows)
    BY Shape DEF IInv, Rows, Newest
  <2> QED
    BY <1>0, <2>1, Shape DEF IInv, PermitsSound, Ordinals
<1>4. E \subseteq DOMAIN permits /\ \A p \in E : permits[p].st = "PREPARED"
    BY DEF Issuable, Expiring
<1>5. ASSUME NEW p \in DOMAIN permits PROVE permits'[p].st \in {"CONSUMED", "EXPIRED"}
  <2>1. CASE p \in E
    BY <1>1, <2>1
  <2>2. CASE p \notin E
    <3>1. permits[p].st \notin ACTIVE
      BY <2>2 DEF Issuable, Active
    <3> QED
      BY <1>1, <1>3, <2>2, <3>1 DEF Permit, PermitStates, ACTIVE
  <2> QED
    BY <2>1, <2>2
<1>6. Types'
  <2>1. Len(permits') <= MaxPermits /\ last' \in 0..Len(permits') /\ net' \subseteq DOMAIN permits'
    BY <1>0, <1>1, <1>3, Shape, BrokerExecutionAssumption DEF IInv, Types
  <2> QED
    BY <1>1, <1>2, <2>1 DEF IInv, Types
<1> HIDE DEF E
<1>7. /\ \A p \in DOMAIN permits : Creates(p)' <=> Creates(p)
      /\ Creates(n)' <=> kind # "CANCEL"
    BY <1>1 DEF Creates
<1>8. /\ kind # "CANCEL" => Newest' = o /\ (kind = "SUBMIT" => o = 0) /\ (kind = "REPLACE" => o > 0)
      /\ kind = "CANCEL" => o \in Rows /\ Newest' = Newest
    BY <1>2 DEF Issuable
<1>9. PermitsSound'
  <2>1. ASSUME NEW p \in DOMAIN permits'
        PROVE  /\ permits'[p].ord \in Rows'
               /\ permits'[p].kind = "SUBMIT" => permits'[p].ord = 0
               /\ permits'[p].kind = "REPLACE" => permits'[p].ord # 0
               /\ permits'[p].st \in ACTIVE => p = Len(permits')
               /\ Creates(p)' /\ p = Len(permits') => permits'[p].ord = Newest'
               /\ Creates(p)' /\ permits'[p].st = "CONSUMED" => attempts'[permits'[p].ord + 1].st # "PREPARED"
               /\ Creates(p)' /\ permits'[p].ord < Newest' => permits'[p].st \in {"CONSUMED", "EXPIRED"}
    <3>1. CASE p = n
      BY <1>1, <1>2, <1>3, <1>7, <1>8, <3>1
    <3>2. CASE p \in DOMAIN permits
      <4>1. permits'[p].st \notin ACTIVE /\ p # Len(permits') /\ permits'[p].st \in {"CONSUMED", "EXPIRED"}
        BY <1>1, <1>5, <3>2 DEF ACTIVE
      <4>2. permits'[p].kind = permits[p].kind /\ permits'[p].ord = permits[p].ord /\ permits[p].ord \in Rows
        BY <1>1, <1>3, <3>2
      <4>3. permits'[p].st = "CONSUMED" => permits[p].st = "CONSUMED"
        BY <1>1, <3>2
      <4>4. /\ permits[p].kind = "SUBMIT" => permits[p].ord = 0
            /\ permits[p].kind = "REPLACE" => permits[p].ord # 0
            /\ Creates(p) /\ permits[p].st = "CONSUMED" => Row(permits[p].ord).st # "PREPARED"
        BY <3>2 DEF IInv, PermitsSound
      <4> QED
        BY <1>2, <1>7, <3>2, <4>1, <4>2, <4>3, <4>4
    <3> QED
      BY <1>1, <3>1, <3>2
  <2>2. ASSUME NEW q \in Rows' PROVE \E p \in DOMAIN permits' : Creating(p, q)'
    <3>1. CASE q \in Rows
      <4>1. PICK p \in DOMAIN permits : Creating(p, q)
        BY <3>1 DEF IInv, PermitsSound
      <4> QED
        BY <1>1, <1>7, <4>1 DEF Creating
    <3>2. CASE q \notin Rows
      <4>1. q = o /\ kind # "CANCEL"
        BY <1>2, <1>8, <3>2
      <4>2. Creating(n, q)'
        BY <1>1, <1>7, <4>1 DEF Creating
      <4> QED
        BY <1>1, <4>2
    <3> QED
      BY <3>1, <3>2
  <2>3. ASSUME NEW p \in DOMAIN permits', NEW q \in DOMAIN permits', Creates(p)', Creates(q)',
               permits'[q].ord = permits'[p].ord, p < q
        PROVE  permits'[p].st = "EXPIRED"
    <3>1. p \in DOMAIN permits
      BY <1>1, <1>3, <2>3
    <3>2. CASE q \in DOMAIN permits
      <4>1. permits[p].st = "EXPIRED"
        BY <1>1, <1>7, <2>3, <3>1, <3>2 DEF IInv, PermitsSound
      <4> QED
        BY <1>1, <3>1, <4>1
    <3>3. CASE q = n
      <4>1. kind # "CANCEL" /\ Creating(p, o)
        BY <1>1, <1>7, <2>3, <3>1, <3>3 DEF Creating
      <4>2. p \in E \/ permits[p].st = "EXPIRED"
        BY <3>1, <4>1 DEF Issuable, E
      <4> QED
        BY <1>1, <3>1, <4>2
    <3> QED
      BY <1>1, <3>2, <3>3
  <2> QED
    BY <2>1, <2>2, <2>3 DEF PermitsSound, Row
\* A replacement that is given up is the one that the new permit, a hard cancel, names.
<1>10. ASSUME NEW q \in Rows', GivenUp(q)'
       PROVE  /\ kind = "CANCEL" /\ q = Newest' /\ Newest' = Newest /\ Newest \in Rows /\ q > 0 /\ o = q - 1
              /\ Row(Newest).st = "PREPARED" /\ Predecessor(kind, o) = CreationPermit(Newest)
  <2>1. ~(kind # "CANCEL" /\ q = o)
    BY <1>1, <1>7, <1>10 DEF GivenUp, Creating
  <2>2. q \in Rows
    BY <1>2, <1>8, <2>1
  <2>3. PICK p \in DOMAIN permits : Creating(p, q) /\ permits[p].st # "EXPIRED"
    BY <2>2 DEF Issuable, GivenUp
  <2>4. permits'[p].st = "EXPIRED"
    BY <1>1, <1>7, <1>10, <2>3 DEF GivenUp, Creating
  <2>5. p \in E
    BY <1>1, <2>3, <2>4
  <2>6. kind = "CANCEL"
    BY <2>1, <2>3, <2>5 DEF Issuable, E, Creating
  <2>7. /\ o = Newest - 1 /\ Newest \in Rows /\ Newest > 0 /\ Row(Newest).st = "PREPARED"
        /\ E = {CreationPermit(Newest)} /\ Predecessor(kind, o) = CreationPermit(Newest)
    BY <2>3, <2>5, <2>6 DEF Issuable, E, Creating
  <2>8. q = Newest
    BY <2>3, <2>5, <2>7, CreationIs DEF IInv, Creating
  <2> QED
    BY <1>8, <2>6, <2>7, <2>8
<1>11. CancelsSound'
  <2>1. ASSUME NEW p \in DOMAIN permits', ~Creates(p)'
        PROVE  /\ attempts'[permits'[p].ord + 1].st # "PREPARED"
               /\ \/ /\ permits'[p].ord = Newest'
                     /\ stage' = Hard \/ attempts'[Newest' + 1].fill > 0
                  \/ /\ permits'[p].ord = Newest' - 1
                     /\ attempts'[Newest' + 1].st = "PREPARED" /\ GivenUp(Newest)' /\ stage' = Hard
    <3>1. CASE p = n
      <4>1. kind = "CANCEL" /\ o \in Rows /\ Newest' = Newest /\ Row(o).st # "PREPARED"
        BY <1>7, <1>8, <2>1, <3>1 DEF Issuable
      <4>2. CASE o = Newest /\ (stage = Hard \/ Row(Newest).fill > 0)
        BY <1>1, <1>2, <3>1, <4>1, <4>2
      <4>3. CASE /\ o = Newest - 1 /\ Row(Newest).st = "PREPARED" /\ stage = Hard
                 /\ Newest \in Rows /\ E = {CreationPermit(Newest)}
        <5>1. ASSUME NEW q \in DOMAIN permits', Creating(q, Newest)' PROVE permits'[q].st = "EXPIRED"
          <6>1. q \in DOMAIN permits
            BY <1>1, <1>7, <4>1, <5>1 DEF Creating
          <6>2. Creating(q, Newest)
            BY <1>1, <1>7, <4>1, <5>1, <6>1 DEF Creating
          <6>3. q <= CreationPermit(Newest) /\ Creating(CreationPermit(Newest), Newest)
                /\ CreationPermit(Newest) \in DOMAIN permits
            BY <4>3, <6>1, <6>2, CreationIs DEF IInv
          <6>4. q = CreationPermit(Newest) \/ permits[q].st = "EXPIRED"
            BY <1>3, <6>1, <6>2, <6>3 DEF IInv, PermitsSound, Creating
          <6> QED
            BY <1>1, <4>3, <6>1, <6>4
        <5>2. GivenUp(Newest)'
          BY <5>1 DEF GivenUp
        <5> QED
          BY <1>1, <1>2, <3>1, <4>1, <4>3, <5>2
      <4> QED
        BY <4>1, <4>2, <4>3 DEF Issuable, E
    <3>2. CASE p \in DOMAIN permits
      <4>1. ~Creates(p) /\ permits'[p].ord = permits[p].ord /\ permits[p].ord \in Rows
        BY <1>1, <1>3, <1>7, <2>1, <3>2
      <4>2. o \in Rows /\ Newest' = Newest /\ Newest \in Rows
        BY <1>2, <1>3, <3>2, <4>1 DEF Issuable
      <4>3. ~GivenUp(Newest)
        BY <4>2 DEF Issuable
      <4>4. /\ Row(permits[p].ord).st # "PREPARED" /\ permits[p].ord = Newest
            /\ stage = Hard \/ Row(Newest).fill > 0
        BY <3>2, <4>1, <4>3 DEF IInv, CancelsSound
      <4> QED
        BY <1>2, <4>1, <4>2, <4>4
    <3> QED
      BY <1>1, <3>1, <3>2
  <2>2. ASSUME NEW q \in Rows', GivenUp(q)'
        PROVE  /\ q = Newest' /\ q > 0 /\ attempts'[q + 1].st = "PREPARED"
               /\ \E p, x \in DOMAIN permits' :
                     /\ ~Creates(p)' /\ permits'[p].ord = q - 1 /\ permits'[p].pred = x
                     /\ Creating(x, q)' /\ \A r \in DOMAIN permits' : Creating(r, q)' => r <= x
    <3>0. PICK c : c = CreationPermit(Newest)
      OBVIOUS
    <3>1. /\ kind = "CANCEL" /\ q = Newest' /\ Newest' = Newest /\ Newest \in Rows /\ q > 0 /\ o = q - 1
          /\ Row(Newest).st = "PREPARED" /\ Predecessor(kind, o) = c
      BY <1>10, <2>2, <3>0
    <3>2. c \in DOMAIN permits /\ Creating(c, Newest) /\ \A p \in DOMAIN permits : Creating(p, Newest) => p <= c
      BY <3>0, <3>1, CreationIs DEF IInv
    <3>3. c \in DOMAIN permits' /\ Creating(c, q)'
      BY <1>1, <1>7, <3>1, <3>2 DEF Creating
    <3>4. ASSUME NEW r \in DOMAIN permits', Creating(r, q)' PROVE r <= c
      BY <1>1, <1>7, <3>1, <3>2, <3>4 DEF Creating
    <3>5. n \in DOMAIN permits' /\ ~Creates(n)' /\ permits'[n].ord = q - 1 /\ permits'[n].pred = c
      BY <1>1, <1>7, <3>1
    <3>6. attempts'[q + 1].st = "PREPARED"
      BY <1>2, <3>1
    <3> QED
      BY <3>1, <3>3, <3>4, <3>5, <3>6
  <2> QED
    BY <2>1, <2>2 DEF CancelsSound, Row
<1>12. RowsSound'
  <2> SUFFICES ASSUME NEW q \in Rows'
               PROVE  /\ attempts'[q + 1].st = "PREPARED" => q = Newest' /\ attempts'[q + 1].fill = 0
                      /\ attempts'[q + 1].st # "PREPARED" =>
                            /\ StateMatchesFill(attempts'[q + 1].st, attempts'[q + 1].fill, Qty)
                            /\ Follows(attempts'[q + 1], orders'[q])
    BY DEF RowsSound, Row, Follows, StateMatchesFill
  <2>1. CASE q \in Rows
    <3>1. attempts'[q + 1] = Row(q) /\ orders' = orders
      BY <1>2, <2>1
    <3>2. Row(q).st = "PREPARED" => Newest' = Newest
      BY <1>2, <2>1 DEF Issuable
    <3> QED
      BY <2>1, <3>1, <3>2 DEF IInv, RowsSound
  <2>2. CASE q \notin Rows
    BY <1>2, <2>2
  <2> QED
    BY <2>1, <2>2
<1>13. OrdersSound'
  <2>1. \A q \in Ordinals : q \notin Rows' => orders'[q].st = "NONE"
    BY <1>2 DEF IInv, OrdersSound
  <2>2. \A p \in net' : permits'[p].st \in DISPATCHED
    <3>1. \A p \in net : p \in DOMAIN permits /\ p \notin E /\ permits[p].st \in DISPATCHED
      BY <1>4 DEF IInv, Types, OrdersSound, DISPATCHED
    <3> QED
      BY <1>1, <3>1
  <2>3. ASSUME NEW p \in DOMAIN permits', Creates(p)', p \in net' \/ permits'[p].st = "PREPARED"
        PROVE  orders'[permits'[p].ord].st = "NONE"
    <3>1. CASE p = n
      BY <1>1, <1>7, <2>3, <3>1 DEF Issuable
    <3>2. CASE p \in DOMAIN permits
      <4>1. p \in net /\ Creates(p)
        BY <1>5, <1>7, <2>3, <3>2
      <4> QED
        BY <1>1, <3>2, <4>1 DEF IInv, OrdersSound
    <3> QED
      BY <1>1, <3>1, <3>2
  <2> QED
    BY <2>1, <2>2, <2>3 DEF IInv, OrdersSound
<1>14. ASSUME NEW v \in Workers PROVE WorkerOK(wk[v])'
  <2>1. CASE wk'[v] = wk[v]
    <3> DEFINE r == wk[v]
    <3>1. WorkerOK(r) /\ orders' = orders /\ stage' = stage
      BY DEF IInv, WorkersSound
    <3>2. ASSUME r.p \in DOMAIN permits, r.ord = permits[r.p].ord
          PROVE  r.p \in DOMAIN permits' /\ r.ord = permits'[r.p].ord
      BY <1>1, <3>2
    <3>3. attempts # <<>> => attempts' # <<>>
      <4>1. Rows # {} => Rows' # {}
        BY <1>2
      <4>2. attempts # <<>> => Newest \in Rows
        BY Shape DEF IInv
      <4>3. attempts' = <<>> => Rows' = {}
        BY EmptySeq DEF Rows
      <4> QED
        BY <4>1, <4>2, <4>3
    <3>4. ASSUME r.ord \in Rows PROVE r.ord \in Rows' /\ attempts'[r.ord + 1].fill = Row(r.ord).fill
      BY <1>2, <3>4
    <3>5. ~(r.pc = "finalize" /\ r.mode # "outdated" /\ r.sweep.open = {})
      BY <3>1 DEF WorkerOK, Issuable
    <3> HIDE DEF r
    <3> QED
      BY <2>1, <3>1, <3>2, <3>3, <3>4, <3>5 DEF WorkerOK, Row, r
  <2>2. CASE wk'[v].pc = "acquire" /\ wk'[v].p = n /\ wk'[v].ord = o
    BY <1>1, <2>2 DEF WorkerOK
  <2> QED
    BY <1>0, <2>1, <2>2
<1>15. CertificateSound'
    BY DEF CertificateSound
<1> QED
    BY <1>6, <1>9, <1>11, <1>12, <1>13, <1>14, <1>15 DEF IInv, WorkersSound

LEMMA PrepareInv ==
    ASSUME IInv, NEW w \in Workers, Prepare(w) PROVE IInv'
<1> USE DEF clock, broker, rows
<1> DEFINE r == wk[w]
           kind == r.kind
           o == r.ord
           boundary == IF Reauthorizes(kind, o) THEN r.stage ELSE stage
<1>0. /\ UNCHANGED <<clock, broker, intent, certified, last>> /\ r.pc = "prepare"
      /\ authorized' \in BOOLEAN /\ first_valid' \in BOOLEAN /\ r \in Worker /\ locked \in BOOLEAN
      /\ r.stage <= stage /\ r.stage \in 0..Hard /\ stage \in 0..Hard /\ Hard \in Nat
      /\ kind \in Kinds /\ o \in Ordinals
      /\ kind = "SUBMIT" => o = 0
      /\ kind # "SUBMIT" => attempts # <<>>
      /\ kind = "CANCEL" => o \in Rows /\ (stage = Hard \/ Row(o).fill > 0)
  <2>1. UNCHANGED <<clock, broker, intent, certified, last>> /\ r.pc = "prepare"
    BY DEF Prepare, At
  <2>2. r \in Worker /\ WorkerOK(r)
    BY DEF IInv, Types, WorkersSound
  <2>3. r.stage \in 0..Hard /\ kind \in Kinds /\ o \in Ordinals
    BY <2>2 DEF Worker
  <2> QED
    BY <2>1, <2>2, <2>3, Shape DEF IInv, Types, WorkerOK
<1>1. CASE Stop(w) /\ locked' \in BOOLEAN /\ UNCHANGED <<attempts, permits>>
    BY <1>0, <1>1, StopInv
<1>2. CASE kind = "REPLACE" /\ boundary = Hard /\ Go(w, Planned("CANCEL")) /\ UNCHANGED rows
  <2>1. stage = Hard
    BY <1>0, <1>2
  <2>2. Planned("CANCEL") \in Worker /\ WorkerOK(Planned("CANCEL"))
    BY <1>0, <1>2, <2>1, PlannedOK DEF Kinds
  <2> QED
    BY <1>0, <1>2, <2>2, MoveInv
<1>3. CASE /\ intent = "CLAIMED" /\ Material(kind, o, r.seen) /\ ~(kind = "REPLACE" /\ boundary = Hard)
           /\ MayIssue(kind, o) /\ Len(permits) < MaxPermits /\ Issue(kind, o) /\ UNCHANGED locked
           /\ Go(w, [Idle EXCEPT !.pc = "acquire", !.kind = kind, !.ord = o, !.p = Len(permits) + 1,
                                 !.mode = IF kind = "CANCEL" THEN "cancel" ELSE "submit"])
  <2> DEFINE n == Len(permits) + 1
             mode == IF kind = "CANCEL" THEN "cancel" ELSE "submit"
             to == [Idle EXCEPT !.pc = "acquire", !.kind = kind, !.ord = o, !.p = n, !.mode = mode]
  <2>1. Issuable(kind, o)
    <3>1. CASE kind = "SUBMIT"
      BY <1>0, <1>3, <3>1, SubmitIs
    <3>2. CASE kind = "REPLACE"
      <4>1. o \notin Rows => stage # Hard
        BY <1>3, <3>2 DEF Reauthorizes
      <4> QED
        BY <1>0, <1>3, <3>2, <4>1, ReplaceIs
    <3>3. CASE kind = "CANCEL"
      BY <1>0, <1>3, <3>3, CancelIs
    <3> QED
      BY <1>0, <3>1, <3>2, <3>3 DEF Kinds
  <2>2. n \in Nat /\ mode \in {"cancel", "submit"}
    BY Shape DEF IInv
  <2> HIDE DEF n, mode
  <2>3. to \in Worker /\ to.pc = "acquire" /\ to.p = n /\ to.ord = o
    BY <1>0, <2>2, IdleOK DEF Worker, Steps
  <2>4. wk' = [wk EXCEPT ![w] = to]
    BY <1>3 DEF Go, n, mode
  <2> HIDE DEF to
  <2>5. /\ wk' \in [Workers -> Worker]
        /\ \A v \in Workers : wk'[v] = wk[v] \/ (wk'[v].pc = "acquire" /\ wk'[v].p = n /\ wk'[v].ord = o)
    BY <2>3, <2>4 DEF IInv, Types
  <2> HIDE DEF r
  <2> QED
    BY <1>0, <1>3, <2>1, <2>5, IssueInv DEF n
<1> QED
    BY <1>0, <1>1, <1>2, <1>3 DEF Prepare

-----------------------------------------------------------------------------
(* The invariant and what follows from it *)

LEMMA InitInv ==
    ASSUME Init PROVE IInv
<1>1. /\ attempts = <<>> /\ permits = <<>> /\ Len(attempts) = 0 /\ Len(permits) = 0
      /\ DOMAIN permits = {} /\ Rows = {} /\ net = {} /\ intent = "CLAIMED"
    BY EmptySeq DEF Init, Rows
<1>2. /\ wk \in [Workers -> Worker] /\ \A w \in Workers : WorkerOK(wk[w])
    BY IdleOK DEF Init
<1>3. orders \in [Ordinals -> BrokerOrder] /\ \A o \in Ordinals : orders[o] = NoOrder
  <2>1. NoOrder \in BrokerOrder
    BY BrokerExecutionAssumption DEF NoOrder, BrokerOrder, BrokerStates
  <2> QED
    BY <2>1 DEF Init
<1>4. NoOrder.st = "NONE" /\ NoOrder.fill = 0
    BY DEF NoOrder
<1>5. attempts \in Seq(AttemptRow) /\ permits \in Seq(Permit)
    BY <1>1, EmptySeq
<1>6. Types
  <2>1. certified \in 0..Qty /\ stage \in 0..Hard /\ last \in 0..Len(permits)
    BY <1>1, BrokerExecutionAssumption DEF Init, Hard
  <2>2. Len(attempts) <= LastOrdinal + 1 /\ Len(permits) <= MaxPermits
    BY <1>1, BrokerExecutionAssumption
  <2>3. locked \in BOOLEAN /\ authorized \in BOOLEAN /\ first_valid \in BOOLEAN
    BY DEF Init
  <2> QED
    BY <1>1, <1>2, <1>3, <1>5, <2>1, <2>2, <2>3 DEF Types
<1>7. PermitsSound /\ CancelsSound /\ RowsSound /\ CertificateSound
    BY <1>1 DEF PermitsSound, CancelsSound, RowsSound, CertificateSound
<1>8. OrdersSound
    BY <1>1, <1>3, <1>4 DEF OrdersSound, Live
<1> QED
    BY <1>2, <1>6, <1>7, <1>8 DEF IInv, WorkersSound

LEMMA StutterInv ==
    ASSUME IInv, UNCHANGED vars PROVE IInv'
<1>1. /\ UNCHANGED <<intent, locked, certified, attempts, permits, last, orders, first_valid>>
      /\ stage' \in 0..Hard /\ stage <= stage' /\ authorized' \in BOOLEAN /\ net' \subseteq net
      /\ wk' \in [Workers -> Worker] /\ \A v \in Workers : WorkerOK(wk'[v])
    BY Shape DEF vars, rows, clock, broker, IInv, Types, WorkersSound
<1> QED
    BY <1>1, QuietInv

LEMMA NextInv ==
    ASSUME IInv, [Next]_vars PROVE IInv'
<1>1. ASSUME NEW w \in Workers, Step(w) PROVE IInv'
    BY <1>1, AdvanceInv, ReadOrderInv, RecordInv, RecordNoOrderInv, ScheduleInv, SweepInv, PrepareInv,
       AcquireInv, AmbiguousInv, FinalizeInv DEF Step
<1>2. ASSUME NEW w \in Workers, Crash(w) PROVE IInv'
    BY <1>2, CrashInv
<1>3. ASSUME NEW p \in net, Network(p) PROVE IInv'
    BY <1>3, DeliverInv, QuietStepInv DEF Network
<1>4. ASSUME NEW o \in Ordinals, Fill(o) \/ ReplaceResolves(o) \/ Close(o) PROVE IInv'
    BY <1>4, BrokerInv
<1>5. ASSUME NEW p \in DOMAIN permits, PermitLate(p) PROVE IInv'
    BY <1>5, PermitLateInv
<1>6. ASSUME NEW o \in Rows, CadencePasses(o) \/ DeadlinePasses(o) PROVE IInv'
    BY <1>6, RowFlagInv
<1>7. CASE NextBoundary \/ AuthorizationLapses
    BY <1>7, QuietStepInv
<1>8. CASE UNCHANGED vars
    BY <1>8, StutterInv
<1> QED
    BY <1>1, <1>2, <1>3, <1>4, <1>5, <1>6, <1>7, <1>8 DEF Next

\* The rows, the permits, the orders and the workers stay in step: the inductive invariant
\* behind the results below, over every transaction of SQLAlchemyExecutionRepository, every
\* broker call of ExecutionService and every move of the broker and the clock.
THEOREM ExecutionInvariant == Spec => []IInv
<1>1. Init => IInv
    BY InitInv
<1>2. IInv /\ [Next]_vars => IInv'
    BY NextInv
<1> QED
    BY <1>1, <1>2, PTL DEF Spec

\* The rows of an execution keep their types (OrderAttemptRow, BrokerMutationPermitRow): a
\* permit names an attempt that exists, and an attempt has a state the broker can report.
THEOREM ExecutionTypes == Spec => []TypeOK
<1>1. IInv => TypeOK
  <2> SUFFICES ASSUME IInv PROVE TypeOK
    OBVIOUS
  <2>1. /\ \A o \in Rows : Row(o) \in AttemptRow /\ \A p \in DOMAIN permits : permits[p] \in Permit
        /\ DOMAIN permits = 1..Len(permits) /\ Len(permits) \in Nat
    BY Shape DEF IInv
  <2>2. \A o \in Rows : Row(o).st \in KNOWN \cup {"PREPARED"} /\ Row(o).fill \in 0..Qty
    BY <2>1 DEF AttemptRow, BrokerStates, Live, KNOWN, PENDING, MUTATION_ELIGIBLE, LOOKUP_ONLY
  <2>3. \A p \in DOMAIN permits : /\ permits[p].kind \in Kinds
                                  /\ permits[p].st \in PermitStates
                                  /\ permits[p].ord \in Rows
    BY <2>1, Shape DEF IInv, Permit, PermitsSound
  <2>4. last \in {0} \cup DOMAIN permits
    BY <2>1 DEF IInv, Types
  <2> QED
    BY <2>2, <2>3, <2>4 DEF IInv, Types, TypeOK
<1> QED
    BY <1>1, ExecutionInvariant, PTL

\* A set with one member at most.
LEMMA AtMostOne ==
    ASSUME NEW S, NEW x, S \subseteq {x} PROVE Cardinality(S) <= 1
<1>1. CASE S = {}
    BY <1>1, FS_EmptySet
<1>2. CASE S = {x}
    BY <1>2, FS_Singleton
<1> QED
    BY <1>1, <1>2

\* Broker writes of one intent are serial and none that creates an order is repeated,
\* however many workers run ExecutionService.execute, crash or time out
\* (prepare_broker_mutation, acquire_broker_dispatch).
THEOREM WritesAreSerialHolds == Spec => []WritesAreSerial
<1>1. IInv => WritesAreSerial
  <2> SUFFICES ASSUME IInv PROVE WritesAreSerial
    OBVIOUS
  <2>1. Active \subseteq {Len(permits)}
    BY DEF Active, IInv, PermitsSound
  <2>2. ASSUME NEW o \in Rows
        PROVE  {p \in Generations(CreationKind(o), o) : permits[p].st \in DISPATCHED} \subseteq {CreationPermit(o)}
    <3>1. /\ \A p \in DOMAIN permits : p \in Generations(CreationKind(o), o) <=> Creating(p, o)
          /\ CreationPermit(o) \in DOMAIN permits /\ Creating(CreationPermit(o), o)
          /\ \A p \in DOMAIN permits : Creating(p, o) => p <= CreationPermit(o)
      BY CreationIs DEF IInv
    <3>2. ASSUME NEW p \in DOMAIN permits, Creating(p, o), permits[p].st \in DISPATCHED
          PROVE  p = CreationPermit(o)
      <4>1. ~(p < CreationPermit(o))
        BY <3>1, <3>2 DEF IInv, PermitsSound, Creating, DISPATCHED
      <4> QED
        BY <3>1, <3>2, <4>1, Shape DEF IInv
    <3> QED
      BY <3>1, <3>2 DEF Generations
  <2> QED
    BY <2>1, <2>2, AtMostOne DEF WritesAreSerial, CreatedAtMostOnce, OneOpenWrite
<1> QED
    BY <1>1, ExecutionInvariant, PTL

\* The row of an attempt never runs ahead of its order, and a terminal row is its order
\* (record_attempt_observation, whoever looked it up and whenever the answer arrives).
THEOREM RowsFollowBrokerHolds == Spec => []RowsFollowBroker
<1>1. IInv => RowsFollowBroker
  <2> SUFFICES ASSUME IInv, NEW o \in Rows, Row(o).st # "PREPARED"
               PROVE  /\ Row(o).fill <= orders[o].fill
                      /\ Row(o).st \in TERMINAL => Order(o) = orders[o]
    BY DEF RowsFollowBroker
  <2>1. Follows(Row(o), orders[o]) /\ orders[o] \in BrokerOrder
    BY Shape DEF IInv, Types, RowsSound
  <2>2. Row(o).st \in TERMINAL => Order(o) = orders[o]
    BY <2>1 DEF Follows, BrokerOrder, Order
  <2> QED
    BY <2>1, <2>2 DEF Follows
<1> QED
    BY <1>1, ExecutionInvariant, PTL

\* PREPARED_ATTEMPT_PERMIT_INVALID is never raised: an attempt that was prepared and not
\* sent has an open permit, or the hard cancel that superseded it is on record
\* (_execution_attempt_rows, _supersede_prepared_replacement_for_hard_cancel).
THEOREM LineageIntactHolds == Spec => []LineageIntact
<1>1. IInv => LineageIntact
  <2> SUFFICES ASSUME IInv PROVE LineageIntact
    OBVIOUS
  <2>1. ASSUME Superseded PROVE SupersededByCancel
    <3>1. /\ attempts # <<>> /\ Len(attempts) - 1 = Newest /\ Len(attempts) - 2 = Newest - 1
      BY <2>1, Shape DEF Superseded, IInv, Newest
    <3>2. Newest \in Rows /\ GivenUp(Newest)
      BY <2>1, <3>1, CurrentIs, Shape DEF IInv, CurrentFacts
    <3>3. PICK p, q \in DOMAIN permits :
              /\ ~Creates(p) /\ permits[p].ord = Newest - 1 /\ permits[p].pred = q
              /\ Creating(q, Newest) /\ \A r \in DOMAIN permits : Creating(r, Newest) => r <= q
      BY <3>2 DEF IInv, CancelsSound
    <3>4. /\ CreationPermit(Newest) \in DOMAIN permits /\ Creating(CreationPermit(Newest), Newest)
          /\ q <= CreationPermit(Newest)
      BY <3>2, <3>3, CreationIs DEF IInv
    <3>5. q = CreationPermit(Newest)
      BY <3>3, <3>4, Shape DEF IInv
    <3> QED
      BY <3>1, <3>3, <3>5 DEF SupersededByCancel, Generations, Creates
  <2>2. ASSUME attempts # <<>>, Row(Current).st = "PREPARED" PROVE CreationState(Current) \in ACTIVE
    <3>1. /\ Superseded <=> Newest > 0 /\ Row(Newest).st = "PREPARED" /\ GivenUp(Newest)
          /\ Current = IF Superseded THEN Newest - 1 ELSE Newest
          /\ Current \in Rows /\ Newest \in Int
      BY <2>2, CurrentIs, Shape DEF IInv, CurrentFacts
    <3>2. Current = Newest /\ ~Superseded
      BY <2>2, <3>1 DEF IInv, RowsSound
    <3>3. ~GivenUp(Newest)
      BY <2>2, <3>1, <3>2 DEF IInv, CancelsSound
    <3>4. CreationState(Newest) # "EXPIRED"
      BY <3>1, <3>2, <3>3, GivenUpIs DEF IInv
    <3>5. CreationPermit(Newest) \in DOMAIN permits /\ Creating(CreationPermit(Newest), Newest)
      BY <3>1, <3>2, CreationIs DEF IInv
    <3>6. CreationState(Newest) # "CONSUMED" /\ CreationState(Newest) \in PermitStates
      BY <2>2, <3>2, <3>5, Shape DEF IInv, PermitsSound, Creating, CreationState, Permit
    <3> QED
      BY <3>2, <3>4, <3>6 DEF PermitStates, ACTIVE
  <2> QED
    BY <2>1, <2>2 DEF LineageIntact
<1> QED
    BY <1>1, ExecutionInvariant, PTL

\* A certificate tells the truth for good: no order of the intent is open, none can be
\* created any more, and what it certifies is what is held (finalize_execution_authorized,
\* validate_finalization).
THEOREM CertificateTruthHolds == Spec => []CertificateTruth
<1>1. IInv => CertificateTruth
  <2> SUFFICES ASSUME IInv, intent = "TERMINAL"
               PROVE  OpenOrders = {} /\ certified = Held /\ \A p \in net : permits[p].kind = "CANCEL"
    BY DEF CertificateTruth
  <2>1. Ended /\ certified = Held
    BY DEF IInv, CertificateSound
  <2>2. ASSUME NEW p \in net PROVE permits[p].kind = "CANCEL"
    BY <2>1, CreatingNotEnded DEF IInv, Types, Creates
  <2> QED
    BY <2>1, <2>2 DEF Ended
<1> QED
    BY <1>1, ExecutionInvariant, PTL

-----------------------------------------------------------------------------
(* What an observation and a certificate leave behind *)

\* The newest observation, if it was made under a permit that creates an order, has consumed
\* the permit, or it showed an order that goes on.
ObservationSettles ==
    last # 0 /\ Creates(last) =>
        \/ permits[last].st = "CONSUMED"
        \/ permits[last].st = "LOOKUP_ONLY" /\ Row(permits[last].ord).st \notin TERMINAL

\* The certificate is of the newest observation, of the only attempt that filled, and a part
\* of the quantity has latched the account.
CertificateRecorded ==
    intent = "TERMINAL" =>
        /\ ObservedLast /\ certified = Row(Current).fill
        /\ \A o \in Rows : o < Current => Row(o).fill = 0
        /\ 0 < certified /\ certified < Qty => locked

RInv == IInv /\ ObservationSettles /\ CertificateRecorded

\* A permit that is settled or left to lookups stays so, and one that exists is of one attempt.
PermitStays(p) ==
    /\ permits'[p].kind = permits[p].kind /\ permits'[p].ord = permits[p].ord
    /\ permits[p].st \in {"CONSUMED", "LOOKUP_ONLY"} => permits'[p].st = permits[p].st

\* A step that observes nothing.
NoObservation ==
    /\ last' \in {0, last}
    /\ \A o \in Rows : SameRow(o)
    /\ \A p \in DOMAIN permits : PermitStays(p)

\* A step after the certificate: the rows that were certified are not touched.
Fixed ==
    /\ UNCHANGED <<intent, certified, last>> /\ (locked => locked')
    /\ Len(attempts') = Len(attempts) /\ \A o \in Rows : SameRow(o)
    /\ DOMAIN permits' = DOMAIN permits
    /\ \A p \in DOMAIN permits : /\ permits'[p].kind = permits[p].kind
                                 /\ permits'[p].ord = permits[p].ord /\ permits'[p].st = permits[p].st

LEMMA FixedCurrent ==
    ASSUME IInv, IInv', Fixed, attempts # <<>> PROVE Current' = Current /\ Current \in Rows /\ Rows' = Rows
<1>1. Newest' = Newest /\ Rows' = Rows /\ attempts' # <<>> /\ Newest \in Rows
  <2>1. Len(attempts) # 0 /\ Newest \in Rows
    BY Shape DEF IInv
  <2>2. Len(attempts') # 0
    BY <2>1 DEF Fixed
  <2>3. attempts' # <<>>
    BY <2>2, EmptySeq
  <2> QED
    BY <2>1, <2>3 DEF Fixed, Newest, Rows
<1>2. /\ Superseded <=> Newest > 0 /\ Row(Newest).st = "PREPARED" /\ GivenUp(Newest)
      /\ Current = IF Superseded THEN Newest - 1 ELSE Newest
      /\ Current \in Rows
    BY CurrentIs DEF IInv, CurrentFacts
<1>3. /\ Superseded' <=> Newest' > 0 /\ Row(Newest)'.st = "PREPARED" /\ GivenUp(Newest)'
      /\ Current' = IF Superseded' THEN Newest' - 1 ELSE Newest'
    BY <1>1, CurrentIsNext DEF CurrentFacts, IInv
<1>4. GivenUp(Newest)' <=> GivenUp(Newest)
    BY <1>1 DEF GivenUp, Creating, Creates, Fixed
<1>5. Row(Newest)'.st = Row(Newest).st
    BY <1>1 DEF Fixed, SameRow, Row
<1> QED
    BY <1>1, <1>2, <1>3, <1>4, <1>5

\* What was certified stays certified.
LEMMA FixedRecorded ==
    ASSUME IInv, IInv', Fixed, CertificateRecorded PROVE CertificateRecorded'
<1> SUFFICES ASSUME intent = "TERMINAL"
             PROVE  /\ ObservedLast' /\ certified' = Row(Current)'.fill
                    /\ \A o \in Rows' : o < Current' => attempts'[o + 1].fill = 0
                    /\ 0 < certified' /\ certified' < Qty => locked'
    BY DEF CertificateRecorded, Fixed, Row
<1>1. attempts # <<>>
    BY DEF IInv, CertificateSound, Ended
<1>2. Current' = Current /\ Current \in Rows /\ Rows' = Rows
    BY <1>1, FixedCurrent
<1>3. last \in DOMAIN permits
    BY Shape DEF CertificateRecorded, ObservedLast, IInv, Types
<1> QED
    BY <1>2, <1>3 DEF CertificateRecorded, ObservedLast, Fixed, SameRow, Row

\* The newest observation settles as long as no other is made.
LEMMA NoObservationSettles ==
    ASSUME IInv, ObservationSettles, NoObservation PROVE ObservationSettles'
<1> SUFFICES ASSUME last' # 0, Creates(last)' PROVE permits'[last'].st = "CONSUMED"
                \/ (permits'[last'].st = "LOOKUP_ONLY" /\ attempts'[permits'[last'].ord + 1].st \notin TERMINAL)
    BY DEF ObservationSettles, Row
<1>1. last' = last /\ last \in DOMAIN permits /\ permits[last].ord \in Rows
    BY Shape DEF NoObservation, IInv, Types, PermitsSound
<1>2. PermitStays(last) /\ SameRow(permits[last].ord)
    BY <1>1 DEF NoObservation
<1>3. Creates(last)
    BY <1>1, <1>2 DEF PermitStays, Creates
<1> QED
    BY <1>1, <1>2, <1>3 DEF PermitStays, SameRow, ObservationSettles

\* Steps that touch neither attempts nor permits.
LEMMA StillObservesNothing ==
    ASSUME UNCHANGED <<attempts, permits, last>> PROVE NoObservation
BY DEF NoObservation, SameRow, Row, PermitStays

\* One row or one permit gets a new flag.
LEMMA FlagsObserveNothing ==
    ASSUME IInv, IInv', last' \in {0, last},
           \/ attempts' = attempts
           \/ \E o \in Rows : \E row \in AttemptRow : /\ row.st = Row(o).st /\ row.fill = Row(o).fill
                                                      /\ attempts' = [attempts EXCEPT ![o + 1] = row],
           \/ permits' = permits
           \/ \E p \in DOMAIN permits : \E new \in Permit : /\ new.kind = permits[p].kind /\ new.ord = permits[p].ord
                                                            /\ new.st = permits[p].st
                                                            /\ permits' = [permits EXCEPT ![p] = new]
    PROVE  /\ NoObservation
           /\ UNCHANGED <<intent, certified, last>> /\ (locked => locked') => Fixed
<1>1. Len(attempts') = Len(attempts) /\ \A o \in Rows : SameRow(o)
  <2>1. CASE attempts' = attempts
    BY <2>1 DEF SameRow, Row
  <2>2. ASSUME NEW o \in Rows, NEW row \in AttemptRow, row.st = Row(o).st, row.fill = Row(o).fill,
               attempts' = [attempts EXCEPT ![o + 1] = row]
        PROVE  Len(attempts') = Len(attempts) /\ \A q \in Rows : SameRow(q)
    <3>1. /\ Len(attempts') = Len(attempts) /\ attempts'[o + 1] = row
          /\ \A i \in Rows : i # o => attempts'[i + 1] = attempts[i + 1]
      BY <2>2, RowChange DEF IInv
    <3> QED
      BY <2>2, <3>1 DEF SameRow, Row
  <2> QED
    BY <2>1, <2>2
<1>2. /\ DOMAIN permits' = DOMAIN permits
      /\ \A p \in DOMAIN permits : /\ permits'[p].kind = permits[p].kind
                                   /\ permits'[p].ord = permits[p].ord /\ permits'[p].st = permits[p].st
  <2>1. CASE permits' = permits
    BY <2>1
  <2>2. ASSUME NEW p \in DOMAIN permits, NEW new \in Permit, new.kind = permits[p].kind,
               new.ord = permits[p].ord, new.st = permits[p].st, permits' = [permits EXCEPT ![p] = new]
        PROVE  /\ DOMAIN permits' = DOMAIN permits
               /\ \A q \in DOMAIN permits : /\ permits'[q].kind = permits[q].kind
                                            /\ permits'[q].ord = permits[q].ord /\ permits'[q].st = permits[q].st
    BY <2>2, PermitChange DEF IInv
  <2> QED
    BY <2>1, <2>2
<1> QED
    BY <1>1, <1>2 DEF NoObservation, PermitStays, Fixed

\* A step that observes nothing, certifies nothing, and leaves alone what is certified.
Harmless ==
    /\ NoObservation
    /\ intent = "TERMINAL" => Fixed
    /\ intent # "TERMINAL" => intent' # "TERMINAL"

LEMMA HarmlessInv ==
    ASSUME RInv, IInv', Harmless PROVE RInv'
<1>1. ObservationSettles'
    BY NoObservationSettles DEF RInv, Harmless
<1>2. CertificateRecorded'
  <2>1. CASE intent = "TERMINAL"
    BY <2>1, FixedRecorded DEF RInv, Harmless
  <2>2. CASE intent # "TERMINAL"
    BY <2>2 DEF Harmless, CertificateRecorded
  <2> QED
    BY <2>1, <2>2
<1> QED
    BY <1>1, <1>2 DEF RInv

LEMMA StillHarmless ==
    ASSUME UNCHANGED <<attempts, permits, last, intent, certified>>, locked => locked' PROVE Harmless
BY StillObservesNothing DEF Harmless, Fixed, SameRow, Row

\* The steps of a worker that only read, and those of the broker, the network and the clock
\* that leave the rows alone.
LEMMA ReadsHarmless ==
    ASSUME NEW w \in Workers,
           \/ Advance(w) \/ LookupAgain(w) \/ Lookup(w) \/ Schedule(w) \/ Quotes(w)
           \/ Sweep(w) \/ Reread(w) \/ FinalSweep(w) \/ Crash(w)
    PROVE  Harmless
<1> USE DEF rows
<1>1. CASE Advance(w) \/ LookupAgain(w)
  <2>1. UNCHANGED <<attempts, permits, last, intent, certified>>
    BY <1>1 DEF Advance, LookupAgain
  <2>2. locked => locked'
    BY <1>1 DEF Advance, LookupAgain, LookupAuthority
  <2> QED
    BY <2>1, <2>2, StillHarmless
<1>2. CASE Lookup(w) \/ Schedule(w) \/ Quotes(w) \/ Sweep(w) \/ Reread(w) \/ FinalSweep(w) \/ Crash(w)
  <2>1. UNCHANGED rows
    BY <1>2 DEF Lookup, Schedule, Quotes, Sweep, Reread, FinalSweep, Crash
  <2> QED
    BY <2>1, StillHarmless
<1> QED
    BY <1>1, <1>2

LEMMA OutsideHarmless ==
    ASSUME \/ \E p \in net : Network(p)
           \/ \E o \in Ordinals : Fill(o) \/ ReplaceResolves(o) \/ Close(o)
           \/ NextBoundary \/ AuthorizationLapses \/ UNCHANGED vars
    PROVE  Harmless
<1>1. UNCHANGED rows
    BY DEF Network, Deliver, Refuse, Drop, Fill, ReplaceResolves, Close, NextBoundary, AuthorizationLapses, vars
<1> QED
    BY <1>1, StillHarmless DEF rows

\* A permit is dispatched or left to lookups.
LEMMA DispatchHarmless ==
    ASSUME IInv, NEW w \in Workers, Acquire(w) \/ Ambiguous(w) PROVE Harmless
<1> DEFINE p == wk[w].p
<1>1. /\ p \in DOMAIN permits /\ permits[p] \in Permit
      /\ UNCHANGED <<intent, locked, certified, attempts, last>>
  <2>1. wk[w].pc \in {"acquire", "call"} /\ UNCHANGED <<intent, locked, certified, attempts, last>>
    BY DEF Acquire, Ambiguous, At
  <2>2. p \in DOMAIN permits
    BY <2>1 DEF IInv, WorkersSound, WorkerOK
  <2> QED
    BY <2>1, <2>2, Shape DEF IInv
<1>2. CASE UNCHANGED permits
    BY <1>1, <1>2, StillHarmless
<1>3. ASSUME NEW st \in {"DISPATCHING", "LOOKUP_ONLY"}, intent = "CLAIMED",
             permits[p].st \in {"PREPARED", "DISPATCHING"}, permits' = [permits EXCEPT ![p].st = st]
      PROVE  Harmless
  <2> DEFINE new == [permits[p] EXCEPT !.st = st]
  <2>1. new \in Permit /\ new.kind = permits[p].kind /\ new.ord = permits[p].ord
    BY <1>1, <1>3 DEF Permit, PermitStates
  <2>2. permits' = [permits EXCEPT ![p] = new]
    BY <1>3
  <2> HIDE DEF new
  <2>3. permits'[p] = new /\ \A q \in DOMAIN permits : q # p => permits'[q] = permits[q]
    BY <1>1, <2>1, <2>2, PermitChange DEF IInv
  <2>4. \A q \in DOMAIN permits : PermitStays(q)
    BY <1>3, <2>1, <2>3 DEF PermitStays
  <2> QED
    BY <1>1, <1>3, <2>4 DEF Harmless, NoObservation, SameRow, Row
<1>4. CASE Acquire(w)
    BY <1>2, <1>3, <1>4 DEF Acquire
<1>5. CASE Ambiguous(w)
    BY <1>2, <1>3, <1>5 DEF Ambiguous
<1> QED
    BY <1>4, <1>5

\* The flags that time raises.
LEMMA FlagsHarmless ==
    ASSUME IInv, IInv',
           \/ \E p \in DOMAIN permits : PermitLate(p)
           \/ \E o \in Rows : CadencePasses(o) \/ DeadlinePasses(o)
    PROVE  Harmless
<1>1. ASSUME NEW p \in DOMAIN permits, PermitLate(p) PROVE Harmless
  <2> DEFINE new == [permits[p] EXCEPT !.late = TRUE]
  <2>1. permits[p] \in Permit
    BY Shape DEF IInv
  <2>2. new \in Permit /\ new.kind = permits[p].kind /\ new.ord = permits[p].ord /\ new.st = permits[p].st
    BY <2>1 DEF Permit
  <2>3. permits' = [permits EXCEPT ![p] = new] /\ UNCHANGED <<intent, locked, certified, attempts, last>>
    BY <1>1 DEF PermitLate
  <2> HIDE DEF new
  <2> QED
    BY <2>2, <2>3, FlagsObserveNothing DEF Harmless
<1>2. ASSUME NEW o \in Rows, CadencePasses(o) \/ DeadlinePasses(o) PROVE Harmless
  <2>1. UNCHANGED <<intent, locked, certified, permits, last>>
    BY <1>2 DEF CadencePasses, DeadlinePasses
  <2>2. Row(o) \in AttemptRow
    BY Shape DEF IInv
  <2>3. \E row \in AttemptRow : /\ row.st = Row(o).st /\ row.fill = Row(o).fill
                                /\ attempts' = [attempts EXCEPT ![o + 1] = row]
    <3> DEFINE cold == [Row(o) EXCEPT !.fresh = FALSE]
               late == [Row(o) EXCEPT !.stalled = TRUE]
    <3>1. cold \in AttemptRow /\ cold.st = Row(o).st /\ cold.fill = Row(o).fill
      BY <2>2 DEF AttemptRow
    <3>2. late \in AttemptRow /\ late.st = Row(o).st /\ late.fill = Row(o).fill
      BY <2>2 DEF AttemptRow
    <3>3. attempts' = [attempts EXCEPT ![o + 1] = cold] \/ attempts' = [attempts EXCEPT ![o + 1] = late]
      BY <1>2 DEF CadencePasses, DeadlinePasses, Row
    <3> HIDE DEF cold, late
    <3> QED
      BY <3>1, <3>2, <3>3
  <2> QED
    BY <2>1, <2>3, FlagsObserveNothing DEF Harmless
<1> QED
    BY <1>1, <1>2

\* A lookup that found no order leaves no newest observation.
LEMMA AbsenceHarmless ==
    ASSUME IInv, IInv', NEW w \in Workers, RecordNoOrder(w) PROVE Harmless
<1> DEFINE p == wk[w].p
           o == permits[p].ord
           row == [Row(o) EXCEPT !.fresh = TRUE]
           new == [permits[p] EXCEPT !.proof = NoOrder]
<1>1. UNCHANGED <<intent, certified>> /\ wk[w].pc = "record"
    BY DEF RecordNoOrder, At
<1>2. CASE UNCHANGED <<attempts, permits, last, locked>>
    BY <1>1, <1>2, StillHarmless
<1>3. CASE /\ intent = "CLAIMED" /\ last' = 0
           /\ attempts' = [attempts EXCEPT ![permits[p].ord + 1].fresh = TRUE]
           /\ permits' = [permits EXCEPT ![p].proof = NoOrder]
  <2>1. p \in DOMAIN permits /\ o \in Rows
    BY <1>1 DEF IInv, WorkersSound, WorkerOK, PermitsSound
  <2>2. Row(o) \in AttemptRow /\ permits[p] \in Permit /\ NoOrder \in Seen
    BY <2>1, Shape, IdleOK DEF IInv, Idle, Worker
  <2>3. row \in AttemptRow /\ row.st = Row(o).st /\ row.fill = Row(o).fill
    BY <2>2 DEF AttemptRow
  <2>4. new \in Permit /\ new.kind = permits[p].kind /\ new.ord = o /\ new.st = permits[p].st
    BY <2>2 DEF Permit
  <2>5. attempts' = [attempts EXCEPT ![o + 1] = row] /\ permits' = [permits EXCEPT ![p] = new]
    BY <1>3 DEF Row
  <2> HIDE DEF row, new
  <2>6. NoObservation
    BY <1>3, <2>1, <2>3, <2>4, <2>5, FlagsObserveNothing
  <2> QED
    BY <1>1, <1>3, <2>6 DEF Harmless
<1> QED
    BY <1>2, <1>3 DEF RecordNoOrder, MayLookUp

\* A new permit, and the attempt that comes with it.
LEMMA PrepareHarmless ==
    ASSUME IInv, NEW w \in Workers, Prepare(w) PROVE Harmless
<1> DEFINE kind == wk[w].kind
           o == wk[w].ord
<1>1. UNCHANGED <<intent, certified, last>>
    BY DEF Prepare, rows
<1>2. CASE UNCHANGED <<attempts, permits>> /\ (locked => locked')
    BY <1>1, <1>2, StillHarmless
<1>3. CASE intent = "CLAIMED" /\ Issue(kind, o)
  <2> DEFINE E == Expiring(kind, o)
             aged == [p \in DOMAIN permits |-> IF p \in E THEN [permits[p] EXCEPT !.st = "EXPIRED"] ELSE permits[p]]
             new == [kind |-> kind, ord |-> o, st |-> "PREPARED", late |-> FALSE, proof |-> NoOrder,
                     pred |-> Predecessor(kind, o)]
             row == Attempt("PREPARED", 0)
  <2>1. /\ DOMAIN permits = 1..Len(permits) /\ Len(permits) \in Nat /\ Len(attempts) \in Nat
        /\ \A p \in DOMAIN permits : permits[p] \in Permit
        /\ attempts \in Seq(AttemptRow)
    BY Shape DEF IInv, Types
  <2>2. permits' = Append(aged, new) /\ attempts' \in {attempts, Append(attempts, row)}
    BY <1>3 DEF Issue, Expiring, AttemptsWith
  <2>3. ASSUME NEW p \in DOMAIN permits
        PROVE  /\ aged[p] \in Permit /\ aged[p].kind = permits[p].kind /\ aged[p].ord = permits[p].ord
               /\ permits[p].st \in {"CONSUMED", "LOOKUP_ONLY"} => aged[p].st = permits[p].st
    <3>1. permits[p] \in Permit /\ (p \in E => permits[p].st = "PREPARED")
      BY <2>1 DEF Expiring
    <3>2. CASE p \in E
      BY <3>1, <3>2 DEF Permit, PermitStates
    <3>3. CASE p \notin E
      BY <3>1, <3>3
    <3> QED
      BY <3>2, <3>3
  <2>4. aged \in Seq(Permit) /\ Len(aged) = Len(permits)
    <3>1. aged \in [1..Len(permits) -> Permit]
      BY <2>1, <2>3
    <3> HIDE DEF aged
    <3> QED
      BY <2>1, <3>1
  <2>5. row \in AttemptRow
    BY BrokerExecutionAssumption DEF Attempt, AttemptRow
  <2> HIDE DEF aged, new, row, E
  <2>6. \A p \in DOMAIN permits : permits'[p] = aged[p]
    BY <2>1, <2>2, <2>4
  <2>7. \A q \in Rows : attempts'[q + 1] = attempts[q + 1]
    <3>1. \A q \in Rows : q + 1 \in 1..Len(attempts)
      BY <2>1 DEF Rows
    <3>2. \A i \in 1..Len(attempts) : attempts'[i] = attempts[i]
      BY <2>1, <2>2, <2>5, AppendProperties
    <3> QED
      BY <3>1, <3>2
  <2> QED
    BY <1>1, <1>3, <2>3, <2>6, <2>7 DEF Harmless, NoObservation, PermitStays, SameRow, Row
<1> QED
    BY <1>1, <1>2, <1>3 DEF Prepare, rows

\* An observation under a permit that creates an order settles it, unless the order goes on.
LEMMA ObserveRecords ==
    ASSUME IInv, NEW w \in Workers, wk[w].pc \in {"record", "outcome"}, NEW lookup \in BOOLEAN,
           permits[wk[w].p].st \in DISPATCHED, Observe(wk[w].p, wk[w].seen, lookup)
    PROVE  ObservationSettles'
<1> DEFINE p == wk[w].p
           seen == wk[w].seen
           o == permits[p].ord
           row == [st |-> seen.st, fill |-> seen.fill, looked |-> Row(o).looked \/ lookup, fresh |-> TRUE,
                   stalled |-> Row(o).stalled /\ Row(o).st = seen.st]
           settles == permits[p].st \in {"DISPATCHING", "LOOKUP_ONLY"} /\ ~LookupPending(p, seen)
           proof == IF lookup /\ permits[p].kind = "CANCEL" /\ permits[p].late THEN seen ELSE NoOrder
           new == [permits[p] EXCEPT !.st = IF settles THEN "CONSUMED" ELSE permits[p].st, !.proof = proof]
<1>1. p \in DOMAIN permits /\ o \in Rows /\ permits[p] \in Permit
  <2>1. p \in DOMAIN permits
    BY DEF IInv, WorkersSound, WorkerOK
  <2> QED
    BY <2>1, Shape DEF IInv, PermitsSound
<1>2. /\ DOMAIN permits = 1..Len(permits) /\ o + 1 \in DOMAIN attempts /\ p # 0
    BY <1>1, Shape, LenProperties DEF IInv, Types, Rows
<1>3. attempts' = [attempts EXCEPT ![o + 1] = row] /\ permits' = [permits EXCEPT ![p] = new] /\ last' = p
    BY DEF Observe, ObservedOrdinal, Row
<1>4. new.ord = o /\ new.kind = permits[p].kind /\ new.st = IF settles THEN "CONSUMED" ELSE permits[p].st
  <2> HIDE DEF settles, proof
  <2> QED
    BY <1>1 DEF Permit
<1>5. row.st = seen.st
    OBVIOUS
<1>6. new.st = "CONSUMED" \/ (new.st = "LOOKUP_ONLY" /\ LookupPending(p, seen))
    BY <1>4 DEF DISPATCHED, LookupPending
<1>7. LookupPending(p, seen) => seen.st \notin TERMINAL
    BY DEF LookupPending, PENDING, MUTATION_ELIGIBLE, LOOKUP_ONLY, TERMINAL
<1> HIDE DEF new, row, settles, proof
<1>8. permits'[p] = new /\ attempts'[o + 1] = row
    BY <1>1, <1>2, <1>3
<1>9. permits'[last'].st = "CONSUMED"
        \/ (permits'[last'].st = "LOOKUP_ONLY" /\ attempts'[permits'[last'].ord + 1].st \notin TERMINAL)
    BY <1>3, <1>4, <1>5, <1>6, <1>7, <1>8
<1> QED
    BY <1>9 DEF ObservationSettles, Row

LEMMA RecordRecords ==
    ASSUME RInv, IInv', NEW w \in Workers, RecordLookup(w) \/ RecordOutcome(w) PROVE RInv'
<1> DEFINE p == wk[w].p
           seen == wk[w].seen
<1>1. wk[w].pc \in {"record", "outcome"} /\ UNCHANGED <<intent, locked, certified>>
    BY DEF RecordLookup, RecordOutcome, At
<1>2. CASE UNCHANGED <<attempts, permits, last>>
    BY <1>1, <1>2, StillHarmless, HarmlessInv
<1>3. ASSUME NEW lookup \in BOOLEAN, intent = "CLAIMED", permits[p].st \in DISPATCHED, Observe(p, seen, lookup)
      PROVE  RInv'
  <2>1. ObservationSettles'
    BY <1>1, <1>3, ObserveRecords DEF RInv
  <2> QED
    BY <1>1, <1>3, <2>1 DEF RInv, CertificateRecorded
<1>4. CASE RecordLookup(w)
    BY <1>2, <1>3, <1>4 DEF RecordLookup, MayLookUp, DISPATCHED
<1>5. CASE RecordOutcome(w)
    BY <1>2, <1>3, <1>5 DEF RecordOutcome, DISPATCHED
<1> QED
    BY <1>4, <1>5

\* finalize_execution_authorized: the certificate is of the newest observation.
LEMMA FinalizeRecords ==
    ASSUME RInv, IInv', NEW w \in Workers, Finalize(w) PROVE RInv'
<1>1. UNCHANGED <<attempts, permits, last>>
    BY DEF Finalize, rows
<1>2. CASE UNCHANGED <<intent, certified>> /\ (locked => locked')
    BY <1>1, <1>2, StillHarmless, HarmlessInv
<1>3. CASE /\ intent = "CLAIMED" /\ ObservedLast /\ \A o \in 0..(Current - 1) : Row(o).fill = 0
           /\ intent' = "TERMINAL" /\ certified' = Row(Current).fill
           /\ locked' = (locked \/ (Row(Current).fill > 0 /\ Row(Current).fill < Qty))
  <2>1. Current' = Current /\ Rows' = Rows /\ ObservedLast' /\ \A o : Row(o)' = Row(o)
    <3>1. Current' = Current
      BY <1>1 DEF Current, Superseded, CreationState, CreationPermit, Generations, CreationKind, Row
    <3> QED
      BY <1>1, <1>3, <3>1 DEF Rows, ObservedLast, Row
  <2>2. attempts # <<>>
    <3>1. last \in DOMAIN permits
      BY <1>3, Shape DEF ObservedLast, RInv, IInv, Types
    <3>2. permits[last].ord \in Rows
      BY <3>1 DEF RInv, IInv, PermitsSound
    <3> QED
      BY <3>2, Shape DEF RInv, IInv, Rows
  <2>3. Current \in Rows /\ \A o \in Rows : o \in Int
    BY <2>2, CurrentIs, Shape DEF RInv, IInv, CurrentFacts
  <2>4. \A o \in Rows : o < Current => Row(o).fill = 0
    BY <1>3, <2>3 DEF Rows
  <2>5. certified' = Row(Current)'.fill
    BY <1>3, <2>1
  <2>6. 0 < certified' /\ certified' < Qty => locked'
    BY <1>3
  <2>7. CertificateRecorded'
    BY <2>1, <2>4, <2>5, <2>6 DEF CertificateRecorded
  <2>8. ObservationSettles'
    BY <1>1, StillObservesNothing, NoObservationSettles DEF RInv
  <2> QED
    BY <2>7, <2>8 DEF RInv
<1> QED
    BY <1>1, <1>2, <1>3 DEF Finalize, rows

LEMMA NextRecords ==
    ASSUME RInv, [Next]_vars PROVE RInv'
<1>0. IInv /\ IInv'
    BY NextInv DEF RInv
<1>1. ASSUME NEW w \in Workers, Step(w) PROVE RInv'
  <2>1. CASE \/ Advance(w) \/ LookupAgain(w) \/ Lookup(w) \/ Schedule(w) \/ Quotes(w)
             \/ Sweep(w) \/ Reread(w) \/ FinalSweep(w)
    BY <1>0, <2>1, ReadsHarmless, HarmlessInv
  <2>2. CASE RecordLookup(w) \/ RecordOutcome(w)
    BY <1>0, <2>2, RecordRecords
  <2>3. CASE RecordNoOrder(w)
    BY <1>0, <2>3, AbsenceHarmless, HarmlessInv
  <2>4. CASE Prepare(w)
    BY <1>0, <2>4, PrepareHarmless, HarmlessInv
  <2>5. CASE Acquire(w) \/ Ambiguous(w)
    BY <1>0, <2>5, DispatchHarmless, HarmlessInv
  <2>6. CASE Finalize(w)
    BY <1>0, <2>6, FinalizeRecords
  <2> QED
    BY <1>1, <2>1, <2>2, <2>3, <2>4, <2>5, <2>6 DEF Step
<1>2. ASSUME NEW w \in Workers, Crash(w) PROVE RInv'
    BY <1>0, <1>2, ReadsHarmless, HarmlessInv
<1>3. CASE \/ \E p \in net : Network(p)
           \/ \E o \in Ordinals : Fill(o) \/ ReplaceResolves(o) \/ Close(o)
           \/ NextBoundary \/ AuthorizationLapses \/ UNCHANGED vars
    BY <1>0, <1>3, OutsideHarmless, HarmlessInv
<1>4. CASE \/ \E p \in DOMAIN permits : PermitLate(p)
           \/ \E o \in Rows : CadencePasses(o) \/ DeadlinePasses(o)
    BY <1>0, <1>4, FlagsHarmless, HarmlessInv
<1> QED
    BY <1>1, <1>2, <1>3, <1>4 DEF Next

\* The newest observation has settled its permit, and a certificate stays what it was issued
\* for: nothing that happens afterwards touches the rows it was made from
\* (record_attempt_observation, finalize_execution_authorized).
THEOREM RecordInvariant == Spec => []RInv
<1>1. Init => RInv
  <2> SUFFICES ASSUME Init PROVE RInv
    OBVIOUS
  <2>1. last = 0 /\ intent = "CLAIMED"
    BY DEF Init
  <2> QED
    BY <2>1, InitInv DEF RInv, ObservationSettles, CertificateRecorded
<1>2. RInv /\ [Next]_vars => RInv'
    BY NextRecords
<1> QED
    BY <1>1, <1>2, PTL DEF Spec

-----------------------------------------------------------------------------
(* Which fills are recorded *)

\* The earliest of a set of permits that has one member.
LEMMA MinOfOne ==
    ASSUME NEW n \in Nat PROVE Min({n}) = n
<1>1. \E x \in {n} : \A y \in {n} : x <= y
    OBVIOUS
<1> QED
    BY <1>1 DEF Min

\* The earliest of several permits.
LEMMA MinIs ==
    ASSUME NEW S \in SUBSET Nat, S # {}
    PROVE  Min(S) \in S /\ \A y \in S : Min(S) <= y
<1> DEFINE Lt == OpToRel(<, Nat)
<1>1. \A x, y \in Nat : <<x, y>> \in Lt <=> x < y
    BY DEF OpToRel
<1>2. PICK k \in S : \A j \in S : ~(<<j, k>> \in Lt)
  <2>1. IsWellFoundedOn(Lt, Nat)
    BY NatLessThanWellFounded
  <2> HIDE DEF Lt
  <2> QED
    BY <2>1, WFMin
<1>3. ASSUME NEW y \in S PROVE k <= y
  <2>1. y \in Nat /\ k \in Nat
    OBVIOUS
  <2>2. ~(y < k)
    BY <1>1, <1>2, <2>1
  <2> QED
    BY <2>1, <2>2
<1>4. \E x \in S : \A y \in S : x <= y
    BY <1>3
<1> QED
    BY <1>4 DEF Min

\* A set with two members.
LEMMA TwoOrMore ==
    ASSUME NEW S, IsFiniteSet(S), NEW x \in S, NEW y \in S, x # y PROVE Cardinality(S) > 1
<1>1. Cardinality({x}) = 1
    BY FS_Singleton
<1>2. {x} \in SUBSET S /\ {x} # S
    OBVIOUS
<1>3. Cardinality({x}) <= Cardinality(S) /\ (Cardinality(S) = Cardinality({x}) => S = {x})
    BY <1>2, FS_Subset
<1>4. Cardinality(S) \in Nat
    BY FS_CardinalityType
<1> QED
    BY <1>1, <1>2, <1>3, <1>4

\* A certificate: its attempt is the last that counts, the state of which goes with its fill.
LEMMA CertificateIs ==
    ASSUME RInv, intent = "TERMINAL"
    PROVE  /\ attempts # <<>> /\ Newest \in Rows /\ Newest = Len(attempts) - 1 /\ Newest \in Int
           /\ Current \in Rows /\ Current \in {Newest - 1, Newest} /\ Current \in Int
           /\ Row(Current).st \in TERMINAL /\ StateMatchesFill(Row(Current).st, Row(Current).fill, Qty)
           /\ last # 0 /\ last \in DOMAIN permits /\ permits[last].ord = Current
           /\ certified = Row(Current).fill /\ certified = Held /\ OpenOrders = {}
           /\ certified \in 0..Qty
           /\ \A o \in Rows : o < Current => Row(o).fill = 0
           /\ 0 < certified /\ certified < Qty => locked
<1>1. attempts # <<>> /\ Row(Current).st \in TERMINAL /\ OpenOrders = {} /\ certified = Held
    BY DEF RInv, IInv, CertificateSound, Ended
<1>2. Newest \in Rows /\ Newest = Len(attempts) - 1 /\ Newest \in Int
    BY <1>1, Shape DEF RInv, IInv, Newest
<1>3. Current \in Rows /\ Current \in {Newest - 1, Newest} /\ Current \in Int
    BY <1>1, <1>2, CurrentIs, Shape DEF RInv, IInv, CurrentFacts
<1>4. StateMatchesFill(Row(Current).st, Row(Current).fill, Qty)
    BY <1>1, <1>3 DEF RInv, IInv, RowsSound, TERMINAL
<1>5. last # 0 /\ last \in DOMAIN permits /\ permits[last].ord = Current
    BY Shape DEF RInv, CertificateRecorded, ObservedLast, IInv, Types
<1> QED
    BY <1>1, <1>2, <1>3, <1>4, <1>5 DEF RInv, IInv, Types, CertificateRecorded

\* A certified fill can become a managed position if it was learnt from the permit that created
\* its order, that permit was issued once and no superseded replacement stands after it,
\* whatever crashes, lookups and replacements came before (_validate_lineage,
\* _validate_terminal_lineage).
THEOREM CertifiedFillRecordableHolds == Spec => []CertifiedFillRecordable
<1>1. RInv => CertifiedFillRecordable
  <2> SUFFICES ASSUME RInv, intent = "TERMINAL", certified = Qty,
                      permits[last].kind # "CANCEL", ~CancelSuperseded,
                      Cardinality(Generations(CreationKind(Current), Current)) = 1
               PROVE  Recordable
    BY DEF CertifiedFillRecordable
  <2> DEFINE G == Generations(CreationKind(Current), Current)
  <2>1. /\ attempts # <<>> /\ Newest \in Rows /\ Newest = Len(attempts) - 1 /\ Newest \in Int
        /\ Current \in Rows /\ Current \in {Newest - 1, Newest} /\ Current \in Int
        /\ Row(Current).st \in TERMINAL /\ StateMatchesFill(Row(Current).st, Row(Current).fill, Qty)
        /\ last # 0 /\ last \in DOMAIN permits /\ permits[last].ord = Current
        /\ Row(Current).fill = Qty
        /\ \A o \in Rows : o < Current => Row(o).fill = 0
    BY CertificateIs
  <2>2. Row(Current).st = "FILLED"
    <3>1. Qty \in Nat /\ Qty # 0
      BY BrokerExecutionAssumption
    <3> QED
      BY <2>1, <3>1 DEF StateMatchesFill, TERMINAL, ZERO_FILL
  <2>3. /\ \A p \in DOMAIN permits : p \in G <=> Creating(p, Current)
        /\ G \subseteq DOMAIN permits /\ G # {}
    BY <2>1, CreationIs DEF RInv, IInv, Generations
  <2>4. DOMAIN permits = 1..Len(permits) /\ Len(permits) \in Nat /\ IsFiniteSet(G) /\ G \in SUBSET Nat
    <3>1. DOMAIN permits = 1..Len(permits) /\ Len(permits) \in Nat
      BY Shape DEF RInv, IInv
    <3>2. \A n \in Nat : IsFiniteSet(1..n)
      <4> SUFFICES ASSUME NEW n \in Nat PROVE IsFiniteSet(1..n)
        OBVIOUS
      <4>1. 1 \in Int /\ n \in Int
        OBVIOUS
      <4> QED
        BY <4>1, FS_Interval
    <3>3. IsFiniteSet(1..Len(permits))
      BY <3>1, <3>2
    <3> QED
      BY <2>3, <3>1, <3>3, FS_Subset
  <2>5. permits[last].kind # "CANCEL" => last \in G /\ permits[last].st = "CONSUMED"
    BY <2>1, <2>3 DEF Creating, Creates, RInv, ObservationSettles
  <2>6. CancelSuperseded <=> Current # Newest
    BY <2>1 DEF CancelSuperseded
  <2>7. CertifiedAttempts = Rows <=> Current = Newest
    <3>1. CASE Current = Newest
      BY <2>1, <3>1 DEF CertifiedAttempts, Rows
    <3>2. CASE Current # Newest
      BY <2>1, <3>2 DEF CertifiedAttempts, Rows
    <3> QED
      BY <3>1, <3>2
  <2>8. InsertedUnder(Current) = Min(G)
    BY DEF InsertedUnder
  <2>9. Cardinality(G) = 1
    BY DEF G
  <2> HIDE DEF G
  <2>10. G = {last}
    <3> SUFFICES ASSUME NEW q \in G, q # last PROVE FALSE
      BY <2>5
    <3>1. Cardinality(G) > 1
      BY <2>4, <2>5, TwoOrMore
    <3> QED
      BY <2>9, <3>1
  <2>11. Min(G) = last
    BY <2>1, <2>4, <2>10, MinOfOne
  <2>12. Current = Newest
    BY <2>6
  <2>13. AttemptLineage
    <3>1. \A o \in Rows \ {Newest} : o < Newest
      BY <2>1 DEF Rows
    <3> QED
      BY <2>1, <2>2, <2>7, <2>12, <3>1 DEF AttemptLineage
  <2>14. FinalizationAuthority
    BY <2>1, <2>5, <2>8, <2>11, <2>12 DEF FinalizationAuthority
  <2> QED
    BY <2>13, <2>14 DEF Recordable
<1> QED
    BY <1>1, RecordInvariant, PTL

-----------------------------------------------------------------------------
(* What is told of the order *)

Pick(s) == CHOOSE x \in s : TRUE

\* g adds up the fills of the subsets of S, an order at a time.
Adds(g, book, S) ==
    g = [s \in SUBSET S |-> IF s = {} THEN 0 ELSE book[Pick(s)].fill + g[s \ {Pick(s)}]]

\* Of a set of sizes of subsets there is a least one.
LEMMA LeastNumber ==
    ASSUME NEW T \in SUBSET Nat, T # {} PROVE \E n \in T : \A m \in T : n <= m
BY MinIs

\* Such a function exists for every finite set.
LEMMA AddsExists ==
    ASSUME NEW S, IsFiniteSet(S), NEW book
    PROVE  \E g : Adds(g, book, S)
<1> DEFINE D(n) == {s \in SUBSET S : Cardinality(s) < n}
           Part(g, s) == IF s = {} THEN 0 ELSE book[Pick(s)].fill + g[s \ {Pick(s)}]
           OK(n) == \E g : g = [s \in D(n) |-> Part(g, s)]
           Bad == {n \in Nat : ~OK(n)}
<1>1. \A s \in SUBSET S : IsFiniteSet(s) /\ Cardinality(s) \in Nat /\ Cardinality(s) <= Cardinality(S)
    BY FS_Subset, FS_CardinalityType
<1>2. \A s \in SUBSET S : s # {} => /\ Pick(s) \in s /\ s \ {Pick(s)} \in SUBSET S
                                   /\ Cardinality(s \ {Pick(s)}) = Cardinality(s) - 1
    BY <1>1, FS_RemoveElement DEF Pick
<1>3. \A n \in Nat : OK(n)
  <2> SUFFICES ASSUME Bad # {} PROVE FALSE
    OBVIOUS
  <2>1. PICK n \in Bad : \A m \in Bad : n <= m
    <3> Bad \in SUBSET Nat
      OBVIOUS
    <3> HIDE DEF Bad
    <3> QED
      BY LeastNumber
  <2>2. CASE n = 0
    <3>1. D(n) = {}
      BY <1>1, <2>2
    <3>2. [s \in {} |-> 0] = [s \in D(n) |-> Part([t \in {} |-> 0], s)]
      BY <3>1
    <3> QED
      BY <3>2
  <2>3. CASE n # 0
    <3>1. n - 1 \in Nat /\ n - 1 \notin Bad
      <4>1. n \in Nat
        OBVIOUS
      <4> HIDE DEF Bad
      <4> QED
        BY <2>1, <2>3, <4>1
    <3>2. PICK g : g = [s \in D(n - 1) |-> Part(g, s)]
      BY <3>1
    <3> DEFINE h == [s \in D(n) |-> Part(g, s)]
    <3>3. ASSUME NEW s \in D(n) PROVE h[s] = Part(h, s)
      <4>1. h[s] = Part(g, s)
        OBVIOUS
      <4>2. CASE s = {}
        BY <4>1, <4>2
      <4>3. CASE s # {}
        <5> DEFINE t == s \ {Pick(s)}
        <5>1. t \in D(n - 1) /\ t \in D(n)
          BY <1>1, <1>2, <3>1, <4>3
        <5>2. g[t] = Part(g, t) /\ h[t] = Part(g, t)
          <6> HIDE DEF D, Part, t
          <6> QED
            BY <3>2, <5>1
        <5> QED
          BY <4>1, <4>3, <5>2
      <4> QED
        BY <4>2, <4>3
    <3>4. h = [s \in D(n) |-> Part(h, s)]
      <4> HIDE DEF Part, D
      <4>1. h = [s \in D(n) |-> h[s]]
        OBVIOUS
      <4> HIDE DEF h
      <4> QED
        BY <3>3, <4>1
    <3>5. OK(n)
      <4> HIDE DEF h, Part, D
      <4> QED
        BY <3>4
    <3> QED
      BY <3>5
  <2> QED
    BY <2>2, <2>3
<1>4. Cardinality(S) + 1 \in Nat /\ D(Cardinality(S) + 1) = SUBSET S
    BY <1>1
<1>5. PICK g : g = [s \in D(Cardinality(S) + 1) |-> Part(g, s)]
    BY <1>3, <1>4
<1>6. g = [s \in SUBSET S |-> Part(g, s)]
    <2> HIDE DEF D, Part
    <2> QED
      BY <1>4, <1>5
<1> QED
    BY <1>6 DEF Adds

\* A sum is no less than any of its parts.
LEMMA PartsAreLess ==
    ASSUME NEW S, IsFiniteSet(S), NEW book, \A x \in S : book[x].fill \in Nat, NEW g, Adds(g, book, S)
    PROVE  g[S] \in Nat /\ \A x \in S : book[x].fill <= g[S]
<1> DEFINE Good(s) == g[s] \in Nat /\ \A x \in s : book[x].fill <= g[s]
           Sizes == {n \in Nat : \E s \in SUBSET S : ~Good(s) /\ Cardinality(s) = n}
<1>1. \A s \in SUBSET S : IsFiniteSet(s) /\ Cardinality(s) \in Nat
    BY FS_Subset, FS_CardinalityType
<1>2. Sizes = {}
  <2> SUFFICES ASSUME Sizes # {} PROVE FALSE
    OBVIOUS
  <2>1. PICK n \in Sizes : \A m \in Sizes : n <= m
    <3> Sizes \in SUBSET Nat
      OBVIOUS
    <3> HIDE DEF Sizes
    <3> QED
      BY LeastNumber
  <2>2. PICK s \in SUBSET S : ~Good(s) /\ Cardinality(s) = n
    BY <2>1
  <2>3. g[s] = IF s = {} THEN 0 ELSE book[Pick(s)].fill + g[s \ {Pick(s)}]
    BY DEF Adds
  <2>4. s # {}
    BY <2>2, <2>3
  <2> DEFINE y == Pick(s)
             t == s \ {y}
  <2>5. y \in s
    BY <2>4 DEF Pick
  <2>6. t \in SUBSET S /\ Cardinality(t) = n - 1 /\ Cardinality(t) \in Nat /\ n \in Nat
    BY <1>1, <2>2, <2>5, FS_RemoveElement
  <2>7. Good(t)
    <3> SUFFICES ASSUME ~Good(t) PROVE FALSE
      OBVIOUS
    <3>1. n - 1 \in Sizes
      <4> HIDE DEF Good, t
      <4> QED
        BY <2>6
    <3> QED
      BY <2>1, <2>6, <3>1
  <2>8. g[s] = book[y].fill + g[t] /\ book[y].fill \in Nat /\ g[t] \in Nat
    BY <2>3, <2>4, <2>5, <2>7
  <2>9. ASSUME NEW x \in s PROVE book[x].fill <= g[s]
    <3>1. book[x].fill \in Nat
      OBVIOUS
    <3>2. CASE x = y
      <4> HIDE DEF y, t
      <4> QED
        BY <2>8, <3>2
    <3>3. CASE x # y
      <4>1. book[x].fill <= g[t]
        BY <2>7, <3>3
      <4> HIDE DEF y, t
      <4> QED
        BY <2>8, <3>1, <4>1
    <3> QED
      BY <3>2, <3>3
  <2>10. g[s] \in Nat
    <3> HIDE DEF y, t
    <3> QED
      BY <2>8
  <2> QED
    BY <2>2, <2>9, <2>10
<1>3. Good(S)
  <2>1. Cardinality(S) \in Nat /\ S \in SUBSET S
    BY <1>1
  <2> HIDE DEF Good
  <2> QED
    BY <1>2, <2>1
<1> QED
    BY <1>3

\* An order that has filled is held.
LEMMA FilledIsHeld ==
    ASSUME Types PROVE \A o \in Ordinals : orders[o].fill > 0 => Held > 0
<1>1. IsFiniteSet(Ordinals) /\ Qty \in Nat
    BY BrokerExecutionAssumption, FS_Interval DEF Ordinals
<1>2. \A o \in Ordinals : orders[o].fill \in Nat
    BY <1>1 DEF Types, BrokerOrder
<1> DEFINE g == CHOOSE g : Adds(g, orders, Ordinals)
<1>3. Adds(g, orders, Ordinals)
    BY <1>1, AddsExists
<1>4. Held = g[Ordinals]
    BY DEF Held, HeldIn, MapThenSumSet, MapThenFoldSet, Adds, Pick
<1> HIDE DEF g
<1>5. g[Ordinals] \in Nat /\ \A o \in Ordinals : orders[o].fill <= g[Ordinals]
    BY <1>1, <1>2, <1>3, PartsAreLess
<1> QED
    BY <1>2, <1>4, <1>5

Stories == {"PERMANENTLY_UNSAFE", "ORDER_ACTIVITY_NOT_RECORDED", "PARTIAL_FILL_UNRECONCILED", "INCOMPLETE",
            "ORDER_LOOKUP_ONLY", "ORDER_WORKING"}

\* An order that was observed is at the broker; one whose only attempt waits to be sent is not.
LEMMA ActivityIsTrue ==
    ASSUME IInv, attempts # <<>>
    PROVE  /\ Row(Newest).st # "PREPARED" => orders[Newest].st # "NONE"
           /\ Newest = 0 /\ Row(0).st = "PREPARED" /\ ~Unanswered => \A o \in Ordinals : orders[o].st = "NONE"
<1>1. Newest \in Rows /\ Newest \in Int /\ Newest = Len(attempts) - 1
    BY Shape DEF IInv, Newest
<1>2. Row(Newest).st # "PREPARED" => orders[Newest].st # "NONE"
    BY <1>1 DEF IInv, RowsSound, Follows
<1>3. ASSUME Newest = 0, Row(0).st = "PREPARED", ~Unanswered PROVE \A o \in Ordinals : orders[o].st = "NONE"
  <2>1. Rows = {0}
    <3>1. Len(attempts) - 1 = 0
      BY <1>1, <1>3
    <3>2. \A o : o \in 0..0 <=> o = 0
      OBVIOUS
    <3> QED
      BY <3>1, <3>2 DEF Rows
  <2>2. PICK p \in DOMAIN permits : Creating(p, 0) /\ permits[p].st # "EXPIRED"
    <3>1. ~GivenUp(0)
      BY <2>1 DEF IInv, CancelsSound
    <3> QED
      BY <3>1 DEF GivenUp
  <2>3. permits[p].st \in PermitStates /\ permits[p].st # "CONSUMED"
    BY <1>3, <2>2, Shape DEF IInv, PermitsSound, Creating, Permit
  <2>4. permits[p].st = "PREPARED"
    BY <1>3, <2>2, <2>3 DEF PermitStates, Unanswered
  <2>5. orders[0].st = "NONE"
    BY <2>2, <2>4 DEF IInv, OrdersSound, Creating
  <2> QED
    BY <2>1, <2>5 DEF IInv, OrdersSound
<1> QED
    BY <1>2, <1>3

\* Before the certificate: an order that is told is at the broker, a part that is told is
\* held, and an order that is told as closed is.
LEMMA UnterminatedIsTrue ==
    ASSUME IInv, AttemptsValid
    PROVE  /\ UnterminatedStory \in Stories
           /\ UnterminatedStory = "PERMANENTLY_UNSAFE" => locked
           /\ UnterminatedStory = "ORDER_ACTIVITY_NOT_RECORDED" =>
                 \/ \A o \in Ordinals : orders[o].st = "NONE"
                 \/ Unanswered
                 \/ Len(attempts) >= 2 /\ Row(Len(attempts) - 1).st = "PREPARED"
           /\ UnterminatedStory \in {"ORDER_WORKING", "ORDER_LOOKUP_ONLY"} =>
                 orders[Len(attempts) - 1].st # "NONE" /\ \A o \in Rows : Row(o).fill = 0
           /\ UnterminatedStory = "PARTIAL_FILL_UNRECONCILED" => Held > 0
           /\ UnterminatedStory = "INCOMPLETE" => Row(Len(attempts) - 1).st \in TERMINAL
<1> DEFINE told == Row(ToldAttempt)
<1>0. attempts # <<>> => /\ ToldAttempt \in Rows /\ ToldAttempt \in Ordinals /\ told \in AttemptRow
                         /\ ToldAttempt = Newest /\ Newest = Len(attempts) - 1 /\ Len(attempts) \in Nat
    BY Shape DEF IInv, ToldAttempt, Newest
<1>1. UnterminatedStory \in Stories
    BY DEF UnterminatedStory, Stories
<1>2. UnterminatedStory = "INCOMPLETE" => Row(Len(attempts) - 1).st \in TERMINAL
    BY DEF UnterminatedStory, ToldAttempt
<1>3. ASSUME UnterminatedStory = "PARTIAL_FILL_UNRECONCILED" PROVE Held > 0
  <2>1. attempts # <<>> /\ told.st # "PREPARED" /\ told.fill > 0
    BY <1>3 DEF UnterminatedStory
  <2>3. told.fill <= orders[ToldAttempt].fill /\ orders[ToldAttempt] \in BrokerOrder
    BY <1>0, <2>1 DEF IInv, RowsSound, Follows, Types
  <2>4. orders[ToldAttempt].fill > 0
    BY <1>0, <2>1, <2>3, BrokerExecutionAssumption DEF AttemptRow, BrokerOrder
  <2> QED
    BY <1>0, <2>1, <2>4, FilledIsHeld DEF IInv
<1>4. UnterminatedStory = "PERMANENTLY_UNSAFE" => locked
    BY DEF UnterminatedStory
<1>5. ASSUME UnterminatedStory = "ORDER_ACTIVITY_NOT_RECORDED"
      PROVE  \/ \A o \in Ordinals : orders[o].st = "NONE"
             \/ Unanswered
             \/ Len(attempts) >= 2 /\ Row(Len(attempts) - 1).st = "PREPARED"
  <2>1. CASE attempts = <<>>
    <3>1. Rows = {}
      BY <2>1 DEF Rows
    <3> QED
      BY <3>1 DEF IInv, OrdersSound
  <2>2. CASE attempts # <<>>
    <3>1. told.st = "PREPARED"
      BY <1>5, <2>2 DEF UnterminatedStory
    <3>2. CASE Newest = 0
      BY <1>0, <2>2, <3>1, <3>2, ActivityIsTrue
    <3>3. CASE Newest # 0
      <4>1. Newest \in 0..(Len(attempts) - 1)
        BY <1>0, <2>2 DEF Rows
      <4> QED
        BY <1>0, <2>2, <3>1, <3>3, <4>1
    <3> QED
      BY <3>2, <3>3
  <2> QED
    BY <2>1, <2>2
<1>6. ASSUME UnterminatedStory \in {"ORDER_WORKING", "ORDER_LOOKUP_ONLY"}
      PROVE  orders[Len(attempts) - 1].st # "NONE" /\ \A o \in Rows : Row(o).fill = 0
  <2>1. /\ attempts # <<>> /\ told.st # "PREPARED" /\ ~(0 < told.fill /\ told.fill < Qty)
        /\ told.st \notin TERMINAL
    BY <1>6 DEF UnterminatedStory
  <2>2. orders[Newest].st # "NONE"
    BY <1>0, <2>1, ActivityIsTrue
  <2>3. told.fill = 0
    <3>1. StateMatchesFill(told.st, told.fill, Qty) /\ told.fill \in 0..Qty /\ Qty \in Nat
      BY <1>0, <2>1, BrokerExecutionAssumption DEF IInv, RowsSound, StateMatchesFill
    <3>2. told.st \in (Live \cup {"PENDING_NEW"})
      BY <1>0, <2>1, <2>2 DEF AttemptRow, BrokerStates
    <3>3. told.fill # Qty \/ Qty = 0
      BY <3>1, <3>2 DEF StateMatchesFill, Live, ZERO_FILL
    <3> QED
      BY <2>1, <3>1, <3>3, BrokerExecutionAssumption
  <2>4. ASSUME NEW o \in Rows PROVE Row(o).fill = 0
    <3>1. o = Newest \/ o < Len(attempts) - 1
      BY <1>0, <2>1 DEF Rows
    <3> QED
      BY <1>0, <2>1, <2>3, <3>1 DEF AttemptsValid
  <2> QED
    BY <1>0, <2>1, <2>2, <2>4
<1> QED
    BY <1>1, <1>2, <1>3, <1>4, <1>5, <1>6

\* A certificate is one the story accepts, unless a replacement that was superseded is taken
\* for the last attempt.
LEMMA CertificateIsValid ==
    ASSUME RInv, intent = "TERMINAL", ~CancelSuperseded
    PROVE  CertificateValid
<1>1. /\ attempts # <<>> /\ Newest \in Rows /\ Newest = Len(attempts) - 1 /\ Newest \in Int
      /\ Current \in {Newest - 1, Newest} /\ Current \in Int
      /\ Row(Current).st \in TERMINAL /\ StateMatchesFill(Row(Current).st, Row(Current).fill, Qty)
      /\ certified = Row(Current).fill /\ certified \in 0..Qty
    BY CertificateIs
<1>2. Current = Newest
    BY <1>1 DEF CancelSuperseded
<1>3. CertifiedAttempts = Rows
    BY <1>1, <1>2 DEF CertifiedAttempts, Rows
<1>4. Qty \in Nat /\ Qty # 0
    BY BrokerExecutionAssumption
<1> DEFINE st == Row(Newest).st
<1>5. CASE certified = Qty
  <2>1. CertificateStatus = "FILLED" /\ st = "FILLED" /\ Row(Newest).fill = Qty
    BY <1>1, <1>2, <1>4, <1>5 DEF CertificateStatus, StateMatchesFill, TERMINAL, ZERO_FILL
  <2> QED
    BY <1>1, <1>3, <2>1 DEF CertificateValid
<1>6. CASE certified = 0
  <2>1. CertificateStatus = "ZERO_FILL"
    BY <1>4, <1>6 DEF CertificateStatus
  <2>2. st \in TERMINAL \ {"FILLED"} /\ Row(Newest).fill = 0
    BY <1>1, <1>2, <1>4, <1>6 DEF StateMatchesFill
  <2> QED
    BY <1>1, <1>3, <2>1, <2>2 DEF CertificateValid
<1>7. CASE certified # Qty /\ certified # 0
  <2>1. CertificateStatus = "PARTIAL"
    BY <1>7 DEF CertificateStatus
  <2>2. st \in {"CANCELED", "EXPIRED", "REPLACED"} /\ 0 < Row(Newest).fill /\ Row(Newest).fill < Qty
    <3>1. 0 < Row(Newest).fill /\ Row(Newest).fill < Qty /\ Row(Newest).fill # 0
      BY <1>1, <1>2, <1>4, <1>7
    <3>2. st \in {"CANCELED", "EXPIRED", "REPLACED"}
      BY <1>1, <1>2, <3>1 DEF StateMatchesFill, TERMINAL, ZERO_FILL
    <3> QED
      BY <3>1, <3>2
  <2> QED
    BY <1>1, <1>3, <2>1, <2>2 DEF CertificateValid
<1> QED
    BY <1>5, <1>6, <1>7

\* An attempt that counts against the story is one that filled and has a successor.
LEMMA AttemptsAreValid ==
    ASSUME IInv, ~AttemptsValid PROVE \E o \in 0..(Len(attempts) - 2) : Row(o).fill > 0
<1>1. PICK o \in Rows : ~(/\ o < Len(attempts) - 1 => Row(o).fill = 0
                          /\ \/ Row(o).st = "PREPARED" /\ Row(o).fill = 0
                             \/ StateMatchesFill(Row(o).st, Row(o).fill, Qty))
    BY DEF AttemptsValid
<1>2. \/ Row(o).st = "PREPARED" /\ Row(o).fill = 0
      \/ StateMatchesFill(Row(o).st, Row(o).fill, Qty)
    BY DEF IInv, RowsSound
<1>3. o < Len(attempts) - 1 /\ Row(o).fill # 0
    BY <1>1, <1>2
<1>4. Row(o) \in AttemptRow /\ o \in Int /\ Len(attempts) \in Nat /\ Qty \in Nat
    BY Shape, BrokerExecutionAssumption DEF IInv
<1>5. Row(o).fill > 0
    BY <1>3, <1>4 DEF AttemptRow
<1>6. o \in 0..(Len(attempts) - 2)
    BY <1>3, <1>4 DEF Rows
<1> QED
    BY <1>5, <1>6

\* Every answer of the submission story is true of the broker, but for the order it takes for
\* not recorded while a replacement of it is prepared; and what it cannot tell is one of the
\* named cases (_entry_story, _unterminated_entry_story, _terminal_entry_story).
THEOREM StoryIsTrueHolds == Spec => []StoryIsTrue
<1>1. RInv => StoryIsTrue
  <2> SUFFICES ASSUME RInv PROVE StoryIsTrue
    OBVIOUS
  <2>1. CASE ~AttemptsValid
    <3>1. OrderStory = "INVALID"
      BY <2>1 DEF OrderStory
    <3> QED
      BY <2>1, <3>1, AttemptsAreValid DEF StoryIsTrue, RInv
  <2>2. CASE AttemptsValid /\ intent # "TERMINAL"
    <3>1. OrderStory = UnterminatedStory
      BY <2>2 DEF OrderStory
    <3> DEFINE story == OrderStory
    <3>2. story \in Stories
      BY <2>2, <3>1, UnterminatedIsTrue DEF RInv
    <3>3. CASE story = "ORDER_ACTIVITY_NOT_RECORDED"
      BY <2>2, <3>1, <3>3, UnterminatedIsTrue DEF StoryIsTrue, RInv
    <3>4. CASE story \in {"ORDER_WORKING", "ORDER_LOOKUP_ONLY"}
      BY <2>2, <3>1, <3>4, UnterminatedIsTrue DEF StoryIsTrue, RInv
    <3>5. CASE story \in {"PERMANENTLY_UNSAFE", "PARTIAL_FILL_UNRECONCILED", "INCOMPLETE"}
      BY <2>2, <3>1, <3>5, UnterminatedIsTrue DEF StoryIsTrue, RInv
    <3> QED
      BY <3>2, <3>3, <3>4, <3>5 DEF Stories
  <2>3. CASE AttemptsValid /\ intent = "TERMINAL" /\ ~CertificateValid
    <3>1. OrderStory = "INVALID"
      BY <2>3 DEF OrderStory
    <3> QED
      BY <2>3, <3>1, CertificateIsValid DEF StoryIsTrue
  <2>4. CASE AttemptsValid /\ intent = "TERMINAL" /\ CertificateValid
    <3>1. /\ certified = Held /\ OpenOrders = {} /\ certified \in 0..Qty /\ Qty \in Nat
          /\ 0 < certified /\ certified < Qty => locked
      BY <2>4, CertificateIs, BrokerExecutionAssumption
    <3>2. CASE certified = Qty
      <4>1. TerminalStory = "FILLED"
        BY <3>2, BrokerExecutionAssumption DEF TerminalStory, CertificateStatus
      <4>2. Recordable => ExecutionSummaryValid
        BY DEF Recordable, FinalizationAuthority, ExecutionSummaryValid
      <4>3. \/ OrderStory = "INCOMPLETE" /\ ~Recordable
            \/ OrderStory = "FILLED"
        BY <2>4, <4>1, <4>2 DEF OrderStory
      <4> QED
        BY <2>4, <3>1, <3>2, <4>3 DEF StoryIsTrue
    <3>3. CASE certified = 0 /\ certified # Qty
      <4>1. TerminalStory = "ENTRY_ENDED_UNFILLED"
        BY <3>3 DEF TerminalStory, CertificateStatus
      <4>2. OrderStory = "ENTRY_ENDED_UNFILLED"
        BY <2>4, <4>1 DEF OrderStory
      <4> QED
        BY <3>1, <3>3, <4>2 DEF StoryIsTrue
    <3>4. CASE certified # 0 /\ certified # Qty
      <4>1. locked /\ certified > 0
        BY <3>1, <3>4
      <4>2. TerminalStory = "PARTIAL_FILL_RECONCILED_UNSAFE"
        BY <3>4, <4>1 DEF TerminalStory, CertificateStatus
      <4>3. OrderStory = "PARTIAL_FILL_RECONCILED_UNSAFE"
        BY <2>4, <4>2 DEF OrderStory
      <4> QED
        BY <3>1, <4>1, <4>3 DEF StoryIsTrue
    <3> QED
      BY <3>2, <3>3, <3>4
  <2> QED
    BY <2>1, <2>2, <2>3, <2>4
<1> QED
    BY <1>1, RecordInvariant, PTL
=============================================================================
