-------------------------- MODULE AccountSweepProofs --------------------------
(***************************************************************************)
(* Proofs about AccountSweep for any quantity, price and tolerance, any     *)
(* number of orders, fees and events that nobody here caused.               *)
(*                                                                         *)
(* IInv relates the three parties. Between the first and the second reading *)
(* contracts only come or only go and an order only fills and closes        *)
(* (ReadingsInOrder): equal readings at both ends therefore fix what was    *)
(* in between. The rows stand to the newest order as their status says      *)
(* (OrderSound), and the activities to the order (FillsSound): a single     *)
(* execution is two activities of the whole quantity, while each of several *)
(* executions is less than what the row was observed with, so that the      *)
(* verdict cannot take a part for the whole. This is what makes the books   *)
(* (BooksOK) inductive.                                                     *)
(*                                                                         *)
(* The latch needs CInv as well: cash and positions of the state row        *)
(* (CashSound), and, as long as nothing has disturbed the account, a broker *)
(* that is where the rows expect it (Calm) and a sweep that read what still *)
(* is (CalmSweep). Then every verdict but "not yet" is to accept.           *)
(***************************************************************************)
EXTENDS AccountSweep, FiniteSetTheorems, SequenceTheorems, WellFoundedInduction, TLAPS

-----------------------------------------------------------------------------
(* Types *)

ActivityTypes == {"INITIAL_FUNDING", "FILL", "FEE", "OPASN", "JOURNAL"}
Activity == [type : ActivityTypes, order : Nat, leg : 0..2, qty : Int, shown : BOOLEAN]
Positions == [held : Int, stock : BOOLEAN]
BrokerOrder == [open : BOOLEAN, fill : Nat, side : {1, -1}, executions : Nat]
StateRow == [cash : Int, held : Int, known : SUBSET Nat, resolved : SUBSET Nat]
AttemptRow == [st : {"NONE", "SENT", "OPEN", "CLOSED"}, fill : Nat]

Types ==
    /\ account \in [cash : Int, blocked : BOOLEAN]
    /\ positions \in Positions
    /\ order \in BrokerOrder
    /\ acts \in Seq(Activity)
    /\ mature \in BOOLEAN /\ latched \in BOOLEAN /\ disturbed \in BOOLEAN
    /\ head \in StateRow \cup {None}
    /\ row \in AttemptRow
    /\ finished \in Nat

\* The fields a sweep has when it is about to make a request.
Begun == {"pc", "purpose", "account", "until", "mature", "stable"}
Fields(pc) ==
    CASE pc = "idle" -> {"pc"}
      [] pc = "positions" -> Begun
      [] pc = "orders" -> Begun \cup {"positions"}
      [] pc = "activities" -> Begun \cup {"positions", "orders"}
      [] pc = "account2" -> Begun \cup {"positions", "orders", "seen"}
      [] pc \in {"positions2", "orders2"} ->
             Begun \cup {"positions", "orders", "seen", "together", "moment"}
      [] pc = "judge" ->
             Begun \cup {"positions", "orders", "seen", "together", "moment", "slow", "sameDay"}
Stages == {"idle", "positions", "orders", "activities", "account2", "positions2", "orders2", "judge"}

SweepShape ==
    /\ sweep.pc \in Stages
    /\ DOMAIN sweep = Fields(sweep.pc)
    /\ sweep.pc # "idle" =>
           /\ sweep.purpose \in Purposes
           /\ sweep.until \in Nat /\ sweep.stable \in BOOLEAN /\ sweep.mature \in BOOLEAN
           /\ sweep.purpose = "BASELINE_INITIALIZATION" => head = None
           /\ sweep.purpose \in {"SUBMIT", "REVIEW"} => head # None /\ row.st = "NONE"
           /\ sweep.purpose = "CANCEL" => row.st = "OPEN"
           /\ sweep.purpose = "FINAL" => row.st = "CLOSED"

-----------------------------------------------------------------------------
(* The readings of a sweep *)

\* q was read after p: contracts only came or only went.
Onward(p, q) ==
    /\ p \in Positions /\ q \in Positions
    /\ IF order.side = 1 THEN p.held <= q.held ELSE q.held <= p.held
    /\ p.stock => q.stock

OpenAt(f) == {[n |-> finished + 1, fill |-> f]}
Later(o, q) ==
    \/ o = {} /\ q = {}
    \/ \E f \in 0 .. Qty : o = OpenAt(f) /\ (q = {} \/ \E g \in 0 .. Qty : f <= g /\ q = OpenAt(g))

AtMoment == [held |-> sweep.moment.held, stock |-> sweep.moment.stock]

ReadingsInOrder ==
    /\ sweep.pc \in {"orders", "activities", "account2"} => Onward(sweep.positions, positions)
    /\ sweep.pc \in {"activities", "account2"} => Later(sweep.orders, OpenOrders)
    /\ sweep.pc = "positions2" => Onward(sweep.positions, AtMoment) /\ Onward(AtMoment, positions)
    /\ sweep.pc \in {"positions2", "orders2"} =>
           Later(sweep.orders, sweep.moment.orders) /\ Later(sweep.moment.orders, OpenOrders)
    /\ sweep.pc \in {"positions2", "orders2", "judge"} => sweep.moment.cash = sweep.account.cash
    /\ sweep.pc \in {"orders2", "judge"} /\ sweep.stable => sweep.positions = AtMoment
    /\ sweep.pc = "judge" /\ sweep.stable => sweep.orders = sweep.moment.orders

-----------------------------------------------------------------------------
(* The rows and the orders they are about *)

Working == row.st \in {"OPEN", "CLOSED"}

OrderSound ==
    /\ order.fill <= Qty /\ (order.open => order.fill < Qty)
    /\ order.executions = 0 <=> order.fill = 0
    /\ row.st \in {"NONE", "SENT"} => row.fill = 0 /\ order = NoOrder
    /\ row.st # "NONE" => head # None
    /\ Working => order.side = Side
    /\ row.st = "OPEN" => row.fill <= order.fill
    /\ row.st = "CLOSED" => row.fill = order.fill /\ ~order.open
    /\ head = None => finished = 0

\* The fills of the order that is not finished.
Current == FillsOf(finished + 1)

FillsSound ==
    /\ 1 \in DOMAIN acts /\ \A i \in DOMAIN acts : acts[i].type = "INITIAL_FUNDING" <=> i = 1
    /\ \A i \in DOMAIN acts : acts[i].type = "FILL" => acts[i].order \in 1 .. finished + 1 /\ acts[i].leg \in Legs
    /\ order.executions = 0 => Current = {}
    /\ order.executions = 1 =>
           \E a, b \in DOMAIN acts : /\ Current = {a, b} /\ acts[a].leg = 1 /\ acts[b].leg = 2
                                     /\ acts[a].qty = order.side * order.fill
                                     /\ acts[b].qty = order.side * order.fill
    /\ \A i \in Current : IF order.executions = 1 THEN order.side * acts[i].qty <= order.fill
                                                  ELSE order.side * acts[i].qty < order.fill

SeenSound ==
    sweep.pc \in {"account2", "positions2", "orders2", "judge"} =>
        /\ \A i \in sweep.seen : i \in DOMAIN acts /\ acts[i].shown
        /\ head # None => head.known \subseteq sweep.seen

KnownSound ==
    /\ head # None => \A i \in head.known : i \in DOMAIN acts /\ acts[i].shown
    /\ head # None /\ sweep.pc # "idle" => \A i \in head.known : i <= sweep.until

-----------------------------------------------------------------------------
(* Sums over finite sets                              *)

LEMMA LeastNumber ==
    ASSUME NEW T \in SUBSET Nat, T # {}
    PROVE  \E n \in T : \A m \in T : n <= m
<1>1. PICK n \in T : \A m \in T : <<m, n>> \notin OpToRel(<, Nat)
    BY NatLessThanWellFounded, WFMin
<1>2. ASSUME NEW m \in T PROVE n <= m
  <2>1. m \in Nat /\ n \in Nat
    OBVIOUS
  <2>2. <<m, n>> \in Nat \X Nat /\ <<m, n>>[1] = m /\ <<m, n>>[2] = n
    BY <2>1
  <2>3. ~(m < n)
    BY <1>1, <2>2 DEF OpToRel
  <2> QED
    BY <2>1, <2>3
<1> QED
    BY <1>2

Pick(s) == CHOOSE x \in s : TRUE

\* g adds up the quantities of the subsets of S, an element at a time.
Adds(g, A, S) ==
    g = [s \in SUBSET S |-> IF s = {} THEN 0 ELSE A[Pick(s)].qty + g[s \ {Pick(s)}]]

\* Induction over the subsets of a finite set: a property given as a set of subsets.
LEMMA SubsetInduction ==
    ASSUME NEW S, IsFiniteSet(S), NEW Good,
           \A s \in SUBSET S : (\A t \in SUBSET s : t # s => t \in Good) => s \in Good
    PROVE  \A s \in SUBSET S : s \in Good
<1> SUFFICES ASSUME NEW s0 \in SUBSET S, s0 \notin Good PROVE FALSE
    OBVIOUS
<1> DEFINE T == {n \in Nat : \E s \in SUBSET S : s \notin Good /\ Cardinality(s) = n}
<1>1. \A s \in SUBSET S : IsFiniteSet(s) /\ Cardinality(s) \in Nat
    BY FS_Subset, FS_CardinalityType
<1>2. T # {}
    BY <1>1
<1>3. PICK n \in T : \A m \in T : n <= m
    BY <1>2, LeastNumber
<1>4. PICK s \in SUBSET S : s \notin Good /\ Cardinality(s) = n
    BY <1>3
<1>5. ASSUME NEW t \in SUBSET s, t # s PROVE t \in Good
  <2>1. Cardinality(t) < Cardinality(s)
    <3>1. IsFiniteSet(s) /\ Cardinality(s) \in Nat /\ Cardinality(t) \in Nat
      BY <1>1, <1>4
    <3>2. Cardinality(t) <= Cardinality(s) /\ (Cardinality(s) = Cardinality(t) => s = t)
      BY <3>1, FS_Subset
    <3> QED
      BY <1>5, <3>1, <3>2
  <2>2. t \in SUBSET S /\ Cardinality(t) \in Nat
    BY <1>1
  <2> QED
    BY <1>3, <1>4, <2>1, <2>2
<1> QED
    BY <1>4, <1>5

\* Such a function exists for every finite set.
LEMMA AddsExists ==
    ASSUME NEW S, IsFiniteSet(S), NEW A
    PROVE  \E g : Adds(g, A, S)
<1> DEFINE D(n) == {s \in SUBSET S : Cardinality(s) < n}
           Step(g, s) == IF s = {} THEN 0 ELSE A[Pick(s)].qty + g[s \ {Pick(s)}]
           OK(n) == \E g : g = [s \in D(n) |-> Step(g, s)]
           Bad == {n \in Nat : ~OK(n)}
<1>1. \A s \in SUBSET S : IsFiniteSet(s) /\ Cardinality(s) \in Nat /\ Cardinality(s) <= Cardinality(S)
    BY FS_Subset, FS_CardinalityType
<1>2. \A s \in SUBSET S : s # {} => /\ Pick(s) \in s /\ s \ {Pick(s)} \in SUBSET S
                                   /\ Cardinality(s \ {Pick(s)}) = Cardinality(s) - 1
    BY <1>1, FS_RemoveElement DEF Pick
<1>3. \A n \in Nat : OK(n)
  <2> SUFFICES ASSUME Bad # {} PROVE FALSE
    OBVIOUS
  <2>1. PICK n \in Bad : \A m \in Bad : n <= m
    <3> Bad \in SUBSET Nat
      OBVIOUS
    <3> HIDE DEF Bad
    <3> QED
      BY LeastNumber
  <2>2. CASE n = 0
    <3>1. D(n) = {}
      BY <1>1, <2>2
    <3>2. [s \in {} |-> 0] = [s \in D(n) |-> Step([t \in {} |-> 0], s)]
      BY <3>1
    <3> QED
      BY <3>2
  <2>3. CASE n # 0
    <3>1. n - 1 \in Nat /\ n - 1 \notin Bad
      <4>1. n \in Nat
        OBVIOUS
      <4> HIDE DEF Bad
      <4> QED
        BY <2>1, <2>3, <4>1
    <3>2. PICK g : g = [s \in D(n - 1) |-> Step(g, s)]
      BY <3>1
    <3> DEFINE h == [s \in D(n) |-> Step(g, s)]
    <3>3. ASSUME NEW s \in D(n) PROVE h[s] = Step(h, s)
      <4>1. h[s] = Step(g, s)
        OBVIOUS
      <4>2. CASE s = {}
        BY <4>1, <4>2
      <4>3. CASE s # {}
        <5> DEFINE t == s \ {Pick(s)}
        <5>1. t \in D(n - 1) /\ t \in D(n)
          BY <1>1, <1>2, <3>1, <4>3
        <5>2. g[t] = Step(g, t) /\ h[t] = Step(g, t)
          <6> HIDE DEF D, Step, t
          <6> QED
            BY <3>2, <5>1
        <5> QED
          BY <4>1, <4>3, <5>2
      <4> QED
        BY <4>2, <4>3
    <3>4. h = [s \in D(n) |-> Step(h, s)]
      <4> HIDE DEF Step, D
      <4>1. h = [s \in D(n) |-> h[s]]
        OBVIOUS
      <4> HIDE DEF h
      <4> QED
        BY <3>3, <4>1
    <3>5. OK(n)
      <4> HIDE DEF h, Step, D
      <4> QED
        BY <3>4
    <3> QED
      BY <3>5
  <2> QED
    BY <2>2, <2>3
<1>4. Cardinality(S) + 1 \in Nat /\ D(Cardinality(S) + 1) = SUBSET S
    BY <1>1
<1>5. PICK g : g = [s \in D(Cardinality(S) + 1) |-> Step(g, s)]
    BY <1>3, <1>4
<1>6. g = [s \in SUBSET S |-> Step(g, s)]
    <2> HIDE DEF D, Step
    <2> QED
      BY <1>4, <1>5
<1> QED
    BY <1>6 DEF Adds

\* It may take any element first.
Numbers(A, S) == \A x \in S : A[x].qty \in Int
TakesAny(g, A, S) ==
    \A s \in SUBSET S : g[s] \in Int /\ \A x \in s : g[s] = A[x].qty + g[s \ {x}]

LEMMA AnyElementFirst ==
    ASSUME NEW S, IsFiniteSet(S), NEW A, Numbers(A, S), NEW g, Adds(g, A, S)
    PROVE  TakesAny(g, A, S)
<1> USE DEF Numbers
<1>1. \A s \in SUBSET S : g[s] = IF s = {} THEN 0 ELSE A[Pick(s)].qty + g[s \ {Pick(s)}]
    BY DEF Adds
<1>2. g[{}] = 0
    BY <1>1
<1>3. \A s \in SUBSET S : s # {} => Pick(s) \in s
    BY DEF Pick
<1> DEFINE Good == {s \in SUBSET S : g[s] \in Int /\ \A x \in s : g[s] = A[x].qty + g[s \ {x}]}
<1>4. ASSUME NEW s \in SUBSET S, \A t \in SUBSET s : t # s => t \in Good
      PROVE  s \in Good
  <2>1. CASE s = {}
    BY <1>2, <2>1
  <2>2. CASE s # {}
    <3> DEFINE y == Pick(s)
    <3>1. y \in s /\ A[y].qty \in Int /\ g[s] = A[y].qty + g[s \ {y}]
      BY <1>1, <1>3, <2>2
    <3> HIDE DEF y
    <3>2. \A x \in s : s \ {x} \in Good /\ g[s \ {x}] \in Int /\ A[x].qty \in Int
      BY <1>4
    <3>3. ASSUME NEW x \in s, x # y PROVE g[s] = A[x].qty + g[s \ {x}]
      <4>1. g[s \ {y}] = A[x].qty + g[(s \ {y}) \ {x}]
        BY <3>1, <3>2, <3>3
      <4>2. g[s \ {x}] = A[y].qty + g[(s \ {x}) \ {y}]
        BY <3>1, <3>2, <3>3
      <4>3. (s \ {x}) \ {y} = (s \ {y}) \ {x}
        OBVIOUS
      <4>4. (s \ {x}) \ {y} \in SUBSET s /\ (s \ {x}) \ {y} # s
        BY <3>1
      <4>5. g[(s \ {x}) \ {y}] \in Int
        BY <1>4, <4>4
      <4> DEFINE c == g[(s \ {x}) \ {y}]
      <4>6. g[s] = A[y].qty + (A[x].qty + c) /\ g[s \ {x}] = A[y].qty + c
        BY <3>1, <4>1, <4>2, <4>3
      <4>7. A[x].qty \in Int /\ A[y].qty \in Int /\ c \in Int
        BY <3>1, <3>2, <4>5
      <4> HIDE DEF c
      <4> QED
        BY <4>6, <4>7
    <3>4. g[s] \in Int
      <4>1. g[s \ {y}] \in Int
        BY <3>1, <3>2
      <4> QED
        BY <3>1, <4>1
    <3> QED
      BY <3>1, <3>3, <3>4
  <2> QED
    BY <2>1, <2>2
<1>5. \A s \in SUBSET S : s \in Good
  <2> HIDE DEF Good
  <2> QED
    BY <1>4, SubsetInduction
<1> QED
    BY <1>5 DEF TakesAny

\* Two such functions agree where both are defined.
LEMMA AddsAgree ==
    ASSUME NEW S, NEW R, IsFiniteSet(S), S \subseteq R, NEW A, NEW B,
           \A x \in S : A[x].qty = B[x].qty, NEW g, NEW h, Adds(g, A, R), Adds(h, B, S)
    PROVE  \A s \in SUBSET S : g[s] = h[s]
<1> DEFINE Good == {s \in SUBSET S : g[s] = h[s]}
<1>1. ASSUME NEW s \in SUBSET S, \A t \in SUBSET s : t # s => t \in Good
      PROVE  s \in Good
  <2>1. /\ g[s] = IF s = {} THEN 0 ELSE A[Pick(s)].qty + g[s \ {Pick(s)}]
        /\ h[s] = IF s = {} THEN 0 ELSE B[Pick(s)].qty + h[s \ {Pick(s)}]
    BY DEF Adds
  <2>2. s # {} => Pick(s) \in s
    BY DEF Pick
  <2>3. s # {} => s \ {Pick(s)} \in Good /\ A[Pick(s)].qty = B[Pick(s)].qty
    BY <1>1, <2>2
  <2> QED
    BY <2>1, <2>3
<1>2. \A s \in SUBSET S : s \in Good
  <2> HIDE DEF Good
  <2> QED
    BY <1>1, SubsetInduction
<1> QED
    BY <1>2

\* The quantities of a set of activities, and what one more activity adds to them.
SumOf(A, S) == MapThenSumSet(LAMBDA i : A[i].qty, S)

LEMMA SumIsAdded ==
    ASSUME NEW A, NEW S, IsFiniteSet(S)
    PROVE  \E g : Adds(g, A, S) /\ SumOf(A, S) = g[S]
<1> DEFINE g == CHOOSE g : Adds(g, A, S)
<1>1. Adds(g, A, S)
    BY AddsExists
<1>2. SumOf(A, S) = g[S]
    BY DEF SumOf, MapThenSumSet, MapThenFoldSet, Adds, Pick
<1> HIDE DEF g
<1> QED
    BY <1>1, <1>2

LEMMA SumOfNothing == \A A : SumOf(A, {}) = 0
<1> TAKE A
<1>1. IsFiniteSet({})
    BY FS_EmptySet
<1>2. PICK g : Adds(g, A, {}) /\ SumOf(A, {}) = g[{}]
    BY <1>1, SumIsAdded
<1> QED
    BY <1>2 DEF Adds

\* Activities of the same quantities add up to the same.
LEMMA SumSame ==
    ASSUME NEW S, IsFiniteSet(S), NEW A, NEW B, \A x \in S : A[x].qty = B[x].qty
    PROVE  SumOf(A, S) = SumOf(B, S)
<1>1. PICK g : Adds(g, A, S) /\ SumOf(A, S) = g[S]
    BY SumIsAdded
<1>2. PICK h : Adds(h, B, S) /\ SumOf(B, S) = h[S]
    BY SumIsAdded
<1> QED
    BY <1>1, <1>2, AddsAgree

LEMMA SumAdds ==
    ASSUME NEW A, NEW S, IsFiniteSet(S), NEW i, i \notin S, \A x \in S \cup {i} : A[x].qty \in Int
    PROVE  /\ SumOf(A, S) \in Int
           /\ SumOf(A, S \cup {i}) = SumOf(A, S) + A[i].qty
<1> DEFINE R == S \cup {i}
<1>1. IsFiniteSet(R)
    BY FS_AddElement
<1>2. PICK g : Adds(g, A, S) /\ SumOf(A, S) = g[S]
    BY SumIsAdded
<1>3. PICK h : Adds(h, A, R) /\ SumOf(A, R) = h[R]
    BY <1>1, SumIsAdded
<1>4. Numbers(A, R) /\ Numbers(A, S) /\ A[i].qty \in Int
    BY DEF Numbers
<1>5. g[S] \in Int
    BY <1>2, <1>4, AnyElementFirst DEF TakesAny
<1>6. h[R] = A[i].qty + h[R \ {i}]
  <2>1. TakesAny(h, A, R)
    <3> HIDE DEF R
    <3> QED
      BY <1>1, <1>3, <1>4, AnyElementFirst
  <2> QED
    BY <2>1 DEF TakesAny
<1>7. R \ {i} = S /\ h[S] = g[S]
    BY <1>1, <1>2, <1>3, AddsAgree
<1> HIDE DEF R
<1>8. SumOf(A, R) = A[i].qty + SumOf(A, S) /\ SumOf(A, S) \in Int
    BY <1>2, <1>3, <1>5, <1>6, <1>7
<1>9. SumOf(A, R) = SumOf(A, S) + A[i].qty /\ SumOf(A, S) \in Int
    BY <1>4, <1>8
<1> QED
    BY <1>9 DEF R

\* The sums of the model are these.
LEMMA SumIs == \A S : Sum(S) = SumOf(acts, S)
    BY DEF Sum, SumOf, MapThenSumSet, MapThenFoldSet


-----------------------------------------------------------------------------
(* The books *)

KnownFills == {i \in head.known : acts[i].type = "FILL"}
LegFills(leg) == {i \in KnownFills : acts[i].leg = leg}
DoneFills == {i \in DOMAIN acts : acts[i].type = "FILL" /\ acts[i].order \in 1 .. finished}

BooksOK ==
    head # None =>
        /\ KnownFills = DoneFills
        /\ \A leg \in Legs : SumOf(acts, LegFills(leg)) = head.held
        /\ head.resolved \subseteq head.known

LEMMA BooksIs == BooksOK <=> BooksExplained
<1>1. DoneFills = UNION {FillsOf(n) : n \in 1 .. finished}
    BY DEF DoneFills, FillsOf
<1>2. \A leg \in Legs : Sum({i \in KnownFills : acts[i].leg = leg}) = SumOf(acts, LegFills(leg))
    BY SumIs DEF LegFills
<1> QED
    BY <1>1, <1>2 DEF BooksOK, BooksExplained, KnownFills

IInv ==
    /\ Types /\ SweepShape /\ ReadingsInOrder /\ OrderSound
    /\ FillsSound /\ KnownSound /\ SeenSound /\ BooksOK

-----------------------------------------------------------------------------
(* The steps of a sweep *)

\* What every reading keeps of a sweep, and what it leaves alone.
KeepsPurpose ==
    /\ sweep'.purpose = sweep.purpose /\ sweep'.until = sweep.until /\ sweep'.mature = sweep.mature

LEMMA ReadAccountFacts ==
    ASSUME ReadAccount
    PROVE  /\ sweep.pc = "idle" /\ sweep'.pc = "positions" /\ DOMAIN sweep' = Fields("positions")
           /\ sweep'.purpose \in Purposes /\ MaySweep(sweep'.purpose)
           /\ sweep'.account = account /\ sweep'.until = Len(acts) /\ sweep'.mature = mature
           /\ sweep'.stable = TRUE
           /\ UNCHANGED broker /\ UNCHANGED book
           /\ disturbed' = (disturbed \/ (sweep'.purpose = "CANCEL" /\ OpenOrders # Expected("CANCEL").orders))
    BY DEF ReadAccount, Fields, Begun, Disturb

LEMMA ReadPositionsFacts ==
    ASSUME SweepShape, ReadPositions
    PROVE  /\ sweep.pc = "positions" /\ sweep'.pc = "orders" /\ DOMAIN sweep' = Fields("orders")
           /\ sweep'.positions = positions
           /\ KeepsPurpose /\ sweep'.account = sweep.account /\ sweep'.stable = sweep.stable
           /\ UNCHANGED <<broker, book, disturbed>>
<1>1. sweep.pc = "positions" /\ DOMAIN sweep = Begun
    BY DEF ReadPositions, SweepShape, Fields
<1>2. sweep' = [x \in Begun \cup {"positions"} |->
                   IF x = "pc" THEN "orders" ELSE IF x = "positions" THEN positions ELSE sweep[x]]
    BY <1>1 DEF ReadPositions, Take
<1> QED
    BY <1>1, <1>2 DEF ReadPositions, KeepsPurpose, Fields, Begun

LEMMA ReadOrdersFacts ==
    ASSUME SweepShape, ReadOrders
    PROVE  /\ sweep.pc = "orders" /\ sweep'.pc = "activities" /\ DOMAIN sweep' = Fields("activities")
           /\ sweep'.orders = OpenOrders /\ sweep'.positions = sweep.positions
           /\ KeepsPurpose /\ sweep'.account = sweep.account /\ sweep'.stable = sweep.stable
           /\ UNCHANGED <<broker, book, disturbed>>
<1>1. sweep.pc = "orders" /\ DOMAIN sweep = Begun \cup {"positions"}
    BY DEF ReadOrders, SweepShape, Fields
<1>2. sweep' = [x \in Begun \cup {"positions", "orders"} |->
                   IF x = "pc" THEN "activities" ELSE IF x = "orders" THEN OpenOrders ELSE sweep[x]]
    BY <1>1 DEF ReadOrders, Take
<1> QED
    BY <1>1, <1>2 DEF ReadOrders, KeepsPurpose, Fields, Begun

LEMMA ReadActivitiesFacts ==
    ASSUME SweepShape, ReadActivities
    PROVE  /\ sweep.pc = "activities" /\ sweep'.pc = "account2" /\ DOMAIN sweep' = Fields("account2")
           /\ sweep'.seen = {i \in DOMAIN acts : InWindow(i)}
           /\ sweep'.orders = sweep.orders /\ sweep'.positions = sweep.positions
           /\ KeepsPurpose /\ sweep'.account = sweep.account /\ sweep'.stable = sweep.stable
           /\ UNCHANGED broker /\ UNCHANGED book
           /\ disturbed' = (disturbed \/ (Sweeping /\ OneLegShows(sweep'.seen)))
<1> DEFINE seen == {i \in DOMAIN acts : InWindow(i)}
<1>1. sweep.pc = "activities" /\ DOMAIN sweep = Begun \cup {"positions", "orders"}
    BY DEF ReadActivities, SweepShape, Fields
<1>2. sweep' = [x \in Begun \cup {"positions", "orders", "seen"} |->
                   IF x = "pc" THEN "account2" ELSE IF x = "seen" THEN seen ELSE sweep[x]]
    BY <1>1 DEF ReadActivities, Take
<1>3. UNCHANGED broker /\ UNCHANGED book /\ disturbed' = (disturbed \/ (Sweeping /\ OneLegShows(seen)))
    BY DEF ReadActivities, Disturb
<1> HIDE DEF seen
<1>4. /\ sweep'.pc = "account2" /\ DOMAIN sweep' = Fields("account2") /\ sweep'.seen = seen
      /\ sweep'.orders = sweep.orders /\ sweep'.positions = sweep.positions
      /\ KeepsPurpose /\ sweep'.account = sweep.account /\ sweep'.stable = sweep.stable
    BY <1>2 DEF KeepsPurpose, Fields, Begun
<1> QED
    BY <1>1, <1>3, <1>4 DEF seen

LEMMA ReadAccountAgainFacts ==
    ASSUME SweepShape, ReadAccountAgain
    PROVE  /\ sweep.pc = "account2" /\ sweep'.pc = "positions2" /\ DOMAIN sweep' = Fields("positions2")
           /\ sweep'.account = account /\ sweep'.stable = (account = sweep.account)
           /\ sweep'.moment = [cash |-> account.cash, held |-> positions.held,
                               stock |-> positions.stock, orders |-> OpenOrders]
           /\ sweep'.together \in BOOLEAN
           /\ sweep'.seen = sweep.seen /\ sweep'.orders = sweep.orders /\ sweep'.positions = sweep.positions
           /\ KeepsPurpose
           /\ UNCHANGED broker /\ UNCHANGED book
           /\ disturbed' = (disturbed \/ (sweep.purpose = "FINAL" /\ ~sweep'.together))
<1>1. sweep.pc = "account2" /\ DOMAIN sweep = Begun \cup {"positions", "orders", "seen"}
    BY DEF ReadAccountAgain, SweepShape, Fields
<1> DEFINE moment == [cash |-> account.cash, held |-> positions.held,
                      stock |-> positions.stock, orders |-> OpenOrders]
           more(t) == [account |-> account, stable |-> account = sweep.account, together |-> t,
                       moment |-> moment]
<1>2. PICK t \in BOOLEAN : /\ Take(sweep, "positions2", more(t))
                           /\ Disturb(sweep.purpose = "FINAL" /\ ~t)
                           /\ UNCHANGED <<broker, book>>
    BY <1>1 DEF ReadAccountAgain
<1> HIDE DEF moment
<1>3. sweep' = [x \in Begun \cup {"positions", "orders", "seen", "together", "moment"} |->
                   IF x = "pc" THEN "positions2"
                   ELSE IF x \in {"account", "stable", "together", "moment"} THEN more(t)[x] ELSE sweep[x]]
    BY <1>1, <1>2 DEF Take, Begun
<1>4. /\ sweep'.pc = "positions2" /\ DOMAIN sweep' = Fields("positions2")
      /\ sweep'.account = account /\ sweep'.stable = (account = sweep.account)
      /\ sweep'.moment = moment /\ sweep'.together = t
      /\ sweep'.seen = sweep.seen /\ sweep'.orders = sweep.orders /\ sweep'.positions = sweep.positions
      /\ KeepsPurpose
    BY <1>3 DEF KeepsPurpose, Fields, Begun
<1> HIDE DEF more
<1> QED
    BY <1>1, <1>2, <1>4 DEF Disturb, moment

LEMMA ReadPositionsAgainFacts ==
    ASSUME SweepShape, ReadPositionsAgain
    PROVE  /\ sweep.pc = "positions2" /\ sweep'.pc = "orders2" /\ DOMAIN sweep' = Fields("orders2")
           /\ sweep'.positions = positions
           /\ sweep'.stable = (sweep.stable /\ positions = sweep.positions)
           /\ sweep'.moment = sweep.moment /\ sweep'.together = sweep.together
           /\ sweep'.seen = sweep.seen /\ sweep'.orders = sweep.orders /\ sweep'.account = sweep.account
           /\ KeepsPurpose
           /\ UNCHANGED <<broker, book, disturbed>>
<1>1. /\ sweep.pc = "positions2"
      /\ DOMAIN sweep = Begun \cup {"positions", "orders", "seen", "together", "moment"}
    BY DEF ReadPositionsAgain, SweepShape, Fields
<1> DEFINE more == [positions |-> positions, stable |-> sweep.stable /\ positions = sweep.positions]
<1>2. sweep' = [x \in Begun \cup {"positions", "orders", "seen", "together", "moment"} |->
                   IF x = "pc" THEN "orders2" ELSE IF x \in {"positions", "stable"} THEN more[x] ELSE sweep[x]]
    BY <1>1 DEF ReadPositionsAgain, Take, Begun
<1> QED
    BY <1>1, <1>2 DEF ReadPositionsAgain, KeepsPurpose, Fields, Begun

LEMMA ReadOrdersAgainFacts ==
    ASSUME SweepShape, ReadOrdersAgain
    PROVE  /\ sweep.pc = "orders2" /\ sweep'.pc = "judge" /\ DOMAIN sweep' = Fields("judge")
           /\ sweep'.orders = OpenOrders
           /\ sweep'.stable = (sweep.stable /\ OpenOrders = sweep.orders)
           /\ sweep'.slow \in BOOLEAN
           /\ sweep'.moment = sweep.moment /\ sweep'.together = sweep.together
           /\ sweep'.seen = sweep.seen /\ sweep'.positions = sweep.positions /\ sweep'.account = sweep.account
           /\ KeepsPurpose
           /\ UNCHANGED broker /\ UNCHANGED book
           /\ disturbed' = (disturbed \/ (sweep'.slow /\ Sweeping))
<1>1. /\ sweep.pc = "orders2"
      /\ DOMAIN sweep = Begun \cup {"positions", "orders", "seen", "together", "moment"}
    BY DEF ReadOrdersAgain, SweepShape, Fields
<1> DEFINE more(a, b) == [orders |-> OpenOrders, slow |-> a, sameDay |-> b,
                          stable |-> sweep.stable /\ OpenOrders = sweep.orders]
<1>2. PICK a \in BOOLEAN, b \in BOOLEAN : /\ Take(sweep, "judge", more(a, b))
                                          /\ Disturb(a /\ Sweeping)
                                          /\ UNCHANGED <<broker, book>>
    BY DEF ReadOrdersAgain
<1>3. sweep' = [x \in Begun \cup {"positions", "orders", "seen", "together", "moment", "slow", "sameDay"} |->
                   IF x = "pc" THEN "judge"
                   ELSE IF x \in {"orders", "slow", "sameDay", "stable"} THEN more(a, b)[x] ELSE sweep[x]]
    BY <1>1, <1>2 DEF Take, Begun
<1>4. /\ sweep'.pc = "judge" /\ DOMAIN sweep' = Fields("judge")
      /\ sweep'.orders = OpenOrders /\ sweep'.slow = a
      /\ sweep'.stable = (sweep.stable /\ OpenOrders = sweep.orders)
      /\ sweep'.moment = sweep.moment /\ sweep'.together = sweep.together
      /\ sweep'.seen = sweep.seen /\ sweep'.positions = sweep.positions /\ sweep'.account = sweep.account
      /\ KeepsPurpose
    BY <1>3 DEF KeepsPurpose, Fields, Begun
<1> HIDE DEF more
<1> QED
    BY <1>1, <1>2, <1>4 DEF Disturb

-----------------------------------------------------------------------------
(* The activities only grow *)

SameActivity(x, y) ==
    /\ x.type = y.type /\ x.order = y.order /\ x.leg = y.leg /\ x.qty = y.qty
    /\ x.shown => y.shown

Grows ==
    /\ acts' \in Seq(Activity) /\ Len(acts') \in Nat /\ Len(acts) <= Len(acts')
    /\ DOMAIN acts = 1 .. Len(acts) /\ DOMAIN acts' = 1 .. Len(acts')
    /\ \A i \in DOMAIN acts : i \in DOMAIN acts' /\ SameActivity(acts[i], acts'[i])

LEMMA ActsShape ==
    ASSUME Types
    PROVE  /\ Len(acts) \in Nat /\ DOMAIN acts = 1 .. Len(acts)
           /\ \A i \in DOMAIN acts : acts[i] \in Activity /\ i \in Nat
<1>1. Len(acts) \in Nat /\ DOMAIN acts = 1 .. Len(acts)
    BY LenProperties DEF Types
<1>2. ASSUME NEW i \in DOMAIN acts PROVE acts[i] \in Activity /\ i \in Nat
  <2>1. i \in 1 .. Len(acts)
    BY <1>1
  <2> QED
    BY <1>1, <2>1, ElementOfSeq DEF Types
<1> QED
    BY <1>1, <1>2

LEMMA ActsUnchanged ==
    ASSUME Types, UNCHANGED acts
    PROVE  Grows
    BY ActsShape DEF Grows, SameActivity, Types

LEMMA Appended ==
    ASSUME Types, NEW x \in Activity, acts' = Append(acts, x)
    PROVE  /\ Grows /\ Len(acts') = Len(acts) + 1 /\ acts'[Len(acts) + 1] = x
           /\ \A i \in DOMAIN acts : acts'[i] = acts[i]
<1>1. /\ acts' \in Seq(Activity) /\ Len(acts') = Len(acts) + 1 /\ acts'[Len(acts) + 1] = x
      /\ \A i \in 1 .. Len(acts) : acts'[i] = acts[i]
    BY AppendProperties DEF Types
<1>2. Len(acts') \in Nat /\ DOMAIN acts' = 1 .. Len(acts')
    BY <1>1, LenProperties
<1> QED
    BY <1>1, <1>2, ActsShape DEF Grows, SameActivity

LEMMA AppendedTwo ==
    ASSUME Types, NEW x \in Activity, NEW y \in Activity,
           NEW s, s = [leg \in 1 .. 2 |-> IF leg = 1 THEN x ELSE y], acts' = acts \o s
    PROVE  /\ Grows /\ Len(acts') = Len(acts) + 2
           /\ acts'[Len(acts) + 1] = x /\ acts'[Len(acts) + 2] = y
           /\ \A i \in DOMAIN acts : acts'[i] = acts[i]
<1>1. s \in Seq(Activity) /\ Len(s) = 2 /\ s[1] = x /\ s[2] = y
  <2>1. s \in [1 .. 2 -> Activity]
    OBVIOUS
  <2>2. s \in Seq(Activity)
    BY <2>1
  <2>3. DOMAIN s = 1 .. Len(s) /\ Len(s) \in Nat /\ DOMAIN s = 1 .. 2
    BY <2>1, <2>2, LenProperties
  <2>4. Len(s) = 2
    BY <2>3
  <2> QED
    BY <2>2, <2>4
<1>2. /\ acts' \in Seq(Activity) /\ Len(acts') = Len(acts) + 2
      /\ \A i \in 1 .. Len(acts) + 2 : acts'[i] = IF i <= Len(acts) THEN acts[i] ELSE s[i - Len(acts)]
    BY <1>1, ConcatProperties DEF Types
<1>3. Len(acts') \in Nat /\ DOMAIN acts' = 1 .. Len(acts')
    BY <1>2, LenProperties
<1>4. Len(acts) \in Nat
    BY ActsShape
<1>5. acts'[Len(acts) + 1] = x /\ acts'[Len(acts) + 2] = y
  <2>1. Len(acts) + 1 \in 1 .. Len(acts) + 2 /\ Len(acts) + 2 \in 1 .. Len(acts) + 2
        /\ ~(Len(acts) + 1 <= Len(acts)) /\ ~(Len(acts) + 2 <= Len(acts))
        /\ Len(acts) + 1 - Len(acts) = 1 /\ Len(acts) + 2 - Len(acts) = 2
    BY <1>4
  <2> QED
    BY <1>1, <1>2, <2>1
<1>6. \A i \in DOMAIN acts : acts'[i] = acts[i]
    BY <1>2, <1>4, ActsShape
<1> QED
    BY <1>2, <1>3, <1>5, <1>6, ActsShape DEF Grows, SameActivity

LEMMA OneShown ==
    ASSUME Types, NEW i \in DOMAIN acts, acts' = [acts EXCEPT ![i].shown = TRUE]
    PROVE  Grows /\ Len(acts') = Len(acts)
<1> DEFINE x == [acts[i] EXCEPT !.shown = TRUE]
<1>1. acts[i] \in Activity
    BY ActsShape
<1>2. x \in Activity /\ SameActivity(acts[i], x)
    BY <1>1 DEF Activity, SameActivity
<1>3. acts' = [acts EXCEPT ![i] = x]
    OBVIOUS
<1> HIDE DEF x
<1>4. acts' \in Seq(Activity) /\ Len(acts') = Len(acts)
  <2>1. i \in 1 .. Len(acts) /\ acts \in Seq(Activity)
    BY ActsShape DEF Types
  <2> DEFINE new == [acts EXCEPT ![i] = x]
  <2>2. new \in Seq(Activity) /\ Len(new) = Len(acts)
    BY <1>2, <2>1, ExceptSeq
  <2>3. acts' = new
    BY <1>3
  <2> HIDE DEF new
  <2> QED
    BY <2>2, <2>3
<1>5. acts'[i] = x /\ \A j \in DOMAIN acts : j # i => acts'[j] = acts[j]
    BY <1>3 DEF Types
<1>6. DOMAIN acts' = 1 .. Len(acts')
    BY <1>4, LenProperties
<1>7. \A j \in DOMAIN acts : SameActivity(acts[j], acts'[j])
    BY <1>2, <1>5 DEF SameActivity
<1>8. Len(acts) \in Nat /\ DOMAIN acts = 1 .. Len(acts)
    BY ActsShape
<1>9. Len(acts') \in Nat /\ Len(acts) <= Len(acts') /\ \A j \in DOMAIN acts : j \in DOMAIN acts'
    BY <1>4, <1>6, <1>8
<1> QED
    BY <1>4, <1>6, <1>7, <1>8, <1>9 DEF Grows

\* An execution: the order, the cash, the positions and the two activities.
Executed(k) ==
    /\ k \in 1 .. (Qty - order.fill) /\ order.open /\ k \in Nat /\ k > 0
    /\ order' = [open |-> order.fill + k < Qty, fill |-> order.fill + k, side |-> order.side,
                 executions |-> order.executions + 1]
    /\ positions' = [held |-> positions.held + order.side * k, stock |-> positions.stock]
    /\ account' = [cash |-> account.cash - order.side * k * Price, blocked |-> account.blocked]
    /\ Grows /\ Len(acts') = Len(acts) + 2
    /\ acts'[Len(acts) + 1] = Posted("FILL", finished + 1, 1, order.side * k)
    /\ acts'[Len(acts) + 2] = Posted("FILL", finished + 1, 2, order.side * k)
    /\ disturbed' = (disturbed \/ Sweeping \/ order.executions > 0)
    /\ UNCHANGED mature /\ UNCHANGED book /\ UNCHANGED sweep

LEMMA ExecuteFacts ==
    ASSUME Types, Execute
    PROVE  \E k \in Nat : Executed(k)
<1>1. PICK k \in 1 .. (Qty - order.fill) :
        /\ order.open
        /\ order' = [order EXCEPT !.fill = @ + k, !.executions = @ + 1, !.open = order.fill + k < Qty]
        /\ positions' = [positions EXCEPT !.held = @ + order.side * k]
        /\ account' = [account EXCEPT !.cash = @ - order.side * k * Price]
        /\ acts' = acts \o [leg \in 1 .. 2 |-> Posted("FILL", finished + 1, leg, order.side * k)]
        /\ Disturb(Sweeping \/ order.executions > 0)
        /\ UNCHANGED <<mature, book, sweep>>
    BY DEF Execute
<1>2. k \in Nat /\ k > 0 /\ order.side * k \in Int /\ finished + 1 \in Nat
    BY SweepAssumption DEF Types, BrokerOrder
<1> DEFINE x == Posted("FILL", finished + 1, 1, order.side * k)
           y == Posted("FILL", finished + 1, 2, order.side * k)
           s == [leg \in 1 .. 2 |-> IF leg = 1 THEN x ELSE y]
<1>3. x \in Activity /\ y \in Activity
    BY <1>2 DEF Activity, ActivityTypes, Posted
<1>4. [leg \in 1 .. 2 |-> Posted("FILL", finished + 1, leg, order.side * k)] = s
  <2>1. \A leg \in 1 .. 2 : leg = 1 \/ leg = 2
    OBVIOUS
  <2> QED
    BY <2>1
<1>5. acts' = acts \o s
    BY <1>1, <1>4
<1> HIDE DEF x, y
<1>6. Grows /\ Len(acts') = Len(acts) + 2 /\ acts'[Len(acts) + 1] = x /\ acts'[Len(acts) + 2] = y
    BY <1>3, <1>5, AppendedTwo
<1> HIDE DEF s
<1>7. order' = [open |-> order.fill + k < Qty, fill |-> order.fill + k, side |-> order.side,
                executions |-> order.executions + 1]
    BY <1>1 DEF Types, BrokerOrder
<1>8. /\ positions' = [held |-> positions.held + order.side * k, stock |-> positions.stock]
      /\ account' = [cash |-> account.cash - order.side * k * Price, blocked |-> account.blocked]
    BY <1>1 DEF Types, Positions
<1>9. disturbed' = (disturbed \/ Sweeping \/ order.executions > 0)
    BY <1>1 DEF Disturb
<1> QED
    BY <1>1, <1>2, <1>6, <1>7, <1>8, <1>9 DEF Executed, x, y

\* A fee: the cash and the activity.
Charged(amount) ==
    /\ amount \in Nat /\ amount > 0
    /\ account' = [cash |-> account.cash - amount, blocked |-> account.blocked]
    /\ Grows /\ Len(acts') = Len(acts) + 1
    /\ acts'[Len(acts) + 1] = Posted("FEE", 0, 0, amount)
    /\ disturbed' = (disturbed \/ Sweeping \/ amount + Sum({i \in DOMAIN acts : acts[i].type = "FEE"}) > MaxFeeDrag)
    /\ UNCHANGED <<positions, order, mature>> /\ UNCHANGED book /\ UNCHANGED sweep

LEMMA ChargeFeeFacts ==
    ASSUME Types, ChargeFee
    PROVE  \E amount \in Nat : Charged(amount)
<1>1. PICK amount \in 1 .. (MaxFeeDrag + 1) :
        /\ account' = [account EXCEPT !.cash = @ - amount]
        /\ acts' = Append(acts, Posted("FEE", 0, 0, amount))
        /\ Disturb(Sweeping \/ amount + Sum({i \in DOMAIN acts : acts[i].type = "FEE"}) > MaxFeeDrag)
        /\ UNCHANGED <<positions, order, mature, book, sweep>>
    BY DEF ChargeFee
<1>2. amount \in Nat /\ amount > 0
    BY SweepAssumption
<1>3. Posted("FEE", 0, 0, amount) \in Activity
    BY <1>2 DEF Posted, Activity, ActivityTypes
<1>4. Grows /\ Len(acts') = Len(acts) + 1 /\ acts'[Len(acts) + 1] = Posted("FEE", 0, 0, amount)
    BY <1>1, <1>3, Appended
<1>5. account' = [cash |-> account.cash - amount, blocked |-> account.blocked]
    BY <1>1 DEF Types
<1> QED
    BY <1>1, <1>2, <1>4, <1>5 DEF Charged, Disturb

\* Something that nobody here caused.
Happened ==
    /\ account' \in [cash : Int, blocked : BOOLEAN]
    /\ positions' \in Positions /\ positions'.held = positions.held /\ (positions.stock => positions'.stock)
    /\ Grows
    /\ \A i \in DOMAIN acts' \ DOMAIN acts : acts'[i].type \in {"OPASN", "JOURNAL"}
    /\ disturbed' = TRUE
    /\ UNCHANGED <<order, mature>> /\ UNCHANGED book /\ UNCHANGED sweep

LEMMA ForeignFacts ==
    ASSUME Types, Foreign
    PROVE  Happened
<1>0. disturbed' = TRUE /\ UNCHANGED <<order, mature>> /\ UNCHANGED book /\ UNCHANGED sweep
    BY DEF Foreign, Disturb
<1>1. ASSUME NEW x \in Activity, acts' = Append(acts, x), x.type \in {"OPASN", "JOURNAL"}
      PROVE  Grows /\ \A i \in DOMAIN acts' \ DOMAIN acts : acts'[i].type \in {"OPASN", "JOURNAL"}
  <2>1. Grows /\ Len(acts') = Len(acts) + 1 /\ acts'[Len(acts) + 1] = x /\ Len(acts) \in Nat
    BY <1>1, Appended, ActsShape
  <2>2. ASSUME NEW i \in DOMAIN acts' \ DOMAIN acts PROVE i = Len(acts) + 1
    BY <2>1 DEF Grows
  <2> QED
    BY <1>1, <2>1, <2>2
<1>2. Posted("OPASN", 0, 2, 1) \in Activity /\ Posted("JOURNAL", 0, 0, 1) \in Activity
    BY DEF Posted, Activity, ActivityTypes
<1>3. CASE /\ positions' = [positions EXCEPT !.stock = TRUE]
           /\ acts' = Append(acts, Posted("OPASN", 0, 2, 1))
           /\ UNCHANGED account
  <2>1. /\ positions' \in Positions /\ positions'.held = positions.held /\ positions'.stock = TRUE
        /\ account' \in [cash : Int, blocked : BOOLEAN]
    BY <1>3 DEF Types, Positions
  <2>2. Posted("OPASN", 0, 2, 1).type = "OPASN"
    BY DEF Posted
  <2>3. Grows /\ \A i \in DOMAIN acts' \ DOMAIN acts : acts'[i].type \in {"OPASN", "JOURNAL"}
    BY <1>1, <1>2, <1>3, <2>2
  <2> QED
    BY <1>0, <2>1, <2>3 DEF Happened
<1>4. CASE /\ account' = [account EXCEPT !.cash = @ + 1]
           /\ acts' = Append(acts, Posted("JOURNAL", 0, 0, 1))
           /\ UNCHANGED positions
  <2>1. /\ positions' \in Positions /\ positions' = positions
        /\ account' \in [cash : Int, blocked : BOOLEAN]
    <3>1. positions' \in Positions /\ positions' = positions
      BY <1>4 DEF Types
    <3>2. account \in [cash : Int, blocked : BOOLEAN]
      BY DEF Types
    <3>3. account' \in [cash : Int, blocked : BOOLEAN]
      BY <1>4, <3>2
    <3> QED
      BY <3>1, <3>3
  <2>2. Posted("JOURNAL", 0, 0, 1).type = "JOURNAL"
    BY DEF Posted
  <2>3. Grows /\ \A i \in DOMAIN acts' \ DOMAIN acts : acts'[i].type \in {"OPASN", "JOURNAL"}
    BY <1>1, <1>2, <1>4, <2>2
  <2> QED
    BY <1>0, <2>1, <2>3 DEF Happened
<1>5. CASE /\ account' = [account EXCEPT !.blocked = TRUE]
           /\ UNCHANGED <<positions, acts>>
  <2>1. account' \in [cash : Int, blocked : BOOLEAN] /\ positions' \in Positions
    BY <1>5 DEF Types
  <2> QED
    BY <1>0, <1>5, <2>1, ActsUnchanged DEF Happened
<1> QED
    BY <1>3, <1>4, <1>5 DEF Foreign

-----------------------------------------------------------------------------
(* The verdict *)

LEMMA AcceptedIs ==
    ASSUME NEW s
    PROVE  /\ s.purpose \in {"SUBMIT", "CANCEL", "FINAL"} =>
                  (Accepted(s) <=> Bound(s.purpose, s.seen) = "BOUND" /\ BlockCodes(s) = {})
           /\ s.purpose = "BASELINE_INITIALIZATION" => (Accepted(s) <=> Clean(s) /\ BlockCodes(s) = {})
           /\ s.purpose = "REVIEW" => (Accepted(s) <=> ReviewAgrees(s))
<1>1. ASSUME s.purpose \in {"SUBMIT", "CANCEL", "FINAL"}
      PROVE  Accepted(s) <=> Bound(s.purpose, s.seen) = "BOUND" /\ BlockCodes(s) = {}
    BY <1>1 DEF Accepted
<1>2. ASSUME s.purpose = "BASELINE_INITIALIZATION"
      PROVE  Accepted(s) <=> Clean(s) /\ BlockCodes(s) = {}
    BY <1>2 DEF Accepted
<1>3. ASSUME s.purpose = "REVIEW"
      PROVE  Accepted(s) <=> ReviewAgrees(s)
    BY <1>3 DEF Accepted
<1> QED
    BY <1>1, <1>2, <1>3

LEMMA BoundIs ==
    ASSUME NEW purpose, NEW seen, head.known \subseteq seen
    PROVE  /\ New(seen) = {} => Bound(purpose, seen) = IF purpose = "FINAL" /\ row.fill > 0
                                THEN "ATTEMPT_ACTIVITY_EVIDENCE_PENDING" ELSE "BOUND"
           /\ New(seen) # {} => Bound(purpose, seen) = IF ReportsFill(New(seen))
                                THEN "BOUND" ELSE "ATTEMPT_ACTIVITY_EVIDENCE_MISMATCH"
<1>1. ASSUME New(seen) = {}
      PROVE  Bound(purpose, seen) = IF purpose = "FINAL" /\ row.fill > 0
                                    THEN "ATTEMPT_ACTIVITY_EVIDENCE_PENDING" ELSE "BOUND"
    BY <1>1 DEF Bound
<1>2. ASSUME New(seen) # {}
      PROVE  Bound(purpose, seen) = IF ReportsFill(New(seen))
                                    THEN "BOUND" ELSE "ATTEMPT_ACTIVITY_EVIDENCE_MISMATCH"
    BY <1>2 DEF Bound
<1> QED
    BY <1>1, <1>2

\* A sweep is not blocked: the ten conditions.
Unblocked(s) ==
    /\ s.mature /\ ~s.slow /\ s.stable /\ ~s.account.blocked
    /\ CashWithinFeeTolerance(s.account.cash, Expected(s.purpose).cash)
    /\ {acts[i].type : i \in s.seen \ ResolvedActivities(s.purpose, s.seen)} \cap Adjustments = {}
    /\ s.positions = [held |-> Expected(s.purpose).held, stock |-> FALSE]
    /\ ~s.positions.stock
    /\ {acts[i].type : i \in s.seen \ ResolvedActivities(s.purpose, s.seen)} \cap Assignments = {}
    /\ s.orders = Expected(s.purpose).orders
    /\ KnownActivities(s.purpose, s.seen) \subseteq s.seen
    /\ ~\E i \in s.seen \ KnownActivities(s.purpose, s.seen) : acts[i].type # "FEE"

LEMMA UnblockedIs ==
    ASSUME NEW s
    PROVE  BlockCodes(s) = {} <=> Unblocked(s)
<1> DEFINE unresolved == {acts[i].type : i \in s.seen \ ResolvedActivities(s.purpose, s.seen)}
           known == KnownActivities(s.purpose, s.seen)
           exp == Expected(s.purpose)
           b1 == ~s.mature
           b2 == s.slow
           b3 == ~s.stable
           b4 == s.account.blocked
           b5 == \/ ~CashWithinFeeTolerance(s.account.cash, exp.cash)
                 \/ unresolved \cap Adjustments # {}
           b6 == s.positions # [held |-> exp.held, stock |-> FALSE]
           b7 == s.positions.stock \/ unresolved \cap Assignments # {}
           b8 == s.orders # exp.orders
           b9 == ~(known \subseteq s.seen)
           b10 == \E i \in s.seen \ known : acts[i].type # "FEE"
           blocks == [ACTIVITY_WATERMARK_UNKNOWN |-> b1, STALE_OBSERVATION |-> b2,
                      UNSTABLE_SWEEP |-> b3, ACCOUNT_NOT_EXECUTABLE |-> b4,
                      ACCOUNT_ADJUSTMENT |-> b5, UNEXPECTED_INVENTORY |-> b6,
                      ASSIGNMENT_SUSPECTED |-> b7, UNEXPECTED_OPEN_ORDER |-> b8,
                      KNOWN_ACTIVITY_MISSING |-> b9, UNEXPECTED_ACTIVITY |-> b10]
<1>1. BlockCodes(s) = {code \in DOMAIN blocks : blocks[code]}
    BY DEF BlockCodes
<1>2. Unblocked(s) <=> (~b1 /\ ~b2 /\ ~b3 /\ ~b4 /\ ~b5 /\ ~b6 /\ ~b7 /\ ~b8 /\ ~b9 /\ ~b10)
    BY DEF Unblocked
<1> HIDE DEF b1, b2, b3, b4, b5, b6, b7, b8, b9, b10
<1>3. {code \in DOMAIN blocks : blocks[code]} = {}
          <=> (~b1 /\ ~b2 /\ ~b3 /\ ~b4 /\ ~b5 /\ ~b6 /\ ~b7 /\ ~b8 /\ ~b9 /\ ~b10)
  <2>1. DOMAIN blocks = {"ACTIVITY_WATERMARK_UNKNOWN", "STALE_OBSERVATION", "UNSTABLE_SWEEP",
                         "ACCOUNT_NOT_EXECUTABLE", "ACCOUNT_ADJUSTMENT", "UNEXPECTED_INVENTORY",
                         "ASSIGNMENT_SUSPECTED", "UNEXPECTED_OPEN_ORDER", "KNOWN_ACTIVITY_MISSING",
                         "UNEXPECTED_ACTIVITY"}
    OBVIOUS
  <2>2. /\ blocks["ACTIVITY_WATERMARK_UNKNOWN"] = b1 /\ blocks["STALE_OBSERVATION"] = b2
        /\ blocks["UNSTABLE_SWEEP"] = b3 /\ blocks["ACCOUNT_NOT_EXECUTABLE"] = b4
        /\ blocks["ACCOUNT_ADJUSTMENT"] = b5 /\ blocks["UNEXPECTED_INVENTORY"] = b6
        /\ blocks["ASSIGNMENT_SUSPECTED"] = b7 /\ blocks["UNEXPECTED_OPEN_ORDER"] = b8
        /\ blocks["KNOWN_ACTIVITY_MISSING"] = b9 /\ blocks["UNEXPECTED_ACTIVITY"] = b10
    OBVIOUS
  <2> HIDE DEF blocks
  <2> QED
    BY <2>1, <2>2
<1> QED
    BY <1>1, <1>2, <1>3

\* The verdict reads only the sweep, the activities and the rows.
LEMMA AcceptedStable ==
    ASSUME sweep.pc = "judge", SweepShape, Accepted(sweep)
    PROVE  /\ sweep.stable
           /\ sweep.purpose # "REVIEW" => Unblocked(sweep)
           /\ sweep.purpose = "REVIEW" =>
                  /\ sweep.positions = [held |-> head.held, stock |-> FALSE]
                  /\ sweep.orders = {}
<1>1. sweep.purpose \in Purposes
    BY DEF SweepShape
<1>2. sweep.purpose # "REVIEW" => BlockCodes(sweep) = {}
    BY <1>1, AcceptedIs DEF Purposes
<1>3. sweep.purpose # "REVIEW" => Unblocked(sweep) /\ sweep.stable
    BY <1>2, UnblockedIs DEF Unblocked
<1>4. sweep.purpose = "REVIEW" => ReviewAgrees(sweep)
    BY AcceptedIs
<1> QED
    BY <1>3, <1>4 DEF ReviewAgrees

\* A sweep that is accepted saw what the rows expect at the moment of its second reading.
LEMMA ReadingsAreTrue ==
    ASSUME Types, SweepShape, ReadingsInOrder
    PROVE  AcceptedIsTrueAtOnce
<1> SUFFICES ASSUME sweep.pc = "judge", Accepted(sweep)
             PROVE  LET exp == Expected(sweep.purpose)
                    IN  /\ sweep.purpose # "REVIEW" => CashWithinFeeTolerance(sweep.moment.cash, exp.cash)
                        /\ sweep.moment.held = (IF sweep.purpose = "REVIEW" THEN head.held ELSE exp.held)
                        /\ ~sweep.moment.stock
                        /\ sweep.moment.orders = (IF sweep.purpose = "REVIEW" THEN {} ELSE exp.orders)
    BY DEF AcceptedIsTrueAtOnce
<1>1. /\ sweep.positions.held = sweep.moment.held /\ sweep.positions.stock = sweep.moment.stock
      /\ sweep.orders = sweep.moment.orders /\ sweep.moment.cash = sweep.account.cash
    BY AcceptedStable DEF ReadingsInOrder, AtMoment
<1>2. CASE sweep.purpose = "REVIEW"
    BY <1>1, <1>2, AcceptedStable
<1>3. CASE sweep.purpose # "REVIEW"
    BY <1>1, <1>3, AcceptedStable DEF Unblocked
<1> QED
    BY <1>2, <1>3

-----------------------------------------------------------------------------
(* What happens outside *)

Closed ==
    /\ order.open
    /\ order' = [open |-> FALSE, fill |-> order.fill, side |-> order.side, executions |-> order.executions]
    /\ disturbed' = (disturbed \/ Sweeping)
    /\ Grows /\ UNCHANGED acts
    /\ UNCHANGED <<account, positions, mature>> /\ UNCHANGED book /\ UNCHANGED sweep

ShownOne ==
    /\ Grows /\ Len(acts') = Len(acts)
    /\ UNCHANGED <<account, positions, order, mature, disturbed>> /\ UNCHANGED book /\ UNCHANGED sweep

Passed ==
    /\ mature' = TRUE /\ Grows /\ UNCHANGED acts
    /\ UNCHANGED <<account, positions, order, disturbed>> /\ UNCHANGED book /\ UNCHANGED sweep

LEMMA OutsideIs ==
    ASSUME Types, Outside
    PROVE  \/ \E k \in Nat : Executed(k)
           \/ \E amount \in Nat : Charged(amount)
           \/ Happened \/ Closed \/ ShownOne \/ Passed
<1>1. CASE Execute
    BY <1>1, ExecuteFacts
<1>2. CASE ChargeFee
    BY <1>2, ChargeFeeFacts
<1>3. CASE Foreign
    BY <1>3, ForeignFacts
<1>4. CASE CloseOrder
  <2>1. order' = [open |-> FALSE, fill |-> order.fill, side |-> order.side, executions |-> order.executions]
    BY <1>4 DEF CloseOrder, Types, BrokerOrder
  <2>2. Grows
    BY <1>4, ActsUnchanged DEF CloseOrder
  <2> QED
    BY <1>4, <2>1, <2>2 DEF CloseOrder, Closed, Disturb
<1>5. CASE Show
  <2>1. PICK i \in DOMAIN acts : acts' = [acts EXCEPT ![i].shown = TRUE]
    BY <1>5 DEF Show
  <2>2. Grows /\ Len(acts') = Len(acts)
    BY <2>1, OneShown
  <2> QED
    BY <1>5, <2>2 DEF Show, ShownOne
<1>6. CASE HorizonPasses
    BY <1>6, ActsUnchanged DEF HorizonPasses, Passed
<1> QED
    BY <1>1, <1>2, <1>3, <1>4, <1>5, <1>6 DEF Outside

LEMMA OutsideTypes ==
    ASSUME Types, Outside
    PROVE  /\ Types' /\ Grows /\ UNCHANGED book /\ UNCHANGED sweep
           /\ \A i \in DOMAIN acts' \ DOMAIN acts : acts'[i].type # "INITIAL_FUNDING"
<1>0. ASSUME UNCHANGED book
      PROVE  /\ latched' \in BOOLEAN /\ head' \in StateRow \cup {None} /\ row' \in AttemptRow /\ finished' \in Nat
    BY <1>0 DEF book, Types
<1>1. ASSUME NEW k \in Nat, Executed(k)
      PROVE  /\ Types' /\ Grows /\ UNCHANGED book /\ UNCHANGED sweep
             /\ \A i \in DOMAIN acts' \ DOMAIN acts : acts'[i].type # "INITIAL_FUNDING"
  <2>1. order.side * k \in Int /\ order.side * k * Price \in Int
    BY SweepAssumption DEF Types, BrokerOrder
  <2>2. order' \in BrokerOrder
    BY <1>1 DEF Executed, Types, BrokerOrder
  <2>3. positions' \in Positions /\ account' \in [cash : Int, blocked : BOOLEAN]
    BY <1>1, <2>1 DEF Executed, Types, Positions
  <2>4. disturbed' \in BOOLEAN /\ mature' \in BOOLEAN
    BY <1>1 DEF Executed, Types
  <2>5. ASSUME NEW i \in DOMAIN acts' \ DOMAIN acts PROVE acts'[i].type # "INITIAL_FUNDING"
    <3>1. i = Len(acts) + 1 \/ i = Len(acts) + 2
      BY <1>1, ActsShape DEF Executed, Grows
    <3> QED
      BY <1>1, <3>1 DEF Executed, Posted
  <2> QED
    BY <1>0, <1>1, <2>2, <2>3, <2>4, <2>5 DEF Executed, Types, Grows
<1>2. ASSUME NEW amount \in Nat, Charged(amount)
      PROVE  /\ Types' /\ Grows /\ UNCHANGED book /\ UNCHANGED sweep
             /\ \A i \in DOMAIN acts' \ DOMAIN acts : acts'[i].type # "INITIAL_FUNDING"
  <2>1. account' \in [cash : Int, blocked : BOOLEAN]
    BY <1>2 DEF Charged, Types
  <2>2. disturbed' \in BOOLEAN
    BY <1>2 DEF Charged
  <2>3. ASSUME NEW i \in DOMAIN acts' \ DOMAIN acts PROVE acts'[i].type # "INITIAL_FUNDING"
    <3>1. i = Len(acts) + 1
      BY <1>2, ActsShape DEF Charged, Grows
    <3> QED
      BY <1>2, <3>1 DEF Charged, Posted
  <2> QED
    BY <1>0, <1>2, <2>1, <2>2, <2>3 DEF Charged, Types, Grows
<1>3. CASE Happened
    BY <1>0, <1>3 DEF Happened, Types, Grows
<1>4. CASE Closed
  <2>1. order' \in BrokerOrder
    BY <1>4 DEF Closed, Types, BrokerOrder
  <2>2. disturbed' \in BOOLEAN
    BY <1>4 DEF Closed
  <2> QED
    BY <1>0, <1>4, <2>1, <2>2 DEF Closed, Types, Grows
<1>5. CASE ShownOne
    BY <1>0, <1>5, ActsShape DEF ShownOne, Types, Grows
<1>6. CASE Passed
    BY <1>0, <1>6 DEF Passed, Types, Grows
<1> QED
    BY <1>1, <1>2, <1>3, <1>4, <1>5, <1>6, OutsideIs

\* Contracts come or go one way, an order that is open may fill further or close, and a
\* closed one stays closed.
LEMMA OutsideMoves ==
    ASSUME Types, OrderSound, Outside
    PROVE  /\ order'.side = order.side
           /\ Onward(positions, positions') /\ Later(OpenOrders, OpenOrders')
<1>0. /\ Types' /\ finished' = finished /\ order.side \in {1, -1}
      /\ positions \in Positions /\ positions' \in Positions
      /\ order.open \in BOOLEAN /\ order.fill \in Nat /\ order.fill <= Qty /\ Qty \in Nat
      /\ positions.held \in Int
    BY OutsideTypes, SweepAssumption DEF Types, book, BrokerOrder, Positions, OrderSound
<1>1. Later(OpenOrders, OpenOrders)
  <2>1. OpenOrders = {} \/ (OpenOrders = OpenAt(order.fill) /\ order.fill \in 0 .. Qty)
    BY <1>0 DEF OpenOrders, OpenAt
  <2> QED
    BY <1>0, <2>1 DEF Later
<1>2. ASSUME order' = order
      PROVE  Later(OpenOrders, OpenOrders') /\ order'.side = order.side
    BY <1>0, <1>1, <1>2 DEF OpenOrders
<1>3. ASSUME positions' = positions PROVE Onward(positions, positions')
    BY <1>0, <1>3 DEF Onward
<1>4. ASSUME NEW k \in Nat, Executed(k)
      PROVE  /\ order'.side = order.side
             /\ Onward(positions, positions') /\ Later(OpenOrders, OpenOrders')
  <2>1. /\ k > 0 /\ order.open /\ order'.side = order.side /\ order'.fill = order.fill + k
        /\ positions'.held = positions.held + order.side * k /\ positions'.stock = positions.stock
        /\ order.fill + k <= Qty /\ order'.open \in BOOLEAN
    BY <1>0, <1>4 DEF Executed
  <2>2. Onward(positions, positions')
    BY <1>0, <2>1 DEF Onward
  <2>3. OpenOrders = OpenAt(order.fill) /\ (OpenOrders' = {} \/ OpenOrders' = OpenAt(order.fill + k))
    BY <1>0, <2>1 DEF OpenOrders, OpenAt
  <2>4. order.fill \in 0 .. Qty /\ order.fill + k \in 0 .. Qty /\ order.fill <= order.fill + k
    BY <1>0, <2>1
  <2> QED
    BY <2>1, <2>2, <2>3, <2>4 DEF Later
<1>5. CASE Happened
  <2>1. Onward(positions, positions')
    BY <1>0, <1>5 DEF Happened, Onward
  <2> QED
    BY <1>2, <1>5, <2>1 DEF Happened
<1>6. CASE Closed
  <2>1. order'.side = order.side /\ OpenOrders = OpenAt(order.fill) /\ OpenOrders' = {}
    BY <1>6 DEF Closed, OpenOrders, OpenAt
  <2>2. order.fill \in 0 .. Qty
    BY <1>0
  <2> QED
    BY <1>3, <1>6, <2>1, <2>2 DEF Closed, Later
<1>7. ASSUME NEW amount \in Nat, Charged(amount)
      PROVE  /\ order'.side = order.side
             /\ Onward(positions, positions') /\ Later(OpenOrders, OpenOrders')
    BY <1>2, <1>3, <1>7 DEF Charged
<1>8. CASE ShownOne \/ Passed
    BY <1>2, <1>3, <1>8 DEF ShownOne, Passed
<1> QED
    BY <1>4, <1>5, <1>6, <1>7, <1>8, OutsideIs

LEMMA OnwardTransitive ==
    ASSUME NEW p, NEW q, NEW r, Onward(p, q), Onward(q, r)
    PROVE  Onward(p, r)
<1>1. p.held \in Int /\ q.held \in Int /\ r.held \in Int
    BY DEF Onward, Positions
<1> QED
    BY <1>1 DEF Onward

LEMMA LaterTransitive ==
    ASSUME NEW p, NEW q, NEW r, Later(p, q), Later(q, r)
    PROVE  Later(p, r)
<1>1. \A f \in 0 .. Qty : OpenAt(f) # {}
    BY DEF OpenAt
<1>2. ASSUME NEW f \in 0 .. Qty, NEW g \in 0 .. Qty, OpenAt(f) = OpenAt(g) PROVE f = g
  <2>1. [n |-> finished + 1, fill |-> f] = [n |-> finished + 1, fill |-> g]
    BY <1>2 DEF OpenAt
  <2>2. [n |-> finished + 1, fill |-> f].fill = [n |-> finished + 1, fill |-> g].fill
    BY <2>1
  <2> QED
    BY <2>2
<1>3. CASE p = {}
    BY <1>1, <1>3 DEF Later
<1>4. CASE q = {} \/ r = {}
    BY <1>1, <1>4 DEF Later
<1>5. CASE p # {} /\ q # {} /\ r # {}
  <2>1. PICK f \in 0 .. Qty, g \in 0 .. Qty : p = OpenAt(f) /\ f <= g /\ q = OpenAt(g)
    BY <1>5 DEF Later
  <2>2. PICK h \in 0 .. Qty, j \in 0 .. Qty : q = OpenAt(h) /\ h <= j /\ r = OpenAt(j)
    BY <1>5 DEF Later
  <2>3. g = h
    BY <1>2, <2>1, <2>2
  <2>4. f <= j
    BY <2>1, <2>2, <2>3, SweepAssumption
  <2> QED
    BY <2>1, <2>2, <2>4 DEF Later
<1> QED
    BY <1>3, <1>4, <1>5

\* What follows from activities that only grow.
LEMMA GrowsKeeps ==
    ASSUME IInv, Grows, UNCHANGED book, UNCHANGED sweep,
           \A i \in DOMAIN acts' \ DOMAIN acts : acts'[i].type = "FILL" => acts'[i].order = finished + 1
    PROVE  KnownSound' /\ SeenSound' /\ BooksOK'
<1>0. /\ head' = head /\ finished' = finished /\ finished \in Nat
      /\ head # None => head \in StateRow
      /\ \A i \in DOMAIN acts : i \in DOMAIN acts' /\ SameActivity(acts[i], acts'[i])
    BY DEF book, IInv, Types, Grows
<1>1. KnownSound'
    BY <1>0 DEF IInv, KnownSound, SameActivity
<1>2. SeenSound'
    BY <1>0 DEF IInv, SeenSound, SameActivity
<1>3. BooksOK'
  <2> SUFFICES ASSUME head # None
               PROVE  /\ KnownFills' = DoneFills'
                      /\ \A leg \in Legs : SumOf(acts', LegFills(leg)') = head.held
                      /\ head.resolved \subseteq head.known
    BY <1>0 DEF BooksOK
  <2>1. KnownFills' = KnownFills /\ \A leg : LegFills(leg)' = LegFills(leg)
    BY <1>0 DEF KnownFills, LegFills, IInv, KnownSound, SameActivity
  <2>2. DoneFills' = DoneFills
    BY <1>0 DEF DoneFills, SameActivity
  <2>3. ASSUME NEW leg \in Legs PROVE SumOf(acts', LegFills(leg)) = head.held
    <3>1. LegFills(leg) \in SUBSET DOMAIN acts
      BY DEF LegFills, KnownFills, IInv, KnownSound
    <3>2. IsFiniteSet(LegFills(leg))
      <4>1. IsFiniteSet(1 .. Len(acts)) /\ DOMAIN acts = 1 .. Len(acts)
        BY FS_Interval, ActsShape DEF IInv
      <4> QED
        BY <3>1, <4>1, FS_Subset
    <3>3. \A x \in LegFills(leg) : acts'[x].qty = acts[x].qty
      BY <1>0, <3>1 DEF SameActivity
    <3>4. SumOf(acts', LegFills(leg)) = SumOf(acts, LegFills(leg))
      BY <3>2, <3>3, SumSame
    <3> QED
      BY <3>4 DEF IInv, BooksOK
  <2> QED
    BY <2>1, <2>2, <2>3 DEF IInv, BooksOK
<1> QED
    BY <1>1, <1>2, <1>3

LEMMA OutsideReadings ==
    ASSUME IInv, Outside
    PROVE  ReadingsInOrder'
<1>1. /\ order'.side = order.side /\ finished' = finished /\ sweep' = sweep /\ sweep.pc # "judge"
      /\ Onward(positions, positions') /\ Later(OpenOrders, OpenOrders')
    BY OutsideMoves, OutsideTypes DEF Outside, IInv, book
<1>2. ASSUME NEW p, NEW q PROVE Onward(p, q)' <=> Onward(p, q)
    BY <1>1 DEF Onward
<1>3. ASSUME NEW p, NEW q PROVE Later(p, q)' <=> Later(p, q)
    BY <1>1 DEF Later, OpenAt
<1>4. PICK sp, so, mo, am, pp, op : /\ sp = sweep.positions /\ so = sweep.orders /\ mo = sweep.moment.orders
                                    /\ am = AtMoment /\ pp = positions' /\ op = OpenOrders'
    OBVIOUS
<1>5. sweep'.positions = sp /\ sweep'.orders = so /\ sweep'.moment.orders = mo /\ AtMoment' = am
    BY <1>1, <1>4 DEF AtMoment
<1>6. sweep.pc \in {"orders", "activities", "account2"} => Onward(sp, pp)
    BY <1>1, <1>4, OnwardTransitive DEF IInv, ReadingsInOrder
<1>7. sweep.pc \in {"activities", "account2"} => Later(so, op)
    BY <1>1, <1>4, LaterTransitive DEF IInv, ReadingsInOrder
<1>8. sweep.pc = "positions2" => Onward(sp, am) /\ Onward(am, pp)
    BY <1>1, <1>4, OnwardTransitive DEF IInv, ReadingsInOrder
<1>9. sweep.pc \in {"positions2", "orders2"} => Later(so, mo) /\ Later(mo, op)
    BY <1>1, <1>4, LaterTransitive DEF IInv, ReadingsInOrder
<1>10. /\ sweep.pc \in {"orders", "activities", "account2"} => Onward(sp, pp)'
       /\ sweep.pc \in {"activities", "account2"} => Later(so, op)'
       /\ sweep.pc = "positions2" => Onward(sp, am)' /\ Onward(am, pp)'
       /\ sweep.pc \in {"positions2", "orders2"} => Later(so, mo)' /\ Later(mo, op)'
    BY <1>2, <1>3, <1>6, <1>7, <1>8, <1>9
<1>11. /\ sweep'.pc \in {"orders", "activities", "account2"} => Onward(sweep.positions, positions)'
       /\ sweep'.pc \in {"activities", "account2"} => Later(sweep.orders, OpenOrders)'
       /\ sweep'.pc = "positions2" => Onward(sweep.positions, AtMoment)' /\ Onward(AtMoment, positions)'
       /\ sweep'.pc \in {"positions2", "orders2"} =>
              Later(sweep.orders, sweep.moment.orders)' /\ Later(sweep.moment.orders, OpenOrders)'
    BY <1>1, <1>4, <1>5, <1>10 DEF Onward, Later
<1>12. /\ sweep'.pc \in {"positions2", "orders2", "judge"} => sweep'.moment.cash = sweep'.account.cash
       /\ sweep'.pc \in {"orders2", "judge"} /\ sweep'.stable => sweep'.positions = AtMoment'
       /\ sweep'.pc = "judge" /\ sweep'.stable => sweep'.orders = sweep'.moment.orders
    BY <1>1 DEF IInv, ReadingsInOrder, AtMoment
<1> QED
    BY <1>11, <1>12 DEF ReadingsInOrder

\* Fills that stay as they are.
LEMMA SameFills ==
    ASSUME IInv, Grows, finished' = finished,
           order'.executions = order.executions, order'.fill = order.fill, order'.side = order.side,
           \A i \in DOMAIN acts' \ DOMAIN acts : acts'[i].type \notin {"INITIAL_FUNDING", "FILL"}
    PROVE  FillsSound' /\ \A i \in DOMAIN acts' \ DOMAIN acts : acts'[i].type # "FILL"
<1>1. \A i \in DOMAIN acts : /\ i \in DOMAIN acts' /\ acts'[i].type = acts[i].type
                             /\ acts'[i].order = acts[i].order /\ acts'[i].leg = acts[i].leg
                             /\ acts'[i].qty = acts[i].qty
    BY DEF Grows, SameActivity
<1>2. Current' = Current
    BY <1>1 DEF Current, FillsOf
<1>3. /\ 1 \in DOMAIN acts' /\ \A i \in DOMAIN acts' : acts'[i].type = "INITIAL_FUNDING" <=> i = 1
      /\ \A i \in DOMAIN acts' : acts'[i].type = "FILL" => acts'[i].order \in 1 .. finished + 1 /\ acts'[i].leg \in Legs
    BY <1>1 DEF IInv, FillsSound
<1>4. order.executions = 0 => Current = {}
    BY DEF IInv, FillsSound
<1>5. ASSUME order.executions = 1
      PROVE  \E a, b \in DOMAIN acts' : /\ Current = {a, b} /\ acts'[a].leg = 1 /\ acts'[b].leg = 2
                                        /\ acts'[a].qty = order.side * order.fill
                                        /\ acts'[b].qty = order.side * order.fill
  <2>1. PICK a \in DOMAIN acts, b \in DOMAIN acts :
                /\ Current = {a, b} /\ acts[a].leg = 1 /\ acts[b].leg = 2
                /\ acts[a].qty = order.side * order.fill /\ acts[b].qty = order.side * order.fill
    BY <1>5 DEF IInv, FillsSound
  <2> QED
    BY <1>1, <2>1
<1>6. \A i \in Current : IF order.executions = 1 THEN order.side * acts'[i].qty <= order.fill
                                                ELSE order.side * acts'[i].qty < order.fill
  <2>1. \A i \in Current : i \in DOMAIN acts
    BY DEF Current, FillsOf
  <2> QED
    BY <1>1, <2>1 DEF IInv, FillsSound
<1>7. FillsSound'
    BY <1>2, <1>3, <1>4, <1>5, <1>6 DEF FillsSound
<1> QED
    BY <1>7

\* An execution adds a fill of each leg: the only ones of the order, or less than all of it.
LEMMA ExecutedFills ==
    ASSUME IInv, NEW k \in Nat, Executed(k)
    PROVE  FillsSound'
<1> DEFINE L == Len(acts)
           q == order.side * k
<1>1. /\ k > 0 /\ finished' = finished /\ finished \in Nat /\ L \in Nat
      /\ DOMAIN acts = 1 .. L /\ DOMAIN acts' = 1 .. L + 2
      /\ acts'[L + 1] = Posted("FILL", finished + 1, 1, q) /\ acts'[L + 2] = Posted("FILL", finished + 1, 2, q)
      /\ order'.fill = order.fill + k /\ order'.side = order.side /\ order'.executions = order.executions + 1
      /\ order.side \in {1, -1} /\ order.fill \in Nat /\ order.executions \in Nat
    BY ActsShape DEF Executed, IInv, Types, BrokerOrder, Grows, book
<1>2. \A i \in DOMAIN acts : /\ i \in DOMAIN acts' /\ acts'[i].type = acts[i].type
                             /\ acts'[i].order = acts[i].order /\ acts'[i].leg = acts[i].leg
                             /\ acts'[i].qty = acts[i].qty /\ acts[i].qty \in Int
    BY ActsShape DEF Executed, Grows, SameActivity, IInv, Activity
<1>3. q \in Int /\ order.side * q = k
  <2>1. CASE order.side = 1
    BY <2>1
  <2>2. CASE order.side = -1
    BY <2>2
  <2>3. order.side = 1 \/ order.side = -1
    BY <1>1
  <2> QED
    BY <2>1, <2>2, <2>3
<1> HIDE DEF q, L
<1>4. \A i \in DOMAIN acts' : i \in DOMAIN acts \/ i = L + 1 \/ i = L + 2
    BY <1>1
<1>5. L + 1 \in DOMAIN acts' /\ L + 2 \in DOMAIN acts' /\ L + 1 \notin DOMAIN acts /\ L + 2 \notin DOMAIN acts
    BY <1>1
<1>6. /\ acts'[L + 1].type = "FILL" /\ acts'[L + 1].order = finished + 1 /\ acts'[L + 1].leg = 1
      /\ acts'[L + 1].qty = q
      /\ acts'[L + 2].type = "FILL" /\ acts'[L + 2].order = finished + 1 /\ acts'[L + 2].leg = 2
      /\ acts'[L + 2].qty = q
    BY <1>1 DEF Posted
<1>7. Current' = Current \cup {L + 1, L + 2}
  <2>1. Current' = {i \in DOMAIN acts' : acts'[i].type = "FILL" /\ acts'[i].order = finished + 1}
    BY <1>1 DEF Current, FillsOf
  <2>2. Current = {i \in DOMAIN acts : acts[i].type = "FILL" /\ acts[i].order = finished + 1}
    BY DEF Current, FillsOf
  <2> QED
    BY <1>2, <1>4, <1>5, <1>6, <2>1, <2>2
<1>8. /\ 1 \in DOMAIN acts' /\ \A i \in DOMAIN acts' : acts'[i].type = "INITIAL_FUNDING" <=> i = 1
  <2>1. 1 \in DOMAIN acts /\ \A i \in DOMAIN acts : acts[i].type = "INITIAL_FUNDING" <=> i = 1
    BY DEF IInv, FillsSound
  <2> QED
    BY <1>2, <1>4, <1>5, <1>6, <2>1
<1>9. \A i \in DOMAIN acts' : acts'[i].type = "FILL" => acts'[i].order \in 1 .. finished + 1 /\ acts'[i].leg \in Legs
  <2>1. \A i \in DOMAIN acts : acts[i].type = "FILL" => acts[i].order \in 1 .. finished + 1 /\ acts[i].leg \in Legs
    BY DEF IInv, FillsSound
  <2>2. finished + 1 \in 1 .. finished + 1 /\ 1 \in Legs /\ 2 \in Legs
    BY <1>1 DEF Legs
  <2> HIDE DEF Legs
  <2> QED
    BY <1>2, <1>4, <1>6, <2>1, <2>2
<1>10. order'.executions # 0
    BY <1>1
<1>11. ASSUME order'.executions = 1
       PROVE  \E a, b \in DOMAIN acts' : /\ Current' = {a, b} /\ acts'[a].leg = 1 /\ acts'[b].leg = 2
                                         /\ acts'[a].qty = order'.side * order'.fill
                                         /\ acts'[b].qty = order'.side * order'.fill
  <2>1. order.executions = 0
    BY <1>1, <1>11
  <2>2. Current = {} /\ order.fill = 0
    BY <2>1 DEF IInv, FillsSound, OrderSound
  <2>3. Current' = {L + 1, L + 2} /\ order'.side * order'.fill = q
    BY <1>1, <1>7, <2>2 DEF q
  <2> QED
    BY <1>5, <1>6, <2>3
<1>12. ASSUME NEW i \in Current'
       PROVE  IF order'.executions = 1 THEN order'.side * acts'[i].qty <= order'.fill
                                      ELSE order'.side * acts'[i].qty < order'.fill
  <2>1. CASE i \in {L + 1, L + 2}
    <3>1. order'.side * acts'[i].qty = k
      BY <1>1, <1>3, <1>6, <2>1
    <3>2. order'.executions # 1 => order.fill > 0
      BY <1>1 DEF IInv, OrderSound
    <3> QED
      BY <1>1, <3>1, <3>2
  <2>2. CASE i \in Current
    <3>1. i \in DOMAIN acts /\ order.side * acts[i].qty <= order.fill
      <4>1. i \in DOMAIN acts /\ acts[i].qty \in Int
        BY <1>2, <2>2 DEF Current, FillsOf
      <4>2. order.side * acts[i].qty \in Int
        BY <1>1, <4>1
      <4> QED
        BY <1>1, <2>2, <4>1, <4>2 DEF IInv, FillsSound
    <3>2. acts'[i].qty = acts[i].qty /\ order.side * acts[i].qty \in Int
      BY <1>1, <1>2, <3>1
    <3>3. order.side * acts'[i].qty < order.fill + k
      BY <1>1, <3>1, <3>2
    <3> QED
      BY <1>1, <3>2, <3>3
  <2> QED
    BY <1>7, <2>1, <2>2
<1> QED
    BY <1>1, <1>8, <1>9, <1>10, <1>11, <1>12 DEF FillsSound

LEMMA OutsideKeeps ==
    ASSUME IInv, Outside
    PROVE  IInv'
<1>0. /\ Types' /\ Grows /\ UNCHANGED book /\ UNCHANGED sweep
      /\ \A i \in DOMAIN acts' \ DOMAIN acts : acts'[i].type # "INITIAL_FUNDING"
    BY OutsideTypes DEF IInv
<1>1. SweepShape'
    BY <1>0 DEF IInv, SweepShape, book
<1>2. ReadingsInOrder'
    BY OutsideReadings
<1>3. ASSUME NEW k \in Nat, Executed(k)
      PROVE  OrderSound' /\ FillsSound' /\ (KnownSound' /\ SeenSound' /\ BooksOK')
  <2>1. /\ k > 0 /\ order.open /\ k <= Qty - order.fill
        /\ order'.fill = order.fill + k /\ order'.side = order.side /\ order'.executions = order.executions + 1
        /\ order.fill \in Nat /\ order.executions \in Nat /\ Qty \in Nat
        /\ row' = row /\ head' = head /\ finished' = finished /\ row.fill \in Nat
    BY <1>3, SweepAssumption DEF Executed, book, IInv, Types, BrokerOrder, AttemptRow
  <2>2. row.st = "OPEN"
    <3>1. row.st \in {"NONE", "SENT", "OPEN", "CLOSED"}
      BY DEF IInv, Types, AttemptRow
    <3>2. ~NoOrder.open
      BY DEF NoOrder
    <3> QED
      BY <2>1, <3>1, <3>2 DEF IInv, OrderSound
  <2>3. Side' = Side
    BY <2>1 DEF Side
  <2>4. OrderSound'
    <3>0. order'.open => order.fill + k < Qty
      BY <1>3 DEF Executed
    <3>1. order'.fill <= Qty /\ (order'.open => order'.fill < Qty)
      <4>1. order.fill + k <= Qty
        BY <2>1
      <4> QED
        BY <2>1, <3>0, <4>1
    <3>2. order'.executions # 0 /\ order'.fill # 0
      BY <2>1
    <3>3. order.side = Side /\ row.fill <= order.fill /\ head # None
      BY <2>2 DEF IInv, OrderSound, Working
    <3>4. order'.side = Side' /\ row'.fill <= order'.fill /\ head' # None /\ row'.st = "OPEN"
      BY <2>1, <2>2, <2>3, <3>3
    <3> QED
      BY <3>1, <3>2, <3>4 DEF OrderSound
  <2>5. ASSUME NEW i \in DOMAIN acts' \ DOMAIN acts PROVE acts'[i].order = finished + 1
    <3>1. i = Len(acts) + 1 \/ i = Len(acts) + 2
      BY <1>3, ActsShape DEF Executed, Grows, IInv
    <3> QED
      BY <1>3, <3>1 DEF Executed, Posted
  <2> QED
    BY <1>0, <1>3, <2>4, <2>5, ExecutedFills, GrowsKeeps
<1>4. ASSUME order'.executions = order.executions, order'.fill = order.fill, order'.side = order.side,
             order'.open => order.open, order' \in BrokerOrder, order'.open = order.open \/ order.open,
             \A i \in DOMAIN acts' \ DOMAIN acts : acts'[i].type # "FILL"
      PROVE  OrderSound' /\ FillsSound' /\ (KnownSound' /\ SeenSound' /\ BooksOK')
  <2>1. FillsSound'
    BY <1>0, <1>4, SameFills DEF book
  <2>2. KnownSound' /\ SeenSound' /\ BooksOK'
    BY <1>0, <1>4, GrowsKeeps
  <2>3. row' = row /\ head' = head /\ finished' = finished /\ Side' = Side
    BY <1>0 DEF book, Side
  <2>4. row.st \in {"NONE", "SENT"} => order' = NoOrder
    <3> SUFFICES ASSUME row.st \in {"NONE", "SENT"} PROVE order' = NoOrder
      OBVIOUS
    <3>1. order = NoOrder /\ ~order.open /\ order.fill = 0 /\ order.side = 1 /\ order.executions = 0
      BY DEF IInv, OrderSound, NoOrder
    <3>2. order'.open = FALSE /\ order'.fill = 0 /\ order'.side = 1 /\ order'.executions = 0
      BY <1>4, <3>1 DEF BrokerOrder
    <3> QED
      BY <1>4, <3>2 DEF BrokerOrder, NoOrder
  <2>5. OrderSound'
    BY <1>4, <2>3, <2>4 DEF IInv, OrderSound, Working
  <2> QED
    BY <2>1, <2>2, <2>5
<1>5. order \in BrokerOrder
    BY DEF IInv, Types
<1>6. ASSUME Happened PROVE OrderSound' /\ FillsSound' /\ (KnownSound' /\ SeenSound' /\ BooksOK')
    BY <1>4, <1>5, <1>6 DEF Happened
<1>7. ASSUME Closed PROVE OrderSound' /\ FillsSound' /\ (KnownSound' /\ SeenSound' /\ BooksOK')
    BY <1>4, <1>5, <1>7 DEF Closed, BrokerOrder
<1>8. ASSUME ShownOne PROVE OrderSound' /\ FillsSound' /\ (KnownSound' /\ SeenSound' /\ BooksOK')
  <2>1. DOMAIN acts' = DOMAIN acts
    BY <1>8 DEF ShownOne, Grows
  <2> QED
    BY <1>4, <1>5, <1>8, <2>1 DEF ShownOne
<1>9. ASSUME Passed PROVE OrderSound' /\ FillsSound' /\ (KnownSound' /\ SeenSound' /\ BooksOK')
    BY <1>4, <1>5, <1>9 DEF Passed
<1>10. ASSUME NEW amount \in Nat, Charged(amount)
       PROVE  OrderSound' /\ FillsSound' /\ (KnownSound' /\ SeenSound' /\ BooksOK')
  <2>1. ASSUME NEW i \in DOMAIN acts' \ DOMAIN acts PROVE acts'[i].type # "FILL"
    <3>1. i = Len(acts) + 1
      BY <1>10, ActsShape DEF Charged, Grows, IInv
    <3> QED
      BY <1>10, <3>1 DEF Charged, Posted
  <2> QED
    BY <1>4, <1>5, <1>10, <2>1 DEF Charged
<1>11. OrderSound' /\ FillsSound' /\ (KnownSound' /\ SeenSound' /\ BooksOK')
    BY <1>3, <1>6, <1>7, <1>8, <1>9, <1>10, OutsideIs DEF IInv
<1> QED
    BY <1>0, <1>1, <1>2, <1>11 DEF IInv

-----------------------------------------------------------------------------
(* The readings *)

\* A reading changes the sweep and nothing else.
LEMMA ReadingKeeps ==
    ASSUME IInv, UNCHANGED broker, UNCHANGED book, disturbed' \in BOOLEAN,
           SweepShape', ReadingsInOrder', KnownSound', SeenSound'
    PROVE  IInv'
<1>1. Types'
    BY DEF IInv, Types, broker, book
<1>2. OrderSound'
    BY DEF IInv, OrderSound, Working, Side, broker, book
<1>3. FillsSound'
    BY DEF IInv, FillsSound, Current, FillsOf, broker, book
<1>4. BooksOK'
  <2>1. acts' = acts /\ head' = head /\ finished' = finished
    BY DEF broker, book
  <2>2. KnownFills' = KnownFills /\ DoneFills' = DoneFills /\ \A leg : LegFills(leg)' = LegFills(leg)
    BY <2>1 DEF KnownFills, DoneFills, LegFills
  <2> QED
    BY <2>1, <2>2 DEF IInv, BooksOK
<1> QED
    BY <1>1, <1>2, <1>3, <1>4 DEF IInv

LEMMA IdleIs ==
    ASSUME sweep' = NoSweep, head' # None => \A i \in head'.known : i \in DOMAIN acts' /\ acts'[i].shown
    PROVE  SweepShape' /\ ReadingsInOrder' /\ KnownSound' /\ SeenSound'
<1>1. sweep'.pc = "idle" /\ DOMAIN sweep' = {"pc"}
    BY DEF NoSweep
<1>2. Fields("idle") = {"pc"}
    BY DEF Fields
<1>3. SweepShape'
    BY <1>1, <1>2 DEF SweepShape, Stages
<1> QED
    BY <1>1, <1>3 DEF ReadingsInOrder, KnownSound, SeenSound

LEMMA SweepEnds ==
    ASSUME IInv, UNCHANGED broker, UNCHANGED book, disturbed' \in BOOLEAN, sweep' = NoSweep
    PROVE  IInv'
<1>1. head' # None => \A i \in head'.known : i \in DOMAIN acts' /\ acts'[i].shown
    BY DEF IInv, KnownSound, broker, book
<1> QED
    BY <1>1, IdleIs, ReadingKeeps

\* A reading that is not the first keeps the purpose, and the rows do not change.
LEMMA PurposeStays ==
    ASSUME IInv, UNCHANGED book, sweep.pc # "idle", KeepsPurpose,
           sweep'.pc \in Stages \ {"idle"}, DOMAIN sweep' = Fields(sweep'.pc), sweep'.stable \in BOOLEAN
    PROVE  SweepShape'
    BY DEF IInv, SweepShape, KeepsPurpose, book

\* The activities that were seen stay seen.
LEMMA SeenStays ==
    ASSUME IInv, UNCHANGED broker, UNCHANGED book, sweep.pc # "idle", KeepsPurpose,
           sweep'.pc \in {"account2", "positions2", "orders2", "judge"} =>
               /\ sweep.pc \in {"account2", "positions2", "orders2", "judge"}
               /\ sweep'.seen = sweep.seen
    PROVE  KnownSound' /\ SeenSound'
<1>1. acts' = acts /\ head' = head
    BY DEF broker, book
<1>2. KnownSound'
    BY <1>1 DEF IInv, KnownSound, KeepsPurpose
<1>3. SeenSound'
    BY <1>1 DEF IInv, SeenSound
<1> QED
    BY <1>2, <1>3

\* What is read now stands to the present as it is.
LEMMA NowIsNow ==
    ASSUME IInv
    PROVE  Onward(positions, positions) /\ Later(OpenOrders, OpenOrders)
<1>1. Onward(positions, positions)
  <2>1. positions \in Positions /\ positions.held \in Int
    BY DEF IInv, Types, Positions
  <2> QED
    BY <2>1 DEF Onward
<1>2. OpenOrders = {} \/ (OpenOrders = OpenAt(order.fill) /\ order.fill \in 0 .. Qty)
  <2>1. order.fill \in Nat /\ order.fill <= Qty /\ Qty \in Nat
    BY SweepAssumption DEF IInv, Types, BrokerOrder, OrderSound
  <2> QED
    BY <2>1 DEF OpenOrders, OpenAt
<1>3. Later(OpenOrders, OpenOrders)
  <2>1. Qty \in Nat
    BY SweepAssumption
  <2> QED
    BY <1>2, <2>1 DEF Later
<1> QED
    BY <1>1, <1>3

LEMMA ReadAccountKeeps ==
    ASSUME IInv, ReadAccount
    PROVE  IInv'
<1>1. /\ sweep'.pc = "positions" /\ DOMAIN sweep' = Fields("positions")
      /\ sweep'.purpose \in Purposes /\ MaySweep(sweep'.purpose)
      /\ sweep'.until = Len(acts) /\ sweep'.mature = mature /\ sweep'.stable = TRUE
      /\ UNCHANGED broker /\ UNCHANGED book /\ disturbed' \in BOOLEAN
    BY ReadAccountFacts
<1>2. SweepShape'
  <2>1. /\ sweep'.purpose = "BASELINE_INITIALIZATION" => head = None
        /\ sweep'.purpose = "SUBMIT" => head # None /\ row.st = "NONE"
        /\ sweep'.purpose = "REVIEW" => head # None /\ row.st = "NONE"
        /\ sweep'.purpose = "CANCEL" => row.st = "OPEN"
        /\ sweep'.purpose = "FINAL" => row.st = "CLOSED"
    BY <1>1 DEF MaySweep
  <2>2. sweep'.until \in Nat /\ sweep'.mature \in BOOLEAN
    BY <1>1, ActsShape DEF IInv, Types
  <2> QED
    BY <1>1, <2>1, <2>2 DEF SweepShape, Stages, book
<1>3. ReadingsInOrder'
    BY <1>1 DEF ReadingsInOrder
<1>4. KnownSound' /\ SeenSound'
  <2>1. Len(acts) \in Nat /\ DOMAIN acts = 1 .. Len(acts)
    BY ActsShape DEF IInv
  <2>2. \A i \in DOMAIN acts : i <= Len(acts)
    BY <2>1
  <2>3. KnownSound'
    BY <1>1, <2>2 DEF IInv, KnownSound, broker, book
  <2> QED
    BY <1>1, <2>3 DEF SeenSound
<1> QED
    BY <1>1, <1>2, <1>3, <1>4, ReadingKeeps

\* Where nothing changes, what stood in order stands in order.
LEMMA OrderStays ==
    ASSUME UNCHANGED broker, UNCHANGED book
    PROVE  /\ positions' = positions /\ OpenOrders' = OpenOrders
           /\ \A p, q : Onward(p, q)' <=> Onward(p, q)
           /\ \A p, q : Later(p, q)' <=> Later(p, q)
    BY DEF broker, book, OpenOrders, Onward, Later, OpenAt

LEMMA ReadPositionsKeeps ==
    ASSUME IInv, ReadPositions
    PROVE  IInv'
<1>1. /\ sweep.pc = "positions" /\ sweep'.pc = "orders" /\ DOMAIN sweep' = Fields("orders")
      /\ sweep'.positions = positions /\ KeepsPurpose /\ sweep'.stable = sweep.stable
      /\ UNCHANGED broker /\ UNCHANGED book /\ disturbed' = disturbed
    BY ReadPositionsFacts DEF IInv
<1>2. SweepShape' /\ KnownSound' /\ SeenSound' /\ disturbed' \in BOOLEAN
    BY <1>1, PurposeStays, SeenStays DEF IInv, SweepShape, Types, Stages
<1>3. ReadingsInOrder'
  <2>1. PICK p : p = positions
    OBVIOUS
  <2>2. Onward(p, p)' /\ p = positions' /\ p = sweep'.positions
    BY <1>1, <2>1, NowIsNow, OrderStays
  <2>3. Onward(sweep.positions, positions)'
    BY <2>2 DEF Onward
  <2> QED
    BY <1>1, <2>3 DEF ReadingsInOrder
<1> QED
    BY <1>1, <1>2, <1>3, ReadingKeeps

LEMMA ReadOrdersKeeps ==
    ASSUME IInv, ReadOrders
    PROVE  IInv'
<1>1. /\ sweep.pc = "orders" /\ sweep'.pc = "activities" /\ DOMAIN sweep' = Fields("activities")
      /\ sweep'.orders = OpenOrders /\ sweep'.positions = sweep.positions
      /\ KeepsPurpose /\ sweep'.stable = sweep.stable
      /\ UNCHANGED broker /\ UNCHANGED book /\ disturbed' = disturbed
    BY ReadOrdersFacts DEF IInv
<1>2. SweepShape' /\ KnownSound' /\ SeenSound' /\ disturbed' \in BOOLEAN
    BY <1>1, PurposeStays, SeenStays DEF IInv, SweepShape, Types, Stages
<1>3. ReadingsInOrder'
  <2>1. PICK p, q, o : p = sweep.positions /\ q = positions /\ o = OpenOrders
    OBVIOUS
  <2>2. /\ Onward(p, q)' /\ p = sweep'.positions /\ q = positions'
        /\ Later(o, o)' /\ o = sweep'.orders /\ o = OpenOrders'
    BY <1>1, <2>1, NowIsNow, OrderStays DEF IInv, ReadingsInOrder
  <2>3. Onward(sweep.positions, positions)' /\ Later(sweep.orders, OpenOrders)'
    BY <2>2 DEF Onward, Later
  <2> QED
    BY <1>1, <2>3 DEF ReadingsInOrder
<1> QED
    BY <1>1, <1>2, <1>3, ReadingKeeps

LEMMA ReadActivitiesKeeps ==
    ASSUME IInv, ReadActivities
    PROVE  IInv'
<1>1. /\ sweep.pc = "activities" /\ sweep'.pc = "account2" /\ DOMAIN sweep' = Fields("account2")
      /\ sweep'.seen = {i \in DOMAIN acts : InWindow(i)}
      /\ sweep'.orders = sweep.orders /\ sweep'.positions = sweep.positions
      /\ KeepsPurpose /\ sweep'.stable = sweep.stable
      /\ UNCHANGED broker /\ UNCHANGED book /\ disturbed' \in BOOLEAN
    BY ReadActivitiesFacts DEF IInv
<1>2. SweepShape'
    BY <1>1, PurposeStays DEF IInv, SweepShape, Stages
<1>3. acts' = acts /\ head' = head
    BY <1>1 DEF broker, book
<1>4. KnownSound'
    BY <1>1, <1>3 DEF IInv, KnownSound, KeepsPurpose
<1>5. SeenSound'
  <2>1. \A i \in sweep'.seen : i \in DOMAIN acts /\ acts[i].shown
    BY <1>1 DEF InWindow
  <2>2. head # None => head.known \subseteq sweep'.seen
    BY <1>1 DEF IInv, KnownSound, InWindow
  <2> QED
    BY <1>3, <2>1, <2>2 DEF SeenSound
<1>6. ReadingsInOrder'
  <2>1. PICK p, q, o, r : p = sweep.positions /\ q = positions /\ o = sweep.orders /\ r = OpenOrders
    OBVIOUS
  <2>2. /\ Onward(p, q)' /\ p = sweep'.positions /\ q = positions'
        /\ Later(o, r)' /\ o = sweep'.orders /\ r = OpenOrders'
    BY <1>1, <2>1, OrderStays DEF IInv, ReadingsInOrder
  <2>3. Onward(sweep.positions, positions)' /\ Later(sweep.orders, OpenOrders)'
    BY <2>2 DEF Onward, Later
  <2> QED
    BY <1>1, <2>3 DEF ReadingsInOrder
<1> QED
    BY <1>1, <1>2, <1>4, <1>5, <1>6, ReadingKeeps

LEMMA ReadAccountAgainKeeps ==
    ASSUME IInv, ReadAccountAgain
    PROVE  IInv'
<1>1. /\ sweep.pc = "account2" /\ sweep'.pc = "positions2" /\ DOMAIN sweep' = Fields("positions2")
      /\ sweep'.account = account /\ sweep'.stable \in BOOLEAN
      /\ sweep'.moment = [cash |-> account.cash, held |-> positions.held,
                          stock |-> positions.stock, orders |-> OpenOrders]
      /\ sweep'.seen = sweep.seen /\ sweep'.orders = sweep.orders /\ sweep'.positions = sweep.positions
      /\ KeepsPurpose /\ UNCHANGED broker /\ UNCHANGED book /\ disturbed' \in BOOLEAN
    BY ReadAccountAgainFacts DEF IInv
<1>2. SweepShape' /\ KnownSound' /\ SeenSound'
    BY <1>1, PurposeStays, SeenStays DEF Stages
<1>3. ReadingsInOrder'
  <2>1. PICK p, q, o, r : p = sweep.positions /\ q = positions /\ o = sweep.orders /\ r = OpenOrders
    OBVIOUS
  <2>2. AtMoment' = q /\ sweep'.moment.orders = r /\ sweep'.moment.cash = sweep'.account.cash
    BY <1>1, <2>1 DEF AtMoment, IInv, Types, Positions
  <2>3. /\ Onward(p, q)' /\ Onward(q, q)' /\ p = sweep'.positions /\ q = positions'
        /\ Later(o, r)' /\ Later(r, r)' /\ o = sweep'.orders /\ r = OpenOrders'
    BY <1>1, <2>1, NowIsNow, OrderStays DEF IInv, ReadingsInOrder
  <2>4. /\ Onward(sweep.positions, AtMoment)' /\ Onward(AtMoment, positions)'
        /\ Later(sweep.orders, sweep.moment.orders)' /\ Later(sweep.moment.orders, OpenOrders)'
    BY <2>2, <2>3 DEF Onward, Later
  <2> QED
    BY <1>1, <2>2, <2>4 DEF ReadingsInOrder
<1> QED
    BY <1>1, <1>2, <1>3, ReadingKeeps

\* Positions that only came or only went are the same at the end only if they were in between.
LEMMA ReadPositionsAgainKeeps ==
    ASSUME IInv, ReadPositionsAgain
    PROVE  IInv'
<1>1. /\ sweep.pc = "positions2" /\ sweep'.pc = "orders2" /\ DOMAIN sweep' = Fields("orders2")
      /\ sweep'.positions = positions
      /\ sweep'.stable = (sweep.stable /\ positions = sweep.positions)
      /\ sweep'.moment = sweep.moment
      /\ sweep'.seen = sweep.seen /\ sweep'.orders = sweep.orders /\ sweep'.account = sweep.account
      /\ KeepsPurpose /\ UNCHANGED broker /\ UNCHANGED book /\ disturbed' = disturbed
    BY ReadPositionsAgainFacts DEF IInv
<1>2. SweepShape' /\ KnownSound' /\ SeenSound' /\ disturbed' \in BOOLEAN
    BY <1>1, PurposeStays, SeenStays DEF Stages, IInv, Types
<1>3. ReadingsInOrder'
  <2>1. PICK a, o, r, m : a = AtMoment /\ o = sweep.orders /\ m = sweep.moment.orders /\ r = OpenOrders
    OBVIOUS
  <2>2. /\ Later(o, m)' /\ Later(m, r)' /\ o = sweep'.orders /\ r = OpenOrders' /\ m = sweep'.moment.orders
    BY <1>1, <2>1, OrderStays DEF IInv, ReadingsInOrder
  <2>3. Later(sweep.orders, sweep.moment.orders)' /\ Later(sweep.moment.orders, OpenOrders)'
    BY <2>2 DEF Later
  <2>4. sweep'.moment.cash = sweep'.account.cash
    BY <1>1 DEF IInv, ReadingsInOrder
  <2>5. sweep'.stable => positions = AtMoment
    <3> SUFFICES ASSUME positions = sweep.positions PROVE positions = AtMoment
      BY <1>1
    <3>1. Onward(positions, a) /\ Onward(a, positions)
      BY <1>1, <2>1 DEF IInv, ReadingsInOrder
    <3>2. positions \in Positions /\ a \in Positions
      BY <3>1 DEF Onward
    <3>3. a.held = positions.held
      BY <3>1, <3>2 DEF Onward, Positions
    <3>4. a.stock = positions.stock
      <4>1. a.stock \in BOOLEAN /\ positions.stock \in BOOLEAN
        BY <3>2 DEF Positions
      <4>2. (a.stock => positions.stock) /\ (positions.stock => a.stock)
        BY <3>1 DEF Onward
      <4> QED
        BY <4>1, <4>2
    <3>5. a = positions
      BY <3>2, <3>3, <3>4 DEF Positions
    <3> QED
      BY <2>1, <3>5
  <2>6. AtMoment' = AtMoment /\ sweep'.positions = positions
    BY <1>1 DEF AtMoment
  <2> QED
    BY <1>1, <2>3, <2>4, <2>5, <2>6 DEF ReadingsInOrder
<1> QED
    BY <1>1, <1>2, <1>3, ReadingKeeps

LEMMA LaterBack ==
    ASSUME NEW p, NEW q, Later(p, q), Later(q, p)
    PROVE  p = q
<1>1. \A f \in 0 .. Qty : OpenAt(f) # {}
    BY DEF OpenAt
<1>2. ASSUME NEW f \in 0 .. Qty, NEW g \in 0 .. Qty, OpenAt(f) = OpenAt(g) PROVE f = g
  <2>1. [n |-> finished + 1, fill |-> f] = [n |-> finished + 1, fill |-> g]
    BY <1>2 DEF OpenAt
  <2>2. [n |-> finished + 1, fill |-> f].fill = [n |-> finished + 1, fill |-> g].fill
    BY <2>1
  <2> QED
    BY <2>2
<1>3. CASE p = {} \/ q = {}
    BY <1>1, <1>3 DEF Later
<1>4. CASE p # {} /\ q # {}
  <2>1. PICK f \in 0 .. Qty, g \in 0 .. Qty : p = OpenAt(f) /\ f <= g /\ q = OpenAt(g)
    BY <1>4 DEF Later
  <2>2. PICK h \in 0 .. Qty, j \in 0 .. Qty : q = OpenAt(h) /\ h <= j /\ p = OpenAt(j)
    BY <1>4 DEF Later
  <2>3. g = h /\ f = j
    BY <1>2, <2>1, <2>2
  <2>4. f = g
    BY <2>1, <2>2, <2>3, SweepAssumption
  <2> QED
    BY <2>1, <2>4
<1> QED
    BY <1>3, <1>4

LEMMA ReadOrdersAgainKeeps ==
    ASSUME IInv, ReadOrdersAgain
    PROVE  IInv'
<1>1. /\ sweep.pc = "orders2" /\ sweep'.pc = "judge" /\ DOMAIN sweep' = Fields("judge")
      /\ sweep'.orders = OpenOrders
      /\ sweep'.stable = (sweep.stable /\ OpenOrders = sweep.orders)
      /\ sweep'.moment = sweep.moment
      /\ sweep'.seen = sweep.seen /\ sweep'.positions = sweep.positions /\ sweep'.account = sweep.account
      /\ KeepsPurpose /\ UNCHANGED broker /\ UNCHANGED book /\ disturbed' \in BOOLEAN
    BY ReadOrdersAgainFacts DEF IInv
<1>2. SweepShape' /\ KnownSound' /\ SeenSound'
    BY <1>1, PurposeStays, SeenStays DEF Stages
<1>3. ReadingsInOrder'
  <2>1. PICK r, m : m = sweep.moment.orders /\ r = OpenOrders
    OBVIOUS
  <2>2. sweep'.stable => r = m
    <3> SUFFICES ASSUME r = sweep.orders PROVE r = m
      BY <1>1, <2>1
    <3>1. Later(r, m) /\ Later(m, r)
      BY <1>1, <2>1 DEF IInv, ReadingsInOrder
    <3> QED
      BY <3>1, LaterBack
  <2>3. sweep'.moment.cash = sweep'.account.cash
    BY <1>1 DEF IInv, ReadingsInOrder
  <2>4. sweep'.stable => sweep'.positions = AtMoment'
    BY <1>1 DEF IInv, ReadingsInOrder, AtMoment
  <2> QED
    BY <1>1, <2>1, <2>2, <2>3, <2>4 DEF ReadingsInOrder
<1> QED
    BY <1>1, <1>2, <1>3, ReadingKeeps

-----------------------------------------------------------------------------
(* The rows *)

LEMMA SameBooks ==
    ASSUME BooksOK, UNCHANGED acts, UNCHANGED head, UNCHANGED finished
    PROVE  BooksOK'
<1>1. KnownFills' = KnownFills /\ DoneFills' = DoneFills /\ \A leg : LegFills(leg)' = LegFills(leg)
    BY DEF KnownFills, DoneFills, LegFills
<1> QED
    BY <1>1 DEF BooksOK

LEMMA HeadIsState ==
    ASSUME NEW cash \in Int, NEW held \in Int, NEW known \in SUBSET Nat, NEW resolved \in SUBSET Nat
    PROVE  State(cash, held, known, resolved) \in StateRow /\ State(cash, held, known, resolved) # None
<1>1. State(cash, held, known, resolved) \in StateRow
    BY DEF State, StateRow
<1>2. None \notin StateRow
    BY SweepAssumption DEF StateRow
<1> QED
    BY <1>1, <1>2

LEMMA SeenNumbers ==
    ASSUME IInv, sweep.pc = "judge"
    PROVE  /\ sweep.seen \in SUBSET DOMAIN acts /\ sweep.seen \in SUBSET Nat
           /\ \A i \in sweep.seen : acts[i].shown
           /\ head # None => head.known \subseteq sweep.seen /\ head \in StateRow
    BY ActsShape DEF IInv, SeenSound, Types

LEMMA InitializeKeeps ==
    ASSUME IInv, Initialize
    PROVE  IInv'
<1>1. /\ sweep.pc = "judge" /\ sweep.purpose = "BASELINE_INITIALIZATION" /\ sweep' = NoSweep
      /\ UNCHANGED <<account, positions, order, acts, mature, row, latched, finished, disturbed>>
    BY DEF Initialize, broker
<1>2. head = None /\ finished = 0 /\ row.st = "NONE"
  <2>1. head = None
    BY <1>1 DEF IInv, SweepShape
  <2> QED
    BY <2>1 DEF IInv, OrderSound
<1>3. CASE ~Accepted(sweep)
  <2>1. head' = head
    BY <1>2, <1>3 DEF Initialize
  <2> QED
    BY <1>1, <2>1, SweepEnds DEF broker, book, IInv, Types
<1>4. CASE Accepted(sweep)
  <2>1. head' = State(BaseCash, 0, sweep.seen, {})
    BY <1>4 DEF Initialize
  <2>2. Clean(sweep)
    BY <1>1, <1>4, AcceptedIs
  <2>3. sweep.seen \in SUBSET Nat /\ \A i \in sweep.seen : i \in DOMAIN acts /\ acts[i].shown /\ acts[i].type # "FILL"
    BY <1>1, <2>2, SeenNumbers DEF Clean
  <2>4. head' \in StateRow /\ head' # None
    BY <2>1, <2>3, HeadIsState, SweepAssumption
  <2>5. head'.held = 0 /\ head'.known = sweep.seen /\ head'.resolved = {}
    BY <2>1 DEF State
  <2>6. Types'
    BY <1>1, <2>4 DEF IInv, Types
  <2>7. SweepShape' /\ ReadingsInOrder' /\ KnownSound' /\ SeenSound'
    BY <1>1, <2>3, <2>5, IdleIs
  <2>8. OrderSound'
    BY <1>1, <1>2, <2>4 DEF IInv, OrderSound, Working
  <2>9. FillsSound'
    BY <1>1 DEF IInv, FillsSound, Current, FillsOf
  <2>10. BooksOK'
    <3>1. KnownFills' = {}
      BY <1>1, <2>3, <2>5 DEF KnownFills
    <3>2. DoneFills' = {}
      BY <1>1, <1>2 DEF DoneFills
    <3>3. ASSUME NEW leg PROVE LegFills(leg)' = {}
      BY <3>1 DEF LegFills
    <3>4. ASSUME NEW leg PROVE SumOf(acts, LegFills(leg))' = head'.held
      <4>1. SumOf(acts', {}) = 0
        BY SumOfNothing
      <4> QED
        BY <2>5, <3>3, <4>1
    <3> QED
      BY <2>5, <3>1, <3>2, <3>4 DEF BooksOK
  <2> QED
    BY <2>6, <2>7, <2>8, <2>9, <2>10 DEF IInv
<1> QED
    BY <1>3, <1>4

LEMMA KnownStays ==
    ASSUME IInv, UNCHANGED acts, UNCHANGED head
    PROVE  head' # None => \A i \in head'.known : i \in DOMAIN acts' /\ acts'[i].shown
    BY DEF IInv, KnownSound

LEMMA PrepareKeeps ==
    ASSUME IInv, Prepare
    PROVE  IInv'
<1>1. /\ sweep.pc = "judge" /\ sweep.purpose \in {"SUBMIT", "CANCEL"} /\ sweep' = NoSweep
      /\ latched' \in BOOLEAN
      /\ row' = row \/ (sweep.purpose = "SUBMIT" /\ row' = [st |-> "SENT", fill |-> 0])
      /\ UNCHANGED <<account, positions, order, acts, mature, head, finished, disturbed>>
    BY DEF Prepare, broker, NoRow
<1>2. row \in AttemptRow /\ row' \in AttemptRow
    BY <1>1 DEF IInv, Types, AttemptRow
<1>3. Types'
    BY <1>1, <1>2 DEF IInv, Types
<1>4. SweepShape' /\ ReadingsInOrder' /\ KnownSound' /\ SeenSound'
    BY <1>1, KnownStays, IdleIs
<1>5. FillsSound'
    BY <1>1 DEF IInv, FillsSound, Current, FillsOf
<1>6. OrderSound'
  <2>1. CASE row' = row
    BY <1>1, <2>1 DEF IInv, OrderSound, Working, Side
  <2>2. CASE sweep.purpose = "SUBMIT" /\ row' = [st |-> "SENT", fill |-> 0]
    <3>1. head # None /\ row.st = "NONE"
      BY <1>1, <2>2 DEF IInv, SweepShape
    <3> QED
      BY <1>1, <2>2, <3>1 DEF IInv, OrderSound, Working
  <2> QED
    BY <1>1, <2>1, <2>2
<1>7. BooksOK'
    BY <1>1, SameBooks DEF IInv
<1> QED
    BY <1>3, <1>4, <1>5, <1>6, <1>7 DEF IInv

LEMMA ArriveKeeps ==
    ASSUME IInv, Arrive
    PROVE  IInv'
<1>1. /\ row.st = "SENT" /\ row' = [st |-> "OPEN", fill |-> row.fill] /\ Side \in {1, -1}
      /\ order' = [open |-> TRUE, fill |-> 0, side |-> Side, executions |-> 0]
      /\ UNCHANGED <<account, positions, acts, mature, head, latched, finished, sweep, disturbed>>
    BY DEF Arrive, NoOrder, IInv, Types, AttemptRow, Side
<1>2. row.fill = 0 /\ order = NoOrder /\ head # None
    BY <1>1 DEF IInv, OrderSound
<1>3. sweep.pc = "idle"
  <2>1. sweep.pc # "idle" => sweep.purpose \in Purposes
    BY DEF IInv, SweepShape
  <2> QED
    BY <1>1, <1>2, <2>1 DEF IInv, SweepShape, Purposes
<1>4. order' \in BrokerOrder /\ row' \in AttemptRow
    BY <1>1, <1>2 DEF BrokerOrder, AttemptRow
<1>5. Types'
    BY <1>1, <1>4 DEF IInv, Types
<1>6. SweepShape' /\ ReadingsInOrder' /\ KnownSound' /\ SeenSound'
  <2>1. SweepShape'
    BY <1>1, <1>3 DEF IInv, SweepShape
  <2>2. ReadingsInOrder'
    BY <1>1, <1>3 DEF ReadingsInOrder
  <2>3. KnownSound' /\ SeenSound'
    BY <1>1, <1>3 DEF IInv, KnownSound, SeenSound
  <2> QED
    BY <2>1, <2>2, <2>3
<1>7. FillsSound'
  <2>1. Current' = Current /\ order.executions = 0
    BY <1>1, <1>2 DEF Current, FillsOf, NoOrder
  <2>2. Current' = {}
    BY <2>1 DEF IInv, FillsSound
  <2>3. order'.executions = 0
    BY <1>1
  <2>4. /\ 1 \in DOMAIN acts' /\ \A i \in DOMAIN acts' : acts'[i].type = "INITIAL_FUNDING" <=> i = 1
        /\ \A i \in DOMAIN acts' : acts'[i].type = "FILL" => acts'[i].order \in 1 .. finished' + 1 /\ acts'[i].leg \in Legs
    BY <1>1 DEF IInv, FillsSound
  <2> QED
    BY <2>2, <2>3, <2>4 DEF FillsSound
<1>8. OrderSound'
  <2>1. /\ order'.fill = 0 /\ order'.executions = 0 /\ order'.side = Side /\ Side' = Side
        /\ row'.st = "OPEN" /\ row'.fill = 0 /\ head' # None /\ 0 < Qty /\ 0 <= Qty /\ 0 <= 0
    BY <1>1, <1>2, SweepAssumption DEF Side
  <2> QED
    BY <2>1 DEF OrderSound
<1>9. BooksOK'
    BY <1>1, SameBooks DEF IInv
<1> QED
    BY <1>5, <1>6, <1>7, <1>8, <1>9 DEF IInv

LEMMA ObserveKeeps ==
    ASSUME IInv, Observe
    PROVE  IInv'
<1>1. /\ sweep.pc = "idle" /\ row.st = "OPEN"
      /\ row' = [st |-> IF order.open THEN "OPEN" ELSE "CLOSED", fill |-> order.fill]
      /\ UNCHANGED <<account, positions, order, acts, mature, head, latched, finished, sweep, disturbed>>
    BY DEF Observe, broker
<1>2. row' \in AttemptRow
    BY <1>1 DEF IInv, Types, AttemptRow, BrokerOrder
<1>3. Types'
    BY <1>1, <1>2 DEF IInv, Types
<1>4. SweepShape' /\ ReadingsInOrder' /\ KnownSound' /\ SeenSound'
  <2>1. SweepShape'
    BY <1>1 DEF IInv, SweepShape
  <2>2. ReadingsInOrder'
    BY <1>1 DEF ReadingsInOrder
  <2>3. KnownSound' /\ SeenSound'
    BY <1>1 DEF IInv, KnownSound, SeenSound
  <2> QED
    BY <2>1, <2>2, <2>3
<1>5. FillsSound'
    BY <1>1 DEF IInv, FillsSound, Current, FillsOf
<1>6. OrderSound'
  <2>1. row'.fill = order.fill /\ order.fill \in Nat
    BY <1>1 DEF IInv, Types, BrokerOrder
  <2>2. (row'.st = "OPEN" /\ order.open) \/ (row'.st = "CLOSED" /\ ~order.open)
    BY <1>1
  <2>3. head # None /\ order.side = Side /\ Side' = Side
    BY <1>1 DEF IInv, OrderSound, Working, Side
  <2> QED
    BY <1>1, <2>1, <2>2, <2>3 DEF IInv, OrderSound
<1>7. BooksOK'
    BY <1>1, SameBooks DEF IInv
<1> QED
    BY <1>3, <1>4, <1>5, <1>6, <1>7 DEF IInv

\* A final sweep that is accepted reports the order as a whole: nothing where nothing was
\* executed, and otherwise both legs of the one execution there was.
LEMMA AcceptedReports ==
    ASSUME IInv, sweep.pc = "judge", sweep.purpose = "FINAL", Accepted(sweep)
    PROVE  /\ {i \in sweep.seen : acts[i].type = "FILL"} = KnownFills \cup Current
           /\ order.fill = 0 => Current = {}
           /\ order.fill > 0 =>
                  \E a, b \in DOMAIN acts : /\ Current = {a, b} /\ acts[a].leg = 1 /\ acts[b].leg = 2
                                            /\ acts[a].qty = order.side * order.fill
                                            /\ acts[b].qty = order.side * order.fill
<1>1. row.st = "CLOSED" /\ row.fill = order.fill /\ order.side = Side /\ head # None
  <2>1. row.st = "CLOSED"
    BY DEF IInv, SweepShape
  <2> QED
    BY <2>1 DEF IInv, OrderSound, Working
<1>2. /\ sweep.seen \in SUBSET DOMAIN acts /\ head.known \subseteq sweep.seen
      /\ KnownFills = DoneFills
    BY <1>1, SeenNumbers DEF IInv, BooksOK
<1>3. Bound("FINAL", sweep.seen) = "BOUND"
    BY AcceptedIs
<1>4. order.fill \in Nat /\ order.side \in {1, -1} /\ finished \in Nat
    BY DEF IInv, Types, BrokerOrder
<1>5. \A i \in sweep.seen : acts[i].type = "FILL" => i \in KnownFills \/ (i \in Current /\ i \in New(sweep.seen))
  <2> SUFFICES ASSUME NEW i \in sweep.seen, acts[i].type = "FILL", i \notin KnownFills
               PROVE  i \in Current /\ i \in New(sweep.seen)
    OBVIOUS
  <2>1. i \in DOMAIN acts /\ acts[i].order \in 1 .. finished + 1
    BY <1>2 DEF IInv, FillsSound
  <2>2. acts[i].order \notin 1 .. finished
    BY <1>2, <2>1 DEF DoneFills
  <2>3. acts[i].order = finished + 1
    BY <1>4, <2>1, <2>2
  <2>4. i \in Current
    BY <2>1, <2>3 DEF Current, FillsOf
  <2>5. i \in New(sweep.seen)
    BY DEF New, KnownFills
  <2> QED
    BY <2>4, <2>5
<1>6. \A i \in KnownFills : i \in sweep.seen /\ acts[i].type = "FILL"
    BY <1>2 DEF KnownFills
<1>7. CASE order.fill = 0
  <2>1. Current = {}
    BY <1>7 DEF IInv, OrderSound, FillsSound
  <2> QED
    BY <1>4, <1>5, <1>6, <1>7, <2>1
<1>8. CASE order.fill > 0
  <2>1. New(sweep.seen) # {} /\ ReportsFill(New(sweep.seen))
    BY <1>1, <1>2, <1>3, <1>8, BoundIs
  <2>2. \A i \in New(sweep.seen) : /\ i \in Current /\ acts[i].qty = order.side * order.fill
                                   /\ i \in sweep.seen /\ acts[i].type = "FILL"
    BY <1>1, <1>2, <2>1 DEF ReportsFill, New, Current, FillsOf
  <2>3. order.executions = 1
    <3>1. PICK i \in New(sweep.seen) : TRUE
      BY <2>1
    <3>2. order.side * acts[i].qty = order.fill
      BY <1>4, <2>2
    <3>3. ~(order.side * acts[i].qty < order.fill)
      BY <1>4, <3>2
    <3> QED
      BY <2>2, <3>3 DEF IInv, FillsSound
  <2>4. PICK a \in DOMAIN acts, b \in DOMAIN acts :
                /\ Current = {a, b} /\ acts[a].leg = 1 /\ acts[b].leg = 2
                /\ acts[a].qty = order.side * order.fill /\ acts[b].qty = order.side * order.fill
    BY <2>3 DEF IInv, FillsSound
  <2>5. a \in New(sweep.seen) /\ b \in New(sweep.seen)
    <3>1. {acts[i].leg : i \in New(sweep.seen)} = {1, 2}
      BY <2>1 DEF ReportsFill, Legs
    <3>2. PICK x \in New(sweep.seen) : acts[x].leg = 1
      BY <3>1
    <3>3. PICK y \in New(sweep.seen) : acts[y].leg = 2
      BY <3>1
    <3> QED
      BY <2>2, <2>4, <3>2, <3>3
  <2>6. {i \in sweep.seen : acts[i].type = "FILL"} = KnownFills \cup Current
    BY <1>5, <1>6, <2>2, <2>4, <2>5
  <2> QED
    BY <1>4, <1>8, <2>4, <2>6
<1> QED
    BY <1>4, <1>7, <1>8

\* The next state of the account.
Concluded ==
    /\ head' = State(head.cash - Side * row.fill * Price, head.held + Side * row.fill, sweep.seen,
                     head.resolved \cup New(sweep.seen) \cup Fees(sweep.seen))
    /\ row' = NoRow /\ order' = NoOrder /\ finished' = finished + 1

LEMMA FinalizeIs ==
    ASSUME IInv, Finalize
    PROVE  /\ sweep.pc = "judge" /\ sweep.purpose = "FINAL" /\ sweep' = NoSweep
           /\ row.st = "CLOSED" /\ row.fill = order.fill /\ order.side = Side /\ head # None
           /\ latched' \in BOOLEAN /\ disturbed' \in BOOLEAN
           /\ UNCHANGED <<account, positions, acts, mature>>
           /\ \/ Accepted(sweep) /\ Concluded
              \/ UNCHANGED <<head, row, order, finished>>
<1>1. sweep.pc = "judge" /\ sweep.purpose = "FINAL"
    BY DEF Finalize
<1>2. row.st = "CLOSED"
    BY <1>1 DEF IInv, SweepShape
<1>3. row.fill = order.fill /\ order.side = Side /\ head # None
    BY <1>2 DEF IInv, OrderSound, Working
<1>4. latched' \in BOOLEAN /\ disturbed' \in BOOLEAN
    BY DEF Finalize, Disturb
<1>5. CASE Accepted(sweep) /\ ExposureKnown(sweep)
    BY <1>1, <1>2, <1>3, <1>4, <1>5 DEF Finalize, Concluded, Expected, ResolvedActivities
<1>6. CASE ~(Accepted(sweep) /\ ExposureKnown(sweep))
    BY <1>1, <1>2, <1>3, <1>4, <1>6 DEF Finalize
<1> QED
    BY <1>5, <1>6

LEMMA FinalizeKeeps ==
    ASSUME IInv, Finalize
    PROVE  IInv'
<1>1. /\ sweep.pc = "judge" /\ sweep.purpose = "FINAL" /\ sweep' = NoSweep
      /\ row.st = "CLOSED" /\ row.fill = order.fill /\ order.side = Side /\ head # None
      /\ latched' \in BOOLEAN /\ disturbed' \in BOOLEAN
      /\ UNCHANGED <<account, positions, acts, mature>>
    BY FinalizeIs
<1>2. CASE UNCHANGED <<head, row, order, finished>>
  <2>1. Types'
    BY <1>1, <1>2 DEF IInv, Types
  <2>2. SweepShape' /\ ReadingsInOrder' /\ KnownSound' /\ SeenSound'
    BY <1>1, <1>2, KnownStays, IdleIs
  <2>3. FillsSound' /\ OrderSound'
    BY <1>1, <1>2 DEF IInv, FillsSound, Current, FillsOf, OrderSound, Working, Side
  <2>4. BooksOK'
    BY <1>1, <1>2, SameBooks DEF IInv
  <2> QED
    BY <2>1, <2>2, <2>3, <2>4 DEF IInv
<1>3. CASE Accepted(sweep) /\ Concluded
  <2>0. /\ head \in StateRow /\ head.cash \in Int /\ head.held \in Int /\ head.resolved \in SUBSET Nat
        /\ head.resolved \subseteq head.known /\ head.known \subseteq sweep.seen
        /\ sweep.seen \in SUBSET Nat /\ \A i \in sweep.seen : i \in DOMAIN acts /\ acts[i].shown
        /\ order.fill \in Nat /\ order.side \in {1, -1} /\ Price \in Nat /\ finished \in Nat
    BY <1>1, SeenNumbers, SweepAssumption DEF IInv, Types, StateRow, BooksOK, BrokerOrder
  <2>1. /\ head.cash - Side * row.fill * Price \in Int /\ head.held + Side * row.fill \in Int
    BY <1>1, <2>0
  <2>2. head.resolved \cup New(sweep.seen) \cup Fees(sweep.seen) \in SUBSET sweep.seen
    BY <2>0 DEF New, Fees
  <2>3. head' \in StateRow /\ head' # None
    <3>1. head.resolved \cup New(sweep.seen) \cup Fees(sweep.seen) \in SUBSET Nat
      BY <2>0, <2>2
    <3> QED
      BY <1>3, <2>0, <2>1, <3>1, HeadIsState DEF Concluded
  <2>4. /\ head'.held = head.held + Side * row.fill /\ head'.known = sweep.seen
        /\ head'.resolved \subseteq head'.known
    BY <1>3, <2>2 DEF Concluded, State
  <2>5. order' = NoOrder /\ row' = NoRow /\ finished' = finished + 1
    BY <1>3 DEF Concluded
  <2>6. Types'
    <3>1. NoOrder \in BrokerOrder /\ NoRow \in AttemptRow
      BY DEF NoOrder, BrokerOrder, NoRow, AttemptRow
    <3> QED
      BY <1>1, <2>0, <2>3, <2>5, <3>1 DEF IInv, Types
  <2>7. SweepShape' /\ ReadingsInOrder' /\ KnownSound' /\ SeenSound'
    BY <1>1, <2>0, <2>4, IdleIs
  <2>8. OrderSound'
    <3>1. /\ order'.fill = 0 /\ order'.executions = 0 /\ ~order'.open /\ row'.st = "NONE" /\ row'.fill = 0
      BY <2>5 DEF NoOrder, NoRow
    <3>2. 0 <= Qty
      BY SweepAssumption
    <3> QED
      BY <2>3, <2>5, <3>1, <3>2 DEF OrderSound, Working
  <2>9. FillsSound'
    <3>1. \A i \in DOMAIN acts : acts[i].type = "FILL" => acts[i].order \in 1 .. finished + 1 /\ acts[i].leg \in Legs
      BY DEF IInv, FillsSound
    <3>2. \A x \in 1 .. finished + 1 : x \in 1 .. (finished + 1) + 1 /\ x # (finished + 1) + 1
      BY <2>0
    <3>3. Current' = {}
      BY <1>1, <2>5, <3>1, <3>2 DEF Current, FillsOf
    <3>4. order'.executions = 0
      BY <2>5 DEF NoOrder
    <3>5. \A i \in DOMAIN acts' : acts'[i].type = "FILL" => acts'[i].order \in 1 .. finished' + 1 /\ acts'[i].leg \in Legs
      BY <1>1, <2>5, <3>1, <3>2
    <3>6. 1 \in DOMAIN acts' /\ \A i \in DOMAIN acts' : acts'[i].type = "INITIAL_FUNDING" <=> i = 1
      BY <1>1 DEF IInv, FillsSound
    <3> QED
      BY <3>3, <3>4, <3>5, <3>6 DEF FillsSound
  <2>10. KnownFills' = KnownFills \cup Current
    <3>1. KnownFills' = {i \in sweep.seen : acts[i].type = "FILL"}
      BY <1>1, <2>4 DEF KnownFills
    <3> QED
      BY <1>1, <1>3, <3>1, AcceptedReports
  <2>11. KnownFills' = DoneFills'
    <3>1. DoneFills' = {i \in DOMAIN acts : acts[i].type = "FILL" /\ acts[i].order \in 1 .. finished + 1}
      BY <1>1, <2>5 DEF DoneFills
    <3>2. \A x : x \in 1 .. finished + 1 <=> x \in 1 .. finished \/ x = finished + 1
      BY <2>0
    <3>3. DoneFills' = DoneFills \cup Current
      BY <3>1, <3>2 DEF DoneFills, Current, FillsOf
    <3> QED
      BY <1>1, <2>10, <3>3 DEF IInv, BooksOK
  <2>12. ASSUME NEW leg \in Legs PROVE SumOf(acts, LegFills(leg)') = head.held + Side * row.fill
    <3>0. LegFills(leg)' = LegFills(leg) \cup {i \in Current : acts[i].leg = leg}
      BY <1>1, <2>10 DEF LegFills
    <3>1. SumOf(acts, LegFills(leg)) = head.held
      BY <1>1 DEF IInv, BooksOK
    <3>2. CASE order.fill = 0
      <4>1. Current = {}
        BY <1>1, <1>3, <3>2, AcceptedReports
      <4>2. LegFills(leg)' = LegFills(leg)
        BY <3>0, <4>1
      <4>3. head.held = head.held + Side * row.fill
        BY <1>1, <2>0, <3>2
      <4> QED
        BY <3>1, <4>2, <4>3
    <3>3. CASE order.fill > 0
      <4>1. PICK a \in DOMAIN acts, b \in DOMAIN acts :
                    /\ Current = {a, b} /\ acts[a].leg = 1 /\ acts[b].leg = 2
                    /\ acts[a].qty = order.side * order.fill /\ acts[b].qty = order.side * order.fill
        BY <1>1, <1>3, <3>3, AcceptedReports
      <4>2. PICK c \in Current : /\ {i \in Current : acts[i].leg = leg} = {c}
                                 /\ acts[c].qty = Side * row.fill
        <5>1. leg = 1 \/ leg = 2
          BY DEF Legs
        <5>2. CASE leg = 1
          BY <1>1, <4>1, <5>2
        <5>3. CASE leg = 2
          BY <1>1, <4>1, <5>3
        <5> QED
          BY <5>1, <5>2, <5>3
      <4>3. LegFills(leg) \in SUBSET DOMAIN acts /\ c \in DOMAIN acts /\ c \notin LegFills(leg)
        <5>1. KnownFills = DoneFills
          BY <1>1 DEF IInv, BooksOK
        <5>2. finished + 1 \notin 1 .. finished
          BY <2>0
        <5> QED
          BY <5>1, <5>2 DEF LegFills, DoneFills, Current, FillsOf
      <4>4. IsFiniteSet(LegFills(leg))
        <5>1. IsFiniteSet(1 .. Len(acts)) /\ DOMAIN acts = 1 .. Len(acts)
          BY FS_Interval, ActsShape DEF IInv
        <5> QED
          BY <4>3, <5>1, FS_Subset
      <4>5. \A x \in LegFills(leg) \cup {c} : acts[x].qty \in Int
        BY <4>3, ActsShape DEF IInv, Activity
      <4>6. SumOf(acts, LegFills(leg) \cup {c}) = SumOf(acts, LegFills(leg)) + acts[c].qty
        BY <4>3, <4>4, <4>5, SumAdds
      <4> QED
        BY <3>0, <3>1, <4>2, <4>6
    <3> QED
      BY <2>0, <3>2, <3>3
  <2>13. BooksOK'
    BY <1>1, <2>4, <2>11, <2>12 DEF BooksOK
  <2> QED
    BY <2>6, <2>7, <2>8, <2>9, <2>13 DEF IInv
<1> QED
    BY <1>2, <1>3, FinalizeIs

LEMMA InitIs == Init => IInv
<1> SUFFICES ASSUME Init PROVE IInv
    OBVIOUS
<1> DEFINE f == [type |-> "INITIAL_FUNDING", order |-> 0, leg |-> 0, qty |-> 0, shown |-> TRUE]
<1>1. acts = <<f>> /\ head = None /\ row = NoRow /\ order = NoOrder /\ finished = 0 /\ sweep = NoSweep
    BY DEF Init
<1>2. f \in Activity
    BY DEF Activity, ActivityTypes
<1>3. f.type = "INITIAL_FUNDING"
    OBVIOUS
<1> HIDE DEF f
<1>4. acts \in Seq(Activity) /\ Len(acts) = 1 /\ acts[1] = f
    BY <1>1, <1>2
<1>5. DOMAIN acts = {1}
  <2>1. DOMAIN acts = 1 .. 1
    BY <1>4, LenProperties
  <2> QED
    BY <2>1
<1>6. Types
  <2>1. NoOrder \in BrokerOrder /\ NoRow \in AttemptRow
    BY DEF NoOrder, BrokerOrder, NoRow, AttemptRow
  <2>2. account \in [cash : Int, blocked : BOOLEAN] /\ positions \in Positions
    BY SweepAssumption DEF Init, Positions
  <2>3. mature \in BOOLEAN /\ latched \in BOOLEAN /\ disturbed \in BOOLEAN
    BY DEF Init
  <2> QED
    BY <1>1, <1>4, <2>1, <2>2, <2>3 DEF Types
<1>7. sweep.pc = "idle" /\ DOMAIN sweep = {"pc"} /\ Fields("idle") = {"pc"}
    BY <1>1 DEF NoSweep, Fields
<1>8. SweepShape /\ ReadingsInOrder /\ KnownSound /\ SeenSound
    BY <1>1, <1>7 DEF SweepShape, Stages, ReadingsInOrder, KnownSound, SeenSound
<1>9. OrderSound
  <2>1. order.fill = 0 /\ order.executions = 0 /\ ~order.open /\ row.st = "NONE" /\ row.fill = 0
    BY <1>1 DEF NoOrder, NoRow
  <2>2. 0 <= Qty
    BY SweepAssumption
  <2> QED
    BY <1>1, <2>1, <2>2 DEF OrderSound, Working
<1>10. FillsSound
  <2>1. order.executions = 0
    BY <1>1 DEF NoOrder
  <2>2. Current = {}
    BY <1>3, <1>4, <1>5 DEF Current, FillsOf
  <2> QED
    BY <1>3, <1>4, <1>5, <2>1, <2>2 DEF FillsSound
<1>11. BooksOK
    BY <1>1 DEF BooksOK
<1> QED
    BY <1>6, <1>8, <1>9, <1>10, <1>11 DEF IInv

LEMMA NextKeeps == IInv /\ [Next]_vars => IInv'
<1> SUFFICES ASSUME IInv, [Next]_vars PROVE IInv'
    OBVIOUS
<1>0. disturbed \in BOOLEAN
    BY DEF IInv, Types
<1>1. CASE Outside
    BY <1>1, OutsideKeeps
<1>2. CASE ReadAccount \/ ReadPositions \/ ReadOrders \/ ReadActivities
    BY <1>2, ReadAccountKeeps, ReadPositionsKeeps, ReadOrdersKeeps, ReadActivitiesKeeps
<1>3. CASE ReadAccountAgain \/ ReadPositionsAgain \/ ReadOrdersAgain
    BY <1>3, ReadAccountAgainKeeps, ReadPositionsAgainKeeps, ReadOrdersAgainKeeps
<1>4. CASE SweepFails \/ Review
    BY <1>0, <1>4, SweepEnds DEF SweepFails, Review
<1>5. CASE Initialize \/ Prepare \/ Arrive \/ Observe \/ Finalize
    BY <1>5, InitializeKeeps, PrepareKeeps, ArriveKeeps, ObserveKeeps, FinalizeKeeps
<1>6. CASE UNCHANGED vars
  <2>1. sweep' = sweep /\ disturbed' = disturbed /\ UNCHANGED broker /\ UNCHANGED book
    BY <1>6 DEF vars
  <2>2. positions' = positions /\ OpenOrders' = OpenOrders /\ order' = order /\ finished' = finished
    BY <2>1 DEF broker, book, OpenOrders
  <2>3. SweepShape'
    BY <2>1 DEF IInv, SweepShape, book
  <2>4. ReadingsInOrder'
    BY <2>1, <2>2 DEF IInv, ReadingsInOrder, AtMoment, Onward, Later, OpenAt
  <2>5. KnownSound' /\ SeenSound'
    BY <2>1 DEF IInv, KnownSound, SeenSound, broker, book
  <2> QED
    BY <1>0, <2>1, <2>3, <2>4, <2>5, ReadingKeeps
<1> QED
    BY <1>1, <1>2, <1>3, <1>4, <1>5, <1>6 DEF Next

\* The broker, the rows and the sweep have their types, and the rows stand to the broker's
\* order and to the provider's activities as the other theorems need them to.
THEOREM RowsAreSound == Spec => []IInv
<1>1. Init => IInv
    BY InitIs
<1>2. IInv /\ [Next]_vars => IInv'
    BY NextKeeps
<1> QED
    BY <1>1, <1>2, PTL DEF Spec

\* However the requests of a sweep and the events at the broker are interleaved, a sweep
\* that is accepted is true of the moment of its second account reading.
THEOREM AcceptedSweepsAreTrue == Spec => []AcceptedIsTrueAtOnce
<1>1. IInv => AcceptedIsTrueAtOnce
    BY ReadingsAreTrue DEF IInv
<1> QED
    BY <1>1, RowsAreSound, PTL

\* However many orders are finalized, the newest reconciliation state knows exactly their
\* fills, these add up to its positions on each leg, and what it resolved it knows.
THEOREM BooksAreExplained == Spec => []BooksExplained
<1>1. IInv => BooksExplained
    BY BooksIs DEF IInv
<1> QED
    BY <1>1, RowsAreSound, PTL

-----------------------------------------------------------------------------
(* The latch *)

FeesOf(A) == {i \in DOMAIN A : A[i].type = "FEE"}
FeesCharged == SumOf(acts, FeesOf(acts))
HeadHeld == IF head = None THEN 0 ELSE head.held

\* Whatever happens: the state row is the baseline and the positions it expects, these are
\* the broker's but for the order that is not finished, and what the row knows and did not
\* resolve are fills and the funding.
CashSound ==
    /\ head # None => /\ head.cash = BaseCash - Price * head.held
                      /\ mature /\ 1 \in head.known
                      /\ \A i \in head.known \ head.resolved : acts[i].type \in {"FILL", "INITIAL_FUNDING"}
    /\ positions.held = HeadHeld + order.side * order.fill
    /\ sweep.pc # "idle" /\ sweep.mature => mature

\* The broker as long as nothing has disturbed the account.
Calm ==
    /\ ~account.blocked /\ ~positions.stock
    /\ \A i \in DOMAIN acts : acts[i].type \in {"INITIAL_FUNDING", "FILL", "FEE"}
    /\ order.executions <= 1
    /\ FeesCharged \in Int /\ 0 <= FeesCharged /\ FeesCharged <= MaxFeeDrag
    /\ account.cash = BaseCash - Price * positions.held - FeesCharged

\* A sweep as long as nothing has disturbed it: it read what still is.
CalmSweep ==
    sweep.pc # "idle" /\ sweep.purpose # "REVIEW" =>
        /\ sweep.stable /\ sweep.account = account
        /\ head # None => sweep.mature
        /\ sweep.purpose = "CANCEL" => OpenOrders = Expected("CANCEL").orders
        /\ sweep.pc \in {"orders", "activities", "account2", "positions2", "orders2", "judge"} => sweep.positions = positions
        /\ sweep.pc \in {"activities", "account2", "positions2", "orders2", "judge"} => sweep.orders = OpenOrders
        /\ sweep.pc \in {"account2", "positions2", "orders2", "judge"} => ~OneLegShows(sweep.seen)
        /\ sweep.pc \in {"positions2", "orders2", "judge"} /\ sweep.purpose = "FINAL" => sweep.together
        /\ sweep.pc = "judge" => ~sweep.slow

CInv == CashSound /\ (~disturbed => ~latched /\ Calm /\ CalmSweep)

\* The two legs of the one execution show together.
LEMMA NewReports ==
    ASSUME IInv, CInv, ~disturbed, sweep.pc = "judge", sweep.purpose \in {"SUBMIT", "CANCEL", "FINAL"},
           head # None, New(sweep.seen) # {}
    PROVE  row.st # "NONE" /\ (row.fill = order.fill => ReportsFill(New(sweep.seen)))
<1>0. /\ sweep.seen \in SUBSET DOMAIN acts /\ head.known \subseteq sweep.seen /\ 1 \in head.known
      /\ KnownFills = DoneFills /\ Calm /\ CalmSweep /\ finished \in Nat
      /\ order.executions \in Nat /\ order.fill \in Nat
    BY SeenNumbers DEF IInv, BooksOK, CInv, CashSound, Types, BrokerOrder
<1>1. ~OneLegShows(sweep.seen)
    BY <1>0 DEF CalmSweep
<1>2. ASSUME NEW i \in New(sweep.seen) PROVE i \in Current /\ i \in sweep.seen
  <2>1. i \in sweep.seen /\ i \notin head.known /\ i \in DOMAIN acts /\ acts[i].type # "FEE"
    BY <1>0 DEF New
  <2>2. i # 1
    BY <1>0, <2>1
  <2>3. acts[i].type = "FILL"
    BY <1>0, <2>1, <2>2 DEF Calm, IInv, FillsSound
  <2>4. acts[i].order \in 1 .. finished + 1
    BY <2>1, <2>3 DEF IInv, FillsSound
  <2>5. i \notin DoneFills
    BY <1>0, <2>1 DEF KnownFills
  <2>6. acts[i].order \notin 1 .. finished
    BY <2>1, <2>3, <2>5 DEF DoneFills
  <2>7. acts[i].order = finished + 1
    BY <1>0, <2>4, <2>6
  <2> QED
    BY <2>1, <2>3, <2>7 DEF Current, FillsOf
<1>3. PICK c \in New(sweep.seen) : c \in Current /\ c \in sweep.seen
    BY <1>2
<1>4. order.executions = 1
  <2>1. order.executions # 0
    BY <1>3 DEF IInv, FillsSound
  <2> QED
    BY <1>0, <2>1 DEF Calm
<1>5. PICK a \in DOMAIN acts, b \in DOMAIN acts :
                /\ Current = {a, b} /\ acts[a].leg = 1 /\ acts[b].leg = 2
                /\ acts[a].qty = order.side * order.fill /\ acts[b].qty = order.side * order.fill
    BY <1>4 DEF IInv, FillsSound
<1>6. /\ row.st # "NONE" /\ Working /\ order.side = Side /\ order.fill > 0
  <2>1. order # NoOrder
    BY <1>4 DEF NoOrder
  <2>2. row.st \in {"OPEN", "CLOSED"}
    BY <2>1 DEF IInv, Types, AttemptRow, OrderSound
  <2>3. order.fill # 0
    BY <1>4 DEF IInv, OrderSound
  <2> QED
    BY <1>0, <2>2, <2>3 DEF IInv, OrderSound, Working
<1>7. \A i \in Current : i \in DOMAIN acts /\ acts[i].type = "FILL" /\ acts[i].order = finished + 1 /\ i \notin head.known
  <2>1. finished + 1 \notin 1 .. finished
    BY <1>0
  <2> QED
    BY <1>0, <2>1 DEF Current, FillsOf, DoneFills, KnownFills
<1>8. a \in sweep.seen /\ b \in sweep.seen
    BY <1>1, <1>3, <1>5, <1>7 DEF OneLegShows
<1>9. New(sweep.seen) = {a, b}
  <2>1. a \in New(sweep.seen) /\ b \in New(sweep.seen)
    BY <1>5, <1>7, <1>8 DEF New
  <2> QED
    BY <1>2, <1>5, <2>1
<1>10. ASSUME row.fill = order.fill PROVE ReportsFill(New(sweep.seen))
  <2>1. a # b
    BY <1>5
  <2>2. Cardinality({a, b}) = 2 /\ Cardinality({1, 2}) = 2
    <3>1. \A x, y : x # y => Cardinality({x, y}) = 2
      <4> TAKE x, y
      <4> HAVE x # y
      <4>1. IsFiniteSet({x}) /\ Cardinality({x}) = 1
        BY FS_Singleton
      <4>2. {x, y} = {x} \cup {y} /\ y \notin {x}
        OBVIOUS
      <4>3. Cardinality({x} \cup {y}) = Cardinality({x}) + 1
        BY <4>1, <4>2, FS_AddElement, ZenonT(60)
      <4> QED
        BY <4>1, <4>2, <4>3
    <3>2. 1 # 2
      OBVIOUS
    <3> QED
      BY <2>1, <3>1, <3>2, Zenon
  <2>3. {acts[i].leg : i \in {a, b}} = {1, 2}
    BY <1>5
  <2> QED
    BY <1>5, <1>6, <1>7, <1>9, <1>10, <2>2, <2>3 DEF ReportsFill, Legs
<1> QED
    BY <1>6, <1>10

\* What the rows expect of a sweep that nothing disturbed is what is.
LEMMA ExpectedIs ==
    ASSUME IInv, CInv, ~disturbed, sweep.pc = "judge", sweep.purpose \in {"SUBMIT", "CANCEL", "FINAL"}
    PROVE  /\ head # None /\ head \in StateRow /\ Side \in {1, -1}
           /\ row.st # "NONE" => row.fill = order.fill
           /\ order.side * order.fill = Side * row.fill
           /\ OpenOrders = Expected(sweep.purpose).orders
<1>0. head \in StateRow \cup {None} /\ order.fill \in Nat /\ Side \in {1, -1}
    BY DEF IInv, Types, BrokerOrder, Side
<1>1. CASE sweep.purpose = "SUBMIT"
  <2>1. head # None /\ row.st = "NONE"
    BY <1>1 DEF IInv, SweepShape
  <2>2. row.fill = 0 /\ order = NoOrder
    BY <2>1 DEF IInv, OrderSound
  <2>3. order.side * order.fill = Side * row.fill
    BY <1>0, <2>2 DEF NoOrder
  <2>4. OpenOrders = {} /\ Expected("SUBMIT").orders = {}
    BY <2>2 DEF OpenOrders, NoOrder, Expected
  <2> QED
    BY <1>0, <1>1, <2>1, <2>3, <2>4
<1>2. CASE sweep.purpose = "CANCEL"
  <2>1. row.st = "OPEN" /\ OpenOrders = Expected("CANCEL").orders
    BY <1>2 DEF IInv, SweepShape, CInv, CalmSweep
  <2>2. head # None /\ order.side = Side
    BY <2>1 DEF IInv, OrderSound, Working
  <2>3. OpenOrders = {[n |-> finished + 1, fill |-> row.fill]}
    BY <2>1 DEF Expected
  <2>4. [n |-> finished + 1, fill |-> order.fill] = [n |-> finished + 1, fill |-> row.fill]
    BY <2>3 DEF OpenOrders
  <2>5. [n |-> finished + 1, fill |-> order.fill].fill = [n |-> finished + 1, fill |-> row.fill].fill
    BY <2>4
  <2>6. order.fill = row.fill
    BY <2>5
  <2> QED
    BY <1>0, <1>2, <2>1, <2>2, <2>6
<1>3. CASE sweep.purpose = "FINAL"
  <2>1. row.st = "CLOSED"
    BY <1>3 DEF IInv, SweepShape
  <2>2. head # None /\ order.side = Side /\ row.fill = order.fill /\ ~order.open
    BY <2>1 DEF IInv, OrderSound, Working
  <2>3. OpenOrders = {} /\ Expected("FINAL").orders = {}
    BY <2>2 DEF OpenOrders, Expected
  <2> QED
    BY <1>0, <1>3, <2>2, <2>3
<1> QED
    BY <1>1, <1>2, <1>3

LEMMA CalmBound ==
    ASSUME IInv, CInv, ~disturbed, sweep.pc = "judge", sweep.purpose \in {"SUBMIT", "CANCEL", "FINAL"}
    PROVE  \/ Bound(sweep.purpose, sweep.seen) = "BOUND"
           \/ sweep.purpose = "FINAL" /\ Bound(sweep.purpose, sweep.seen) = "ATTEMPT_ACTIVITY_EVIDENCE_PENDING"
<1>1. head # None /\ (row.st # "NONE" => row.fill = order.fill)
    BY ExpectedIs
<1>2. head.known \subseteq sweep.seen
    BY <1>1, SeenNumbers
<1>3. CASE New(sweep.seen) = {}
    BY <1>2, <1>3, BoundIs
<1>4. CASE New(sweep.seen) # {}
  <2>1. ReportsFill(New(sweep.seen))
    BY <1>1, <1>4, NewReports
  <2> QED
    BY <1>2, <1>4, <2>1, BoundIs
<1> QED
    BY <1>3, <1>4

LEMMA CalmUnblocked ==
    ASSUME IInv, CInv, ~disturbed, sweep.pc = "judge", sweep.purpose \in {"SUBMIT", "CANCEL", "FINAL"}
    PROVE  Unblocked(sweep)
<1>1. /\ head # None /\ head \in StateRow /\ Side \in {1, -1} /\ order.side * order.fill = Side * row.fill
      /\ OpenOrders = Expected(sweep.purpose).orders
    BY ExpectedIs
<1>2. /\ sweep.mature /\ ~sweep.slow /\ sweep.stable /\ sweep.account = account
      /\ sweep.positions = positions /\ sweep.orders = OpenOrders
    BY <1>1 DEF CInv, CalmSweep
<1>3. Calm /\ CashSound
    BY DEF CInv
<1>4. /\ head.known \subseteq sweep.seen
    BY <1>1, SeenNumbers
<1>5. /\ Expected(sweep.purpose).cash = head.cash - Side * row.fill * Price
      /\ Expected(sweep.purpose).held = head.held + Side * row.fill
    BY DEF Expected
<1>6. sweep.positions = [held |-> Expected(sweep.purpose).held, stock |-> FALSE]
  <2>1. positions \in Positions
    BY DEF IInv, Types
  <2>2. positions.held = head.held + Side * row.fill /\ positions.stock = FALSE
    BY <1>1, <1>3, <2>1 DEF CashSound, Calm, Positions, HeadHeld
  <2> QED
    BY <1>2, <1>5, <2>1, <2>2 DEF Positions
<1>7. CashWithinFeeTolerance(sweep.account.cash, Expected(sweep.purpose).cash)
  <2>1. PICK d : d = Side * row.fill
    OBVIOUS
  <2>2. row.fill \in Nat /\ head.held \in Int /\ Price \in Nat /\ BaseCash \in Nat /\ MaxFeeDrag \in Nat
    BY <1>1, SweepAssumption DEF IInv, Types, AttemptRow, StateRow
  <2>3. d \in Int
    BY <1>1, <2>1, <2>2
  <2>4. /\ head.cash = BaseCash - Price * head.held
        /\ positions.held = head.held + d
        /\ account.cash = BaseCash - Price * positions.held - FeesCharged
        /\ FeesCharged \in Int /\ 0 <= FeesCharged /\ FeesCharged <= MaxFeeDrag
    BY <1>1, <1>3, <2>1 DEF CashSound, Calm, HeadHeld
  <2>5. PICK h, x : h = head.held /\ x = FeesCharged
    OBVIOUS
  <2>6. /\ Expected(sweep.purpose).cash = (BaseCash - Price * h) - d * Price
        /\ sweep.account.cash = BaseCash - Price * (h + d) - x
        /\ h \in Int /\ x \in Int /\ 0 <= x /\ x <= MaxFeeDrag
    BY <1>2, <1>5, <2>1, <2>2, <2>4, <2>5
  <2>7. Price * (h + d) = Price * h + d * Price /\ Price * h \in Int /\ d * Price \in Int
    BY <2>2, <2>3, <2>6
  <2>8. PICK u, v : u = Price * h /\ v = d * Price
    OBVIOUS
  <2>9. /\ Expected(sweep.purpose).cash = (BaseCash - u) - v
        /\ sweep.account.cash = BaseCash - (u + v) - x
        /\ u \in Int /\ v \in Int
    BY <2>6, <2>7, <2>8
  <2>10. Expected(sweep.purpose).cash - sweep.account.cash = x
    BY <2>2, <2>6, <2>9
  <2> QED
    BY <2>6, <2>10 DEF CashWithinFeeTolerance
<1>8. ASSUME NEW i \in sweep.seen \ ResolvedActivities(sweep.purpose, sweep.seen)
      PROVE  acts[i].type \in {"FILL", "INITIAL_FUNDING"}
  <2>1. ResolvedActivities(sweep.purpose, sweep.seen) = head.resolved \cup New(sweep.seen) \cup Fees(sweep.seen)
    BY DEF ResolvedActivities
  <2>2. i \in head.known /\ i \notin head.resolved
    BY <2>1 DEF New, Fees
  <2> QED
    BY <1>1, <1>3, <2>2 DEF CashSound
<1>9. /\ {acts[i].type : i \in sweep.seen \ ResolvedActivities(sweep.purpose, sweep.seen)} \cap Adjustments = {}
      /\ {acts[i].type : i \in sweep.seen \ ResolvedActivities(sweep.purpose, sweep.seen)} \cap Assignments = {}
    BY <1>8 DEF Adjustments, Assignments
<1>10. KnownActivities(sweep.purpose, sweep.seen) =
           IF New(sweep.seen) = {} THEN head.known \cup Fees(sweep.seen) ELSE sweep.seen
    BY DEF KnownActivities
<1>11. /\ KnownActivities(sweep.purpose, sweep.seen) \subseteq sweep.seen
       /\ ~\E i \in sweep.seen \ KnownActivities(sweep.purpose, sweep.seen) : acts[i].type # "FEE"
    BY <1>4, <1>10 DEF New, Fees
<1>12. ~sweep.account.blocked /\ ~sweep.positions.stock
    BY <1>2, <1>3 DEF Calm
<1> QED
    BY <1>1, <1>2, <1>6, <1>7, <1>9, <1>11, <1>12 DEF Unblocked

\* A sweep that nothing disturbed is accepted; the final one may have to wait for its evidence.
LEMMA CalmAccepts ==
    ASSUME IInv, CInv, ~disturbed, sweep.pc = "judge", sweep.purpose \in {"SUBMIT", "CANCEL", "FINAL"}
    PROVE  \/ Accepted(sweep)
           \/ sweep.purpose = "FINAL" /\ Bound("FINAL", sweep.seen) = "ATTEMPT_ACTIVITY_EVIDENCE_PENDING"
<1>1. BlockCodes(sweep) = {}
    BY CalmUnblocked, UnblockedIs
<1> QED
    BY <1>1, CalmBound, AcceptedIs

LEMMA FeesAre ==
    ASSUME Types
    PROVE  IsFiniteSet(FeesOf(acts)) /\ \A i \in FeesOf(acts) : i \in DOMAIN acts /\ acts[i].qty \in Int
<1>1. IsFiniteSet(1 .. Len(acts)) /\ DOMAIN acts = 1 .. Len(acts)
    BY FS_Interval, ActsShape
<1>2. FeesOf(acts) \in SUBSET DOMAIN acts
    BY DEF FeesOf
<1> QED
    BY <1>1, <1>2, FS_Subset, ActsShape DEF Activity

LEMMA FeesStay ==
    ASSUME Types, Grows, \A i \in DOMAIN acts' \ DOMAIN acts : acts'[i].type # "FEE"
    PROVE  FeesCharged' = FeesCharged
<1>1. FeesOf(acts') = FeesOf(acts)
    BY DEF Grows, SameActivity, FeesOf
<1>2. \A i \in FeesOf(acts) : acts'[i].qty = acts[i].qty
    BY FeesAre DEF Grows, SameActivity
<1>3. PICK A, B : A = acts /\ B = acts'
    OBVIOUS
<1>4. SumOf(A, FeesOf(A)) = SumOf(B, FeesOf(A)) /\ FeesOf(B) = FeesOf(A)
    BY <1>1, <1>2, <1>3, FeesAre, SumSame
<1> QED
    BY <1>3, <1>4 DEF FeesCharged

LEMMA OutsideCash ==
    ASSUME IInv, CInv, Outside
    PROVE  CashSound'
<1>1. /\ Grows /\ head' = head /\ sweep' = sweep /\ HeadHeld' = HeadHeld
    BY OutsideTypes DEF IInv, book, HeadHeld
<1>2. mature => mature'
    BY OutsideIs DEF IInv, Executed, Charged, Happened, Closed, ShownOne, Passed
<1>3. head # None => \A i \in head.known \ head.resolved : acts'[i].type \in {"FILL", "INITIAL_FUNDING"}
    BY <1>1 DEF IInv, KnownSound, CInv, CashSound, Grows, SameActivity
<1>4. positions'.held = HeadHeld + order'.side * order'.fill
  <2>0. /\ positions.held = HeadHeld + order.side * order.fill /\ HeadHeld \in Int
        /\ order.side \in {1, -1} /\ order.fill \in Nat
    BY DEF CInv, CashSound, IInv, Types, BrokerOrder, HeadHeld, StateRow
  <2>1. ASSUME NEW k \in Nat, Executed(k) PROVE positions'.held = HeadHeld + order'.side * order'.fill
    <3>1. /\ positions'.held = positions.held + order.side * k
          /\ order'.side = order.side /\ order'.fill = order.fill + k
      BY <2>1 DEF Executed
    <3> QED
      BY <2>0, <3>1
  <2>2. ASSUME positions'.held = positions.held, order'.side = order.side, order'.fill = order.fill
        PROVE  positions'.held = HeadHeld + order'.side * order'.fill
    BY <2>0, <2>2
  <2>3. ASSUME Closed PROVE positions'.held = HeadHeld + order'.side * order'.fill
    BY <2>2, <2>3 DEF Closed
  <2>4. ASSUME Happened \/ ShownOne \/ Passed PROVE positions'.held = HeadHeld + order'.side * order'.fill
    BY <2>2, <2>4 DEF Happened, ShownOne, Passed
  <2>5. ASSUME NEW amount \in Nat, Charged(amount) PROVE positions'.held = HeadHeld + order'.side * order'.fill
    BY <2>2, <2>5 DEF Charged
  <2> QED
    BY <2>1, <2>3, <2>4, <2>5, OutsideIs DEF IInv
<1>5. head' # None => /\ head'.cash = BaseCash - Price * head'.held /\ mature' /\ 1 \in head'.known
                      /\ \A i \in head'.known \ head'.resolved : acts'[i].type \in {"FILL", "INITIAL_FUNDING"}
    BY <1>1, <1>2, <1>3 DEF CInv, CashSound
<1>6. sweep'.pc # "idle" /\ sweep'.mature => mature'
    BY <1>1, <1>2 DEF CInv, CashSound
<1> QED
    BY <1>1, <1>4, <1>5, <1>6 DEF CashSound

\* Where no activity of another kind comes, and no sweep is under way, the sweep stays calm.
LEMMA NoSweepIsCalm ==
    ASSUME ~Sweeping, UNCHANGED sweep
    PROVE  CalmSweep'
    BY DEF Sweeping, CalmSweep

LEMMA CalmTypes ==
    ASSUME Calm, Grows, \A i \in DOMAIN acts' \ DOMAIN acts : acts'[i].type \in {"FILL", "FEE"}
    PROVE  \A i \in DOMAIN acts' : acts'[i].type \in {"INITIAL_FUNDING", "FILL", "FEE"}
    BY DEF Calm, Grows, SameActivity

LEMMA ExecutedCalm ==
    ASSUME IInv, CInv, NEW k \in Nat, Executed(k), ~disturbed'
    PROVE  ~disturbed /\ latched' = latched /\ Calm' /\ CalmSweep'
<1>1. ~disturbed /\ ~Sweeping /\ ~(order.executions > 0)
    BY DEF Executed
<1>2. Calm /\ order.executions \in Nat /\ order.side \in {1, -1} /\ Price \in Nat /\ BaseCash \in Nat
      /\ positions.held \in Int
    BY <1>1, SweepAssumption DEF CInv, IInv, Types, BrokerOrder, Positions
<1>3. \A i \in DOMAIN acts' \ DOMAIN acts : acts'[i].type = "FILL"
  <2> SUFFICES ASSUME NEW i \in DOMAIN acts' \ DOMAIN acts PROVE acts'[i].type = "FILL"
    OBVIOUS
  <2>1. i = Len(acts) + 1 \/ i = Len(acts) + 2
    BY ActsShape DEF Executed, Grows, IInv
  <2> QED
    BY <2>1 DEF Executed, Posted
<1>4. FeesCharged' = FeesCharged
    BY <1>3, FeesStay DEF IInv, Executed
<1>5. \A i \in DOMAIN acts' : acts'[i].type \in {"INITIAL_FUNDING", "FILL", "FEE"}
    BY <1>2, <1>3, CalmTypes DEF Executed
<1>6. order'.executions <= 1 /\ ~account'.blocked /\ ~positions'.stock
  <2>1. order.executions = 0
    BY <1>1, <1>2
  <2> QED
    BY <1>2, <2>1 DEF Executed, Calm
<1>7. account'.cash = BaseCash - Price * positions'.held - FeesCharged
  <2>1. PICK d, h, x : d = order.side * k /\ h = positions.held /\ x = FeesCharged
    OBVIOUS
  <2>2. /\ account'.cash = (BaseCash - Price * h - x) - d * Price /\ positions'.held = h + d
        /\ x \in Int /\ h \in Int /\ d \in Int
    BY <1>2, <2>1 DEF Executed, Calm
  <2>3. PICK u, v : u = Price * h /\ v = d * Price
    OBVIOUS
  <2>4. u \in Int /\ v \in Int /\ Price * (h + d) = u + v
    BY <1>2, <2>2, <2>3
  <2>5. account'.cash = (BaseCash - u - x) - v
    BY <2>2, <2>3
  <2>6. account'.cash = BaseCash - (u + v) - x
    BY <1>2, <2>2, <2>4, <2>5
  <2> QED
    BY <2>1, <2>2, <2>4, <2>6
<1>8. Calm'
    BY <1>2, <1>4, <1>5, <1>6, <1>7 DEF Calm
<1> QED
    BY <1>1, <1>8, NoSweepIsCalm DEF Executed, book

LEMMA ChargedCalm ==
    ASSUME IInv, CInv, NEW amount \in Nat, Charged(amount), ~disturbed'
    PROVE  ~disturbed /\ latched' = latched /\ Calm' /\ CalmSweep'
<1>1. ~disturbed /\ ~Sweeping /\ ~(amount + FeesCharged > MaxFeeDrag)
  <2>1. Sum({i \in DOMAIN acts : acts[i].type = "FEE"}) = FeesCharged
    BY SumIs DEF FeesCharged, FeesOf
  <2> QED
    BY <2>1 DEF Charged
<1>2. /\ Calm /\ Price \in Nat /\ BaseCash \in Nat /\ positions.held \in Int /\ MaxFeeDrag \in Nat
      /\ FeesCharged \in Int /\ 0 <= FeesCharged
    BY <1>1, SweepAssumption DEF CInv, IInv, Types, Positions, Calm
<1>3. PICK n, A, B : n = Len(acts) + 1 /\ A = acts /\ B = acts'
    OBVIOUS
<1>4. /\ B[n].type = "FEE" /\ B[n].qty = amount /\ n \in DOMAIN B /\ n \notin DOMAIN A
      /\ \A i \in DOMAIN B : i \in DOMAIN A \/ i = n
      /\ \A i \in DOMAIN A : i \in DOMAIN B /\ SameActivity(A[i], B[i])
  <2>1. Len(acts) \in Nat /\ DOMAIN acts = 1 .. Len(acts) /\ DOMAIN acts' = 1 .. Len(acts) + 1
    BY ActsShape DEF IInv, Charged, Grows
  <2>2. acts'[n].type = "FEE" /\ acts'[n].qty = amount
    BY <1>3 DEF Charged, Posted
  <2>3. n \in DOMAIN B /\ n \notin DOMAIN A /\ \A i \in DOMAIN B : i \in DOMAIN A \/ i = n
    BY <1>3, <2>1
  <2> QED
    BY <1>3, <2>2, <2>3 DEF Charged, Grows
<1>5. FeesOf(B) = FeesOf(A) \cup {n} /\ n \notin FeesOf(A)
    BY <1>4 DEF FeesOf, SameActivity
<1>6. /\ IsFiniteSet(FeesOf(A)) /\ \A i \in FeesOf(A) : B[i].qty = A[i].qty /\ A[i].qty \in Int
    BY <1>3, <1>4, FeesAre DEF IInv, FeesOf, SameActivity
<1>7. SumOf(B, FeesOf(A)) = SumOf(A, FeesOf(A))
    BY <1>6, SumSame
<1>8. SumOf(B, FeesOf(A) \cup {n}) = SumOf(B, FeesOf(A)) + B[n].qty
  <2>1. \A x \in FeesOf(A) \cup {n} : B[x].qty \in Int
    BY <1>4, <1>6
  <2> QED
    BY <1>5, <1>6, <2>1, SumAdds
<1>9. FeesCharged' = FeesCharged + amount
    BY <1>3, <1>4, <1>5, <1>7, <1>8 DEF FeesCharged
<1>10. \A i \in DOMAIN acts' : acts'[i].type \in {"INITIAL_FUNDING", "FILL", "FEE"}
  <2>1. \A i \in DOMAIN acts' \ DOMAIN acts : acts'[i].type \in {"FILL", "FEE"}
    BY <1>3, <1>4
  <2> QED
    BY <1>2, <2>1, CalmTypes DEF Charged
<1>11. FeesCharged' \in Int /\ 0 <= FeesCharged' /\ FeesCharged' <= MaxFeeDrag
    BY <1>1, <1>2, <1>9
<1>12. account'.cash = BaseCash - Price * positions'.held - FeesCharged'
  <2>1. /\ account'.cash = (BaseCash - Price * positions.held - FeesCharged) - amount
        /\ positions' = positions
    BY <1>2 DEF Charged, Calm
  <2>2. Price * positions.held \in Int
    BY <1>2
  <2> QED
    BY <1>2, <1>9, <2>1, <2>2
<1>13. Calm'
    BY <1>2, <1>10, <1>11, <1>12 DEF Calm, Charged
<1> QED
    BY <1>1, <1>13, NoSweepIsCalm DEF Charged, book

\* Where neither the activities nor what is owned changes.
LEMMA StillCalm ==
    ASSUME Types, Calm, Grows, DOMAIN acts' = DOMAIN acts, UNCHANGED <<account, positions>>,
           order'.executions <= 1
    PROVE  Calm'
<1>1. FeesCharged' = FeesCharged
    BY FeesStay
<1>2. \A i \in DOMAIN acts' : acts'[i].type \in {"INITIAL_FUNDING", "FILL", "FEE"}
    BY DEF Calm, Grows, SameActivity
<1> QED
    BY <1>1, <1>2 DEF Calm

LEMMA StillCalmSweep ==
    ASSUME CalmSweep, Grows, DOMAIN acts' = DOMAIN acts, UNCHANGED <<account, positions, order, book, sweep>>
    PROVE  CalmSweep'
<1>1. /\ OpenOrders' = OpenOrders /\ Expected("CANCEL")' = Expected("CANCEL") /\ head' = head
    BY DEF book, OpenOrders, Expected, Side
<1>2. \A seen : OneLegShows(seen)' <=> OneLegShows(seen)
    BY DEF OneLegShows, Grows, SameActivity
<1>3. PICK seen : seen = sweep.seen
    OBVIOUS
<1>4. OneLegShows(sweep.seen)' <=> OneLegShows(sweep.seen)
  <2>1. sweep'.seen = seen /\ (OneLegShows(seen)' <=> OneLegShows(seen))
    BY <1>2, <1>3
  <2> QED
    BY <1>3, <2>1 DEF OneLegShows
<1> QED
    BY <1>1, <1>4 DEF CalmSweep

LEMMA OutsideCalm ==
    ASSUME IInv, CInv, Outside
    PROVE  CInv'
<1>1. CashSound'
    BY OutsideCash
<1>2. latched' = latched
    BY OutsideTypes DEF IInv, book
<1>3. ASSUME ~disturbed' PROVE ~disturbed /\ Calm' /\ CalmSweep'
  <2>1. ASSUME NEW k \in Nat, Executed(k) PROVE ~disturbed /\ Calm' /\ CalmSweep'
    BY <1>3, <2>1, ExecutedCalm
  <2>2. ASSUME NEW amount \in Nat, Charged(amount) PROVE ~disturbed /\ Calm' /\ CalmSweep'
    BY <1>3, <2>2, ChargedCalm
  <2>3. ~Happened
    BY <1>3 DEF Happened
  <2>4. ASSUME Closed PROVE ~disturbed /\ Calm' /\ CalmSweep'
    <3>1. ~disturbed /\ ~Sweeping
      BY <1>3, <2>4 DEF Closed
    <3>2. Calm /\ order'.executions <= 1
      BY <2>4, <3>1 DEF CInv, Calm, Closed
    <3> QED
      BY <2>4, <3>1, <3>2, StillCalm, NoSweepIsCalm DEF Closed, IInv
  <2>5. ASSUME ShownOne \/ Passed PROVE ~disturbed /\ Calm' /\ CalmSweep'
    <3>1. ~disturbed /\ UNCHANGED <<account, positions, order, book, sweep>> /\ Grows
      BY <1>3, <2>5 DEF ShownOne, Passed
    <3>2. DOMAIN acts' = DOMAIN acts
      BY <2>5 DEF ShownOne, Passed, Grows
    <3>3. Calm /\ CalmSweep /\ order'.executions <= 1
      BY <3>1 DEF CInv, Calm
    <3> QED
      BY <3>1, <3>2, <3>3, StillCalm, StillCalmSweep DEF IInv
  <2> QED
    BY <2>1, <2>2, <2>3, <2>4, <2>5, OutsideIs DEF IInv
<1> QED
    BY <1>1, <1>2, <1>3 DEF CInv

\* A reading changes the sweep and nothing else.
LEMMA ReadingCalm ==
    ASSUME CInv, UNCHANGED broker, UNCHANGED book, ~disturbed' => ~disturbed,
           sweep'.pc # "idle" /\ sweep'.mature => mature,
           ~disturbed' => CalmSweep'
    PROVE  CInv'
<1>1. /\ account' = account /\ positions' = positions /\ order' = order /\ acts' = acts /\ mature' = mature
      /\ head' = head /\ latched' = latched
    BY DEF broker, book
<1>2. HeadHeld' = HeadHeld /\ FeesCharged' = FeesCharged
    BY <1>1 DEF HeadHeld, FeesCharged
<1>3. CashSound'
    BY <1>1, <1>2 DEF CInv, CashSound
<1>4. Calm => Calm'
    BY <1>1, <1>2 DEF Calm
<1> QED
    BY <1>1, <1>3, <1>4 DEF CInv

LEMMA SameExpected ==
    ASSUME UNCHANGED broker, UNCHANGED book
    PROVE  /\ OpenOrders' = OpenOrders /\ Expected("CANCEL")' = Expected("CANCEL")
           /\ account' = account /\ positions' = positions /\ head' = head
           /\ \A seen : OneLegShows(seen)' <=> OneLegShows(seen)
    BY DEF broker, book, OpenOrders, Expected, Side, OneLegShows

LEMMA ReadAccountCalm ==
    ASSUME IInv, CInv, ReadAccount
    PROVE  CInv'
<1>1. /\ sweep'.pc = "positions" /\ sweep'.account = account /\ sweep'.mature = mature /\ sweep'.stable = TRUE
      /\ UNCHANGED broker /\ UNCHANGED book
      /\ ~disturbed' => ~disturbed
      /\ ~disturbed' => (sweep'.purpose = "CANCEL" => OpenOrders = Expected("CANCEL").orders)
    BY ReadAccountFacts
<1>2. ~disturbed' => CalmSweep'
    BY <1>1, SameExpected DEF CalmSweep, CInv, CashSound
<1> QED
    BY <1>1, <1>2, ReadingCalm

\* The later readings find what the earlier ones found.
FoundAgain ==
    /\ sweep'.stable /\ sweep'.account = account
    /\ sweep'.pc \in {"orders", "activities", "account2", "positions2", "orders2", "judge"} => sweep'.positions = positions
    /\ sweep'.pc \in {"activities", "account2", "positions2", "orders2", "judge"} => sweep'.orders = OpenOrders
    /\ sweep'.pc \in {"account2", "positions2", "orders2", "judge"} => ~OneLegShows(sweep'.seen)
    /\ sweep'.pc \in {"positions2", "orders2", "judge"} /\ sweep'.purpose = "FINAL" => sweep'.together
    /\ sweep'.pc = "judge" => ~sweep'.slow

LEMMA LaterReadingCalm ==
    ASSUME IInv, CInv, UNCHANGED broker, UNCHANGED book, sweep.pc # "idle", KeepsPurpose,
           ~disturbed' => ~disturbed,
           ~disturbed' /\ CalmSweep /\ sweep.purpose # "REVIEW" => FoundAgain
    PROVE  CInv'
<1>1. sweep'.mature => mature
    BY DEF CInv, CashSound, KeepsPurpose
<1>2. ASSUME ~disturbed', sweep.purpose # "REVIEW" PROVE CalmSweep'
  <2>1. CalmSweep
    BY <1>2 DEF CInv
  <2>2. /\ head # None => sweep'.mature
        /\ sweep'.purpose = "CANCEL" => OpenOrders = Expected("CANCEL").orders
    BY <1>2, <2>1 DEF CalmSweep, KeepsPurpose
  <2>3. PICK seen : seen = sweep'.seen
    OBVIOUS
  <2>4. OneLegShows(sweep.seen)' <=> OneLegShows(sweep'.seen)
    <3>1. OneLegShows(seen)' <=> OneLegShows(seen)
      BY SameExpected
    <3> QED
      BY <2>3, <3>1 DEF OneLegShows
  <2>5. FoundAgain
    BY <1>2, <2>1
  <2> QED
    BY <1>2, <2>2, <2>4, <2>5, SameExpected DEF CalmSweep, FoundAgain
<1>3. ASSUME sweep.purpose = "REVIEW" PROVE CalmSweep'
    BY <1>3 DEF CalmSweep, KeepsPurpose
<1> QED
    BY <1>1, <1>2, <1>3, ReadingCalm

LEMMA ReadingsCalm ==
    ASSUME IInv, CInv,
           ReadPositions \/ ReadOrders \/ ReadActivities \/ ReadAccountAgain \/ ReadPositionsAgain \/ ReadOrdersAgain
    PROVE  CInv'
<1>0. SweepShape
    BY DEF IInv
<1>1. CASE ReadPositions
  <2>1. /\ UNCHANGED broker /\ UNCHANGED book /\ sweep.pc # "idle" /\ KeepsPurpose
        /\ ~disturbed' => ~disturbed
    BY <1>0, <1>1, ReadPositionsFacts
  <2>2. ASSUME ~disturbed', CalmSweep, sweep.purpose # "REVIEW" PROVE FoundAgain
    BY <1>0, <1>1, <2>2, ReadPositionsFacts DEF CalmSweep, FoundAgain, KeepsPurpose
  <2> QED
    BY <2>1, <2>2, LaterReadingCalm
<1>2. CASE ReadOrders
  <2>1. /\ UNCHANGED broker /\ UNCHANGED book /\ sweep.pc # "idle" /\ KeepsPurpose
        /\ ~disturbed' => ~disturbed
    BY <1>0, <1>2, ReadOrdersFacts
  <2>2. ASSUME ~disturbed', CalmSweep, sweep.purpose # "REVIEW" PROVE FoundAgain
    BY <1>0, <1>2, <2>2, ReadOrdersFacts DEF CalmSweep, FoundAgain, KeepsPurpose
  <2> QED
    BY <2>1, <2>2, LaterReadingCalm
<1>3. CASE ReadActivities
  <2>1. /\ UNCHANGED broker /\ UNCHANGED book /\ sweep.pc # "idle" /\ KeepsPurpose
        /\ ~disturbed' => ~disturbed
    BY <1>0, <1>3, ReadActivitiesFacts
  <2>2. ASSUME ~disturbed', CalmSweep, sweep.purpose # "REVIEW" PROVE FoundAgain
    BY <1>0, <1>3, <2>2, ReadActivitiesFacts DEF CalmSweep, FoundAgain, KeepsPurpose, Sweeping
  <2> QED
    BY <2>1, <2>2, LaterReadingCalm
<1>4. CASE ReadAccountAgain
  <2>1. /\ UNCHANGED broker /\ UNCHANGED book /\ sweep.pc # "idle" /\ KeepsPurpose
        /\ ~disturbed' => ~disturbed
    BY <1>0, <1>4, ReadAccountAgainFacts
  <2>2. ASSUME ~disturbed', CalmSweep, sweep.purpose # "REVIEW" PROVE FoundAgain
    BY <1>0, <1>4, <2>2, ReadAccountAgainFacts DEF CalmSweep, FoundAgain, KeepsPurpose
  <2> QED
    BY <2>1, <2>2, LaterReadingCalm
<1>5. CASE ReadPositionsAgain
  <2>1. /\ UNCHANGED broker /\ UNCHANGED book /\ sweep.pc # "idle" /\ KeepsPurpose
        /\ ~disturbed' => ~disturbed
    BY <1>0, <1>5, ReadPositionsAgainFacts
  <2>2. ASSUME ~disturbed', CalmSweep, sweep.purpose # "REVIEW" PROVE FoundAgain
    BY <1>0, <1>5, <2>2, ReadPositionsAgainFacts DEF CalmSweep, FoundAgain, KeepsPurpose
  <2> QED
    BY <2>1, <2>2, LaterReadingCalm
<1>6. CASE ReadOrdersAgain
  <2>1. /\ UNCHANGED broker /\ UNCHANGED book /\ sweep.pc # "idle" /\ KeepsPurpose
        /\ ~disturbed' => ~disturbed
    BY <1>0, <1>6, ReadOrdersAgainFacts
  <2>2. ASSUME ~disturbed', CalmSweep, sweep.purpose # "REVIEW" PROVE FoundAgain
    BY <1>0, <1>6, <2>2, ReadOrdersAgainFacts DEF CalmSweep, FoundAgain, KeepsPurpose, Sweeping
  <2> QED
    BY <2>1, <2>2, LaterReadingCalm
<1> QED
    BY <1>1, <1>2, <1>3, <1>4, <1>5, <1>6

LEMMA IdleIsCalm ==
    ASSUME sweep' = NoSweep
    PROVE  CalmSweep' /\ (sweep'.pc # "idle" /\ sweep'.mature => mature')
<1>1. sweep'.pc = "idle"
    BY DEF NoSweep
<1> QED
    BY <1>1 DEF CalmSweep

LEMMA InitializeCalm ==
    ASSUME IInv, CInv, Initialize
    PROVE  CInv'
<1>1. /\ sweep.pc = "judge" /\ sweep.purpose = "BASELINE_INITIALIZATION" /\ sweep' = NoSweep
      /\ UNCHANGED <<account, positions, order, acts, mature, row, latched, finished, disturbed>>
    BY DEF Initialize, broker
<1>2. head = None /\ order = NoOrder
  <2>1. head = None
    BY <1>1 DEF IInv, SweepShape
  <2> QED
    BY <2>1 DEF IInv, OrderSound
<1>3. FeesCharged' = FeesCharged /\ (Calm => Calm')
  <2>1. FeesCharged' = FeesCharged
    BY <1>1 DEF FeesCharged
  <2> QED
    BY <1>1, <2>1 DEF Calm
<1>4. positions.held = 0
    BY <1>2 DEF CInv, CashSound, HeadHeld, NoOrder
<1>5. HeadHeld' = 0 /\ (head' # None => Accepted(sweep) /\ head' = State(BaseCash, 0, sweep.seen, {}))
    BY DEF Initialize, HeadHeld, State
<1>6. positions'.held = HeadHeld' + order'.side * order'.fill
    BY <1>1, <1>2, <1>4, <1>5 DEF NoOrder
<1>7. ASSUME head' # None
      PROVE  /\ head'.cash = BaseCash - Price * head'.held /\ mature' /\ 1 \in head'.known
             /\ \A i \in head'.known \ head'.resolved : acts'[i].type \in {"FILL", "INITIAL_FUNDING"}
  <2>1. Accepted(sweep) /\ head' = State(BaseCash, 0, sweep.seen, {})
    BY <1>5, <1>7
  <2>2. Clean(sweep) /\ Unblocked(sweep)
    BY <1>1, <2>1, AcceptedIs, UnblockedIs
  <2>3. mature'
    BY <1>1, <2>2 DEF Unblocked, CInv, CashSound
  <2>4. \A i \in sweep.seen : acts[i].type = "INITIAL_FUNDING"
    BY <2>2 DEF Clean
  <2>5. 1 \in sweep.seen
    <3>1. PICK i \in sweep.seen : acts[i].type = "INITIAL_FUNDING"
      BY <2>2 DEF Clean
    <3>2. i \in DOMAIN acts
      BY <1>1, SeenNumbers
    <3> QED
      BY <3>1, <3>2 DEF IInv, FillsSound
  <2>6. head'.cash = BaseCash /\ head'.held = 0 /\ head'.known = sweep.seen
    BY <2>1 DEF State
  <2>7. BaseCash = BaseCash - Price * 0
    BY SweepAssumption
  <2> QED
    BY <1>1, <2>3, <2>4, <2>5, <2>6, <2>7
<1>8. CashSound'
    BY <1>1, <1>6, <1>7, IdleIsCalm DEF CashSound
<1> QED
    BY <1>1, <1>3, <1>8, IdleIsCalm DEF CInv

\* Prepare latches the account only where the sweep is not accepted.
LEMMA PrepareCalm ==
    ASSUME IInv, CInv, Prepare
    PROVE  CInv'
<1>1. /\ sweep.pc = "judge" /\ sweep.purpose \in {"SUBMIT", "CANCEL"} /\ sweep' = NoSweep
      /\ UNCHANGED <<account, positions, order, acts, mature, head, finished, disturbed>>
    BY DEF Prepare, broker
<1>2. HeadHeld' = HeadHeld /\ FeesCharged' = FeesCharged
    BY <1>1 DEF HeadHeld, FeesCharged
<1>3. CashSound'
    BY <1>1, <1>2, IdleIsCalm DEF CInv, CashSound
<1>4. ASSUME ~disturbed' PROVE ~latched' /\ Calm'
  <2>1. Accepted(sweep)
    BY <1>1, <1>4, CalmAccepts
  <2>2. Calm'
    BY <1>1, <1>2, <1>4 DEF CInv, Calm
  <2> QED
    BY <2>1, <2>2 DEF Prepare
<1> QED
    BY <1>1, <1>3, <1>4, IdleIsCalm DEF CInv

LEMMA ArriveCalm ==
    ASSUME IInv, CInv, Arrive
    PROVE  CInv'
<1>1. /\ row.st = "SENT" /\ order'.fill = 0 /\ order'.executions = 0 /\ order'.side = Side /\ Side \in {1, -1}
      /\ UNCHANGED <<account, positions, acts, mature, head, latched, finished, sweep, disturbed>>
    BY DEF Arrive, NoOrder, Side
<1>2. order = NoOrder /\ head # None
    BY <1>1 DEF IInv, OrderSound
<1>3. sweep.pc = "idle"
  <2>1. sweep.pc # "idle" => sweep.purpose \in Purposes
    BY DEF IInv, SweepShape
  <2> QED
    BY <1>1, <1>2, <2>1 DEF IInv, SweepShape, Purposes
<1>4. HeadHeld' = HeadHeld /\ FeesCharged' = FeesCharged /\ HeadHeld \in Int
    BY <1>1 DEF HeadHeld, FeesCharged, IInv, Types, StateRow
<1>5. positions'.held = HeadHeld' + order'.side * order'.fill
  <2>1. positions.held = HeadHeld
    BY <1>2, <1>4 DEF CInv, CashSound, NoOrder
  <2> QED
    BY <1>1, <1>4, <2>1
<1>6. CashSound'
    BY <1>1, <1>3, <1>5 DEF CInv, CashSound
<1>7. Calm => Calm'
    BY <1>1, <1>4 DEF Calm
<1>8. CalmSweep'
    BY <1>1, <1>3 DEF CalmSweep
<1> QED
    BY <1>1, <1>6, <1>7, <1>8 DEF CInv

LEMMA ObserveCalm ==
    ASSUME IInv, CInv, Observe
    PROVE  CInv'
<1>1. /\ sweep.pc = "idle"
      /\ UNCHANGED <<account, positions, order, acts, mature, head, latched, finished, sweep, disturbed>>
    BY DEF Observe, broker
<1>2. HeadHeld' = HeadHeld /\ FeesCharged' = FeesCharged
    BY <1>1 DEF HeadHeld, FeesCharged
<1>3. CashSound'
    BY <1>1, <1>2 DEF CInv, CashSound
<1>4. Calm => Calm'
    BY <1>1, <1>2 DEF Calm
<1>5. CalmSweep'
    BY <1>1 DEF CalmSweep
<1> QED
    BY <1>1, <1>3, <1>4, <1>5 DEF CInv

\* Finalize moves what the order did from the order into the state, cash and positions alike.
LEMMA FinalizeCalm ==
    ASSUME IInv, CInv, Finalize
    PROVE  CInv'
<1>1. /\ sweep.pc = "judge" /\ sweep.purpose = "FINAL" /\ sweep' = NoSweep
      /\ row.fill = order.fill /\ order.side = Side /\ head # None
      /\ UNCHANGED <<account, positions, acts, mature>>
      /\ (Accepted(sweep) /\ Concluded) \/ UNCHANGED <<head, row, order, finished>>
    BY FinalizeIs
<1>2. FeesCharged' = FeesCharged
    BY <1>1 DEF FeesCharged
<1>3. CashSound'
  <2>1. CASE UNCHANGED <<head, row, order, finished>>
    <3>1. HeadHeld' = HeadHeld
      BY <2>1 DEF HeadHeld
    <3> QED
      BY <1>1, <2>1, <3>1, IdleIsCalm DEF CInv, CashSound
  <2>2. CASE Accepted(sweep) /\ Concluded
    <3>0. /\ head \in StateRow /\ head.cash \in Int /\ head.held \in Int /\ head.known \subseteq sweep.seen
          /\ order.fill \in Nat /\ order.side \in {1, -1} /\ Price \in Nat /\ BaseCash \in Nat
      BY <1>1, SeenNumbers, SweepAssumption DEF IInv, Types, StateRow, BrokerOrder
    <3>1. PICK d, h : d = Side * row.fill /\ h = head.held
      OBVIOUS
    <3>2. d \in Int /\ h \in Int /\ d = order.side * order.fill
      BY <1>1, <3>0, <3>1
    <3>3. /\ head'.cash = head.cash - d * Price /\ head'.held = h + d /\ head'.known = sweep.seen
          /\ head'.resolved = head.resolved \cup New(sweep.seen) \cup Fees(sweep.seen)
      BY <2>2, <3>1 DEF Concluded, State
    <3>4. head.cash = BaseCash - Price * h /\ positions.held = h + d
      BY <1>1, <3>1, <3>2 DEF CInv, CashSound, HeadHeld
    <3>5. head'.cash = BaseCash - Price * head'.held
      <4>1. PICK u, v : u = Price * h /\ v = d * Price
        OBVIOUS
      <4>2. u \in Int /\ v \in Int /\ Price * (h + d) = u + v
        BY <3>0, <3>2, <4>1
      <4>3. head'.cash = (BaseCash - u) - v
        BY <3>3, <3>4, <4>1
      <4> QED
        BY <3>0, <3>3, <4>2, <4>3
    <3>6. order' = NoOrder /\ order'.fill = 0 /\ order'.side = 1
      BY <2>2 DEF Concluded, NoOrder
    <3>7. positions'.held = HeadHeld' + order'.side * order'.fill
      <4>1. head' # None
        <5>1. head' \in StateRow \cup {None} /\ head' # None
          <6>1. OrderSound' /\ finished' = finished + 1 /\ finished \in Nat
            BY <2>2, FinalizeKeeps DEF Concluded, IInv, Types
          <6>2. finished' # 0
            BY <6>1
          <6> QED
            BY <6>1, <6>2, FinalizeKeeps DEF OrderSound, IInv, Types
        <5> QED
          BY <5>1
      <4>2. HeadHeld' = h + d
        BY <3>3, <4>1 DEF HeadHeld
      <4> QED
        BY <1>1, <3>2, <3>4, <3>6, <4>2
    <3>8. ASSUME NEW i \in head'.known \ head'.resolved PROVE acts[i].type \in {"FILL", "INITIAL_FUNDING"}
      <4>1. i \in head.known \ head.resolved
        BY <3>3 DEF New, Fees
      <4> QED
        BY <1>1, <4>1 DEF CInv, CashSound
    <3>9. mature' /\ 1 \in head'.known
      BY <1>1, <3>0, <3>3 DEF CInv, CashSound
    <3> QED
      BY <1>1, <3>5, <3>7, <3>8, <3>9, IdleIsCalm DEF CashSound
  <2> QED
    BY <1>1, <2>1, <2>2
<1>4. ASSUME ~disturbed' PROVE ~latched' /\ Calm'
  <2>1. ~disturbed /\ ~Partial
    BY <1>4 DEF Finalize, Disturb
  <2>2. ~latched /\ Calm /\ sweep.together
    BY <1>1, <2>1 DEF CInv, CalmSweep
  <2>3. \/ Accepted(sweep) /\ ExposureKnown(sweep)
        \/ Bound("FINAL", sweep.seen) = "ATTEMPT_ACTIVITY_EVIDENCE_PENDING"
    BY <1>1, <2>1, <2>2, CalmAccepts DEF ExposureKnown
  <2>4. ~latched'
    BY <2>1, <2>2, <2>3 DEF Finalize
  <2>5. order'.executions <= 1
    BY <1>1, <2>2 DEF Concluded, NoOrder, Calm
  <2> QED
    BY <1>1, <1>2, <2>2, <2>4, <2>5 DEF Calm
<1> QED
    BY <1>1, <1>3, <1>4, IdleIsCalm DEF CInv

LEMMA InitCalm == Init => CInv
<1> SUFFICES ASSUME Init PROVE CInv
    OBVIOUS
<1>1. /\ acts = <<[type |-> "INITIAL_FUNDING", order |-> 0, leg |-> 0, qty |-> 0, shown |-> TRUE]>>
      /\ head = None /\ order = NoOrder /\ sweep = NoSweep /\ latched = FALSE
      /\ account = [cash |-> BaseCash, blocked |-> FALSE] /\ positions = [held |-> 0, stock |-> FALSE]
    BY DEF Init
<1>2. \A i \in DOMAIN acts : acts[i].type = "INITIAL_FUNDING"
    BY <1>1
<1>3. FeesCharged = 0
  <2>1. FeesOf(acts) = {}
    BY <1>2 DEF FeesOf
  <2>2. SumOf(acts, {}) = 0
    BY SumOfNothing
  <2> QED
    BY <2>1, <2>2 DEF FeesCharged
<1>4. CashSound
    BY <1>1 DEF CashSound, HeadHeld, NoOrder, NoSweep
<1>5. Calm
  <2>1. BaseCash = BaseCash - Price * 0 - 0 /\ 0 <= MaxFeeDrag /\ 0 <= 1
    BY SweepAssumption
  <2> QED
    BY <1>1, <1>2, <1>3, <2>1 DEF Calm, NoOrder
<1>6. CalmSweep
    BY <1>1 DEF CalmSweep, NoSweep
<1> QED
    BY <1>1, <1>4, <1>5, <1>6 DEF CInv

LEMMA NextCalm == IInv /\ CInv /\ [Next]_vars => CInv'
<1> SUFFICES ASSUME IInv, CInv, [Next]_vars PROVE CInv'
    OBVIOUS
<1>1. CASE Outside
    BY <1>1, OutsideCalm
<1>2. CASE ReadAccount
    BY <1>2, ReadAccountCalm
<1>3. CASE ReadPositions \/ ReadOrders \/ ReadActivities \/ ReadAccountAgain \/ ReadPositionsAgain \/ ReadOrdersAgain
    BY <1>3, ReadingsCalm
<1>4. CASE SweepFails \/ Review
  <2>1. sweep' = NoSweep /\ UNCHANGED broker /\ UNCHANGED book /\ disturbed' = disturbed
    BY <1>4 DEF SweepFails, Review
  <2>2. sweep'.pc = "idle"
    BY <2>1 DEF NoSweep
  <2> QED
    BY <2>1, <2>2, IdleIsCalm, ReadingCalm
<1>5. CASE Initialize \/ Prepare \/ Arrive \/ Observe \/ Finalize
    BY <1>5, InitializeCalm, PrepareCalm, ArriveCalm, ObserveCalm, FinalizeCalm
<1>6. CASE UNCHANGED vars
  <2>1. sweep' = sweep /\ disturbed' = disturbed /\ UNCHANGED broker /\ UNCHANGED book
    BY <1>6 DEF vars
  <2>2. CalmSweep => CalmSweep'
    BY <2>1, SameExpected DEF CalmSweep, OneLegShows, broker
  <2>3. sweep'.pc # "idle" /\ sweep'.mature => mature
    BY <2>1 DEF CInv, CashSound
  <2>4. ~disturbed' => CalmSweep'
    BY <2>1, <2>2 DEF CInv
  <2> QED
    BY <2>1, <2>3, <2>4, ReadingCalm
<1> QED
    BY <1>1, <1>2, <1>3, <1>4, <1>5, <1>6 DEF Next

\* Whatever the number of orders, fees, failing requests and late activities, the account is
\* latched only after one of the causes that LatchHasCause names.
THEOREM LatchesHaveCauses == Spec => []LatchHasCause
<1>1. Init => IInv /\ CInv
    BY InitIs, InitCalm
<1>2. (IInv /\ CInv) /\ [Next]_vars => (IInv /\ CInv)'
    BY NextKeeps, NextCalm
<1>3. IInv /\ CInv => LatchHasCause
    BY DEF CInv, LatchHasCause
<1> QED
    BY <1>1, <1>2, <1>3, PTL DEF Spec
=============================================================================
