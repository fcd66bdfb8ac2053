--------------------------- MODULE ExecutionRecord ---------------------------
(***************************************************************************)
(* What is made of one execution once the broker has its say: the record the  *)
(* materializers ask for before a fill becomes a managed position, and what   *)
(* the submission story says of the order while it works and afterwards.      *)
(* Both read the rows of BrokerExecution; neither changes any.                *)
(***************************************************************************)
EXTENDS BrokerExecution

-----------------------------------------------------------------------------
(* The record of a fill *)

\* Mutant: the certificate names the attempt it was issued for and no other.
CertifiedAttemptsLast == {Current}

\* attempt_ids of the certificate: the attempts that count, a superseded one left out.
CertifiedAttempts == 0..Current

\* broker_permit_id of an attempt is the permit it was inserted with.
InsertedUnder(o) == Min(Generations(CreationKind(o), o))

\* _validate_lineage, _validate_terminal_lineage: the certificate names every attempt of the
\* intent, the last one filled and no other did.
AttemptLineage ==
    /\ attempts # <<>>
    /\ CertifiedAttempts = Rows
    /\ Row(Len(attempts) - 1).st = "FILLED" /\ Row(Len(attempts) - 1).fill = Qty
    /\ \A o \in Rows \ {Len(attempts) - 1} : Row(o).fill = 0

\* The permit of the reconciliation state is the permit of the newest observation, and it
\* has to be the one the last attempt was inserted with.
FinalizationAuthority ==
    /\ last # 0
    /\ permits[last].st = "CONSUMED"
    /\ last = InsertedUnder(Len(attempts) - 1)

Recordable == AttemptLineage /\ FinalizationAuthority

-----------------------------------------------------------------------------
(* The story of the order *)

\* _validate_attempts: one after the other, each with a fill its state allows, and no fill
\* on an attempt that was replaced.
AttemptsValid ==
    \A o \in Rows :
        /\ o < Len(attempts) - 1 => Row(o).fill = 0
        /\ \/ Row(o).st = "PREPARED" /\ Row(o).fill = 0
           \/ StateMatchesFill(Row(o).st, Row(o).fill, Qty)

\* _terminal_status: the status a certificate is issued with.
CertificateStatus ==
    CASE certified = Qty -> "FILLED"
      [] certified = 0 -> "ZERO_FILL"
      [] OTHER -> "PARTIAL"

\* _validate_entry_certificate: the certificate is of all attempts, and the last one is in a
\* state that goes with its status.
CertificateValid ==
    LET terminal == Row(Len(attempts) - 1)
    IN  /\ attempts # <<>>
        /\ CertifiedAttempts = Rows
        /\ CASE CertificateStatus = "FILLED" ->
                  terminal.st \in {"FILLED", "CALCULATED"} /\ terminal.fill = Qty
             [] CertificateStatus = "ZERO_FILL" ->
                  terminal.st \in TERMINAL \ {"FILLED"} /\ terminal.fill = 0
             [] OTHER -> /\ terminal.st \in {"CANCELED", "EXPIRED", "REPLACED"}
                         /\ 0 < terminal.fill /\ terminal.fill < Qty

\* Mutant: the attempt that is told is the first one.
ToldAttemptFirst == 0

\* The attempt the story is about: the last row, whether it was sent or not.
ToldAttempt == Len(attempts) - 1

\* _unterminated_entry_story: before there is a certificate.
UnterminatedStory ==
    IF locked THEN "PERMANENTLY_UNSAFE"
    ELSE IF attempts = <<>> THEN "ORDER_ACTIVITY_NOT_RECORDED"
    ELSE LET told == Row(ToldAttempt)
         IN  IF told.st = "PREPARED" THEN "ORDER_ACTIVITY_NOT_RECORDED"
             ELSE IF 0 < told.fill /\ told.fill < Qty THEN "PARTIAL_FILL_UNRECONCILED"
             ELSE IF told.st \in TERMINAL THEN "INCOMPLETE"
             ELSE IF told.st \in LOOKUP_ONLY THEN "ORDER_LOOKUP_ONLY"
             ELSE "ORDER_WORKING"

\* _terminal_entry_story: a partial fill is told with the latch it caused.
TerminalStory ==
    CASE CertificateStatus = "PARTIAL" -> IF locked THEN "PARTIAL_FILL_RECONCILED_UNSAFE" ELSE "INVALID"
      [] CertificateStatus = "ZERO_FILL" -> "ENTRY_ENDED_UNFILLED"
      [] OTHER -> "FILLED"

\* _entry_execution_summary: the permit that inserted the last attempt was dispatched.
ExecutionSummaryValid ==
    LET p == InsertedUnder(Len(attempts) - 1)
    IN  permits[p].st = "CONSUMED"

\* _entry_story
OrderStory ==
    IF ~AttemptsValid THEN "INVALID"
    ELSE IF intent # "TERMINAL" THEN UnterminatedStory
    ELSE IF ~CertificateValid THEN "INVALID"
    ELSE IF TerminalStory # "FILLED" THEN TerminalStory
    ELSE IF ~Recordable THEN "INCOMPLETE"
    ELSE IF ExecutionSummaryValid THEN "FILLED" ELSE "INVALID"

-----------------------------------------------------------------------------
(* Properties *)

\* A hard cancel has superseded the last replacement.
CancelSuperseded == Current < Len(attempts) - 1

\* A fill that is certified can be recorded, also after replacements, lookups, crashes and
\* answers that were lost, if it was learnt from the permit that created its order, that
\* permit was issued once, and no hard cancel superseded a replacement of the order
\* (_validate_lineage and _validate_terminal_lineage of lifecycle/materialization.py).
CertifiedFillRecordable ==
    /\ intent = "TERMINAL" /\ certified = Qty
    /\ permits[last].kind # "CANCEL"
    /\ ~CancelSuperseded
    /\ Cardinality(Generations(CreationKind(Current), Current)) = 1
    => Recordable

\* The request of some write may be on its way, or have arrived, and nothing is recorded of it.
Unanswered == \E p \in DOMAIN permits : permits[p].st \in {"DISPATCHING", "LOOKUP_ONLY"}

\* What the story says of an order is true of the broker.  An order that works is there and
\* has not filled as far as it was looked up; a part that is told as filled is held; what
\* ended unfilled or filled is certified so.  Order activity is told as not recorded if there
\* is no order, if a write was not answered, and in one case wrongly: a replacement is
\* prepared and stands before the order that works.  There is no story (INCOMPLETE, INVALID)
\* if the order is closed and not certified yet, if an order that filled in part has a
\* successor, if a superseded replacement is taken for the last attempt, or if the fill
\* cannot be recorded.
StoryIsTrue ==
    CASE OrderStory = "ORDER_ACTIVITY_NOT_RECORDED" ->
            \/ \A o \in Ordinals : orders[o].st = "NONE"
            \/ Unanswered
            \/ Len(attempts) >= 2 /\ Row(Len(attempts) - 1).st = "PREPARED"
      [] OrderStory \in {"ORDER_WORKING", "ORDER_LOOKUP_ONLY"} ->
            /\ intent # "TERMINAL"
            /\ orders[Len(attempts) - 1].st # "NONE"
            /\ \A o \in Rows : Row(o).fill = 0
      [] OrderStory = "PERMANENTLY_UNSAFE" -> locked /\ intent # "TERMINAL"
      [] OrderStory = "ENTRY_ENDED_UNFILLED" -> Held = 0 /\ OpenOrders = {}
      [] OrderStory = "FILLED" -> Held = Qty
      [] OrderStory \in {"PARTIAL_FILL_UNRECONCILED", "PARTIAL_FILL_RECONCILED_UNSAFE"} -> Held > 0
      [] OrderStory = "INCOMPLETE" ->
            \/ intent # "TERMINAL" /\ Row(Len(attempts) - 1).st \in TERMINAL
            \/ intent = "TERMINAL" /\ ~Recordable
      [] OrderStory = "INVALID" ->
            \/ CancelSuperseded
            \/ \E o \in 0..(Len(attempts) - 2) : Row(o).fill > 0
=============================================================================
