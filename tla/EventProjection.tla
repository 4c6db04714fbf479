-------------------------- MODULE EventProjection --------------------------
(***************************************************************************)
(* From the provider's webhook to the order's payment truth.               *)
(*                                                                         *)
(*   packages/razorpay/webhooks.py, webhook_ingress.py   authentication    *)
(*   control_plane/postgres_inbox.py               store_once              *)
(*   control_plane/normalized_event_router.py      which projector         *)
(*   control_plane/normalized_event_projector.py   payment.failed          *)
(*   control_plane/terminal_event_projector.py     captures, paid links    *)
(*   control_plane/payment_enrichment.py           provider snapshots      *)
(*                                                                         *)
(* One order of one merchant, the payments that try to pay it, its         *)
(* recovery cases and one recovery link.  Jobs are delivered as            *)
(* LeasedDelivery promises, which Outbox is shown to implement.  A         *)
(* projection locks and reads its target in one step and commits in a      *)
(* second one; in between other workers run, and the delivery may be       *)
(* interrupted.  A delivery that is never resumed stands for a dead letter *)
(* of the outbox.  Amounts are multiples of half the amount due.           *)
(***************************************************************************)
EXTENDS LeasedDelivery, Integers, FiniteSets, Sequences

CONSTANTS
    Payments,          \* provider payments of the order's original path
    Bodies,            \* signed webhook bodies: [type, payment]
    Ids,               \* values of the x-razorpay-event-id header
    Wire,              \* requests that may arrive: <<id, body>>
    Forged,            \* the requests of Wire without a valid signature
    MaxInboxAttempts,  \* inbox_events.max_attempts
    MaxCases,          \* bound on the recovery cases of the order
    None

ASSUME JobsAssumption == Jobs = Ids \cup Payments /\ Ids \cap Payments = {}
ASSUME PaymentsAssumption == IsFiniteSet(Payments)
ASSUME NoneAssumption == None \notin Ids /\ None \notin Payments /\ None \notin Bodies
ASSUME AttemptsAssumption == MaxInboxAttempts \in Nat
ASSUME WireAssumption == Wire \subseteq Ids \X Bodies /\ Forged \subseteq Wire

VARIABLES
    prov,      \* the payments at the provider
    linkAt,    \* the recovery link at the provider
    now,       \* provider time: counts what happened there
    occurred,  \* occurred[b]: when b's cause happened, 0 if it did not
    stored,    \* provider_events: the body accepted under an id
    first,     \* the id with the smallest received_at among a body's ids
    inbox,     \* inbox_events
    order,     \* logical_orders
    pay,       \* provider_payments
    cases,     \* recovery_cases of the order, oldest first
    instr,     \* recovery_instruments
    h          \* h[w]: worker w's handler

provVars == <<prov, linkAt, now, occurred>>
dbVars == <<order, pay, cases, instr>>
eventVars == <<vars, provVars, stored, first, inbox, dbVars, h>>

Due == 2   \* amount_due_minor

OpenStates == {"OBSERVING", "ACTIVE"}   \* _OPEN_CASE_STATES, as seen from here
LinkTypes == {"payment_link.paid", "payment_link.partially_paid"}
TerminalTypes == {"payment.captured"} \cup LinkTypes
Settled == {"PROCESSED", "IGNORED", "DEAD_LETTER"}

NoRow == [status |-> "ABSENT", captured |-> 0, marker |-> None, snap |-> 0]
NoLink == [status |-> "ABSENT", collected |-> 0, case |-> 0]
NoOrder == [mapped |-> FALSE, truth |-> "UNPAID", total |-> 0, snap |-> 0]

\* A handler that has nothing in hand but its job.
Handling(at, job, to) ==
    [at |-> at, job |-> job, rows |-> {}, order |-> NoOrder, pay |-> NoRow,
     fetched |-> "none", paid |-> 0, seen |-> 0, to |-> to]
Idle == Handling("idle", None, "ready")

AllRows == {"order", "instrument", "cases"} \cup Payments

Body(id) == stored[id]
Reused(id) == first[Body(id)] # id
CapturedAt == \E p \in Payments : prov[p] = "captured"

OrderRow == [mapped: BOOLEAN, truth: {"UNPAID", "PARTIALLY_PAID", "PAID", "OVERPAID"}, total: Nat,
             snap: Nat]
PaymentRow == [status: {"ABSENT", "FAILED", "CAPTURED"}, captured: {0, Due},
               marker: Ids \cup {None}, snap: Nat]
LinkRow == [status: {"ABSENT", "UNCERTAIN", "ACTIVE", "CANCELLED", "PARTIALLY_PAID", "PAID"},
            collected: 0..Due, case: Nat]
InboxStatus == {"NONE", "RECEIVED", "RETRY_SCHEDULED"} \cup Settled
InboxRow == [status: InboxStatus, attempts: 0..MaxInboxAttempts]
CaseStates == OpenStates \cup {"CLOSED", "RECOVERED", "SUPPRESSED_PAID", "DUPLICATE_REVIEW"}
Handler == [at: {"idle", "locked", "read", "fetched", "settle"},
            job: Jobs \cup {None}, rows: SUBSET AllRows, order: OrderRow, pay: PaymentRow,
            fetched: {"none", "failed", "captured"}, paid: {0, Due}, seen: Nat,
            to: {"ready", "done", "dead"}]

ProjectionTypeOK ==
    /\ phase \in [Jobs -> {"absent", "ready", "held", "done", "dead"}]
    /\ holder \in [Jobs -> Workers \cup {NoWorker}]
    /\ prov \in [Payments -> {"created", "failed", "captured"}]
    /\ linkAt \in {"none", "open", "partial", "paid", "cancelled"}
    /\ now \in Nat /\ occurred \in [Bodies -> 0..now]
    /\ stored \in [Ids -> Bodies \cup {None}]
    /\ first \in [Bodies -> Ids \cup {None}]
    /\ inbox \in [Ids -> InboxRow]
    /\ order \in OrderRow /\ pay \in [Payments -> PaymentRow]
    /\ cases \in Seq(CaseStates)
    /\ instr \in LinkRow /\ instr.case \in 0..Len(cases)
    /\ h \in [Workers -> Handler]

ProjectionInit ==
    /\ Init
    /\ prov = [p \in Payments |-> "created"] /\ linkAt = "none" /\ now = 0
    /\ occurred = [b \in Bodies |-> 0]
    /\ stored = [i \in Ids |-> None] /\ first = [b \in Bodies |-> None]
    /\ inbox = [i \in Ids |-> [status |-> "NONE", attempts |-> 0]]
    /\ order = NoOrder
    /\ pay = [p \in Payments |-> NoRow] /\ cases = << >> /\ instr = NoLink
    /\ h = [w \in Workers |-> Idle]

-----------------------------------------------------------------------------
(* The provider.  A payment may be captured after it was reported failed;  *)
(* an order is captured at most once.                                      *)

\* Only what has a body in this instance happens.
Happens(type, p) ==
    /\ [type |-> type, payment |-> p] \in Bodies
    /\ now' = now + 1
    /\ occurred' = [occurred EXCEPT ![[type |-> type, payment |-> p]] = now']

PaymentFails(p) ==
    /\ prov[p] = "created"
    /\ prov' = [prov EXCEPT ![p] = "failed"]
    /\ Happens("payment.failed", p)
    /\ UNCHANGED <<vars, linkAt, stored, first, inbox, dbVars, h>>

PaymentCaptured(p) ==
    /\ prov[p] = "failed" /\ ~CapturedAt
    /\ prov' = [prov EXCEPT ![p] = "captured"]
    /\ Happens("payment.captured", p)
    /\ UNCHANGED <<vars, linkAt, stored, first, inbox, dbVars, h>>

LinkPaid(to) ==
    /\ linkAt = "open"
    /\ linkAt' = to
    /\ Happens(IF to = "paid" THEN "payment_link.paid" ELSE "payment_link.partially_paid", None)
    /\ UNCHANGED <<vars, prov, stored, first, inbox, dbVars, h>>

-----------------------------------------------------------------------------
(* Ingress.                                                                *)

\* Mutant: the signature is not checked.
AuthenticAnyway(id, b) == TRUE

\* verify_and_normalize_webhook: the body was signed by the provider, which it
\* does once its cause has happened; the event id header is not signed.
Authentic(id, b) == <<id, b>> \notin Forged /\ occurred[b] > 0

(***************************************************************************)
(* WebhookIngress.accept and store_once: event, inbox row and outbox job   *)
(* commit together.  Another request with this body may have been received *)
(* earlier or later than this one, whichever commits first.                *)
(***************************************************************************)
StoreOnce(id, b) ==
    /\ <<id, b>> \in Wire
    /\ Authentic(id, b)
    /\ stored[id] = None
    /\ stored' = [stored EXCEPT ![id] = b]
    /\ \E f \in {id, first[b]} \ {None} : first' = [first EXCEPT ![b] = f]
    /\ inbox' = [inbox EXCEPT ![id] = [status |-> "RECEIVED", attempts |-> 0]]
    /\ Submit(id)
    /\ UNCHANGED <<provVars, dbVars, h>>

\* DUPLICATE for the same content, InboxConflictError for another: nothing is
\* written either way.
StoreAgain(id, b) ==
    /\ <<id, b>> \in Wire
    /\ Authentic(id, b)
    /\ stored[id] # None
    /\ UNCHANGED eventVars

-----------------------------------------------------------------------------
(* Row locks.                                                              *)

\* The instrument knows its provider_payment_link_id.
LinkMapped == instr.status \notin {"ABSENT", "UNCERTAIN"}

\* The rows the first SELECT ... FOR UPDATE of a projection finds and locks:
\* _LOAD_PAYMENT_AND_ORDER, _LOAD_CAPTURE_TARGET or else _LOAD_CAPTURE_ORDER,
\* _LOAD_LINK_TARGET.
TargetRows(id) ==
    LET p == Body(id).payment
    IN  IF Body(id).type \in LinkTypes
        THEN IF LinkMapped THEN {"instrument", "cases", "order"} ELSE {}
        ELSE IF p \in Payments /\ pay[p].status # "ABSENT" THEN {p, "order"}
        ELSE IF Body(id).type = "payment.captured" /\ order.mapped THEN {"order"} ELSE {}

\* A transaction keeps what it locked until it ends.
Free(w, rows) == \A v \in Workers \ {w} : h[v].rows \cap rows = {}

-----------------------------------------------------------------------------
(* The worker around the handlers.                                         *)

At(w, at) == h[w].at = at

Working(w, rec) == h' = [h EXCEPT ![w] = rec]

Result(w, to) == Working(w, Handling("settle", h[w].job, to))

\* complete, retry or dead_letter.
Settle(w) ==
    /\ At(w, "settle")
    /\ Release(w, h[w].job, h[w].to)
    /\ Working(w, Idle)
    /\ UNCHANGED <<provVars, stored, first, inbox, dbVars>>

(***************************************************************************)
(* The process dies, the database aborts the transaction, a provider read  *)
(* fails or the lease runs out: an open transaction is rolled back, its    *)
(* fence rejects whatever the worker still tries, the job is delivered     *)
(* again.                                                                  *)
(***************************************************************************)
Interrupted(w) ==
    /\ ~At(w, "idle")
    /\ Expire({h[w].job})
    /\ Working(w, Idle)
    /\ UNCHANGED <<provVars, stored, first, inbox, dbVars>>

-----------------------------------------------------------------------------
(* Projections.                                                            *)

\* A settled event is not projected again: previously PROCESSED, IGNORED or
\* dead-lettered.
ProjectedBefore(w, id) ==
    /\ At(w, "idle")
    /\ inbox[id].status \in Settled
    /\ Take(w, {id}, {})
    /\ Working(w, Handling("settle", id,
                          IF inbox[id].status = "DEAD_LETTER" THEN "dead" ELSE "done"))
    /\ UNCHANGED <<provVars, stored, first, inbox, dbVars>>

\* Claimed; the fence, the inbox row and the target are locked and read.
BeginProjection(w, id) ==
    LET p == Body(id).payment
    IN  /\ At(w, "idle")
        /\ inbox[id].status \in {"RECEIVED", "RETRY_SCHEDULED"}
        /\ Free(w, TargetRows(id))
        /\ Take(w, {id}, {})
        /\ Working(w, [at |-> "locked", job |-> id, rows |-> TargetRows(id), order |-> order,
                       pay |-> IF p = None THEN NoRow ELSE pay[p],
                       fetched |-> "none", paid |-> 0, seen |-> 0, to |-> "ready"])
        /\ UNCHANGED <<provVars, stored, first, inbox, dbVars>>

\* _truth_for_total
Truth(total) ==
    CASE total = 0 -> "UNPAID"
      [] 0 < total /\ total < Due -> "PARTIALLY_PAID"
      [] total = Due -> "PAID"
      [] OTHER -> "OVERPAID"

Max2(a, b) == IF a >= b THEN a ELSE b

CapturedPayments == {p \in Payments : pay[p].status = "CAPTURED"}

CapturedOf(payments) == Due * Cardinality(payments)

\* _start_inbox on the last attempt, _settle_inbox or _defer_inbox.
InboxTo(id, status) ==
    inbox' = [inbox EXCEPT ![id] = [status |-> status, attempts |-> inbox[id].attempts + 1]]

\* Mutant: one attempt too many.
ExhaustedLate(id) == inbox[id].attempts > MaxInboxAttempts

Exhausted(id) == inbox[id].attempts >= MaxInboxAttempts

CommitExhausted(w) ==
    /\ At(w, "locked") /\ Exhausted(h[w].job)
    /\ inbox' = [inbox EXCEPT ![h[w].job] = [status |-> "DEAD_LETTER",
                                             attempts |-> inbox[h[w].job].attempts]]
    /\ Result(w, "dead")
    /\ UNCHANGED <<vars, provVars, stored, first, dbVars>>

\* Everything below runs with an inbox attempt left.
Committing(w, type) ==
    /\ At(w, "locked")
    /\ ~Exhausted(h[w].job)
    /\ Body(h[w].job).type \in type

CommitIgnored(w) ==
    /\ InboxTo(h[w].job, "IGNORED")
    /\ Result(w, "done")
    /\ UNCHANGED <<vars, provVars, stored, first, dbVars>>

\* Event types neither projector supports.
CommitUnsupported(w) ==
    /\ At(w, "locked") /\ ~Exhausted(h[w].job)
    /\ Body(h[w].job).type \notin TerminalTypes \cup {"payment.failed"}
    /\ CommitIgnored(w)

\* payment.failed for a payment nobody mapped yet: the inbox row is deferred
\* and its enrichment queued once (ON CONFLICT DO NOTHING).
CommitDeferred(w) ==
    LET id == h[w].job
        p == Body(id).payment
    IN  /\ Committing(w, {"payment.failed"})
        /\ ~Reused(id) /\ h[w].pay.status = "ABSENT"
        /\ IF phase[p] = "absent" THEN Submit(p) ELSE UNCHANGED vars
        /\ InboxTo(id, "RETRY_SCHEDULED")
        /\ Result(w, "ready")
        /\ UNCHANGED <<provVars, stored, first, dbVars>>

\* A reused signed body, or a capture that dominates the failure.
FailureDominated(id, row) ==
    \/ Reused(id)
    \/ row.status \notin {"ABSENT", "FAILED"}

CommitFailureIgnored(w) ==
    /\ Committing(w, {"payment.failed"})
    /\ FailureDominated(h[w].job, h[w].pay)
    /\ CommitIgnored(w)

OpenCases == {c \in DOMAIN cases : cases[c] \in OpenStates}

\* Only the event that marked the payment failed may open a case for it, and
\* only while the order's locked truth is unpaid.
MayOpen(id, row, truth) ==
    /\ truth = "UNPAID"
    /\ row.marker \in {None, id}

Opens(id, row, truth) == MayOpen(id, row, truth) /\ OpenCases = {}

\* _PROJECT_PAYMENT_FAILED
Marked(row, id) ==
    [status |-> row.status, captured |-> row.captured, marker |-> id,
     snap |-> Max2(row.snap, 2 * occurred[Body(id)])]

\* _PROJECT_PAYMENT_FAILED, then _INSERT_OBSERVING_CASE (which the case
\* trigger admits for an unpaid order only) or the open case.
CommitFailure(w) ==
    LET id == h[w].job
        p == Body(id).payment
        row == h[w].pay
    IN  /\ Committing(w, {"payment.failed"})
        /\ ~FailureDominated(id, row) /\ row.status = "FAILED"
        /\ pay' = IF row.marker # None THEN pay ELSE [pay EXCEPT ![p] = Marked(pay[p], id)]
        /\ \/ /\ Opens(id, row, h[w].order.truth)
              /\ order.truth = "UNPAID" /\ Len(cases) < MaxCases
              /\ cases' = Append(cases, "OBSERVING")
           \/ /\ ~Opens(id, row, h[w].order.truth)
              /\ UNCHANGED cases
        /\ InboxTo(id, "PROCESSED")
        /\ Result(w, "done")
        /\ UNCHANGED <<vars, provVars, stored, first, order, instr>>

-----------------------------------------------------------------------------
\* _money_is_monotonic on totals that determine the truth.
Monotonic(total) == order.total <= total

\* _apply_order
Projected(id, total) ==
    [mapped |-> order.mapped, truth |-> Truth(total), total |-> total,
     snap |-> Max2(order.snap, 2 * occurred[Body(id)])]

\* Mutant: a capture leaves the cases it finds before any action alone.
CaseAfterCaptureActive(c, collected) ==
    IF collected THEN "DUPLICATE_REVIEW"
    ELSE IF cases[c] = "ACTIVE" THEN "SUPPRESSED_PAID" ELSE cases[c]

\* The case transitions of _prepare_capture.
CaseAfterCapture(c, collected) ==
    IF collected THEN "DUPLICATE_REVIEW"
    ELSE IF cases[c] \in OpenStates THEN "SUPPRESSED_PAID" ELSE cases[c]

\* The capture's row once locked: found, or discovered and inserted.
CaptureTarget(id, row) ==
    IF row.status = "ABSENT"
    THEN [status |-> "UNKNOWN", captured |-> 0, marker |-> None,
          snap |-> 2 * occurred[Body(id)]]
    ELSE row

CaptureTotal(p) == CapturedOf(CapturedPayments \cup {p}) + instr.collected

\* Why _prepare_capture returns no plan.
CaptureRefused(id, row, seen) ==
    \/ Reused(id)
    \/ row.status = "ABSENT" /\ ~seen.mapped
    \/ row.status = "CAPTURED" /\ row.snap > 2 * occurred[Body(id)]
    \/ ~Monotonic(CaptureTotal(Body(id).payment))

CommitCaptureIgnored(w) ==
    /\ Committing(w, {"payment.captured"})
    /\ Free(w, AllRows)
    /\ CaptureRefused(h[w].job, h[w].pay, h[w].order)
    /\ CommitIgnored(w)

(***************************************************************************)
(* _prepare_capture and _apply_capture: payments, instruments and cases    *)
(* are locked too, the rows read before are expected unchanged.            *)
(***************************************************************************)
CommitCapture(w) ==
    LET id == h[w].job
        p == Body(id).payment
        row == CaptureTarget(id, h[w].pay)
        collected == instr.status \in {"PAID", "PARTIALLY_PAID"}
    IN  /\ Committing(w, {"payment.captured"})
        /\ Free(w, AllRows)
        /\ ~CaptureRefused(id, h[w].pay, h[w].order)
        /\ order = h[w].order /\ pay[p] = h[w].pay
        /\ pay' = [pay EXCEPT ![p] = [status |-> "CAPTURED", captured |-> Due,
                                      marker |-> row.marker,
                                      snap |-> Max2(row.snap, 2 * occurred[Body(id)])]]
        /\ order' = Projected(id, CaptureTotal(p))
        /\ cases' = [c \in DOMAIN cases |-> CaseAfterCapture(c, collected /\ c = instr.case)]
        /\ InboxTo(id, "PROCESSED")
        /\ Result(w, "done")
        /\ UNCHANGED <<vars, provVars, stored, first, instr>>

-----------------------------------------------------------------------------
Collection(id) == IF Body(id).type = "payment_link.paid"
                  THEN [status |-> "PAID", amount |-> Due]
                  ELSE [status |-> "PARTIALLY_PAID", amount |-> 1]

\* Both paths of the order, this collection in place of the instrument's.
LinkTotal(id) == CapturedOf(CapturedPayments) + Collection(id).amount

\* _LINK_PAID_ACCEPTING_STATES, _LINK_PARTIAL_ACCEPTING_STATES
Accepting(status) ==
    {"ACTIVE", "PARTIALLY_PAID", "CANCELLED"} \cup (IF status = "PAID" THEN {"PAID"} ELSE {})

\* Why _prepare_link returns no plan.
LinkRefused(id, mapped) ==
    \/ Reused(id)
    \/ ~mapped
    \/ instr.status \notin Accepting(Collection(id).status)
    \/ Collection(id).amount < instr.collected
    \/ ~Monotonic(LinkTotal(id))

\* Mutant: a link that was paid recovers its case, whatever else was paid.
CaseAfterLinkRecovered(id) ==
    LET state == cases[instr.case]
    IN  IF Body(id).type = "payment_link.partially_paid" THEN "DUPLICATE_REVIEW"
        ELSE IF state \in {"ACTIVE", "SUPPRESSED_PAID"} THEN "RECOVERED"
        ELSE state

\* The case transition of _prepare_link.
CaseAfterLink(id) ==
    LET state == cases[instr.case]
    IN  IF Body(id).type = "payment_link.partially_paid"
           \/ CapturedOf(CapturedPayments) > 0 \/ LinkTotal(id) > Due
        THEN "DUPLICATE_REVIEW"
        ELSE IF state = "ACTIVE" THEN "RECOVERED"
        ELSE IF state = "RECOVERED" /\ instr.status = "PAID" THEN state
        ELSE "DUPLICATE_REVIEW"

CommitLinkIgnored(w) ==
    /\ Committing(w, LinkTypes)
    /\ Free(w, AllRows)
    /\ LinkRefused(h[w].job, "instrument" \in h[w].rows)
    /\ CommitIgnored(w)

\* _prepare_link and _apply_link.
CommitLink(w) ==
    LET id == h[w].job
    IN  /\ Committing(w, LinkTypes)
        /\ Free(w, AllRows)
        /\ ~LinkRefused(id, "instrument" \in h[w].rows)
        /\ order = h[w].order
        /\ instr' = [status |-> Collection(id).status, collected |-> Collection(id).amount,
                     case |-> instr.case]
        /\ order' = Projected(id, LinkTotal(id))
        /\ cases' = [cases EXCEPT ![instr.case] = CaseAfterLink(id)]
        /\ InboxTo(id, "PROCESSED")
        /\ Result(w, "done")
        /\ UNCHANGED <<vars, provVars, stored, first, pay>>

-----------------------------------------------------------------------------
(* ENRICH_FAILED_PAYMENT.                                                  *)

FetchPayment(w, p) ==
    /\ At(w, "idle")
    /\ Take(w, {p}, {})
    /\ Working(w, [at |-> "read", job |-> p, rows |-> {}, order |-> NoOrder, pay |-> NoRow,
                   fetched |-> prov[p], paid |-> 0, seen |-> 0, to |-> "ready"])
    /\ UNCHANGED <<provVars, stored, first, inbox, dbVars>>

\* observed_at is read from the clock once both are fetched; times of the
\* clock lie between those of the provider's events.
FetchOrder(w) ==
    /\ At(w, "read")
    /\ Working(w, [at |-> "fetched", job |-> h[w].job, rows |-> {}, order |-> NoOrder,
                   pay |-> NoRow, fetched |-> h[w].fetched,
                   paid |-> IF CapturedAt THEN Due ELSE 0, seen |-> 2 * now + 1, to |-> "ready"])
    /\ UNCHANGED <<vars, provVars, stored, first, inbox, dbVars>>

\* Mutant: the provider's total of the order replaces the recorded one.
EnrichedTrusting(paid, seen) ==
    [mapped |-> TRUE, truth |-> Truth(paid), total |-> paid, snap |-> seen]

\* What the snapshot makes of the order's and the payment's row.
EnrichedOrder(paid, seen) ==
    LET total == Max2(order.total, paid)
    IN  [mapped |-> TRUE, truth |-> Truth(total), total |-> total, snap |-> seen]

EnrichedRow(fetched, seen) ==
    [status |-> IF fetched = "captured" THEN "CAPTURED" ELSE "FAILED",
     captured |-> IF fetched = "captured" THEN Due ELSE 0, marker |-> None, snap |-> seen]

\* persist: insert or update the order, then the payment, each unless its row
\* is newer.
PersistEnrichment(w) ==
    LET p == h[w].job
        seen == h[w].seen
    IN  /\ At(w, "fetched")
        /\ Free(w, {"order", p})
        /\ order' = IF order.snap <= seen THEN EnrichedOrder(h[w].paid, seen) ELSE order
        /\ pay' = [pay EXCEPT ![p] = IF @.snap <= seen THEN EnrichedRow(h[w].fetched, seen) ELSE @]
        /\ Result(w, "done")
        /\ UNCHANGED <<vars, provVars, stored, first, inbox, cases, instr>>

-----------------------------------------------------------------------------
(* The rest of the system, as far as these rows show it (CreateEffect,     *)
(* Cancellation and assessment have the detail).                           *)

\* Both row locks of the other component are granted at once.
Others(rows) == \A w \in Workers : h[w].rows \cap rows = {}

\* The create effect: its answer was lost, then reconciled.
CreateLink(c) ==
    /\ Others({"cases", "instrument"})
    /\ cases[c] = "OBSERVING" /\ order.truth = "UNPAID" /\ instr.status = "ABSENT"
    /\ instr' = [status |-> "UNCERTAIN", collected |-> 0, case |-> c]
    /\ linkAt' = "open"
    /\ UNCHANGED <<vars, prov, now, occurred, stored, first, inbox, order, pay, cases, h>>

ConfirmLink ==
    /\ Others({"cases", "instrument"})
    /\ instr.status = "UNCERTAIN"
    /\ cases[instr.case] = "OBSERVING" => order.truth = "UNPAID"
    /\ instr' = [instr EXCEPT !.status = "ACTIVE"]
    /\ cases' = [cases EXCEPT ![instr.case] = IF @ = "OBSERVING" THEN "ACTIVE" ELSE @]
    /\ UNCHANGED <<vars, provVars, stored, first, inbox, order, pay, h>>

\* The protective cancellation of an obsolete link.
CancelLink ==
    /\ Others({"instrument"})
    /\ instr.status = "ACTIVE" /\ linkAt = "open"
    /\ cases[instr.case] \in {"SUPPRESSED_PAID", "DUPLICATE_REVIEW"}
    /\ linkAt' = "cancelled"
    /\ instr' = [instr EXCEPT !.status = "CANCELLED"]
    /\ Happens("payment_link.cancelled", None)
    /\ UNCHANGED <<vars, prov, stored, first, inbox, order, pay, cases, h>>

\* Assessment ends a case without any collection.
CloseCase(c) ==
    /\ Others({"cases"})
    /\ cases[c] = "OBSERVING" /\ instr.case # c
    /\ cases' = [cases EXCEPT ![c] = "CLOSED"]
    /\ UNCHANGED <<vars, provVars, stored, first, inbox, order, pay, instr, h>>

-----------------------------------------------------------------------------
Provider ==
    \/ \E p \in Payments : PaymentFails(p) \/ PaymentCaptured(p)
    \/ \E to \in {"partial", "paid"} : LinkPaid(to)

Ingress == \E r \in Wire : StoreOnce(r[1], r[2]) \/ StoreAgain(r[1], r[2])

Project(w) ==
    \/ \E id \in Ids : ProjectedBefore(w, id) \/ BeginProjection(w, id)
    \/ CommitExhausted(w) \/ CommitUnsupported(w) \/ CommitDeferred(w)
    \/ CommitFailureIgnored(w) \/ CommitFailure(w)
    \/ CommitCaptureIgnored(w) \/ CommitCapture(w)
    \/ CommitLinkIgnored(w) \/ CommitLink(w)

Enrich(w) ==
    \/ \E p \in Payments : FetchPayment(w, p)
    \/ FetchOrder(w) \/ PersistEnrichment(w)

Rest ==
    \/ \E c \in DOMAIN cases : CreateLink(c) \/ CloseCase(c)
    \/ ConfirmLink \/ CancelLink

ProjectionNext ==
    \/ Provider \/ Ingress \/ Rest
    \/ \E w \in Workers : Project(w) \/ Enrich(w) \/ Settle(w) \/ Interrupted(w)

ProjectionSpec == ProjectionInit /\ [][ProjectionNext]_eventVars

-----------------------------------------------------------------------------
Processed(type) == \E id \in Ids : inbox[id].status = "PROCESSED" /\ Body(id).type = type

(***************************************************************************)
(* Once a capture of the original path was projected, no recovery case of  *)
(* the order is open, nor will a late or replayed failure open another:    *)
(* the projectors meet on the order's row.                                 *)
(***************************************************************************)
CaptureEndsRecovery == Processed("payment.captured") => OpenCases = {}

(***************************************************************************)
(* Money collected on both paths, in whichever order the two events were   *)
(* stored, claimed and projected, and money collected in part, always ends *)
(* in front of an operator.                                                *)
(***************************************************************************)
DoubleCollectionIsReviewed ==
    \/ Processed("payment.captured") /\ Processed("payment_link.paid")
    \/ Processed("payment_link.partially_paid")
    => cases[instr.case] = "DUPLICATE_REVIEW"

(***************************************************************************)
(* A case only ends as paid when the provider really holds the money on    *)
(* that path: no forged, replayed or reordered request suppresses or       *)
(* recovers a case.                                                        *)
(***************************************************************************)
PaidOutcomesAreReal ==
    \A c \in DOMAIN cases :
        /\ cases[c] = "SUPPRESSED_PAID" => CapturedAt
        /\ cases[c] = "RECOVERED" => linkAt = "paid" /\ instr.case = c
        /\ cases[c] = "DUPLICATE_REVIEW" => linkAt \in {"partial", "paid"}

(***************************************************************************)
(* _money_is_monotonic, over every writer of the order's row: a provider   *)
(* snapshot of the original order, which knows nothing of the recovery     *)
(* link and may have been read before the last event, never takes back     *)
(* money the order was credited with.                                      *)
(***************************************************************************)
TotalNeverFalls == [][order'.total >= order.total]_eventVars

(***************************************************************************)
(* A capture of a mapped payment dominates pending recovery: when its      *)
(* inbox row is settled, no case of the order is left open.                *)
(***************************************************************************)
MappedCaptureDominates ==
    [][\A id \in Ids :
         /\ inbox[id].status \notin Settled
         /\ inbox'[id].status \in {"PROCESSED", "IGNORED"}
         /\ stored[id].type = "payment.captured"
         /\ pay[stored[id].payment].status # "ABSENT"
         => \A c \in DOMAIN cases' : cases'[c] \notin OpenStates]_eventVars
=============================================================================
