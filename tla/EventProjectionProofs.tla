------------------------ MODULE EventProjectionProofs ------------------------
(***************************************************************************)
(* Theorems about EventProjection for any number of payments, bodies,      *)
(* event ids, workers, cases and attempts.                                 *)
(***************************************************************************)
EXTENDS EventProjection, SequenceTheorems, FiniteSetTheorems, TLAPS

\* What a handler holds: a stored event while it projects, a payment while it enriches.
InHand ==
    \A w \in Workers :
        /\ h[w].at # "idle" => h[w].job \in Jobs
        /\ h[w].at = "locked" => h[w].job \in Ids /\ stored[h[w].job] # None
        /\ h[w].at \in {"read", "fetched"} => h[w].job \in Payments

\* A body whose cause happened says what happened.
CausesHappened ==
    \A b \in Bodies : occurred[b] > 0 =>
        /\ b.payment \in Payments \cup {None}
        /\ b.type \in {"payment.failed", "payment.captured"} =>
                b.payment \in Payments /\ prov[b.payment] # "created"
        /\ b.type = "payment.captured" => prov[b.payment] = "captured"
        /\ b.type = "payment_link.paid" => linkAt = "paid"
        /\ b.type = "payment_link.partially_paid" => linkAt = "partial"

\* Only what happened is stored, and only what is stored is worked on.
StoredHappened ==
    \A id \in Ids :
        /\ stored[id] # None => occurred[stored[id]] > 0
        /\ inbox[id].status # "NONE" => stored[id] # None

\* Enrichment is only asked for payments that failed.
EnrichedFailed == \A p \in Payments : phase[p] # "absent" => prov[p] # "created"

\* The instrument and its case follow the link at the provider.
InstrumentFollowsLink ==
    /\ instr.status = "ABSENT" => linkAt = "none"
    /\ instr.status # "ABSENT" => instr.case \in DOMAIN cases
    /\ instr.status = "PAID" => linkAt = "paid"
    /\ instr.status = "PARTIALLY_PAID" => linkAt = "partial"
    /\ \A c \in DOMAIN cases : cases[c] = "RECOVERED" => instr.status = "PAID" /\ instr.case = c

\* The payment truth is the truth of the total.
TruthOfTotal == order.truth = Truth(order.total)

\* What a processed event leaves behind for good.
CaptureCounted ==
    Processed("payment.captured") =>
        /\ order.total >= Due
        /\ instr.status # "ABSENT" => cases[instr.case] # "RECOVERED"
CollectionRecorded ==
    /\ Processed("payment_link.paid") => instr.status = "PAID"
    /\ Processed("payment_link.partially_paid") => instr.status # "ABSENT"

\* The inductive invariant.
PInv ==
    /\ ProjectionTypeOK
    /\ InHand
    /\ CausesHappened
    /\ StoredHappened
    /\ EnrichedFailed
    /\ InstrumentFollowsLink
    /\ TruthOfTotal
    /\ CaptureCounted
    /\ CollectionRecorded
    /\ CaptureEndsRecovery
    /\ DoubleCollectionIsReviewed
    /\ PaidOutcomesAreReal

-----------------------------------------------------------------------------
\* Sequences of cases.
LEMMA CaseFacts ==
    ASSUME PInv
    PROVE  /\ Len(cases) \in Nat /\ DOMAIN cases = 1..Len(cases)
           /\ \A c \in DOMAIN cases : cases[c] \in CaseStates
<1>1. cases \in Seq(CaseStates)
  BY DEF PInv, ProjectionTypeOK
<1>2. QED
  BY <1>1

\* The parts of the invariant that are about the projected rows outlive any
\* step that leaves these rows alone and processes no event.
LEMMA RowsStand ==
    ASSUME PInv, UNCHANGED dbVars, \A t : Processed(t)' => Processed(t),
           CapturedAt => CapturedAt',
           linkAt' = linkAt \/ linkAt = "open"
    PROVE  /\ InstrumentFollowsLink' /\ TruthOfTotal' /\ CaptureCounted' /\ CollectionRecorded'
           /\ CaptureEndsRecovery' /\ DoubleCollectionIsReviewed' /\ PaidOutcomesAreReal'
<1>1. order' = order /\ cases' = cases /\ instr' = instr
  BY DEF dbVars
<1>2. InstrumentFollowsLink'
  BY <1>1 DEF PInv, InstrumentFollowsLink
<1>3. TruthOfTotal'
  BY <1>1 DEF PInv, TruthOfTotal, Truth, Due
<1>4. CaptureCounted' /\ CollectionRecorded'
  BY <1>1 DEF PInv, CaptureCounted, CollectionRecorded, Due
<1>5. CaptureEndsRecovery' /\ DoubleCollectionIsReviewed'
  BY <1>1 DEF PInv, CaptureEndsRecovery, DoubleCollectionIsReviewed, OpenCases, OpenStates
<1>6. PaidOutcomesAreReal'
  BY <1>1 DEF PInv, PaidOutcomesAreReal
<1>7. QED
  BY <1>2, <1>3, <1>4, <1>5, <1>6

\* What a handler may have in hand.
Holds(rec) ==
    /\ rec.at # "idle" => rec.job \in Jobs
    /\ rec.at = "locked" => rec.job \in Ids /\ stored[rec.job] # None
    /\ rec.at \in {"read", "fetched"} => rec.job \in Payments

\* A handler moves on; nothing is projected, nothing happens at the provider.
LEMMA HandlerMoves ==
    ASSUME PInv, UNCHANGED <<provVars, stored, first>>,
           NEW w \in Workers, NEW rec \in Handler, Working(w, rec), Holds(rec),
           phase' \in [Jobs -> {"absent", "ready", "held", "done", "dead"}],
           holder' \in [Jobs -> Workers \cup {NoWorker}],
           \A p \in Payments : phase'[p] = "absent" \/ phase[p] # "absent" \/ prov[p] # "created",
           inbox' \in [Ids -> InboxRow],
           \A id \in Ids : inbox'[id].status # "NONE" => stored[id] # None
    PROVE  /\ h' \in [Workers -> Handler]
           /\ InHand' /\ CausesHappened' /\ StoredHappened' /\ EnrichedFailed'
<1>1. /\ prov' = prov /\ linkAt' = linkAt /\ occurred' = occurred /\ stored' = stored
  BY DEF provVars
<1>2. h' \in [Workers -> Handler] /\ \A u \in Workers : h'[u] = IF u = w THEN rec ELSE h[u]
  BY DEF PInv, ProjectionTypeOK, Working
<1>3. InHand'
  BY <1>1, <1>2 DEF PInv, InHand, Holds
<1>4. CausesHappened' /\ StoredHappened' /\ EnrichedFailed'
  BY <1>1 DEF PInv, CausesHappened, StoredHappened, EnrichedFailed
<1>5. QED
  BY <1>2, <1>3, <1>4

\* A handler moves on and no row but inbox rows is written: the invariant stands.
LEMMA HandlerOnly ==
    ASSUME PInv, UNCHANGED <<provVars, stored, first, dbVars>>,
           NEW w \in Workers, NEW rec \in Handler, Working(w, rec), Holds(rec),
           phase' \in [Jobs -> {"absent", "ready", "held", "done", "dead"}],
           holder' \in [Jobs -> Workers \cup {NoWorker}],
           \A p \in Payments : phase'[p] = "absent" \/ phase[p] # "absent" \/ prov[p] # "created",
           inbox' \in [Ids -> InboxRow],
           \A id \in Ids : /\ inbox'[id].status # "NONE" => stored[id] # None
                           /\ inbox'[id].status = "PROCESSED" => inbox[id].status = "PROCESSED"
    PROVE  PInv'
<1>1. /\ prov' = prov /\ linkAt' = linkAt /\ now' = now /\ occurred' = occurred
      /\ stored' = stored /\ first' = first
      /\ order' = order /\ pay' = pay /\ cases' = cases /\ instr' = instr
  BY DEF provVars, dbVars
<1>2. h' \in [Workers -> Handler] /\ InHand' /\ CausesHappened' /\ StoredHappened' /\ EnrichedFailed'
  BY HandlerMoves
<1>3. ProjectionTypeOK'
  BY <1>1, <1>2 DEF PInv, ProjectionTypeOK
<1>4. \A t : Processed(t)' => Processed(t)
  BY <1>1 DEF Processed, Body
<1>5. CapturedAt => CapturedAt'
  BY <1>1 DEF CapturedAt
<1>6. QED
  BY <1>1, <1>2, <1>3, <1>4, <1>5, RowsStand DEF PInv

\* A handler without rows in hand is well formed.
LEMMA HandlingType ==
    ASSUME NEW at \in {"idle", "locked", "read", "fetched", "settle"},
           NEW job \in Jobs \cup {None}, NEW to \in {"ready", "done", "dead"}
    PROVE  Handling(at, job, to) \in Handler
BY DEF Handling, Handler, NoOrder, NoRow, OrderRow, PaymentRow, Due

\* What a stored event stands for.
LEMMA StoredBody ==
    ASSUME PInv, NEW id \in Ids, stored[id] # None
    PROVE  /\ Body(id) \in Bodies /\ occurred[Body(id)] \in Nat /\ occurred[Body(id)] > 0
           /\ Body(id).payment \in Payments \cup {None}
           /\ Body(id).type \in {"payment.failed", "payment.captured"} =>
                    Body(id).payment \in Payments /\ prov[Body(id).payment] # "created"
           /\ Body(id).type = "payment.captured" => CapturedAt
           /\ Body(id).type = "payment_link.paid" => linkAt = "paid"
           /\ Body(id).type = "payment_link.partially_paid" => linkAt = "partial"
<1>1. Body(id) \in Bodies /\ occurred[Body(id)] > 0 /\ occurred[Body(id)] \in 0..now /\ now \in Nat
  BY DEF PInv, ProjectionTypeOK, StoredHappened, Body
<1>2. QED
  BY <1>1 DEF PInv, CausesHappened, CapturedAt

\* The event a locked handler works on.
LEMMA LockedJob ==
    ASSUME PInv, NEW w \in Workers, At(w, "locked")
    PROVE  h[w].job \in Ids /\ stored[h[w].job] # None /\ h[w].job \in Jobs /\ h[w] \in Handler
BY JobsAssumption DEF PInv, InHand, At, ProjectionTypeOK

\* Deliveries keep the delivery state well formed and ask for no enrichment.
LEMMA DeliveryType ==
    ASSUME PInv, NEW w \in Workers, NEW j \in Jobs, NEW to,
           \/ Take(w, {j}, {}) \/ Release(w, j, to) \/ Expire({j}) \/ UNCHANGED vars
    PROVE  /\ phase' \in [Jobs -> {"absent", "ready", "held", "done", "dead"}]
           /\ holder' \in [Jobs -> Workers \cup {NoWorker}]
           /\ \A p \in Payments : phase'[p] = "absent" \/ phase[p] # "absent" \/ prov[p] # "created"
<1> USE DEF PInv, ProjectionTypeOK
<1>1. Payments \subseteq Jobs
  BY JobsAssumption
<1>2. CASE Take(w, {j}, {})
  BY <1>1, <1>2 DEF Take
<1>3. CASE Release(w, j, to)
  BY <1>1, <1>3 DEF Release
<1>4. CASE Expire({j})
  BY <1>1, <1>4 DEF Expire
<1>5. CASE UNCHANGED vars
  BY <1>1, <1>5 DEF vars
<1>6. QED
  BY <1>2, <1>3, <1>4, <1>5

-----------------------------------------------------------------------------
\* A redelivered, already settled event only reports its outcome.
LEMMA ProjectedBeforeStep ==
    ASSUME PInv, NEW w \in Workers, NEW id \in Ids, ProjectedBefore(w, id)
    PROVE  PInv'
<1> DEFINE rec == Handling("settle", id, IF inbox[id].status = "DEAD_LETTER" THEN "dead" ELSE "done")
<1>1. rec \in Handler
  BY HandlingType, JobsAssumption
<1>2. Holds(rec)
  BY JobsAssumption DEF Holds, Handling
<1>3. /\ phase' \in [Jobs -> {"absent", "ready", "held", "done", "dead"}]
      /\ holder' \in [Jobs -> Workers \cup {NoWorker}]
      /\ \A p \in Payments : phase'[p] = "absent" \/ phase[p] # "absent" \/ prov[p] # "created"
  BY DeliveryType, JobsAssumption DEF ProjectedBefore
<1>4. inbox' = inbox /\ Working(w, rec) /\ UNCHANGED <<provVars, stored, first, dbVars>>
  BY DEF ProjectedBefore
<1>5. inbox' \in [Ids -> InboxRow] /\ \A i \in Ids : inbox'[i].status # "NONE" => stored[i] # None
  BY <1>4 DEF PInv, ProjectionTypeOK, StoredHappened
<1> HIDE DEF rec
<1>6. QED
  BY <1>1, <1>2, <1>3, <1>4, <1>5, HandlerOnly

\* Locking and reading the target rows writes nothing.
LEMMA BeginProjectionStep ==
    ASSUME PInv, NEW w \in Workers, NEW id \in Ids, BeginProjection(w, id)
    PROVE  PInv'
<1> DEFINE row == IF Body(id).payment = None THEN NoRow ELSE pay[Body(id).payment]
           rec == [at |-> "locked", job |-> id, rows |-> TargetRows(id), order |-> order,
                   pay |-> row, fetched |-> "none", paid |-> 0, seen |-> 0, to |-> "ready"]
<1>1. stored[id] # None
  BY DEF PInv, StoredHappened, BeginProjection
<1>2. row \in PaymentRow
  <2>1. NoRow \in PaymentRow
    BY DEF NoRow, PaymentRow, Due
  <2>2. QED
    BY <1>1, <2>1, StoredBody DEF PInv, ProjectionTypeOK
<1>3. TargetRows(id) \subseteq AllRows
  BY DEF TargetRows, AllRows
<1>4. rec \in Handler
  <2> HIDE DEF row
  <2>1. order \in OrderRow /\ id \in Jobs \cup {None}
    BY JobsAssumption DEF PInv, ProjectionTypeOK
  <2>2. QED
    BY <1>2, <1>3, <2>1 DEF Handler, Due
<1>5. Holds(rec)
  BY <1>1, JobsAssumption DEF Holds
<1>6. /\ phase' \in [Jobs -> {"absent", "ready", "held", "done", "dead"}]
      /\ holder' \in [Jobs -> Workers \cup {NoWorker}]
      /\ \A p \in Payments : phase'[p] = "absent" \/ phase[p] # "absent" \/ prov[p] # "created"
  BY DeliveryType, JobsAssumption DEF BeginProjection
<1>7. inbox' = inbox /\ Working(w, rec) /\ UNCHANGED <<provVars, stored, first, dbVars>>
  BY DEF BeginProjection
<1>8. inbox' \in [Ids -> InboxRow] /\ \A i \in Ids : inbox'[i].status # "NONE" => stored[i] # None
  BY <1>7 DEF PInv, ProjectionTypeOK, StoredHappened
<1> HIDE DEF rec
<1>9. QED
  BY <1>4, <1>5, <1>6, <1>7, <1>8, HandlerOnly

\* Only a payment that failed is fetched, so the answer is failed or captured.
LEMMA FetchPaymentStep ==
    ASSUME PInv, NEW w \in Workers, NEW p \in Payments, FetchPayment(w, p)
    PROVE  PInv'
<1> DEFINE rec == [at |-> "read", job |-> p, rows |-> {}, order |-> NoOrder, pay |-> NoRow,
                   fetched |-> prov[p], paid |-> 0, seen |-> 0, to |-> "ready"]
<1>1. prov[p] \in {"failed", "captured"}
  BY DEF PInv, ProjectionTypeOK, EnrichedFailed, FetchPayment, Take
<1>2. rec \in Handler
  BY <1>1, JobsAssumption DEF Handler, NoOrder, NoRow, OrderRow, PaymentRow, Due
<1>3. Holds(rec)
  BY JobsAssumption DEF Holds
<1>4. /\ phase' \in [Jobs -> {"absent", "ready", "held", "done", "dead"}]
      /\ holder' \in [Jobs -> Workers \cup {NoWorker}]
      /\ \A q \in Payments : phase'[q] = "absent" \/ phase[q] # "absent" \/ prov[q] # "created"
  BY DeliveryType, JobsAssumption DEF FetchPayment
<1>5. inbox' = inbox /\ Working(w, rec) /\ UNCHANGED <<provVars, stored, first, dbVars>>
  BY DEF FetchPayment
<1>6. inbox' \in [Ids -> InboxRow] /\ \A i \in Ids : inbox'[i].status # "NONE" => stored[i] # None
  BY <1>5 DEF PInv, ProjectionTypeOK, StoredHappened
<1> HIDE DEF rec
<1>7. QED
  BY <1>2, <1>3, <1>4, <1>5, <1>6, HandlerOnly

\* The order's snapshot is read after the payment's; nothing is written.
LEMMA FetchOrderStep ==
    ASSUME PInv, NEW w \in Workers, FetchOrder(w)
    PROVE  PInv'
<1> DEFINE rec == [at |-> "fetched", job |-> h[w].job, rows |-> {}, order |-> NoOrder,
                   pay |-> NoRow, fetched |-> h[w].fetched,
                   paid |-> IF CapturedAt THEN Due ELSE 0, seen |-> 2 * now + 1, to |-> "ready"]
<1>1. h[w].job \in Payments /\ h[w].job \in Jobs /\ h[w].fetched \in {"none", "failed", "captured"}
  BY JobsAssumption DEF PInv, ProjectionTypeOK, InHand, FetchOrder, At, Handler
<1>2. 2 * now + 1 \in Nat
  BY DEF PInv, ProjectionTypeOK
<1>3. NoOrder \in OrderRow /\ NoRow \in PaymentRow
  BY DEF NoOrder, NoRow, OrderRow, PaymentRow, Due
<1>4. rec \in Handler
  BY <1>1, <1>2, <1>3 DEF Handler, Due
<1>5. Holds(rec)
  BY <1>1 DEF Holds
<1>6. /\ phase' \in [Jobs -> {"absent", "ready", "held", "done", "dead"}]
      /\ holder' \in [Jobs -> Workers \cup {NoWorker}]
      /\ \A q \in Payments : phase'[q] = "absent" \/ phase[q] # "absent" \/ prov[q] # "created"
  BY <1>1, DeliveryType DEF FetchOrder
<1>7. inbox' = inbox /\ Working(w, rec) /\ UNCHANGED <<provVars, stored, first, dbVars>>
  BY DEF FetchOrder
<1>8. inbox' \in [Ids -> InboxRow] /\ \A i \in Ids : inbox'[i].status # "NONE" => stored[i] # None
  BY <1>7 DEF PInv, ProjectionTypeOK, StoredHappened
<1> HIDE DEF rec
<1>9. QED
  BY <1>4, <1>5, <1>6, <1>7, <1>8, HandlerOnly

\* The outbox takes the job back, settled or interrupted.
LEMMA HandlerEnds ==
    ASSUME PInv, NEW w \in Workers, Settle(w) \/ Interrupted(w)
    PROVE  PInv'
<1>1. h[w].job \in Jobs
  BY DEF PInv, InHand, Settle, Interrupted, At
<1>2. Idle \in Handler /\ Holds(Idle)
  BY HandlingType DEF Idle, Holds, Handling
<1>3. /\ phase' \in [Jobs -> {"absent", "ready", "held", "done", "dead"}]
      /\ holder' \in [Jobs -> Workers \cup {NoWorker}]
      /\ \A p \in Payments : phase'[p] = "absent" \/ phase[p] # "absent" \/ prov[p] # "created"
  BY <1>1, DeliveryType DEF Settle, Interrupted
<1>4. inbox' = inbox /\ Working(w, Idle) /\ UNCHANGED <<provVars, stored, first, dbVars>>
  BY DEF Settle, Interrupted
<1>5. inbox' \in [Ids -> InboxRow] /\ \A i \in Ids : inbox'[i].status # "NONE" => stored[i] # None
  BY <1>4 DEF PInv, ProjectionTypeOK, StoredHappened
<1>6. QED
  BY <1>2, <1>3, <1>4, <1>5, HandlerOnly

-----------------------------------------------------------------------------
\* An inbox row settled or deferred with an attempt left is well formed.
LEMMA InboxType ==
    ASSUME PInv, NEW w \in Workers, At(w, "locked"), ~Exhausted(h[w].job),
           NEW status \in InboxStatus, status # "NONE", InboxTo(h[w].job, status)
    PROVE  /\ inbox' \in [Ids -> InboxRow]
           /\ \A id \in Ids :
                /\ inbox'[id].status # "NONE" => stored[id] # None
                /\ inbox'[id].status = IF id = h[w].job THEN status ELSE inbox[id].status
<1> DEFINE job == h[w].job
           row == [status |-> status, attempts |-> inbox[job].attempts + 1]
<1>1. job \in Ids /\ stored[job] # None
  BY LockedJob
<1>2. inbox[job].attempts + 1 \in 0..MaxInboxAttempts
  BY <1>1, AttemptsAssumption DEF PInv, ProjectionTypeOK, InboxRow, Exhausted
<1>3. row \in InboxRow
  BY <1>2 DEF InboxRow, InboxStatus
<1>4. inbox' = [inbox EXCEPT ![job] = row] /\ inbox \in [Ids -> InboxRow]
  BY DEF InboxTo, PInv, ProjectionTypeOK
<1>5. row.status = status
  OBVIOUS
<1> HIDE DEF row, job
<1>6. inbox' \in [Ids -> InboxRow] /\ \A id \in Ids : inbox'[id] = IF id = job THEN row ELSE inbox[id]
  BY <1>1, <1>3, <1>4
<1>7. QED
  BY <1>1, <1>5, <1>6 DEF PInv, StoredHappened, job

\* What a handler says once it is done.
LEMMA ResultMoves ==
    ASSUME PInv, NEW w \in Workers, NEW to \in {"ready", "done", "dead"}, h[w].job \in Jobs,
           Result(w, to)
    PROVE  \E rec \in Handler : Working(w, rec) /\ Holds(rec)
<1>1. Handling("settle", h[w].job, to) \in Handler /\ Holds(Handling("settle", h[w].job, to))
  BY HandlingType DEF Holds, Handling
<1>2. QED
  BY <1>1 DEF Result

\* An ignored event settles its inbox row and nothing else.
LEMMA CommitIgnoredStep ==
    ASSUME PInv, NEW w \in Workers, At(w, "locked"), ~Exhausted(h[w].job), CommitIgnored(w)
    PROVE  PInv'
<1>1. h[w].job \in Jobs
  BY LockedJob
<1>2. PICK rec \in Handler : Working(w, rec) /\ Holds(rec)
  BY <1>1, ResultMoves DEF CommitIgnored
<1>3. /\ inbox' \in [Ids -> InboxRow]
      /\ \A id \in Ids : /\ inbox'[id].status # "NONE" => stored[id] # None
                         /\ inbox'[id].status = "PROCESSED" => inbox[id].status = "PROCESSED"
  BY InboxType DEF CommitIgnored, InboxStatus, Settled
<1>4. /\ phase' \in [Jobs -> {"absent", "ready", "held", "done", "dead"}]
      /\ holder' \in [Jobs -> Workers \cup {NoWorker}]
      /\ \A p \in Payments : phase'[p] = "absent" \/ phase[p] # "absent" \/ prov[p] # "created"
  BY <1>1, DeliveryType DEF CommitIgnored
<1>5. UNCHANGED <<provVars, stored, first, dbVars>>
  BY DEF CommitIgnored
<1>6. QED
  BY <1>2, <1>3, <1>4, <1>5, HandlerOnly

\* A dead-lettered event is not counted as processed.
LEMMA CommitExhaustedStep ==
    ASSUME PInv, NEW w \in Workers, CommitExhausted(w)
    PROVE  PInv'
<1> DEFINE job == h[w].job
           row == [status |-> "DEAD_LETTER", attempts |-> inbox[job].attempts]
<1>1. job \in Ids /\ stored[job] # None /\ job \in Jobs
  BY LockedJob DEF CommitExhausted
<1>2. PICK rec \in Handler : Working(w, rec) /\ Holds(rec)
  BY <1>1, ResultMoves DEF CommitExhausted
<1>3. row \in InboxRow
  BY <1>1 DEF PInv, ProjectionTypeOK, InboxRow, InboxStatus, Settled
<1>4. inbox' = [inbox EXCEPT ![job] = row] /\ inbox \in [Ids -> InboxRow]
  BY DEF CommitExhausted, PInv, ProjectionTypeOK
<1>5. row.status = "DEAD_LETTER"
  OBVIOUS
<1>6. /\ phase' \in [Jobs -> {"absent", "ready", "held", "done", "dead"}]
      /\ holder' \in [Jobs -> Workers \cup {NoWorker}]
      /\ \A p \in Payments : phase'[p] = "absent" \/ phase[p] # "absent" \/ prov[p] # "created"
  BY <1>1, DeliveryType DEF CommitExhausted
<1>7. UNCHANGED <<provVars, stored, first, dbVars>>
  BY DEF CommitExhausted
<1> HIDE DEF row, job
<1>8. inbox' \in [Ids -> InboxRow] /\ \A id \in Ids : inbox'[id] = IF id = job THEN row ELSE inbox[id]
  BY <1>1, <1>3, <1>4
<1>9. \A id \in Ids : /\ inbox'[id].status # "NONE" => stored[id] # None
                      /\ inbox'[id].status = "PROCESSED" => inbox[id].status = "PROCESSED"
  BY <1>1, <1>5, <1>8 DEF PInv, StoredHappened
<1>10. QED
  BY <1>2, <1>6, <1>7, <1>8, <1>9, HandlerOnly

\* A deferred failure asks for the enrichment of a payment that failed.
LEMMA CommitDeferredStep ==
    ASSUME PInv, NEW w \in Workers, CommitDeferred(w)
    PROVE  PInv'
<1> DEFINE p == Body(h[w].job).payment
<1>1. h[w].job \in Ids /\ stored[h[w].job] # None /\ h[w].job \in Jobs
  BY LockedJob DEF CommitDeferred, Committing
<1>2. p \in Payments /\ prov[p] # "created"
  BY <1>1, StoredBody DEF CommitDeferred, Committing
<1>3. PICK rec \in Handler : Working(w, rec) /\ Holds(rec)
  BY <1>1, ResultMoves DEF CommitDeferred
<1>4. /\ inbox' \in [Ids -> InboxRow]
      /\ \A id \in Ids : /\ inbox'[id].status # "NONE" => stored[id] # None
                         /\ inbox'[id].status = "PROCESSED" => inbox[id].status = "PROCESSED"
  BY InboxType DEF CommitDeferred, Committing, InboxStatus
<1>5. /\ phase' \in [Jobs -> {"absent", "ready", "held", "done", "dead"}]
      /\ holder' \in [Jobs -> Workers \cup {NoWorker}]
      /\ \A q \in Payments : phase'[q] = "absent" \/ phase[q] # "absent" \/ prov[q] # "created"
  <2>1. CASE UNCHANGED vars
    BY <1>1, <2>1, DeliveryType
  <2>2. CASE Submit(p)
    BY <1>2, <2>2, JobsAssumption DEF Submit, PInv, ProjectionTypeOK
  <2>3. QED
    BY <2>1, <2>2 DEF CommitDeferred
<1>6. UNCHANGED <<provVars, stored, first, dbVars>>
  BY DEF CommitDeferred
<1>7. QED
  BY <1>3, <1>4, <1>5, <1>6, HandlerOnly

-----------------------------------------------------------------------------
\* store_once stores what has happened under an id that had no event.
LEMMA StoreOnceStep ==
    ASSUME PInv, NEW id \in Ids, NEW b \in Bodies, StoreOnce(id, b)
    PROVE  PInv'
<1> DEFINE row == [status |-> "RECEIVED", attempts |-> 0]
<1>1. /\ prov' = prov /\ linkAt' = linkAt /\ now' = now /\ occurred' = occurred
      /\ order' = order /\ pay' = pay /\ cases' = cases /\ instr' = instr /\ h' = h
  BY DEF StoreOnce, provVars, dbVars
<1>2. stored' \in [Ids -> Bodies \cup {None}] /\ \A i \in Ids : stored'[i] = IF i = id THEN b ELSE stored[i]
  BY DEF StoreOnce, PInv, ProjectionTypeOK
<1>3. b # None /\ occurred[b] > 0 /\ stored[id] = None
  BY NoneAssumption DEF StoreOnce, Authentic
<1>4. first' \in [Bodies -> Ids \cup {None}]
  BY DEF StoreOnce, PInv, ProjectionTypeOK
<1>5. row \in InboxRow /\ row.status = "RECEIVED"
  BY AttemptsAssumption DEF InboxRow, InboxStatus
<1>6. inbox' \in [Ids -> InboxRow] /\ \A i \in Ids : inbox'[i] = IF i = id THEN row ELSE inbox[i]
  <2> HIDE DEF row
  <2>1. inbox' = [inbox EXCEPT ![id] = row]
    BY DEF StoreOnce, row
  <2>2. QED
    BY <2>1, <1>5 DEF PInv, ProjectionTypeOK
<1>7. /\ phase' \in [Jobs -> {"absent", "ready", "held", "done", "dead"}]
      /\ holder' \in [Jobs -> Workers \cup {NoWorker}]
      /\ \A p \in Payments : phase'[p] = phase[p]
  BY JobsAssumption DEF StoreOnce, Submit, PInv, ProjectionTypeOK
<1> HIDE DEF row
<1>8. ProjectionTypeOK'
  BY <1>1, <1>2, <1>4, <1>6, <1>7 DEF PInv, ProjectionTypeOK
<1>9. InHand'
  BY <1>1, <1>2, <1>3 DEF PInv, InHand
<1>10. CausesHappened' /\ EnrichedFailed'
  BY <1>1, <1>7 DEF PInv, CausesHappened, EnrichedFailed
<1>11. StoredHappened'
  BY <1>1, <1>2, <1>3, <1>6 DEF PInv, StoredHappened
<1>12. \A t : Processed(t)' => Processed(t)
  BY <1>2, <1>5, <1>6 DEF Processed, Body
<1>13. CapturedAt => CapturedAt'
  BY <1>1 DEF CapturedAt
<1>14. QED
  BY <1>1, <1>8, <1>9, <1>10, <1>11, <1>12, <1>13, RowsStand DEF PInv, StoreOnce

\* A duplicate delivery of a webhook writes nothing.
LEMMA StuttersPInv ==
    ASSUME PInv, UNCHANGED eventVars
    PROVE  PInv'
BY DEF eventVars, vars, provVars, dbVars, PInv, ProjectionTypeOK, InHand, CausesHappened,
       StoredHappened, EnrichedFailed, InstrumentFollowsLink, TruthOfTotal, CaptureCounted,
       CollectionRecorded, CaptureEndsRecovery, DoubleCollectionIsReviewed, PaidOutcomesAreReal,
       Processed, Body, OpenCases, CapturedAt, Truth

-----------------------------------------------------------------------------
\* Something happens at the provider, and only there.
LEMMA HappensType ==
    ASSUME PInv, NEW type, NEW p, Happens(type, p)
    PROVE  /\ now' \in Nat /\ occurred' \in [Bodies -> 0..now']
           /\ \A b \in Bodies : b # [type |-> type, payment |-> p] => occurred'[b] = occurred[b]
           /\ \A b \in Bodies : occurred[b] > 0 => occurred'[b] > 0
<1>1. now \in Nat /\ now' = now + 1 /\ occurred \in [Bodies -> 0..now]
  BY DEF PInv, ProjectionTypeOK, Happens
<1> DEFINE body == [type |-> type, payment |-> p]
<1>2. body \in Bodies /\ occurred' = [occurred EXCEPT ![body] = now']
  BY DEF Happens
<1> HIDE DEF body
<1>3. \A b \in Bodies : occurred'[b] = IF b = body THEN now + 1 ELSE occurred[b]
  BY <1>1, <1>2
<1>4. occurred' \in [Bodies -> 0..now']
  <2>1. \A b \in Bodies : occurred'[b] \in 0..now'
    BY <1>1, <1>3
  <2>2. occurred' = [b \in Bodies |-> occurred'[b]]
    BY <1>1, <1>2
  <2>3. QED
    BY <2>1, <2>2
<1>5. \A b \in Bodies : occurred[b] > 0 => occurred'[b] > 0
  BY <1>1, <1>3
<1>6. QED
  BY <1>1, <1>3, <1>4, <1>5 DEF body

\* What the database sees of such a step is nothing.
LEMMA ProviderMoves ==
    ASSUME PInv, NEW type, NEW p, Happens(type, p),
           UNCHANGED <<vars, stored, first, inbox, dbVars, h>>,
           prov' \in [Payments -> {"created", "failed", "captured"}],
           linkAt' \in {"none", "open", "partial", "paid", "cancelled"},
           \A q \in Payments : /\ prov[q] # "created" => prov'[q] # "created"
                               /\ prov[q] = "captured" => prov'[q] = "captured",
           linkAt' = linkAt \/ linkAt = "open",
           CausesHappened'
    PROVE  PInv'
<1>1. /\ phase' = phase /\ holder' = holder /\ stored' = stored /\ first' = first
      /\ inbox' = inbox /\ order' = order /\ pay' = pay /\ cases' = cases /\ instr' = instr
      /\ h' = h
  BY DEF vars, dbVars
<1>2. ProjectionTypeOK'
  <2>1. now' \in Nat /\ occurred' \in [Bodies -> 0..now']
    BY HappensType
  <2>2. QED
    BY <1>1, <2>1 DEF PInv, ProjectionTypeOK
<1>3. InHand'
  BY <1>1 DEF PInv, InHand
<1>4. StoredHappened'
  <2>1. \A id \in Ids : stored[id] # None => stored[id] \in Bodies
    BY DEF PInv, ProjectionTypeOK
  <2>2. \A b \in Bodies : occurred[b] > 0 => occurred'[b] > 0
    BY HappensType
  <2>3. QED
    BY <1>1, <2>1, <2>2 DEF PInv, StoredHappened
<1>5. EnrichedFailed'
  BY <1>1 DEF PInv, EnrichedFailed
<1>6. \A t : Processed(t)' => Processed(t)
  BY <1>1 DEF Processed, Body
<1>7. CapturedAt => CapturedAt'
  BY DEF CapturedAt
<1>8. QED
  BY <1>1, <1>2, <1>3, <1>4, <1>5, <1>6, <1>7, RowsStand DEF PInv

\* A failure reaches the database through its webhook only.
LEMMA PaymentFailsStep ==
    ASSUME PInv, NEW p \in Payments, PaymentFails(p)
    PROVE  PInv'
<1>1. /\ prov' \in [Payments -> {"created", "failed", "captured"}] /\ linkAt' = linkAt
      /\ \A q \in Payments : prov'[q] = IF q = p THEN "failed" ELSE prov[q]
  BY DEF PInv, ProjectionTypeOK, PaymentFails
<1>2. prov[p] = "created" /\ Happens("payment.failed", p)
  BY DEF PaymentFails
<1>3. CausesHappened'
  <2>1. \A b \in Bodies : \/ b = [type |-> "payment.failed", payment |-> p]
                          \/ occurred'[b] = occurred[b]
    BY <1>2, HappensType
  <2>2. QED
    BY <1>1, <1>2, <2>1 DEF PInv, CausesHappened
<1>4. \A q \in Payments : /\ prov[q] # "created" => prov'[q] # "created"
                          /\ prov[q] = "captured" => prov'[q] = "captured"
  BY <1>1, <1>2
<1>5. linkAt' \in {"none", "open", "partial", "paid", "cancelled"}
  BY <1>1 DEF PInv, ProjectionTypeOK
<1>6. UNCHANGED <<vars, stored, first, inbox, dbVars, h>>
  BY DEF PaymentFails
<1>7. QED
  BY <1>1, <1>2, <1>3, <1>4, <1>5, <1>6, ProviderMoves

\* A capture reaches the database through its webhook only.
LEMMA PaymentCapturedStep ==
    ASSUME PInv, NEW p \in Payments, PaymentCaptured(p)
    PROVE  PInv'
<1>1. /\ prov' \in [Payments -> {"created", "failed", "captured"}] /\ linkAt' = linkAt
      /\ \A q \in Payments : prov'[q] = IF q = p THEN "captured" ELSE prov[q]
  BY DEF PInv, ProjectionTypeOK, PaymentCaptured
<1>2. prov[p] = "failed" /\ Happens("payment.captured", p)
  BY DEF PaymentCaptured
<1>3. CausesHappened'
  <2>1. \A b \in Bodies : \/ b = [type |-> "payment.captured", payment |-> p]
                          \/ occurred'[b] = occurred[b]
    BY <1>2, HappensType
  <2>2. QED
    BY <1>1, <1>2, <2>1 DEF PInv, CausesHappened
<1>4. \A q \in Payments : /\ prov[q] # "created" => prov'[q] # "created"
                          /\ prov[q] = "captured" => prov'[q] = "captured"
  BY <1>1, <1>2
<1>5. linkAt' \in {"none", "open", "partial", "paid", "cancelled"}
  BY <1>1 DEF PInv, ProjectionTypeOK
<1>6. UNCHANGED <<vars, stored, first, inbox, dbVars, h>>
  BY DEF PaymentCaptured
<1>7. QED
  BY <1>1, <1>2, <1>3, <1>4, <1>5, <1>6, ProviderMoves

\* An open link is paid, in whole or in part, once.
LEMMA LinkPaidStep ==
    ASSUME PInv, NEW to \in {"partial", "paid"}, LinkPaid(to)
    PROVE  PInv'
<1> DEFINE type == IF to = "paid" THEN "payment_link.paid" ELSE "payment_link.partially_paid"
<1>1. linkAt = "open" /\ linkAt' = to /\ prov' = prov /\ Happens(type, None)
  BY DEF LinkPaid
<1>2. CausesHappened'
  <2>1. \A b \in Bodies : \/ b = [type |-> type, payment |-> None]
                          \/ occurred'[b] = occurred[b]
    BY <1>1, HappensType
  <2>2. QED
    BY <1>1, <2>1 DEF PInv, CausesHappened
<1>3. prov \in [Payments -> {"created", "failed", "captured"}]
  BY DEF PInv, ProjectionTypeOK
<1>4. UNCHANGED <<vars, stored, first, inbox, dbVars, h>>
  BY DEF LinkPaid
<1> HIDE DEF type
<1>5. QED
  BY <1>1, <1>2, <1>3, <1>4, ProviderMoves

-----------------------------------------------------------------------------
\* An event is processed: what does not depend on the rows it projects to.
LEMMA ProcessedMoves ==
    ASSUME PInv, NEW w \in Workers, At(w, "locked"), ~Exhausted(h[w].job),
           InboxTo(h[w].job, "PROCESSED"), Result(w, "done"),
           UNCHANGED <<vars, provVars, stored, first>>
    PROVE  /\ phase' = phase /\ holder' = holder /\ prov' = prov /\ linkAt' = linkAt
           /\ now' = now /\ occurred' = occurred /\ stored' = stored /\ first' = first
           /\ inbox' \in [Ids -> InboxRow] /\ h' \in [Workers -> Handler]
           /\ InHand' /\ CausesHappened' /\ StoredHappened' /\ EnrichedFailed'
           /\ \A t : Processed(t)' => Processed(t) \/ t = Body(h[w].job).type
<1>1. /\ phase' = phase /\ holder' = holder /\ prov' = prov /\ linkAt' = linkAt
      /\ now' = now /\ occurred' = occurred /\ stored' = stored /\ first' = first
  BY DEF vars, provVars
<1>2. h[w].job \in Jobs /\ h[w].job \in Ids
  BY LockedJob
<1>3. PICK rec \in Handler : Working(w, rec) /\ Holds(rec)
  BY <1>2, ResultMoves
<1>4. /\ inbox' \in [Ids -> InboxRow]
      /\ \A id \in Ids :
            /\ inbox'[id].status # "NONE" => stored[id] # None
            /\ inbox'[id].status = IF id = h[w].job THEN "PROCESSED" ELSE inbox[id].status
  BY InboxType DEF InboxStatus, Settled
<1>5. /\ phase' \in [Jobs -> {"absent", "ready", "held", "done", "dead"}]
      /\ holder' \in [Jobs -> Workers \cup {NoWorker}]
      /\ \A p \in Payments : phase'[p] = "absent" \/ phase[p] # "absent" \/ prov[p] # "created"
  BY <1>2, DeliveryType
<1>6. /\ h' \in [Workers -> Handler]
      /\ InHand' /\ CausesHappened' /\ StoredHappened' /\ EnrichedFailed'
  BY <1>3, <1>4, <1>5, HandlerMoves
<1>7. \A t : Processed(t)' => Processed(t) \/ t = Body(h[w].job).type
  BY <1>1, <1>4 DEF Processed, Body
<1>8. QED
  BY <1>1, <1>4, <1>6, <1>7

\* An order whose truth is unpaid has no processed capture.
LEMMA UnpaidOrder ==
    ASSUME PInv, order.truth = "UNPAID"
    PROVE  ~Processed("payment.captured")
<1>1. order.total \in Nat /\ order.truth = Truth(order.total)
  BY DEF PInv, ProjectionTypeOK, OrderRow, TruthOfTotal
<1>2. order.total = 0
  BY <1>1 DEF Truth, Due
<1>3. QED
  BY <1>2 DEF PInv, CaptureCounted, Due

\* The truth of a total is a truth.
LEMMA TruthType ==
    ASSUME NEW total \in Nat
    PROVE  Truth(total) \in {"UNPAID", "PARTIALLY_PAID", "PAID", "OVERPAID"}
BY DEF Truth, Due

\* Snapshots and totals only move forward.
LEMMA Max2Type ==
    ASSUME NEW a \in Nat, NEW b \in Nat
    PROVE  Max2(a, b) \in Nat /\ Max2(a, b) >= a /\ Max2(a, b) >= b
BY DEF Max2

\* A failure opens a case only for an unpaid order, hence before any capture is
\* processed.
LEMMA CommitFailureStep ==
    ASSUME PInv, NEW w \in Workers, CommitFailure(w)
    PROVE  PInv'
<1> DEFINE id == h[w].job
           p == Body(id).payment
<1>1. id \in Ids /\ stored[id] # None /\ Body(id).type = "payment.failed" /\ p \in Payments
  BY LockedJob, StoredBody DEF CommitFailure, Committing
<1>2. /\ phase' = phase /\ holder' = holder /\ prov' = prov /\ linkAt' = linkAt
      /\ now' = now /\ occurred' = occurred /\ stored' = stored /\ first' = first
      /\ inbox' \in [Ids -> InboxRow] /\ h' \in [Workers -> Handler]
      /\ InHand' /\ CausesHappened' /\ StoredHappened' /\ EnrichedFailed'
      /\ \A t : Processed(t)' => Processed(t) \/ t = Body(h[w].job).type
  BY ProcessedMoves DEF CommitFailure, Committing
<1>3. \A t : t # "payment.failed" /\ Processed(t)' => Processed(t)
  BY <1>1, <1>2
<1>4. order' = order /\ instr' = instr
  BY DEF CommitFailure
<1>5. pay' \in [Payments -> PaymentRow]
  <2>1. pay \in [Payments -> PaymentRow]
    BY DEF PInv, ProjectionTypeOK
  <2>2. 2 * occurred[Body(id)] \in Nat
    BY <1>1, StoredBody
  <2>3. pay[p].snap \in Nat
    BY <1>1, <2>1 DEF PaymentRow
  <2>4. Max2(pay[p].snap, 2 * occurred[Body(id)]) \in Nat
    BY <2>2, <2>3, Max2Type
  <2>5. Marked(pay[p], id) \in PaymentRow
    BY <1>1, <2>1, <2>4 DEF Marked, PaymentRow
  <2>6. pay' = pay \/ pay' = [pay EXCEPT ![p] = Marked(pay[p], id)]
    BY DEF CommitFailure
  <2>7. QED
    BY <2>1, <2>5, <2>6
<1>6. \/ cases' = cases
      \/ order.truth = "UNPAID" /\ cases' = Append(cases, "OBSERVING")
  BY DEF CommitFailure
<1>7. CASE cases' = cases
  <2>1. ProjectionTypeOK'
    BY <1>2, <1>4, <1>5, <1>7 DEF PInv, ProjectionTypeOK
  <2>2. InstrumentFollowsLink' /\ TruthOfTotal'
    BY <1>2, <1>4, <1>7 DEF PInv, InstrumentFollowsLink, TruthOfTotal, Truth, Due
  <2>3. CaptureCounted' /\ CollectionRecorded'
    BY <1>3, <1>4, <1>7 DEF PInv, CaptureCounted, CollectionRecorded, Due
  <2>4. CaptureEndsRecovery' /\ DoubleCollectionIsReviewed'
    BY <1>3, <1>4, <1>7
       DEF PInv, CaptureEndsRecovery, DoubleCollectionIsReviewed, OpenCases, OpenStates
  <2>5. PaidOutcomesAreReal'
    BY <1>2, <1>4, <1>7 DEF PInv, PaidOutcomesAreReal, CapturedAt
  <2>6. QED
    BY <1>2, <2>1, <2>2, <2>3, <2>4, <2>5 DEF PInv
<1>8. CASE order.truth = "UNPAID" /\ cases' = Append(cases, "OBSERVING")
  <2>1. /\ cases \in Seq(CaseStates) /\ "OBSERVING" \in CaseStates
        /\ Len(cases) \in Nat /\ DOMAIN cases = 1..Len(cases)
    BY CaseFacts DEF PInv, ProjectionTypeOK, CaseStates, OpenStates
  <2>2. /\ cases' \in Seq(CaseStates) /\ Len(cases') = Len(cases) + 1
        /\ \A c \in 1..Len(cases) : cases'[c] = cases[c]
        /\ cases'[Len(cases) + 1] = "OBSERVING"
    BY <1>8, <2>1, AppendProperties
  <2>3. DOMAIN cases' = 1..(Len(cases) + 1)
    BY <2>1, <2>2
  <2>4. instr.status # "ABSENT" =>
            instr.case \in DOMAIN cases /\ instr.case \in DOMAIN cases' /\ cases'[instr.case] = cases[instr.case]
    BY <2>1, <2>2, <2>3 DEF PInv, InstrumentFollowsLink
  <2>5. \A c \in DOMAIN cases' : cases'[c] = "OBSERVING" \/ (c \in DOMAIN cases /\ cases'[c] = cases[c])
    BY <2>1, <2>2, <2>3
  <2>6. ~Processed("payment.captured")'
    BY <1>3, <1>8, UnpaidOrder
  <2>7. ProjectionTypeOK'
    <3>1. instr.case \in 0..Len(cases')
      BY <2>1, <2>2 DEF PInv, ProjectionTypeOK
    <3>2. QED
      BY <1>2, <1>4, <1>5, <2>2, <3>1 DEF PInv, ProjectionTypeOK
  <2>8. InstrumentFollowsLink'
    BY <1>2, <1>4, <2>4, <2>5 DEF PInv, InstrumentFollowsLink
  <2>9. TruthOfTotal'
    BY <1>4 DEF PInv, TruthOfTotal, Truth, Due
  <2>10. CaptureCounted' /\ CaptureEndsRecovery'
    BY <2>6 DEF CaptureCounted, CaptureEndsRecovery
  <2>11. CollectionRecorded'
    BY <1>3, <1>4 DEF PInv, CollectionRecorded
  <2>12. DoubleCollectionIsReviewed'
    BY <1>3, <1>4, <2>4, <2>6 DEF PInv, DoubleCollectionIsReviewed, CollectionRecorded
  <2>13. PaidOutcomesAreReal'
    BY <1>2, <1>4, <2>5 DEF PInv, PaidOutcomesAreReal, CapturedAt
  <2>14. QED
    BY <1>2, <2>7, <2>8, <2>9, <2>10, <2>11, <2>12, <2>13 DEF PInv
<1>9. QED
  BY <1>6, <1>7, <1>8

-----------------------------------------------------------------------------
\* The amounts a projection adds up are natural numbers.
LEMMA CapturedType ==
    ASSUME NEW S \in SUBSET Payments
    PROVE  CapturedOf(S) \in Nat /\ IsFiniteSet(S)
<1>1. IsFiniteSet(S)
  BY PaymentsAssumption, FS_Subset
<1>2. Cardinality(S) \in Nat
  BY <1>1, FS_CardinalityType
<1>3. QED
  BY <1>1, <1>2 DEF CapturedOf, Due

\* A capture counts its own payment.
LEMMA CaptureTotalType ==
    ASSUME PInv, NEW p \in Payments
    PROVE  CaptureTotal(p) \in Nat /\ CaptureTotal(p) >= Due
<1> DEFINE S == CapturedPayments \cup {p}
<1>1. S \in SUBSET Payments
  BY DEF CapturedPayments
<1> HIDE DEF S
<1>2. IsFiniteSet(S) /\ Cardinality(S) \in Nat
  BY <1>1, CapturedType, FS_CardinalityType
<1>3. Cardinality(S) # 0
  BY <1>2, FS_EmptySet DEF S
<1>4. instr.collected \in 0..Due
  BY DEF PInv, ProjectionTypeOK, LinkRow
<1>5. CaptureTotal(p) = 2 * Cardinality(S) + instr.collected
  BY DEF CaptureTotal, CapturedOf, S, Due
<1>6. QED
  BY <1>2, <1>3, <1>4, <1>5 DEF Due

\* The order a projection leaves.
LEMMA ProjectedType ==
    ASSUME PInv, NEW id \in Ids, stored[id] # None, NEW total \in Nat
    PROVE  /\ Projected(id, total) \in OrderRow
           /\ Projected(id, total).total = total
           /\ Projected(id, total).truth = Truth(total)
<1>1. order.mapped \in BOOLEAN /\ order.snap \in Nat
  BY DEF PInv, ProjectionTypeOK, OrderRow
<1>2. 2 * occurred[Body(id)] \in Nat
  BY StoredBody
<1>3. Max2(order.snap, 2 * occurred[Body(id)]) \in Nat
  BY <1>1, <1>2, Max2Type
<1>4. Truth(total) \in {"UNPAID", "PARTIALLY_PAID", "PAID", "OVERPAID"}
  BY TruthType
<1>5. QED
  BY <1>1, <1>3, <1>4 DEF Projected, OrderRow

-----------------------------------------------------------------------------
\* _apply_capture ends every open case, and sends the case of a collected link to
\* review.
LEMMA CommitCaptureStep ==
    ASSUME PInv, NEW w \in Workers, CommitCapture(w)
    PROVE  PInv'
<1> DEFINE id == h[w].job
           p == Body(id).payment
           row == CaptureTarget(id, h[w].pay)
           seen == Max2(row.snap, 2 * occurred[Body(id)])
           captured == [status |-> "CAPTURED", captured |-> Due, marker |-> row.marker, snap |-> seen]
           collected == instr.status \in {"PAID", "PARTIALLY_PAID"}
<1>1. /\ id \in Ids /\ stored[id] # None /\ Body(id).type = "payment.captured" /\ p \in Payments
      /\ CapturedAt /\ 2 * occurred[Body(id)] \in Nat /\ h[w] \in Handler
  BY LockedJob, StoredBody DEF CommitCapture, Committing
<1>2. /\ phase' = phase /\ holder' = holder /\ prov' = prov /\ linkAt' = linkAt
      /\ now' = now /\ occurred' = occurred /\ stored' = stored /\ first' = first
      /\ inbox' \in [Ids -> InboxRow] /\ h' \in [Workers -> Handler]
      /\ InHand' /\ CausesHappened' /\ StoredHappened' /\ EnrichedFailed'
      /\ \A t : Processed(t)' => Processed(t) \/ t = Body(h[w].job).type
  BY ProcessedMoves DEF CommitCapture, Committing
<1>3. \A t : t # "payment.captured" /\ Processed(t)' => Processed(t)
  BY <1>1, <1>2
<1>4. pay' \in [Payments -> PaymentRow]
  <2>1. h[w].pay \in PaymentRow
    BY <1>1 DEF Handler
  <2>2. row.marker \in Ids \cup {None} /\ row.snap \in Nat
    BY <1>1, <2>1 DEF CaptureTarget, PaymentRow
  <2>3. seen \in Nat
    BY <1>1, <2>2, Max2Type
  <2> HIDE DEF row, seen
  <2>4. captured \in PaymentRow
    BY <2>2, <2>3 DEF PaymentRow, Due
  <2>5. pay' = [pay EXCEPT ![p] = captured]
    BY DEF CommitCapture, row, seen
  <2> HIDE DEF captured
  <2>6. QED
    BY <2>4, <2>5 DEF PInv, ProjectionTypeOK
<1>5. /\ order' \in OrderRow /\ order'.total >= Due /\ order'.truth = Truth(order'.total)
      /\ order'.total \in Nat
  <2>1. CaptureTotal(p) \in Nat /\ CaptureTotal(p) >= Due
    BY <1>1, CaptureTotalType
  <2>2. order' = Projected(id, CaptureTotal(p))
    BY DEF CommitCapture
  <2>3. QED
    BY <1>1, <2>1, <2>2, ProjectedType
<1>6. instr' = instr
  BY DEF CommitCapture
<1>7. /\ DOMAIN cases' = DOMAIN cases
      /\ \A c \in DOMAIN cases : cases'[c] = CaseAfterCapture(c, collected /\ c = instr.case)
      /\ cases' = [c \in DOMAIN cases |-> CaseAfterCapture(c, collected /\ c = instr.case)]
  BY DEF CommitCapture
<1>8. \A c \in DOMAIN cases :
         /\ cases'[c] \in CaseStates /\ cases'[c] \notin OpenStates
         /\ cases'[c] # cases[c] => cases'[c] = "SUPPRESSED_PAID" \/ (collected /\ cases'[c] = "DUPLICATE_REVIEW")
         /\ collected /\ c = instr.case => cases'[c] = "DUPLICATE_REVIEW"
         /\ cases[c] = "DUPLICATE_REVIEW" => cases'[c] = "DUPLICATE_REVIEW"
  BY <1>7, CaseFacts DEF CaseAfterCapture, CaseStates, OpenStates
<1>9. \A c \in DOMAIN cases : cases'[c] # "RECOVERED"
  BY <1>8 DEF PInv, InstrumentFollowsLink
<1>10. cases' \in Seq(CaseStates) /\ Len(cases') = Len(cases)
  <2>1. DOMAIN cases = 1..Len(cases) /\ Len(cases) \in Nat
    BY CaseFacts
  <2>2. cases' \in [1..Len(cases) -> CaseStates]
    BY <1>7, <1>8, <2>1
  <2>3. QED
    BY <2>1, <2>2, SeqDef
<1>11. ProjectionTypeOK'
  BY <1>2, <1>4, <1>5, <1>6, <1>10 DEF PInv, ProjectionTypeOK
<1>12. InstrumentFollowsLink' /\ TruthOfTotal'
  BY <1>2, <1>5, <1>6, <1>7, <1>9 DEF PInv, InstrumentFollowsLink, TruthOfTotal, Truth, Due
<1>13. CaptureCounted' /\ CollectionRecorded'
  BY <1>3, <1>5, <1>6, <1>9 DEF PInv, CaptureCounted, CollectionRecorded, InstrumentFollowsLink, Due
<1>14. CaptureEndsRecovery'
  BY <1>7, <1>8 DEF CaptureEndsRecovery, OpenCases, OpenStates
<1>15. DoubleCollectionIsReviewed'
  BY <1>3, <1>6, <1>8 DEF PInv, DoubleCollectionIsReviewed, CollectionRecorded, InstrumentFollowsLink
<1>16. PaidOutcomesAreReal'
  <2>1. CapturedAt'
    BY <1>1, <1>2 DEF CapturedAt
  <2>2. collected => linkAt \in {"partial", "paid"}
    BY DEF PInv, InstrumentFollowsLink
  <2>3. QED
    BY <1>2, <1>6, <1>7, <1>8, <1>9, <2>1, <2>2 DEF PInv, PaidOutcomesAreReal
<1>17. QED
  BY <1>2, <1>11, <1>12, <1>13, <1>14, <1>15, <1>16 DEF PInv

\* _apply_link recovers its case only while no capture was processed; otherwise
\* the case goes to review.
LEMMA CommitLinkStep ==
    ASSUME PInv, NEW w \in Workers, CommitLink(w)
    PROVE  PInv'
<1> DEFINE id == h[w].job
           type == Body(id).type
           k == instr.case
<1>1. /\ id \in Ids /\ stored[id] # None /\ 2 * occurred[Body(id)] \in Nat
      /\ type \in LinkTypes
      /\ type = "payment_link.paid" => linkAt = "paid"
      /\ type = "payment_link.partially_paid" => linkAt = "partial"
  BY LockedJob, StoredBody DEF CommitLink, Committing
<1>2. /\ phase' = phase /\ holder' = holder /\ prov' = prov /\ linkAt' = linkAt
      /\ now' = now /\ occurred' = occurred /\ stored' = stored /\ first' = first
      /\ inbox' \in [Ids -> InboxRow] /\ h' \in [Workers -> Handler]
      /\ InHand' /\ CausesHappened' /\ StoredHappened' /\ EnrichedFailed'
      /\ \A t : Processed(t)' => Processed(t) \/ t = Body(h[w].job).type
  BY ProcessedMoves DEF CommitLink, Committing
<1>3. Processed("payment.captured")' => Processed("payment.captured")
  BY <1>1, <1>2 DEF LinkTypes
<1>4. /\ pay' = pay
      /\ instr' = [status |-> Collection(id).status, collected |-> Collection(id).amount, case |-> k]
      /\ cases' = [cases EXCEPT ![k] = CaseAfterLink(id)]
      /\ order' = Projected(id, LinkTotal(id))
      /\ instr.status \in Accepting(Collection(id).status)
      /\ Monotonic(LinkTotal(id))
  BY DEF CommitLink, LinkRefused
<1>5. /\ instr'.case = k
      /\ type = "payment_link.paid" => instr'.status = "PAID"
      /\ type # "payment_link.paid" => instr'.status = "PARTIALLY_PAID" /\ instr.status # "PAID"
      /\ instr' \in LinkRow
      /\ instr.status # "ABSENT"
      /\ Collection(id).amount \in 0..Due
  <2>1. instr.case \in Nat
    BY DEF PInv, ProjectionTypeOK, LinkRow
  <2>2. QED
    BY <1>4, <2>1 DEF Collection, LinkRow, Due, Accepting
<1>6. k \in DOMAIN cases /\ DOMAIN cases = 1..Len(cases) /\ Len(cases) \in Nat
  BY <1>5, CaseFacts DEF PInv, InstrumentFollowsLink
<1>7. /\ CaseAfterLink(id) \in {"DUPLICATE_REVIEW", "RECOVERED"}
      /\ CaseAfterLink(id) = "RECOVERED" =>
            /\ type = "payment_link.paid"
            /\ cases[k] \in {"ACTIVE", "RECOVERED"}
            /\ cases[k] = "RECOVERED" => instr.status = "PAID"
  BY <1>1 DEF CaseAfterLink, LinkTypes
<1>8. Processed("payment.captured") => CaseAfterLink(id) = "DUPLICATE_REVIEW"
  <2>1. Processed("payment.captured") => cases[k] \notin {"ACTIVE", "RECOVERED"}
    BY <1>5, <1>6 DEF PInv, CaptureEndsRecovery, CaptureCounted, OpenCases, OpenStates
  <2>2. QED
    BY <1>7, <2>1
<1>9. /\ cases' \in Seq(CaseStates) /\ Len(cases') = Len(cases) /\ DOMAIN cases' = DOMAIN cases
      /\ \A c \in DOMAIN cases : cases'[c] = IF c = k THEN CaseAfterLink(id) ELSE cases[c]
  <2>1. cases \in Seq(CaseStates) /\ CaseAfterLink(id) \in CaseStates
    BY <1>7 DEF PInv, ProjectionTypeOK, CaseStates
  <2>2. QED
    BY <1>4, <1>6, <2>1, ExceptSeq
<1>10. /\ order' \in OrderRow /\ order'.truth = Truth(order'.total) /\ order'.total >= order.total
       /\ order'.total \in Nat
  <2>1. CapturedOf(CapturedPayments) \in Nat
    BY CapturedType DEF CapturedPayments
  <2>2. LinkTotal(id) \in Nat
    BY <1>5, <2>1 DEF LinkTotal, Due
  <2>3. order.total \in Nat /\ order.total <= LinkTotal(id)
    BY <1>4 DEF Monotonic, PInv, ProjectionTypeOK, OrderRow
  <2>4. QED
    BY <1>1, <1>4, <2>2, <2>3, ProjectedType
<1>11. ProjectionTypeOK'
  <2>1. instr'.case \in 0..Len(cases')
    BY <1>5, <1>6, <1>9
  <2>2. QED
    BY <1>2, <1>4, <1>5, <1>9, <1>10, <2>1 DEF PInv, ProjectionTypeOK
<1>12. InstrumentFollowsLink'
  <2>1. \A c \in DOMAIN cases' : cases'[c] = "RECOVERED" => instr'.status = "PAID" /\ instr'.case = c
    BY <1>5, <1>7, <1>9 DEF PInv, InstrumentFollowsLink
  <2>2. instr'.status = "PAID" => linkAt' = "paid"
    BY <1>1, <1>2, <1>5
  <2>3. instr'.status = "PARTIALLY_PAID" => linkAt' = "partial"
    BY <1>1, <1>2, <1>5 DEF LinkTypes
  <2>4. instr'.status # "ABSENT" /\ instr'.case \in DOMAIN cases'
    BY <1>5, <1>6, <1>9
  <2>5. QED
    BY <2>1, <2>2, <2>3, <2>4 DEF InstrumentFollowsLink
<1>13. TruthOfTotal'
  BY <1>10 DEF TruthOfTotal, Truth, Due
<1>14. CaptureCounted'
  <2>1. Processed("payment.captured")' => order'.total >= Due
    BY <1>3, <1>10 DEF PInv, CaptureCounted, ProjectionTypeOK, OrderRow, Due
  <2>2. Processed("payment.captured")' => cases'[instr'.case] # "RECOVERED"
    BY <1>3, <1>5, <1>6, <1>8, <1>9
  <2>3. QED
    BY <2>1, <2>2 DEF CaptureCounted, Due
<1>15. CollectionRecorded'
  BY <1>1, <1>2, <1>5 DEF PInv, CollectionRecorded, LinkTypes
<1>16. CaptureEndsRecovery'
  BY <1>3, <1>6, <1>8, <1>9 DEF PInv, CaptureEndsRecovery, OpenCases, OpenStates
<1>17. DoubleCollectionIsReviewed'
  <2>1. Processed("payment.captured")' => cases'[instr'.case] = "DUPLICATE_REVIEW"
    BY <1>3, <1>5, <1>6, <1>8, <1>9
  <2>2. Processed("payment_link.partially_paid")' => cases'[instr'.case] = "DUPLICATE_REVIEW"
    <3>1. CASE type = "payment_link.partially_paid"
      BY <3>1, <1>5, <1>6, <1>7, <1>9
    <3>2. CASE Processed("payment_link.partially_paid")
      <4>1. cases[k] = "DUPLICATE_REVIEW"
        BY <3>2 DEF PInv, DoubleCollectionIsReviewed
      <4>2. QED
        BY <4>1, <1>5, <1>6, <1>7, <1>9
    <3>3. QED
      BY <1>2, <3>1, <3>2
  <2>3. QED
    BY <2>1, <2>2 DEF DoubleCollectionIsReviewed
<1>18. PaidOutcomesAreReal'
  <2>1. linkAt \in {"partial", "paid"} /\ CapturedAt' = CapturedAt
    BY <1>1, <1>2 DEF LinkTypes, CapturedAt
  <2>2. QED
    BY <1>1, <1>2, <1>5, <1>7, <1>9, <2>1 DEF PInv, PaidOutcomesAreReal
<1>19. QED
  BY <1>2, <1>11, <1>12, <1>13, <1>14, <1>15, <1>16, <1>17, <1>18 DEF PInv

\* A snapshot may overwrite a payment's row, but never lowers the order's total.
LEMMA PersistEnrichmentStep ==
    ASSUME PInv, NEW w \in Workers, PersistEnrichment(w)
    PROVE  PInv'
<1> DEFINE p == h[w].job
           seen == h[w].seen
           paid == h[w].paid
<1>1. p \in Payments /\ p \in Jobs /\ seen \in Nat /\ paid \in {0, Due}
  BY JobsAssumption DEF PInv, ProjectionTypeOK, InHand, PersistEnrichment, At, Handler
<1>2. PICK rec \in Handler : Working(w, rec) /\ Holds(rec)
  BY <1>1, ResultMoves DEF PersistEnrichment
<1>3. /\ phase' = phase /\ holder' = holder /\ prov' = prov /\ linkAt' = linkAt /\ now' = now
      /\ occurred' = occurred /\ stored' = stored /\ first' = first /\ inbox' = inbox
      /\ cases' = cases /\ instr' = instr
  BY DEF PersistEnrichment, vars, provVars
<1>4. /\ phase' \in [Jobs -> {"absent", "ready", "held", "done", "dead"}]
      /\ holder' \in [Jobs -> Workers \cup {NoWorker}]
      /\ \A q \in Payments : phase'[q] = "absent" \/ phase[q] # "absent" \/ prov[q] # "created"
  BY <1>1, DeliveryType DEF PersistEnrichment
<1>5. inbox' \in [Ids -> InboxRow] /\ \A i \in Ids : inbox'[i].status # "NONE" => stored[i] # None
  BY <1>3 DEF PInv, ProjectionTypeOK, StoredHappened
<1>6. /\ h' \in [Workers -> Handler]
      /\ InHand' /\ CausesHappened' /\ StoredHappened' /\ EnrichedFailed'
  BY <1>2, <1>4, <1>5, HandlerMoves DEF PersistEnrichment
<1>7. /\ order' \in OrderRow /\ order'.truth = Truth(order'.total) /\ order'.total >= order.total
      /\ order'.total \in Nat /\ order.total \in Nat
  <2>1. order \in OrderRow /\ order.total \in Nat /\ order.truth = Truth(order.total)
    BY DEF PInv, ProjectionTypeOK, OrderRow, TruthOfTotal
  <2>2. Max2(order.total, paid) \in Nat /\ Max2(order.total, paid) >= order.total
    BY <1>1, <2>1, Max2Type DEF Due
  <2>3. Truth(Max2(order.total, paid)) \in {"UNPAID", "PARTIALLY_PAID", "PAID", "OVERPAID"}
    BY <2>2, TruthType
  <2>4. /\ EnrichedOrder(paid, seen) \in OrderRow
        /\ EnrichedOrder(paid, seen).total = Max2(order.total, paid)
        /\ EnrichedOrder(paid, seen).truth = Truth(Max2(order.total, paid))
    BY <1>1, <2>2, <2>3 DEF EnrichedOrder, OrderRow
  <2>5. order' = EnrichedOrder(paid, seen) \/ order' = order
    BY DEF PersistEnrichment
  <2>6. CASE order' = order
    BY <2>1, <2>6
  <2>7. CASE order' = EnrichedOrder(paid, seen)
    BY <2>1, <2>2, <2>4, <2>7
  <2>8. QED
    BY <2>5, <2>6, <2>7
<1>8. pay' \in [Payments -> PaymentRow]
  <2>1. pay \in [Payments -> PaymentRow]
    BY DEF PInv, ProjectionTypeOK
  <2>2. EnrichedRow(h[w].fetched, seen) \in PaymentRow
    BY <1>1 DEF EnrichedRow, PaymentRow, Due
  <2>3. \/ pay' = [pay EXCEPT ![p] = EnrichedRow(h[w].fetched, seen)]
        \/ pay' = [pay EXCEPT ![p] = pay[p]]
    BY <1>1, <2>1 DEF PersistEnrichment
  <2>4. QED
    BY <1>1, <2>1, <2>2, <2>3
<1>9. ProjectionTypeOK'
  BY <1>3, <1>6, <1>7, <1>8 DEF PInv, ProjectionTypeOK
<1>10. InstrumentFollowsLink' /\ CollectionRecorded'
  BY <1>3 DEF PInv, InstrumentFollowsLink, CollectionRecorded, Processed, Body
<1>11. TruthOfTotal'
  BY <1>7 DEF TruthOfTotal, Truth, Due
<1>12. CaptureCounted'
  BY <1>3, <1>7 DEF PInv, CaptureCounted, Processed, Body, Due
<1>13. CaptureEndsRecovery' /\ DoubleCollectionIsReviewed'
  BY <1>3 DEF PInv, CaptureEndsRecovery, DoubleCollectionIsReviewed, OpenCases, OpenStates, Processed, Body
<1>14. PaidOutcomesAreReal'
  BY <1>3 DEF PInv, PaidOutcomesAreReal, CapturedAt
<1>15. QED
  BY <1>6, <1>9, <1>10, <1>11, <1>12, <1>13, <1>14 DEF PInv

-----------------------------------------------------------------------------
\* A link is created for an observed case of an unpaid order.
LEMMA CreateLinkStep ==
    ASSUME PInv, NEW c \in DOMAIN cases, CreateLink(c)
    PROVE  PInv'
<1>1. /\ phase' = phase /\ holder' = holder /\ prov' = prov /\ now' = now
      /\ occurred' = occurred /\ stored' = stored /\ first' = first /\ inbox' = inbox
      /\ cases' = cases /\ order' = order /\ pay' = pay /\ h' = h /\ linkAt' = "open"
  BY DEF CreateLink, vars
<1>2. cases[c] = "OBSERVING" /\ instr.status = "ABSENT" /\ linkAt = "none"
  BY DEF CreateLink, PInv, InstrumentFollowsLink
<1>3. c \in 1..Len(cases) /\ Len(cases) \in Nat
  BY CaseFacts
<1>4. instr' \in LinkRow /\ instr'.status = "UNCERTAIN" /\ instr'.case = c
  BY <1>3 DEF CreateLink, LinkRow, Due
<1>5. ProjectionTypeOK'
  BY <1>1, <1>3, <1>4 DEF PInv, ProjectionTypeOK
<1>6. InHand' /\ StoredHappened' /\ EnrichedFailed'
  BY <1>1 DEF PInv, InHand, StoredHappened, EnrichedFailed
<1>7. CausesHappened'
  BY <1>1, <1>2 DEF PInv, CausesHappened
<1>8. InstrumentFollowsLink' /\ TruthOfTotal'
  BY <1>1, <1>2, <1>4 DEF PInv, InstrumentFollowsLink, TruthOfTotal, Truth, Due
<1>9. CaptureCounted' /\ CollectionRecorded'
  BY <1>1, <1>2, <1>4 DEF PInv, CaptureCounted, CollectionRecorded, Processed, Body, Due
<1>10. CaptureEndsRecovery' /\ DoubleCollectionIsReviewed'
  BY <1>1, <1>2, <1>4
     DEF PInv, CaptureEndsRecovery, DoubleCollectionIsReviewed, CollectionRecorded, OpenCases,
         OpenStates, Processed, Body
<1>11. PaidOutcomesAreReal'
  BY <1>1, <1>2 DEF PInv, PaidOutcomesAreReal, CapturedAt, InstrumentFollowsLink
<1>12. QED
  BY <1>5, <1>6, <1>7, <1>8, <1>9, <1>10, <1>11 DEF PInv

\* A step of the rest of the system that moves one case on.
LEMMA CaseMoves ==
    ASSUME PInv, UNCHANGED <<vars, provVars, stored, first, inbox, order, pay, h>>,
           NEW c \in DOMAIN cases, NEW state \in {"ACTIVE", "CLOSED"} \cup {cases[c]},
           cases' = [cases EXCEPT ![c] = state],
           state # cases[c] => cases[c] = "OBSERVING",
           instr' \in LinkRow, instr'.case = instr.case,
           instr' = instr \/ (instr.status = "UNCERTAIN" /\ instr'.status = "ACTIVE")
    PROVE  PInv'
<1>1. /\ phase' = phase /\ holder' = holder /\ prov' = prov /\ linkAt' = linkAt /\ now' = now
      /\ occurred' = occurred /\ stored' = stored /\ first' = first /\ inbox' = inbox
      /\ order' = order /\ pay' = pay /\ h' = h
  BY DEF vars, provVars
<1>2. /\ cases' \in Seq(CaseStates) /\ Len(cases') = Len(cases) /\ DOMAIN cases' = DOMAIN cases
      /\ \A d \in DOMAIN cases : cases'[d] = IF d = c THEN state ELSE cases[d]
  <2>1. cases \in Seq(CaseStates) /\ c \in 1..Len(cases) /\ state \in CaseStates
    BY CaseFacts DEF PInv, ProjectionTypeOK, CaseStates, OpenStates
  <2>2. QED
    BY <2>1, ExceptSeq, CaseFacts
<1>3. \A d \in DOMAIN cases :
         cases'[d] = cases[d] \/ (cases[d] = "OBSERVING" /\ cases'[d] \in {"ACTIVE", "CLOSED"})
  BY <1>2
<1>4. ProjectionTypeOK'
  BY <1>1, <1>2 DEF PInv, ProjectionTypeOK
<1>5. InHand' /\ StoredHappened' /\ EnrichedFailed' /\ CausesHappened'
  BY <1>1 DEF PInv, InHand, StoredHappened, EnrichedFailed, CausesHappened
<1>6. InstrumentFollowsLink'
  BY <1>1, <1>2, <1>3 DEF PInv, InstrumentFollowsLink
<1>7. TruthOfTotal' /\ CollectionRecorded'
  BY <1>1 DEF PInv, TruthOfTotal, Truth, Due, CollectionRecorded, Processed, Body
<1>8. \A t : Processed(t)' = Processed(t)
  BY <1>1 DEF Processed, Body
<1>9. CaptureCounted'
  BY <1>1, <1>3, <1>8 DEF PInv, CaptureCounted, InstrumentFollowsLink, Due
<1>10. CaptureEndsRecovery'
  BY <1>2, <1>3, <1>8 DEF PInv, CaptureEndsRecovery, OpenCases, OpenStates
<1>11. DoubleCollectionIsReviewed'
  BY <1>3, <1>8 DEF PInv, DoubleCollectionIsReviewed, CollectionRecorded, InstrumentFollowsLink
<1>12. PaidOutcomesAreReal'
  BY <1>1, <1>2, <1>3 DEF PInv, PaidOutcomesAreReal, CapturedAt
<1>13. QED
  BY <1>4, <1>5, <1>6, <1>7, <1>9, <1>10, <1>11, <1>12 DEF PInv

\* Closing an observed case leaves no open case behind that was not open before.
LEMMA CloseCaseStep ==
    ASSUME PInv, NEW c \in DOMAIN cases, CloseCase(c)
    PROVE  PInv'
<1>1. instr' = instr /\ instr \in LinkRow
  BY DEF CloseCase, PInv, ProjectionTypeOK
<1>2. UNCHANGED <<vars, provVars, stored, first, inbox, order, pay, h>>
  BY DEF CloseCase
<1>3. cases' = [cases EXCEPT ![c] = "CLOSED"] /\ cases[c] = "OBSERVING"
  BY DEF CloseCase
<1>4. QED
  BY <1>1, <1>2, <1>3, CaseMoves

\* A confirmed link activates its case only while that case is observed.
LEMMA ConfirmLinkStep ==
    ASSUME PInv, ConfirmLink
    PROVE  PInv'
<1> DEFINE state == IF cases[instr.case] = "OBSERVING" THEN "ACTIVE" ELSE cases[instr.case]
<1>1. instr.status = "UNCERTAIN" /\ instr \in LinkRow /\ instr' = [instr EXCEPT !.status = "ACTIVE"]
  BY DEF ConfirmLink, PInv, ProjectionTypeOK
<1>2. instr' \in LinkRow /\ instr'.case = instr.case /\ instr'.status = "ACTIVE"
  BY <1>1 DEF LinkRow
<1>3. instr.case \in DOMAIN cases
  BY <1>1 DEF PInv, InstrumentFollowsLink
<1>4. cases' = [cases EXCEPT ![instr.case] = state]
  BY <1>3 DEF ConfirmLink
<1>5. UNCHANGED <<vars, provVars, stored, first, inbox, order, pay, h>>
  BY DEF ConfirmLink
<1>6. state \in {"ACTIVE", "CLOSED"} \cup {cases[instr.case]}
  OBVIOUS
<1>7. state # cases[instr.case] => cases[instr.case] = "OBSERVING"
  OBVIOUS
<1> HIDE DEF state
<1>8. QED
  BY <1>1, <1>2, <1>3, <1>4, <1>5, <1>6, <1>7, CaseMoves

\* Only a link nobody paid is cancelled.
LEMMA CancelLinkStep ==
    ASSUME PInv, CancelLink
    PROVE  PInv'
<1>1. /\ phase' = phase /\ holder' = holder /\ prov' = prov /\ linkAt' = "cancelled"
      /\ stored' = stored /\ first' = first /\ inbox' = inbox
      /\ cases' = cases /\ order' = order /\ pay' = pay /\ h' = h
  BY DEF CancelLink, vars
<1>2. instr.status = "ACTIVE" /\ linkAt = "open" /\ instr \in LinkRow
      /\ instr' = [instr EXCEPT !.status = "CANCELLED"]
  BY DEF CancelLink, PInv, ProjectionTypeOK
<1>3. instr' \in LinkRow /\ instr'.status = "CANCELLED" /\ instr'.case = instr.case
  BY <1>2 DEF LinkRow
<1>4. Happens("payment_link.cancelled", None)
  BY DEF CancelLink
<1>5. /\ now' \in Nat /\ occurred' \in [Bodies -> 0..now']
      /\ \A b \in Bodies : \/ b = [type |-> "payment_link.cancelled", payment |-> None]
                           \/ occurred'[b] = occurred[b]
      /\ \A b \in Bodies : occurred[b] > 0 => occurred'[b] > 0
  BY <1>4, HappensType
<1>6. ProjectionTypeOK'
  BY <1>1, <1>3, <1>5 DEF PInv, ProjectionTypeOK
<1>7. InHand' /\ EnrichedFailed'
  BY <1>1 DEF PInv, InHand, EnrichedFailed
<1>8. CausesHappened'
  BY <1>1, <1>2, <1>5 DEF PInv, CausesHappened
<1>9. StoredHappened'
  <2>1. \A id \in Ids : stored[id] # None => stored[id] \in Bodies
    BY DEF PInv, ProjectionTypeOK
  <2>2. QED
    BY <1>1, <1>5, <2>1 DEF PInv, StoredHappened
<1>10. InstrumentFollowsLink' /\ TruthOfTotal'
  BY <1>1, <1>2, <1>3 DEF PInv, InstrumentFollowsLink, TruthOfTotal, Truth, Due
<1>11. CaptureCounted' /\ CollectionRecorded'
  BY <1>1, <1>2, <1>3 DEF PInv, CaptureCounted, CollectionRecorded, Processed, Body, Due
<1>12. CaptureEndsRecovery' /\ DoubleCollectionIsReviewed'
  BY <1>1, <1>3
     DEF PInv, CaptureEndsRecovery, DoubleCollectionIsReviewed, OpenCases, OpenStates, Processed, Body
<1>13. PaidOutcomesAreReal'
  BY <1>1, <1>2, <1>3 DEF PInv, PaidOutcomesAreReal, CapturedAt, InstrumentFollowsLink
<1>14. QED
  BY <1>6, <1>7, <1>8, <1>9, <1>10, <1>11, <1>12, <1>13 DEF PInv

-----------------------------------------------------------------------------
\* The empty database satisfies the inductive invariant.
LEMMA InitPInv == ProjectionInit => PInv
<1> SUFFICES ASSUME ProjectionInit PROVE PInv
  OBVIOUS
<1> USE DEF ProjectionInit, Init
<1>1. \A id \in Ids : stored[id] = None /\ inbox[id].status = "NONE"
  OBVIOUS
<1>2. \A t : ~Processed(t)
  BY <1>1 DEF Processed
<1>3. cases = << >> /\ DOMAIN cases = {} /\ Len(cases) = 0 /\ cases \in Seq(CaseStates)
  BY EmptySeq
<1>4. instr = NoLink /\ NoLink \in LinkRow /\ NoLink.case = 0 /\ NoLink.status = "ABSENT"
  BY DEF NoLink, LinkRow, Due
<1>5. order = NoOrder /\ NoOrder \in OrderRow /\ NoRow \in PaymentRow
  BY DEF NoOrder, OrderRow, NoRow, PaymentRow, Due
<1>6. [status |-> "NONE", attempts |-> 0] \in InboxRow
  BY AttemptsAssumption DEF InboxRow, InboxStatus
<1>7. Idle \in Handler /\ Idle.at = "idle"
  BY HandlingType DEF Idle, Handling
<1>8. occurred \in [Bodies -> 0..now] /\ now \in Nat
  OBVIOUS
<1>9. inbox \in [Ids -> InboxRow]
  BY <1>6
<1>10. h \in [Workers -> Handler]
  BY <1>7
<1>11. pay \in [Payments -> PaymentRow]
  BY <1>5
<1>12. ProjectionTypeOK
  BY <1>3, <1>4, <1>5, <1>8, <1>9, <1>10, <1>11 DEF ProjectionTypeOK
<1>13. InHand
  BY <1>7 DEF InHand
<1>14. CausesHappened /\ StoredHappened /\ EnrichedFailed
  BY <1>1, JobsAssumption DEF CausesHappened, StoredHappened, EnrichedFailed
<1>15. InstrumentFollowsLink
  BY <1>3, <1>4 DEF InstrumentFollowsLink
<1>16. TruthOfTotal
  BY <1>5 DEF TruthOfTotal, NoOrder, Truth, Due
<1>17. CaptureCounted /\ CollectionRecorded /\ CaptureEndsRecovery /\ DoubleCollectionIsReviewed
  BY <1>2 DEF CaptureCounted, CollectionRecorded, CaptureEndsRecovery, DoubleCollectionIsReviewed
<1>18. PaidOutcomesAreReal
  BY <1>3 DEF PaidOutcomesAreReal
<1>19. QED
  BY <1>12, <1>13, <1>14, <1>15, <1>16, <1>17, <1>18 DEF PInv

\* Every step of provider, ingress, projectors, enrichment and the rest keeps it.
LEMMA NextPInv == PInv /\ [ProjectionNext]_eventVars => PInv'
<1> SUFFICES ASSUME PInv, [ProjectionNext]_eventVars PROVE PInv'
  OBVIOUS
<1>1. CASE UNCHANGED eventVars
  BY <1>1, StuttersPInv
<1>2. CASE Provider
  BY <1>2, PaymentFailsStep, PaymentCapturedStep, LinkPaidStep DEF Provider
<1>3. CASE Ingress
  <2>1. PICK r \in Wire : StoreOnce(r[1], r[2]) \/ StoreAgain(r[1], r[2])
    BY <1>3 DEF Ingress
  <2>2. r[1] \in Ids /\ r[2] \in Bodies
    BY WireAssumption
  <2>3. QED
    BY <2>1, <2>2, StoreOnceStep, StuttersPInv DEF StoreAgain
<1>4. CASE Rest
  BY <1>4, CreateLinkStep, CloseCaseStep, ConfirmLinkStep, CancelLinkStep DEF Rest
<1>5. ASSUME NEW w \in Workers, Project(w) PROVE PInv'
  <2>1. CASE \E id \in Ids : ProjectedBefore(w, id) \/ BeginProjection(w, id)
    BY <2>1, ProjectedBeforeStep, BeginProjectionStep
  <2>2. CASE CommitExhausted(w)
    BY <2>2, CommitExhaustedStep
  <2>3. CASE \/ CommitUnsupported(w) \/ CommitFailureIgnored(w) \/ CommitCaptureIgnored(w)
             \/ CommitLinkIgnored(w)
    BY <2>3, CommitIgnoredStep
       DEF CommitUnsupported, CommitFailureIgnored, CommitCaptureIgnored, CommitLinkIgnored,
           Committing
  <2>4. CASE CommitDeferred(w)
    BY <2>4, CommitDeferredStep
  <2>5. CASE CommitFailure(w)
    BY <2>5, CommitFailureStep
  <2>6. CASE CommitCapture(w)
    BY <2>6, CommitCaptureStep
  <2>7. CASE CommitLink(w)
    BY <2>7, CommitLinkStep
  <2>8. QED
    BY <1>5, <2>1, <2>2, <2>3, <2>4, <2>5, <2>6, <2>7 DEF Project
<1>6. ASSUME NEW w \in Workers, Enrich(w) PROVE PInv'
  BY <1>6, FetchPaymentStep, FetchOrderStep, PersistEnrichmentStep DEF Enrich
<1>7. ASSUME NEW w \in Workers, Settle(w) \/ Interrupted(w) PROVE PInv'
  BY <1>7, HandlerEnds
<1>8. QED
  BY <1>1, <1>2, <1>3, <1>4, <1>5, <1>6, <1>7 DEF ProjectionNext

\* The inductive invariant holds in every execution.
LEMMA AlwaysPInv == ProjectionSpec => []PInv
BY InitPInv, NextPInv, PTL DEF ProjectionSpec

\* Every row the ingress, the projectors, the enrichment and the handlers write
\* is well formed, whatever arrives and however often: a locked handler always
\* has a stored event, an enrichment a payment the provider knows.
THEOREM ProjectionTypeCorrect == ProjectionSpec => []ProjectionTypeOK
<1>1. PInv => ProjectionTypeOK
  BY DEF PInv
<1>2. QED
  BY <1>1, AlwaysPInv, PTL

\* Once _apply_capture has projected a capture no case of the order is open and
\* none is opened again, for any number of payments, workers and redeliveries.
THEOREM NoRecoveryAfterCapture == ProjectionSpec => []CaptureEndsRecovery
<1>1. PInv => CaptureEndsRecovery
  BY DEF PInv
<1>2. QED
  BY <1>1, AlwaysPInv, PTL

\* _prepare_capture and _prepare_link, in whichever order they commit, put money
\* collected twice, or in part, in front of an operator.
THEOREM DoubleCollectionReviewed == ProjectionSpec => []DoubleCollectionIsReviewed
<1>1. PInv => DoubleCollectionIsReviewed
  BY DEF PInv
<1>2. QED
  BY <1>1, AlwaysPInv, PTL

\* The terminal projector ends a case as paid only for money the provider holds
\* on that path: what verify_and_normalize_webhook lets through has happened.
THEOREM PaidMeansPaid == ProjectionSpec => []PaidOutcomesAreReal
<1>1. PInv => PaidOutcomesAreReal
  BY DEF PInv
<1>2. QED
  BY <1>1, AlwaysPInv, PTL

-----------------------------------------------------------------------------
(* At most one handler works on a delivery, and what it settles stays.     *)

\* A busy handler has the lease of its job.
Leased ==
    \A w \in Workers : h[w].at # "idle" => phase[h[w].job] = "held" /\ holder[h[w].job] = w

\* What is being projected is not settled.
LockedIsPending ==
    \A w \in Workers : h[w].at = "locked" =>
        inbox[h[w].job].status \in {"RECEIVED", "RETRY_SCHEDULED"}

LInv == PInv /\ Leased /\ LockedIsPending

\* A settled inbox row is not written again.
SettledRowsStand == \A id \in Ids : inbox[id].status \in Settled => inbox'[id] = inbox[id]

\* A busy handler moves on without giving its job back.
LEMMA LeaseKept ==
    ASSUME LInv, NEW w \in Workers, h[w].at # "idle",
           NEW rec, Working(w, rec), rec.job = h[w].job, rec.at # "locked",
           holder' = holder, \A j \in Jobs : phase[j] = "held" => phase'[j] = "held",
           \/ inbox' = inbox
           \/ /\ h[w].at = "locked"
              /\ \A id \in Ids : id # h[w].job => inbox'[id] = inbox[id]
    PROVE  Leased' /\ LockedIsPending' /\ SettledRowsStand
<1>1. \A u \in Workers : h'[u] = IF u = w THEN rec ELSE h[u]
  BY DEF LInv, PInv, ProjectionTypeOK, Working
<1>2. \A u \in Workers : h[u].at # "idle" => h[u].job \in Jobs
  BY DEF LInv, PInv, InHand
<1>3. Leased'
  BY <1>1, <1>2 DEF LInv, Leased
<1>4. LockedIsPending'
  <2>1. \A u \in Workers : u # w /\ h[u].at = "locked" => h[u].job # h[w].job /\ h[u].job \in Ids
    BY DEF LInv, Leased, PInv, InHand
  <2>2. \A u \in Workers : u # w /\ h[u].at = "locked" => inbox'[h[u].job] = inbox[h[u].job]
    BY <2>1
  <2>3. QED
    BY <1>1, <2>2 DEF LInv, LockedIsPending
<1>5. SettledRowsStand
  BY DEF SettledRowsStand, LInv, LockedIsPending, Settled
<1>6. QED
  BY <1>3, <1>4, <1>5

\* An idle handler takes a job.
LEMMA LeaseTaken ==
    ASSUME LInv, NEW w \in Workers, NEW j \in Jobs, Take(w, {j}, {}),
           NEW rec, Working(w, rec), rec.job = j, inbox' = inbox,
           rec.at = "locked" => inbox[j].status \in {"RECEIVED", "RETRY_SCHEDULED"}
    PROVE  Leased' /\ LockedIsPending' /\ SettledRowsStand
<1>1. \A u \in Workers : h'[u] = IF u = w THEN rec ELSE h[u]
  BY DEF LInv, PInv, ProjectionTypeOK, Working
<1>2. \A u \in Workers : h[u].at # "idle" => h[u].job \in Jobs
  BY DEF LInv, PInv, InHand
<1>3. /\ phase[j] = "ready" /\ phase'[j] = "held" /\ holder'[j] = w
      /\ \A i \in Jobs : i # j => phase'[i] = phase[i] /\ holder'[i] = holder[i]
  BY DEF Take
<1>4. Leased'
  BY <1>1, <1>2, <1>3 DEF LInv, Leased
<1>5. LockedIsPending' /\ SettledRowsStand
  BY <1>1 DEF LInv, LockedIsPending, SettledRowsStand
<1>6. QED
  BY <1>4, <1>5

\* A handler gives its job back or loses it.
LEMMA LeaseEnded ==
    ASSUME LInv, NEW w \in Workers, Settle(w) \/ Interrupted(w)
    PROVE  Leased' /\ LockedIsPending' /\ SettledRowsStand
<1>1. inbox' = inbox /\ \A u \in Workers : h'[u] = IF u = w THEN Idle ELSE h[u]
  BY DEF LInv, PInv, ProjectionTypeOK, Working, Settle, Interrupted
<1>2. \A u \in Workers : h[u].at # "idle" => h[u].job \in Jobs
  BY DEF LInv, PInv, InHand
<1>3. h[w].at # "idle" /\ h[w].job \in Jobs
  BY <1>2 DEF Settle, Interrupted, At
<1>4. \A i \in Jobs : i # h[w].job => phase'[i] = phase[i] /\ holder'[i] = holder[i]
  BY <1>3 DEF Settle, Interrupted, Release, Expire, LInv, PInv, ProjectionTypeOK
<1>5. Idle.at = "idle"
  BY DEF Idle, Handling
<1>6. \A u \in Workers : u # w /\ h[u].at # "idle" => h[u].job # h[w].job
  BY <1>3 DEF LInv, Leased
<1>7. Leased'
  BY <1>1, <1>2, <1>4, <1>5, <1>6 DEF LInv, Leased
<1>8. LockedIsPending' /\ SettledRowsStand
  BY <1>1, <1>5 DEF LInv, LockedIsPending, SettledRowsStand
<1>9. QED
  BY <1>7, <1>8

\* A projection commits.
LEMMA LeaseCommits ==
    ASSUME LInv, NEW w \in Workers, At(w, "locked"), NEW to, Result(w, to),
           UNCHANGED vars \/ (\E p \in Payments : Submit(p)),
           NEW row, inbox' = [inbox EXCEPT ![h[w].job] = row]
    PROVE  Leased' /\ LockedIsPending' /\ SettledRowsStand
<1> DEFINE rec == Handling("settle", h[w].job, to)
<1>1. Working(w, rec) /\ rec.job = h[w].job /\ rec.at = "settle"
  BY DEF Result, Handling
<1>2. \A id \in Ids : id # h[w].job => inbox'[id] = inbox[id]
  BY DEF LInv, PInv, ProjectionTypeOK
<1>3. holder' = holder /\ \A j \in Jobs : phase[j] = "held" => phase'[j] = "held"
  BY DEF vars, Submit, LInv, PInv, ProjectionTypeOK
<1>4. h[w].at = "locked"
  BY DEF At
<1> HIDE DEF rec
<1>5. QED
  BY <1>1, <1>2, <1>3, <1>4, LeaseKept

\* A projection holds the lease of its event from the claim to its commit.
LEMMA ProjectLease ==
    ASSUME LInv, NEW w \in Workers, Project(w)
    PROVE  Leased' /\ LockedIsPending' /\ SettledRowsStand
<1>1. ASSUME NEW id \in Ids, ProjectedBefore(w, id) PROVE Leased' /\ LockedIsPending' /\ SettledRowsStand
  <2> DEFINE rec == Handling("settle", id, IF inbox[id].status = "DEAD_LETTER" THEN "dead" ELSE "done")
  <2>1. rec.job = id /\ rec.at = "settle"
    BY DEF Handling
  <2>2. Working(w, rec) /\ Take(w, {id}, {}) /\ inbox' = inbox /\ id \in Jobs
    BY <1>1, JobsAssumption DEF ProjectedBefore
  <2> HIDE DEF rec
  <2>3. QED
    BY <2>1, <2>2, LeaseTaken
<1>2. ASSUME NEW id \in Ids, BeginProjection(w, id) PROVE Leased' /\ LockedIsPending' /\ SettledRowsStand
  <2>1. PICK rec : Working(w, rec) /\ rec.job = id
    BY <1>2 DEF BeginProjection
  <2>2. Take(w, {id}, {}) /\ inbox' = inbox /\ id \in Jobs
    BY <1>2, JobsAssumption DEF BeginProjection
  <2>3. inbox[id].status \in {"RECEIVED", "RETRY_SCHEDULED"}
    BY <1>2 DEF BeginProjection
  <2>4. QED
    BY <2>1, <2>2, <2>3, LeaseTaken
<1>3. CASE CommitExhausted(w)
  BY <1>3, LeaseCommits DEF CommitExhausted
<1>4. CASE CommitDeferred(w)
  <2>1. Body(h[w].job).payment \in Payments
    BY <1>4, LockedJob, StoredBody DEF CommitDeferred, Committing, LInv
  <2>2. UNCHANGED vars \/ (\E p \in Payments : Submit(p))
    BY <1>4, <2>1 DEF CommitDeferred
  <2>3. QED
    BY <1>4, <2>2, LeaseCommits DEF CommitDeferred, Committing, InboxTo
<1>5. CASE \/ CommitUnsupported(w) \/ CommitFailureIgnored(w) \/ CommitCaptureIgnored(w)
           \/ CommitLinkIgnored(w)
  <2>1. At(w, "locked") /\ CommitIgnored(w)
    BY <1>5 DEF CommitUnsupported, CommitFailureIgnored, CommitCaptureIgnored, CommitLinkIgnored,
                Committing
  <2>2. QED
    BY <2>1, LeaseCommits DEF CommitIgnored, InboxTo
<1>6. CASE CommitFailure(w) \/ CommitCapture(w) \/ CommitLink(w)
  <2>1. /\ At(w, "locked") /\ Result(w, "done") /\ InboxTo(h[w].job, "PROCESSED")
        /\ UNCHANGED vars
    BY <1>6 DEF CommitFailure, CommitCapture, CommitLink, Committing
  <2>2. QED
    BY <2>1, LeaseCommits DEF InboxTo
<1>7. QED
  BY <1>1, <1>2, <1>3, <1>4, <1>5, <1>6 DEF Project

\* An enrichment holds the lease of its payment across both provider reads.
LEMMA EnrichLease ==
    ASSUME LInv, NEW w \in Workers, Enrich(w)
    PROVE  Leased' /\ LockedIsPending' /\ SettledRowsStand
<1>1. ASSUME NEW p \in Payments, FetchPayment(w, p) PROVE Leased' /\ LockedIsPending' /\ SettledRowsStand
  <2>1. PICK rec : Working(w, rec) /\ rec.job = p /\ rec.at = "read"
    BY <1>1 DEF FetchPayment
  <2>2. Take(w, {p}, {}) /\ inbox' = inbox /\ p \in Jobs
    BY <1>1, JobsAssumption DEF FetchPayment
  <2>3. QED
    BY <2>1, <2>2, LeaseTaken
<1>2. CASE FetchOrder(w)
  <2>1. PICK rec : Working(w, rec) /\ rec.job = h[w].job /\ rec.at = "fetched"
    BY <1>2 DEF FetchOrder
  <2>2. holder' = holder /\ phase' = phase /\ inbox' = inbox /\ h[w].at # "idle"
    BY <1>2 DEF FetchOrder, vars, At
  <2>3. QED
    BY <2>1, <2>2, LeaseKept
<1>3. CASE PersistEnrichment(w)
  <2>1. PICK rec : Working(w, rec) /\ rec.job = h[w].job /\ rec.at = "settle"
    BY <1>3 DEF PersistEnrichment, Result, Handling
  <2>2. holder' = holder /\ phase' = phase /\ inbox' = inbox /\ h[w].at # "idle"
    BY <1>3 DEF PersistEnrichment, vars, At
  <2>3. QED
    BY <2>1, <2>2, LeaseKept
<1>4. QED
  BY <1>1, <1>2, <1>3 DEF Enrich

\* A newly stored event has no handler yet.
LEMMA StoreLease ==
    ASSUME LInv, NEW id \in Ids, NEW b \in Bodies, StoreOnce(id, b)
    PROVE  Leased' /\ LockedIsPending' /\ SettledRowsStand
<1>1. /\ h' = h /\ holder' = holder /\ id \in Jobs /\ phase[id] = "absent" /\ stored[id] = None
      /\ \A j \in Jobs : j # id => phase'[j] = phase[j]
      /\ \A i \in Ids : i # id => inbox'[i] = inbox[i]
  BY JobsAssumption DEF StoreOnce, Submit, LInv, PInv, ProjectionTypeOK
<1>2. \A u \in Workers : h[u].at # "idle" => h[u].job \in Jobs /\ h[u].job # id
  BY <1>1 DEF LInv, PInv, InHand, Leased
<1>3. Leased'
  BY <1>1, <1>2 DEF LInv, Leased
<1>4. LockedIsPending'
  BY <1>1, <1>2 DEF LInv, LockedIsPending, PInv, InHand
<1>5. SettledRowsStand
  BY <1>1 DEF SettledRowsStand, LInv, PInv, StoredHappened, Settled
<1>6. QED
  BY <1>3, <1>4, <1>5

\* Every step keeps leases exclusive and settled rows as they are.
LEMMA NextLease ==
    ASSUME LInv, [ProjectionNext]_eventVars
    PROVE  LInv' /\ SettledRowsStand
<1>1. PInv'
  BY NextPInv DEF LInv
<1>2. CASE vars' = vars /\ h' = h /\ inbox' = inbox
  BY <1>1, <1>2 DEF vars, LInv, Leased, LockedIsPending, SettledRowsStand
<1>3. CASE UNCHANGED eventVars \/ Provider \/ Rest
  BY <1>2, <1>3
     DEF eventVars, Provider, PaymentFails, PaymentCaptured, LinkPaid, Rest, CreateLink, CloseCase,
         ConfirmLink, CancelLink
<1>4. CASE Ingress
  <2>1. PICK r \in Wire : StoreOnce(r[1], r[2]) \/ StoreAgain(r[1], r[2])
    BY <1>4 DEF Ingress
  <2>2. r[1] \in Ids /\ r[2] \in Bodies
    BY WireAssumption
  <2>3. CASE StoreAgain(r[1], r[2])
    BY <1>3, <2>3 DEF StoreAgain
  <2>4. QED
    BY <1>1, <2>1, <2>2, <2>3, StoreLease DEF LInv
<1>5. ASSUME NEW w \in Workers, Project(w) \/ Enrich(w) \/ Settle(w) \/ Interrupted(w)
      PROVE  LInv' /\ SettledRowsStand
  BY <1>1, <1>5, ProjectLease, EnrichLease, LeaseEnded DEF LInv
<1>6. QED
  BY <1>3, <1>4, <1>5 DEF ProjectionNext

\* Leases are exclusive in every execution.
LEMMA AlwaysLInv == ProjectionSpec => []LInv
<1>1. ProjectionInit => LInv
  <2>1. ASSUME ProjectionInit PROVE Leased /\ LockedIsPending
    BY <2>1 DEF ProjectionInit, Leased, LockedIsPending, Idle, Handling
  <2>2. QED
    BY <2>1, InitPInv DEF LInv
<1>2. LInv /\ [ProjectionNext]_eventVars => LInv'
  BY NextLease
<1>3. QED
  BY <1>1, <1>2, PTL DEF ProjectionSpec

\* An event is settled once: however often its job is delivered again after a
\* crash, an expired lease or a lost completion, no projector writes an inbox row
\* that _settle_inbox or _start_inbox has settled.
THEOREM EventSettledOnce == ProjectionSpec => [][SettledRowsStand]_eventVars
<1>1. LInv /\ [ProjectionNext]_eventVars => [SettledRowsStand]_eventVars
  BY NextLease
<1>2. QED
  BY <1>1, AlwaysLInv, PTL DEF ProjectionSpec

-----------------------------------------------------------------------------
\* Ingress, projectors and enrichment use the outbox only as LeasedDelivery
\* allows, so what is proved of its jobs holds of theirs.
THEOREM ProjectionUsesDelivery == ProjectionSpec => Spec
<1>1. ProjectionInit => Init
  BY DEF ProjectionInit
<1>2. ASSUME PInv, [ProjectionNext]_eventVars PROVE [Next]_vars
  <2> USE DEF Next
  <2>1. CASE UNCHANGED eventVars \/ Provider \/ Rest
    BY <2>1 DEF eventVars, Provider, PaymentFails, PaymentCaptured, LinkPaid, Rest, CreateLink,
                CloseCase, ConfirmLink, CancelLink
  <2>2. CASE Ingress
    <3>1. PICK r \in Wire : StoreOnce(r[1], r[2]) \/ StoreAgain(r[1], r[2])
      BY <2>2 DEF Ingress
    <3>2. r[1] \in Jobs
      BY WireAssumption, JobsAssumption
    <3>3. QED
      BY <3>1, <3>2 DEF StoreOnce, StoreAgain, eventVars
  <2>3. ASSUME NEW w \in Workers, NEW j \in Jobs, Take(w, {j}, {}) PROVE Next
    <3>1. {j} \in SUBSET Jobs /\ {} \in SUBSET Jobs
      OBVIOUS
    <3>2. QED
      BY <2>3, <3>1
  <2>4. ASSUME NEW w \in Workers, Project(w) PROVE [Next]_vars
    <3>1. CASE \E id \in Ids : ProjectedBefore(w, id) \/ BeginProjection(w, id)
      BY <3>1, <2>3, JobsAssumption DEF ProjectedBefore, BeginProjection
    <3>2. CASE CommitDeferred(w)
      <4>1. Body(h[w].job).payment \in Jobs
        BY <1>2, <3>2, LockedJob, StoredBody, JobsAssumption DEF CommitDeferred, Committing
      <4>2. QED
        BY <3>2, <4>1 DEF CommitDeferred
    <3>3. QED
      BY <2>4, <3>1, <3>2
         DEF Project, CommitExhausted, CommitUnsupported, CommitFailureIgnored, CommitFailure,
             CommitCaptureIgnored, CommitCapture, CommitLinkIgnored, CommitLink, CommitIgnored
  <2>5. ASSUME NEW w \in Workers, Enrich(w) PROVE [Next]_vars
    BY <2>5, <2>3, JobsAssumption DEF Enrich, FetchPayment, FetchOrder, PersistEnrichment
  <2>6. ASSUME NEW w \in Workers, Settle(w) PROVE Next
    <3>1. h[w].job \in Jobs
      BY <1>2, <2>6 DEF PInv, InHand, Settle, At
    <3>2. h[w].to \in {"ready", "done", "dead"}
      BY <2>6 DEF Settle, Release
    <3>3. QED
      BY <2>6, <3>1, <3>2 DEF Settle
  <2>7. ASSUME NEW w \in Workers, Interrupted(w) PROVE Next
    <3>1. {h[w].job} \in SUBSET Jobs
      BY <1>2, <2>7 DEF PInv, InHand, Interrupted, At
    <3>2. QED
      BY <2>7, <3>1 DEF Interrupted
  <2>8. QED
    BY <1>2, <2>1, <2>2, <2>4, <2>5, <2>6, <2>7 DEF ProjectionNext
<1>3. QED
  BY <1>1, <1>2, AlwaysPInv, PTL DEF ProjectionSpec, Spec

-----------------------------------------------------------------------------
\* Three writers of logical_orders, one of them (enrichment) without the guard of
\* the other two, never take back money the order was credited with.
THEOREM MoneyIsMonotonic == ProjectionSpec => TotalNeverFalls
<1>1. ASSUME PInv, [ProjectionNext]_eventVars PROVE [order'.total >= order.total]_eventVars
  <2>1. order.total \in Nat
    BY <1>1 DEF PInv, ProjectionTypeOK, OrderRow
  <2>2. CASE order' = order
    BY <2>1, <2>2
  <2>3. ASSUME NEW w \in Workers, CommitCapture(w) PROVE order'.total >= order.total
    <3>1. /\ h[w].job \in Ids /\ stored[h[w].job] # None /\ Body(h[w].job).payment \in Payments
      BY <1>1, <2>3, LockedJob, StoredBody DEF CommitCapture, Committing
    <3> DEFINE total == CaptureTotal(Body(h[w].job).payment)
    <3>2. total \in Nat
      BY <1>1, <3>1, CaptureTotalType
    <3>3. order' = Projected(h[w].job, total) /\ order.total <= total
      BY <2>3 DEF CommitCapture, CaptureRefused, Monotonic
    <3> HIDE DEF total
    <3>4. QED
      BY <1>1, <2>1, <3>1, <3>2, <3>3, ProjectedType
  <2>4. ASSUME NEW w \in Workers, CommitLink(w) PROVE order'.total >= order.total
    <3>1. h[w].job \in Ids /\ stored[h[w].job] # None
      BY <1>1, <2>4, LockedJob DEF CommitLink, Committing
    <3>2. CapturedOf(CapturedPayments) \in Nat
      BY CapturedType DEF CapturedPayments
    <3>3. LinkTotal(h[w].job) \in Nat
      BY <3>2 DEF LinkTotal, Collection, Due
    <3>4. order' = Projected(h[w].job, LinkTotal(h[w].job)) /\ order.total <= LinkTotal(h[w].job)
      BY <2>4 DEF CommitLink, LinkRefused, Monotonic
    <3>5. QED
      BY <1>1, <2>1, <3>1, <3>3, <3>4, ProjectedType
  <2>5. ASSUME NEW w \in Workers, PersistEnrichment(w) PROVE order'.total >= order.total
    <3>1. h[w].paid \in Nat
      <4>1. h[w] \in Handler
        BY <1>1 DEF PInv, ProjectionTypeOK
      <4>2. h[w].paid \in {0, Due}
        BY <4>1 DEF Handler
      <4>3. QED
        BY <4>2 DEF Due
    <3>2. Max2(order.total, h[w].paid) >= order.total
      BY <2>1, <3>1, Max2Type
    <3>3. order' = EnrichedOrder(h[w].paid, h[w].seen) \/ order' = order
      BY <2>5 DEF PersistEnrichment
    <3>4. EnrichedOrder(h[w].paid, h[w].seen).total = Max2(order.total, h[w].paid)
      BY DEF EnrichedOrder
    <3>5. QED
      BY <2>1, <3>2, <3>3, <3>4
  <2>6. \/ order' = order
        \/ \E w \in Workers : CommitCapture(w) \/ CommitLink(w) \/ PersistEnrichment(w)
    BY <1>1
       DEF ProjectionNext, eventVars, dbVars, Provider, PaymentFails, PaymentCaptured, LinkPaid,
           Ingress, StoreOnce, StoreAgain, Rest, CreateLink, CloseCase, ConfirmLink, CancelLink,
           Project, ProjectedBefore, BeginProjection, CommitExhausted, CommitUnsupported,
           CommitDeferred, CommitFailureIgnored, CommitFailure, CommitCaptureIgnored,
           CommitLinkIgnored, CommitIgnored, Enrich, FetchPayment, FetchOrder, Settle, Interrupted
  <2>7. QED
    BY <2>2, <2>3, <2>4, <2>5, <2>6
<1>2. QED
  BY <1>1, AlwaysPInv, PTL DEF ProjectionSpec, TotalNeverFalls
=============================================================================
