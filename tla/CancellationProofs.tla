------------------------- MODULE CancellationProofs -------------------------
(***************************************************************************)
(* Theorems about Cancellation for any number of workers, attempts and     *)
(* faults, any lease duration and any backoff schedule.                    *)
(***************************************************************************)
EXTENDS Cancellation, OutboxProofs

\* The authorization is the only way to the provider, and it is given once:
\* before it nothing was sent, and whoever holds it has not sent anything yet.
AuthorizedOnce ==
    /\ ~evidence => calls = 0
    /\ \A w \in Workers : h[w].at = "authorized" => evidence /\ calls = 0
    /\ \A v, w \in Workers : h[v].at = "authorized" /\ h[w].at = "authorized" => v = w

\* What a worker was told of the link, and the result it made of it, outlive the
\* moment they were true at: a link is never open again.
WordsStand ==
    \A w \in Workers :
        h[w].truth \in {"paid", "cancelled", "expired"} \/ h[w].result \in Done
            => link # "created"

\* The schedule of a cancellation leaves no uncertain instrument behind.
ScheduledIsCertain == action # "ABSENT" => instrument # "UNCERTAIN"

\* What _AUTHORIZE and the write-once evidence amount to.  It is more than the
\* documents ask for: a retry they grant is refused too (GrantedRetryIsRefused).
AtMostOneCancelRequest == calls <= 1

\* The inductive invariant.
CInv ==
    /\ IInv
    /\ CancelTypeOK
    /\ AuthorizedOnce
    /\ WordsStand
    /\ ScheduledIsCertain
    /\ WithdrawnLinkIsClosed
    /\ AtMostOneCancelRequest


-----------------------------------------------------------------------------
\* The outbox below the cancellation.

\* The model follows one cancellation job.
LEMMA OnlyJob == TheJob \in Jobs /\ \A j \in Jobs : j = TheJob
<1>1. PICK j \in Jobs : Jobs = {j}
  BY OneJob
<1>2. TheJob \in Jobs
  BY <1>1 DEF TheJob
<1>3. QED
  BY <1>1, <1>2

\* Every step of the cancellation is a step of the outbox or leaves it alone.
LEMMA CancelStepIsOutboxStep == [CancelNext]_allVars => [Next]_vars
<1>1. SUFFICES ASSUME [CancelNext]_allVars PROVE [Next]_vars
  OBVIOUS
<1>2. CASE Schedule
  BY <1>2, OnlyJob DEF Schedule, Next
<1>3. ASSUME NEW w \in Workers, Poll(w) PROVE Next
  BY <1>3 DEF Next
<1>4. ASSUME NEW w \in Workers, HandlerStep(w) PROVE [Next]_vars
  <2>1. PICK c \in batch[w] :
            \/ UNCHANGED vars
            \/ SettleResult(w, c)
    BY <1>4 DEF HandlerStep, BeginExecute, FetchTruth, Rebind, FinalGate, Authorize, SendCancel,
        Refetch, Reconcile, Persist, HandlerRaises
  <2>2. CASE SettleResult(w, c)
    BY <2>2 DEF SettleResult, Settle, Next
  <2>3. QED
    BY <2>1, <2>2
<1>5. ASSUME NEW w \in Workers, NEW c \in batch[w],
             \/ BindingFails(w, c) \/ FetchFails(w, c) \/ FetchMismatch(w, c)
             \/ DatabaseFails(w, c)
      PROVE  UNCHANGED vars
  BY <1>5 DEF BindingFails, FetchFails, FetchMismatch, DatabaseFails
<1>6. ASSUME NEW w \in Workers, Crash(w) PROVE Next
  BY <1>6 DEF Crash, Next
<1>7. ASSUME \/ ProviderCancels \/ ProviderRejects \/ LinkPaid \/ LinkExpires
             \/ ProjectLinkPaid \/ ProposalExpires \/ SwitchAccount \/ UNCHANGED allVars
      PROVE  UNCHANGED vars
  BY <1>7 DEF ProviderCancels, ProviderRejects, LinkPaid, LinkExpires, ProjectLinkPaid,
      ProposalExpires, SwitchAccount, allVars
<1>8. CASE Tick
  BY <1>8 DEF Next
<1>9. QED
  BY <1>1, <1>2, <1>3, <1>4, <1>5, <1>6, <1>7, <1>8 DEF CancelNext

-----------------------------------------------------------------------------
\* The executor's data.

Results == {"none", "CANCELLED", "ALREADY_CANCELLED", "EXPIRED",
            "BLOCKED", "REVIEW_REQUIRED", "ESCALATED", "DEAD_LETTER",
            "NORMAL", "SUCCEED", "RECONCILE_ONLY", "RETRY_SAME_EFFECT"}
Truths == {"none", "created", "paid", "cancelled", "expired"}

\* The statuses of an instrument that has a provider id.
LEMMA InstrumentStatuses ==
    DOMAIN InstrumentNext = {"UNCERTAIN", "ISSUED", "ACTIVE", "CANCEL_PENDING", "PARTIALLY_PAID",
                             "CANCELLED", "EXPIRED", "PAID", "FAILED"}
BY DEF InstrumentNext

\* Results are results, and one that closes the link rests on the provider's word.
LEMMA ResultFacts ==
    ASSUME NEW c, NEW mode \in {"NORMAL", "RECONCILE_ONLY", "RETRY_SAME_EFFECT"},
           NEW truth \in Truths
    PROVE  /\ Requeue(c, mode) \in {"NORMAL", "RECONCILE_ONLY", "RETRY_SAME_EFFECT", "DEAD_LETTER"}
           /\ truth \in {"paid", "cancelled", "expired"} => TruthResult(truth) \in Results
           /\ PostResult(c, truth) \in Results
           /\ PostResult(c, truth) \in Done => truth \in {"cancelled", "expired"}
<1>1. \A m \in {"NORMAL", "RECONCILE_ONLY", "RETRY_SAME_EFFECT"} :
         Requeue(c, m) \in {"NORMAL", "RECONCILE_ONLY", "RETRY_SAME_EFFECT", "DEAD_LETTER"}
  BY DEF Requeue
<1>2. truth \in {"paid", "cancelled", "expired"} => TruthResult(truth) \in Results
  BY DEF TruthResult, Results, Truths
<1>3. PostResult(c, truth) \in {Requeue(c, "RECONCILE_ONLY"), Requeue(c, "RETRY_SAME_EFFECT"),
                                "REVIEW_REQUIRED", "CANCELLED", "EXPIRED"}
  BY DEF PostResult
<1>4. PostResult(c, truth) \in {"CANCELLED", "EXPIRED"} => truth \in {"cancelled", "expired"}
  BY <1>1 DEF PostResult
<1>5. QED
  BY <1>1, <1>2, <1>3, <1>4 DEF Results, Done

\* What an executor knows is backed by the link.
Backed(rec) ==
    rec.truth \in {"paid", "cancelled", "expired"} \/ rec.result \in Done => link # "created"

\* A step of one executor to anywhere but the provider's door.
LEMMA ExecutorMoves ==
    ASSUME CInv, NEW w \in Workers, NEW rec \in Executor, h' = [h EXCEPT ![w] = rec],
           rec.at # "authorized", Backed(rec), UNCHANGED <<evidence, calls, link>>
    PROVE  h' \in [Workers -> Executor] /\ AuthorizedOnce' /\ WordsStand'
<1>1. h \in [Workers -> Executor] /\ h' \in [Workers -> Executor]
  BY DEF CInv, CancelTypeOK
<1>2. \A u \in Workers : h'[u] = IF u = w THEN rec ELSE h[u]
  BY <1>1
<1>3. AuthorizedOnce'
  BY <1>2 DEF CInv, AuthorizedOnce
<1>4. WordsStand'
  BY <1>2 DEF CInv, WordsStand, Backed
<1>5. QED
  BY <1>1, <1>3, <1>4

\* ... that leaves the database and the world alone.
LEMMA ExecutorOnly ==
    ASSUME CInv, IInv', NEW w \in Workers, NEW rec \in Executor, h' = [h EXCEPT ![w] = rec],
           rec.at # "authorized", Backed(rec), UNCHANGED <<dbVars, worldVars>>,
           faults' \in 0..MaxFaults
    PROVE  CInv'
<1>1. /\ case' = case /\ instrument' = instrument /\ action' = action /\ evidence' = evidence
      /\ fresh' = fresh /\ enabled' = enabled /\ link' = link /\ request' = request
      /\ calls' = calls
  BY DEF dbVars, worldVars
<1>2. h' \in [Workers -> Executor] /\ AuthorizedOnce' /\ WordsStand'
  BY <1>1, ExecutorMoves
<1>3. CancelTypeOK'
  BY <1>1, <1>2 DEF CInv, CancelTypeOK
<1>4. ScheduledIsCertain' /\ WithdrawnLinkIsClosed' /\ AtMostOneCancelRequest'
  BY <1>1 DEF CInv, ScheduledIsCertain, WithdrawnLinkIsClosed, AtMostOneCancelRequest
<1>5. QED
  BY <1>2, <1>3, <1>4 DEF CInv

\* The same for a step written with Goto.
LEMMA GotoOnly ==
    ASSUME CInv, IInv', NEW w \in Workers,
           NEW at \in {"idle", "gated", "fetched", "rebound", "allowed", "called", "refetched",
                       "persist", "settle"},
           NEW truth \in Truths, NEW result \in Results, Goto(w, at, truth, result),
           truth \in {"paid", "cancelled", "expired"} \/ result \in Done => link # "created",
           UNCHANGED <<dbVars, worldVars>>, faults' \in 0..MaxFaults
    PROVE  CInv'
<1> DEFINE rec == [at |-> at, truth |-> truth, result |-> result, attempted |-> h[w].attempted]
<1>1. h[w].attempted \in BOOLEAN
  BY DEF CInv, CancelTypeOK, Executor
<1>2. rec \in Executor /\ rec.at # "authorized"
  BY <1>1 DEF Executor, Truths, Results
<1>3. Backed(rec) /\ h' = [h EXCEPT ![w] = rec]
  BY DEF Backed, Goto
<1> HIDE DEF rec
<1>4. QED
  BY <1>2, <1>3, ExecutorOnly

\* What the invariant says of one executor.
LEMMA ExecutorFacts ==
    ASSUME CInv, NEW w \in Workers
    PROVE  /\ h[w].truth \in Truths /\ h[w].result \in Results
           /\ h[w].truth \in {"paid", "cancelled", "expired"} => link # "created"
           /\ h[w].result \in Done => link # "created"
           /\ faults \in 0..MaxFaults
           /\ Fault => faults' \in 0..MaxFaults
<1>1. h[w] \in Executor /\ faults \in 0..MaxFaults
  BY DEF CInv, CancelTypeOK
<1>2. Fault => faults' \in 0..MaxFaults
  BY <1>1, FaultsAssumption DEF Fault
<1>3. h[w].truth \in Truths /\ h[w].result \in Results
  BY <1>1 DEF Executor, Truths, Results
<1>4. QED
  BY <1>1, <1>2, <1>3 DEF CInv, WordsStand

\* The steps on the way to the authorization.
LEMMA ReadSteps ==
    ASSUME CInv, IInv', NEW w \in Workers, NEW c \in batch[w],
           \/ BeginExecute(w, c) \/ FetchTruth(w, c) \/ FetchFails(w, c) \/ FetchMismatch(w, c)
           \/ Rebind(w, c) \/ FinalGate(w, c) \/ Reconcile(w, c) \/ Refetch(w, c)
           \/ HandlerRaises(w, c) \/ DatabaseFails(w, c) \/ BindingFails(w, c)
    PROVE  CInv'
<1>1. UNCHANGED <<dbVars, worldVars>>
  BY DEF BeginExecute, FetchTruth, FetchFails, FetchMismatch, Rebind, FinalGate, Reconcile,
         Refetch, HandlerRaises, DatabaseFails, BindingFails
<1>2. faults' \in 0..MaxFaults
  BY ExecutorFacts DEF BeginExecute, FetchTruth, FetchFails, FetchMismatch, Rebind, FinalGate,
         Reconcile, Refetch, HandlerRaises, DatabaseFails, BindingFails
<1>3. link \in {"created", "paid", "cancelled", "expired"}
  BY DEF CInv, CancelTypeOK
<1>4. {"none", "BLOCKED", "REVIEW_REQUIRED", "ESCALATED", "RECONCILE_ONLY", "NORMAL",
       "RETRY_SAME_EFFECT", "DEAD_LETTER"} \subseteq Results \ Done
  BY DEF Results, Done
<1>5. CASE BeginExecute(w, c) \/ FinalGate(w, c) \/ BindingFails(w, c)
  <2>1. \/ Goto(w, "gated", "none", "none")
        \/ Goto(w, "allowed", h[w].truth, "none")
        \/ Goto(w, "persist", h[w].truth, "BLOCKED")
        \/ Goto(w, "persist", h[w].truth, "ESCALATED")
    BY <1>5 DEF BeginExecute, FinalGate, BindingFails, Resolve
  <2>2. "none" \in Truths
    BY DEF Truths
  <2>3. QED
    BY <1>1, <1>2, <1>4, <2>1, <2>2, ExecutorFacts, GotoOnly
<1>6. CASE FetchTruth(w, c)
  <2>1. \/ link = "created" /\ Goto(w, "fetched", link, "none")
        \/ link # "created" /\ Goto(w, "persist", link, TruthResult(link))
    BY <1>6 DEF FetchTruth
  <2>2. link \in Truths /\ (link # "created" => TruthResult(link) \in Results)
    BY <1>3, ResultFacts DEF Truths
  <2>3. QED
    BY <1>1, <1>2, <1>4, <2>1, <2>2, GotoOnly
<1>7. CASE FetchFails(w, c) \/ FetchMismatch(w, c)
  <2>1. PICK r \in {"NORMAL", "RECONCILE_ONLY", "RETRY_SAME_EFFECT", "DEAD_LETTER", "ESCALATED"} :
            Goto(w, "persist", "none", r)
    BY <1>7 DEF FetchFails, FetchMismatch, Requeue
  <2>2. "none" \in Truths
    BY DEF Truths
  <2>3. QED
    BY <1>1, <1>2, <1>4, <2>1, <2>2, GotoOnly
<1>8. CASE Rebind(w, c)
  <2>1. \/ Goto(w, "rebound", h[w].truth, "none")
        \/ \E r \in {"REVIEW_REQUIRED", Requeue(c, "RECONCILE_ONLY"),
                     Requeue(c, "RETRY_SAME_EFFECT")} : Goto(w, "persist", h[w].truth, r)
    BY <1>8 DEF Rebind, Resolve
  <2>2. {Requeue(c, "RECONCILE_ONLY"), Requeue(c, "RETRY_SAME_EFFECT")} \subseteq Results \ Done
    BY <1>4 DEF Requeue
  <2>3. QED
    BY <1>1, <1>2, <1>4, <2>1, <2>2, ExecutorFacts, GotoOnly
<1>9. CASE Reconcile(w, c)
  <2>1. \/ Goto(w, "persist", h[w].truth, PostResult(c, h[w].truth))
        \/ Goto(w, "persist", h[w].truth, "ESCALATED")
    BY <1>9 DEF Reconcile, Resolve
  <2>2. /\ PostResult(c, h[w].truth) \in Results
        /\ PostResult(c, h[w].truth) \in Done => link # "created"
    BY ExecutorFacts, ResultFacts
  <2>3. QED
    BY <1>1, <1>2, <1>4, <2>1, <2>2, ExecutorFacts, GotoOnly
<1>10. CASE Refetch(w, c)
  <2>1. \/ Goto(w, "refetched", link, "none")
        \/ Goto(w, "refetched", "none", "none")
    BY <1>10 DEF Refetch
  <2>2. link \in Truths /\ "none" \in Truths
    BY <1>3 DEF Truths
  <2>3. QED
    BY <1>1, <1>2, <1>3, <1>4, <2>1, <2>2, GotoOnly
<1>11. CASE HandlerRaises(w, c) \/ DatabaseFails(w, c)
  <2>1. Goto(w, "settle", "none", "RECONCILE_ONLY")
    BY <1>11 DEF HandlerRaises, DatabaseFails
  <2>2. "none" \in Truths
    BY DEF Truths
  <2>3. QED
    BY <1>1, <1>2, <1>4, <2>1, <2>2, GotoOnly
<1>12. QED
  BY <1>5, <1>6, <1>7, <1>8, <1>9, <1>10, <1>11

-----------------------------------------------------------------------------
\* The authorization is written once, to an action without evidence.
LEMMA AuthorizeStep ==
    ASSUME CInv, IInv', NEW w \in Workers, NEW c \in batch[w], Authorize(w, c)
    PROVE  CInv'
<1>1. /\ action = "QUEUED" /\ ~evidence /\ action' = "EXECUTING" /\ evidence' = TRUE
      /\ Goto(w, "authorized", h[w].truth, "none")
      /\ case' = case /\ instrument' = instrument /\ fresh' = fresh /\ enabled' = enabled
      /\ link' = link /\ request' = request /\ calls' = calls /\ faults' = faults
  BY DEF Authorize, Authorizable, worldVars
<1>2. calls = 0 /\ \A u \in Workers : h[u].at # "authorized"
  BY <1>1 DEF CInv, AuthorizedOnce
<1>3. h \in [Workers -> Executor] /\ h[w] \in Executor
  BY DEF CInv, CancelTypeOK
<1>4. PICK rec \in Executor :
          /\ h' = [h EXCEPT ![w] = rec] /\ rec.at = "authorized"
          /\ rec.truth = h[w].truth /\ rec.result = "none"
  <2>1. [at |-> "authorized", truth |-> h[w].truth, result |-> "none",
         attempted |-> h[w].attempted] \in Executor
    BY <1>3 DEF Executor
  <2>2. QED
    BY <1>1, <2>1 DEF Goto
<1>5. h' \in [Workers -> Executor] /\ \A u \in Workers : h'[u] = IF u = w THEN rec ELSE h[u]
  BY <1>3, <1>4
<1>6. AuthorizedOnce'
  BY <1>1, <1>2, <1>4, <1>5 DEF AuthorizedOnce
<1>7. WordsStand'
  <2>1. "none" \notin Done
    BY DEF Done
  <2>2. QED
    BY <1>1, <1>4, <1>5, <2>1 DEF CInv, WordsStand
<1>8. CancelTypeOK'
  BY <1>1, <1>5 DEF CInv, CancelTypeOK
<1>9. ScheduledIsCertain' /\ WithdrawnLinkIsClosed' /\ AtMostOneCancelRequest'
  BY <1>1 DEF CInv, ScheduledIsCertain, WithdrawnLinkIsClosed, AtMostOneCancelRequest,
              ClosedActions
<1>10. QED
  BY <1>6, <1>7, <1>8, <1>9 DEF CInv

\* The one cancel request.
LEMMA SendStep ==
    ASSUME CInv, IInv', NEW w \in Workers, NEW c \in batch[w], SendCancel(w, c)
    PROVE  CInv'
<1>1. /\ h[w].at = "authorized" /\ request' = "open" /\ calls' = calls + 1
      /\ h' = [h EXCEPT ![w] = [at |-> "called", truth |-> h[w].truth, result |-> h[w].result,
                                attempted |-> TRUE]]
      /\ case' = case /\ instrument' = instrument /\ action' = action /\ evidence' = evidence
      /\ fresh' = fresh /\ enabled' = enabled /\ link' = link /\ faults' = faults
  BY DEF SendCancel, At, dbVars
<1>2. evidence /\ calls = 0 /\ \A u \in Workers : h[u].at = "authorized" => u = w
  BY <1>1 DEF CInv, AuthorizedOnce
<1>3. h \in [Workers -> Executor] /\ h[w] \in Executor
  BY DEF CInv, CancelTypeOK
<1>4. PICK rec \in Executor :
          /\ h' = [h EXCEPT ![w] = rec] /\ rec.at = "called"
          /\ rec.truth = h[w].truth /\ rec.result = h[w].result
  <2>1. [at |-> "called", truth |-> h[w].truth, result |-> h[w].result,
         attempted |-> TRUE] \in Executor
    BY <1>3 DEF Executor
  <2>2. QED
    BY <1>1, <2>1
<1>5. h' \in [Workers -> Executor] /\ \A u \in Workers : h'[u] = IF u = w THEN rec ELSE h[u]
  BY <1>3, <1>4
<1>6. AuthorizedOnce'
  BY <1>1, <1>2, <1>4, <1>5 DEF AuthorizedOnce
<1>7. WordsStand'
  BY <1>1, <1>4, <1>5 DEF CInv, WordsStand
<1>8. calls' = 1
  BY <1>1, <1>2
<1>9. CancelTypeOK'
  BY <1>1, <1>5, <1>8 DEF CInv, CancelTypeOK
<1>10. ScheduledIsCertain' /\ WithdrawnLinkIsClosed'
  BY <1>1 DEF CInv, ScheduledIsCertain, WithdrawnLinkIsClosed
<1>11. AtMostOneCancelRequest'
  BY <1>8 DEF AtMostOneCancelRequest
<1>12. QED
  BY <1>6, <1>7, <1>9, <1>10, <1>11 DEF CInv

-----------------------------------------------------------------------------
\* What the result of an executor does to the rows.
LEMMA RowFacts ==
    ASSUME CInv, NEW w \in Workers, PersistRows(w)
    PROVE  /\ case' \in {"SUPPRESSED_PAID", "DUPLICATE_REVIEW"}
           /\ instrument' \in DOMAIN InstrumentNext
           /\ action' \in {"ABSENT", "QUEUED", "EXECUTING", "UNCERTAIN", "FAILED_SAFE",
                           "DEAD_LETTER"} \cup ClosedActions
           /\ evidence' = evidence
           /\ action' # "ABSENT" => action # "ABSENT"
           /\ instrument' \in {"CANCELLED", "EXPIRED"} \/ action' \in ClosedActions
                => \/ h[w].result \in Done
                   \/ instrument \in {"CANCELLED", "EXPIRED"} \/ action \in ClosedActions
           /\ instrument' # instrument =>
                 \/ /\ instrument \in {"UNCERTAIN", "ISSUED", "ACTIVE", "CANCEL_PENDING"}
                    /\ action # "ABSENT"
                    /\ instrument' \in {"CANCELLED", "EXPIRED"}
                 \/ instrument = "CANCEL_PENDING" /\ instrument' = "ACTIVE"
<1>1. /\ case \in {"SUPPRESSED_PAID", "DUPLICATE_REVIEW"}
      /\ instrument \in DOMAIN InstrumentNext
      /\ action \in {"ABSENT", "QUEUED", "EXECUTING", "UNCERTAIN", "FAILED_SAFE",
                      "DEAD_LETTER"} \cup ClosedActions
  BY DEF CInv, CancelTypeOK
<1>2. {"CANCELLED", "EXPIRED", "ACTIVE"} \subseteq DOMAIN InstrumentNext
  BY InstrumentStatuses
<1>3. CASE h[w].result \in Done
  <2>1. PICK closed \in {"CANCELLED", "EXPIRED"} :
            /\ action \in {"QUEUED", "EXECUTING", "UNCERTAIN"}
            /\ action' = CompletedAction
            /\ instrument \in Collectible \cup {closed}
            /\ instrument' = closed
            /\ case' = case /\ evidence' = evidence
    <3>1. PersistDone(h[w].result)
      BY <1>3 DEF PersistRows, Done, Retried
    <3>2. (IF h[w].result = "EXPIRED" THEN "EXPIRED" ELSE "CANCELLED") \in {"CANCELLED", "EXPIRED"}
      OBVIOUS
    <3>3. QED
      BY <3>1, <3>2 DEF PersistDone
  <2>2. CompletedAction \in ClosedActions
    BY DEF CompletedAction, ClosedActions
  <2>3. QED
    BY <1>1, <1>2, <1>3, <2>1, <2>2 DEF Collectible
<1>4. CASE h[w].result \notin Done /\ h[w].result \in Retried
  <2>1. PersistRetry(h[w].attempted)
    BY <1>4 DEF PersistRows
  <2>2. /\ action' \in {action, "UNCERTAIN", "QUEUED"}
        /\ action' # action => action \in {"EXECUTING", "UNCERTAIN"}
        /\ case' = case /\ instrument' = instrument /\ evidence' = evidence
    BY <2>1 DEF PersistRetry
  <2>3. QED
    BY <1>1, <2>2 DEF ClosedActions
<1>5. CASE h[w].result \notin Done /\ h[w].result \notin Retried
  <2>1. PersistFailure(h[w].result)
    BY <1>5 DEF PersistRows
  <2>2. /\ action \in {"QUEUED", "EXECUTING", "UNCERTAIN"}
        /\ action' \in {"FAILED_SAFE", "DEAD_LETTER"}
        /\ evidence' = evidence
        /\ \/ case' = "DUPLICATE_REVIEW" /\ instrument' = instrument
           \/ /\ case' = case
              /\ instrument' = instrument \/ (instrument = "CANCEL_PENDING" /\ instrument' = "ACTIVE")
    BY <2>1 DEF PersistFailure
  <2>3. QED
    BY <1>1, <1>2, <2>2 DEF ClosedActions
<1>6. QED
  BY <1>3, <1>4, <1>5

\* _persist of the cancellation's result: action and instrument move together.
LEMMA PersistStep ==
    ASSUME CInv, IInv', NEW w \in Workers, NEW c \in batch[w], Persist(w, c)
    PROVE  CInv'
<1>1. /\ PersistRows(w)
      /\ fresh' = fresh /\ enabled' = enabled /\ link' = link /\ request' = request
      /\ calls' = calls /\ faults' \in 0..MaxFaults
      /\ \E r \in {CallResult(h[w].result), "RECONCILE_ONLY"} : Goto(w, "settle", "none", r)
  BY ExecutorFacts DEF Persist, worldVars
<1>2. CallResult(h[w].result) \in {"SUCCEED", "RECONCILE_ONLY", "RETRY_SAME_EFFECT", "DEAD_LETTER"}
  BY DEF CallResult, RetryModes
<1>3. PICK r \in {"SUCCEED", "RECONCILE_ONLY", "RETRY_SAME_EFFECT", "DEAD_LETTER"} :
          Goto(w, "settle", "none", r)
  BY <1>1, <1>2
<1>4. PICK rec \in Executor : h' = [h EXCEPT ![w] = rec] /\ rec.at = "settle" /\ Backed(rec)
  <2>1. h[w].attempted \in BOOLEAN
    BY DEF CInv, CancelTypeOK, Executor
  <2> DEFINE rec == [at |-> "settle", truth |-> "none", result |-> r, attempted |-> h[w].attempted]
  <2>2. rec \in Executor /\ rec.at = "settle" /\ h' = [h EXCEPT ![w] = rec]
    BY <1>3, <2>1 DEF Executor, Goto
  <2>3. Backed(rec)
    BY DEF Backed, Done
  <2> HIDE DEF rec
  <2>4. QED
    BY <2>2, <2>3
<1>5. h' \in [Workers -> Executor] /\ AuthorizedOnce' /\ WordsStand'
  BY <1>1, <1>4, RowFacts, ExecutorMoves
<1>6. CancelTypeOK'
  BY <1>1, <1>5, RowFacts DEF CInv, CancelTypeOK
<1>7. WithdrawnLinkIsClosed'
  BY <1>1, RowFacts, ExecutorFacts DEF CInv, WithdrawnLinkIsClosed
<1>8. ScheduledIsCertain' /\ AtMostOneCancelRequest'
  BY <1>1, RowFacts DEF CInv, ScheduledIsCertain, AtMostOneCancelRequest
<1>9. QED
  BY <1>5, <1>6, <1>7, <1>8 DEF CInv

-----------------------------------------------------------------------------
\* The executor is put away: settled, or lost with its process.
LEMMA PutAway ==
    ASSUME CInv, IInv', NEW w \in Workers, h' = [h EXCEPT ![w] = Idle],
           UNCHANGED <<dbVars, worldVars>>, faults' \in 0..MaxFaults
    PROVE  CInv'
<1>1. Idle \in Executor /\ Idle.at = "idle"
  BY DEF Idle, Executor
<1>2. Backed(Idle)
  BY DEF Backed, Idle, Done
<1>3. QED
  BY <1>1, <1>2, ExecutorOnly

\* The terminal projector schedules a protective cancellation with its outbox row.
LEMMA ScheduleStep == ASSUME CInv, IInv', Schedule PROVE CInv'
<1>1. /\ action = "ABSENT" /\ action' = "QUEUED" /\ instrument' = "CANCEL_PENDING"
      /\ case' = case /\ evidence' = evidence /\ fresh' = TRUE
      /\ enabled' = enabled /\ link' = link /\ request' = request /\ calls' = calls
      /\ faults' = faults /\ h' = h
  BY DEF Schedule, Due, ScheduledRows
<1>2. "CANCEL_PENDING" \in DOMAIN InstrumentNext
  BY InstrumentStatuses
<1>3. CancelTypeOK'
  BY <1>1, <1>2 DEF CInv, CancelTypeOK
<1>4. AuthorizedOnce' /\ WordsStand'
  BY <1>1 DEF CInv, AuthorizedOnce, WordsStand
<1>5. ScheduledIsCertain' /\ WithdrawnLinkIsClosed' /\ AtMostOneCancelRequest'
  BY <1>1 DEF CInv, ScheduledIsCertain, WithdrawnLinkIsClosed, AtMostOneCancelRequest,
              ClosedActions
<1>6. QED
  BY <1>3, <1>4, <1>5 DEF CInv

\* What happens to the link, the account and the clocks.
LEMMA WorldStep ==
    ASSUME CInv, IInv',
           \/ ProviderCancels \/ ProviderRejects \/ LinkPaid \/ LinkExpires \/ ProjectLinkPaid
           \/ ProposalExpires \/ SwitchAccount \/ UNCHANGED cancelVars
    PROVE  CInv'
<1>1. /\ action' = action /\ evidence' = evidence /\ calls' = calls /\ h' = h
  BY DEF ProviderCancels, ProviderRejects, LinkPaid, LinkExpires, ProjectLinkPaid,
         ProposalExpires, SwitchAccount, cancelVars, dbVars, worldVars
<1>2. /\ link' \in {"created", "paid", "cancelled", "expired"}
      /\ link # "created" => link' # "created"
      /\ request' \in {"none", "open", "answered"}
  BY DEF ProviderCancels, ProviderRejects, LinkPaid, LinkExpires, ProjectLinkPaid,
         ProposalExpires, SwitchAccount, cancelVars, worldVars, CInv, CancelTypeOK
<1>3. /\ fresh' \in BOOLEAN /\ enabled' \in BOOLEAN
  BY DEF ProviderCancels, ProviderRejects, LinkPaid, LinkExpires, ProjectLinkPaid,
         ProposalExpires, SwitchAccount, cancelVars, worldVars, CInv, CancelTypeOK
<1>4. faults' \in 0..MaxFaults
  BY FaultsAssumption
  DEF ProviderCancels, ProviderRejects, LinkPaid, LinkExpires, ProjectLinkPaid,
      ProposalExpires, SwitchAccount, cancelVars, Fault, CInv, CancelTypeOK
<1>5. /\ case' \in {"SUPPRESSED_PAID", "DUPLICATE_REVIEW"}
      /\ instrument' = instrument \/ (instrument' = "PAID" /\ link' # "created")
  BY DEF ProviderCancels, ProviderRejects, LinkPaid, LinkExpires, ProjectLinkPaid,
         ProposalExpires, SwitchAccount, cancelVars, worldVars, dbVars, CInv, CancelTypeOK
<1>6. "PAID" \in DOMAIN InstrumentNext
  BY InstrumentStatuses
<1>7. CancelTypeOK'
  BY <1>1, <1>2, <1>3, <1>4, <1>5, <1>6 DEF CInv, CancelTypeOK
<1>8. AuthorizedOnce' /\ WordsStand'
  BY <1>1, <1>2 DEF CInv, AuthorizedOnce, WordsStand
<1>9. ScheduledIsCertain' /\ WithdrawnLinkIsClosed' /\ AtMostOneCancelRequest'
  BY <1>1, <1>2, <1>5
  DEF CInv, ScheduledIsCertain, WithdrawnLinkIsClosed, AtMostOneCancelRequest
<1>10. QED
  BY <1>7, <1>8, <1>9 DEF CInv

\* Before it is scheduled a cancellation has asked the provider for nothing.
LEMMA InitCInv == CancelInit => CInv
<1>1. SUFFICES ASSUME CancelInit PROVE CInv
  OBVIOUS
<1>2. IInv
  BY <1>1, InitIInv DEF CancelInit
<1>3. Idle \in Executor
  BY DEF Idle, Executor
<1>4. {"ACTIVE", "UNCERTAIN"} \subseteq DOMAIN InstrumentNext
  BY InstrumentStatuses
<1>5. CancelTypeOK
  <2>1. /\ evidence \in BOOLEAN /\ fresh \in BOOLEAN /\ enabled \in BOOLEAN
        /\ instrument \in DOMAIN InstrumentNext
    BY <1>1, <1>4 DEF CancelInit
  <2>2. calls \in Nat /\ faults \in 0..MaxFaults
    BY <1>1, FaultsAssumption DEF CancelInit
  <2>3. h \in [Workers -> Executor]
    BY <1>1, <1>3 DEF CancelInit
  <2>4. QED
    BY <1>1, <2>1, <2>2, <2>3 DEF CancelInit, CancelTypeOK
<1>6. AuthorizedOnce /\ WordsStand
  <2>1. \A w \in Workers : h[w].at = "idle" /\ h[w].truth = "none" /\ h[w].result = "none"
    BY <1>1 DEF CancelInit, Idle
  <2>2. QED
    BY <1>1, <2>1 DEF CancelInit, AuthorizedOnce, WordsStand, Done
<1>7. ScheduledIsCertain /\ WithdrawnLinkIsClosed /\ AtMostOneCancelRequest
  BY <1>1 DEF CancelInit, ScheduledIsCertain, WithdrawnLinkIsClosed, AtMostOneCancelRequest,
              ClosedActions
<1>8. QED
  BY <1>2, <1>5, <1>6, <1>7 DEF CInv

\* Every step keeps the invariant; the outbox below keeps its own.
LEMMA NextCInv == CInv /\ [CancelNext]_allVars => CInv'
<1>1. SUFFICES ASSUME CInv, [CancelNext]_allVars PROVE CInv'
  OBVIOUS
<1>2. IInv'
  <2>1. IInv
    BY <1>1 DEF CInv
  <2>2. QED
    BY <1>1, <2>1, CancelStepIsOutboxStep, NextKeepsIInv
<1>3. CASE Schedule
  BY <1>1, <1>2, <1>3, ScheduleStep
<1>4. ASSUME NEW w \in Workers, HandlerStep(w) PROVE CInv'
  <2>1. PICK c \in batch[w] :
            \/ BeginExecute(w, c) \/ FetchTruth(w, c) \/ Rebind(w, c)
            \/ FinalGate(w, c) \/ Authorize(w, c) \/ SendCancel(w, c) \/ Refetch(w, c)
            \/ Reconcile(w, c) \/ Persist(w, c) \/ HandlerRaises(w, c) \/ SettleResult(w, c)
    BY <1>4 DEF HandlerStep
  <2>2. CASE SettleResult(w, c)
    <3>1. /\ h' = [h EXCEPT ![w] = Idle] /\ faults' = faults
          /\ UNCHANGED <<dbVars, worldVars>>
      BY <2>2 DEF SettleResult
    <3>2. faults' \in 0..MaxFaults
      BY <1>1, <3>1 DEF CInv, CancelTypeOK
    <3>3. QED
      BY <1>1, <1>2, <3>1, <3>2, PutAway
  <2>3. QED
    BY <1>1, <1>2, <2>1, <2>2, ReadSteps, AuthorizeStep, SendStep, PersistStep
<1>5. ASSUME NEW w \in Workers, NEW c \in batch[w],
             \/ BindingFails(w, c) \/ FetchFails(w, c) \/ FetchMismatch(w, c)
             \/ DatabaseFails(w, c)
      PROVE  CInv'
  BY <1>1, <1>2, <1>5, ReadSteps
<1>6. ASSUME NEW w \in Workers, Crash(w) PROVE CInv'
  BY <1>1, <1>2, <1>6, ExecutorFacts, PutAway DEF Crash
<1>7. CASE UNCHANGED cancelVars
  BY <1>1, <1>2, <1>7, WorldStep
<1>8. CASE \/ ProviderCancels \/ ProviderRejects \/ LinkPaid \/ LinkExpires
           \/ ProjectLinkPaid \/ ProposalExpires \/ SwitchAccount
  BY <1>1, <1>2, <1>8, WorldStep
<1>9. QED
  BY <1>1, <1>3, <1>4, <1>5, <1>6, <1>7, <1>8 DEF CancelNext, allVars

\* The inductive invariant holds in every execution.
LEMMA AlwaysCInv == CancelSpec => []CInv
<1>1. QED
  BY InitCInv, NextCInv, PTL DEF CancelSpec

-----------------------------------------------------------------------------
\* Type correctness of the cancellation's rows and of every executor.
THEOREM CancelTypeCorrect == CancelSpec => []CancelTypeOK
<1>1. CInv => CancelTypeOK
  BY DEF CInv
<1>2. QED
  BY <1>1, AlwaysCInv, PTL

\* As the code stands the provider is asked to cancel at most once
\* (record_cancellation_authorization and the evidence trigger), for any number of
\* deliveries, crashes and workers, and also when a retry was granted.
THEOREM OneCancelRequest == CancelSpec => []AtMostOneCancelRequest
<1>1. CInv => AtMostOneCancelRequest
  BY DEF CInv
<1>2. QED
  BY <1>1, AlwaysCInv, PTL

\* The granted retry of a cancel that had no effect: a RETRY_SAME_EFFECT delivery
\* that has passed every fresh check and the final gate under a live fence.
GrantedRetry(w, c) ==
    /\ c.mode = "RETRY_SAME_EFFECT" /\ calls > 0
    /\ At(w, c, "allowed") /\ Fence(w, c)

\* _reconcile_after_effect grants a retry ("post_cancel_fresh_unpaid_link_grants_
\* effect_retry") and docs/razorpay-integration.md promises "one bounded cancel
\* attempt" after it.  The code never makes that attempt: _AUTHORIZE and the
\* write-once trigger refuse every one of them.
THEOREM GrantedRetryIsRefused ==
    CancelSpec => [](\A w \in Workers : \A c \in batch[w] : GrantedRetry(w, c) => ~Authorizable)
<1>1. ASSUME CInv, NEW w \in Workers, NEW c \in batch[w], GrantedRetry(w, c)
      PROVE  ~Authorizable
  <2>1. calls # 0
    BY <1>1 DEF GrantedRetry, CInv, CancelTypeOK
  <2>2. evidence
    BY <1>1, <2>1 DEF CInv, AuthorizedOnce
  <2>3. QED
    BY <2>2 DEF Authorizable
<1>2. CInv => \A w \in Workers : \A c \in batch[w] : GrantedRetry(w, c) => ~Authorizable
  BY <1>1
<1>3. QED
  BY <1>2, AlwaysCInv, PTL

\* A cancellation is recorded only of a link that can no longer be collected on
\* (_reconcile_after_effect and persist_result), however late the result is written.
THEOREM WithdrawnIsClosed == CancelSpec => []WithdrawnLinkIsClosed
<1>1. CInv => WithdrawnLinkIsClosed
  BY DEF CInv
<1>2. QED
  BY <1>1, AlwaysCInv, PTL

\* A fenced transaction of the executor belongs to a delivery in progress.
LEMMA FencedIsOpen ==
    ASSUME CInv, NEW w \in Workers, NEW c \in batch[w], Fence(w, c)
    PROVE  job[TheJob].status = "IN_PROGRESS"
<1>1. c.job \in Jobs
  BY DEF CInv, IInv, TypeOK, Claim
<1>2. QED
  BY <1>1, OnlyJob DEF Fence

\* The steps that write the action or the instrument.
LEMMA WritingSteps ==
    ASSUME CInv, [CancelNext]_allVars
    PROVE  \/ action' = action /\ instrument' = instrument
           \/ Schedule
           \/ action' = action /\ ProjectLinkPaid
           \/ \E w \in Workers : \E c \in batch[w] :
                 \/ Authorize(w, c) /\ instrument' = instrument
                 \/ Persist(w, c)
<1>1. ASSUME NEW w \in Workers, NEW c \in batch[w],
             \/ BeginExecute(w, c) \/ FetchTruth(w, c) \/ Rebind(w, c) \/ FinalGate(w, c)
             \/ SendCancel(w, c) \/ Refetch(w, c) \/ Reconcile(w, c) \/ HandlerRaises(w, c)
             \/ SettleResult(w, c)
             \/ BindingFails(w, c) \/ FetchFails(w, c) \/ FetchMismatch(w, c)
             \/ DatabaseFails(w, c)
      PROVE  UNCHANGED dbVars
  BY <1>1 DEF BeginExecute, FetchTruth, Rebind, FinalGate, SendCancel, Refetch, Reconcile,
      HandlerRaises, SettleResult, BindingFails, FetchFails, FetchMismatch, DatabaseFails
<1>2. ASSUME \/ ProviderCancels \/ ProviderRejects \/ LinkPaid \/ LinkExpires
             \/ ProposalExpires \/ SwitchAccount \/ (\E w \in Workers : Crash(w))
             \/ UNCHANGED cancelVars \/ UNCHANGED allVars
      PROVE  UNCHANGED dbVars
  BY <1>2 DEF ProviderCancels, ProviderRejects, LinkPaid, LinkExpires, ProposalExpires,
      SwitchAccount, Crash, cancelVars, allVars
<1>3. ASSUME NEW w \in Workers, NEW c \in batch[w], Authorize(w, c)
      PROVE  instrument' = instrument
  BY <1>3 DEF Authorize
<1>4. ProjectLinkPaid => action' = action
  BY DEF ProjectLinkPaid
<1>5. UNCHANGED dbVars => action' = action /\ instrument' = instrument
  BY DEF dbVars
<1>6. QED
  BY <1>1, <1>2, <1>3, <1>4, <1>5 DEF CancelNext, HandlerStep

\* Once the job is settled no late delivery changes the action any more: the
\* two transactions that write it are fenced, and a cancellation is scheduled
\* together with a new job.
THEOREM SettledIsFinal == CancelSpec => SettledCancellationIsFinal
<1>1. ASSUME CInv, [CancelNext]_allVars
      PROVE  [job[TheJob].status \in Terminal => action' = action]_allVars
  <2>1. SUFFICES ASSUME job[TheJob].status \in Terminal PROVE action' = action
    OBVIOUS
  <2>2. job[TheJob].status \notin {"IN_PROGRESS", "ABSENT"}
    BY <2>1 DEF Terminal
  <2>3. ~Schedule
    BY <2>2 DEF Schedule, Enqueue
  <2>4. \A w \in Workers : \A c \in batch[w] : ~Authorize(w, c) /\ ~Persist(w, c)
    BY <1>1, <2>2, FencedIsOpen DEF Authorize, Persist
  <2>5. QED
    BY <1>1, <2>3, <2>4, WritingSteps
<1>2. QED
  BY <1>1, AlwaysCInv, PTL DEF CancelSpec, SettledCancellationIsFinal

\* No update of the instrument would be refused by its lifecycle trigger, and
\* recorded money is never overwritten.
THEOREM InstrumentFollowsLifecycle == CancelSpec => InstrumentLifecycle
<1>1. ASSUME CInv, [CancelNext]_allVars
      PROVE  [instrument' # instrument => instrument' \in InstrumentNext[instrument]]_allVars
  <2>1. SUFFICES ASSUME instrument' # instrument PROVE instrument' \in InstrumentNext[instrument]
    OBVIOUS
  <2>2. CASE Schedule
    <3>1. instrument \in Collectible /\ instrument' = "CANCEL_PENDING"
      BY <2>2 DEF Schedule, Due, ScheduledRows
    <3>2. instrument \in {"UNCERTAIN", "ISSUED", "ACTIVE"}
      BY <2>1, <3>1 DEF Collectible
    <3>3. QED
      BY <3>1, <3>2 DEF InstrumentNext
  <2>3. CASE ProjectLinkPaid
    BY <2>3 DEF ProjectLinkPaid
  <2>4. ASSUME NEW w \in Workers, NEW c \in batch[w], Persist(w, c)
        PROVE  instrument' \in InstrumentNext[instrument]
    <3>1. PersistRows(w)
      BY <2>4 DEF Persist
    <3>2. \/ /\ instrument \in {"UNCERTAIN", "ISSUED", "ACTIVE", "CANCEL_PENDING"}
             /\ action # "ABSENT"
             /\ instrument' \in {"CANCELLED", "EXPIRED"}
          \/ instrument = "CANCEL_PENDING" /\ instrument' = "ACTIVE"
      BY <1>1, <2>1, <3>1, RowFacts
    <3>3. action # "ABSENT" => instrument # "UNCERTAIN"
      BY <1>1 DEF CInv, ScheduledIsCertain
    <3>4. CASE instrument \in {"ISSUED", "ACTIVE", "CANCEL_PENDING"}
               /\ instrument' \in {"CANCELLED", "EXPIRED"}
      BY <3>4 DEF InstrumentNext
    <3>5. CASE instrument = "CANCEL_PENDING" /\ instrument' = "ACTIVE"
      BY <3>5 DEF InstrumentNext
    <3>6. QED
      BY <3>2, <3>3, <3>4, <3>5
  <2>5. QED
    BY <1>1, <2>1, <2>2, <2>3, <2>4, WritingSteps
<1>2. QED
  BY <1>1, AlwaysCInv, PTL DEF CancelSpec, InstrumentLifecycle

\* The executor is a client of the outbox: everything proved of Outbox holds of
\* every execution of the cancellation.
THEOREM CancellationUsesOutbox == CancelSpec => Spec
<1>1. CancelInit => Init
  BY DEF CancelInit
<1>2. QED
  BY <1>1, CancelStepIsOutboxStep, PTL DEF CancelSpec, Spec
=============================================================================
