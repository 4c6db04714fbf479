---------------------------- MODULE Cancellation ----------------------------
(***************************************************************************)
(* Withdrawing a payment link that is still collectible although its case  *)
(* has ended: the scheduler, the cancel executor and their transactions.   *)
(*                                                                         *)
(*   services/control_plane/cancellation_worker.py  scheduler, repository, *)
(*                                                  outbox handler         *)
(*   services/control_plane/cancellation.py         the executor           *)
(*   infrastructure/postgres/migrations/001, 008    lifecycle triggers     *)
(*                                                                         *)
(* One link of one case, delivered by Outbox as its only job.  Every       *)
(* transaction and every provider call of the handler is a step of its     *)
(* own, so a lease may run out, the process may die, the customer may pay  *)
(* the link and the projector may record it between any two of them.       *)
(* A partially paid link is treated like a paid one throughout the code.   *)
(***************************************************************************)
EXTENDS Outbox

CONSTANT MaxFaults   \* bound: transient provider errors and crashes

ASSUME OneJob == \E j \in Jobs : Jobs = {j}
ASSUME FaultsAssumption == MaxFaults \in Nat

VARIABLES
    case,        \* recovery_cases.state
    instrument,  \* recovery_instruments.status
    action,      \* actions.status of the cancellation, ABSENT before it exists
    evidence,    \* the action holds effect-gate evidence
    fresh,       \* the proposal's five minutes have not passed
    enabled,     \* merchant ACTIVE, TEST account enabled
    link,        \* the link at the provider
    request,     \* the cancel request as the provider sees it
    calls,       \* history: cancel requests sent
    faults,      \* history: transient errors so far
    h            \* h[w]: where worker w's handler is, and what it has read

dbVars == <<case, instrument, action, evidence>>
worldVars == <<fresh, enabled, link, request, calls>>
cancelVars == <<dbVars, worldVars, faults, h>>
allVars == <<vars, cancelVars>>

TheJob == CHOOSE j \in Jobs : TRUE
Idle == [at |-> "idle", truth |-> "none", result |-> "none", attempted |-> FALSE]

Collectible == {"UNCERTAIN", "ISSUED", "ACTIVE", "CANCEL_PENDING"}
PaidStatuses == {"PAID", "PARTIALLY_PAID"}
ClosedActions == {"SUCCEEDED", "RECONCILED", "CANCELLED"}

\* enforce_recovery_instrument_lifecycle, for an instrument with a provider id.
InstrumentNext ==
    [UNCERTAIN      |-> {"CREATING", "ISSUED", "ACTIVE", "CANCEL_PENDING", "FAILED"},
     ISSUED         |-> {"ACTIVE", "CANCEL_PENDING", "PAID", "PARTIALLY_PAID", "CANCELLED",
                         "EXPIRED", "FAILED"},
     ACTIVE         |-> {"CANCEL_PENDING", "PAID", "PARTIALLY_PAID", "CANCELLED", "EXPIRED",
                         "FAILED"},
     CANCEL_PENDING |-> {"ACTIVE", "PAID", "PARTIALLY_PAID", "CANCELLED", "EXPIRED", "FAILED"},
     PARTIALLY_PAID |-> {"PAID"},
     CANCELLED      |-> {"PAID", "PARTIALLY_PAID"},
     EXPIRED        |-> {"PAID", "PARTIALLY_PAID"},
     PAID           |-> {},
     FAILED         |-> {}]

\* A worker's executor: its step, the provider's last word, its result and
\* whether it sent the cancel.
Executor == [at: {"idle", "gated", "fetched", "rebound", "allowed", "authorized",
                  "called", "refetched", "persist", "settle"},
             truth: {"none", "created", "paid", "cancelled", "expired"},
             result: {"none", "CANCELLED", "ALREADY_CANCELLED", "EXPIRED",
                      "BLOCKED", "REVIEW_REQUIRED", "ESCALATED", "DEAD_LETTER",
                      "NORMAL", "SUCCEED", "RECONCILE_ONLY", "RETRY_SAME_EFFECT"},
             attempted: BOOLEAN]

CancelTypeOK ==
    /\ case \in {"SUPPRESSED_PAID", "DUPLICATE_REVIEW"}
    /\ instrument \in DOMAIN InstrumentNext
    /\ action \in {"ABSENT", "QUEUED", "EXECUTING", "UNCERTAIN", "FAILED_SAFE", "DEAD_LETTER"}
                    \cup ClosedActions
    /\ evidence \in BOOLEAN /\ fresh \in BOOLEAN /\ enabled \in BOOLEAN
    /\ link \in {"created", "paid", "cancelled", "expired"}
    /\ request \in {"none", "open", "answered"}
    /\ calls \in Nat /\ faults \in 0..MaxFaults
    /\ h \in [Workers -> Executor]

\* The original payment, or a duplicate, has ended the case; its link lives on.
CancelInit ==
    /\ Init
    /\ case \in {"SUPPRESSED_PAID", "DUPLICATE_REVIEW"}
    /\ instrument \in {"ACTIVE", "UNCERTAIN"}
    /\ action = "ABSENT" /\ evidence = FALSE
    /\ fresh = TRUE /\ enabled = TRUE
    /\ link = "created" /\ request = "none" /\ calls = 0 /\ faults = 0
    /\ h = [w \in Workers |-> Idle]

-----------------------------------------------------------------------------
\* _SELECT_DUE: a collectible link of an ended case for which no cancellation
\* was ever scheduled.
Due ==
    /\ case \in {"SUPPRESSED_PAID", "DUPLICATE_REVIEW"}
    /\ enabled
    /\ instrument \in Collectible
    /\ action = "ABSENT"

\* The rows a scheduled cancellation writes, beside its decision and its job.
ScheduledRows ==
    /\ action' = "QUEUED"
    /\ instrument' = "CANCEL_PENDING"
    /\ UNCHANGED <<case, evidence>>

\* schedule_due and _schedule: decision, action, instrument and job commit
\* together; the policy gate allows what _SELECT_DUE selects.
Schedule ==
    /\ Due
    /\ ScheduledRows
    /\ fresh' = TRUE
    /\ Enqueue(TheJob)
    /\ UNCHANGED <<enabled, link, request, calls, faults, h>>

-----------------------------------------------------------------------------
(* The executor.                                                           *)

At(w, c, step) == IsCurrent(w, c) /\ h[w].at = step

Goto(w, step, truth, result) ==
    h' = [h EXCEPT ![w] = [at |-> step, truth |-> truth, result |-> result,
                           attempted |-> h[w].attempted]]

Resolve(w, result) == Goto(w, "persist", h[w].truth, result)

\* evaluate_effect for CANCEL_PAYMENT_LINK, in the context load_fresh_gate_context
\* reads: neither kill switch applies, an active instrument is required.
GateAllows == fresh /\ enabled /\ instrument \in Collectible

\* _requeue: on the last attempt the requeue is a dead letter.
Requeue(c, mode) == IF c.attempts >= MaxAttempts THEN "DEAD_LETTER" ELSE mode

Fault == faults < MaxFaults /\ faults' = faults + 1

\* The lease check, load_cancellation_binding and the first gate decision.
BeginExecute(w, c) ==
    /\ At(w, c, "idle")
    /\ Fence(w, c)
    /\ IF GateAllows THEN Goto(w, "gated", "none", "none") ELSE Resolve(w, "BLOCKED")
    /\ UNCHANGED <<vars, dbVars, worldVars, faults>>

\* A binding read before the cancel returns no row, or one that does not bind this
\* command (_binding_failure).
BindingFails(w, c) ==
    /\ IsCurrent(w, c)
    /\ (h[w].at = "idle" /\ Fence(w, c)) \/ h[w].at = "fetched"
    /\ Fault
    /\ Resolve(w, "ESCALATED")
    /\ UNCHANGED <<vars, dbVars, worldVars>>

\* _resolve_without_cancel on the provider's word alone.
TruthResult(truth) ==
    CASE truth = "paid" -> "REVIEW_REQUIRED"
      [] truth = "cancelled" -> "ALREADY_CANCELLED"
      [] truth = "expired" -> "EXPIRED"

\* _fetch_truth answers for the target and the pre-cancel resolution.
FetchTruth(w, c) ==
    /\ At(w, c, "gated")
    /\ IF link = "created" THEN Goto(w, "fetched", link, "none")
       ELSE Goto(w, "persist", link, TruthResult(link))
    /\ UNCHANGED <<vars, dbVars, worldVars, faults>>

\* The fetch fails: nothing was attempted, so the mode stays what it was.
FetchFails(w, c) ==
    /\ At(w, c, "gated")
    /\ Fault
    /\ Goto(w, "persist", "none",
            Requeue(c, IF c.mode = "RECONCILE_ONLY" THEN c.mode ELSE "NORMAL"))
    /\ UNCHANGED <<vars, dbVars, worldVars>>

\* ... or it answers for another target (ProviderPaymentLinkTruth.matches).
FetchMismatch(w, c) ==
    /\ At(w, c, "gated")
    /\ Fault
    /\ Goto(w, "persist", "none", "ESCALATED")
    /\ UNCHANGED <<vars, dbVars, worldVars>>

\* The second binding read, with the provider's truth still "created".
Rebind(w, c) ==
    /\ At(w, c, "fetched")
    /\ IF instrument \in PaidStatuses THEN Resolve(w, "REVIEW_REQUIRED")
       ELSE IF instrument \in {"CANCELLED", "EXPIRED"}
            THEN Resolve(w, Requeue(c, "RECONCILE_ONLY"))
       ELSE IF c.mode = "RECONCILE_ONLY" THEN Resolve(w, Requeue(c, "RETRY_SAME_EFFECT"))
       ELSE Goto(w, "rebound", h[w].truth, "none")
    /\ UNCHANGED <<vars, dbVars, worldVars, faults>>

\* The lease once more, a second context and the final decision.
FinalGate(w, c) ==
    /\ At(w, c, "rebound")
    /\ Fence(w, c)
    /\ IF GateAllows THEN Goto(w, "allowed", h[w].truth, "none") ELSE Resolve(w, "BLOCKED")
    /\ UNCHANGED <<vars, dbVars, worldVars, faults>>

\* _AUTHORIZE takes a QUEUED action, and the trigger lets its evidence be
\* written once.
Authorizable == action = "QUEUED" /\ ~evidence

\* record_cancellation_authorization, under the fence.
Authorize(w, c) ==
    /\ At(w, c, "allowed")
    /\ Fence(w, c)
    /\ Authorizable
    /\ action' = "EXECUTING"
    /\ evidence' = TRUE
    /\ Goto(w, "authorized", h[w].truth, "none")
    /\ UNCHANGED <<vars, case, instrument, worldVars, faults>>

\* cancel_payment_link sends the POST; whatever comes back is followed by a fetch.
SendCancel(w, c) ==
    /\ At(w, c, "authorized")
    /\ request' = "open"
    /\ calls' = calls + 1
    /\ h' = [h EXCEPT ![w] = [at |-> "called", truth |-> h[w].truth, result |-> h[w].result,
                              attempted |-> TRUE]]
    /\ UNCHANGED <<vars, dbVars, fresh, enabled, link, faults>>

\* The provider handles the request, at once or after the caller gave up on it.
ProviderCancels ==
    /\ request = "open"
    /\ request' = "answered"
    /\ link' = IF link = "created" THEN "cancelled" ELSE link
    /\ UNCHANGED <<vars, dbVars, fresh, enabled, calls, faults, h>>

\* ... or refuses it, or never receives it.
ProviderRejects ==
    /\ request = "open"
    /\ Fault
    /\ request' = "answered"
    /\ UNCHANGED <<vars, dbVars, fresh, enabled, link, calls, h>>

\* _reconcile_after_effect starts with a fresh fetch.  The caller has an answer
\* by now, or has given up waiting for one, which is a transient error.
Refetch(w, c) ==
    /\ At(w, c, "called")
    /\ \/ request = "answered" /\ Goto(w, "refetched", link, "none") /\ UNCHANGED faults
       \/ request = "open" /\ Fault /\ Goto(w, "refetched", link, "none")
       \/ Fault /\ Goto(w, "refetched", "none", "none")
    /\ UNCHANGED <<vars, dbVars, worldVars>>

\* Mutant: the cancel's own answer is trusted when the link looks untouched.
PostResultTrusting(c, truth) ==
    IF truth = "none" THEN Requeue(c, "RECONCILE_ONLY")
    ELSE IF instrument \in PaidStatuses \/ truth = "paid" THEN "REVIEW_REQUIRED"
    ELSE IF truth = "expired" THEN "EXPIRED" ELSE "CANCELLED"

\* The result after the cancel, from the binding and the fetched truth.
PostResult(c, truth) ==
    IF truth = "none" THEN Requeue(c, "RECONCILE_ONLY")
    ELSE IF instrument \in PaidStatuses \/ truth = "paid" THEN "REVIEW_REQUIRED"
    ELSE IF truth = "cancelled" THEN "CANCELLED"
    ELSE IF truth = "expired" THEN "EXPIRED"
    ELSE Requeue(c, IF instrument \in {"CANCELLED", "EXPIRED"}
                    THEN "RECONCILE_ONLY" ELSE "RETRY_SAME_EFFECT")

\* The binding read after the cancel and the result; or that binding fails, or
\* the fetched truth is of another target.
Reconcile(w, c) ==
    /\ At(w, c, "refetched")
    /\ \/ Resolve(w, PostResult(c, h[w].truth)) /\ UNCHANGED faults
       \/ Resolve(w, "ESCALATED") /\ Fault
    /\ UNCHANGED <<vars, dbVars, worldVars>>

-----------------------------------------------------------------------------
(* persist_result: what one result writes; an update that matches no row    *)
(* raises and rolls the transaction back.                                  *)

Done == {"CANCELLED", "ALREADY_CANCELLED", "EXPIRED"}
Retried == {"NORMAL", "RECONCILE_ONLY", "RETRY_SAME_EFFECT"}

\* Mutant: an action that was never authorized counts as executed.
CompletedReconciled == IF action = "EXECUTING" THEN "SUCCEEDED" ELSE "COMPLETED"

\* _CANCEL_QUEUED_ACTION, or _ACTION_TO_RECONCILING and _COMPLETE_ACTION.
CompletedAction ==
    CASE action = "QUEUED" -> "CANCELLED"
      [] action = "EXECUTING" -> "SUCCEEDED"
      [] OTHER -> "RECONCILED"

\* Mutant: the instrument's status is not compared.
PersistDoneAnyStatus(result) ==
    LET closed == IF result = "EXPIRED" THEN "EXPIRED" ELSE "CANCELLED"
    IN  /\ action \in {"QUEUED", "EXECUTING", "UNCERTAIN"}
        /\ action' = CompletedAction
        /\ instrument' = closed
        /\ UNCHANGED <<case, evidence>>

PersistDone(result) ==
    LET closed == IF result = "EXPIRED" THEN "EXPIRED" ELSE "CANCELLED"
    IN  /\ action \in {"QUEUED", "EXECUTING", "UNCERTAIN"}
        /\ action' = CompletedAction
        /\ instrument \in Collectible \cup {closed}
        /\ instrument' = closed
        /\ UNCHANGED <<case, evidence>>

\* RECONCILE_REQUIRED: an attempted cancel is uncertain; one that was not
\* attempted takes an uncertain action back to the queue.
PersistRetry(attempted) ==
    /\ action' = CASE attempted /\ action = "EXECUTING" -> "UNCERTAIN"
                   [] ~attempted /\ action = "UNCERTAIN" -> "QUEUED"
                   [] OTHER -> action
    /\ UNCHANGED <<case, instrument, evidence>>

\* Everything else fails the action; money needs a review, any other reason
\* gives the link back as collectible.
PersistFailure(result) ==
    /\ action \in {"QUEUED", "EXECUTING", "UNCERTAIN"}
    /\ action' = IF action = "EXECUTING" THEN "FAILED_SAFE" ELSE "DEAD_LETTER"
    /\ IF result = "REVIEW_REQUIRED" THEN case' = "DUPLICATE_REVIEW" /\ UNCHANGED instrument
       ELSE /\ instrument' = IF instrument = "CANCEL_PENDING" THEN "ACTIVE" ELSE instrument
            /\ UNCHANGED case
    /\ UNCHANGED evidence

PersistRows(w) ==
    \/ h[w].result \in Done /\ PersistDone(h[w].result)
    \/ h[w].result \in Retried /\ PersistRetry(h[w].attempted)
    \/ h[w].result \notin Done \cup Retried /\ PersistFailure(h[w].result)

\* What __call__ returns.  A retry may not be NORMAL: HandlerResult refuses it
\* and the worker turns the exception into a RECONCILE_ONLY retry.
CallResult(result) ==
    CASE result \in Done -> "SUCCEED"
      [] result = "NORMAL" -> "RECONCILE_ONLY"
      [] result \in RetryModes -> result
      [] OTHER -> "DEAD_LETTER"

\* Mutant: the transaction does not lock and check the delivery's fence.
PersistUnfenced(w, c) ==
    /\ At(w, c, "persist")
    /\ PersistRows(w)
    /\ Goto(w, "settle", "none", CallResult(h[w].result))
    /\ UNCHANGED <<vars, worldVars, faults>>

\* One transaction under the fence.  When the answer to the COMMIT is lost the
\* handler takes it for a failure.
Persist(w, c) ==
    /\ At(w, c, "persist")
    /\ Fence(w, c)
    /\ PersistRows(w)
    /\ \/ Goto(w, "settle", "none", CallResult(h[w].result)) /\ UNCHANGED faults
       \/ Goto(w, "settle", "none", "RECONCILE_ONLY") /\ Fault
    /\ UNCHANGED <<vars, worldVars>>

\* The except clauses of __call__: a lease or fence that is gone, or an update
\* that matched no row.
Refused(w, c) ==
    \/ h[w].at \in {"idle", "rebound"} /\ ~Fence(w, c)
    \/ h[w].at = "allowed" /\ ~(Fence(w, c) /\ Authorizable)
    \/ h[w].at = "persist" /\ ~(Fence(w, c) /\ ENABLED PersistRows(w))

HandlerRaises(w, c) ==
    /\ IsCurrent(w, c)
    /\ Refused(w, c)
    /\ Goto(w, "settle", "none", "RECONCILE_ONLY")
    /\ UNCHANGED <<vars, dbVars, worldVars, faults>>

\* The database cannot be reached: the same except clauses.
DatabaseFails(w, c) ==
    /\ IsCurrent(w, c)
    /\ h[w].at \in {"idle", "fetched", "rebound", "allowed", "refetched", "persist"}
    /\ Fault
    /\ Goto(w, "settle", "none", "RECONCILE_ONLY")
    /\ UNCHANGED <<vars, dbVars, worldVars>>

\* poll_once settles the delivery; retry() on the last attempt is a dead letter.
SettleResult(w, c) ==
    /\ At(w, c, "settle")
    /\ \/ h[w].result = "SUCCEED" /\ Complete(w, c)
       \/ h[w].result \in RetryModes /\ Retry(w, c, h[w].result)
       \/ /\ h[w].result # "SUCCEED"
          /\ h[w].result = "DEAD_LETTER" \/ c.attempts >= MaxAttempts
          /\ DeadLetter(w, c)
       \/ FenceLost(w, c)
    /\ h' = [h EXCEPT ![w] = Idle]
    /\ UNCHANGED <<dbVars, worldVars, faults>>

HandlerStep(w) ==
    \E c \in batch[w] :
        \/ BeginExecute(w, c) \/ FetchTruth(w, c) \/ Rebind(w, c)
        \/ FinalGate(w, c) \/ Authorize(w, c) \/ SendCancel(w, c) \/ Refetch(w, c)
        \/ Reconcile(w, c) \/ Persist(w, c) \/ HandlerRaises(w, c) \/ SettleResult(w, c)

\* The process dies: nothing of the handler is left.
Crash(w) ==
    /\ Fault
    /\ AbandonBatch(w)
    /\ h' = [h EXCEPT ![w] = Idle]
    /\ UNCHANGED <<dbVars, worldVars>>

-----------------------------------------------------------------------------
(* The world around the handler.                                           *)

\* The customer pays the link; money already in flight when the link was
\* cancelled or expired may still arrive.
LinkPaid ==
    /\ link # "paid"
    /\ link' = "paid"
    /\ UNCHANGED <<vars, dbVars, fresh, enabled, request, calls, faults, h>>

LinkExpires ==
    /\ link = "created"
    /\ link' = "expired"
    /\ UNCHANGED <<vars, dbVars, fresh, enabled, request, calls, faults, h>>

\* TerminalEventProjector applies payment_link.paid.
ProjectLinkPaid ==
    /\ link = "paid"
    /\ "PAID" \in InstrumentNext[instrument]
    /\ instrument' = "PAID"
    /\ case' = "DUPLICATE_REVIEW"
    /\ UNCHANGED <<vars, action, evidence, worldVars, faults, h>>

\* The proposal's five minutes pass.
ProposalExpires ==
    /\ fresh /\ action # "ABSENT"
    /\ fresh' = FALSE
    /\ UNCHANGED <<vars, dbVars, enabled, link, request, calls, faults, h>>

\* An operator disables or enables the account or the merchant.
SwitchAccount ==
    /\ enabled' = ~enabled
    /\ UNCHANGED <<vars, dbVars, fresh, link, request, calls, faults, h>>

CancelNext ==
    \/ Schedule
    \/ \E w \in Workers :
        \/ Poll(w) /\ UNCHANGED cancelVars
        \/ HandlerStep(w)
        \/ \E c \in batch[w] : \/ BindingFails(w, c) \/ FetchFails(w, c)
                              \/ FetchMismatch(w, c) \/ DatabaseFails(w, c)
        \/ Crash(w)
    \/ ProviderCancels \/ ProviderRejects
    \/ LinkPaid \/ LinkExpires \/ ProjectLinkPaid \/ ProposalExpires \/ SwitchAccount
    \/ Tick /\ UNCHANGED cancelVars

CancelSpec == CancelInit /\ [][CancelNext]_allVars

(***************************************************************************)
(* The runtime loop schedules and polls for as long as it lives, handlers  *)
(* take their steps, the provider answers what it received, time passes.   *)
(***************************************************************************)
CancelFairSpec ==
    /\ CancelSpec
    /\ WF_allVars(Schedule)
    /\ \A w \in Workers : WF_allVars(Poll(w) /\ UNCHANGED cancelVars)
                          /\ WF_allVars(HandlerStep(w))
    /\ WF_allVars(ProviderCancels)
    /\ WF_allVars(Tick /\ UNCHANGED cancelVars)

-----------------------------------------------------------------------------
(* Properties.                                                             *)

\* What the database calls withdrawn is withdrawn: no interleaving of two
\* deliveries, a late provider and a crash records a cancellation (action or
\* instrument) of a link that can still be paid.
WithdrawnLinkIsClosed ==
    instrument \in {"CANCELLED", "EXPIRED"} \/ action \in ClosedActions => link # "created"

\* The instrument's updates stay within what its trigger allows, the projector's
\* included: recorded money is never overwritten by a late cancellation result.
InstrumentLifecycle ==
    [][instrument' # instrument => instrument' \in InstrumentNext[instrument]]_allVars

\* Once the job is settled the action is final: a worker still busy with an older
\* delivery cannot write its result any more.
SettledCancellationIsFinal ==
    [][job[TheJob].status \in Terminal => action' = action]_allVars

\* PostgresCancellationScheduler: "Continuously repairs terminal cases that still
\* have a collectible link."  With an account that stays enabled every open link of
\* an ended case is closed in the end, unless it is paid or expires by itself first;
\* that the provider lets it expire a day later is no repair and not counted on.
CollectibleLinkIsRepaired ==
    <>[]enabled => <>(link # "created")
=============================================================================
