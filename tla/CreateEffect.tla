---------------------------- MODULE CreateEffect ----------------------------
(***************************************************************************)
(* The one effect that can collect money: creating a payment link at the   *)
(* provider for a failed payment, driven by the outbox.                    *)
(*                                                                         *)
(*   services/control_plane/create_effect_worker.py  transactions, handler *)
(*   services/control_plane/executor.py              the executor          *)
(*   packages/domain/gate.py                         the effect gate       *)
(*   packages/razorpay/payment_links.py              the lookup decision   *)
(*   infrastructure/postgres/migrations/001, 008     lifecycle triggers    *)
(*                                                                         *)
(* Each job of Outbox carries the create command of one recovery case.     *)
(* The handler is a sequence of separate transactions and provider calls,  *)
(* and every one of them is a step here: between any two of them a lease   *)
(* may run out, another worker may take the job, the process may die, the  *)
(* customer may pay the original order after all and the merchant may pull *)
(* the kill switch.                                                        *)
(***************************************************************************)
EXTENDS Outbox, Sequences

VARIABLES
    db,       \* db[j]: the rows of the case, its action, instrument and order
    enabled,  \* merchant active, no kill switch, TEST account enabled
    paid,     \* paid[j]: the provider captured the original payment
    link,     \* link[j]: the provider holds a link with j's reference id
    request,  \* request[j]: the create request as the provider sees it
    sent,     \* history: number of create requests sent for j
    outcome,  \* history: what the workers have learnt about those requests
    h         \* h[w]: where worker w's handler is

effectVars == <<db, enabled, paid, link, request, sent, outcome, h>>
allVars == <<vars, effectVars>>

-----------------------------------------------------------------------------
\* recovery_cases.state, from the moment the command is queued.
CaseStates == {"ACTION_QUEUED", "EXECUTING", "ACTION_UNCERTAIN", "ACTIVE",
               "SUPPRESSED_PAID", "SUPPRESSED_POLICY", "ESCALATED", "FAILED_SAFE"}
Workflow == {"ACTION_QUEUED", "EXECUTING", "ACTION_UNCERTAIN", "ACTIVE"}

\* What enforce_recovery_case_lifecycle allows.
CaseNext ==
    [ACTION_QUEUED    |-> {"EXECUTING", "SUPPRESSED_PAID", "SUPPRESSED_POLICY"},
     EXECUTING        |-> {"ACTIVE", "ACTION_UNCERTAIN", "FAILED_SAFE", "SUPPRESSED_PAID"},
     ACTION_UNCERTAIN |-> {"ACTIVE", "ACTION_QUEUED", "ESCALATED", "SUPPRESSED_PAID"},
     ACTIVE           |-> {"SUPPRESSED_PAID"},
     SUPPRESSED_PAID  |-> {}, SUPPRESSED_POLICY |-> {},
     ESCALATED        |-> {}, FAILED_SAFE |-> {}]

\* actions.status, and what enforce_action_lifecycle allows.
ActionNext ==
    [QUEUED           |-> {"EXECUTING", "CANCELLED", "DEAD_LETTER"},
     EXECUTING        |-> {"SUCCEEDED", "FAILED_RETRYABLE", "FAILED_SAFE",
                           "UNCERTAIN", "CANCELLED"},
     FAILED_RETRYABLE |-> {"QUEUED", "DEAD_LETTER", "CANCELLED"},
     UNCERTAIN        |-> {"RECONCILING", "DEAD_LETTER"},
     RECONCILING      |-> {"RECONCILED", "QUEUED", "FAILED_SAFE", "DEAD_LETTER"},
     SUCCEEDED |-> {}, RECONCILED |-> {}, FAILED_SAFE |-> {},
     CANCELLED |-> {}, DEAD_LETTER |-> {}]

\* recovery_instruments.status, and what its lifecycle trigger allows.
InstrumentNext ==
    [CREATING  |-> {"UNCERTAIN", "ISSUED", "ACTIVE", "FAILED"},
     UNCERTAIN |-> {"CREATING", "ISSUED", "ACTIVE", "FAILED"},
     ACTIVE    |-> {"FAILED"},
     FAILED    |-> {}]

\* One recovery case: evidence counts the gate decisions written to the
\* action, linked says that provider_payment_link_id is set.
CaseRow == [case: CaseStates, version: Nat, action: DOMAIN ActionNext,
            evidence: 0..1, instrument: DOMAIN InstrumentNext, linked: BOOLEAN,
            truth: {"UNPAID", "PAID"}]

\* What the transaction that queues the command leaves behind.
QueuedCase == [case |-> "ACTION_QUEUED", version |-> 0, action |-> "QUEUED",
               evidence |-> 0, instrument |-> "CREATING", linked |-> FALSE,
               truth |-> "UNPAID"]

\* An update of case, action and instrument; the case's version is counted up.
Moved(r, case, action, instrument) ==
    [case |-> case, version |-> r.version + 1, action |-> action, evidence |-> r.evidence,
     instrument |-> instrument, linked |-> r.linked, truth |-> r.truth]

\* A gate decision is written to the action.
Evidenced(r) == [r EXCEPT !.evidence = @ + 1]

May(next, old, new) == new = old \/ new \in next[old]

\* Mutants of TriggersPass: evidence may be replaced, no case trigger.
TriggersPassRewrite(old, new) ==
    /\ May(CaseNext, old.case, new.case)
    /\ May(ActionNext, old.action, new.action)
    /\ May(InstrumentNext, old.instrument, new.instrument)
TriggersPassAnyCase(old, new) ==
    /\ May(ActionNext, old.action, new.action)
    /\ May(InstrumentNext, old.instrument, new.instrument)
    /\ old.evidence > 0 => new.evidence = old.evidence

\* An update of the rows survives the three triggers.  Evidence, once
\* written, may not be replaced, and another evaluation is another decision.
TriggersPass(old, new) ==
    /\ May(CaseNext, old.case, new.case)
    /\ new.version # old.version /\ new.case \in Workflow => old.truth = "UNPAID"
    /\ May(ActionNext, old.action, new.action)
    /\ May(InstrumentNext, old.instrument, new.instrument)
    /\ old.evidence > 0 => new.evidence = old.evidence

\* A transaction as the rows before it, between its updates and after it;
\* the empty sequence stands for an update whose WHERE matched no row.
Commits(images) ==
    /\ images # <<>>
    /\ \A i \in 1..(Len(images) - 1) : TriggersPass(images[i], images[i + 1])

Committed(images) == images[Len(images)]

-----------------------------------------------------------------------------
(***************************************************************************)
(* The handler.  h[w].at names the step it will take next for the current  *)
(* command: "idle", "read" (the context was loaded), "gated" (the gate     *)
(* said yes), "authorized", "sent", "lookup", "persist", "settle".         *)
(* h[w].seen is the case version it read, h[w].result what it came to.     *)
(***************************************************************************)
Dispositions == {"CREATED", "ADOPTED", "REQUEUED", "REQUERY_REQUIRED",
                 "ESCALATED", "DEAD_LETTER", "SUPPRESSED_PAID", "SUPPRESSED_POLICY"}
Stages == {"idle", "read", "gated", "authorized", "sent", "lookup", "persist", "settle"}
Handler == [at: Stages, seen: Nat,
            result: Dispositions \cup {"none", "ALLOWED", "DENIED", "SUCCEED",
                                       "RECONCILE_ONLY", "RETRY_SAME_EFFECT"}]
Idle == [at |-> "idle", seen |-> 0, result |-> "none"]

CreateInit ==
    /\ Init
    /\ db = [j \in Jobs |-> QueuedCase]
    /\ enabled = TRUE
    /\ paid = [j \in Jobs |-> FALSE]
    /\ link = [j \in Jobs |-> FALSE]
    /\ request = [j \in Jobs |-> "none"]
    /\ sent = [j \in Jobs |-> 0]
    /\ outcome = [j \in Jobs |-> "unsent"]
    /\ h = [w \in Workers |-> Idle]

At(w, c, stage) == IsCurrent(w, c) /\ h[w].at = stage

\* The version is needed until the authorization has compared it.
Goto(w, stage, result) ==
    h' = [h EXCEPT ![w] = [at |-> stage, result |-> result,
                           seen |-> IF stage = "gated" THEN h[w].seen ELSE 0]]

\* _EFFECT_ACTIONABLE_STATES of the create action.
EffectStates == {"ACTION_QUEUED", "EXECUTING", "ACTION_UNCERTAIN"}

\* execute() checks the lease, loads the intent and _LOAD_CONTEXT.
ReadContext(w, c) ==
    /\ At(w, c, "idle")
    /\ Fence(w, c)
    /\ h' = [h EXCEPT ![w] =
                [at |-> "read", seen |-> db[c.job].version,
                 result |-> IF enabled /\ db[c.job].case \in EffectStates
                            THEN "ALLOWED" ELSE "DENIED"]]
    /\ UNCHANGED <<vars, db, enabled, paid, link, request, sent, outcome>>

(***************************************************************************)
(* The fresh provider truth, the second lease check and evaluate_effect.   *)
(* A broken binding escalates, then payment truth suppresses, then any     *)
(* other reason; the reasons this model does not track (expiry, incident,  *)
(* approval, budget) may say no at any time.                               *)
(***************************************************************************)
EvaluateGate(w, c) ==
    /\ At(w, c, "read")
    /\ Fence(w, c)
    /\ \/ Goto(w, "persist", "ESCALATED")
       \/ paid[c.job] /\ Goto(w, "persist", "SUPPRESSED_PAID")
       \/ ~paid[c.job] /\ Goto(w, "persist", "SUPPRESSED_POLICY")
       \/ ~paid[c.job] /\ h[w].result = "ALLOWED" /\ Goto(w, "gated", "ALLOWED")
    /\ UNCHANGED <<vars, db, enabled, paid, link, request, sent, outcome>>

\* The rows record_effect_authorization writes for a delivery in this mode.
AuthorizationImages(r, mode) ==
    IF mode = "RECONCILE_ONLY"
    THEN IF r.case = "ACTION_UNCERTAIN" /\ r.action \in {"UNCERTAIN", "RECONCILING"}
         THEN <<r, [r EXCEPT !.action = "RECONCILING"]>> ELSE <<>>
    ELSE IF r.case = "ACTION_QUEUED" /\ r.action = "QUEUED"
         THEN <<r, Moved(Evidenced(r), "EXECUTING", "EXECUTING", r.instrument)>>
    ELSE IF r.case = "EXECUTING" /\ r.action = "EXECUTING" THEN <<r>> ELSE <<>>

\* The path is still the one the gate looked at.
PathUnchanged(w, c) ==
    LET r == db[c.job]
    IN  /\ ~r.linked /\ r.truth = "UNPAID" /\ enabled
        /\ r.version = h[w].seen
        /\ r.instrument \in {"CREATING", "UNCERTAIN"}

\* record_effect_authorization: one transaction under the delivery's fence.
Authorize(w, c) ==
    LET images == AuthorizationImages(db[c.job], c.mode)
    IN  /\ At(w, c, "gated")
        /\ Fence(w, c)
        /\ PathUnchanged(w, c)
        /\ Commits(images)
        /\ db' = [db EXCEPT ![c.job] = Committed(images)]
        /\ Goto(w, IF c.mode = "RECONCILE_ONLY" THEN "lookup" ELSE "authorized", "ALLOWED")
        /\ UNCHANGED <<vars, enabled, paid, link, request, sent, outcome>>

\* _requeue: on the last attempt the requeue is a dead letter.
Requeue(c, disposition) == IF c.attempts >= MaxAttempts THEN "DEAD_LETTER" ELSE disposition

\* validate_expiry refuses the request, or no connection was free to send it.
NotSent(w, c) ==
    /\ At(w, c, "authorized")
    /\ \/ Goto(w, "persist", "ESCALATED")
       \/ Goto(w, "persist", Requeue(c, "REQUEUED"))
    /\ UNCHANGED <<vars, db, enabled, paid, link, request, sent, outcome>>

\* create_standard_payment_link sends the POST.
SendCreate(w, c) ==
    /\ At(w, c, "authorized")
    /\ request' = [request EXCEPT ![c.job] = "open"]
    /\ sent' = [sent EXCEPT ![c.job] = @ + 1]
    /\ outcome' = [outcome EXCEPT ![c.job] = "unknown"]
    /\ Goto(w, "sent", "ALLOWED")
    /\ UNCHANGED <<vars, db, enabled, paid, link>>

\* The provider handles the request, at once or long after the caller timed
\* out.  Reference ids are unique: a second link for one is refused.
ProviderAnswers(j) ==
    /\ request[j] = "open"
    /\ \/ /\ request' = [request EXCEPT ![j] = IF link[j] THEN "duplicate" ELSE "accepted"]
          /\ link' = [link EXCEPT ![j] = TRUE]
       \/ request' = [request EXCEPT ![j] = "rejected"] /\ UNCHANGED link
    /\ UNCHANGED <<vars, db, enabled, paid, sent, outcome, h>>

\* Mutant of Answered: a timeout counts as success.
AnsweredTimeoutIsSuccess(w, c) ==
    /\ At(w, c, "sent")
    /\ Goto(w, "persist", "CREATED")
    /\ UNCHANGED <<vars, db, enabled, paid, link, request, sent, outcome>>

\* A certain answer of the provider reaches the executor.
Answered(w, c) ==
    /\ At(w, c, "sent")
    /\ \/ request[c.job] = "accepted" /\ Goto(w, "persist", "CREATED")
       \/ request[c.job] = "rejected" /\ Goto(w, "persist", Requeue(c, "REQUEUED"))
    /\ outcome' = [outcome EXCEPT ![c.job] = "known"]
    /\ UNCHANGED <<vars, db, enabled, paid, link, request, sent>>

\* A timeout, a broken response or a duplicate reference: look the link up.
Ambiguous(w, c) ==
    /\ At(w, c, "sent")
    /\ Goto(w, "lookup", "ALLOWED")
    /\ UNCHANGED <<vars, db, enabled, paid, link, request, sent, outcome>>

\* _reconcile and decide_ambiguous_create on a lookup that completed.
LookupCompletes(w, c) ==
    /\ At(w, c, "lookup")
    /\ \/ link[c.job] /\ Goto(w, "persist", "ADOPTED")
       \/ link[c.job] /\ Goto(w, "persist", "ESCALATED")
       \/ ~link[c.job] /\ Goto(w, "persist", Requeue(c, "REQUEUED"))
    /\ outcome' = [outcome EXCEPT ![c.job] = "known"]
    /\ UNCHANGED <<vars, db, enabled, paid, link, request, sent>>

\* The lookup failed or was malformed: ask again in a later delivery.
LookupIncomplete(w, c) ==
    /\ At(w, c, "lookup")
    /\ Goto(w, "persist", Requeue(c, "REQUERY_REQUIRED"))
    /\ UNCHANGED <<vars, db, enabled, paid, link, request, sent, outcome>>

-----------------------------------------------------------------------------
Collectable == {"CREATING", "UNCERTAIN"}

\* _FAIL_INSTRUMENT and _SUPPRESS_INSTRUMENT.
FailedInstrument(r) == IF r.instrument \in Collectable THEN "FAILED" ELSE r.instrument

\* CREATED and ADOPTED: instrument ISSUED then ACTIVE, action, case.
LinkedImages(r) ==
    IF ActionNext[r.action] = {} THEN <<>>
    ELSE <<r, Moved(IF r.instrument \in Collectable THEN [r EXCEPT !.linked = TRUE] ELSE r,
                    "ACTIVE", IF r.action = "EXECUTING" THEN "SUCCEEDED" ELSE "RECONCILED",
                    IF r.instrument \in Collectable THEN "ACTIVE" ELSE r.instrument)>>

\* REQUERY_REQUIRED: everything becomes uncertain.
UncertainImages(r) ==
    IF r.action = "EXECUTING" /\ r.instrument = "CREATING" /\ r.case = "EXECUTING"
    THEN <<r, Moved(r, "ACTION_UNCERTAIN", "UNCERTAIN", "UNCERTAIN")>> ELSE <<>>

\* Mutant of RequeuedImages: the instrument is not reset.
RequeuedImagesNoReset(r) ==
    IF r.action = "RECONCILING" /\ r.case = "ACTION_UNCERTAIN"
    THEN <<r, Moved(r, "ACTION_QUEUED", "QUEUED", r.instrument)>> ELSE <<>>

\* REQUEUED: back to the queue, through the states the triggers insist on.
RequeuedImages(r) ==
    IF r.action = "EXECUTING" /\ r.case = "EXECUTING"
    THEN LET mid == Moved(r, "ACTION_UNCERTAIN", "FAILED_RETRYABLE", r.instrument)
         IN  <<r, mid, Moved(mid, "ACTION_QUEUED", "QUEUED", r.instrument)>>
    ELSE IF r.action = "RECONCILING" /\ r.case = "ACTION_UNCERTAIN" /\ r.instrument = "UNCERTAIN"
         THEN <<r, Moved(r, "ACTION_QUEUED", "QUEUED", "CREATING")>> ELSE <<>>

\* ESCALATED and DEAD_LETTER.
FailedImages(r) ==
    IF r.action \in {"QUEUED", "EXECUTING", "RECONCILING"} /\ r.case \in EffectStates
    THEN <<r, Moved(r, "FAILED_SAFE",
                    IF r.action = "QUEUED" THEN "DEAD_LETTER" ELSE "FAILED_SAFE",
                    FailedInstrument(r))>>
    ELSE <<>>

\* SUPPRESSED: a queued action is cancelled with the decision as evidence,
\* an uncertain one is dead-lettered.
SuppressedImages(r, state) ==
    IF r.action = "QUEUED"
    THEN <<r, Moved(Evidenced(r), state, "CANCELLED", FailedInstrument(r))>>
    ELSE IF r.action \in {"UNCERTAIN", "RECONCILING"}
         THEN <<r, Moved(r, IF state = "SUPPRESSED_PAID" THEN state ELSE "ESCALATED",
                         "DEAD_LETTER", FailedInstrument(r))>>
    ELSE <<>>

ResultImages(r, result) ==
    CASE result \in {"CREATED", "ADOPTED"} -> LinkedImages(r)
      [] result = "REQUERY_REQUIRED" -> UncertainImages(r)
      [] result = "REQUEUED" -> RequeuedImages(r)
      [] result \in {"ESCALATED", "DEAD_LETTER"} -> FailedImages(r)
      [] OTHER -> SuppressedImages(r, result)

\* What __call__ tells the outbox worker once the result is persisted.
HandlerResult(result) ==
    CASE result \in {"CREATED", "ADOPTED", "SUPPRESSED_PAID", "SUPPRESSED_POLICY"} -> "SUCCEED"
      [] result = "REQUEUED" -> "RETRY_SAME_EFFECT"
      [] result = "REQUERY_REQUIRED" -> "RECONCILE_ONLY"
      [] OTHER -> "DEAD_LETTER"

\* Mutant of Persist: the delivery's fence is not checked.
PersistUnfenced(w, c) ==
    LET images == ResultImages(db[c.job], h[w].result)
    IN  /\ At(w, c, "persist")
        /\ Commits(images)
        /\ db' = [db EXCEPT ![c.job] = Committed(images)]
        /\ Goto(w, "settle", HandlerResult(h[w].result))
        /\ UNCHANGED <<vars, enabled, paid, link, request, sent, outcome>>

\* persist_result: one transaction under the delivery's fence.
\* When the answer to the COMMIT is lost the handler takes it for a failure.
Persist(w, c) ==
    LET images == ResultImages(db[c.job], h[w].result)
    IN  /\ At(w, c, "persist")
        /\ Fence(w, c)
        /\ Commits(images)
        /\ db' = [db EXCEPT ![c.job] = Committed(images)]
        /\ \/ Goto(w, "settle", HandlerResult(h[w].result))
           \/ Goto(w, "settle", "RECONCILE_ONLY")
        /\ UNCHANGED <<vars, enabled, paid, link, request, sent, outcome>>

(***************************************************************************)
(* The except clauses of __call__: a lease check, a lost fence, a refused  *)
(* update, an unreachable database or a failed provider read all end in a  *)
(* retry that may only reconcile.  A transaction that failed left nothing. *)
(***************************************************************************)
HandlerRaises(w, c) ==
    /\ IsCurrent(w, c)
    /\ h[w].at \in {"idle", "read", "gated", "authorized", "persist"}
    /\ Goto(w, "settle", "RECONCILE_ONLY")
    /\ UNCHANGED <<vars, db, enabled, paid, link, request, sent, outcome>>

\* Mutant of Delivered: a retry keeps the mode of this delivery.
DeliveredSameMode(w, c) ==
    \/ h[w].result = "SUCCEED" /\ Complete(w, c)
    \/ h[w].result \in RetryModes /\ Retry(w, c, c.mode)
    \/ h[w].result = "DEAD_LETTER" /\ DeadLetter(w, c)
    \/ FenceLost(w, c)

\* poll_once settles the delivery with the handler's result; retry() on the
\* last attempt is a dead letter.
Delivered(w, c) ==
    \/ h[w].result = "SUCCEED" /\ Complete(w, c)
    \/ h[w].result \in RetryModes /\ Retry(w, c, h[w].result)
    \/ /\ h[w].result = "DEAD_LETTER" \/ c.attempts >= MaxAttempts
       /\ h[w].result # "SUCCEED"
       /\ DeadLetter(w, c)
    \/ FenceLost(w, c)

SettleResult(w, c) ==
    /\ At(w, c, "settle")
    /\ Delivered(w, c)
    /\ h' = [h EXCEPT ![w] = Idle]
    /\ UNCHANGED <<db, enabled, paid, link, request, sent, outcome>>

HandlerStep(w) ==
    \E c \in batch[w] :
        \/ ReadContext(w, c) \/ EvaluateGate(w, c) \/ Authorize(w, c)
        \/ NotSent(w, c) \/ SendCreate(w, c) \/ Answered(w, c) \/ Ambiguous(w, c)
        \/ LookupCompletes(w, c) \/ LookupIncomplete(w, c)
        \/ Persist(w, c) \/ HandlerRaises(w, c) \/ SettleResult(w, c)

-----------------------------------------------------------------------------
\* The process dies, or settling raises: nothing of the handler is left.
Crash(w) ==
    /\ AbandonBatch(w)
    /\ h' = [h EXCEPT ![w] = Idle]
    /\ UNCHANGED <<db, enabled, paid, link, request, sent, outcome>>

\* The customer pays the original order after all.
CaptureOriginal(j) ==
    /\ ~paid[j]
    /\ paid' = [paid EXCEPT ![j] = TRUE]
    /\ UNCHANGED <<vars, db, enabled, link, request, sent, outcome, h>>

\* The terminal event projector applies payment.captured: the order becomes
\* PAID and an open case SUPPRESSED_PAID; action and instrument stay.
ProjectCapture(j) ==
    /\ job[j].status # "ABSENT"
    /\ paid[j]
    /\ db[j].truth = "UNPAID"
    /\ LET r == [db[j] EXCEPT !.truth = "PAID"]
       IN  db' = [db EXCEPT ![j] =
                    IF r.case \in Workflow
                    THEN Moved(r, "SUPPRESSED_PAID", r.action, r.instrument) ELSE r]
    /\ UNCHANGED <<vars, enabled, paid, link, request, sent, outcome, h>>

\* An operator pulls or releases the kill switch.
SwitchEffects ==
    /\ enabled' = ~enabled
    /\ UNCHANGED <<vars, db, paid, link, request, sent, outcome, h>>

CreateNext ==
    \/ \E j \in Jobs : Enqueue(j) /\ UNCHANGED effectVars
    \/ \E w \in Workers :
        \/ Poll(w) /\ UNCHANGED effectVars
        \/ HandlerStep(w)
        \/ Crash(w)
    \/ \E j \in Jobs : ProviderAnswers(j) \/ CaptureOriginal(j) \/ ProjectCapture(j)
    \/ SwitchEffects
    \/ Tick /\ UNCHANGED effectVars

CreateSpec == CreateInit /\ [][CreateNext]_allVars

\* As for Outbox: workers poll and handlers take their steps.  HTTP calls
\* have timeouts, so a handler never waits for the provider.
CreateFairness ==
    /\ \A w \in Workers :
        /\ WF_allVars(Poll(w) /\ UNCHANGED effectVars)
        /\ WF_allVars(HandlerStep(w))
    /\ WF_allVars(Tick /\ UNCHANGED effectVars)

CreateFairSpec == CreateSpec /\ CreateFairness

-----------------------------------------------------------------------------
\* Types; the effect-gate evidence of an action is written at most once.
CreateTypeOK ==
    /\ db \in [Jobs -> CaseRow]
    /\ enabled \in BOOLEAN
    /\ paid \in [Jobs -> BOOLEAN]
    /\ link \in [Jobs -> BOOLEAN]
    /\ request \in [Jobs -> {"none", "open", "accepted", "rejected", "duplicate"}]
    /\ sent \in [Jobs -> Nat]
    /\ outcome \in [Jobs -> {"unsent", "unknown", "known"}]
    /\ h \in [Workers -> Handler]

(***************************************************************************)
(* A create request is never sent while an earlier one may have taken      *)
(* effect unnoticed: not after a crash, a lost lease, a lost response, a   *)
(* failed transaction or a concurrent delivery.                            *)
(***************************************************************************)
NoBlindRepeat ==
    [][\A j \in Jobs : sent'[j] # sent[j] => outcome[j] # "unknown"]_allVars

\* The case's state determines what its action and its instrument may be.
Agree(r) ==
    /\ r.case = "ACTION_QUEUED" => r.action = "QUEUED" /\ r.instrument = "CREATING"
    /\ r.case = "EXECUTING" => r.action = "EXECUTING" /\ r.instrument = "CREATING"
    /\ r.case = "ACTION_UNCERTAIN" =>
            r.action \in {"UNCERTAIN", "RECONCILING"} /\ r.instrument = "UNCERTAIN"
    /\ r.case \in {"SUPPRESSED_POLICY", "ESCALATED", "FAILED_SAFE"} =>
            r.instrument = "FAILED" /\ ActionNext[r.action] = {}
    /\ r.case = "ACTIVE" => r.linked /\ r.truth = "UNPAID"
    /\ r.linked <=> r.action \in {"SUCCEEDED", "RECONCILED"}
    /\ r.linked <=> r.instrument = "ACTIVE"

(***************************************************************************)
(* The three tables tell one story at every commit: case, action and       *)
(* instrument agree, and a link id is recorded exactly when the action     *)
(* ended well and the instrument collects.                                 *)
(***************************************************************************)
RowsAgree == \A j \in Jobs : Agree(db[j])

(***************************************************************************)
(* A link the database says is collecting exists at the provider, and a    *)
(* worker sent or found it after the gate's evidence had been committed.   *)
(***************************************************************************)
RecordedLinkIsReal ==
    \A j \in Jobs : db[j].linked => link[j] /\ sent[j] > 0 /\ db[j].evidence > 0

(***************************************************************************)
(* Once the job is settled its action and instrument are final: no worker  *)
(* that was still busy with an older delivery can write them any more.     *)
(***************************************************************************)
SettledWorkIsFinal ==
    [][\A j \in Jobs : job[j].status \in Terminal =>
            /\ db'[j].action = db[j].action
            /\ db'[j].instrument = db[j].instrument
            /\ db'[j].linked = db[j].linked]_allVars

(***************************************************************************)
(* docs/state-machine.md: "Collection-terminal states are monotonic."      *)
(* However a result and a capture race, a suppressed, failed or escalated  *)
(* case never returns to a state in which money is collected.              *)
(***************************************************************************)
CollectionTerminalMonotonic ==
    [][\A j \in Jobs : db[j].case \notin Workflow => db'[j].case \notin Workflow]_allVars

\* Seen from the outbox the handler is one of its clients: every step of
\* this module is a step of Outbox or leaves it alone.
ImplementsOutbox == Spec

(***************************************************************************)
(* docs/production-runbook.md: "A reclaimed lease must reconcile before it *)
(* may repeat any write."  A RECONCILE_ONLY delivery that finds a create   *)
(* of unknown outcome, an open gate and an unchanged path is let through   *)
(* to the lookup.                                                          *)
(***************************************************************************)
RedeliveryReconciles ==
    \A w \in Workers : \A c \in batch[w] :
        /\ At(w, c, "gated") /\ Fence(w, c) /\ PathUnchanged(w, c)
        /\ c.mode = "RECONCILE_ONLY"
        /\ outcome[c.job] = "unknown"
        => Commits(AuthorizationImages(db[c.job], c.mode))

(***************************************************************************)
(* docs/state-machine.md: "ACTION_UNCERTAIN --> ACTION_QUEUED: lookup      *)
(* proves no link exists", and from ACTION_QUEUED the only way on is       *)
(* EXECUTING.  A RETRY_SAME_EFFECT delivery with an open gate and an       *)
(* unchanged path is let through to repeat the create.                     *)
(***************************************************************************)
SameEffectRetryProceeds ==
    \A w \in Workers : \A c \in batch[w] :
        /\ At(w, c, "gated") /\ Fence(w, c) /\ PathUnchanged(w, c)
        /\ c.mode = "RETRY_SAME_EFFECT"
        => Commits(AuthorizationImages(db[c.job], c.mode))

\* The rows _SELECT_DUE of the cancellation scheduler can pick up.
Cancellable(r) ==
    r.case = "SUPPRESSED_PAID" /\ r.linked /\ r.instrument \in {"UNCERTAIN", "ACTIVE"}

(***************************************************************************)
(* docs/architecture.md: "an obsolete collectable link is scheduled for    *)
(* fenced cancellation".  When the original payment suppressed the case    *)
(* and the job is settled, a link at the provider is one the cancellation  *)
(* scheduler can find.                                                     *)
(***************************************************************************)
ObsoleteLinkCancellable ==
    \A j \in Jobs :
        job[j].status \in Terminal /\ db[j].case = "SUPPRESSED_PAID" /\ link[j]
            => Cancellable(db[j])
=============================================================================
