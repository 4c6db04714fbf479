----------------------------- MODULE Assessment -----------------------------
(***************************************************************************)
(* From an elapsed observation window to a durable intent.                 *)
(*                                                                         *)
(*   control_plane/assessment_worker.py   scheduling and the handler       *)
(*   control_plane/assessment_intent.py   fresh reads, plan, commit        *)
(*   control_plane/approval_request.py    what the operator asks for       *)
(*   control_plane/approval_worker.py, approval_service.py                 *)
(*                                        what an approval turns into      *)
(*                                                                         *)
(* One recovery case with one failed payment.  Both handlers read the      *)
(* database, then the provider and the method's health without holding a   *)
(* transaction, and commit on what they read.  Neither commit is fenced by *)
(* the lease: a worker whose lease ran out goes on, next to the worker the *)
(* job is delivered to again.                                              *)
(***************************************************************************)
EXTENDS LeasedDelivery, Integers, FiniteSets

CONSTANTS
    Operators,
    MaxVersion,        \* bound on the case's version
    MaxChanges,        \* bound on rewritten rows and changed controls
    MaxInterruptions,  \* bound on crashes, failed reads and lapsed leases
    None

AssessJob(v) == <<"assess", v>>
ApproveJob == <<"approve", 0>>

ASSUME AssessmentJobs ==
    Jobs = {AssessJob(v) : v \in 0..MaxVersion} \cup {ApproveJob}

ASSUME AssessmentBounds ==
    /\ MaxVersion \in Nat \ {0} /\ MaxChanges \in Nat /\ MaxInterruptions \in Nat
    /\ NoWorker \notin Workers

VARIABLES
    payment,   \* the payment at the provider
    merchant,  \* merchants and provider_accounts: active, kill switch
    rows,      \* logical_orders and provider_payments
    case,      \* recovery_cases
    due,       \* the deadline of the case's state has passed
    decision,  \* decisions by aggregate_version
    approval,  \* the case's approval and whether its expires_at has passed
    asked,     \* what the provider held when an operator approved
    actions,   \* actions of the case, each with its instrument and its job
    lock,      \* the worker holding the case's row lock over several steps
    h,         \* h[w]: worker w's handler
    changes, interruptions

control == <<merchant, rows, changes>>
db == <<case, due, decision, approval, asked, actions>>
assessVars == <<vars, payment, control, db, lock, h, interruptions>>

Assessable == {"OBSERVING", "WAITING"}
Open == Assessable \cup {"APPROVAL_REQUIRED", "ACTION_QUEUED"}
Refusals == {"REJECTED", "EXPIRED", "CANCELLED"}

\* Where a plan takes the case; what a reviewed one makes of the approval.
Plans == Open \cup {"SUPPRESSED_PAID", "SUPPRESSED_POLICY"}
Verdicts == {"APPROVED", "EXPIRED", "CANCELLED"}

NoSnap == [rows |-> 0, truth |-> "UNPAID", version |-> 0, kill |-> FALSE, active |-> FALSE]
Idle == [at |-> "idle", job |-> ApproveJob, snap |-> NoSnap, plan |-> "none", to |-> "ready"]

\* The approval's transaction: rows locked, action inserted, case queued.
InTransaction == {"locked", "inserted", "queued"}

\* What a worker holds of a job: the step it is at, the rows as it read them,
\* the plan it made and what it will tell the outbox.
Handler == [at: {"idle", "loaded", "ready", "settle"} \cup InTransaction, job: Jobs,
            snap: [rows: 0..MaxChanges, truth: {"UNPAID", "PAID"},
                   version: 0..MaxVersion, kill: BOOLEAN, active: BOOLEAN],
            plan: Plans \cup Verdicts \cup {"none"},
            to: {"ready", "done", "dead"}]

AssessmentTypeOK ==
    /\ phase \in [Jobs -> {"absent", "ready", "held", "done", "dead"}]
    /\ holder \in [Jobs -> Workers \cup {NoWorker}]
    /\ payment \in {"failed", "authorized", "captured"}
    /\ merchant \in [active: BOOLEAN, kill: BOOLEAN]
    /\ rows \in [truth: {"UNPAID", "PAID"}, failed: BOOLEAN, version: 0..MaxChanges]
    /\ case \in [state: Plans, version: 0..MaxVersion]
    /\ due \in BOOLEAN
    /\ decision \in [0..MaxVersion -> {"NONE", "ALLOWED", "REVIEW", "BLOCKED"}]
    /\ approval \in [verdict: {"NONE", "PENDING", "APPROVED"} \cup Refusals,
                     version: 0..MaxVersion, lapsed: BOOLEAN, by: Operators \cup {None}]
    /\ asked \in {"none", "failed", "authorized", "captured"}
    /\ actions \subseteq [version: 0..MaxVersion, reviewed: BOOLEAN]
    /\ lock \in Workers \cup {NoWorker}
    /\ h \in [Workers -> Handler]
    /\ changes \in 0..MaxChanges /\ interruptions \in 0..MaxInterruptions

\* A mapped, failed payment of an unpaid order; its case was just opened.
AssessmentInit ==
    /\ Init
    /\ payment = "failed"
    /\ merchant = [active |-> TRUE, kill |-> FALSE]
    /\ rows = [truth |-> "UNPAID", failed |-> TRUE, version |-> 0]
    /\ case = [state |-> "OBSERVING", version |-> 0] /\ due = FALSE
    /\ decision = [v \in 0..MaxVersion |-> "NONE"]
    /\ approval = [verdict |-> "NONE", version |-> 0, lapsed |-> FALSE, by |-> None]
    /\ asked = "none" /\ actions = {} /\ lock = NoWorker
    /\ h = [w \in Workers |-> Idle]
    /\ changes = 0 /\ interruptions = 0

-----------------------------------------------------------------------------
(* What happens around the handlers.                                       *)

PaymentProgresses ==
    /\ payment # "captured"
    /\ payment' = IF payment = "failed" THEN "authorized" ELSE "captured"
    /\ UNCHANGED <<vars, control, db, lock, h, interruptions>>

\* The observation window, the incident wait or the approval runs out.
TimePasses ==
    /\ \/ /\ case.state \in Assessable /\ ~due
          /\ due' = TRUE /\ UNCHANGED approval
       \/ /\ approval.verdict = "PENDING" /\ ~approval.lapsed
          /\ approval' = [approval EXCEPT !.lapsed = TRUE] /\ UNCHANGED due
    /\ UNCHANGED <<vars, payment, control, case, decision, asked, actions, lock, h, interruptions>>

\* An operator pauses the merchant or pulls its kill switch, or takes it back.
ControlsChange(field) ==
    /\ changes < MaxChanges
    /\ merchant' = [merchant EXCEPT ![field] = ~@]
    /\ changes' = changes + 1
    /\ UNCHANGED <<vars, payment, rows, db, lock, h, interruptions>>

\* Enrichment rewrites order and payment; it takes no lock on the case.
RowsEnriched ==
    /\ changes < MaxChanges
    /\ rows' = [truth |-> IF payment = "captured" THEN "PAID" ELSE rows.truth,
                failed |-> rows.failed /\ payment = "failed", version |-> rows.version + 1]
    /\ changes' = changes + 1
    /\ UNCHANGED <<vars, payment, merchant, db, lock, h, interruptions>>

\* The terminal event projector locks the case too.
CaptureProjected ==
    /\ payment = "captured" /\ lock = NoWorker /\ changes < MaxChanges
    /\ rows' = [truth |-> "PAID", failed |-> FALSE, version |-> rows.version + 1]
    /\ case' = IF case.state \in Open
               THEN [state |-> "SUPPRESSED_PAID", version |-> case.version + 1] ELSE case
    /\ changes' = changes + 1
    /\ UNCHANGED <<vars, payment, merchant, due, decision, approval, asked, actions, lock, h,
                   interruptions>>

-----------------------------------------------------------------------------
(* Scheduling.                                                             *)

\* Mutant: one assessment command per case.
CommandOncePerCase(v) == AssessJob(0)

\* The command of a case version, under its idempotency key.
Command(v) == AssessJob(v)

\* _SELECT_DUE
DueForAssessment == case.state \in Assessable /\ due /\ rows.failed

\* schedule_due; ON CONFLICT DO NOTHING when the key is taken.
Schedule ==
    /\ lock = NoWorker   \* SKIP LOCKED
    /\ DueForAssessment
    /\ Submit(Command(case.version))
    /\ UNCHANGED <<payment, control, db, lock, h, interruptions>>

-----------------------------------------------------------------------------
(* The two handlers.                                                       *)

At(w, at) == h[w].at = at

Working(w, rec) == h' = [h EXCEPT ![w] = rec]

\* The handler is through with a job and reports how it went.
Settling(job, to) ==
    [at |-> "settle", job |-> job, snap |-> NoSnap, plan |-> "none", to |-> to]

Result(w, to) == Working(w, Settling(h[w].job, to))

Snapshot == [rows |-> rows.version, truth |-> rows.truth, version |-> case.version,
             kill |-> merchant.kill, active |-> merchant.active]

\* RecoveryCaseAssessmentState with assert_command_binding.
CaseEligible(v) == case.state \in Assessable /\ case.version = v

\* LogicalOrderAssessmentState and ProviderPaymentAssessmentState.
RowsEligible == rows.truth = "UNPAID" /\ rows.failed

\* _snapshot_from_row: what a snapshot must be to enter an assessment.
Eligible(v) == merchant.active /\ CaseEligible(v) /\ RowsEligible

\* The WHERE clause of _LOAD_PENDING and _LOCK_PENDING.
Pending == approval.verdict = "PENDING" /\ case.state = "APPROVAL_REQUIRED"

Claim(w, job, rec) ==
    /\ At(w, "idle")
    /\ Take(w, {job}, {})
    /\ Working(w, rec)
    /\ UNCHANGED <<payment, control, db, lock, interruptions>>

\* load_candidate, act's first _load.
Load(w, job) ==
    /\ IF job = ApproveJob THEN Pending ELSE Eligible(job[2])
    /\ Claim(w, job, [at |-> "loaded", job |-> job, snap |-> Snapshot, plan |-> "none", to |-> "ready"])

\* AssessmentNotEligibleError is dead-lettered; an approval that is final is
\* done, one that cannot be acted on is dead-lettered.
LoadRefused(w, job) ==
    /\ IF job = ApproveJob THEN ~Pending ELSE ~Eligible(job[2])
    /\ Claim(w, job, Settling(job, IF job = ApproveJob /\ approval.verdict # "PENDING"
                                   THEN "done" ELSE "dead"))

\* Mutant: the order's projected truth stands in for the provider's.
ProjectedTruth == IF rows.truth = "UNPAID" THEN "failed" ELSE "captured"

\* fetch_fresh_payment_truth
FreshTruth == payment

\* Why the policy stage of the gate refuses.  Method health is read right after
\* the payment; the answers may be too old once they are evaluated.
HardReasons(truth, snap, sick, stale) ==
    {r \in {"PAYMENT_TRUTH_NOT_UNPAID", "PAYMENT_METHOD_UNHEALTHY", "KILL_SWITCH_ACTIVE",
            "EFFECTS_DISABLED", "SNAPSHOT_STALE", "ACTIVE_INSTRUMENT_EXISTS"} :
        CASE r = "PAYMENT_TRUTH_NOT_UNPAID" -> truth # "failed"
          [] r = "PAYMENT_METHOD_UNHEALTHY" -> sick
          [] r = "KILL_SWITCH_ACTIVE" -> snap.kill
          [] r = "EFFECTS_DISABLED" -> ~snap.active
          [] r = "SNAPSHOT_STALE" -> stale
          [] r = "ACTIVE_INSTRUMENT_EXISTS" -> actions # {}}

\* Mutant: a plan that found no permitted action exhausts the case.
SuppressedExhausted(truth) == IF truth = "captured" THEN "SUPPRESSED_PAID" ELSE "EXHAUSTED"

Suppressed(truth) == IF truth = "captured" THEN "SUPPRESSED_PAID" ELSE "SUPPRESSED_POLICY"

\* plan, with the disposition and the case state _persist_blocked derives from
\* a blocked plan.
Plan(truth, diagnosis, reasons) ==
    IF truth # "failed" \/ diagnosis = "other" THEN Suppressed(truth)
    ELSE IF "PAYMENT_METHOD_UNHEALTHY" \in reasons THEN "WAITING"
    ELSE IF reasons # {} THEN Suppressed(truth)
    ELSE IF diagnosis = "review" THEN "APPROVAL_REQUIRED" ELSE "ACTION_QUEUED"

\* diagnose: a failure class a link is eligible for, one with an abstention or a
\* probability that asks for a review, or any other class.
Diagnoses == {"link", "review", "other"}

Planned(w, plan) ==
    [at |-> "ready", job |-> h[w].job, snap |-> h[w].snap, plan |-> plan, to |-> h[w].to]

(***************************************************************************)
(* The fresh reads and the diagnosis, outside any transaction.  What they  *)
(* lead to is computed under the lock, but from these answers and from a   *)
(* snapshot the commit requires to be unchanged: so it is computed here.   *)
(***************************************************************************)
FetchForAssessment(w) ==
    /\ At(w, "loaded") /\ h[w].job # ApproveJob
    /\ \E sick, stale \in BOOLEAN, diagnosis \in Diagnoses :
          LET reasons == HardReasons(FreshTruth, h[w].snap, sick, stale)
          IN  Working(w, Planned(w, Plan(FreshTruth, diagnosis, reasons)))
    /\ UNCHANGED <<vars, payment, control, db, lock, interruptions>>

\* The same reads for an approval: an expired one is closed as such, one the
\* gate no longer allows is cancelled.
FetchForApproval(w) ==
    /\ At(w, "loaded") /\ h[w].job = ApproveJob
    /\ \E sick, stale \in BOOLEAN :
          LET reasons == HardReasons(FreshTruth, h[w].snap, sick, stale)
          IN  Working(w, Planned(w, IF approval.lapsed THEN "EXPIRED"
                                    ELSE IF reasons # {} THEN "CANCELLED" ELSE "APPROVED"))
    /\ UNCHANGED <<vars, payment, control, db, lock, interruptions>>

-----------------------------------------------------------------------------
(* _commit_plan: case locked for update, the other rows shared.            *)

\* Mutant: the locked snapshot is not compared with the one read before.
StandsAnyway(w) == TRUE

Stands(w) == Eligible(h[w].job[2]) /\ Snapshot = h[w].snap

\* The locked row can no longer be assessed, or it changed since it was read.
CommitRefused(w) ==
    /\ At(w, "ready") /\ h[w].job # ApproveJob /\ lock = NoWorker
    /\ ~Stands(w)
    /\ Result(w, IF Eligible(h[w].job[2]) THEN "ready" ELSE "dead")
    /\ UNCHANGED <<vars, payment, control, db, lock, interruptions>>

\* What the decision row of a plan says.
DecisionOf(plan) ==
    CASE plan = "ACTION_QUEUED" -> "ALLOWED"
      [] plan = "APPROVAL_REQUIRED" -> "REVIEW"
      [] OTHER -> "BLOCKED"

\* _persist_authorized: an action of the decision's version, its instrument and
\* its job.
PersistAuthorized(v) ==
    /\ actions' = actions \cup {[version |-> v + 1, reviewed |-> FALSE]}
    /\ UNCHANGED approval

\* _persist_blocked: an approval to ask for, or nothing but the decision.
PersistBlocked(v, plan) ==
    /\ approval' = IF plan = "APPROVAL_REQUIRED"
                   THEN [verdict |-> "PENDING", version |-> v + 1, lapsed |-> FALSE, by |-> None]
                   ELSE approval
    /\ UNCHANGED actions

\* _START_ASSESSMENT and the final case update, two versions on, around the
\* decision and what follows from it.
Persist(v, plan) ==
    /\ v + 4 <= MaxVersion   \* the verdict and the capture still to come
    /\ case' = [state |-> plan, version |-> v + 2]
    /\ due' = FALSE
    /\ decision' = [decision EXCEPT ![v + 1] = DecisionOf(plan)]
    /\ IF plan = "ACTION_QUEUED" THEN PersistAuthorized(v) ELSE PersistBlocked(v, plan)

CommitPlan(w) ==
    /\ At(w, "ready") /\ h[w].job # ApproveJob /\ lock = NoWorker
    /\ Stands(w)
    /\ Persist(h[w].job[2], h[w].plan)
    /\ Result(w, "done")
    /\ UNCHANGED <<vars, payment, control, asked, lock, interruptions>>

-----------------------------------------------------------------------------
(* Approvals.                                                              *)

CloseCase(verdict, by) ==
    /\ approval' = [verdict |-> verdict, version |-> approval.version,
                    lapsed |-> approval.lapsed, by |-> by]
    /\ case' = [state |-> "SUPPRESSED_POLICY", version |-> case.version + 1]

\* PostgresApprovalRequestService.act, the branches that write.
Request(o, verdict) ==
    /\ lock = NoWorker /\ Pending
    /\ \/ /\ approval.lapsed /\ CloseCase("EXPIRED", None)
          /\ UNCHANGED <<vars, asked>>
       \/ /\ ~approval.lapsed /\ verdict = "REJECTED" /\ phase[ApproveJob] = "absent"
          /\ CloseCase("REJECTED", o)
          /\ UNCHANGED <<vars, asked>>
       \/ /\ ~approval.lapsed /\ verdict = "APPROVED" /\ Submit(ApproveJob)
          /\ approval' = [approval EXCEPT !.by = o]
          /\ asked' = payment
          /\ UNCHANGED case
    /\ UNCHANGED <<payment, control, due, decision, actions, lock, h, interruptions>>

\* Mutant: the approval is not looked at again once the provider answered.
StillPendingAnyway(w) == TRUE

\* _LOCK_PENDING finds what _LOAD_PENDING found (_same_binding).
StillPending(w) == Pending /\ [Snapshot EXCEPT !.rows = h[w].snap.rows] = h[w].snap

\* ApprovalNotFound or ApprovalConflict, then the completion probe.
LockRefused(w) ==
    /\ At(w, "ready") /\ h[w].job = ApproveJob /\ lock = NoWorker
    /\ ~StillPending(w)
    /\ Result(w, IF approval.verdict # "PENDING" THEN "done" ELSE "dead")
    /\ UNCHANGED <<vars, payment, control, db, lock, interruptions>>

LockApproval(w) ==
    /\ At(w, "ready") /\ h[w].job = ApproveJob /\ lock = NoWorker
    /\ StillPending(w)
    /\ lock' = w
    /\ Working(w, [h[w] EXCEPT !.at = "locked"])
    /\ UNCHANGED <<vars, payment, control, db, interruptions>>

\* Mutant: the action is inserted whenever its transaction gets to it.
ValidAnyTime == TRUE

\* enforce_action_lifecycle: an action with an approval needs one that has not
\* expired by the clock.
ApprovalIsValid == ~approval.lapsed

\* enforce_recovery_case_lifecycle: an active workflow needs an unpaid order.
OrderIsUnpaid == rows.truth = "UNPAID"

Writing(w, at) ==
    /\ Working(w, [h[w] EXCEPT !.at = at])
    /\ UNCHANGED <<vars, payment, control, db, lock, interruptions>>

\* _APPROVE, _INSERT_ACTION and _INSERT_INSTRUMENT; nobody sees them yet.
InsertAction(w) ==
    /\ At(w, "locked") /\ h[w].plan = "APPROVED"
    /\ ApprovalIsValid
    /\ Writing(w, "inserted")

\* _QUEUE_ACTION, _QUEUE_CASE and _INSERT_OUTBOX.  The order's row is read and not
\* locked: it may be paid by the time of the COMMIT.
QueueCase(w) ==
    /\ At(w, "inserted")
    /\ OrderIsUnpaid
    /\ Writing(w, "queued")

CommitApproval(w) ==
    /\ At(w, "queued")
    /\ approval' = [approval EXCEPT !.verdict = "APPROVED"]
    /\ actions' = actions \cup {[version |-> approval.version, reviewed |-> TRUE]}
    /\ case' = [state |-> "ACTION_QUEUED", version |-> case.version + 1]
    /\ lock' = NoWorker
    /\ Result(w, "done")
    /\ UNCHANGED <<vars, payment, control, due, decision, asked, interruptions>>

\* A trigger refuses: everything is rolled back and tried again later.
CommitRejected(w) ==
    /\ \/ At(w, "locked") /\ h[w].plan = "APPROVED" /\ ~ApprovalIsValid
       \/ At(w, "inserted") /\ ~OrderIsUnpaid
    /\ lock' = NoWorker
    /\ Result(w, "ready")
    /\ UNCHANGED <<vars, payment, control, db, interruptions>>

\* _cancel
CommitCancellation(w) ==
    /\ At(w, "locked") /\ h[w].plan # "APPROVED"
    /\ CloseCase(h[w].plan, approval.by)
    /\ lock' = NoWorker
    /\ Result(w, "done")
    /\ UNCHANGED <<vars, payment, control, due, decision, asked, actions, interruptions>>

-----------------------------------------------------------------------------
(* Delivery.                                                               *)

\* The outbox listens to the holder of the lease only.
Settle(w) ==
    /\ At(w, "settle")
    /\ IF phase[h[w].job] = "held" /\ holder[h[w].job] = w
       THEN Release(w, h[w].job, h[w].to) ELSE UNCHANGED vars
    /\ Working(w, Idle)
    /\ UNCHANGED <<payment, control, db, lock, interruptions>>

Unlock(w) == lock' = IF lock = w THEN NoWorker ELSE lock

\* The process dies, or a read or a transaction fails.
Interrupted(w) ==
    /\ ~At(w, "idle") /\ interruptions < MaxInterruptions
    /\ IF phase[h[w].job] = "held" /\ holder[h[w].job] = w
       THEN Expire({h[w].job}) ELSE UNCHANGED vars
    /\ Working(w, Idle) /\ Unlock(w)
    /\ interruptions' = interruptions + 1
    /\ UNCHANGED <<payment, control, db>>

\* The lease runs out under a worker that does not notice.
LeaseLapses(w) ==
    /\ ~At(w, "idle") /\ interruptions < MaxInterruptions
    /\ phase[h[w].job] = "held" /\ holder[h[w].job] = w
    /\ Expire({h[w].job})
    /\ interruptions' = interruptions + 1
    /\ UNCHANGED <<payment, control, db, lock, h>>

Handle(w) ==
    \/ \E job \in Jobs : Load(w, job) \/ LoadRefused(w, job)
    \/ FetchForAssessment(w) \/ FetchForApproval(w)
    \/ CommitRefused(w) \/ CommitPlan(w)
    \/ LockRefused(w) \/ LockApproval(w)
    \/ InsertAction(w) \/ QueueCase(w) \/ CommitApproval(w)
    \/ CommitRejected(w) \/ CommitCancellation(w)
    \/ Settle(w)

Environment ==
    \/ PaymentProgresses \/ TimePasses
    \/ RowsEnriched \/ CaptureProjected
    \/ \E field \in {"active", "kill"} : ControlsChange(field)
    \/ \E o \in Operators, verdict \in {"APPROVED", "REJECTED"} : Request(o, verdict)

AssessmentNext ==
    \/ Environment \/ Schedule
    \/ \E w \in Workers : Handle(w) \/ Interrupted(w) \/ LeaseLapses(w)

\* The worker loop polls the scheduler and the outbox for as long as it runs,
\* and a handler that was started goes on unless its process dies.
AssessmentSpec ==
    /\ AssessmentInit /\ [][AssessmentNext]_assessVars
    /\ WF_assessVars(Schedule)
    /\ \A w \in Workers : WF_assessVars(Handle(w))

-----------------------------------------------------------------------------
(***************************************************************************)
(* A case gets one intent at most, however often and by however many       *)
(* workers its commands are executed, and that intent is the one its       *)
(* recorded decision allows: at once, or reviewed and approved.            *)
(***************************************************************************)
IntentIsAuthorized ==
    /\ Cardinality(actions) <= 1
    /\ \A a \in actions :
          \/ ~a.reviewed /\ decision[a.version] = "ALLOWED"
          \/ /\ a.reviewed /\ decision[a.version] = "REVIEW"
             /\ approval.verdict = "APPROVED" /\ approval.version = a.version

(***************************************************************************)
(* A final verdict and the case agree: an approval ends with its action    *)
(* queued, or refused with the case closed and nothing ever queued.        *)
(***************************************************************************)
VerdictIsCarriedOut ==
    /\ approval.verdict = "APPROVED" => \E a \in actions : a.reviewed
    /\ approval.verdict \in Refusals => actions = {} /\ case.state = "SUPPRESSED_POLICY"

(***************************************************************************)
(* The provider is asked again after the operator: when the payment had    *)
(* gone through before the approval was given, nothing is queued for it.   *)
(***************************************************************************)
PaymentBeatsApproval ==
    asked \in {"authorized", "captured"} => \A a \in actions : ~a.reviewed

\* The order is known to be paid, nothing is queued for it, and no transaction has
\* passed the trigger that looks at the order.
PaidFirst ==
    /\ rows.truth = "PAID" /\ actions = {}
    /\ \A w \in Workers : ~At(w, "queued")

\* The approval has expired, and its action is neither there nor past the trigger
\* that looks at the approval.
LapsedFirst ==
    /\ approval.lapsed /\ \A a \in actions : ~a.reviewed
    /\ \A w \in Workers : h[w].at \notin {"inserted", "queued"}

(***************************************************************************)
(* Once the order is known to be paid no action is ever queued, and once   *)
(* the approval has expired none that needs it, whatever the handlers have *)
(* read, planned and locked by then: only a transaction that has passed    *)
(* the trigger in question may still commit.                               *)
(***************************************************************************)
ApprovedInTime ==
    [][/\ PaidFirst => PaidFirst'
       /\ LapsedFirst => LapsedFirst']_assessVars

(***************************************************************************)
(* A case that is due is assessed or closed, also when it was assessed     *)
(* before, unless its assessment was dead-lettered or its payment is no    *)
(* longer failed.                                                          *)
(***************************************************************************)
DueCaseIsAssessed ==
    case.state \in Assessable /\ due /\ case.version <= MaxVersion - 4
    ~> ~due \/ case.state \notin Assessable
       \/ phase[AssessJob(case.version)] = "dead" \/ ~rows.failed
=============================================================================
