# TLA+ models of RetryWise

RetryWise recovers failed payments: a signed webhook reports that a payment
failed, the control plane decides whether and how to recover it, and a worker
creates a payment link at Razorpay (test mode) so that the customer can pay
again. Everything that touches money goes through a durable outbox in
PostgreSQL. This directory models that core, checks it with TLC and proves
theorems about it with TLAPS.

## The system

| Component | State | Operations | Interacts with |
|---|---|---|---|
| webhook ingress, inbox (`webhook_ingress.py`, `postgres_inbox.py`) | `provider_events`, `inbox_events` | verify, `store_once` | inserts an outbox job in the same transaction |
| durable outbox (`postgres_outbox.py`, migration 002) | `outbox_jobs`: status, attempts, lease, delivery version, retry mode | `claim_batch`, `complete`, `retry`, `dead_letter` | all handlers |
| worker (`outbox_worker.py`, `worker_runtime.py`) | the claimed batch in memory | `poll_once`, the `run` loop | outbox, handlers, schedulers |
| normalized projector, enrichment | `provider_payments`, `logical_orders`, `recovery_cases` | open a case, enrich it | outbox |
| assessment (`assessment_intent.py`, `assessment_worker.py`) | decisions, planned actions and instruments | schedule, assess, queue the create command | gate, diagnosis, outbox |
| approval (`approval_*.py`) | `approvals` | request, decide, materialize | operators, outbox |
| create effect (`create_effect_worker.py`, `executor.py`, `packages/domain/gate.py`) | case, action and instrument rows | load, gate, authorize, POST, look up, persist | provider, outbox fence, triggers |
| terminal projector (`terminal_event_projector.py`) | order truth, case, instrument amounts | project captured payments and paid links | races with the create effect |
| cancellation (`cancellation.py`, `cancellation_worker.py`) | cancel action, instrument | schedule, authorize, cancel, reconcile | provider, outbox fence |
| audit chain (`postgres_audit.py`, `packages/domain/ledger.py`) | hash-linked entries | append, verify | the transactions that append to it |
| incidents, diagnosis, merchant controls, heartbeat | detector state, circuit breaker, kill switch | evaluate, route, set, beat | the gate |
| recovery aggregate (`packages/domain/aggregate.py`) | one case in memory | one method per command | domain tests, simulator |
| operator API, console, simulator | none of their own, or offline | queries | |

What is hard here. A handler is a chain of separate transactions and provider
calls; a lease lasts 30 seconds, covers a batch of up to 25 commands run one
after the other and is never renewed; so two workers may work on one job at the
same time, any worker may die between two steps, an HTTP answer may be lost
although the request took effect, and meanwhile the customer may pay the
original order and an operator may pull the kill switch. Correct means: money
is not asked for twice, a job is never lost, a late worker changes nothing, and
the tables tell one story. The hazards, each at its line and with the property
that covers it, are listed in `PROJECT.json`.

## Modules

    LeasedDelivery  what the outbox promises (abstract)
      |-- implemented by Outbox        outbox and polling worker
      |                    |-- extended by CreateEffect      create a payment link
      |                    |-- extended by Cancellation      withdraw a payment link
      |                    `-- OutboxProofs -- CreateEffectProofs, CancellationProofs
      |-- extended by EventProjection  webhook, inbox, projectors, enrichment
      |                    `-- EventProjectionProofs
      `-- extended by Assessment       assessment and approval
                           `-- AssessmentProofs

    RecoveryAggregate   the pure aggregate and its gate -- RecoveryAggregateProofs
    Audit               the audit chain                 -- AuditProofs

    MC*                 instances of the above for TLC

`CreateEffect` and `Cancellation` depend on delivery versions and modes, so they
are built on `Outbox` itself. `EventProjection` and `Assessment` only need what
any leased delivery gives them, so they use the abstract specification, which
`OutboxImplementsLeasedDelivery` justifies.

**`LeasedDelivery`** has a phase and a holder per job. A poll takes ready jobs
and may give up on some, the holder releases a job as ready, done or dead, and
leases expire. Nobody but the holder can finish a job.

**`Outbox`** is translated from the SQL. `job[j]` is the row; the lease token
contains the delivery version, so `version` and `owner` stand for the fence.
Time is kept as the time remaining (`lease`, `due`), so that no clock has to be
bounded. `batch[w]` are the commands worker `w` still has in memory: they
outlive their leases.

| Action | Code |
|---|---|
| `Enqueue` | a producer's `_INSERT_OUTBOX` |
| `ClaimBatch` | `_CLAIM_BATCH`: due or expired rows; exhausted rows are dead-lettered by the same statement |
| `Complete`, `Retry`, `DeadLetter` | the fenced updates; `retry()` on the last attempt is `DeadLetter` |
| `FenceLost` | `OutboxFenceLost`, counted by `poll_once` |
| `AbandonBatch` | the process dies, or an exception leaves `poll_once` |
| `Tick` | time passes |

`_CLAIM_BATCH` orders by due time, but `SKIP LOCKED` lets any row be invisible
to one poll, so a poll may return any non-empty set of claimable rows within
the limit. A lost answer to a COMMIT is a step followed by `AbandonBatch`. No
code sets `CANCELLED` on a job or deletes one, so neither occurs.

**`CreateEffect`** extends `Outbox` with the handler of
`CREATE_STANDARD_PAYMENT_LINK`. `db[j]` are the case, action, instrument and
order rows of one recovery; `link`, `request` and `paid` are the provider's
side; `h[w]` is where the handler of worker `w` is. `sent` and `outcome` are
history variables: how many requests were sent, and whether the workers could
know what became of the last one.

| Action | Code |
|---|---|
| `ReadContext` | lease check, `load_durable_intent`, `_LOAD_CONTEXT` |
| `EvaluateGate` | fresh provider truth, second lease check, `evaluate_effect` and the branches of `execute` |
| `Authorize` | `record_effect_authorization` under `_LOCK_FENCE` and `_LOCK_PATH` |
| `NotSent`, `SendCreate`, `Answered`, `Ambiguous` | `create_standard_payment_link` and its outcomes |
| `LookupCompletes`, `LookupIncomplete` | `_reconcile`, `decide_ambiguous_create` |
| `Persist` | `persist_result` under the fence, with all row updates of the disposition |
| `HandlerRaises` | the `except` clauses of `__call__` |
| `SettleResult` | settlement by `poll_once` with the handler's result |
| `Crash` | `AbandonBatch` while the handler is anywhere |
| `ProviderAnswers`, `CaptureOriginal` | the provider (external) |
| `ProjectCapture` | the terminal projector on `payment.captured` |
| `SwitchEffects` | `set_kill_switch` and the other switches `_LOCK_PATH` checks |

A transaction is the sequence of row images between its updates (`*Images`); it
commits when every update matches its `WHERE` clause (otherwise the sequence is
empty) and every consecutive pair passes the lifecycle triggers
(`TriggersPass`). That is how the models see a transaction the database would
refuse. The rows of several tables change in one image where the triggers do
not look at the order; a requeue has an image more, because it takes the case
through `ACTION_UNCERTAIN` and the action through `FAILED_RETRYABLE`. Effect
gate evidence is a counter, since two evaluations differ in their
`evaluated_at`: writing it a second time is a change.

The gate's other reasons to refuse (expired proposal, incident, approval,
budget, health) are one free choice to say no. The worker's lease checks
(`assert_active_lease`) compare its own copy with its own clock; the model gives
all parties one clock. Decoding of the command is left out: the producer encodes
it with the same codec.

`_FAIL_ACTION` assigns an un-cast text `CASE` expression to an enum column,
which PostgreSQL may refuse. `FailedImages` keeps the update as it is written,
and `HandlerRaises` covers the refusal, so both outcomes are explored; no
finding below depends on it.

**`RecoveryAggregate`** has one action per command of
`packages/domain/aggregate.py`, under the command's name, with the transition
graphs of `states.py`, the observation floor of `values.py` and both stages of
`gate.py`. A command that raises is no step. The gate's decisions are state
(`plan`, `effect`): a caller may keep one while the aggregate moves on, and the
version in it is what makes it stale. What the gate looks up outside the
aggregate is the free choice `hard`; whether an approval has expired is `valid`.
In this repository the class itself is used by the domain tests; the services
keep the same states in rows, which is what the other modules are about.

**`Cancellation`** extends `Outbox` with the scheduler, the executor and the
repository of `CANCEL_PAYMENT_LINK`, for one link of an ended case.

| Action | Code |
|---|---|
| `Schedule` | `_SELECT_DUE` and the inserts of `schedule_due` |
| `BeginExecute`, `BindingFails`, `FetchTruth`, `FetchFails`, `FetchMismatch` | lease check, binding reads and first provider read of `execute` |
| `Rebind`, `FinalGate`, `Authorize` | the binding lock, the second read and gate, `_AUTHORIZE` |
| `SendCancel`, `ProviderCancels`, `ProviderRejects`, `Refetch`, `Reconcile` | the cancel call, its late effect, the read after it and `RECONCILE_ONLY` |
| `Persist`, `Refused`, `HandlerRaises`, `DatabaseFails` | `persist_result` under the fence and its failures |
| `SettleResult`, `Crash` | settlement by `poll_once`; the process dies |
| `LinkPaid`, `LinkExpires`, `ProjectLinkPaid`, `ProposalExpires`, `SwitchAccount` | customer, provider, projector, clock, operators |

**`EventProjection`** goes from the HTTP request to the order's payment truth:
one order, its payments, its cases and one recovery link. `Wire` are the
requests that may arrive (header id and body), `Forged` those without a valid
signature; requests may be repeated and reordered at will, and a body may come
back under another id.

| Action | Code |
|---|---|
| `StoreOnce`, `StoreAgain` | verification and `store_once`: a new event, a duplicate, a conflict |
| `BeginProjection` | claim of the inbox row and the projector's row locks and reads |
| `CommitFailure`, `CommitDeferred`, `CommitFailureIgnored` | `payment.failed`: open a case once, ask for enrichment, or ignore |
| `CommitCapture`, `CommitCaptureIgnored` | `payment.captured` with both path totals |
| `CommitLink`, `CommitLinkIgnored` | paid and partially paid links |
| `CommitIgnored`, `CommitUnsupported`, `CommitExhausted` | reused bodies, unsupported types, spent inbox attempts |
| `FetchPayment`, `FetchOrder`, `PersistEnrichment` | `payment_enrichment.py` |
| `Settle`, `Interrupted` | settlement of the delivery; its transaction is lost |
| `CreateLink`, `ConfirmLink`, `CancelLink`, `CloseCase` | what the other components do to the same rows |

A transaction locks and reads in one step and commits in a second one; `Free`
keeps two transactions from holding the same rows. The database runs at READ
COMMITTED, and every row a projection decides on is one it has locked.

**`Assessment`** goes from an elapsed window to a durable intent.

| Action | Code |
|---|---|
| `Schedule` | `schedule_due` of `assessment_worker.py`, keyed by case and version |
| `Load`, `LoadRefused` | the first transaction of either handler |
| `FetchForAssessment`, `FetchForApproval` | fresh payment, order and health reads, diagnosis, gate |
| `CommitPlan`, `CommitRefused` | the locked commit of `assessment_intent.py` |
| `Request` | an operator approves or rejects (`approval_request.py`) |
| `LockApproval`, `LockRefused` | `_LOCK_PENDING` and `_same_binding` of `approval_service.py` |
| `InsertAction`, `QueueCase`, `CommitApproval`, `CommitRejected`, `CommitCancellation` | the writes under that lock, up to their triggers, and how the transaction ends |
| `Settle`, `Interrupted`, `LeaseLapses` | delivery; these commits are not fenced by the lease |
| `PaymentProgresses`, `TimePasses`, `ControlsChange`, `RowsEnriched`, `CaptureProjected` | everybody else |

The diagnosis, the health of the method and the freshness of the reads are free
choices of each run of the handler. The approval's transaction locks approval and
case, not the order: enrichment may turn the order `PAID` between two of its
statements. So it is several steps, each of which reads what its trigger reads: the
insert of the action looks at the approval's expiry (`ApprovalIsValid`), the update
of the case at the order (`OrderIsUnpaid`), and the COMMIT looks at nothing.

**`Audit`** is the chain of one case, with what is appended to it. Not every change
of a case is: the terminal projector writes no entry, and the appenders of
assessment and create effect are optional, so the chain says what was appended and
nothing of changes without an entry. Writers come either with the case's row
locked or without; both, and `verify_chain`, take the advisory lock and then a
share of the row. The two orders can meet in a cycle, which the database breaks
(`DeadlockDetected`). A digest is modelled as what it is worth: the sequence of
the documents it commits to (so equal digests mean equal documents). `Damage`
alters a row or loses one inside the chain beneath the triggers; a lost last row
cannot be detected by `verify_chain`, and nothing in the code claims it can.

## What the runs check

| Run | Instance | Result |
|---|---|---|
| `outbox` | 2 jobs, 2 workers, batch 2, 3 attempts, lease 2, delays 1 and 2 | 6 properties hold, 49,605 states |
| `create_effect` | 1 job, 2 workers, 3 attempts | 8 properties hold, 241,598 states |
| `aggregate` | 3 proposals for one decision, window 2, times 0..2, 8 versions | 6 properties hold, 82,164 states |
| `cancellation` | 1 link, 2 workers, 4 attempts, 1 fault | 4 properties hold, 1,859,746 states (workers symmetric) |
| `projection` | 1 payment, 3 event ids, 5 bodies, 2 workers, 2 inbox attempts, 2 cases | 5 properties hold, about 755,000 states (workers symmetric) |
| `assessment` | 2 workers, 1 operator, 6 versions, 1 change, 1 interruption | 6 properties hold, 308,088 states |
| `audit` | 2 writers, 1 verifier, limit 2, pages of 1 | 4 properties hold, 27,371 states |
| `redelivery`, `same_effect`, `obsolete_link` | as `create_effect` | each property is violated |
| `collectible_link` | as `cancellation`, with 1 worker and fairness | `CollectibleLinkIsRepaired` is violated |
| `mapped_capture` | 2 payments, 3 ids, 1 worker | `MappedCaptureDominates` is violated |

`outbox`:

* `TypeOK`: types, and no row is delivered more often than `max_attempts`.
* `VersionIdentifiesDelivery`: a job and a delivery version identify one claim,
  however many stale claims are still in workers' hands.
* `SoleFirstDelivery`: a NORMAL delivery, which may act without looking, has no
  older delivery beside it.
* `TriggerNeverRefuses`: claims and settlements never run into
  `enforce_outbox_lifecycle`.
* `ImplementsLeasedDelivery`: refinement of `LeasedDelivery`; an expired lease
  is a free job, and what its former holder does is invisible.
* `EveryJobSettles`: every job ends, although batches are abandoned for ever.

`create_effect`:

* `NoBlindRepeat`: a create request is never sent while an earlier one may have
  taken effect unnoticed.
* `RowsAgree`: case, action, instrument and link id agree after every commit.
* `RecordedLinkIsReal`: a recorded link exists and was authorized with evidence.
* `SettledWorkIsFinal`: a settled job's action and instrument do not change.
* `CollectionTerminalMonotonic`: a closed case never collects again.
* `ImplementsOutbox`: the handler is a client of `Outbox`, so everything proved
  of `Outbox` holds here.
* `EveryJobSettles`, now with a real handler; `CreateTypeOK`.

`aggregate`:

* `PaidClosesCollection`: a paid order has no workflow left that could collect.
* `CollectionWaitsForWindow`: no command times or requested extensions shorten
  the observation window.
* `OpenActionIsIdentified`: an open action keeps the key, the proposal and, once
  live, the provider reference that later reports need.
* `ReviewedBeforeExecution`: although `requeue_after_absence_proven` is accepted
  in `APPROVAL_REQUIRED`, nothing that needs a review executes without one.
* `ClosedStaysClosed`: closed cases and paid truth only move on to a duplicate
  or an exception. And `TypeOK`.

`cancellation`:

* `WithdrawnLinkIsClosed`: a link recorded as cancelled or expired is so at the
  provider, whatever answer was late.
* `InstrumentLifecycle`: recorded money is never overwritten by a late result.
* `SettledCancellationIsFinal`: a worker with an old delivery writes nothing.
  And `CancelTypeOK`.

`projection`:

* `PaidOutcomesAreReal`: no forged, repeated or reused request ends a case as
  recovered, suppressed as paid or in review without the money at the provider.
* `CaptureEndsRecovery`: after a processed capture no case of the order is open.
* `DoubleCollectionIsReviewed`: when both paths collected, or the link in part,
  the case is in review, in whatever order two workers project the events.
* `TotalNeverFalls`: the order is never credited with less than before, although
  enrichment writes the total of the provider's order, which leaves out the link
  and may be older than the last event. And `ProjectionTypeOK`.

`assessment`:

* `IntentIsAuthorized`: every queued intent rests on an allowed decision, or on a
  decision to review and an approval, of the version it was made for.
* `VerdictIsCarriedOut`: approval, case and action tell one story.
* `PaymentBeatsApproval`: an approval of an order that was already paid when the
  operator acted queues nothing.
* `ApprovedInTime`: once the order is known to be paid nothing is queued for it, and
  once an approval has expired it is not materialized, except by a transaction that
  had passed the trigger in question and only has to commit.
* `DueCaseIsAssessed`: a case that is due is assessed or closed in the end, unless
  its assessment is dead-lettered or its payment is no longer failed. And `AssessmentTypeOK`.

`audit`:

* `ChainVerifies`: concurrent appends leave a chain that verifies, although the
  entries' times are read before any lock.
* `VerifiedIsWritten`: what `verify_chain` calls valid is the whole history as it
  was written.
* `TransactionsEnd`: the opposite lock orders never leave everyone waiting.
  And `AuditTypeOK`.

The five violations are disagreements between the code and its documents:

* `redelivery`. If a worker stops between the POST and `persist_result`, the
  case is `EXECUTING`. The redelivery is `RECONCILE_ONLY`, and
  `record_effect_authorization` lets that through only from `ACTION_UNCERTAIN`.
  Every further delivery raises `reconciliation_path_invalid` until the dead
  letter; a link that exists is not found. The runbook says that a reclaimed
  lease reconciles.
* `same_effect`. After a certain failure or an empty lookup the action is
  queued again with its old gate evidence. The retry writes new evidence, the
  trigger says it is write-once, and the retry is refused, so the documented
  second attempt never takes place. It is also why `NoBlindRepeat` holds with
  some margin: in this code the create is sent at most once.
* `obsolete_link`. If the original payment is projected while the create is
  under way, the activation is refused and the link id is lost with the
  transaction. The cancellation scheduler needs that id, so the link stays
  payable; the architecture document says it is scheduled for cancellation.
* `collectible_link`. `_SELECT_DUE` takes a link only while it has no cancel
  action, and only a `QUEUED` action can be authorized. A cancellation that was
  refused, lost its worker after the authorization or got no answer is never
  scheduled again, although the scheduler's comment says it continuously repairs
  ended cases. The link stays open until the provider expires it.
* `mapped_capture`. If enrichment reads the capture first, it stores it with the
  time of its own read; the projection of `payment.captured` then takes the event
  for an old one and ignores it, and a case opened by another failure stays open.
  The architecture document says a mapped terminal event dominates pending work.
  `CaptureEndsRecovery` holds because it is about captures that were processed.

A sixth disagreement is not a run but a theorem, `GrantedRetryIsRefused`. When a
cancel call left the link created and unpaid, `_reconcile_after_effect` grants a
`RETRY_SAME_EFFECT` delivery (`cancellation.py:967`; `test_cancellation.py:752`
expects it), and `docs/razorpay-integration.md:141` says that "that later delivery
repeats every fresh check and the final gate before one bounded cancel attempt".
The delivery does pass every check and the gate, and is then always refused: the
first authorization took the action out of `QUEUED`, which `_AUTHORIZE` requires,
and left evidence that is write-once (the instance of `cancellation` reaches such a
delivery with one worker). It is the defect of `same_effect` on the
cancelling side, and one of the ways into `collectible_link`. That the provider is
asked to cancel at most once (`OneCancelRequest`) is therefore true of the code and
not what its authors intended.

What else the models show and no document contradicts:

* An assessment that is redelivered after its commit finds the case moved on and
  is dead-lettered (`LoadRefused`); the commit itself stands. The probe for a
  commit that already happened is reached through `StateChangedError` only
  (`assessment_worker.py:421`).
* A merchant that is paused while the job runs also leads to a dead letter, and
  the idempotency key is taken, so the case is not assessed at that version any
  more; `DueCaseIsAssessed` counts such a dead letter as an end.
* When the case changes during the provider read of an approval, the job is
  dead-lettered and the approval stays `PENDING` until it expires.
* A slow enrichment may write `FAILED` over `CAPTURED` in `provider_payments`;
  the order's total is not taken back. It also erases the failure marker, so a
  replayed failure may open another case of an unpaid order.
* The slower of two audit writers may meet `TIMESTAMP_REGRESSION` and has to
  repeat its transaction.

Bounds. Two workers are enough for an old and a new delivery of a job to overlap;
a third adds only another stale claim of the same kind. Two jobs are needed for a
batch that is settled halfway; recovery cases share no rows, so `create_effect`
and `cancellation` take one job, and `Outbox` covers the batches. Three attempts
let create, reconcile and retry follow one another and leave a last attempt to
exhaust; a cancellation needs one more for its granted retry. A lease of one tick
may end at any step. In `aggregate` two of the proposals share an action key and
differ in their need of a review, and eight versions reach an approved execution
whose outcome is lost, found and paid. In `projection` the id of the link event
may carry any other body, and the forged request reuses an id; two payments are
in `mapped_capture`. Six versions let a case wait, be assessed again, be reviewed
and be closed. `audit` begins no transaction beyond two entries, but two writers
may begin together, so three entries and the limit are reached. Deadlock is not
checked where a system whose jobs are all settled may rest.

Fairness. `outbox` and `create_effect`: weak fairness of every worker's poll, of
its next handler step and of time. `WorkerRuntime.run` loops until it is stopped
and catches every exception, and HTTP calls have timeouts, so a handler never
waits for the provider. `collectible_link` adds the scheduler, which the loop
calls in every round. `assessment` assumes the scheduler, delivery and the
handlers' steps, and bounds interruptions. `audit` assumes that a transaction
that was begun goes on, that PostgreSQL serves lock waiters in turn (strong
fairness) and that it looks for deadlocks. Producers, the provider, the customer
and operators are not assumed to do anything.

## What is proved

For every value of the constants, from the assumptions named in the modules:

| Module | Theorem | Statement |
|---|---|---|
| `OutboxProofs` | `TypeCorrect` | `Spec => []TypeOK` |
| | `VersionIsFence` | `Spec => []VersionIdentifiesDelivery` |
| | `NormalIsFirst` | `Spec => []SoleFirstDelivery` |
| | `StatementsAndTriggerAgree` | `Spec => TriggerNeverRefuses` |
| | `OutboxImplementsLeasedDelivery` | `Spec => ImplementsLeasedDelivery` |
| `RecoveryAggregateProofs` | `TypeCorrect` | `Spec => []TypeOK` |
| | `PaidIsClosed` | `Spec => []PaidClosesCollection` |
| | `WindowIsKept` | `Spec => []CollectionWaitsForWindow` |
| | `OpenActionIsKnown` | `Spec => []OpenActionIsIdentified` |
| | `ExecutionIsReviewed` | `Spec => ReviewedBeforeExecution` |
| | `ClosedIsFinal` | `Spec => ClosedStaysClosed` |
| `AuditProofs` | `TypeCorrect` | `Spec => []AuditTypeOK` |
| | `StoredChainVerifies` | `Spec => []ChainVerifies` |
| | `ValidMeansWritten` | `Spec => []VerifiedIsWritten` |
| `CreateEffectProofs` | `CreateTypeCorrect` | `CreateSpec => []CreateTypeOK` |
| | `TablesTellOneStory` | `CreateSpec => []RowsAgree` |
| | `RecordedLinksExist` | `CreateSpec => []RecordedLinkIsReal` |
| | `NeverBlindlyRepeated` | `CreateSpec => NoBlindRepeat` |
| | `AtMostOneCreate` | `CreateSpec => []OneCreateRequest` |
| | `SettledEffectIsFinal` | `CreateSpec => SettledWorkIsFinal` |
| | `CollectionEndsForGood` | `CreateSpec => CollectionTerminalMonotonic` |
| | `CreateUsesOutbox` | `CreateSpec => ImplementsOutbox` |
| `CancellationProofs` | `CancelTypeCorrect` | `CancelSpec => []CancelTypeOK` |
| | `OneCancelRequest` | `CancelSpec => []AtMostOneCancelRequest` |
| | `GrantedRetryIsRefused` | `CancelSpec => [](granted retry => ~Authorizable)` |
| | `WithdrawnIsClosed` | `CancelSpec => []WithdrawnLinkIsClosed` |
| | `SettledIsFinal` | `CancelSpec => SettledCancellationIsFinal` |
| | `InstrumentFollowsLifecycle` | `CancelSpec => InstrumentLifecycle` |
| | `CancellationUsesOutbox` | `CancelSpec => Spec` of `Outbox` |
| `AssessmentProofs` | `AssessmentTypeCorrect` | `AssessmentSpec => []AssessmentTypeOK` |
| | `OneAuthorizedIntent` | `AssessmentSpec => []IntentIsAuthorized` |
| | `VerdictsAreCarriedOut` | `AssessmentSpec => []VerdictIsCarriedOut` |
| | `PaymentOverrulesApproval` | `AssessmentSpec => []PaymentBeatsApproval` |
| | `IntentsAreInTime` | `AssessmentSpec => ApprovedInTime` |
| `EventProjectionProofs` | `ProjectionTypeCorrect` | `ProjectionSpec => []ProjectionTypeOK` |
| | `NoRecoveryAfterCapture` | `ProjectionSpec => []CaptureEndsRecovery` |
| | `DoubleCollectionReviewed` | `ProjectionSpec => []DoubleCollectionIsReviewed` |
| | `PaidMeansPaid` | `ProjectionSpec => []PaidOutcomesAreReal` |
| | `EventSettledOnce` | `ProjectionSpec => [][SettledRowsStand]_eventVars` |
| | `MoneyIsMonotonic` | `ProjectionSpec => TotalNeverFalls` |
| | `ProjectionUsesDelivery` | `ProjectionSpec => Spec` of `LeasedDelivery` |

**Outbox**, for every set of jobs (natural numbers, since ids are ordered) and
workers, every batch size, lease, attempt limit and backoff schedule. The
inductive invariant `IInv` adds three facts to the properties. `ClaimsBehind`:
a claim's version is never ahead of its row, so the next version is new.
`FreshUnclaimed`: a row that may still be handed out as NORMAL has no claim
anywhere; this holds because a settlement sets another mode or a terminal status
and a reclaim sets `RECONCILE_ONLY`. `AbsentIsNew`: nothing is known of a row
before it is inserted. The settlements share two lemmas (`NoNewClaims`,
`Settlement`); `ClaimBatchKeepsIInv` is the heart of the argument. The trigger
and refinement theorems follow step by step from `TypeOK`, and `ClaimedRowFacts`
says what a claim writes.

Assumptions: the bounds are positive (`BoundsAssumption`), the backoff's delays
are ordered (`DelayAssumption`), and the schedule yields natural numbers
(`ScheduleAssumption`). The last one follows from the definition of
`DoubledDelay` by induction over its argument, which this prover cannot do; TLC
evaluates it for the instances.

**Recovery aggregate**, for every set of proposals and instruments, every window
and every bound. `WindowKept` strengthens `CollectionWaitsForWindow` to all
states entered after the window, since assessing and waiting are on the way to
the others. `KeyHasProposal` says that key and proposal come and go together and
that only collection actions become active. `EffectIsReviewed` says that an
effect decision somebody may still hold was made with the approval; together with
the key it gives `ExecutionIsReviewed`. One lemma (`WorkflowChangeFacts`) carries
what `_workflow_change` ensures for all its callers.

**Audit**, for every number of writers and verifiers, every page size and limit.
The invariant: whoever is past the advisory lock holds it (`HoldersHaveLock`); an
entry about to be committed continues the history (`PendingContinues`); a stored
row, damaged or not, keeps the number and the digests it was written with, the
rows stay in order, and the newest is there (`RowsAreStored`); what a verifier
has read is a beginning of the history (`ReadIsPrefix`). `VerifiedRowIsWritten`
is the step where the digest matters: a row that verifies in its place has the
facts that were written there. `PageContinues` shows that a verified page extends
the beginning and that a short page reaches the end.

**Create effect**, for every number of cases, workers and attempts, every batch
size, lease and backoff schedule. `EInv` contains the outbox's `IInv`, so the
fence and the modes are available in every step. It adds that a live claim has
the row's mode (`ModeCopied`), that a batch has one claim per job and an empty
one no handler (`OneClaimPerJob`, `IdleBetween`), that a handler which is about
to record a link knows of one (`ResultStands`), that what is at the provider was
sent (`RequestsAreSent`), and two facts that carry the argument. `EvidenceFirst`:
nothing is sent without gate evidence, and the one worker between authorization
and POST has not sent anything; with the write-once trigger this gives
`AtMostOneCreate`. `ExecutingIsTaken`: an `EXECUTING` case belongs to one
delivery that is past its authorization, and every other delivery of it may only
reconcile. Without the second fact `RowsAgree` is not inductive: a fresh worker
might authorize what an older one is still doing. What the triggers let through
is stated row by row (`NextTables`, `Follows`), and every handler step goes
through one lemma about steps that write no row or one about a fenced commit.

**Cancellation**, for every number of workers, attempts and faults. `CInv`
contains `IInv` and adds `AuthorizedOnce` (whoever is authorized is alone and
has not called yet), which is why `OneCancelRequest` and `GrantedRetryIsRefused`
hold of the code as written, `WordsStand` (what a worker heard of a link stays true
after it was heard, since a link is never open again) and `ScheduledIsCertain`.
`SettledIsFinal` follows from the fence; `InstrumentFollowsLifecycle` from the
`WHERE` clauses and the type of the rows. Assumptions: one cancellation job
(`OneJob`: there is at most one per link, and links share no rows) and a number
of faults (`FaultsAssumption`).

**Assessment**, for every number of workers, versions, changes and interruptions.
These commits are not fenced by the lease; what protects them is the comparison of
the snapshot, the row lock and the approval's status. `AInv` says so:
`LockProtects` (who is between lock and commit has the lock, and what it found
pending is pending), `PlanFitsJob` (only a plan to go ahead gets to the inserts) and
`PlanFollowsRequest` (such a plan was made on a payment that failed after the
request), `NothingBeforeItsTime` (a case under assessment has neither intent nor
verdict, and what expired was asked for) and `AskedBefore` (a payment does not
return to failed). `RowsCounted` and `CaseHasRoom` say that the
bounds are never what stops a verdict. `IntentsAreInTime` rests on three lemmas on
single steps: how far a transaction gets past its triggers, who inserts actions,
and that paid orders and expired approvals stay so. Assumptions: the jobs are one assessment
per version and the approval (`AssessmentJobs`), the bounds are natural numbers
(`AssessmentBounds`). The theorems use the specification without its fairness.

**Event projection**, for every set of payments, bodies, event ids, requests and
workers, every number of cases and attempts. `PInv` adds to the properties that
what is stored has happened (`CausesHappened`, `StoredHappened`), that only
payments that failed are enriched (`EnrichedFailed`), that instrument and case
follow the link at the provider (`InstrumentFollowsLink`), and what a processed
event leaves behind for good. `CaptureCounted`: after a capture the total is at
least the amount due and the link's case is not `RECOVERED`. It is needed because
the payment's row itself is no memory: a slow enrichment may write `FAILED` over
`CAPTURED`, so `CaseAfterLink` cannot rely on the captured payments and what
remains is the state of the case. `TruthOfTotal` then gives that a late failure
finds the order not unpaid. `CollectionRecorded` is the same for collections.
`EventSettledOnce` needs a second invariant, `LInv`: a busy handler holds the
lease of its job (`Leased`) and what is being projected is not settled
(`LockedIsPending`). `MoneyIsMonotonic` covers all three writers of the order,
of which enrichment has its own way of never going back. Assumptions: the jobs are
the events and the payments, which are different things (`JobsAssumption`), an
order has finitely many payments (`PaymentsAssumption`, so that they can be
counted), `None` is neither (`NoneAssumption`), a request is an id with a body
(`WireAssumption`), and attempts are counted (`AttemptsAssumption`). That an order
is captured at most once at the provider is in the model and not used by the
proofs.

Every inductive invariant was checked by TLC before it was proved: `IInv`, `EInv`,
`CInv`, `AInv` and `PInv` with `LInv` hold in all states of the instances above.

Only model-checked: the liveness properties (`EveryJobSettles`,
`DueCaseIsAssessed`, `TransactionsEnd`), since fairness is beyond the prover, and
that the backoff schedule yields natural numbers, which needs induction over its
argument. The five violations are counterexamples that TLC finds; nothing is
proved about what the code would do if it were changed.

## Plan

1. An abstract specification "money is collected once or flagged" that
   `EventProjection` implements, by the invariants `PInv` already has.
2. What `OutboxImplementsLeasedDelivery` and `ProjectionUsesDelivery` give
   together: the promises of `LeasedDelivery` (a finished job stays finished, one
   holder) as theorems of the abstract specification.
3. The circuit breaker and the incident detector as machines of their own.

## Not modelled

HTTP routing, authentication of operators, settings, read-only operator queries,
the console, the simulator and the diagnosis model's numerics have no protocol
state. The router's circuit breaker decides only whether a remote model is asked.
The incident detector is a pure function of its window; what the gate does with
its answer is a free choice. The heartbeat is written and only shown. Account
enrollment changes credential generations by a command line tool. Codecs encode
immutable payloads with one library on both sides. `DecisionLedger` is the audit
algorithm in memory, without the concurrency that makes it hard.
