------------------------------- MODULE Outbox -------------------------------
(***************************************************************************)
(* The durable outbox: leased, fenced delivery of commands to workers.     *)
(*                                                                         *)
(*   services/control_plane/postgres_outbox.py   claim and settle SQL      *)
(*   services/control_plane/outbox_worker.py     the polling worker        *)
(*   services/control_plane/outbox.py            the backoff policy        *)
(*   infrastructure/postgres/migrations/002...   the lifecycle trigger     *)
(*                                                                         *)
(* Every SQL statement is one transaction, hence one step.  Time is kept   *)
(* as the time REMAINING until a lease expires or a retry is due, so that  *)
(* "lease_expires_at > now" reads lease[j] > 0 and no clock has to be      *)
(* bounded.  What a handler does in between is the subject of the modules  *)
(* that model the handlers; here a handler may return any result.          *)
(***************************************************************************)
EXTENDS Naturals, FiniteSets

CONSTANTS
    Jobs,            \* ids of outbox rows; ULIDs are ordered, so are these
    Workers,         \* worker processes, one worker_id each
    MaxAttempts,     \* outbox_jobs.max_attempts
    BatchSize,       \* rows one poll may claim
    LeaseDuration,   \* ticks a claim is valid for
    BaseDelay,       \* BackoffPolicy.base_delay
    MaximumDelay     \* BackoffPolicy.maximum_delay

ASSUME JobsAssumption == Jobs \subseteq Nat
ASSUME BoundsAssumption ==
    /\ MaxAttempts \in Nat \ {0}
    /\ BatchSize \in Nat \ {0}
    /\ LeaseDuration \in Nat \ {0}
ASSUME DelayAssumption ==
    /\ BaseDelay \in Nat \ {0}
    /\ MaximumDelay \in Nat
    /\ MaximumDelay >= BaseDelay

VARIABLES
    job,     \* job[j]: the row of outbox_jobs
    lease,   \* lease[j]: ticks until lease_expires_at, 0 once it has passed
    due,     \* due[j]: ticks until next_attempt_at, 0 once it has passed
    batch    \* batch[w]: the commands worker w still has to settle

vars == <<job, lease, due, batch>>

-----------------------------------------------------------------------------
Statuses == {"ABSENT", "PENDING", "IN_PROGRESS", "RETRY_SCHEDULED",
             "SUCCEEDED", "DEAD_LETTER"}
Terminal == {"SUCCEEDED", "DEAD_LETTER"}
Modes == {"NORMAL", "RECONCILE_ONLY", "RETRY_SAME_EFFECT"}

\* The modes a handler may ask for (HandlerResult.__post_init__).
RetryModes == {"RECONCILE_ONLY", "RETRY_SAME_EFFECT"}

NoWorker == "none"

\* The fencing columns of a row.  The lease token holds the delivery version
\* it was issued for, so the version stands for both.
Row == [status: Statuses, attempts: Nat, version: Nat,
        owner: Workers \cup {NoWorker}, mode: Modes]

\* What claim_batch returns to the worker: a copy of the row it just wrote.
Claim == [job: Jobs, version: Nat, attempts: Nat, mode: Modes]

\* A row nobody claimed yet, or the place where one will be inserted.
NewRow(status) == [status |-> status, attempts |-> 0, version |-> 0,
                   owner |-> NoWorker, mode |-> "NORMAL"]

\* BackoffPolicy.delay_after: doubling that stops at the maximum.
DoubledDelay[n \in Nat] ==
    IF n = 0 THEN BaseDelay
    ELSE IF 2 * DoubledDelay[n - 1] >= MaximumDelay THEN MaximumDelay
         ELSE 2 * DoubledDelay[n - 1]

DelayAfter(n) == DoubledDelay[n - 1]

\* Nothing below depends on the shape of the schedule, only on its being one.
ASSUME ScheduleAssumption == \A n \in 1..MaxAttempts : DelayAfter(n) \in Nat

Init ==
    /\ job = [j \in Jobs |-> NewRow("ABSENT")]
    /\ lease = [j \in Jobs |-> 0]
    /\ due = [j \in Jobs |-> 0]
    /\ batch = [w \in Workers |-> {}]

-----------------------------------------------------------------------------
(***************************************************************************)
(* A producer inserts the command in the transaction of its own state      *)
(* change.  The idempotency key makes a second insert of j impossible.     *)
(***************************************************************************)
Enqueue(j) ==
    /\ job[j].status = "ABSENT"
    /\ job' = [job EXCEPT ![j] = NewRow("PENDING")]
    /\ UNCHANGED <<lease, due, batch>>

\* Mutants of the next two: leases that are never reclaimed, one attempt more.
ClaimableIfIdle(j) ==
    job[j].status \in {"PENDING", "RETRY_SCHEDULED"} /\ due[j] = 0
ExhaustedLate(j) == job[j].attempts > MaxAttempts

\* The WHERE clause of _CLAIM_BATCH: due work, or work whose lease lapsed.
Claimable(j) ==
    \/ job[j].status \in {"PENDING", "RETRY_SCHEDULED"} /\ due[j] = 0
    \/ job[j].status = "IN_PROGRESS" /\ lease[j] = 0

Exhausted(j) == job[j].attempts >= MaxAttempts

\* Mutants of ClaimedRow: a reclaim that keeps the version, that keeps the
\* mode, and a dead-letter that counts as one more attempt.
ClaimedRowSameVersion(j, w) ==
    [status |-> "IN_PROGRESS", attempts |-> job[j].attempts + 1,
     version |-> IF job[j].status = "IN_PROGRESS"
                 THEN job[j].version ELSE job[j].version + 1,
     owner |-> w, mode |-> "RECONCILE_ONLY"]
ClaimedRowSameMode(j, w) ==
    [status |-> "IN_PROGRESS", attempts |-> job[j].attempts + 1,
     version |-> job[j].version + 1, owner |-> w, mode |-> job[j].mode]
ClaimedRowCounted(j, w) ==
    [status |-> IF Exhausted(j) THEN "DEAD_LETTER" ELSE "IN_PROGRESS",
     attempts |-> job[j].attempts + 1, version |-> job[j].version + 1,
     owner |-> IF Exhausted(j) THEN NoWorker ELSE w, mode |-> "RECONCILE_ONLY"]

\* The SET clause of _CLAIM_BATCH for one selected row.
ClaimedRow(j, w) ==
    IF Exhausted(j)
    THEN [status |-> "DEAD_LETTER",
          attempts |-> job[j].attempts,
          version |-> job[j].version + 1,
          owner |-> NoWorker,
          mode |-> "RECONCILE_ONLY"]
    ELSE [status |-> "IN_PROGRESS",
          attempts |-> job[j].attempts + 1,
          version |-> job[j].version + 1,
          owner |-> w,
          mode |-> IF job[j].status = "IN_PROGRESS"
                   THEN "RECONCILE_ONLY" ELSE job[j].mode]

ClaimOf(j, w) ==
    LET row == ClaimedRow(j, w)
    IN  [job |-> j, version |-> row.version, attempts |-> row.attempts,
         mode |-> row.mode]

(***************************************************************************)
(* PostgresOutboxRepository.claim_batch, called by poll_once when the      *)
(* previous batch is finished.  SKIP LOCKED lets another transaction's row *)
(* locks hide rows, so any non-empty selection within the limit may come   *)
(* back.  Rows that used up their attempts are dead-lettered here.         *)
(***************************************************************************)
ClaimBatch(w, S) ==
    /\ batch[w] = {}
    /\ S # {}
    /\ Cardinality(S) <= BatchSize
    /\ \A j \in S : Claimable(j)
    /\ job' = [j \in Jobs |-> IF j \in S THEN ClaimedRow(j, w) ELSE job[j]]
    /\ lease' = [j \in Jobs |->
                    IF j \notin S THEN lease[j]
                    ELSE IF Exhausted(j) THEN 0 ELSE LeaseDuration]
    /\ batch' = [batch EXCEPT ![w] = {ClaimOf(j, w) : j \in {i \in S : ~Exhausted(i)}}]
    /\ UNCHANGED due

-----------------------------------------------------------------------------
\* poll_once settles its commands one by one in the order of their ids.
IsCurrent(w, c) ==
    /\ c \in batch[w]
    /\ \A d \in batch[w] : c.job <= d.job

\* Mutant of Fence: the lease's expiry is not checked.
FenceIgnoringExpiry(w, c) ==
    /\ job[c.job].status = "IN_PROGRESS"
    /\ job[c.job].version = c.version
    /\ job[c.job].owner = w

\* The WHERE clause shared by _COMPLETE, _RETRY and _DEAD_LETTER.
Fence(w, c) ==
    /\ job[c.job].status = "IN_PROGRESS"
    /\ job[c.job].version = c.version
    /\ job[c.job].owner = w
    /\ lease[c.job] > 0

Finished(w, c) == batch' = [batch EXCEPT ![w] = @ \ {c}]

\* The columns every settlement writes.
Settled(c, status, mode) ==
    /\ job' = [job EXCEPT ![c.job] = [status |-> status,
                                      attempts |-> job[c.job].attempts,
                                      version |-> job[c.job].version + 1,
                                      owner |-> NoWorker,
                                      mode |-> mode]]
    /\ lease' = [lease EXCEPT ![c.job] = 0]

\* complete(): the handler reported success.
Complete(w, c) ==
    /\ IsCurrent(w, c)
    /\ Fence(w, c)
    /\ Settled(c, "SUCCEEDED", job[c.job].mode)
    /\ Finished(w, c)
    /\ UNCHANGED due

\* retry() with attempts left: back off, then deliver in the given mode.
Retry(w, c, mode) ==
    /\ IsCurrent(w, c)
    /\ c.attempts < MaxAttempts
    /\ Fence(w, c)
    /\ Settled(c, "RETRY_SCHEDULED", mode)
    /\ due' = [due EXCEPT ![c.job] = DelayAfter(c.attempts)]
    /\ Finished(w, c)

\* dead_letter(): the handler gave up, no handler is registered, or retry()
\* was asked for on the last attempt.
DeadLetter(w, c) ==
    /\ IsCurrent(w, c)
    /\ Fence(w, c)
    /\ Settled(c, "DEAD_LETTER", "RECONCILE_ONLY")
    /\ Finished(w, c)
    /\ UNCHANGED due

\* The update matched no row: OutboxFenceLost is counted and the loop goes on.
FenceLost(w, c) ==
    /\ IsCurrent(w, c)
    /\ ~Fence(w, c)
    /\ Finished(w, c)
    /\ UNCHANGED <<job, lease, due>>

(***************************************************************************)
(* The process dies, or a settlement raises anything but OutboxFenceLost:  *)
(* WorkerRuntime.run catches it and the rest of the batch is dropped with  *)
(* its leases still running.                                               *)
(***************************************************************************)
AbandonBatch(w) ==
    /\ batch[w] # {}
    /\ batch' = [batch EXCEPT ![w] = {}]
    /\ UNCHANGED <<job, lease, due>>

Minus1(n) == IF n = 0 THEN 0 ELSE n - 1

\* clock_timestamp() advances.
Tick ==
    /\ \E j \in Jobs : lease[j] > 0 \/ due[j] > 0
    /\ lease' = [j \in Jobs |-> Minus1(lease[j])]
    /\ due' = [j \in Jobs |-> Minus1(due[j])]
    /\ UNCHANGED <<job, batch>>

Settle(w) ==
    \E c \in batch[w] :
        \/ Complete(w, c)
        \/ \E mode \in RetryModes : Retry(w, c, mode)
        \/ DeadLetter(w, c)
        \/ FenceLost(w, c)

Poll(w) == \E S \in SUBSET Jobs : ClaimBatch(w, S)

Next ==
    \/ \E j \in Jobs : Enqueue(j)
    \/ \E w \in Workers : Poll(w) \/ Settle(w) \/ AbandonBatch(w)
    \/ Tick

Spec == Init /\ [][Next]_vars

(***************************************************************************)
(* Fairness.  WorkerRuntime.run polls in a loop for as long as the process *)
(* lives, poll_once settles what it claimed, and time passes.  Nothing is  *)
(* assumed of the producers, and a worker may abandon batches for ever.    *)
(***************************************************************************)
Fairness ==
    /\ \A w \in Workers : WF_vars(Poll(w)) /\ WF_vars(Settle(w))
    /\ WF_vars(Tick)

FairSpec == Spec /\ Fairness

-----------------------------------------------------------------------------
\* Types; a row is never delivered more often than max_attempts.
TypeOK ==
    /\ job \in [Jobs -> Row]
    /\ \A j \in Jobs : job[j].attempts <= MaxAttempts
    /\ lease \in [Jobs -> Nat]
    /\ due \in [Jobs -> Nat]
    /\ batch \in [Workers -> SUBSET Claim]

(***************************************************************************)
(* However many workers crashed, stalled or lost their leases, two         *)
(* commands in anybody's hands that carry the same job and delivery        *)
(* version are one and the same claim: the version of claim_batch is a     *)
(* fence, and a late settlement cannot pass for a newer one.               *)
(***************************************************************************)
VersionIdentifiesDelivery ==
    \A v, w \in Workers : \A c \in batch[v], d \in batch[w] :
        c.job = d.job /\ c.version = d.version => v = w /\ c = d

(***************************************************************************)
(* A handler that runs in NORMAL mode, free to perform the effect without  *)
(* looking whether it was performed before, is the only handler that ever  *)
(* got the job: no earlier delivery of it is still running anywhere.       *)
(* (The reclaim of an expired lease in _CLAIM_BATCH has to give it up.)    *)
(***************************************************************************)
SoleFirstDelivery ==
    \A v, w \in Workers : \A c \in batch[v], d \in batch[w] :
        c.job = d.job /\ c.mode = "NORMAL" /\ d.version <= c.version
            => v = w /\ c = d

\* The transitions enforce_outbox_lifecycle lets through, given the old row,
\* the new row and whether the old row's lease has run out.
LifecycleAllows(old, new, expired) ==
    /\ old.status \notin Terminal
    /\ new.version = old.version + 1
    /\ \/ /\ old.status \in {"PENDING", "RETRY_SCHEDULED"}
          /\ new.status = "IN_PROGRESS"
          /\ new.attempts = old.attempts + 1
       \/ /\ old.status = "IN_PROGRESS"
          /\ new.status = "IN_PROGRESS"
          /\ expired
          /\ new.attempts = old.attempts + 1
          /\ new.mode = "RECONCILE_ONLY"
       \/ /\ old.status = "IN_PROGRESS"
          /\ new.status \in {"SUCCEEDED", "RETRY_SCHEDULED", "DEAD_LETTER"}
          /\ new.attempts = old.attempts
       \/ /\ old.status \in {"PENDING", "RETRY_SCHEDULED"}
          /\ new.status = "DEAD_LETTER"
          /\ new.attempts = old.attempts

UpdatesAllowed ==
    \A j \in Jobs : job'[j] # job[j] /\ job[j].status # "ABSENT"
        => LifecycleAllows(job[j], job'[j], lease[j] = 0)

(***************************************************************************)
(* No claim or settlement is refused by the lifecycle trigger, whatever    *)
(* happened before it: the statements and the trigger agree, so a worker   *)
(* never loses a batch to a database error of the outbox's own making.     *)
(***************************************************************************)
TriggerNeverRefuses == [][UpdatesAllowed]_vars

\* How a row looks to someone who only knows leases: an expired one is free.
Held(j) == job[j].status = "IN_PROGRESS" /\ lease[j] > 0

Phase(j) ==
    CASE job[j].status = "ABSENT" -> "absent"
      [] job[j].status = "SUCCEEDED" -> "done"
      [] job[j].status = "DEAD_LETTER" -> "dead"
      [] Held(j) -> "held"
      [] OTHER -> "ready"

Delivery == INSTANCE LeasedDelivery WITH
    phase <- [j \in Jobs |-> Phase(j)],
    holder <- [j \in Jobs |-> IF Held(j) THEN job[j].owner ELSE NoWorker]

(***************************************************************************)
(* The outbox implements leased delivery: at every moment each job has at  *)
(* most one holder, only the holder's word changes its row, and a worker   *)
(* that reports success after its lease ran out is not believed.           *)
(***************************************************************************)
ImplementsLeasedDelivery == Delivery!Spec

(***************************************************************************)
(* Every command that was committed to the outbox ends as SUCCEEDED or     *)
(* DEAD_LETTER, even if workers keep dying with their batches: expired     *)
(* leases are reclaimed and every reclaim uses up an attempt.              *)
(***************************************************************************)
EveryJobSettles ==
    \A j \in Jobs : job[j].status = "PENDING" ~> job[j].status \in Terminal
=============================================================================
