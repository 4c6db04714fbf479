---------------------------- MODULE OutboxProofs ----------------------------
(***************************************************************************)
(* Theorems about Outbox for every set of jobs and workers, every batch    *)
(* size, lease duration, attempt limit and backoff schedule.               *)
(***************************************************************************)
EXTENDS Outbox, TLAPS

\* A claim in a worker's hands is never ahead of the row it was copied from,
\* and it counts at least the attempt it stands for.
ClaimsBehind ==
    \A w \in Workers : \A c \in batch[w] :
        /\ c.version <= job[c.job].version
        /\ 1 <= c.attempts

\* A row that may still be handed out in NORMAL mode was never handed out.
FreshUnclaimed ==
    \A j \in Jobs :
        job[j].status \in {"ABSENT", "PENDING", "RETRY_SCHEDULED"} /\ job[j].mode = "NORMAL"
            => \A w \in Workers : \A c \in batch[w] : c.job # j

\* Nothing is known of a row before it is inserted.
AbsentIsNew ==
    \A j \in Jobs : job[j].status = "ABSENT" => job[j] = NewRow("ABSENT")

\* The inductive invariant.
IInv ==
    /\ TypeOK
    /\ AbsentIsNew
    /\ ClaimsBehind
    /\ FreshUnclaimed
    /\ VersionIdentifiesDelivery
    /\ SoleFirstDelivery

-----------------------------------------------------------------------------
\* What _CLAIM_BATCH writes to a selected row, as far as the rest needs it.
LEMMA ClaimedRowFacts ==
    ASSUME NEW j \in Jobs, NEW w \in Workers, TypeOK, Claimable(j)
    PROVE  LET row == ClaimedRow(j, w)
           IN  /\ row \in Row
               /\ row.version = job[j].version + 1
               /\ row.attempts <= MaxAttempts
               /\ Exhausted(j) => row.status = "DEAD_LETTER"
               /\ ~Exhausted(j) => /\ row.status = "IN_PROGRESS"
                                   /\ row.attempts = job[j].attempts + 1
                                   /\ row.owner = w
                                   /\ row.mode = "NORMAL" =>
                                        /\ job[j].status \in {"PENDING", "RETRY_SCHEDULED"}
                                        /\ job[j].mode = "NORMAL"
<1>1. /\ job[j] \in Row
      /\ job[j].attempts <= MaxAttempts
      /\ job[j].attempts \in Nat
      /\ job[j].version \in Nat
      /\ job[j].mode \in Modes
  BY DEF TypeOK, Row
<1>2. CASE Exhausted(j)
  <2>1. ClaimedRow(j, w) = [status |-> "DEAD_LETTER",
            attempts |-> job[j].attempts, version |-> job[j].version + 1,
            owner |-> NoWorker, mode |-> "RECONCILE_ONLY"]
    BY <1>2 DEF ClaimedRow
  <2>2. ClaimedRow(j, w) \in Row
    BY <1>1, <2>1 DEF Row, Statuses, Modes
  <2>3. QED
    BY <1>1, <1>2, <2>1, <2>2 DEF Row
<1>3. CASE ~Exhausted(j)
  <2>1. ClaimedRow(j, w) = [status |-> "IN_PROGRESS",
            attempts |-> job[j].attempts + 1, version |-> job[j].version + 1,
            owner |-> w, mode |-> IF job[j].status = "IN_PROGRESS"
                                  THEN "RECONCILE_ONLY" ELSE job[j].mode]
    BY <1>3 DEF ClaimedRow
  <2>2. ClaimedRow(j, w) \in Row
    BY <1>1, <2>1 DEF Row, Statuses, Modes
  <2>3. job[j].attempts + 1 <= MaxAttempts
    BY <1>1, <1>3, BoundsAssumption DEF Exhausted
  <2>4. QED
    BY <1>1, <1>3, <2>1, <2>2, <2>3 DEF Claimable
<1>4. QED
  BY <1>2, <1>3

-----------------------------------------------------------------------------
\* A row whose next delivery would be in NORMAL mode.
Fresh(row) ==
    row.status \in {"ABSENT", "PENDING", "RETRY_SCHEDULED"} /\ row.mode = "NORMAL"

\* Steps that hand out nothing: claims only disappear, versions only grow
\* and no row becomes fresh again.
LEMMA NoNewClaims ==
    ASSUME IInv, TypeOK',
           \A w \in Workers : batch'[w] \subseteq batch[w],
           \A j \in Jobs : job[j].version <= job'[j].version,
           \A j \in Jobs : Fresh(job'[j]) => Fresh(job[j]),
           \A j \in Jobs : job'[j].status = "ABSENT" => job'[j] = job[j]
    PROVE  IInv'
<1>1. ClaimsBehind'
  <2>1. SUFFICES ASSUME NEW w \in Workers, NEW c \in batch'[w]
                 PROVE  c.version <= job'[c.job].version /\ 1 <= c.attempts
    BY DEF ClaimsBehind
  <2>2. c \in batch[w]
    OBVIOUS
  <2>3. c \in Claim
    BY <2>2 DEF IInv, TypeOK
  <2>4. c.job \in Jobs /\ c.version \in Nat
    BY <2>3 DEF Claim
  <2>5. job[c.job].version \in Nat /\ job'[c.job].version \in Nat
    BY <2>4 DEF IInv, TypeOK, Row
  <2>6. c.version <= job[c.job].version /\ 1 <= c.attempts
    BY <2>2 DEF IInv, ClaimsBehind
  <2>7. job[c.job].version <= job'[c.job].version
    BY <2>4
  <2>8. QED
    BY <2>4, <2>5, <2>6, <2>7
<1>2. FreshUnclaimed'
  BY DEF IInv, FreshUnclaimed, Fresh
<1>3. VersionIdentifiesDelivery'
  BY DEF IInv, VersionIdentifiesDelivery
<1>4. SoleFirstDelivery'
  BY DEF IInv, SoleFirstDelivery
<1>5. AbsentIsNew'
  BY DEF IInv, AbsentIsNew
<1>6. QED
  BY <1>1, <1>2, <1>3, <1>4, <1>5 DEF IInv

\* A fenced settlement keeps the invariant, whatever it writes.
LEMMA Settlement ==
    ASSUME IInv, NEW w \in Workers, NEW c \in batch[w], Fence(w, c),
           NEW status \in Statuses, NEW mode \in Modes,
           status = "RETRY_SCHEDULED" => mode # "NORMAL",
           status \notin {"ABSENT", "PENDING"},
           Settled(c, status, mode), Finished(w, c), due' \in [Jobs -> Nat]
    PROVE  IInv'
<1> DEFINE row == [status |-> status, attempts |-> job[c.job].attempts,
                   version |-> job[c.job].version + 1, owner |-> NoWorker, mode |-> mode]
<1>1. c \in Claim /\ c.job \in Jobs
  BY DEF IInv, TypeOK, Claim
<1>2. job[c.job] \in Row /\ job[c.job].attempts <= MaxAttempts
  BY <1>1 DEF IInv, TypeOK
<1>3. row \in Row
  BY <1>2 DEF Row
<1>4. /\ job' = [job EXCEPT ![c.job] = row]
      /\ lease' = [lease EXCEPT ![c.job] = 0]
      /\ batch' = [batch EXCEPT ![w] = @ \ {c}]
  BY DEF Settled, Finished
<1>5. TypeOK'
  <2>1. job' \in [Jobs -> Row] /\ lease' \in [Jobs -> Nat]
    BY <1>1, <1>3, <1>4 DEF IInv, TypeOK
  <2>2. batch' \in [Workers -> SUBSET Claim]
    BY <1>4 DEF IInv, TypeOK
  <2>3. \A j \in Jobs : job'[j].attempts <= MaxAttempts
    BY <1>2, <1>4 DEF IInv, TypeOK
  <2>4. QED
    BY <2>1, <2>2, <2>3 DEF TypeOK
<1>6. \A v \in Workers : batch'[v] \subseteq batch[v]
  BY <1>4 DEF IInv, TypeOK
<1>7. \A j \in Jobs : job[j].version <= job'[j].version
  <2>1. SUFFICES ASSUME NEW j \in Jobs PROVE job[j].version <= job'[j].version
    OBVIOUS
  <2>2. job[j] \in Row
    BY DEF IInv, TypeOK
  <2>3. job[j].version \in Nat
    BY <2>2 DEF Row
  <2>4. job'[j] = IF j = c.job THEN row ELSE job[j]
    BY <1>4 DEF IInv, TypeOK
  <2>5. QED
    BY <2>3, <2>4
<1>8. \A j \in Jobs : Fresh(job'[j]) => Fresh(job[j])
  <2>1. SUFFICES ASSUME NEW j \in Jobs, Fresh(job'[j]) PROVE Fresh(job[j])
    OBVIOUS
  <2>2. job'[j] = IF j = c.job THEN row ELSE job[j]
    BY <1>4 DEF IInv, TypeOK
  <2>3. ~Fresh(row)
    BY DEF Fresh
  <2>4. QED
    BY <2>1, <2>2, <2>3
<1>9. \A j \in Jobs : job'[j].status = "ABSENT" => job'[j] = job[j]
  BY <1>4 DEF IInv, TypeOK
<1>10. QED
  BY <1>5, <1>6, <1>7, <1>8, <1>9, NoNewClaims

-----------------------------------------------------------------------------
\* The delays of the backoff schedule are naturals.
LEMMA DelayIsNat ==
    ASSUME NEW n \in Nat, 1 <= n, n < MaxAttempts
    PROVE  DelayAfter(n) \in Nat
BY ScheduleAssumption, BoundsAssumption

\* An empty outbox satisfies the inductive invariant.
LEMMA InitIInv == Init => IInv
<1>1. SUFFICES ASSUME Init PROVE IInv
  OBVIOUS
<1>2. NewRow("ABSENT") \in Row
  BY DEF NewRow, Row, Statuses, Modes
<1>3. TypeOK
  BY <1>1, <1>2, BoundsAssumption DEF Init, TypeOK, NewRow
<1>4. AbsentIsNew
  BY <1>1 DEF Init, AbsentIsNew
<1>5. ClaimsBehind /\ FreshUnclaimed /\ VersionIdentifiesDelivery /\ SoleFirstDelivery
  BY <1>1 DEF Init, ClaimsBehind, FreshUnclaimed, VersionIdentifiesDelivery, SoleFirstDelivery
<1>6. QED
  BY <1>3, <1>4, <1>5 DEF IInv

\* An inserted row is fresh, and nobody holds a claim of it.
LEMMA EnqueueKeepsIInv ==
    ASSUME IInv, NEW i \in Jobs, Enqueue(i)
    PROVE  IInv'
<1>1. NewRow("PENDING") \in Row
  BY DEF NewRow, Row, Statuses, Modes
<1>2. /\ job' = [job EXCEPT ![i] = NewRow("PENDING")]
      /\ job[i] = NewRow("ABSENT")
      /\ UNCHANGED <<lease, due, batch>>
  BY DEF Enqueue, IInv, AbsentIsNew
<1>3. TypeOK'
  BY <1>1, <1>2, BoundsAssumption DEF IInv, TypeOK, NewRow
<1>4. \A j \in Jobs : job'[j] = IF j = i THEN NewRow("PENDING") ELSE job[j]
  BY <1>2 DEF IInv, TypeOK
<1>5. \A j \in Jobs : job[j].version \in Nat
  BY DEF IInv, TypeOK, Row
<1>6. \A j \in Jobs : job[j].version <= job'[j].version
  BY <1>2, <1>4, <1>5 DEF NewRow
<1>7. \A j \in Jobs : Fresh(job'[j]) => Fresh(job[j])
  BY <1>2, <1>4 DEF NewRow, Fresh
<1>8. \A j \in Jobs : job'[j].status = "ABSENT" => job'[j] = job[j]
  BY <1>4 DEF NewRow
<1>9. \A w \in Workers : batch'[w] \subseteq batch[w]
  BY <1>2
<1>10. QED
  BY <1>3, <1>6, <1>7, <1>8, <1>9, NoNewClaims

\* Steps that leave the rows alone.
LEMMA RowsUnchanged ==
    ASSUME IInv, job' = job, TypeOK',
           \A w \in Workers : batch'[w] \subseteq batch[w]
    PROVE  IInv'
<1>1. \A j \in Jobs : job[j].version <= job'[j].version
  BY DEF IInv, TypeOK, Row
<1>2. \A j \in Jobs : Fresh(job'[j]) => Fresh(job[j])
  OBVIOUS
<1>3. QED
  BY <1>1, <1>2, NoNewClaims

\* complete(), retry(), dead_letter() and a lost fence keep the invariant.
LEMMA SettleKeepsIInv ==
    ASSUME IInv, NEW w \in Workers, Settle(w)
    PROVE  IInv'
<1>1. PICK c \in batch[w] :
          \/ Complete(w, c)
          \/ \E mode \in RetryModes : Retry(w, c, mode)
          \/ DeadLetter(w, c)
          \/ FenceLost(w, c)
  BY DEF Settle
<1>2. c \in Claim
  BY DEF IInv, TypeOK
<1>3. CASE Complete(w, c)
  <2>1. job[c.job].mode \in Modes
    BY <1>2 DEF IInv, TypeOK, Claim, Row
  <2>2. due' \in [Jobs -> Nat]
    BY <1>3 DEF Complete, IInv, TypeOK
  <2>3. Fence(w, c) /\ Settled(c, "SUCCEEDED", job[c.job].mode) /\ Finished(w, c)
    BY <1>3 DEF Complete
  <2>4. QED
    BY <2>1, <2>2, <2>3, Settlement DEF Statuses
<1>4. ASSUME NEW mode \in RetryModes, Retry(w, c, mode)
      PROVE  IInv'
  <2>1. c.attempts \in Nat /\ 1 <= c.attempts /\ c.attempts < MaxAttempts
    BY <1>2, <1>4 DEF Retry, Claim, IInv, ClaimsBehind
  <2>2. due' \in [Jobs -> Nat]
    BY <1>4, <2>1, DelayIsNat DEF Retry, IInv, TypeOK
  <2>3. Fence(w, c) /\ Settled(c, "RETRY_SCHEDULED", mode) /\ Finished(w, c)
    BY <1>4 DEF Retry
  <2>4. mode \in Modes /\ mode # "NORMAL"
    BY DEF RetryModes, Modes
  <2>5. QED
    BY <2>2, <2>3, <2>4, Settlement DEF Statuses
<1>5. CASE DeadLetter(w, c)
  <2>1. due' \in [Jobs -> Nat]
    BY <1>5 DEF DeadLetter, IInv, TypeOK
  <2>2. Fence(w, c) /\ Settled(c, "DEAD_LETTER", "RECONCILE_ONLY") /\ Finished(w, c)
    BY <1>5 DEF DeadLetter
  <2>3. QED
    BY <2>1, <2>2, Settlement DEF Statuses, Modes
<1>6. CASE FenceLost(w, c)
  <2>1. batch' = [batch EXCEPT ![w] = @ \ {c}] /\ UNCHANGED <<job, lease, due>>
    BY <1>6 DEF FenceLost, Finished
  <2>2. TypeOK' /\ \A v \in Workers : batch'[v] \subseteq batch[v]
    BY <2>1 DEF IInv, TypeOK
  <2>3. QED
    BY <2>1, <2>2, RowsUnchanged
<1>7. QED
  BY <1>1, <1>3, <1>4, <1>5, <1>6

-----------------------------------------------------------------------------
(***************************************************************************)
(* The step that hands out claims.  Every new claim carries a version one  *)
(* above the row's, hence above every claim out there; a NORMAL one is for *)
(* a fresh row, of which there is no claim.                                *)
(***************************************************************************)
LEMMA ClaimBatchKeepsIInv ==
    ASSUME IInv, NEW w \in Workers, NEW S \in SUBSET Jobs, ClaimBatch(w, S)
    PROVE  IInv'
<1> DEFINE new == {ClaimOf(j, w) : j \in {i \in S : ~Exhausted(i)}}
<1>1. /\ \A j \in S : Claimable(j)
      /\ job' = [j \in Jobs |-> IF j \in S THEN ClaimedRow(j, w) ELSE job[j]]
      /\ lease' = [j \in Jobs |-> IF j \notin S THEN lease[j]
                                  ELSE IF Exhausted(j) THEN 0 ELSE LeaseDuration]
      /\ batch' = [batch EXCEPT ![w] = new]
      /\ batch[w] = {}
      /\ due' = due
  BY DEF ClaimBatch
<1>2. TypeOK /\ \A j \in Jobs : job[j] \in Row /\ job[j].version \in Nat
  BY DEF IInv, TypeOK, Row
<1>3. \A j \in S :
          /\ ClaimedRow(j, w) \in Row
          /\ ClaimedRow(j, w).version = job[j].version + 1
          /\ ClaimedRow(j, w).attempts <= MaxAttempts
          /\ Exhausted(j) => ClaimedRow(j, w).status = "DEAD_LETTER"
          /\ ~Exhausted(j) => ClaimedRow(j, w).status = "IN_PROGRESS"
  BY <1>1, <1>2, ClaimedRowFacts
<1>4. \A c \in new :
          /\ c \in Claim
          /\ c.job \in S
          /\ c = ClaimOf(c.job, w)
          /\ c.version = job[c.job].version + 1
          /\ 1 <= c.attempts
          /\ c.mode = "NORMAL" => Fresh(job[c.job])
  <2>1. SUFFICES ASSUME NEW j \in S, ~Exhausted(j)
                 PROVE  LET c == ClaimOf(j, w)
                        IN  /\ c \in Claim
                            /\ c.job = j
                            /\ c.version = job[j].version + 1
                            /\ 1 <= c.attempts
                            /\ c.mode = "NORMAL" => Fresh(job[j])
    OBVIOUS
  <2>2. ClaimedRow(j, w) \in Row /\ ClaimedRow(j, w).version = job[j].version + 1
    BY <1>3
  <2>3. ClaimedRow(j, w).attempts = job[j].attempts + 1 /\ job[j].attempts \in Nat
    BY <1>1, <1>2, <2>1, ClaimedRowFacts DEF Row
  <2>4. ClaimedRow(j, w).mode = "NORMAL" => Fresh(job[j])
    BY <1>1, <1>2, <2>1, ClaimedRowFacts DEF Fresh
  <2>5. ClaimOf(j, w) = [job |-> j, version |-> ClaimedRow(j, w).version,
                         attempts |-> ClaimedRow(j, w).attempts,
                         mode |-> ClaimedRow(j, w).mode]
    BY DEF ClaimOf
  <2>6. QED
    BY <2>2, <2>3, <2>4, <2>5 DEF Claim, Row
<1> HIDE DEF new
<1>5. \A v \in Workers : batch'[v] = IF v = w THEN new ELSE batch[v]
  BY <1>1, <1>2 DEF TypeOK
<1>6. \A j \in Jobs : job'[j] = IF j \in S THEN ClaimedRow(j, w) ELSE job[j]
  BY <1>1
<1>7. TypeOK'
  <2>1. job' \in [Jobs -> Row] /\ \A j \in Jobs : job'[j].attempts <= MaxAttempts
    BY <1>1, <1>2, <1>3 DEF TypeOK
  <2>2. lease' \in [Jobs -> Nat]
    BY <1>1, <1>2, BoundsAssumption DEF TypeOK
  <2>3. batch' \in [Workers -> SUBSET Claim]
    BY <1>1, <1>2, <1>4 DEF TypeOK
  <2>4. QED
    BY <1>1, <1>2, <2>1, <2>2, <2>3 DEF TypeOK
<1>8. AbsentIsNew'
  BY <1>3, <1>6 DEF IInv, AbsentIsNew
<1>9. \A v \in Workers : \A c \in batch[v] :
          c.job \in Jobs /\ c.version \in Nat /\ c.version <= job[c.job].version
  BY <1>2 DEF IInv, TypeOK, ClaimsBehind, Claim
<1>10. ClaimsBehind'
  <2>1. SUFFICES ASSUME NEW v \in Workers, NEW c \in batch'[v]
                 PROVE  c.version <= job'[c.job].version /\ 1 <= c.attempts
    BY DEF ClaimsBehind
  <2>2. CASE v = w
    BY <1>2, <1>3, <1>4, <1>5, <1>6, <2>2
  <2>3. CASE v # w
    <3>1. c \in batch[v]
      BY <1>5, <2>3
    <3>2. 1 <= c.attempts
      BY <3>1 DEF IInv, ClaimsBehind
    <3>3. QED
      BY <1>2, <1>3, <1>6, <1>9, <3>1, <3>2
  <2>4. QED
    BY <2>2, <2>3
<1>11. FreshUnclaimed'
  <2>1. SUFFICES ASSUME NEW j \in Jobs, Fresh(job'[j]), NEW v \in Workers, NEW c \in batch'[v]
                 PROVE  c.job # j
    BY DEF FreshUnclaimed, Fresh
  <2>2. j \notin S /\ Fresh(job[j])
    BY <1>3, <1>6, <2>1 DEF Fresh
  <2>3. QED
    BY <1>4, <1>5, <2>2 DEF IInv, FreshUnclaimed, Fresh
<1>12. VersionIdentifiesDelivery'
  <2>1. SUFFICES ASSUME NEW u \in Workers, NEW v \in Workers,
                        NEW c \in batch'[u], NEW d \in batch'[v],
                        c.job = d.job, c.version = d.version
                 PROVE  u = v /\ c = d
    BY DEF VersionIdentifiesDelivery
  <2>2. CASE u = w /\ v = w
    BY <1>4, <1>5, <2>1, <2>2
  <2>3. CASE u # w /\ v # w
    BY <1>5, <2>1, <2>3 DEF IInv, VersionIdentifiesDelivery
  <2>4. CASE u = w /\ v # w
    BY <1>2, <1>4, <1>5, <1>9, <2>1, <2>4
  <2>5. CASE u # w /\ v = w
    BY <1>2, <1>4, <1>5, <1>9, <2>1, <2>5
  <2>6. QED
    BY <2>2, <2>3, <2>4, <2>5
<1>13. SoleFirstDelivery'
  <2>1. SUFFICES ASSUME NEW u \in Workers, NEW v \in Workers,
                        NEW c \in batch'[u], NEW d \in batch'[v],
                        c.job = d.job, c.mode = "NORMAL", d.version <= c.version
                 PROVE  u = v /\ c = d
    BY DEF SoleFirstDelivery
  <2>2. CASE u = w /\ v = w
    BY <1>4, <1>5, <2>1, <2>2
  <2>3. CASE u # w /\ v # w
    BY <1>5, <2>1, <2>3 DEF IInv, SoleFirstDelivery
  <2>4. CASE u = w /\ v # w
    \* A NORMAL claim was just issued, yet v has one of the same job.
    <3>1. Fresh(job[c.job]) /\ c.job \in Jobs
      BY <1>4, <1>5, <2>1, <2>4
    <3>2. d \in batch[v]
      BY <1>5, <2>4
    <3>3. QED
      BY <2>1, <3>1, <3>2 DEF IInv, FreshUnclaimed, Fresh
  <2>5. CASE u # w /\ v = w
    \* The claim just issued is newer than c.
    BY <1>2, <1>4, <1>5, <1>9, <2>1, <2>5
  <2>6. QED
    BY <2>2, <2>3, <2>4, <2>5
<1>14. QED
  BY <1>7, <1>8, <1>10, <1>11, <1>12, <1>13 DEF IInv

\* Every step keeps the invariant: one step of the proof per action.
LEMMA NextKeepsIInv == IInv /\ [Next]_vars => IInv'
<1>1. SUFFICES ASSUME IInv, [Next]_vars PROVE IInv'
  OBVIOUS
<1>2. ASSUME NEW j \in Jobs, Enqueue(j) PROVE IInv'
  BY <1>1, <1>2, EnqueueKeepsIInv
<1>3. ASSUME NEW w \in Workers, Poll(w) PROVE IInv'
  BY <1>1, <1>3, ClaimBatchKeepsIInv DEF Poll
<1>4. ASSUME NEW w \in Workers, Settle(w) PROVE IInv'
  BY <1>1, <1>4, SettleKeepsIInv
<1>5. ASSUME NEW w \in Workers, AbandonBatch(w) PROVE IInv'
  <2>1. TypeOK' /\ job' = job /\ \A v \in Workers : batch'[v] \subseteq batch[v]
    BY <1>1, <1>5 DEF AbandonBatch, IInv, TypeOK
  <2>2. QED
    BY <1>1, <2>1, RowsUnchanged
<1>6. CASE Tick
  <2>1. \A n \in Nat : Minus1(n) \in Nat
    BY DEF Minus1
  <2>2. TypeOK' /\ job' = job /\ \A v \in Workers : batch'[v] \subseteq batch[v]
    BY <1>1, <1>6, <2>1 DEF Tick, IInv, TypeOK
  <2>3. QED
    BY <1>1, <2>2, RowsUnchanged
<1>7. CASE UNCHANGED vars
  <2>1. TypeOK' /\ job' = job /\ \A v \in Workers : batch'[v] \subseteq batch[v]
    BY <1>1, <1>7 DEF vars, IInv, TypeOK
  <2>2. QED
    BY <1>1, <2>1, RowsUnchanged
<1>8. QED
  BY <1>1, <1>2, <1>3, <1>4, <1>5, <1>6, <1>7 DEF Next

\* The inductive invariant holds in every reachable state.
LEMMA AlwaysIInv == Spec => []IInv
<1>1. QED
  BY InitIInv, NextKeepsIInv, PTL DEF Spec

-----------------------------------------------------------------------------
\* For every number of jobs and workers and every schedule, claim_batch and
\* the settlements keep all rows and claims well formed, and no row is
\* delivered more often than max_attempts.
THEOREM TypeCorrect == Spec => []TypeOK
<1>1. IInv => TypeOK
  BY DEF IInv
<1>2. QED
  BY <1>1, AlwaysIInv, PTL

\* The delivery version of claim_batch identifies one claim of one worker,
\* for ever: it is a sound fence.
THEOREM VersionIsFence == Spec => []VersionIdentifiesDelivery
<1>1. IInv => VersionIdentifiesDelivery
  BY DEF IInv
<1>2. QED
  BY <1>1, AlwaysIInv, PTL

\* A NORMAL delivery is the first delivery of its job and no other runs
\* beside it that was handed out earlier.
THEOREM NormalIsFirst == Spec => []SoleFirstDelivery
<1>1. IInv => SoleFirstDelivery
  BY DEF IInv
<1>2. QED
  BY <1>1, AlwaysIInv, PTL

-----------------------------------------------------------------------------
\* What the columns shared by all settlements become.
LEMMA SettledRow ==
    ASSUME TypeOK, NEW c, c.job \in Jobs, NEW status, NEW mode, Settled(c, status, mode)
    PROVE  /\ job'[c.job].status = status
           /\ job'[c.job].attempts = job[c.job].attempts
           /\ job'[c.job].version = job[c.job].version + 1
           /\ \A j \in Jobs : j # c.job => job'[j] = job[j] /\ lease'[j] = lease[j]
<1> DEFINE row == [status |-> status, attempts |-> job[c.job].attempts,
                   version |-> job[c.job].version + 1, owner |-> NoWorker, mode |-> mode]
<1>1. /\ job' = [job EXCEPT ![c.job] = row]
      /\ lease' = [lease EXCEPT ![c.job] = 0]
  BY DEF Settled
<1>2. row.status = status /\ row.attempts = job[c.job].attempts
                          /\ row.version = job[c.job].version + 1
  OBVIOUS
<1> HIDE DEF row
<1>3. job'[c.job] = row /\ \A j \in Jobs : j # c.job => job'[j] = job[j] /\ lease'[j] = lease[j]
  BY <1>1 DEF TypeOK
<1>4. QED
  BY <1>2, <1>3

\* A fenced settlement is a transition the trigger knows.
LEMMA SettlementAllowed ==
    ASSUME TypeOK, NEW w \in Workers, NEW c \in batch[w], Fence(w, c),
           NEW status \in {"SUCCEEDED", "RETRY_SCHEDULED", "DEAD_LETTER"}, NEW mode,
           Settled(c, status, mode)
    PROVE  UpdatesAllowed
<1>1. c.job \in Jobs
  BY DEF TypeOK, Claim
<1>2. /\ job'[c.job].status = status
      /\ job'[c.job].attempts = job[c.job].attempts
      /\ job'[c.job].version = job[c.job].version + 1
      /\ \A j \in Jobs : j # c.job => job'[j] = job[j] /\ lease'[j] = lease[j]
  BY <1>1, SettledRow
<1>3. job[c.job].status = "IN_PROGRESS"
  BY DEF Fence
<1>4. LifecycleAllows(job[c.job], job'[c.job], lease[c.job] = 0)
  BY <1>2, <1>3 DEF LifecycleAllows, Terminal
<1>5. QED
  BY <1>2, <1>4 DEF UpdatesAllowed

\* Every update a claim or a settlement makes is one the trigger lets through.
LEMMA StepAllowed == TypeOK /\ [Next]_vars => [UpdatesAllowed]_vars
<1>1. SUFFICES ASSUME TypeOK, Next PROVE UpdatesAllowed
  OBVIOUS
<1>2. ASSUME NEW i \in Jobs, Enqueue(i) PROVE UpdatesAllowed
  BY <1>1, <1>2 DEF Enqueue, UpdatesAllowed, TypeOK
<1>3. ASSUME NEW w \in Workers, NEW S \in SUBSET Jobs, ClaimBatch(w, S)
      PROVE  UpdatesAllowed
  <2>1. SUFFICES ASSUME NEW j \in S, Claimable(j), job'[j] = ClaimedRow(j, w)
                 PROVE  LifecycleAllows(job[j], job'[j], lease[j] = 0)
    BY <1>3 DEF ClaimBatch, UpdatesAllowed
  <2>2. /\ job[j].status \in {"PENDING", "RETRY_SCHEDULED", "IN_PROGRESS"}
        /\ job[j].status = "IN_PROGRESS" => lease[j] = 0
    BY <2>1 DEF Claimable
  <2>3. QED
    BY <2>1, <2>2 DEF ClaimedRow, LifecycleAllows, Terminal
<1>4. ASSUME NEW w \in Workers, NEW c \in batch[w],
             Complete(w, c) \/ (\E mode \in RetryModes : Retry(w, c, mode)) \/ DeadLetter(w, c)
      PROVE  UpdatesAllowed
  BY <1>1, <1>4, SettlementAllowed DEF Complete, Retry, DeadLetter
<1>5. ASSUME job' = job PROVE UpdatesAllowed
  BY <1>5 DEF UpdatesAllowed
<1>6. QED
  BY <1>1, <1>2, <1>3, <1>4, <1>5 DEF Next, Poll, Settle, FenceLost, AbandonBatch, Tick

\* No statement of the outbox is ever refused by enforce_outbox_lifecycle.
THEOREM StatementsAndTriggerAgree == Spec => TriggerNeverRefuses
<1>1. QED
  BY TypeCorrect, StepAllowed, PTL DEF Spec, TriggerNeverRefuses

-----------------------------------------------------------------------------
\* A fenced settlement is the holder letting go of the job.
LEMMA SettlementReleases ==
    ASSUME TypeOK, NEW w \in Workers, NEW c \in batch[w], Fence(w, c),
           NEW status \in {"SUCCEEDED", "RETRY_SCHEDULED", "DEAD_LETTER"}, NEW mode,
           Settled(c, status, mode)
    PROVE  Delivery!Release(w, c.job,
              IF status = "SUCCEEDED" THEN "done"
              ELSE IF status = "DEAD_LETTER" THEN "dead" ELSE "ready")
<1>1. c.job \in Jobs /\ lease[c.job] \in Nat
  BY DEF TypeOK, Claim
<1>2. /\ job'[c.job].status = status
      /\ job'[c.job].attempts = job[c.job].attempts
      /\ job'[c.job].version = job[c.job].version + 1
      /\ \A j \in Jobs : j # c.job => job'[j] = job[j] /\ lease'[j] = lease[j]
  BY <1>1, SettledRow
<1>4. Held(c.job) /\ job[c.job].owner = w /\ Phase(c.job) = "held"
  BY DEF Fence, Held, Phase, Terminal
<1>5. \A j \in Jobs : j # c.job => (Held(j)' <=> Held(j)) /\ Phase(j)' = Phase(j)
  BY <1>2 DEF Held, Phase
<1>6. \A j \in Jobs : j = c.job => job'[j].status = status
  BY <1>2
<1>7. \A j \in Jobs : j = c.job => ~Held(j)'
  BY <1>6 DEF Held
<1>8. \A j \in Jobs : j = c.job =>
          Phase(j)' = IF status = "SUCCEEDED" THEN "done"
                      ELSE IF status = "DEAD_LETTER" THEN "dead" ELSE "ready"
  BY <1>6, <1>7 DEF Phase
<1>9. QED
  BY <1>1, <1>2, <1>4, <1>5, <1>7, <1>8 DEF Delivery!Release, NoWorker, Delivery!NoWorker

\* A poll takes the rows it hands out and gives up the exhausted ones.
LEMMA ClaimBatchTakes ==
    ASSUME TypeOK, NEW w \in Workers, NEW S \in SUBSET Jobs, ClaimBatch(w, S)
    PROVE  \E H \in SUBSET Jobs, D \in SUBSET Jobs : Delivery!Take(w, H, D)
<1>0. PICK H \in SUBSET Jobs, D \in SUBSET Jobs :
          H = {j \in S : ~Exhausted(j)} /\ D = {j \in S : Exhausted(j)}
  OBVIOUS
<1>1. /\ \A j \in S : Claimable(j)
      /\ \A j \in Jobs : job'[j] = IF j \in S THEN ClaimedRow(j, w) ELSE job[j]
      /\ \A j \in Jobs : lease'[j] = IF j \notin S THEN lease[j]
                                     ELSE IF Exhausted(j) THEN 0 ELSE LeaseDuration
  BY DEF ClaimBatch
<1>2. \A j \in S : Phase(j) = "ready" /\ ~Held(j)
  BY <1>1 DEF Claimable, Phase, Held
<1>3. \A j \in H : job'[j].status = "IN_PROGRESS" /\ job'[j].owner = w /\ lease'[j] > 0
  BY <1>0, <1>1, ClaimedRowFacts, BoundsAssumption
<1>4. \A j \in D : job'[j].status = "DEAD_LETTER"
  BY <1>0, <1>1, ClaimedRowFacts
<1>5. \A j \in H : Phase(j)' = "held" /\ Held(j)'
  BY <1>3 DEF Phase, Held
<1>6. \A j \in D : Phase(j)' = "dead" /\ ~Held(j)'
  BY <1>4 DEF Phase, Held
<1>7. \A j \in Jobs : j \notin S => Phase(j)' = Phase(j) /\ (Held(j)' <=> Held(j)) /\ job'[j] = job[j]
  BY <1>1 DEF Phase, Held
<1>8. H \cap D = {} /\ H \cup D = S
  BY <1>0
<1>9. Delivery!Take(w, H, D)
  <2>1. \A j \in H \cup D : j \in Jobs /\ Phase(j) = "ready"
    BY <1>2, <1>8
  <2>2. [j \in Jobs |-> Phase(j)]' = [j \in Jobs |-> IF j \in H THEN "held"
                ELSE IF j \in D THEN "dead" ELSE Phase(j)]
    BY <1>5, <1>6, <1>7, <1>8
  <2>3. [j \in Jobs |-> IF Held(j) THEN job[j].owner ELSE NoWorker]' =
            [j \in Jobs |-> IF j \in H THEN w
                            ELSE IF Held(j) THEN job[j].owner ELSE NoWorker]
    BY <1>2, <1>3, <1>5, <1>6, <1>7, <1>8
  <2>4. QED
    BY <1>8, <2>1, <2>2, <2>3 DEF Delivery!Take
<1>10. QED
  BY <1>9

\* Time passing makes some leases run out.
LEMMA TickExpires ==
    ASSUME TypeOK, Tick
    PROVE  \E S \in SUBSET Jobs : Delivery!Expire(S)
<1>0. PICK S \in SUBSET Jobs : S = {j \in Jobs : Held(j) /\ lease'[j] = 0}
  OBVIOUS
<1>1. job' = job /\ \A j \in Jobs : lease'[j] = Minus1(lease[j]) /\ lease[j] \in Nat
  BY DEF Tick, TypeOK
<1>2. \A j \in Jobs : Held(j)' <=> Held(j) /\ lease'[j] # 0
  BY <1>1 DEF Held, Minus1
<1>3. \A j \in Jobs : (Held(j)' <=> Held(j)) => Phase(j)' = Phase(j)
  BY <1>1 DEF Phase
<1>4. \A j \in Jobs : Held(j) => Phase(j) = "held"
  BY DEF Held, Phase
<1>5. \A j \in S : Phase(j)' = "ready"
  BY <1>0, <1>1 DEF Held, Phase
<1>6. [j \in Jobs |-> Phase(j)]' = [j \in Jobs |-> IF j \in S THEN "ready" ELSE Phase(j)]
  BY <1>0, <1>2, <1>3, <1>5
<1>7. [j \in Jobs |-> IF Held(j) THEN job[j].owner ELSE NoWorker]' =
          [j \in Jobs |-> IF j \in S THEN NoWorker
                          ELSE IF Held(j) THEN job[j].owner ELSE NoWorker]
  BY <1>0, <1>1, <1>2
<1>8. Delivery!Expire(S)
  BY <1>0, <1>4, <1>6, <1>7 DEF Delivery!Expire, NoWorker, Delivery!NoWorker
<1>9. QED
  BY <1>8

\* An empty outbox is an empty leased-delivery service.
LEMMA InitRefines == Init => Delivery!Init
<1>1. ASSUME Init PROVE \A j \in Jobs : Phase(j) = "absent" /\ ~Held(j)
  BY <1>1 DEF Init, Phase, Held, NewRow
<1>2. QED
  BY <1>1 DEF Delivery!Init, NoWorker, Delivery!NoWorker

\* Every step of the outbox is a step of leased delivery or leaves it alone.
LEMMA StepRefines == TypeOK /\ [Next]_vars => [Delivery!Next]_(Delivery!vars)
<1>1. SUFFICES ASSUME TypeOK, [Next]_vars PROVE [Delivery!Next]_(Delivery!vars)
  OBVIOUS
<1>2. ASSUME NEW i \in Jobs, Enqueue(i) PROVE Delivery!Next
  <2>1. job[i].status = "ABSENT" /\ lease' = lease
    BY <1>2 DEF Enqueue
  <2>2. \A j \in Jobs : IF j = i THEN job'[j].status = "PENDING" ELSE job'[j] = job[j]
    BY <1>1, <1>2 DEF Enqueue, TypeOK, NewRow
  <2>3. \A j \in Jobs : j # i => Phase(j)' = Phase(j) /\ (Held(j)' <=> Held(j))
    BY <2>1, <2>2 DEF Phase, Held
  <2>4. \A j \in Jobs : j = i => /\ Phase(j) = "absent" /\ ~Held(j)
                                 /\ Phase(j)' = "ready" /\ ~Held(j)'
    BY <2>1, <2>2 DEF Phase, Held
  <2>5. Delivery!Submit(i)
    BY <2>2, <2>3, <2>4 DEF Delivery!Submit
  <2>6. QED
    BY <2>5 DEF Delivery!Next
<1>3. ASSUME NEW w \in Workers, Poll(w) PROVE Delivery!Next
  BY <1>1, <1>3, ClaimBatchTakes DEF Poll, Delivery!Next
<1>4. ASSUME NEW w \in Workers, NEW c \in batch[w],
             Complete(w, c) \/ (\E mode \in RetryModes : Retry(w, c, mode)) \/ DeadLetter(w, c)
      PROVE  Delivery!Next
  <2>1. PICK status \in {"SUCCEEDED", "RETRY_SCHEDULED", "DEAD_LETTER"}, mode \in Modes :
            Fence(w, c) /\ Settled(c, status, mode)
    <3>1. job[c.job].mode \in Modes
      BY <1>1, <1>4 DEF TypeOK, Claim, Row
    <3>2. QED
      BY <1>4, <3>1 DEF Complete, Retry, DeadLetter, RetryModes, Modes
  <2>2. c.job \in Jobs
    BY <1>1 DEF TypeOK, Claim
  <2>3. QED
    BY <1>1, <2>1, <2>2, SettlementReleases DEF Delivery!Next
<1>5. CASE Tick
  BY <1>1, <1>5, TickExpires DEF Delivery!Next
<1>6. ASSUME job' = job, lease' = lease PROVE UNCHANGED Delivery!vars
  BY <1>6 DEF Delivery!vars, Phase, Held
<1>7. QED
  BY <1>1, <1>2, <1>3, <1>4, <1>5, <1>6
  DEF Next, Settle, FenceLost, AbandonBatch, vars

\* The outbox implements leased delivery, for any number of jobs and
\* workers: one holder at a time, and only the holder is believed.
THEOREM OutboxImplementsLeasedDelivery == Spec => ImplementsLeasedDelivery
<1>1. QED
  BY TypeCorrect, InitRefines, StepRefines, PTL
  DEF Spec, ImplementsLeasedDelivery, Delivery!Spec
=============================================================================
