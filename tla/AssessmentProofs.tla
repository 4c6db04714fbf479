-------------------------- MODULE AssessmentProofs --------------------------
(***************************************************************************)
(* Theorems about Assessment for any number of workers and operators, any  *)
(* number of assessments of the case, of changes around them and of lost   *)
(* leases and crashes.                                                     *)
(***************************************************************************)
EXTENDS Assessment, FiniteSetTheorems, TLAPS

\* Every rewritten row was counted.
RowsCounted == rows.version <= changes

\* The versions a case has left cover the capture, and the verdict before it.
CaseHasRoom ==
    /\ case.state \in Open => case.version + 1 <= MaxVersion
    /\ case.state = "APPROVAL_REQUIRED" => case.version + 2 <= MaxVersion

\* A case that is still assessed has nothing to show for it yet; one that waits
\* for an approval has a decision that asks for it and no action; what expired was
\* asked for.
NothingBeforeItsTime ==
    /\ case.state \in Assessable => actions = {} /\ approval.verdict = "NONE"
    /\ approval.verdict = "PENDING" => actions = {} /\ decision[approval.version] = "REVIEW"
    /\ approval.lapsed => approval.verdict # "NONE"

\* A payment never goes back to failed.
AskedBefore == asked \in {"authorized", "captured"} => payment # "failed"

\* A handler has a plan of its job's kind, and an approval in its hands was
\* asked for.
PlanFitsJob(w) ==
    /\ h[w].at = "ready" /\ h[w].job # ApproveJob => h[w].plan \in Plans
    /\ h[w].at \in {"ready"} \cup InTransaction /\ h[w].job = ApproveJob => h[w].plan \in Verdicts
    /\ h[w].at \in {"inserted", "queued"} => h[w].plan = "APPROVED"
    /\ h[w].at \in {"loaded", "ready"} \cup InTransaction /\ h[w].job = ApproveJob
          => phase[ApproveJob] # "absent"

\* A plan to go ahead was made on a payment that failed after the request.
PlanFollowsRequest(w) ==
    h[w].at \in {"ready"} \cup InTransaction /\ h[w].job = ApproveJob /\ h[w].plan = "APPROVED"
        => asked \notin {"authorized", "captured"}

\* Only the holder of the row lock is between lock and commit, and what it
\* found pending stays pending.
LockProtects(w) ==
    h[w].at \in InTransaction => lock = w /\ h[w].job = ApproveJob /\ Pending

HandlersInOrder ==
    \A w \in Workers : PlanFitsJob(w) /\ PlanFollowsRequest(w) /\ LockProtects(w)

\* The inductive invariant.
AInv ==
    /\ AssessmentTypeOK
    /\ RowsCounted
    /\ CaseHasRoom
    /\ NothingBeforeItsTime
    /\ AskedBefore
    /\ HandlersInOrder
    /\ IntentIsAuthorized
    /\ VerdictIsCarriedOut
    /\ PaymentBeatsApproval


-----------------------------------------------------------------------------
\* The commands there are.
LEMMA JobFacts ==
    /\ ApproveJob \in Jobs
    /\ \A j \in Jobs : j # ApproveJob => j[2] \in 0..MaxVersion
    /\ \A v \in 0..MaxVersion : AssessJob(v) \in Jobs /\ AssessJob(v) # ApproveJob
<1>1. \A v \in 0..MaxVersion : AssessJob(v)[2] = v /\ AssessJob(v) # ApproveJob
  BY DEF AssessJob, ApproveJob
<1>2. QED
  BY <1>1, AssessmentJobs

\* A delivery step of the outbox, as far as the handlers depend on it.
Delivers ==
    /\ phase' \in [Jobs -> {"absent", "ready", "held", "done", "dead"}]
    /\ holder' \in [Jobs -> Workers \cup {NoWorker}]
    /\ \A j \in Jobs : phase[j] # "absent" => phase'[j] # "absent"

\* Submitting a job withdraws no other.
LEMMA SubmitDelivers ==
    ASSUME AssessmentTypeOK, NEW j \in Jobs, Submit(j) PROVE Delivers
BY DEF AssessmentTypeOK, Submit, Delivers

\* A claim only takes jobs that were submitted.
LEMMA TakeDelivers ==
    ASSUME AssessmentTypeOK, NEW w \in Workers, NEW j \in Jobs, Take(w, {j}, {})
    PROVE  Delivers /\ phase[j] # "absent"
BY DEF AssessmentTypeOK, Take, Delivers

\* A settled job stays submitted.
LEMMA ReleaseDelivers ==
    ASSUME AssessmentTypeOK, NEW w \in Workers, NEW j \in Jobs, NEW to, Release(w, j, to)
    PROVE  Delivers
BY DEF AssessmentTypeOK, Release, Delivers

\* A job whose lease ran out stays submitted.
LEMMA ExpireDelivers ==
    ASSUME AssessmentTypeOK, NEW j \in Jobs, Expire({j}) PROVE Delivers
BY DEF AssessmentTypeOK, Expire, Delivers

\* Steps outside the outbox change no delivery.
LEMMA QuietDelivers ==
    ASSUME AssessmentTypeOK, UNCHANGED vars PROVE Delivers
BY DEF AssessmentTypeOK, vars, Delivers

\* What a handler's record holds after each kind of step.
LEMMA HandlerForms ==
    ASSUME AssessmentTypeOK, NEW w \in Workers, NEW job \in Jobs,
           NEW to \in {"ready", "done", "dead"}, NEW plan \in Plans \cup Verdicts,
           NEW at \in InTransaction
    PROVE  /\ h[w] \in Handler
           /\ Idle \in Handler /\ Idle.at = "idle"
           /\ Settling(job, to) \in Handler /\ Settling(job, to).at = "settle"
           /\ [at |-> "loaded", job |-> job, snap |-> Snapshot, plan |-> "none",
               to |-> "ready"] \in Handler
           /\ Planned(w, plan) \in Handler
           /\ [h[w] EXCEPT !.at = at] \in Handler
<1>1. h[w] \in Handler
  BY DEF AssessmentTypeOK
<1>2. NoSnap \in [rows: 0..MaxChanges, truth: {"UNPAID", "PAID"},
                  version: 0..MaxVersion, kill: BOOLEAN, active: BOOLEAN]
  BY AssessmentBounds DEF NoSnap
<1>3. Snapshot \in [rows: 0..MaxChanges, truth: {"UNPAID", "PAID"},
                    version: 0..MaxVersion, kill: BOOLEAN, active: BOOLEAN]
  BY DEF Snapshot, AssessmentTypeOK
<1>4. Idle \in Handler /\ Idle.at = "idle"
  BY <1>2, JobFacts DEF Idle, Handler
<1>5. Settling(job, to) \in Handler /\ Settling(job, to).at = "settle"
  BY <1>2 DEF Settling, Handler
<1>6. [at |-> "loaded", job |-> job, snap |-> Snapshot, plan |-> "none",
       to |-> "ready"] \in Handler
  BY <1>3 DEF Handler
<1>7. Planned(w, plan) \in Handler
  BY <1>1 DEF Planned, Handler
<1>8. [h[w] EXCEPT !.at = at] \in Handler
  BY <1>1 DEF Handler
<1>9. QED
  BY <1>1, <1>4, <1>5, <1>6, <1>7, <1>8

\* A step of one handler that leaves the database alone.
LEMMA HandlerStep ==
    ASSUME AInv, NEW w \in Workers, NEW rec \in Handler, Working(w, rec),
           UNCHANGED <<payment, control, db>>, Delivers,
           interruptions' \in 0..MaxInterruptions, lock' \in Workers \cup {NoWorker},
           \A u \in Workers \ {w} : lock = u => lock' = u,
           PlanFitsJob(w)', PlanFollowsRequest(w)', LockProtects(w)'
    PROVE  AInv'
<1>1. /\ h \in [Workers -> Handler]
      /\ h' \in [Workers -> Handler]
      /\ \A u \in Workers \ {w} : h'[u] = h[u]
  BY DEF AInv, AssessmentTypeOK, Working
<1>2. /\ payment' = payment /\ merchant' = merchant /\ rows' = rows /\ changes' = changes
      /\ case' = case /\ due' = due /\ decision' = decision /\ approval' = approval
      /\ asked' = asked /\ actions' = actions
  BY DEF control, db
<1>3. AssessmentTypeOK'
  BY <1>1, <1>2 DEF AInv, AssessmentTypeOK, Delivers
<1>4. HandlersInOrder'
  <2>1. ASSUME NEW u \in Workers, u # w
        PROVE  PlanFitsJob(u)' /\ PlanFollowsRequest(u)' /\ LockProtects(u)'
    BY <1>1, <1>2, <2>1, JobFacts
    DEF AInv, HandlersInOrder, PlanFitsJob, PlanFollowsRequest, LockProtects, Delivers, Pending
  <2>2. QED
    BY <2>1 DEF HandlersInOrder
<1>5. (/\ RowsCounted /\ CaseHasRoom /\ NothingBeforeItsTime /\ AskedBefore
       /\ IntentIsAuthorized /\ VerdictIsCarriedOut /\ PaymentBeatsApproval)'
  BY <1>2 DEF AInv, RowsCounted, CaseHasRoom, NothingBeforeItsTime, AskedBefore,
      IntentIsAuthorized, VerdictIsCarriedOut, PaymentBeatsApproval
<1>6. QED
  BY <1>3, <1>4, <1>5 DEF AInv

\* What happens at the provider, to the deadlines, to the merchant and to the
\* rows disturbs no handler.
LEMMA EnvironmentStep ==
    ASSUME AInv,
           \/ PaymentProgresses \/ TimePasses \/ RowsEnriched
           \/ \E field \in {"active", "kill"} : ControlsChange(field)
    PROVE  AInv'
<1>1. /\ phase' = phase /\ holder' = holder /\ case' = case /\ decision' = decision
      /\ asked' = asked /\ actions' = actions /\ lock' = lock /\ h' = h
      /\ interruptions' = interruptions
  BY DEF PaymentProgresses, TimePasses, RowsEnriched, ControlsChange, vars, control, db
<1>2. /\ payment' \in {"failed", "authorized", "captured"}
      /\ payment # "failed" => payment' # "failed"
      /\ due' \in BOOLEAN
  BY DEF PaymentProgresses, TimePasses, RowsEnriched, ControlsChange, control, db,
         AInv, AssessmentTypeOK
<1>3. /\ approval'.verdict = approval.verdict /\ approval'.version = approval.version
      /\ approval'.lapsed => approval.lapsed \/ approval.verdict = "PENDING"
      /\ approval' \in [verdict: {"NONE", "PENDING", "APPROVED"} \cup Refusals,
                        version: 0..MaxVersion, lapsed: BOOLEAN, by: Operators \cup {None}]
  BY DEF PaymentProgresses, TimePasses, RowsEnriched, ControlsChange, db,
         AInv, AssessmentTypeOK
<1>4. /\ merchant' \in [active: BOOLEAN, kill: BOOLEAN]
      /\ rows' \in [truth: {"UNPAID", "PAID"}, failed: BOOLEAN, version: 0..MaxChanges]
      /\ changes' \in 0..MaxChanges
      /\ rows'.version <= changes'
  <2>1. CASE PaymentProgresses \/ TimePasses
    BY <2>1 DEF PaymentProgresses, TimePasses, control, AInv, AssessmentTypeOK, RowsCounted
  <2>2. CASE RowsEnriched
    BY <2>2, AssessmentBounds DEF RowsEnriched, AInv, AssessmentTypeOK, RowsCounted
  <2>3. ASSUME NEW field \in {"active", "kill"}, ControlsChange(field)
        PROVE  /\ merchant' \in [active: BOOLEAN, kill: BOOLEAN]
               /\ rows' = rows /\ changes' = changes + 1 /\ changes < MaxChanges
    <3>1. CASE field = "active"
      BY <2>3, <3>1 DEF ControlsChange, AInv, AssessmentTypeOK
    <3>2. CASE field = "kill"
      BY <2>3, <3>2 DEF ControlsChange, AInv, AssessmentTypeOK
    <3>3. QED
      BY <2>3, <3>1, <3>2
  <2>4. QED
    BY <2>1, <2>2, <2>3, AssessmentBounds DEF AInv, AssessmentTypeOK, RowsCounted
<1>5. AssessmentTypeOK'
  BY <1>1, <1>2, <1>3, <1>4 DEF AInv, AssessmentTypeOK
<1>6. HandlersInOrder'
  BY <1>1, <1>3
  DEF AInv, HandlersInOrder, PlanFitsJob, PlanFollowsRequest, LockProtects, Pending
<1>7. (/\ RowsCounted /\ CaseHasRoom /\ NothingBeforeItsTime /\ AskedBefore
       /\ IntentIsAuthorized /\ VerdictIsCarriedOut /\ PaymentBeatsApproval)'
  BY <1>1, <1>2, <1>3, <1>4 DEF AInv, RowsCounted, CaseHasRoom, NothingBeforeItsTime,
      AskedBefore, IntentIsAuthorized, VerdictIsCarriedOut, PaymentBeatsApproval
<1>8. QED
  BY <1>5, <1>6, <1>7 DEF AInv

\* A projected capture closes an open case; no handler is between lock and
\* commit meanwhile.
LEMMA CaptureStep == ASSUME AInv, CaptureProjected PROVE AInv'
<1>1. /\ phase' = phase /\ holder' = holder /\ payment' = payment /\ merchant' = merchant
      /\ due' = due /\ decision' = decision /\ approval' = approval /\ asked' = asked
      /\ actions' = actions /\ lock' = lock /\ h' = h /\ interruptions' = interruptions
      /\ lock = NoWorker
  BY DEF CaptureProjected, vars
<1>2. /\ rows' \in [truth: {"UNPAID", "PAID"}, failed: BOOLEAN, version: 0..MaxChanges]
      /\ changes' \in 0..MaxChanges
      /\ rows'.version <= changes'
  BY AssessmentBounds DEF CaptureProjected, AInv, AssessmentTypeOK, RowsCounted
<1>3. /\ case' \in [state: Plans, version: 0..MaxVersion]
      /\ case'.state \notin Open
      /\ case.state = "SUPPRESSED_POLICY" => case' = case
  <2>1. case.state \in Plans /\ case.version \in 0..MaxVersion
    BY DEF AInv, AssessmentTypeOK
  <2>2. CASE case.state \in Open
    <3>1. case' = [state |-> "SUPPRESSED_PAID", version |-> case.version + 1]
      BY <2>2 DEF CaptureProjected
    <3>2. case.version + 1 \in 0..MaxVersion
      BY <2>1, <2>2, AssessmentBounds DEF AInv, CaseHasRoom
    <3>3. QED
      BY <2>2, <3>1, <3>2 DEF Open, Plans, Assessable
  <2>3. CASE case.state \notin Open
    BY <2>1, <2>3 DEF CaptureProjected, AInv, AssessmentTypeOK
  <2>4. QED
    BY <2>2, <2>3
<1>4. AssessmentTypeOK'
  BY <1>1, <1>2, <1>3 DEF AInv, AssessmentTypeOK
<1>5. HandlersInOrder'
  BY <1>1, AssessmentBounds
  DEF AInv, HandlersInOrder, PlanFitsJob, PlanFollowsRequest, LockProtects, Pending
<1>6. (/\ RowsCounted /\ CaseHasRoom /\ NothingBeforeItsTime /\ AskedBefore
       /\ IntentIsAuthorized /\ PaymentBeatsApproval)'
  BY <1>1, <1>2, <1>3 DEF AInv, RowsCounted, CaseHasRoom, NothingBeforeItsTime,
      AskedBefore, IntentIsAuthorized, PaymentBeatsApproval, Open
<1>7. VerdictIsCarriedOut'
  BY <1>1, <1>3 DEF AInv, VerdictIsCarriedOut
<1>8. QED
  BY <1>4, <1>5, <1>6, <1>7 DEF AInv

\* Scheduling only adds a command to the outbox.
LEMMA ScheduleStep == ASSUME AInv, Schedule PROVE AInv'
<1>1. case.version \in 0..MaxVersion
  BY DEF AInv, AssessmentTypeOK
<1>2. Delivers
  BY <1>1, JobFacts, SubmitDelivers DEF Schedule, Command, AInv
<1>3. /\ payment' = payment /\ merchant' = merchant /\ rows' = rows /\ changes' = changes
      /\ case' = case /\ due' = due /\ decision' = decision /\ approval' = approval
      /\ asked' = asked /\ actions' = actions /\ lock' = lock /\ h' = h
      /\ interruptions' = interruptions
  BY DEF Schedule, control, db
<1>4. AssessmentTypeOK'
  BY <1>2, <1>3 DEF AInv, AssessmentTypeOK, Delivers
<1>5. HandlersInOrder'
  BY <1>2, <1>3, JobFacts
  DEF AInv, HandlersInOrder, PlanFitsJob, PlanFollowsRequest, LockProtects, Pending, Delivers
<1>6. (/\ RowsCounted /\ CaseHasRoom /\ NothingBeforeItsTime /\ AskedBefore
       /\ IntentIsAuthorized /\ VerdictIsCarriedOut /\ PaymentBeatsApproval)'
  BY <1>3 DEF AInv, RowsCounted, CaseHasRoom, NothingBeforeItsTime, AskedBefore,
      IntentIsAuthorized, VerdictIsCarriedOut, PaymentBeatsApproval
<1>7. QED
  BY <1>4, <1>5, <1>6 DEF AInv

\* Steps of a handler that only read, or only report.
LEMMA LoadStep ==
    ASSUME AInv, NEW w \in Workers, NEW job \in Jobs, Load(w, job) \/ LoadRefused(w, job)
    PROVE  AInv'
<1>1. PICK rec \in Handler :
          /\ Claim(w, job, rec)
          /\ rec.at \in {"loaded", "settle"}
          /\ rec.at = "loaded" => rec.job = job
  BY HandlerForms DEF Load, LoadRefused, AInv, Settling, Plans, InTransaction
<1>2. Delivers /\ phase[job] # "absent"
  BY <1>1, TakeDelivers DEF Claim, AInv
<1>3. /\ h'[w] = rec /\ UNCHANGED <<payment, control, db, lock, interruptions>>
      /\ Working(w, rec)
  BY <1>1 DEF Claim, Working, AInv, AssessmentTypeOK
<1>4. /\ PlanFitsJob(w)' /\ PlanFollowsRequest(w)' /\ LockProtects(w)'
  BY <1>1, <1>2, <1>3 DEF PlanFitsJob, PlanFollowsRequest, LockProtects, Delivers, InTransaction
<1>5. interruptions' \in 0..MaxInterruptions /\ lock' \in Workers \cup {NoWorker}
  BY <1>3 DEF AInv, AssessmentTypeOK
<1>6. QED
  BY <1>2, <1>3, <1>4, <1>5, HandlerStep

\* A plan for a case is one of Plans; one for an approval is a verdict, and it is
\* to go ahead only when the provider still says failed.
LEMMA PlanFacts ==
    ASSUME NEW truth \in {"failed", "authorized", "captured"}, NEW diagnosis, NEW reasons
    PROVE  Plan(truth, diagnosis, reasons) \in Plans
BY DEF Plan, Suppressed, Plans, Open, Assessable

\* Reading the provider changes the handler's plan and no row.
LEMMA FetchStep ==
    ASSUME AInv, NEW w \in Workers, FetchForAssessment(w) \/ FetchForApproval(w)
    PROVE  AInv'
<1>1. PICK plan \in Plans \cup Verdicts :
          /\ Working(w, Planned(w, plan))
          /\ At(w, "loaded")
          /\ h[w].job # ApproveJob => plan \in Plans
          /\ h[w].job = ApproveJob => plan \in Verdicts
          /\ h[w].job = ApproveJob /\ plan = "APPROVED" => payment = "failed"
  <2>1. CASE FetchForAssessment(w)
    <3>1. PICK sick \in BOOLEAN, stale \in BOOLEAN, diagnosis \in Diagnoses :
              Working(w, Planned(w, Plan(FreshTruth, diagnosis,
                                         HardReasons(FreshTruth, h[w].snap, sick, stale))))
      BY <2>1 DEF FetchForAssessment
    <3>2. FreshTruth \in {"failed", "authorized", "captured"}
      BY DEF FreshTruth, AInv, AssessmentTypeOK
    <3>3. QED
      BY <2>1, <3>1, <3>2, PlanFacts DEF FetchForAssessment
  <2>2. CASE FetchForApproval(w)
    <3>1. PICK sick \in BOOLEAN, stale \in BOOLEAN :
              Working(w, Planned(w, IF approval.lapsed THEN "EXPIRED"
                                    ELSE IF HardReasons(FreshTruth, h[w].snap, sick, stale) # {}
                                         THEN "CANCELLED" ELSE "APPROVED"))
      BY <2>2 DEF FetchForApproval
    <3>2. payment # "failed" => "PAYMENT_TRUTH_NOT_UNPAID"
                                  \in HardReasons(FreshTruth, h[w].snap, sick, stale)
      BY DEF HardReasons, FreshTruth
    <3>3. QED
      BY <2>2, <3>1, <3>2 DEF FetchForApproval, Verdicts
  <2>3. QED
    BY <2>1, <2>2
<1>2. UNCHANGED <<vars, payment, control, db, lock, interruptions>>
  BY DEF FetchForAssessment, FetchForApproval
<1>3. Planned(w, plan) \in Handler /\ Delivers
  BY <1>2, HandlerForms, QuietDelivers, JobFacts DEF AInv, InTransaction
<1>4. /\ h'[w].at = "ready" /\ h'[w].job = h[w].job /\ h'[w].plan = plan
  BY <1>1 DEF Working, Planned, AInv, AssessmentTypeOK
<1>5. PlanFitsJob(w)'
  BY <1>1, <1>2, <1>4, JobFacts DEF PlanFitsJob, AInv, HandlersInOrder, At, vars
<1>6. PlanFollowsRequest(w)' /\ LockProtects(w)'
  BY <1>1, <1>2, <1>4 DEF PlanFollowsRequest, LockProtects, AInv, AskedBefore, db, InTransaction
<1>7. interruptions' \in 0..MaxInterruptions /\ lock' = lock /\ lock \in Workers \cup {NoWorker}
  BY <1>2 DEF AInv, AssessmentTypeOK
<1>8. UNCHANGED <<payment, control, db>>
  BY <1>2
<1>9. QED
  BY <1>1, <1>3, <1>5, <1>6, <1>7, <1>8, HandlerStep

\* A handler that ends without a commit: it reports, it rolls back.
LEMMA ResultStep ==
    ASSUME AInv, NEW w \in Workers, NEW to \in {"ready", "done", "dead"}, Result(w, to),
           UNCHANGED <<vars, payment, control, db, interruptions>>,
           lock' = lock \/ (h[w].at \in InTransaction /\ lock' = NoWorker)
    PROVE  AInv'
<1>1. h[w].job \in Jobs
  BY DEF AInv, AssessmentTypeOK, Handler
<1>2. Settling(h[w].job, to) \in Handler /\ Settling(h[w].job, to).at = "settle" /\ Delivers
  BY <1>1, HandlerForms, QuietDelivers DEF AInv, Plans, InTransaction
<1>3. h'[w].at = "settle" /\ Working(w, Settling(h[w].job, to))
  BY <1>2 DEF Result, Working, AInv, AssessmentTypeOK
<1>4. PlanFitsJob(w)' /\ PlanFollowsRequest(w)' /\ LockProtects(w)'
  BY <1>3 DEF PlanFitsJob, PlanFollowsRequest, LockProtects, InTransaction
<1>5. /\ interruptions' \in 0..MaxInterruptions /\ lock' \in Workers \cup {NoWorker}
      /\ \A u \in Workers \ {w} : lock = u => lock' = u
  BY DEF AInv, AssessmentTypeOK, HandlersInOrder, LockProtects, At
<1>6. QED
  BY <1>2, <1>3, <1>4, <1>5, HandlerStep

\* The row lock is taken on what is pending.
LEMMA LockStep == ASSUME AInv, NEW w \in Workers, LockApproval(w) PROVE AInv'
<1>1. /\ h[w].at = "ready" /\ h[w].job = ApproveJob /\ lock = NoWorker /\ Pending /\ lock' = w
      /\ UNCHANGED <<vars, payment, control, db, interruptions>>
      /\ Working(w, [h[w] EXCEPT !.at = "locked"])
  BY DEF LockApproval, At, StillPending
<1>2. [h[w] EXCEPT !.at = "locked"] \in Handler /\ Delivers /\ h[w] \in Handler
  BY <1>1, HandlerForms, QuietDelivers, JobFacts DEF AInv, Plans, InTransaction
<1>3. h'[w].at = "locked" /\ h'[w].job = h[w].job /\ h'[w].plan = h[w].plan
  BY <1>1, <1>2 DEF Working, Handler, AInv, AssessmentTypeOK
<1>4. PlanFitsJob(w)' /\ PlanFollowsRequest(w)'
  BY <1>1, <1>2, <1>3, JobFacts DEF PlanFitsJob, PlanFollowsRequest, AInv, HandlersInOrder, db, vars
<1>5. LockProtects(w)'
  BY <1>1, <1>3 DEF LockProtects, Pending, db
<1>6. /\ interruptions' \in 0..MaxInterruptions /\ lock' \in Workers \cup {NoWorker}
      /\ \A u \in Workers \ {w} : lock = u => lock' = u
  BY <1>1, AssessmentBounds DEF AInv, AssessmentTypeOK
<1>7. QED
  BY <1>1, <1>2, <1>4, <1>5, <1>6, HandlerStep

\* The transaction goes on to its next write under the lock it holds.
LEMMA WriteStep ==
    ASSUME AInv, NEW w \in Workers, InsertAction(w) \/ QueueCase(w) PROVE AInv'
<1>1. PICK at \in {"inserted", "queued"} :
          Writing(w, at) /\ h[w].at \in InTransaction /\ h[w].plan = "APPROVED"
  BY DEF InsertAction, QueueCase, At, AInv, HandlersInOrder, PlanFitsJob, InTransaction
<1>2. /\ UNCHANGED <<vars, payment, control, db, lock, interruptions>>
      /\ Working(w, [h[w] EXCEPT !.at = at])
  BY <1>1 DEF Writing
<1>3. [h[w] EXCEPT !.at = at] \in Handler /\ Delivers /\ h[w] \in Handler
  BY <1>2, HandlerForms, QuietDelivers, JobFacts DEF AInv, Plans, InTransaction
<1>4. h'[w].at = at /\ h'[w].job = h[w].job /\ h'[w].plan = h[w].plan
  BY <1>2, <1>3 DEF Working, Handler, AInv, AssessmentTypeOK
<1>5. PlanFitsJob(w)' /\ PlanFollowsRequest(w)'
  BY <1>1, <1>2, <1>4, JobFacts
  DEF PlanFitsJob, PlanFollowsRequest, AInv, HandlersInOrder, InTransaction, db, vars
<1>6. LockProtects(w)'
  BY <1>1, <1>2, <1>4 DEF LockProtects, Pending, AInv, HandlersInOrder, db
<1>7. /\ interruptions' \in 0..MaxInterruptions /\ lock' \in Workers \cup {NoWorker}
      /\ \A u \in Workers \ {w} : lock = u => lock' = u
  BY <1>2 DEF AInv, AssessmentTypeOK
<1>8. QED
  BY <1>2, <1>3, <1>5, <1>6, <1>7, HandlerStep

\* Settling a job, losing it, and losing its lease unnoticed.
LEMMA DeliveryStep ==
    ASSUME AInv, NEW w \in Workers, Settle(w) \/ Interrupted(w)
    PROVE  AInv'
<1>1. h[w].job \in Jobs
  BY DEF AInv, AssessmentTypeOK, Handler
<1>2. Delivers
  <2>1. CASE Settle(w)
    BY <1>1, <2>1, ReleaseDelivers, QuietDelivers DEF Settle, AInv
  <2>2. CASE Interrupted(w)
    BY <1>1, <2>2, ExpireDelivers, QuietDelivers DEF Interrupted, AInv
  <2>3. QED
    BY <2>1, <2>2
<1>3. /\ Working(w, Idle) /\ UNCHANGED <<payment, control, db>>
  BY DEF Settle, Interrupted
<1>4. Idle \in Handler /\ Idle.at = "idle"
  BY HandlerForms, <1>1 DEF AInv, Plans, InTransaction
<1>5. h'[w].at = "idle"
  BY <1>3, <1>4 DEF Working, AInv, AssessmentTypeOK
<1>6. PlanFitsJob(w)' /\ PlanFollowsRequest(w)' /\ LockProtects(w)'
  BY <1>5 DEF PlanFitsJob, PlanFollowsRequest, LockProtects, InTransaction
<1>7. interruptions' \in 0..MaxInterruptions
  BY AssessmentBounds DEF Settle, Interrupted, AInv, AssessmentTypeOK
<1>8. /\ lock' \in Workers \cup {NoWorker}
      /\ \A u \in Workers \ {w} : lock = u => lock' = u
  BY DEF Settle, Interrupted, Unlock, AInv, AssessmentTypeOK
<1>9. QED
  BY <1>2, <1>3, <1>4, <1>6, <1>7, <1>8, HandlerStep

\* A lease that runs out under a worker leaves its handler as it is.
LEMMA LapseStep == ASSUME AInv, NEW w \in Workers, LeaseLapses(w) PROVE AInv'
<1>1. h[w].job \in Jobs /\ h[w] \in Handler
  BY DEF AInv, AssessmentTypeOK, Handler
<1>2. Delivers
  BY <1>1, ExpireDelivers DEF LeaseLapses, AInv
<1>3. Working(w, h[w]) /\ h' = h /\ lock' = lock /\ UNCHANGED <<payment, control, db>>
  BY DEF LeaseLapses, Working, AInv, AssessmentTypeOK
<1>4. PlanFitsJob(w)' /\ PlanFollowsRequest(w)' /\ LockProtects(w)'
  BY <1>2, <1>3, JobFacts DEF PlanFitsJob, PlanFollowsRequest, LockProtects, Delivers, Pending,
                              AInv, HandlersInOrder, db
<1>5. /\ interruptions' \in 0..MaxInterruptions /\ lock' \in Workers \cup {NoWorker}
      /\ \A u \in Workers \ {w} : lock = u => lock' = u
  BY <1>3, AssessmentBounds DEF LeaseLapses, AInv, AssessmentTypeOK
<1>6. QED
  BY <1>1, <1>2, <1>3, <1>4, <1>5, HandlerStep

-----------------------------------------------------------------------------
\* Approval rows.
Approvals == [verdict: {"NONE", "PENDING", "APPROVED"} \cup Refusals,
              version: 0..MaxVersion, lapsed: BOOLEAN, by: Operators \cup {None}]

\* The rows a commit leaves behind.
Committed ==
    /\ case' \in [state: Plans, version: 0..MaxVersion]
    /\ due' \in BOOLEAN
    /\ decision' \in [0..MaxVersion -> {"NONE", "ALLOWED", "REVIEW", "BLOCKED"}]
    /\ approval' \in Approvals
    /\ actions' \subseteq [version: 0..MaxVersion, reviewed: BOOLEAN]
    /\ (/\ CaseHasRoom /\ NothingBeforeItsTime /\ IntentIsAuthorized /\ VerdictIsCarriedOut
        /\ PaymentBeatsApproval)'

\* A commit of one handler, made while nobody else holds the row lock.
LEMMA CommitStep ==
    ASSUME AInv, NEW w \in Workers, Result(w, "done"),
           UNCHANGED <<vars, payment, control, asked, interruptions>>,
           lock \in {NoWorker, w}, lock' = NoWorker, Committed
    PROVE  AInv'
<1>1. h[w].job \in Jobs
  BY DEF AInv, AssessmentTypeOK, Handler
<1>2. Settling(h[w].job, "done") \in Handler /\ Settling(h[w].job, "done").at = "settle"
  BY <1>1, HandlerForms DEF AInv, Plans, InTransaction
<1>3. /\ h' \in [Workers -> Handler] /\ h'[w].at = "settle"
      /\ \A u \in Workers \ {w} : h'[u] = h[u]
  BY <1>2 DEF Result, Working, AInv, AssessmentTypeOK
<1>4. /\ phase' = phase /\ holder' = holder /\ payment' = payment /\ merchant' = merchant
      /\ rows' = rows /\ changes' = changes /\ asked' = asked /\ interruptions' = interruptions
  BY DEF vars, control
<1>5. AssessmentTypeOK'
  BY <1>3, <1>4 DEF AInv, AssessmentTypeOK, Committed, Approvals
<1>6. HandlersInOrder'
  BY <1>3, <1>4, AssessmentBounds
  DEF AInv, HandlersInOrder, PlanFitsJob, PlanFollowsRequest, LockProtects, InTransaction
<1>7. RowsCounted' /\ AskedBefore'
  BY <1>4 DEF AInv, RowsCounted, AskedBefore
<1>8. QED
  BY <1>5, <1>6, <1>7 DEF AInv, Committed

\* One action is at most one action.
LEMMA SingleAction == ASSUME NEW a PROVE Cardinality({a}) <= 1 /\ Cardinality({}) <= 1
BY FS_Singleton, FS_EmptySet

\* _persist of an assessment: the verdict, its intent and its approval job are one commit.
LEMMA CommitPlanStep == ASSUME AInv, NEW w \in Workers, CommitPlan(w) PROVE AInv'
<1> DEFINE v == h[w].job[2]
           plan == h[w].plan
<1>1. /\ h[w].at = "ready" /\ h[w].job # ApproveJob /\ lock = NoWorker /\ lock' = lock
      /\ case.state \in Assessable /\ Persist(v, plan) /\ Result(w, "done")
      /\ UNCHANGED <<vars, payment, control, asked, interruptions>>
  BY DEF CommitPlan, At, Stands, Eligible, CaseEligible
<1>2. v \in 0..MaxVersion /\ plan \in Plans
  BY <1>1, JobFacts DEF AInv, AssessmentTypeOK, Handler, HandlersInOrder, PlanFitsJob
<1>3. actions = {} /\ approval.verdict = "NONE" /\ ~approval.lapsed
  BY <1>1 DEF AInv, NothingBeforeItsTime
<1> HIDE DEF v, plan
<1>4. v + 1 \in 0..MaxVersion /\ v + 2 \in 0..MaxVersion /\ v + 4 <= MaxVersion
  BY <1>1, <1>2, AssessmentBounds DEF Persist
<1>5. /\ case' = [state |-> plan, version |-> v + 2] /\ due' = FALSE
      /\ decision' = [decision EXCEPT ![v + 1] = DecisionOf(plan)]
      /\ IF plan = "ACTION_QUEUED" THEN PersistAuthorized(v) ELSE PersistBlocked(v, plan)
  BY <1>1 DEF Persist
<1>6. /\ case' \in [state: Plans, version: 0..MaxVersion] /\ due' \in BOOLEAN
      /\ decision' \in [0..MaxVersion -> {"NONE", "ALLOWED", "REVIEW", "BLOCKED"}]
      /\ decision'[v + 1] = DecisionOf(plan)
  BY <1>2, <1>4, <1>5 DEF DecisionOf, AInv, AssessmentTypeOK
<1>7. CaseHasRoom'
  BY <1>2, <1>4, <1>5, AssessmentBounds DEF CaseHasRoom
<1>8. CASE plan = "ACTION_QUEUED"
  <2>1. actions' = {[version |-> v + 1, reviewed |-> FALSE]} /\ approval' = approval
    BY <1>3, <1>5, <1>8 DEF PersistAuthorized
  <2>2. decision'[v + 1] = "ALLOWED" /\ case'.state = "ACTION_QUEUED"
    BY <1>5, <1>6, <1>8 DEF DecisionOf
  <2>3. actions' \subseteq [version: 0..MaxVersion, reviewed: BOOLEAN] /\ approval' \in Approvals
    BY <1>4, <2>1 DEF AInv, AssessmentTypeOK, Approvals
  <2>4. IntentIsAuthorized'
    <3>1. Cardinality(actions') <= 1
      BY <2>1, SingleAction
    <3>2. \A a \in actions' : ~a.reviewed /\ decision'[a.version] = "ALLOWED"
      BY <2>1, <2>2
    <3>3. QED
      BY <3>1, <3>2 DEF IntentIsAuthorized
  <2>5. (NothingBeforeItsTime /\ VerdictIsCarriedOut /\ PaymentBeatsApproval)'
    BY <1>3, <2>1, <2>2
    DEF NothingBeforeItsTime, VerdictIsCarriedOut, PaymentBeatsApproval, Assessable, Refusals
  <2>6. QED
    BY <1>1, <1>6, <1>7, <2>3, <2>4, <2>5, CommitStep DEF Committed
<1>9. CASE plan # "ACTION_QUEUED"
  <2>1. actions' = {}
    BY <1>3, <1>5, <1>9 DEF PersistBlocked
  <2>2. approval' \in Approvals /\ approval'.verdict \in {"NONE", "PENDING"} /\ ~approval'.lapsed
        /\ (approval'.verdict = "PENDING" =>
                plan = "APPROVAL_REQUIRED" /\ approval'.version = v + 1)
    <3>1. CASE plan = "APPROVAL_REQUIRED"
      <4>1. approval' = [verdict |-> "PENDING", version |-> v + 1, lapsed |-> FALSE, by |-> None]
        BY <1>5, <1>9, <3>1 DEF PersistBlocked
      <4>2. QED
        BY <1>4, <3>1, <4>1 DEF Approvals
    <3>2. CASE plan # "APPROVAL_REQUIRED"
      <4>1. approval' = approval
        BY <1>5, <1>9, <3>2 DEF PersistBlocked
      <4>2. QED
        BY <1>3, <4>1 DEF Approvals, AInv, AssessmentTypeOK
    <3>3. QED
      BY <3>1, <3>2
  <2>3. IntentIsAuthorized'
    BY <2>1, SingleAction DEF IntentIsAuthorized
  <2>4. NothingBeforeItsTime'
    <3>1. case'.state = plan
      BY <1>5
    <3>2. plan \in Assessable => approval'.verdict = "NONE"
      BY <2>2 DEF Assessable
    <3>3. plan = "APPROVAL_REQUIRED" => decision'[v + 1] = "REVIEW"
      BY <1>6 DEF DecisionOf
    <3>4. QED
      BY <2>1, <2>2, <3>1, <3>2, <3>3 DEF NothingBeforeItsTime
  <2>5. VerdictIsCarriedOut' /\ PaymentBeatsApproval'
    BY <2>1, <2>2 DEF VerdictIsCarriedOut, PaymentBeatsApproval, Refusals
  <2>6. QED
    BY <1>1, <1>6, <1>7, <2>1, <2>2, <2>3, <2>4, <2>5, CommitStep DEF Committed
<1>10. QED
  BY <1>8, <1>9

\* The approval handler re-checks case and payment under its locks before it commits.
LEMMA CommitApprovalStep == ASSUME AInv, NEW w \in Workers, CommitApproval(w) PROVE AInv'
<1>1. /\ h[w].at = "queued"
      /\ approval' = [approval EXCEPT !.verdict = "APPROVED"]
      /\ actions' = actions \cup {[version |-> approval.version, reviewed |-> TRUE]}
      /\ case' = [state |-> "ACTION_QUEUED", version |-> case.version + 1]
      /\ due' = due /\ decision' = decision /\ asked' = asked
  BY DEF CommitApproval, At
<1>2. /\ lock = w /\ approval.verdict = "PENDING" /\ case.state = "APPROVAL_REQUIRED"
      /\ h[w].job = ApproveJob /\ h[w].plan = "APPROVED"
  BY <1>1 DEF AInv, HandlersInOrder, LockProtects, PlanFitsJob, Pending, InTransaction
<1>3. actions = {} /\ decision[approval.version] = "REVIEW"
      /\ asked \notin {"authorized", "captured"}
  BY <1>1, <1>2 DEF AInv, NothingBeforeItsTime, HandlersInOrder, PlanFollowsRequest, InTransaction
<1>4. case.version + 1 \in 0..MaxVersion /\ case.version + 2 <= MaxVersion
  BY <1>2, AssessmentBounds DEF AInv, CaseHasRoom, AssessmentTypeOK
<1>5. /\ approval' \in Approvals /\ approval'.verdict = "APPROVED"
      /\ approval'.version = approval.version /\ approval.version \in 0..MaxVersion
  BY <1>1 DEF AInv, AssessmentTypeOK, Approvals
<1>6. actions' = {[version |-> approval.version, reviewed |-> TRUE]}
  BY <1>1, <1>3
<1>7. /\ case' \in [state: Plans, version: 0..MaxVersion] /\ due' \in BOOLEAN
      /\ decision' \in [0..MaxVersion -> {"NONE", "ALLOWED", "REVIEW", "BLOCKED"}]
      /\ actions' \subseteq [version: 0..MaxVersion, reviewed: BOOLEAN]
  <2>1. "ACTION_QUEUED" \in Plans
    BY DEF Plans, Open
  <2>2. case' \in [state: Plans, version: 0..MaxVersion]
    BY <1>1, <1>4, <2>1
  <2>3. actions' \subseteq [version: 0..MaxVersion, reviewed: BOOLEAN]
    BY <1>5, <1>6
  <2>4. QED
    BY <1>1, <2>2, <2>3 DEF AInv, AssessmentTypeOK
<1>8. CaseHasRoom'
  <2>1. case'.state = "ACTION_QUEUED" /\ case'.version = case.version + 1
    BY <1>1
  <2>2. case.version \in Nat
    BY DEF AInv, AssessmentTypeOK
  <2>3. QED
    BY <1>4, <2>1, <2>2, AssessmentBounds DEF CaseHasRoom
<1>9. IntentIsAuthorized'
  <2>1. Cardinality(actions') <= 1
    BY <1>6, SingleAction
  <2>2. QED
    BY <1>1, <1>3, <1>5, <1>6, <2>1 DEF IntentIsAuthorized
<1>10. (NothingBeforeItsTime /\ VerdictIsCarriedOut /\ PaymentBeatsApproval)'
  BY <1>1, <1>3, <1>5, <1>6
  DEF NothingBeforeItsTime, VerdictIsCarriedOut, PaymentBeatsApproval, Assessable, Refusals
<1>11. QED
  BY <1>2, <1>5, <1>7, <1>8, <1>9, <1>10, CommitStep DEF CommitApproval, Committed

\* What closing the case leaves behind, whoever closes it.
LEMMA CloseCaseFacts ==
    ASSUME AInv, Pending, NEW verdict \in Refusals, NEW by \in Operators \cup {None},
           CloseCase(verdict, by), UNCHANGED <<due, decision, actions>>
    PROVE  Committed
<1>1. /\ approval' = [verdict |-> verdict, version |-> approval.version,
                      lapsed |-> approval.lapsed, by |-> by]
      /\ case' = [state |-> "SUPPRESSED_POLICY", version |-> case.version + 1]
      /\ approval.verdict = "PENDING" /\ case.state = "APPROVAL_REQUIRED"
      /\ due' = due /\ decision' = decision /\ actions' = actions
  BY DEF CloseCase, Pending
<1>2. actions' = {}
  BY <1>1 DEF AInv, NothingBeforeItsTime
<1>3. case.version + 1 \in 0..MaxVersion
  BY <1>1, AssessmentBounds DEF AInv, CaseHasRoom, AssessmentTypeOK
<1>4. approval' \in Approvals /\ approval'.verdict = verdict
  BY <1>1 DEF AInv, AssessmentTypeOK, Approvals
<1>5. /\ case' \in [state: Plans, version: 0..MaxVersion] /\ due' \in BOOLEAN
      /\ decision' \in [0..MaxVersion -> {"NONE", "ALLOWED", "REVIEW", "BLOCKED"}]
      /\ actions' \subseteq [version: 0..MaxVersion, reviewed: BOOLEAN]
  BY <1>1, <1>3 DEF AInv, AssessmentTypeOK, Plans
<1>6. CaseHasRoom' /\ NothingBeforeItsTime'
  BY <1>1, <1>4 DEF CaseHasRoom, NothingBeforeItsTime, Open, Assessable, Refusals
<1>7. IntentIsAuthorized'
  BY <1>2, SingleAction DEF IntentIsAuthorized
<1>8. VerdictIsCarriedOut' /\ PaymentBeatsApproval'
  BY <1>1, <1>2, <1>4 DEF VerdictIsCarriedOut, PaymentBeatsApproval, Refusals
<1>9. QED
  BY <1>4, <1>5, <1>6, <1>7, <1>8 DEF Committed

\* What the handler found since the approval closes the case; nothing is authorized.
LEMMA CommitCancellationStep ==
    ASSUME AInv, NEW w \in Workers, CommitCancellation(w) PROVE AInv'
<1>1. /\ h[w].at = "locked" /\ h[w].plan # "APPROVED" /\ CloseCase(h[w].plan, approval.by)
      /\ UNCHANGED <<due, decision, actions>>
  BY DEF CommitCancellation, At
<1>2. lock = w /\ h[w].job = ApproveJob /\ Pending
  BY <1>1 DEF AInv, HandlersInOrder, LockProtects, InTransaction
<1>3. h[w].plan \in Refusals
  BY <1>1, <1>2 DEF AInv, HandlersInOrder, PlanFitsJob, Verdicts, Refusals, InTransaction
<1>4. approval.by \in Operators \cup {None}
  BY DEF AInv, AssessmentTypeOK
<1>5. Committed
  BY <1>1, <1>2, <1>3, <1>4, CloseCaseFacts
<1>6. QED
  BY <1>2, <1>5, CommitStep DEF CommitCancellation

\* The operator's request: an expired or rejected approval is closed, an
\* approved one becomes a command.
LEMMA RequestStep ==
    ASSUME AInv, NEW o \in Operators, NEW verdict \in {"APPROVED", "REJECTED"},
           Request(o, verdict)
    PROVE  AInv'
<1>1. /\ lock = NoWorker /\ lock' = NoWorker /\ Pending /\ h' = h
      /\ payment' = payment /\ merchant' = merchant /\ rows' = rows /\ changes' = changes
      /\ due' = due /\ decision' = decision /\ actions' = actions
      /\ interruptions' = interruptions
  BY DEF Request, control
<1>2. \A w \in Workers : h[w].at \notin InTransaction
  BY <1>1, AssessmentBounds DEF AInv, HandlersInOrder, LockProtects
<1>3. CASE UNCHANGED <<vars, asked>> /\ \E to \in Refusals, by \in Operators \cup {None} :
                CloseCase(to, by)
  <2>1. Committed
    BY <1>1, <1>3, CloseCaseFacts
  <2>2. phase' = phase /\ holder' = holder /\ asked' = asked
    BY <1>3 DEF vars
  <2>3. AssessmentTypeOK'
    BY <1>1, <2>1, <2>2 DEF AInv, AssessmentTypeOK, Committed, Approvals
  <2>4. HandlersInOrder'
    BY <1>1, <1>2, <2>2
    DEF AInv, HandlersInOrder, PlanFitsJob, PlanFollowsRequest, LockProtects
  <2>5. RowsCounted' /\ AskedBefore'
    BY <1>1, <2>2 DEF AInv, RowsCounted, AskedBefore
  <2>6. QED
    BY <2>1, <2>3, <2>4, <2>5 DEF AInv, Committed
<1>4. CASE /\ Submit(ApproveJob) /\ approval' = [approval EXCEPT !.by = o]
           /\ asked' = payment /\ case' = case
  <2>1. Delivers /\ phase[ApproveJob] = "absent"
    BY <1>4, JobFacts, SubmitDelivers DEF AInv, Submit
  <2>2. /\ approval' \in Approvals /\ approval'.verdict = approval.verdict
        /\ approval'.version = approval.version
    BY <1>4 DEF AInv, AssessmentTypeOK, Approvals
  <2>3. AssessmentTypeOK'
    BY <1>1, <1>4, <2>1, <2>2 DEF AInv, AssessmentTypeOK, Delivers, Approvals
  <2>4. \A w \in Workers :
            h[w].job = ApproveJob => h[w].at \notin {"loaded", "ready"} \cup InTransaction
    BY <2>1 DEF AInv, HandlersInOrder, PlanFitsJob
  <2>5. HandlersInOrder'
    BY <1>1, <1>2, <2>4
    DEF AInv, HandlersInOrder, PlanFitsJob, PlanFollowsRequest, LockProtects
  <2>6. actions' = {}
    BY <1>1 DEF AInv, NothingBeforeItsTime, Pending
  <2>7. (/\ RowsCounted /\ CaseHasRoom /\ NothingBeforeItsTime /\ AskedBefore
         /\ IntentIsAuthorized /\ VerdictIsCarriedOut)'
    BY <1>1, <1>4, <2>2 DEF AInv, RowsCounted, CaseHasRoom, NothingBeforeItsTime,
        AskedBefore, IntentIsAuthorized, VerdictIsCarriedOut
  <2>8. PaymentBeatsApproval'
    BY <2>6 DEF PaymentBeatsApproval
  <2>9. QED
    BY <2>3, <2>5, <2>7, <2>8 DEF AInv
<1>5. QED
  BY <1>3, <1>4 DEF Request, Refusals

\* Before the first job nothing is planned.
LEMMA InitAInv == AssessmentInit => AInv
<1>1. SUFFICES ASSUME AssessmentInit PROVE AInv
  OBVIOUS
<1>2. /\ payment = "failed" /\ merchant = [active |-> TRUE, kill |-> FALSE]
      /\ rows = [truth |-> "UNPAID", failed |-> TRUE, version |-> 0]
      /\ case = [state |-> "OBSERVING", version |-> 0] /\ due = FALSE
      /\ decision = [v \in 0..MaxVersion |-> "NONE"]
      /\ approval = [verdict |-> "NONE", version |-> 0, lapsed |-> FALSE, by |-> None]
      /\ asked = "none" /\ actions = {} /\ lock = NoWorker
      /\ h = [w \in Workers |-> Idle] /\ changes = 0 /\ interruptions = 0
      /\ phase = [j \in Jobs |-> "absent"] /\ holder = [j \in Jobs |-> NoWorker]
  BY <1>1 DEF AssessmentInit, Init
<1>3. 0 \in 0..MaxVersion /\ 0 \in 0..MaxChanges /\ 0 \in 0..MaxInterruptions
  BY AssessmentBounds
<1>4. Idle \in Handler /\ Idle.at = "idle"
  BY <1>3, JobFacts DEF Idle, Handler, NoSnap
<1>5. AssessmentTypeOK
  <2>1. "OBSERVING" \in Plans
    BY DEF Plans, Open, Assessable
  <2>2. QED
    BY <1>2, <1>3, <1>4, <2>1 DEF AssessmentTypeOK
<1>6. HandlersInOrder
  BY <1>2, <1>4 DEF HandlersInOrder, PlanFitsJob, PlanFollowsRequest, LockProtects, InTransaction
<1>7. RowsCounted /\ CaseHasRoom
  BY <1>2, AssessmentBounds DEF RowsCounted, CaseHasRoom
<1>8. NothingBeforeItsTime /\ AskedBefore /\ VerdictIsCarriedOut /\ PaymentBeatsApproval
  BY <1>2 DEF NothingBeforeItsTime, AskedBefore, VerdictIsCarriedOut, PaymentBeatsApproval, Refusals
<1>9. IntentIsAuthorized
  BY <1>2, SingleAction DEF IntentIsAuthorized
<1>10. QED
  BY <1>5, <1>6, <1>7, <1>8, <1>9 DEF AInv

\* Every step of every worker and of what surrounds them keeps the invariant.
LEMMA NextAInv == AInv /\ [AssessmentNext]_assessVars => AInv'
<1>1. SUFFICES ASSUME AInv, [AssessmentNext]_assessVars PROVE AInv'
  OBVIOUS
<1>2. CASE Environment
  BY <1>1, <1>2, EnvironmentStep, CaptureStep, RequestStep DEF Environment
<1>3. CASE Schedule
  BY <1>1, <1>3, ScheduleStep
<1>4. ASSUME NEW w \in Workers, Handle(w) PROVE AInv'
  <2>1. CASE \E job \in Jobs : Load(w, job) \/ LoadRefused(w, job)
    BY <1>1, <2>1, LoadStep
  <2>2. CASE FetchForAssessment(w) \/ FetchForApproval(w)
    BY <1>1, <2>2, FetchStep
  <2>3. CASE CommitRefused(w)
    BY <1>1, <2>3, ResultStep DEF CommitRefused
  <2>4. CASE LockRefused(w)
    BY <1>1, <2>4, ResultStep DEF LockRefused
  <2>5. CASE CommitRejected(w)
    BY <1>1, <2>5, ResultStep DEF CommitRejected, At, InTransaction
  <2>6. CASE CommitPlan(w) \/ CommitApproval(w) \/ CommitCancellation(w)
    BY <1>1, <2>6, CommitPlanStep, CommitApprovalStep, CommitCancellationStep
  <2>7. CASE LockApproval(w) \/ Settle(w)
    BY <1>1, <2>7, LockStep, DeliveryStep
  <2>8. CASE InsertAction(w) \/ QueueCase(w)
    BY <1>1, <2>8, WriteStep
  <2>9. QED
    BY <1>4, <2>1, <2>2, <2>3, <2>4, <2>5, <2>6, <2>7, <2>8 DEF Handle
<1>5. ASSUME NEW w \in Workers, Interrupted(w) \/ LeaseLapses(w) PROVE AInv'
  BY <1>1, <1>5, DeliveryStep, LapseStep
<1>6. CASE UNCHANGED assessVars
  <2>1. /\ phase' = phase /\ holder' = holder
        /\ payment' = payment /\ merchant' = merchant /\ rows' = rows /\ changes' = changes
        /\ case' = case /\ due' = due /\ decision' = decision /\ approval' = approval
        /\ asked' = asked /\ actions' = actions /\ lock' = lock /\ h' = h
        /\ interruptions' = interruptions
    BY <1>6 DEF assessVars, vars, control, db
  <2>2. AssessmentTypeOK' /\ HandlersInOrder'
    BY <1>1, <2>1 DEF AInv, AssessmentTypeOK, HandlersInOrder, PlanFitsJob, PlanFollowsRequest,
        LockProtects, Pending
  <2>3. (/\ RowsCounted /\ CaseHasRoom /\ NothingBeforeItsTime /\ AskedBefore
         /\ IntentIsAuthorized /\ VerdictIsCarriedOut /\ PaymentBeatsApproval)'
    BY <1>1, <2>1 DEF AInv, RowsCounted, CaseHasRoom, NothingBeforeItsTime,
        AskedBefore, IntentIsAuthorized, VerdictIsCarriedOut, PaymentBeatsApproval
  <2>4. QED
    BY <2>2, <2>3 DEF AInv
<1>7. QED
  BY <1>1, <1>2, <1>3, <1>4, <1>5, <1>6 DEF AssessmentNext

\* The safety part of the fair specification.
LEMMA AssessmentSafety ==
    AssessmentSpec => AssessmentInit /\ [][AssessmentNext]_assessVars
BY PTL DEF AssessmentSpec

\* The inductive invariant holds in every execution.
THEOREM AssessmentInvariant == AssessmentSpec => []AInv
BY InitAInv, NextAInv, AssessmentSafety, PTL

\* Type correctness: the versions of a case never outrun their bound, and every
\* handler record and database row has its form.
THEOREM AssessmentTypeCorrect == AssessmentSpec => []AssessmentTypeOK
<1>1. AInv => AssessmentTypeOK
  BY DEF AInv
<1>2. QED
  BY <1>1, AssessmentInvariant, PTL

\* A case has one intent at most, and it is the one its recorded decision
\* allows (_commit_plan, PostgresApprovalService.act), however many workers
\* execute its commands after their leases ran out.
THEOREM OneAuthorizedIntent == AssessmentSpec => []IntentIsAuthorized
<1>1. AInv => IntentIsAuthorized
  BY DEF AInv
<1>2. QED
  BY <1>1, AssessmentInvariant, PTL

\* A final verdict and the case agree (approval_service.py, approval_request.py).
THEOREM VerdictsAreCarriedOut == AssessmentSpec => []VerdictIsCarriedOut
<1>1. AInv => VerdictIsCarriedOut
  BY DEF AInv
<1>2. QED
  BY <1>1, AssessmentInvariant, PTL

\* A payment that had gone through when the operator approved is never collected
\* again on that approval: the provider is asked after the operator.
THEOREM PaymentOverrulesApproval == AssessmentSpec => []PaymentBeatsApproval
<1>1. AInv => PaymentBeatsApproval
  BY DEF AInv
<1>2. QED
  BY <1>1, AssessmentInvariant, PTL

\* Where the transactions of the approval's handlers may get to in a step: past
\* the first trigger from under the lock, past the second from past the first.
LEMMA TransactionSteps ==
    ASSUME AInv, AssessmentNext, NEW u \in Workers
    PROVE  /\ h'[u].at = "inserted" =>
                 h[u].at = "inserted" \/ (h[u].at = "locked" /\ ApprovalIsValid)
           /\ h'[u].at = "queued" =>
                 h[u].at = "queued" \/ (h[u].at = "inserted" /\ OrderIsUnpaid)
<1> DEFINE Goal == /\ h'[u].at = "inserted" =>
                         h[u].at = "inserted" \/ (h[u].at = "locked" /\ ApprovalIsValid)
                   /\ h'[u].at = "queued" =>
                         h[u].at = "queued" \/ (h[u].at = "inserted" /\ OrderIsUnpaid)
<1>1. CASE h'[u] = h[u]
  BY <1>1
<1>2. ASSUME NEW w \in Workers, NEW rec, Working(w, rec), rec.at \notin {"inserted", "queued"}
      PROVE  Goal
  BY <1>2 DEF Working, AInv, AssessmentTypeOK
<1>3. ASSUME NEW w \in Workers, InsertAction(w) \/ QueueCase(w) PROVE Goal
  <2>1. h \in [Workers -> Handler] /\ h[w] \in Handler
    BY DEF AInv, AssessmentTypeOK
  <2>2. CASE u # w
    BY <1>3, <2>1, <2>2 DEF InsertAction, QueueCase, Writing, Working
  <2>3. CASE u = w /\ InsertAction(w)
    BY <2>1, <2>3 DEF InsertAction, Writing, Working, At, Handler
  <2>4. CASE u = w /\ QueueCase(w)
    BY <2>1, <2>4 DEF QueueCase, Writing, Working, At, Handler
  <2>5. QED
    BY <1>3, <2>2, <2>3, <2>4
<1>4. ASSUME NEW w \in Workers, LockApproval(w) PROVE Goal
  <2>1. [h[w] EXCEPT !.at = "locked"].at = "locked"
    BY DEF AInv, AssessmentTypeOK, Handler
  <2>2. QED
    BY <1>2, <1>4, <2>1 DEF LockApproval
<1>5. ASSUME NEW w \in Workers, NEW job, NEW to, NEW plan
      PROVE  /\ Idle.at = "idle" /\ Settling(job, to).at = "settle" /\ Planned(w, plan).at = "ready"
             /\ [at |-> "loaded", job |-> job, snap |-> Snapshot, plan |-> "none",
                 to |-> "ready"].at = "loaded"
  BY DEF Idle, Settling, Planned
<1> HIDE DEF Goal
<1>6. CASE Environment \/ Schedule
  BY <1>1, <1>6 DEF Environment, Schedule, PaymentProgresses, TimePasses, RowsEnriched,
      CaptureProjected, ControlsChange, Request, Goal
<1>7. ASSUME NEW w \in Workers, Handle(w) PROVE Goal
  <2>1. CASE \E job \in Jobs : Load(w, job) \/ LoadRefused(w, job)
    BY <1>2, <1>5, <2>1 DEF Load, LoadRefused, Claim
  <2>2. CASE FetchForAssessment(w) \/ FetchForApproval(w)
    BY <1>2, <1>5, <2>2 DEF FetchForAssessment, FetchForApproval
  <2>3. CASE CommitRefused(w) \/ LockRefused(w) \/ CommitRejected(w)
    BY <1>2, <1>5, <2>3 DEF CommitRefused, LockRefused, CommitRejected, Result
  <2>4. CASE CommitPlan(w) \/ CommitApproval(w) \/ CommitCancellation(w)
    BY <1>2, <1>5, <2>4 DEF CommitPlan, CommitApproval, CommitCancellation, Result
  <2>5. CASE Settle(w)
    BY <1>2, <1>5, <2>5 DEF Settle
  <2>6. QED
    BY <1>3, <1>4, <1>7, <2>1, <2>2, <2>3, <2>4, <2>5 DEF Handle
<1>8. ASSUME NEW w \in Workers, Interrupted(w) \/ LeaseLapses(w) PROVE Goal
  <2>1. CASE Interrupted(w)
    BY <1>2, <1>5, <2>1 DEF Interrupted
  <2>2. CASE LeaseLapses(w)
    BY <1>1, <2>2 DEF LeaseLapses, Goal
  <2>3. QED
    BY <1>8, <2>1, <2>2
<1>9. QED
  BY <1>6, <1>7, <1>8 DEF AssessmentNext, Goal

\* Actions are only ever inserted by the two commits: one looks at the order under
\* the lock it commits with, the other has got past its triggers.
LEMMA IntentSteps ==
    ASSUME AInv, AssessmentNext
    PROVE  \/ actions' = actions
           \/ /\ rows.truth = "UNPAID"
              /\ \A a \in actions' \ actions : ~a.reviewed
           \/ \E w \in Workers : h[w].at = "queued"
<1>1. ASSUME NEW w \in Workers, CommitPlan(w)
      PROVE  /\ rows.truth = "UNPAID"
             /\ \A a \in actions' \ actions : ~a.reviewed
  <2>1. rows.truth = "UNPAID"
    BY <1>1 DEF CommitPlan, Stands, Eligible, RowsEligible
  <2>2. \/ actions' = actions
        \/ actions' = actions \cup {[version |-> h[w].job[2] + 1, reviewed |-> FALSE]}
    BY <1>1 DEF CommitPlan, Persist, PersistAuthorized, PersistBlocked
  <2>3. QED
    BY <2>1, <2>2
<1>2. ASSUME NEW w \in Workers, CommitApproval(w) PROVE h[w].at = "queued"
  BY <1>2 DEF CommitApproval, At
<1>3. CASE Environment \/ Schedule
  BY <1>3 DEF Environment, Schedule, PaymentProgresses, TimePasses, RowsEnriched,
      CaptureProjected, ControlsChange, Request, db
<1>4. ASSUME NEW w \in Workers, Interrupted(w) \/ LeaseLapses(w) PROVE actions' = actions
  BY <1>4 DEF Interrupted, LeaseLapses, db
<1>5. ASSUME NEW w \in Workers, Handle(w)
      PROVE  actions' = actions \/ CommitPlan(w) \/ CommitApproval(w)
  BY <1>5 DEF Handle, Load, LoadRefused, Claim, FetchForAssessment, FetchForApproval,
      CommitRefused, LockRefused, LockApproval, InsertAction, QueueCase, Writing,
      CommitRejected, CommitCancellation, Settle, db
<1>6. QED
  BY <1>1, <1>2, <1>3, <1>4, <1>5 DEF AssessmentNext

\* A paid order stays paid, and an approval that expired stays expired.
LEMMA TruthAndTimeSteps ==
    ASSUME AInv, AssessmentNext
    PROVE  /\ rows.truth = "PAID" => rows'.truth = "PAID"
           /\ approval.lapsed => approval'.lapsed
<1>1. rows.truth = "PAID" => rows'.truth = "PAID"
  <2>1. CASE RowsEnriched
    BY <2>1 DEF RowsEnriched
  <2>2. CASE CaptureProjected
    BY <2>2 DEF CaptureProjected
  <2>3. CASE rows' = rows
    BY <2>3
  <2>4. CASE Environment \/ Schedule
    BY <2>1, <2>2, <2>3, <2>4 DEF Environment, Schedule, PaymentProgresses, TimePasses,
        ControlsChange, Request, control
  <2>5. ASSUME NEW w \in Workers, Handle(w) \/ Interrupted(w) \/ LeaseLapses(w)
        PROVE  rows' = rows
    BY <2>5 DEF Interrupted, LeaseLapses, Handle, Load, LoadRefused, Claim, FetchForAssessment,
        FetchForApproval, CommitRefused, CommitPlan, LockRefused, LockApproval, InsertAction,
        QueueCase, Writing, CommitApproval, CommitRejected, CommitCancellation, Settle, control
  <2>6. QED
    BY <2>3, <2>4, <2>5 DEF AssessmentNext
<1>2. approval.lapsed => approval'.lapsed
  <2>1. /\ approval.verdict \in {"NONE", "PENDING", "APPROVED"} \cup Refusals
        /\ approval \in Approvals
    BY DEF AInv, AssessmentTypeOK, Approvals
  <2>2. ASSUME NEW verdict, NEW by, CloseCase(verdict, by) PROVE approval'.lapsed = approval.lapsed
    BY <2>2 DEF CloseCase
  <2>3. ASSUME NEW w \in Workers, CommitPlan(w) PROVE approval.lapsed => approval'.lapsed
    <3>1. ~approval.lapsed
      BY <2>3 DEF CommitPlan, Stands, Eligible, CaseEligible, AInv, NothingBeforeItsTime
    <3>2. QED
      BY <3>1
  <2>4. ASSUME NEW w \in Workers, CommitApproval(w) PROVE approval'.lapsed = approval.lapsed
    BY <2>1, <2>4 DEF CommitApproval, Approvals
  <2>5. ASSUME NEW o \in Operators, NEW verdict \in {"APPROVED", "REJECTED"}, Request(o, verdict)
        PROVE  approval'.lapsed = approval.lapsed
    BY <2>1, <2>2, <2>5 DEF Request, Approvals
  <2>6. CASE TimePasses
    BY <2>1, <2>6 DEF TimePasses, Approvals
  <2>7. CASE Environment \/ Schedule
    BY <2>5, <2>6, <2>7 DEF Environment, Schedule, PaymentProgresses, RowsEnriched,
        CaptureProjected, ControlsChange, db
  <2>8. ASSUME NEW w \in Workers, Interrupted(w) \/ LeaseLapses(w) PROVE approval' = approval
    BY <2>8 DEF Interrupted, LeaseLapses, db
  <2>9. ASSUME NEW w \in Workers, Handle(w)
        PROVE  \/ approval' = approval \/ CommitPlan(w) \/ CommitApproval(w)
               \/ CloseCase(h[w].plan, approval.by)
    BY <2>9 DEF Handle, Load, LoadRefused, Claim, FetchForAssessment, FetchForApproval,
        CommitRefused, LockRefused, LockApproval, InsertAction, QueueCase, Writing,
        CommitRejected, CommitCancellation, Settle, db
  <2>10. QED
    BY <2>2, <2>3, <2>4, <2>7, <2>8, <2>9 DEF AssessmentNext
<1>3. QED
  BY <1>1, <1>2

\* A paid order and an expired approval shut the way to the intent for good.
LEMMA IntentStep ==
    AInv /\ [AssessmentNext]_assessVars =>
        [/\ PaidFirst => PaidFirst'
         /\ LapsedFirst => LapsedFirst']_assessVars
<1>1. SUFFICES ASSUME AInv, AssessmentNext
               PROVE  (PaidFirst => PaidFirst') /\ (LapsedFirst => LapsedFirst')
  OBVIOUS
<1>2. ASSUME PaidFirst PROVE PaidFirst'
  <2>1. /\ rows.truth = "PAID" /\ actions = {} /\ ~OrderIsUnpaid
        /\ \A w \in Workers : h[w].at # "queued"
    BY <1>2 DEF PaidFirst, At, OrderIsUnpaid
  <2>2. \A w \in Workers : h'[w].at # "queued"
    BY <1>1, <2>1, TransactionSteps
  <2>3. actions' = {} /\ rows'.truth = "PAID"
    BY <1>1, <2>1, IntentSteps, TruthAndTimeSteps
  <2>4. QED
    BY <2>2, <2>3 DEF PaidFirst, At
<1>3. ASSUME LapsedFirst PROVE LapsedFirst'
  <2>1. /\ approval.lapsed /\ ~ApprovalIsValid /\ \A a \in actions : ~a.reviewed
        /\ \A w \in Workers : h[w].at \notin {"inserted", "queued"}
    BY <1>3 DEF LapsedFirst, ApprovalIsValid
  <2>2. \A w \in Workers : h'[w].at \notin {"inserted", "queued"}
    BY <1>1, <2>1, TransactionSteps
  <2>3. approval'.lapsed /\ \A a \in actions' : ~a.reviewed
    BY <1>1, <2>1, IntentSteps, TruthAndTimeSteps
  <2>4. QED
    BY <2>2, <2>3 DEF LapsedFirst
<1>4. QED
  BY <1>2, <1>3

\* Once the order is known to be paid or the approval has expired, only a
\* transaction that has passed the trigger in question still inserts its action,
\* however long the handlers took.
THEOREM IntentsAreInTime == AssessmentSpec => ApprovedInTime
<1>1. QED
  BY IntentStep, AssessmentInvariant, AssessmentSafety, PTL DEF ApprovedInTime
=============================================================================
