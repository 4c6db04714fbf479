----------------------- MODULE RecoveryAggregateProofs -----------------------
(***************************************************************************)
(* Theorems about RecoveryAggregate for every set of proposals and         *)
(* instruments, every observation window and every bound.                  *)
(***************************************************************************)
EXTENDS RecoveryAggregate, TLAPS

\* The states a case enters only when its window is over.
AfterWindow == {"ASSESSING", "WAITING", "APPROVAL_REQUIRED", "ACTION_QUEUED", "EXECUTING",
                "ACTION_UNCERTAIN", "ACTIVE", "RECOVERED"}

\* The window is at least the policy's, and is over where it has to be.
WindowKept ==
    /\ state # "DORMANT" => deadline >= startedAt + Window
    /\ state \in AfterWindow => lastAt >= deadline

\* The key and the proposal of the active action come and go together, and
\* only a collection action ever becomes active.
KeyHasProposal ==
    /\ key = None <=> proposal = None
    /\ key # None => key.type \in CollectionActions

\* An effect decision the caller may still hold was made with the approval.
EffectIsReviewed ==
    effect # None /\ effect.proposal.type \in CollectionActions /\ effect.proposal.review
        => effect.proposal \in approved

\* The inductive invariant.
IInv ==
    /\ TypeOK
    /\ PaidClosesCollection
    /\ WindowKept
    /\ OpenActionIsIdentified
    /\ KeyHasProposal
    /\ EffectIsReviewed

-----------------------------------------------------------------------------
\* Which states the recovery graph leads from, as far as the rest needs it.
LEMMA RecoveryGraphFacts ==
    ASSUME NEW s \in RecoveryStates
    PROVE  /\ s \in CollectionTerminal => RecoveryGraph[s] = {}
           /\ "OBSERVING" \in RecoveryGraph[s] => s = "DORMANT"
           /\ "WAITING" \in RecoveryGraph[s] => s = "ASSESSING"
           /\ "APPROVAL_REQUIRED" \in RecoveryGraph[s] => s = "ASSESSING"
           /\ "ACTION_QUEUED" \in RecoveryGraph[s]
                => s \in {"ASSESSING", "APPROVAL_REQUIRED", "ACTION_UNCERTAIN"}
           /\ "EXECUTING" \in RecoveryGraph[s] => s = "ACTION_QUEUED"
           /\ "ACTION_UNCERTAIN" \in RecoveryGraph[s] => s = "EXECUTING"
           /\ "ACTIVE" \in RecoveryGraph[s] => s \in {"EXECUTING", "ACTION_UNCERTAIN"}
BY DEF RecoveryGraph, RecoveryStates, Nonterminal, CollectionTerminal

\* Paid truth only moves on to truth that is at least as settled.
LEMMA PaymentGraphFacts ==
    ASSUME NEW s \in PaymentStates
    PROVE  /\ PaymentGraph[s] \subseteq PaymentStates
           /\ s = "PAID" => PaymentGraph[s] = {"OVERPAID", "EXCEPTION"}
           /\ s = "OVERPAID" => PaymentGraph[s] = {"EXCEPTION"}
           /\ s = "EXCEPTION" => PaymentGraph[s] = {}
BY DEF PaymentGraph, PaymentStates

\* The targets of the commands that go through _workflow_change.
WorkflowTargets == {"ASSESSING", "WAITING", "APPROVAL_REQUIRED", "ACTION_QUEUED", "EXECUTING",
                    "ACTION_UNCERTAIN", "ACTIVE", "ESCALATED", "SUPPRESSED_POLICY",
                    "FAILED_SAFE", "EXHAUSTED"}

\* _workflow_change keeps truth and window consistent with the workflow.
LEMMA WorkflowChangeFacts ==
    ASSUME IInv, NEW target \in WorkflowTargets, NEW at \in Times,
           WorkflowChange(target, at), UNCHANGED <<payment, window>>
    PROVE  /\ state' \in RecoveryStates /\ state' = target
           /\ version' \in Nat /\ lastAt' \in Nat
           /\ UNCHANGED <<incident, plan, effect, approved, payment, startedAt, deadline>>
           /\ PaidClosesCollection'
           /\ WindowKept'
           /\ state \in CollectionTerminal => state' = state
<1> USE DEF IInv, TypeOK
<1>1. at \in Nat
  BY ProposalsAssumption DEF Times
<1>2. /\ state' = target /\ state' \in RecoveryStates
      /\ version' = version + 1 /\ lastAt' = at /\ at >= lastAt
      /\ UNCHANGED <<incident, plan, effect, approved, payment, startedAt, deadline>>
  BY DEF WorkflowChange, Change, window, evidence, WorkflowTargets, RecoveryStates,
         Nonterminal, CollectionTerminal
<1>3. target = state \/ target \in RecoveryGraph[state]
  BY DEF WorkflowChange, validate_recovery_transition, WorkflowTargets
<1>4. state \in CollectionTerminal => state' = state
  BY <1>2, <1>3, RecoveryGraphFacts
<1>5. PaidClosesCollection'
  BY <1>2, <1>4 DEF PaidClosesCollection
<1>6. WindowKept'
  <2>1. state # "DORMANT"
    BY <1>3, RecoveryGraphFacts DEF WorkflowChange, ObservationElapsed, WorkflowTargets,
       RecoveryGraph, RecoveryStates, Nonterminal, CollectionTerminal
  <2>2. target = "ASSESSING" => at >= deadline
    BY DEF WorkflowChange, ObservationElapsed
  <2>3. target \in AfterWindow \ {"ASSESSING"} => state \in AfterWindow
    BY <1>3, RecoveryGraphFacts DEF AfterWindow, WorkflowTargets
  <2> QED
    BY <1>1, <1>2, <2>1, <2>2, <2>3 DEF WindowKept, AfterWindow
<1> QED
  BY <1>1, <1>2, <1>4, <1>5, <1>6

\* What an action key is.
LEMMA KeyFacts ==
    ASSUME NEW p \in Proposals
    PROVE  /\ action_key(p) \in Keys
           /\ action_key(p) # None
           /\ p # None
           /\ action_key(p).type = p.type
BY NoneAssumption DEF Keys, action_key

-----------------------------------------------------------------------------
\* The dataclass's defaults satisfy the invariant.
LEMMA InitIInv ==
    ASSUME Init PROVE IInv
BY DEF Init, IInv, TypeOK, PaidClosesCollection, WindowKept, OpenActionIsIdentified,
       KeyHasProposal, EffectIsReviewed, RecoveryStates, Nonterminal, PaymentStates,
       IncidentStates, AfterWindow

\* A command that leaves the active action alone and names a target that
\* needs no more than the identity the case already has.
LEMMA PlainWorkflowKeepsIInv ==
    ASSUME IInv, NEW target \in WorkflowTargets, NEW at \in Times,
           WorkflowChange(target, at), UNCHANGED <<payment, window, key, proposal>>,
           decision' \in Nat, instrument' \in Instruments \cup {None},
           target \in {"APPROVAL_REQUIRED", "ACTION_QUEUED", "EXECUTING",
                       "ACTION_UNCERTAIN", "ACTIVE"} => key # None,
           target = "ACTIVE" => instrument' # None
    PROVE  IInv'
<1>1. /\ state' \in RecoveryStates /\ state' = target
      /\ version' \in Nat /\ lastAt' \in Nat
      /\ UNCHANGED <<incident, plan, effect, approved, payment, startedAt, deadline>>
      /\ PaidClosesCollection'
      /\ WindowKept'
  BY WorkflowChangeFacts DEF window
<1>2. TypeOK'
  BY <1>1 DEF IInv, TypeOK
<1>3. OpenActionIsIdentified'
  BY <1>1 DEF IInv, KeyHasProposal, OpenActionIsIdentified
<1>4. KeyHasProposal' /\ EffectIsReviewed'
  BY <1>1 DEF IInv, KeyHasProposal, EffectIsReviewed
<1> QED
  BY <1>1, <1>2, <1>3, <1>4 DEF IInv

\* A command that makes a collection proposal the active action.
LEMMA ActivationKeepsIInv ==
    ASSUME IInv, NEW target \in {"APPROVAL_REQUIRED", "ACTION_QUEUED"}, NEW at \in Times,
           NEW p \in Proposals, p.type \in CollectionActions,
           WorkflowChange(target, at), Activate(p),
           UNCHANGED <<instrument, payment, window>>
    PROVE  IInv'
<1>1. /\ state' \in RecoveryStates /\ state' = target
      /\ version' \in Nat /\ lastAt' \in Nat
      /\ UNCHANGED <<incident, plan, effect, approved, payment, startedAt, deadline>>
      /\ PaidClosesCollection'
      /\ WindowKept'
  <2>1. target \in WorkflowTargets
    BY DEF WorkflowTargets
  <2> QED
    BY <2>1, WorkflowChangeFacts DEF window
<1>2. /\ key' \in Keys /\ key' # None /\ key'.type \in CollectionActions
      /\ proposal' \in Proposals /\ proposal' # None
      /\ decision' \in Nat
  BY KeyFacts, ProposalsAssumption DEF Activate, ActionProposal
<1>3. TypeOK'
  BY <1>1, <1>2 DEF IInv, TypeOK
<1>4. OpenActionIsIdentified'
  BY <1>1, <1>2 DEF OpenActionIsIdentified
<1>5. KeyHasProposal' /\ EffectIsReviewed'
  BY <1>1, <1>2 DEF IInv, KeyHasProposal, EffectIsReviewed
<1> QED
  BY <1>1, <1>3, <1>4, <1>5 DEF IInv

\* A payment that closes the case, or finds it closed.
LEMMA ClosingKeepsIInv ==
    ASSUME IInv, NEW at \in Times, Change(at),
           state' \in CollectionTerminal, state' = "RECOVERED" => state \in AfterWindow,
           state # "DORMANT",
           payment' \in PaymentStates, UNCHANGED <<instrument, decision, window>>,
           \/ key' = None /\ proposal' = None
           \/ UNCHANGED <<key, proposal>>
    PROVE  IInv'
<1>1. /\ version' \in Nat /\ lastAt' \in Nat /\ lastAt' >= lastAt
      /\ UNCHANGED <<incident, plan, effect, approved, startedAt, deadline>>
  BY ProposalsAssumption DEF IInv, TypeOK, Change, Times, window, evidence
<1>2. TypeOK'
  BY <1>1 DEF IInv, TypeOK, RecoveryStates
<1>3. PaidClosesCollection' /\ OpenActionIsIdentified'
  BY DEF PaidClosesCollection, OpenActionIsIdentified, CollectionTerminal
<1>4. WindowKept'
  BY <1>1 DEF IInv, TypeOK, WindowKept, AfterWindow, CollectionTerminal
<1>5. KeyHasProposal' /\ EffectIsReviewed'
  BY <1>1 DEF IInv, KeyHasProposal, EffectIsReviewed
<1> QED
  BY <1>2, <1>3, <1>4, <1>5 DEF IInv

-----------------------------------------------------------------------------
\* record_duplicate_collection, on its own or called by the two paid commands.
LEMMA DuplicateKeepsIInv ==
    ASSUME IInv, NEW at \in Times, record_duplicate_collection(at)
    PROVE  IInv'
<1>1. /\ state # "DORMANT" /\ state' = "DUPLICATE_REVIEW" /\ payment' = "OVERPAID"
      /\ Change(at) /\ key' = None /\ proposal' = None
      /\ UNCHANGED <<instrument, decision, window>>
  BY DEF record_duplicate_collection, validate_recovery_transition, RecoveryGraph,
         RecoveryStates, Nonterminal
<1> QED
  BY <1>1, ClosingKeepsIInv DEF CollectionTerminal, PaymentStates

\* Every command keeps the invariant.
LEMMA CommandKeepsIInv ==
    ASSUME IInv, NEW at \in Times, Command(at)
    PROVE  IInv'
<1>at. at \in Nat
  BY ProposalsAssumption DEF Times
<1>1. ASSUME NEW until \in Times, observe_failure(at, until) PROVE IInv'
  <2>1. /\ state' = "OBSERVING" /\ startedAt' = at
        /\ version' = version + 1 /\ lastAt' = at
        /\ deadline' \in Nat /\ deadline' >= startedAt' + Window
        /\ UNCHANGED <<key, proposal, instrument, decision, payment, incident, plan,
                       effect, approved>>
    BY <1>1, <1>at, ProposalsAssumption
    DEF observe_failure, ObservationDeadline, Change, evidence, Times
  <2>2. state \in {"DORMANT", "OBSERVING"}
    BY <1>1, RecoveryGraphFacts
    DEF observe_failure, validate_recovery_transition, IInv, TypeOK
  <2>3. TypeOK'
    BY <2>1, <1>at DEF IInv, TypeOK, RecoveryStates, Nonterminal
  <2>4. PaidClosesCollection' /\ WindowKept' /\ OpenActionIsIdentified'
    BY <2>1, <2>2
    DEF IInv, PaidClosesCollection, WindowKept, AfterWindow, OpenActionIsIdentified,
        CollectionTerminal
  <2>5. KeyHasProposal' /\ EffectIsReviewed'
    BY <2>1 DEF IInv, KeyHasProposal, EffectIsReviewed
  <2> QED
    BY <2>3, <2>4, <2>5 DEF IInv
<1>2. ASSUME NEW target \in PaymentStates, reconcile_payment_truth(target, at) PROVE IInv'
  <2>1. /\ payment' = target /\ target \notin {"PAID", "OVERPAID"}
        /\ version' = version + 1 /\ lastAt' = at /\ at >= lastAt
        /\ UNCHANGED <<state, key, proposal, instrument, decision, startedAt, deadline,
                       incident, plan, effect, approved>>
    BY <1>2 DEF reconcile_payment_truth, Change, workflow, window, evidence
  <2>2. TypeOK'
    BY <2>1, <1>at DEF IInv, TypeOK
  <2>3. PaidClosesCollection' /\ WindowKept' /\ OpenActionIsIdentified'
    BY <2>1, <1>at
    DEF IInv, TypeOK, PaidClosesCollection, WindowKept, OpenActionIsIdentified
  <2>4. KeyHasProposal' /\ EffectIsReviewed'
    BY <2>1 DEF IInv, KeyHasProposal, EffectIsReviewed
  <2> QED
    BY <2>2, <2>3, <2>4 DEF IInv
<1>3. ASSUME NEW target \in Incidents, update_incident_state(target, at) PROVE IInv'
  <2>1. /\ incident' \in IncidentStates
        /\ version' = version + 1 /\ lastAt' = at /\ at >= lastAt
        /\ UNCHANGED <<state, key, proposal, instrument, decision, startedAt, deadline,
                       payment, plan, effect, approved>>
    BY <1>3, ProposalsAssumption
    DEF update_incident_state, workflow, window, evidence, IncidentStates
  <2>2. TypeOK'
    BY <2>1, <1>at DEF IInv, TypeOK
  <2>3. PaidClosesCollection' /\ WindowKept' /\ OpenActionIsIdentified'
    BY <2>1, <1>at
    DEF IInv, TypeOK, PaidClosesCollection, WindowKept, OpenActionIsIdentified
  <2>4. KeyHasProposal' /\ EffectIsReviewed'
    BY <2>1 DEF IInv, KeyHasProposal, EffectIsReviewed
  <2> QED
    BY <2>2, <2>3, <2>4 DEF IInv
<1>4. CASE mark_ready_for_evaluation(at)
  BY <1>4, PlainWorkflowKeepsIInv
  DEF mark_ready_for_evaluation, WorkflowTargets, IInv, TypeOK
<1>5. CASE wait(at)
  BY <1>5, PlainWorkflowKeepsIInv DEF wait, WorkflowTargets, IInv, TypeOK
<1>6. ASSUME NEW p \in Proposals, request_approval(p, at) PROVE IInv'
  BY <1>6, ActivationKeepsIInv DEF request_approval
<1>7. ASSUME NEW p \in Proposals, authorize_action(p, at) PROVE IInv'
  BY <1>7, ActivationKeepsIInv DEF authorize_action
<1>8. ASSUME NEW p \in Proposals, record_internal_decision(p, at) PROVE IInv'
  <2>1. InternalTarget(p) \in {"WAITING", "ESCALATED", "SUPPRESSED_POLICY"}
    BY <1>8 DEF record_internal_decision, InternalTarget, InternalActions
  <2>2. p.decision \in Nat
    BY ProposalsAssumption DEF ActionProposal
  <2> QED
    BY <1>8, <2>1, <2>2, PlainWorkflowKeepsIInv
    DEF record_internal_decision, WorkflowTargets, IInv, TypeOK
<1>9. ASSUME NEW p \in Proposals, begin_execution(p, at) PROVE IInv'
  BY <1>9, KeyFacts, PlainWorkflowKeepsIInv
  DEF begin_execution, WorkflowTargets, IInv, TypeOK
<1>10. ASSUME NEW k \in Keys, NEW i \in Instruments, record_action_active(k, i, at)
       PROVE  IInv'
  BY <1>10, NoneAssumption, PlainWorkflowKeepsIInv
  DEF record_action_active, WorkflowTargets, IInv, TypeOK
<1>11. ASSUME NEW k \in Keys,
              NEW target \in {"ACTION_UNCERTAIN", "ACTION_QUEUED", "ESCALATED", "FAILED_SAFE"},
              ReportAction(k, target, at)
       PROVE  IInv'
  BY <1>11, PlainWorkflowKeepsIInv DEF ReportAction, WorkflowTargets, IInv, TypeOK
<1>12. ASSUME NEW budget \in BOOLEAN, record_active_expired(budget, at) PROVE IInv'
  <2> DEFINE target == IF budget THEN "ASSESSING" ELSE "EXHAUSTED"
  <2>1. target \in WorkflowTargets
    BY DEF WorkflowTargets
  <2>2. WorkflowChange(target, at) /\ UNCHANGED <<payment, window>>
    BY <1>12 DEF record_active_expired
  <2>3. /\ state' \in RecoveryStates /\ state' = target
        /\ version' \in Nat /\ lastAt' \in Nat
        /\ UNCHANGED <<incident, plan, effect, approved, payment, startedAt, deadline>>
        /\ PaidClosesCollection' /\ WindowKept'
    <3> HIDE DEF target
    <3> QED BY <2>1, <2>2, WorkflowChangeFacts
  <2>4. key' = None /\ proposal' = None /\ instrument' = None /\ decision' = decision
    BY <1>12 DEF record_active_expired
  <2>5. TypeOK' /\ OpenActionIsIdentified'
    BY <2>3, <2>4 DEF IInv, TypeOK, OpenActionIsIdentified
  <2>6. KeyHasProposal' /\ EffectIsReviewed'
    BY <2>3, <2>4 DEF IInv, KeyHasProposal, EffectIsReviewed
  <2> QED
    BY <2>3, <2>5, <2>6 DEF IInv
<1>13. CASE record_original_paid(at)
  <2>1. CASE state = "RECOVERED"
    BY <1>13, <2>1, DuplicateKeepsIInv DEF record_original_paid
  <2>2. CASE state # "RECOVERED"
    <3>1. /\ state # "DORMANT" /\ payment' = "PAID" /\ Change(at)
          /\ UNCHANGED <<instrument, decision, window>>
          /\ IF state \in Nonterminal
             THEN state' = "SUPPRESSED_PAID" /\ key' = None /\ proposal' = None
             ELSE UNCHANGED <<state, key, proposal>>
      BY <1>13, <2>2 DEF record_original_paid
    <3>2. state' \in CollectionTerminal \ {"RECOVERED"}
      BY <3>1, <2>2 DEF IInv, TypeOK, RecoveryStates, CollectionTerminal
    <3> QED
      BY <3>1, <3>2, ClosingKeepsIInv DEF PaymentStates
  <2> QED
    BY <2>1, <2>2
<1>14. CASE record_recovery_paid(at)
  <2>1. CASE payment = "PAID"
    BY <1>14, <2>1, DuplicateKeepsIInv DEF record_recovery_paid
  <2>2. CASE payment # "PAID"
    <3>1. /\ state = "ACTIVE" /\ state' = "RECOVERED" /\ payment' = "PAID" /\ Change(at)
          /\ UNCHANGED <<key, proposal, instrument, decision, window>>
      BY <1>14, <2>2 DEF record_recovery_paid
    <3> QED
      BY <3>1, ClosingKeepsIInv DEF CollectionTerminal, AfterWindow, PaymentStates
  <2> QED
    BY <2>1, <2>2
<1>15. CASE record_duplicate_collection(at)
  BY <1>15, DuplicateKeepsIInv
<1> QED
  BY <1>1, <1>2, <1>3, <1>4, <1>5, <1>6, <1>7, <1>8, <1>9, <1>10, <1>11, <1>12, <1>13,
     <1>14, <1>15
  DEF Command, record_action_uncertain, requeue_after_absence_proven,
      escalate_uncertain_action, record_action_failed_safe

\* The gate and the operator keep it too: a new effect decision is reviewed.
LEMMA GateKeepsIInv ==
    ASSUME IInv, NEW p \in Proposals, Gate(p)
    PROVE  IInv'
<1> USE DEF workflow, window
<1>p. p # None /\ p \in Proposals
  BY NoneAssumption
<1>1. ASSUME NEW hard \in BOOLEAN, NEW valid \in BOOLEAN, evaluate_policy(p, hard, valid)
      PROVE  IInv'
  <2>1. plan' \in Decisions \cup {None}
    BY <1>1 DEF evaluate_policy, Decisions, IInv, TypeOK
  <2>2. UNCHANGED <<state, key, proposal, instrument, decision, payment, incident, version,
                    lastAt, startedAt, deadline, effect, approved>>
    BY <1>1 DEF evaluate_policy
  <2>3. TypeOK'
    BY <2>1, <2>2 DEF IInv, TypeOK
  <2> QED
    BY <2>2, <2>3
    DEF IInv, PaidClosesCollection, WindowKept, OpenActionIsIdentified, KeyHasProposal,
        EffectIsReviewed
<1>2. ASSUME NEW hard \in BOOLEAN, NEW valid \in BOOLEAN, evaluate_effect(p, hard, valid)
      PROVE  IInv'
  <2>1. /\ effect' \in Decisions \cup {None}
        /\ effect' # None => effect'.proposal = p /\ ApprovalPass(p, valid)
    BY <1>2 DEF evaluate_effect, Decisions, IInv, TypeOK
  <2>2. UNCHANGED <<state, key, proposal, instrument, decision, payment, incident, version,
                    lastAt, startedAt, deadline, plan, approved>>
    BY <1>2 DEF evaluate_effect
  <2>3. TypeOK'
    BY <2>1, <2>2 DEF IInv, TypeOK
  <2>4. EffectIsReviewed'
    BY <2>1, <2>2 DEF EffectIsReviewed, ApprovalPass
  <2> QED
    BY <2>2, <2>3, <2>4
    DEF IInv, PaidClosesCollection, WindowKept, OpenActionIsIdentified, KeyHasProposal
<1>3. CASE Approve(p)
  <2>1. /\ approved' = approved \cup {p}
        /\ UNCHANGED <<state, key, proposal, instrument, decision, payment, incident, version,
                       lastAt, startedAt, deadline, plan, effect>>
    BY <1>3 DEF Approve
  <2>2. TypeOK'
    BY <2>1 DEF IInv, TypeOK
  <2> QED
    BY <2>1, <2>2
    DEF IInv, PaidClosesCollection, WindowKept, OpenActionIsIdentified, KeyHasProposal,
        EffectIsReviewed
<1> QED
  BY <1>1, <1>2, <1>3 DEF Gate

\* The invariant is inductive.
LEMMA NextKeepsIInv ==
    ASSUME IInv, [Next]_vars
    PROVE  IInv'
<1>1. CASE Next
  BY <1>1, CommandKeepsIInv, GateKeepsIInv DEF Next
<1>2. CASE UNCHANGED vars
  BY <1>2
  DEF vars, workflow, window, evidence, IInv, TypeOK, PaidClosesCollection, WindowKept,
      OpenActionIsIdentified, KeyHasProposal, EffectIsReviewed
<1> QED
  BY <1>1, <1>2

\* Every reachable aggregate satisfies the invariant.
THEOREM Invariant == Spec => []IInv
<1>1. Init => IInv
  BY InitIInv
<1>2. IInv /\ [Next]_vars => IInv'
  BY NextKeepsIInv
<1> QED
  BY <1>1, <1>2, PTL DEF Spec

-----------------------------------------------------------------------------
\* Every field keeps its type under every sequence of commands.
THEOREM TypeCorrect == Spec => []TypeOK
<1>1. IInv => TypeOK
  BY DEF IInv
<1> QED
  BY <1>1, Invariant, PTL

\* Whatever commands follow each other, a paid order has no open collection.
THEOREM PaidIsClosed == Spec => []PaidClosesCollection
<1>1. IInv => PaidClosesCollection
  BY DEF IInv
<1> QED
  BY <1>1, Invariant, PTL

\* No choice of command times or requested extensions shortens the policy's
\* observation window before a collection.
THEOREM WindowIsKept == Spec => []CollectionWaitsForWindow
<1>1. IInv => CollectionWaitsForWindow
  BY DEF IInv, WindowKept, AfterWindow, CollectionWaitsForWindow
<1> QED
  BY <1>1, Invariant, PTL

\* An open action always has its key, its proposal and, once live, its link.
THEOREM OpenActionIsKnown == Spec => []OpenActionIsIdentified
<1>1. IInv => OpenActionIsIdentified
  BY DEF IInv
<1> QED
  BY <1>1, Invariant, PTL

\* begin_execution takes only an effect decision that was made with the
\* approval its proposal needs, also when the case got back into its queue
\* past the approval.
THEOREM ExecutionIsReviewed == Spec => ReviewedBeforeExecution
<1>1. ASSUME IInv, NEW p \in Proposals, NEW at \in Times, begin_execution(p, at), p.review
      PROVE  p \in approved
  <2>1. effect # None /\ effect.proposal = p /\ key = action_key(p)
    BY <1>1 DEF begin_execution, GateBinding
  <2>2. p.type \in CollectionActions
    BY <1>1, <2>1, KeyFacts DEF IInv, KeyHasProposal
  <2> QED
    BY <1>1, <2>1, <2>2 DEF IInv, EffectIsReviewed
<1>2. IInv => \A p \in Proposals, at \in Times :
                 begin_execution(p, at) /\ p.review => p \in approved
  BY <1>1
<1> QED
  BY <1>2, Invariant, PTL DEF ReviewedBeforeExecution

\* What one step may do to a closed case and to settled truth.
StaysClosed ==
    /\ state \in CollectionTerminal => state' \in {state, "DUPLICATE_REVIEW"}
    /\ payment \in {"PAID", "OVERPAID", "EXCEPTION"}
         => payment' \in {payment, "OVERPAID", "EXCEPTION"}

\* Every command leaves a closed case closed and settled truth settled.
LEMMA CommandStaysClosed ==
    ASSUME IInv, NEW at \in Times, Command(at)
    PROVE  StaysClosed
<1> USE DEF StaysClosed
<1>w. ASSUME NEW target \in WorkflowTargets, WorkflowChange(target, at),
             UNCHANGED <<payment, window>>
      PROVE  StaysClosed
  BY <1>w, WorkflowChangeFacts
<1>d. ASSUME record_duplicate_collection(at) PROVE StaysClosed
  BY <1>d DEF record_duplicate_collection
<1>1. ASSUME NEW until \in Times, observe_failure(at, until) PROVE StaysClosed
  BY <1>1, RecoveryGraphFacts
  DEF observe_failure, validate_recovery_transition, IInv, TypeOK, CollectionTerminal
<1>2. ASSUME NEW target \in PaymentStates, reconcile_payment_truth(target, at)
      PROVE  StaysClosed
  BY <1>2, PaymentGraphFacts DEF reconcile_payment_truth, workflow, IInv, TypeOK
<1>3. ASSUME NEW target \in Incidents, update_incident_state(target, at) PROVE StaysClosed
  BY <1>3 DEF update_incident_state, workflow
<1>4. CASE mark_ready_for_evaluation(at)
  BY <1>4, <1>w DEF mark_ready_for_evaluation, WorkflowTargets
<1>5. CASE wait(at)
  BY <1>5, <1>w DEF wait, WorkflowTargets
<1>6. ASSUME NEW p \in Proposals, request_approval(p, at) PROVE StaysClosed
  BY <1>6, <1>w DEF request_approval, WorkflowTargets
<1>7. ASSUME NEW p \in Proposals, authorize_action(p, at) PROVE StaysClosed
  BY <1>7, <1>w DEF authorize_action, WorkflowTargets
<1>8. ASSUME NEW p \in Proposals, record_internal_decision(p, at) PROVE StaysClosed
  <2>1. InternalTarget(p) \in {"WAITING", "ESCALATED", "SUPPRESSED_POLICY"}
    BY <1>8 DEF record_internal_decision, InternalTarget, InternalActions
  <2> QED
    BY <1>8, <2>1, <1>w DEF record_internal_decision, WorkflowTargets
<1>9. ASSUME NEW p \in Proposals, begin_execution(p, at) PROVE StaysClosed
  BY <1>9, <1>w DEF begin_execution, WorkflowTargets
<1>10. ASSUME NEW k \in Keys, NEW i \in Instruments, record_action_active(k, i, at)
       PROVE  StaysClosed
  BY <1>10, <1>w DEF record_action_active, WorkflowTargets
<1>11. ASSUME NEW k \in Keys,
              NEW target \in {"ACTION_UNCERTAIN", "ACTION_QUEUED", "ESCALATED", "FAILED_SAFE"},
              ReportAction(k, target, at)
       PROVE  StaysClosed
  BY <1>11, <1>w DEF ReportAction, WorkflowTargets
<1>12. ASSUME NEW budget \in BOOLEAN, record_active_expired(budget, at) PROVE StaysClosed
  BY <1>12, <1>w DEF record_active_expired, WorkflowTargets
<1>13. CASE record_original_paid(at)
  BY <1>13, <1>d, PaymentGraphFacts
  DEF record_original_paid, validate_payment_transition, Nonterminal, CollectionTerminal,
      IInv, TypeOK
<1>14. CASE record_recovery_paid(at)
  BY <1>14, <1>d, PaymentGraphFacts
  DEF record_recovery_paid, validate_payment_transition, CollectionTerminal, IInv, TypeOK
<1> QED
  BY <1>d, <1>1, <1>2, <1>3, <1>4, <1>5, <1>6, <1>7, <1>8, <1>9, <1>10, <1>11, <1>12,
     <1>13, <1>14
  DEF Command, record_action_uncertain, requeue_after_absence_proven,
      escalate_uncertain_action, record_action_failed_safe

\* No sequence of commands reopens a closed case or takes paid truth back.
THEOREM ClosedIsFinal == Spec => ClosedStaysClosed
<1>1. ASSUME IInv, [Next]_vars PROVE StaysClosed
  <2>1. ASSUME NEW p \in Proposals, Gate(p) PROVE StaysClosed
    BY <2>1 DEF Gate, evaluate_policy, evaluate_effect, Approve, workflow, StaysClosed
  <2>2. CASE UNCHANGED vars
    BY <2>2 DEF vars, workflow, StaysClosed
  <2> QED
    BY <1>1, <2>1, <2>2, CommandStaysClosed DEF Next
<1>2. IInv /\ [Next]_vars => [StaysClosed]_vars
  BY <1>1
<1> QED
  BY <1>2, Invariant, PTL DEF Spec, ClosedStaysClosed, StaysClosed
=============================================================================
