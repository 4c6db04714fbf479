-------------------------- MODULE RecoveryAggregate --------------------------
(***************************************************************************)
(* The pure recovery aggregate and the gate evidence its commands demand.  *)
(*                                                                         *)
(*   packages/domain/states.py      the closed transition graphs           *)
(*   packages/domain/aggregate.py   one command per method                 *)
(*   packages/domain/actions.py     proposals and their action keys        *)
(*   packages/domain/gate.py        the policy and effect decisions        *)
(*   packages/domain/values.py      the late-capture observation window    *)
(*                                                                         *)
(* A command that raises changes nothing, so an action is enabled exactly  *)
(* when its method returns a change; a method that returns the aggregate   *)
(* itself is a stuttering step.  expected_version is the version the       *)
(* caller saw: a command sent against an older one raises VersionConflict  *)
(* and is such a non-step.  Gate decisions are different: a caller         *)
(* keeps them while the aggregate moves on, so they are state.             *)
(***************************************************************************)
EXTENDS Naturals

CONSTANTS
    Proposals,     \* the ActionProposal values callers may build
    Instruments,   \* provider references of created payment links
    None,          \* the absent value of the optional fields
    Incidents,     \* the incident states callers report
    Window,        \* LateCapturePolicy.minimum_observation_window
    MaxTime,       \* bound: command times are 0..MaxTime
    MaxVersion     \* bound: no command beyond this version

ActionTypes == {"WAIT", "CREATE", "NOTIFY", "CANCEL", "ESCALATE", "STOP"}
CollectionActions == {"CREATE", "NOTIFY"}
InternalActions == {"WAIT", "ESCALATE", "STOP"}

\* review stands for requires_approval and the approval causes the gate finds
\* in the proposal itself (high value, low or missing confidence).
ActionProposal == [id: Nat, decision: Nat \ {0}, type: ActionTypes, review: BOOLEAN]

ASSUME ProposalsAssumption ==
    /\ Proposals \subseteq ActionProposal
    /\ Incidents \subseteq {"NORMAL", "SUSPECTED", "CONFIRMED", "COOLING"}
    /\ Window \in Nat
    /\ MaxTime \in Nat
    /\ MaxVersion \in Nat

\* ActionProposal.action_key: the identifying fields, without the proposal's id.
action_key(p) == [type |-> p.type, decision |-> p.decision]
Keys == {action_key(p) : p \in Proposals}

ASSUME NoneAssumption == None \notin Proposals \cup Instruments \cup Keys

PaymentStates == {"UNKNOWN", "UNPAID", "AUTHORIZED", "PARTIALLY_PAID", "PAID",
                  "OVERPAID", "EXCEPTION"}
IncidentStates == {"NORMAL", "SUSPECTED", "CONFIRMED", "COOLING"}
CollectionTerminal == {"RECOVERED", "SUPPRESSED_PAID", "SUPPRESSED_POLICY", "EXHAUSTED",
                       "FAILED_SAFE", "ESCALATED", "DUPLICATE_REVIEW"}
Nonterminal == {"DORMANT", "OBSERVING", "ASSESSING", "WAITING", "APPROVAL_REQUIRED",
                "ACTION_QUEUED", "EXECUTING", "ACTION_UNCERTAIN", "ACTIVE"}
RecoveryStates == Nonterminal \cup CollectionTerminal

VARIABLES
    state,        \* RecoveryState
    payment,      \* CanonicalPaymentState
    incident,     \* IncidentState
    version,      \* bumped by every change
    decision,     \* decision_version of the last recorded decision
    key,          \* active_action_key
    proposal,     \* active_proposal_id
    instrument,   \* active_instrument_reference
    lastAt,       \* last_transition_at
    startedAt,    \* observation_started_at
    deadline,     \* observation_deadline
    plan,         \* the policy decision the caller holds
    effect,       \* the effect decision the caller holds
    approved      \* proposals an operator approved

workflow == <<state, key, proposal, instrument, decision>>
window == <<startedAt, deadline>>
evidence == <<plan, effect, approved>>
vars == <<workflow, payment, incident, version, lastAt, window, evidence>>

Decisions == [proposal: Proposals, version: Nat, outcome: {"ALLOWED", "APPROVAL"}]

TypeOK ==
    /\ state \in RecoveryStates
    /\ payment \in PaymentStates
    /\ incident \in IncidentStates
    /\ version \in Nat
    /\ decision \in Nat
    /\ key \in Keys \cup {None}
    /\ proposal \in Proposals \cup {None}
    /\ instrument \in Instruments \cup {None}
    /\ lastAt \in Nat
    /\ startedAt \in Nat
    /\ deadline \in Nat
    /\ plan \in Decisions \cup {None}
    /\ effect \in Decisions \cup {None}
    /\ approved \subseteq Proposals

\* The defaults of the dataclass.  Before the first change there is no last
\* transition and no observation; 0 stands for the absence of each time.
Init ==
    /\ state = "DORMANT" /\ payment = "UNKNOWN" /\ incident = "NORMAL"
    /\ version = 0 /\ decision = 0
    /\ key = None /\ proposal = None /\ instrument = None
    /\ lastAt = 0 /\ startedAt = 0 /\ deadline = 0
    /\ plan = None /\ effect = None
    /\ approved = {}

-----------------------------------------------------------------------------
(* The transition graphs.  A transition to the current state is accepted.  *)

PaymentGraph ==
    [s \in PaymentStates |->
       CASE s = "UNKNOWN" -> {"UNPAID", "AUTHORIZED", "PARTIALLY_PAID", "PAID", "OVERPAID",
                              "EXCEPTION"}
         [] s = "UNPAID" -> {"AUTHORIZED", "PARTIALLY_PAID", "PAID", "OVERPAID", "EXCEPTION"}
         [] s = "AUTHORIZED" -> {"PARTIALLY_PAID", "PAID", "OVERPAID", "EXCEPTION"}
         [] s = "PARTIALLY_PAID" -> {"PAID", "OVERPAID", "EXCEPTION"}
         [] s = "PAID" -> {"OVERPAID", "EXCEPTION"}
         [] s = "OVERPAID" -> {"EXCEPTION"}
         [] s = "EXCEPTION" -> {}]

RecoveryGraph ==
    [s \in RecoveryStates |->
       CASE s = "DORMANT" -> {"OBSERVING"}
         [] s = "OBSERVING" -> {"ASSESSING", "SUPPRESSED_PAID"}
         [] s = "ASSESSING" -> {"WAITING", "APPROVAL_REQUIRED", "ACTION_QUEUED", "EXHAUSTED",
                                "SUPPRESSED_POLICY", "SUPPRESSED_PAID", "ESCALATED"}
         [] s = "WAITING" -> {"ASSESSING", "SUPPRESSED_PAID", "SUPPRESSED_POLICY",
                              "EXHAUSTED"}
         [] s = "APPROVAL_REQUIRED" -> {"ACTION_QUEUED", "SUPPRESSED_POLICY",
                                        "SUPPRESSED_PAID"}
         [] s = "ACTION_QUEUED" -> {"EXECUTING", "SUPPRESSED_PAID", "SUPPRESSED_POLICY"}
         [] s = "EXECUTING" -> {"ACTIVE", "ACTION_UNCERTAIN", "FAILED_SAFE",
                                "SUPPRESSED_PAID"}
         [] s = "ACTION_UNCERTAIN" -> {"ACTIVE", "ACTION_QUEUED", "ESCALATED",
                                       "SUPPRESSED_PAID"}
         [] s = "ACTIVE" -> {"RECOVERED", "SUPPRESSED_PAID", "ASSESSING", "EXHAUSTED"}
         [] OTHER -> {}]

IncidentGraph ==
    [s \in IncidentStates |->
       CASE s = "NORMAL" -> {"SUSPECTED"}
         [] s = "SUSPECTED" -> {"CONFIRMED", "NORMAL"}
         [] s = "CONFIRMED" -> {"COOLING"}
         [] s = "COOLING" -> {"CONFIRMED", "NORMAL"}]

validate_payment_transition(target) ==
    target = payment \/ target \in PaymentGraph[payment]

validate_recovery_transition(target) ==
    \/ target = state
    \/ target = "DUPLICATE_REVIEW" /\ state # "DORMANT"
    \/ target \in RecoveryGraph[state]

-----------------------------------------------------------------------------
(* What every change has in common.                                        *)

\* _change: time never runs backwards, and every change is one version.
Change(at) ==
    /\ at >= lastAt
    /\ version < MaxVersion
    /\ version' = version + 1
    /\ lastAt' = at
    /\ UNCHANGED <<incident, evidence>>

\* _require_observation_elapsed; a case in a state that gets here has a deadline.
ObservationElapsed(at) == state # "DORMANT" /\ at >= deadline

\* _workflow_change: assessing is the one target that needs the window to be over.
WorkflowChange(target, at) ==
    /\ validate_recovery_transition(target)
    /\ target = "ASSESSING" => ObservationElapsed(at)
    /\ state' = target
    /\ Change(at)

\* _require_proposal_binding
ProposalBinding(p, next) == p.decision = decision + (IF next THEN 1 ELSE 0)

\* _require_gate_binding: the decision d is about p and about this version.
GateBinding(d, p, outcome) ==
    d # None /\ d.proposal = p /\ d.outcome = outcome /\ d.version = version

\* Mutant: the proposal is stored where its key belongs.
ActivateById(p) ==
    /\ decision' = p.decision
    /\ key' = p
    /\ proposal' = p

Activate(p) ==
    /\ decision' = p.decision
    /\ key' = action_key(p)
    /\ proposal' = p

-----------------------------------------------------------------------------
(* The commands.                                                           *)

\* Mutant: a caller's suggestion replaces the floor.
RequestedDeadline(at, until) == IF until > at THEN until ELSE at + Window

\* LateCapturePolicy.observation_deadline: a caller can only extend the floor.
ObservationDeadline(at, until) ==
    IF until > at + Window THEN until ELSE at + Window

observe_failure(at, until) ==
    /\ validate_recovery_transition("OBSERVING")
    /\ state' = "OBSERVING"
    /\ startedAt' = at
    /\ deadline' = ObservationDeadline(at, until)
    /\ Change(at)
    /\ UNCHANGED <<key, proposal, instrument, decision, payment>>

reconcile_payment_truth(target, at) ==
    /\ target \notin {"PAID", "OVERPAID"}
    /\ target \in PaymentGraph[payment]
    /\ payment' = target
    /\ Change(at)
    /\ UNCHANGED <<workflow, window>>

update_incident_state(target, at) ==
    /\ target \in IncidentGraph[incident]
    /\ incident' = target
    /\ at >= lastAt
    /\ version < MaxVersion
    /\ version' = version + 1
    /\ lastAt' = at
    /\ UNCHANGED <<workflow, payment, window, evidence>>

\* mark_ready_for_evaluation and wake make the same change under the same guard;
\* neither names the states it may come from.
mark_ready_for_evaluation(at) ==
    /\ payment = "UNPAID"
    /\ WorkflowChange("ASSESSING", at)
    /\ UNCHANGED <<key, proposal, instrument, decision, payment, window>>

wait(at) ==
    /\ WorkflowChange("WAITING", at)
    /\ UNCHANGED <<key, proposal, instrument, decision, payment, window>>

request_approval(p, at) ==
    /\ state = "ASSESSING"
    /\ ObservationElapsed(at)
    /\ ProposalBinding(p, TRUE)
    /\ GateBinding(plan, p, "APPROVAL")
    /\ p.type \in CollectionActions
    /\ payment = "UNPAID"
    /\ WorkflowChange("APPROVAL_REQUIRED", at)
    /\ Activate(p)
    /\ UNCHANGED <<instrument, payment, window>>

authorize_action(p, at) ==
    /\ state \in {"ASSESSING", "APPROVAL_REQUIRED"}
    /\ ObservationElapsed(at)
    /\ ProposalBinding(p, state = "ASSESSING")
    /\ GateBinding(plan, p, "ALLOWED")
    /\ p.type \in CollectionActions
    /\ payment = "UNPAID"
    /\ state = "APPROVAL_REQUIRED" => key = action_key(p) /\ proposal = p
    /\ WorkflowChange("ACTION_QUEUED", at)
    /\ Activate(p)
    /\ UNCHANGED <<instrument, payment, window>>

InternalTarget(p) ==
    CASE p.type = "WAIT" -> "WAITING"
      [] p.type = "ESCALATE" -> "ESCALATED"
      [] p.type = "STOP" -> "SUPPRESSED_POLICY"

record_internal_decision(p, at) ==
    /\ p.type \in InternalActions
    /\ ProposalBinding(p, TRUE)
    /\ GateBinding(plan, p, "ALLOWED")
    /\ WorkflowChange(InternalTarget(p), at)
    /\ decision' = p.decision
    /\ UNCHANGED <<key, proposal, instrument, payment, window>>

\* The proposal is bound by its key; its id is not compared here.
begin_execution(p, at) ==
    /\ ProposalBinding(p, FALSE)
    /\ GateBinding(effect, p, "ALLOWED")
    /\ state = "ACTION_QUEUED"
    /\ ObservationElapsed(at)
    /\ key = action_key(p)
    /\ payment = "UNPAID"
    /\ WorkflowChange("EXECUTING", at)
    /\ UNCHANGED <<key, proposal, instrument, decision, payment, window>>

\* ACTIVE is accepted from ACTIVE: another reference replaces the recorded one.
record_action_active(k, i, at) ==
    /\ k = key /\ key # None
    /\ ~(state = "ACTIVE" /\ instrument = i)
    /\ WorkflowChange("ACTIVE", at)
    /\ instrument' = i
    /\ UNCHANGED <<key, proposal, decision, payment, window>>

\* Mutant: the action key is not compared with the active one.
ReportAnyAction(k, target, at) ==
    /\ WorkflowChange(target, at)
    /\ UNCHANGED <<key, proposal, instrument, decision, payment, window>>

\* The four reports on the active action differ in their target only.
ReportAction(k, target, at) ==
    /\ k = key /\ key # None
    /\ WorkflowChange(target, at)
    /\ UNCHANGED <<key, proposal, instrument, decision, payment, window>>

record_action_uncertain(k, at) == ReportAction(k, "ACTION_UNCERTAIN", at)
requeue_after_absence_proven(k, at) == ReportAction(k, "ACTION_QUEUED", at)
escalate_uncertain_action(k, at) == ReportAction(k, "ESCALATED", at)
record_action_failed_safe(k, at) == ReportAction(k, "FAILED_SAFE", at)

record_active_expired(budget, at) ==
    /\ WorkflowChange(IF budget THEN "ASSESSING" ELSE "EXHAUSTED", at)
    /\ key' = None /\ proposal' = None /\ instrument' = None
    /\ UNCHANGED <<decision, payment, window>>

record_duplicate_collection(at) ==
    /\ validate_payment_transition("OVERPAID")
    /\ validate_recovery_transition("DUPLICATE_REVIEW")
    /\ ~(payment = "OVERPAID" /\ state = "DUPLICATE_REVIEW")
    /\ payment' = "OVERPAID"
    /\ state' = "DUPLICATE_REVIEW"
    /\ key' = None /\ proposal' = None
    /\ Change(at)
    /\ UNCHANGED <<instrument, decision, window>>

\* Mutant: the truth is recorded but a live link keeps its workflow.
OriginalPaidLeavesActive(at) ==
    /\ state # "DORMANT"
    /\ validate_payment_transition("PAID")
    /\ payment # "PAID" \/ state \in Nonterminal
    /\ payment' = "PAID"
    /\ IF state \in Nonterminal \ {"ACTIVE"}
       THEN state' = "SUPPRESSED_PAID" /\ key' = None /\ proposal' = None
       ELSE UNCHANGED <<state, key, proposal>>
    /\ Change(at)
    /\ UNCHANGED <<instrument, decision, window>>

\* A success on the original path closes every collection still open, and is a
\* duplicate once the recovery link has been paid.
record_original_paid(at) ==
    /\ state # "DORMANT"
    /\ ~(state = "DUPLICATE_REVIEW" /\ payment = "OVERPAID")
    /\ IF state = "RECOVERED" THEN record_duplicate_collection(at)
       ELSE /\ validate_payment_transition("PAID")
            /\ state \in Nonterminal => validate_recovery_transition("SUPPRESSED_PAID")
            /\ payment # "PAID" \/ state \in Nonterminal
            /\ payment' = "PAID"
            /\ IF state \in Nonterminal
               THEN state' = "SUPPRESSED_PAID" /\ key' = None /\ proposal' = None
               ELSE UNCHANGED <<state, key, proposal>>
            /\ Change(at)
            /\ UNCHANGED <<instrument, decision, window>>

\* Mutant: a late link payment is accepted in whatever state the case is in.
RecoveryPaidAnywhere(at) ==
    /\ state # "DORMANT"
    /\ validate_payment_transition("PAID")
    /\ payment' = "PAID"
    /\ state' = "RECOVERED"
    /\ Change(at)
    /\ UNCHANGED <<key, proposal, instrument, decision, window>>

record_recovery_paid(at) ==
    /\ state = "ACTIVE"
    /\ IF payment = "PAID" THEN record_duplicate_collection(at)
       ELSE /\ validate_payment_transition("PAID")
            /\ payment' = "PAID"
            /\ state' = "RECOVERED"
            /\ Change(at)
            /\ UNCHANGED <<key, proposal, instrument, decision, window>>

-----------------------------------------------------------------------------
(* The gate.  A decision that no command accepts is as good as none.       *)

PolicyStates(type) ==
    CASE type = "CREATE" -> {"ASSESSING", "APPROVAL_REQUIRED"}
      [] type = "NOTIFY" -> {"ASSESSING", "APPROVAL_REQUIRED", "ACTIVE"}
      [] type = "CANCEL" -> {"EXECUTING", "ACTION_UNCERTAIN", "ACTIVE", "SUPPRESSED_PAID",
                             "DUPLICATE_REVIEW"}
      [] type = "WAIT" -> {"ASSESSING"}
      [] type = "ESCALATE" -> {"ASSESSING", "WAITING", "ACTION_UNCERTAIN"}
      [] type = "STOP" -> {"ASSESSING", "WAITING", "APPROVAL_REQUIRED", "ACTION_QUEUED"}

EffectStates(type) ==
    CASE type = "CREATE" -> {"ACTION_QUEUED", "EXECUTING", "ACTION_UNCERTAIN"}
      [] type = "NOTIFY" -> {"ACTION_QUEUED", "EXECUTING", "ACTIVE"}
      [] type = "CANCEL" -> PolicyStates("CANCEL")
      [] OTHER -> {}

\* The state and window reasons of _evaluate.  hard stands for the reasons found
\* outside the aggregate: kill switch, budget, cooldown, and the provider's own
\* snapshot, which need not agree with the aggregate's payment truth.
HardPass(p, states, hard) ==
    /\ ~hard
    /\ state \in states
    /\ p.type \in CollectionActions => ObservationElapsed(lastAt)

\* Mutant: a missing approval passes.
ApprovalIfAny(p, valid) ==
    p.type \in CollectionActions /\ p.review => (p \in approved => valid)

\* _approval_failure: an approval bound to the proposal that has not expired.
ApprovalPass(p, valid) ==
    p.type \in CollectionActions /\ p.review => p \in approved /\ valid

\* _plan_matches: an allowed policy decision for this proposal, not newer.
PlanMatches(p) ==
    plan # None /\ plan.proposal = p /\ plan.outcome = "ALLOWED" /\ plan.version <= version

evaluate_policy(p, hard, valid) ==
    /\ plan' = IF ~HardPass(p, PolicyStates(p.type), hard) THEN None
               ELSE [proposal |-> p, version |-> version,
                     outcome |-> IF ApprovalPass(p, valid) THEN "ALLOWED" ELSE "APPROVAL"]
    /\ UNCHANGED <<workflow, payment, incident, version, lastAt, window, effect, approved>>

evaluate_effect(p, hard, valid) ==
    /\ effect' = IF /\ HardPass(p, EffectStates(p.type), hard)
                    /\ ApprovalPass(p, valid)
                    /\ PlanMatches(p)
                 THEN [proposal |-> p, version |-> version, outcome |-> "ALLOWED"]
                 ELSE None
    /\ UNCHANGED <<workflow, payment, incident, version, lastAt, window, plan, approved>>

\* An operator's Approval, bound to the proposal's digest.
Approve(p) ==
    /\ p \notin approved
    /\ approved' = approved \cup {p}
    /\ UNCHANGED <<workflow, payment, incident, version, lastAt, window, plan, effect>>

-----------------------------------------------------------------------------
Times == 0..MaxTime

Command(at) ==
    \/ \E until \in Times : observe_failure(at, until)
    \/ \E target \in PaymentStates : reconcile_payment_truth(target, at)
    \/ \E target \in Incidents : update_incident_state(target, at)
    \/ mark_ready_for_evaluation(at)
    \/ wait(at)
    \/ \E p \in Proposals : request_approval(p, at)
    \/ \E p \in Proposals : authorize_action(p, at)
    \/ \E p \in Proposals : record_internal_decision(p, at)
    \/ \E p \in Proposals : begin_execution(p, at)
    \/ \E k \in Keys, i \in Instruments : record_action_active(k, i, at)
    \/ \E k \in Keys : record_action_uncertain(k, at)
    \/ \E k \in Keys : requeue_after_absence_proven(k, at)
    \/ \E k \in Keys : escalate_uncertain_action(k, at)
    \/ \E k \in Keys : record_action_failed_safe(k, at)
    \/ \E budget \in BOOLEAN : record_active_expired(budget, at)
    \/ record_original_paid(at)
    \/ record_recovery_paid(at)
    \/ record_duplicate_collection(at)

Gate(p) ==
    \/ \E hard, valid \in BOOLEAN :
          evaluate_policy(p, hard, valid)
    \/ \E hard, valid \in BOOLEAN :
          evaluate_effect(p, hard, valid)
    \/ Approve(p)

Next ==
    \/ \E at \in Times : Command(at)
    \/ \E p \in Proposals : Gate(p)

Spec == Init /\ [][Next]_vars

-----------------------------------------------------------------------------
(* Properties.                                                             *)

\* Once the order is known to be paid, by whichever path, no workflow is left
\* from which another collection could start (record_original_paid and
\* record_recovery_paid change truth and workflow in one version).
PaidClosesCollection ==
    payment \in {"PAID", "OVERPAID"} => state \in CollectionTerminal

\* From the request for approval on, the case has waited at least the policy's
\* window since the failure that opened it, however the commands' own times and
\* the requested extension were chosen.
CollectionWaitsForWindow ==
    state \in {"APPROVAL_REQUIRED", "ACTION_QUEUED", "EXECUTING", "ACTION_UNCERTAIN",
               "ACTIVE", "RECOVERED"}
        => deadline >= startedAt + Window /\ lastAt >= deadline

\* While an action is pending, running, unknown or live the aggregate knows its
\* key, and a live one also knows its provider reference; otherwise neither the
\* paid nor the expired link could be attributed.
OpenActionIsIdentified ==
    /\ state \in {"APPROVAL_REQUIRED", "ACTION_QUEUED", "EXECUTING", "ACTION_UNCERTAIN",
                  "ACTIVE"} => key # None /\ proposal # None
    /\ state = "ACTIVE" => instrument # None

\* A proposal that needs an operator's approval never starts to execute without
\* one.  The graph alone does not ensure it: requeue_after_absence_proven is
\* accepted in APPROVAL_REQUIRED, so it is the effect decision, with the plan it
\* must match, that has to stop the execution.
ReviewedBeforeExecution ==
    [][\A p \in Proposals, at \in Times :
          begin_execution(p, at) /\ p.review => p \in approved]_vars

\* A closed case is never reopened: only evidence of a duplicate moves it on, and
\* paid truth is never taken back to anything a collection could start from.
ClosedStaysClosed ==
    [][/\ state \in CollectionTerminal => state' \in {state, "DUPLICATE_REVIEW"}
       /\ payment \in {"PAID", "OVERPAID", "EXCEPTION"}
            => payment' \in {payment, "OVERPAID", "EXCEPTION"}]_vars
=============================================================================
