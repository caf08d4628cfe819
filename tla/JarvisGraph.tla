------------------------------ MODULE JarvisGraph ------------------------------
(***************************************************************************)
(* One run of the workflow graph (graph/builder.py and the modules of its  *)
(* thirteen nodes), with the stores its nodes write and the desktop that   *)
(* executes what it dispatches.                                            *)
(*                                                                         *)
(* A node is one action: it reads the checkpointed state, calls its store  *)
(* and returns a delta that LangGraph checkpoints together with the next   *)
(* node.  The process may stop after the store call and before the         *)
(* checkpoint: then the store has changed and the graph runs the same node *)
(* again (saved = FALSE).  A node that raises changes nothing and is run   *)
(* again when the run is resumed: an action that is not enabled.           *)
(*                                                                         *)
(* An action of a plan stands for its semantic identity (action_id is a    *)
(* hash of capability, arguments, dependencies and timeout) and has one    *)
(* success criterion.  A ruling is what one policy evaluation decides for  *)
(* every action, version and reasons included: two evaluations with the    *)
(* same ruling give the same decision ids.                                 *)
(***************************************************************************)
EXTENDS Integers, Sequences, FiniteSets

CONSTANTS
    Action,      \* the actions a plan can be made of
    Needs,       \* the dependencies of each action
    MaxActions,  \* PlanValidationSettings.max_actions
    Remark,      \* what else a plan says: assumptions and warnings
    Ruling,      \* the outcomes of a policy evaluation
    Rule,        \* Rule[r][a]: allow, ask or deny
    Probe,       \* the verdicts the verification probes return
    VerifyLimit, \* VerificationSettings.max_revision_count
    Redelivery,  \* whether old results and old answers are delivered again
    None         \* Python's None

Verdict ==
    {"passed", "failed", "failed_retryable", "uncertain", "uncertain_retryable"}

ASSUME PlanAssumption ==
    MaxActions \in Nat /\ Needs \in [Action -> SUBSET Action]
ASSUME RuleAssumption ==
    Rule \in [Ruling -> [Action -> {"allow", "ask", "deny"}]]
ASSUME SettingsAssumption ==
    Probe \subseteq Verdict /\ VerifyLimit \in 0..2 /\ Redelivery \in BOOLEAN
ASSUME NoneAssumption ==
    None \notin Ruling \cup {"succeeded", "failed", "uncertain"}

VARIABLES
    next,           \* the node the checkpoint names
    state,          \* JarvisState
    approvals,      \* approval and resolution store, by action digest
    dispatches,     \* dispatch store: the ruling an action was sent under
    executions,     \* what the desktop did
    verifications,  \* verification store, by revision
    revisions       \* plan revision store, by revision

stores == <<approvals, dispatches, executions, verifications, revisions>>
vars == <<next, state, approvals, dispatches, executions, verifications, revisions>>

--------------------------------------------------------------------------------
(* Plans, decisions and evidence                                              *)

\* revision.py and response.py allow two revisions whatever the settings say.
MaxRevisions == 2

Terminal ==
    {"succeeded", "partially_succeeded", "failed", "cancelled", "denied",
     "expired"}

Node ==
    {"normalize_request", "load_context", "classify_intent", "create_plan",
     "validate_plan", "evaluate_policy", "pause_for_approval",
     "resume_approval", "dispatch_action", "collect_action_result",
     "verify_outcome", "revise_plan", "render_response", "end"}

\* Every action comes once, after the actions it depends on.
Ordered(s) ==
    \A i \in DOMAIN s :
        /\ Needs[s[i]] \subseteq {s[j] : j \in 1..(i - 1)}
        /\ \A j \in 1..(i - 1) : s[j] # s[i]

Plan ==
    [actions : {s \in UNION {[1..n -> Action] : n \in 1..MaxActions} : Ordered(s)},
     remark : Remark]

ASSUME PlanNoneAssumption == None \notin Plan

ActionsOf(plan) == {plan.actions[i] : i \in DOMAIN plan.actions}

Digest == Action \X Ruling

Observation ==
    [revision : 0..MaxRevisions, seen : SUBSET Action, recoverable : BOOLEAN,
     verdict : UNION {[A -> Verdict] : A \in SUBSET Action}]

Executed == {a \in Action : state.action_results[a] # None}

\* Mutant: a receipt past the lease counts as a success.
Succeeded_Late == {a \in Action : state.action_results[a] \in {"succeeded", "uncertain"}}

Succeeded == {a \in Action : state.action_results[a] = "succeeded"}

\* _workflow_status: the strictest decision of the plan.
PolicyStatus(plan, r) ==
    CASE \E a \in ActionsOf(plan) : Rule[r][a] = "deny" -> "denied"
      [] \A a \in ActionsOf(plan) : Rule[r][a] = "allow" -> "executing"
      [] OTHER -> "awaiting_approval"

\* The first action that satisfies P in the order of the checkpointed plan.
IsFirst(a, P(_)) ==
    \E i \in DOMAIN state.plan.actions :
        /\ a = state.plan.actions[i]
        /\ P(a)
        /\ \A j \in 1..(i - 1) : ~ P(state.plan.actions[j])

\* _validate_relations and approval.py's _validate_state: a plan, and a decision
\* for each of its actions.
Decided == state.plan # None /\ state.policy_decisions # None

\* _select_action: no result yet and every dependency succeeded.
Ready(a) == a \notin Executed /\ Needs[a] \subseteq Succeeded

\* _selected_action: the policy asks.
Asks(a) == Rule[state.policy_decisions][a] = "ask"

\* Mutant: any approval will do.
Authorized_AnyDigest(a) ==
    \/ Rule[state.policy_decisions][a] = "allow"
    \/ Asks(a) /\ state.pending_approval # None
              /\ state.pending_approval.value = "approved"

\* _approval_proof: allowed, or approved for exactly this action and ruling.
Authorized(a) ==
    \/ Rule[state.policy_decisions][a] = "allow"
    \/ /\ Asks(a)
       /\ state.pending_approval # None
       /\ state.pending_approval.value = "approved"
       /\ state.pending_approval.digest = <<a, state.policy_decisions>>

Issues(verdict) == {verdict[a] : a \in DOMAIN verdict} \ {"passed"}

\* Mutant: one revision too many.
Recoverable_OffByOne(verdict, revision, limit) ==
    /\ Issues(verdict) # {}
    /\ Issues(verdict) \subseteq {"failed_retryable", "uncertain_retryable"}
    /\ revision <= limit

Recoverable(verdict, revision, limit) ==
    /\ Issues(verdict) # {}
    /\ Issues(verdict) \subseteq {"failed_retryable", "uncertain_retryable"}
    /\ revision < limit

\* Mutant: one success is a success.
Outcome_AnyPassed(verdict) ==
    IF \E a \in DOMAIN verdict : verdict[a] = "passed" THEN "succeeded" ELSE "failed"

\* _classify_outcome
Outcome(verdict) ==
    IF Issues(verdict) = {} THEN "succeeded"
    ELSE IF Issues(verdict) \cap {"uncertain", "uncertain_retryable"} # {} THEN "uncertain"
    ELSE IF \E a \in DOMAIN verdict : verdict[a] = "passed" THEN "partially_succeeded"
    ELSE "failed"

\* _status_for
StatusFor(o) ==
    CASE o.recoverable -> "planning"
      [] ~ o.recoverable /\ Outcome(o.verdict) = "uncertain" -> "failed"
      [] OTHER -> Outcome(o.verdict)

\* _validate_verification_semantics against the current plan and results.
Consistent(o, limit) ==
    /\ DOMAIN o.verdict = ActionsOf(state.plan)
    /\ o.seen = Executed
    /\ o.recoverable = Recoverable(o.verdict, o.revision, limit)

LastObservation == state.observations[Len(state.observations)]

--------------------------------------------------------------------------------
(* Routing                                                                    *)

RouteAfterPolicy(status) ==
    CASE status = "awaiting_approval" -> "pause_for_approval"
      [] status = "executing" -> "dispatch_action"
      [] status = "denied" -> "render_response"

RouteAfterApproval(status) ==
    IF status = "executing" THEN "dispatch_action" ELSE "render_response"

RouteAfterVerification(status) ==
    IF status = "planning" THEN "revise_plan" ELSE "render_response"

Checkpoint(s, n) == state' = s /\ next' = n

\* What a node saves, or nothing when the process stops before it can.
Save(saved, s, n) ==
    IF saved THEN Checkpoint(s, n) ELSE UNCHANGED <<state, next>>

--------------------------------------------------------------------------------
(* From the request to a plan                                                 *)

Init ==
    /\ next = "normalize_request"
    /\ state = [status |-> "created", intent |-> None, plan |-> None,
                policy_decisions |-> None, pending_approval |-> None,
                action_results |-> [a \in Action |-> None],
                observations |-> <<>>, revision_count |-> 0,
                final_response |-> None]
    /\ approvals = [d \in Digest |-> "none"]
    /\ dispatches = [a \in Action |-> None]
    /\ executions = [a \in Action |-> "none"]
    /\ verifications = [n \in 0..MaxRevisions |-> None]
    /\ revisions = [n \in 1..MaxRevisions |-> None]

NormalizeRequest ==
    /\ next = "normalize_request"
    /\ state.status \in {"created", "planning"}
    /\ Checkpoint([state EXCEPT !.status = "planning"], "load_context")
    /\ UNCHANGED stores

LoadContext ==
    /\ next = "load_context"
    /\ state.status = "planning"
    /\ Checkpoint(state, "classify_intent")
    /\ UNCHANGED stores

ClassifyIntent ==
    /\ next = "classify_intent"
    /\ \E intent \in {"clear", "needs_clarification"} :
           Checkpoint([state EXCEPT !.intent = intent], "create_plan")
    /\ UNCHANGED stores

\* An intent that needs clarification makes the node raise.
CreatePlan ==
    /\ next = "create_plan"
    /\ state.status = "planning"
    /\ state.plan = None
    /\ state.intent = "clear"
    /\ \E plan \in Plan : Checkpoint([state EXCEPT !.plan = plan], "validate_plan")
    /\ UNCHANGED stores

\* The drafts of create_plan and revise_plan are always valid here; the node
\* raises when the trusted contracts changed since.
ValidatePlan ==
    /\ next = "validate_plan"
    /\ state.status = "planning"
    /\ state.plan # None
    /\ Checkpoint(state, "evaluate_policy")
    /\ UNCHANGED stores

EvaluatePolicy ==
    /\ next = "evaluate_policy"
    /\ state.status = "planning"
    /\ state.plan # None
    /\ state.policy_decisions = None
    /\ \E r \in Ruling :
           LET status == PolicyStatus(state.plan, r)
           IN  Checkpoint([state EXCEPT !.policy_decisions = r, !.status = status],
                          RouteAfterPolicy(status))
    /\ UNCHANGED stores

--------------------------------------------------------------------------------
(* Approval                                                                   *)

\* The node stores the request and interrupts the run: nothing is checkpointed.
RequestApproval(a) ==
    /\ next = "pause_for_approval"
    /\ state.status = "awaiting_approval"
    /\ state.pending_approval = None
    /\ Decided
    /\ IsFirst(a, Asks)
    /\ approvals[<<a, state.policy_decisions>>] = "none"
    /\ approvals' = [approvals EXCEPT ![<<a, state.policy_decisions>>] = "pending"]
    /\ UNCHANGED <<next, state, dispatches, executions, verifications, revisions>>

\* The answer resumes the node, which reads the stored request again, whatever
\* has become of it, and checkpoints the answer as it came.
AnswerApproval(a, candidate, answer) ==
    /\ next = "pause_for_approval"
    /\ state.status = "awaiting_approval"
    /\ state.pending_approval = None
    /\ Decided
    /\ IsFirst(a, Asks)
    /\ approvals[<<a, state.policy_decisions>>] # "none"
    /\ approvals[candidate] # "none"
    /\ Redelivery \/ candidate = <<a, state.policy_decisions>>
    /\ Checkpoint(
           [state EXCEPT !.pending_approval =
               [digest |-> <<a, state.policy_decisions>>,
                candidate |-> candidate, value |-> answer]],
           "resume_approval")
    /\ UNCHANGED stores

\* The deadline of a request passes.
Expire(d) ==
    /\ approvals[d] = "pending"
    /\ approvals' = [approvals EXCEPT ![d] = "overdue"]
    /\ UNCHANGED <<next, state, dispatches, executions, verifications, revisions>>

Resolution(d, answer) ==
    CASE approvals[d] = "overdue" -> "expired"
      [] approvals[d] = "pending" /\ answer = "approve" -> "approved"
      [] OTHER -> "denied"

\* The store resolves a request once and refuses every later call.
Unresolved(d) == approvals[d] \in {"pending", "overdue"}

ResumeApproval(saved) ==
    LET pending == state.pending_approval
        outcome == Resolution(pending.digest, pending.value)
        status == IF outcome = "approved" THEN "executing" ELSE outcome
    IN  /\ next = "resume_approval"
        /\ state.status = "awaiting_approval"
        /\ pending # None
        /\ pending.candidate = pending.digest
        /\ Unresolved(pending.digest)
        /\ approvals' = [approvals EXCEPT ![pending.digest] = outcome]
        /\ Save(saved,
                [state EXCEPT !.pending_approval.value = outcome, !.status = status],
                RouteAfterApproval(status))
        /\ UNCHANGED <<dispatches, executions, verifications, revisions>>

--------------------------------------------------------------------------------
(* Execution                                                                  *)

\* Mutant: the store overwrites what it has.
Accepts_Any(a) == TRUE

\* The dispatch store returns the request it has, or conflicts with another one.
Accepts(a) == dispatches[a] \in {None, state.policy_decisions}

DispatchAction(a, saved) ==
    /\ next = "dispatch_action"
    /\ state.status = "executing"
    /\ Decided
    /\ IsFirst(a, Ready)
    /\ Authorized(a)
    /\ Accepts(a)
    /\ dispatches' = [dispatches EXCEPT ![a] = state.policy_decisions]
    /\ Save(saved, state, "collect_action_result")
    /\ UNCHANGED <<approvals, executions, verifications, revisions>>

\* The desktop runs a queued request once; late is a receipt past the lease.
Execute(a, outcome) ==
    /\ dispatches[a] # None
    /\ executions[a] = "none"
    /\ executions' = [executions EXCEPT ![a] = outcome]
    /\ UNCHANGED <<next, state, approvals, dispatches, verifications, revisions>>

\* The outcome the result store projects from a receipt.
Collected(a) == IF executions[a] = "late" THEN "uncertain" ELSE executions[a]

\* Mutant: old receipts are taken for new ones.
Delivered_Again(a) == executions[a] # "none"

\* Receipts come from the transport; an old one only when it delivers again.
Delivered(a) == executions[a] # "none" /\ (Redelivery \/ a \notin Executed)

CollectActionResult(a) ==
    /\ next = "collect_action_result"
    /\ state.status = "executing"
    /\ state.plan # None
    /\ a \in ActionsOf(state.plan)
    /\ Delivered(a)
    /\ state.action_results[a] \in {None, Collected(a)}
    /\ Checkpoint([state EXCEPT !.action_results[a] = Collected(a),
                                !.status = "verifying"],
                  "verify_outcome")
    /\ UNCHANGED stores

--------------------------------------------------------------------------------
(* Verification, revision and the answer                                      *)

\* What the probes may report: an action without a result is uncertain.
Verdicts ==
    {v \in [ActionsOf(state.plan) -> Probe \cup {"uncertain_retryable"}] :
        \A a \in ActionsOf(state.plan) :
            IF a \in Executed THEN v[a] \in Probe ELSE v[a] = "uncertain_retryable"}

\* Mutant: every planned action is counted as a result.
Observe_Planned(verdict) ==
    [revision |-> state.revision_count, verdict |-> verdict,
     seen |-> ActionsOf(state.plan),
     recoverable |-> Recoverable(verdict, state.revision_count, VerifyLimit)]

Observe(verdict) ==
    [revision |-> state.revision_count, verdict |-> verdict, seen |-> Executed,
     recoverable |-> Recoverable(verdict, state.revision_count, VerifyLimit)]

\* The record of this revision, or a new one.
Verified(o) ==
    IF verifications[state.revision_count] # None
        THEN o = verifications[state.revision_count] /\ Consistent(o, VerifyLimit)
        ELSE \E v \in Verdicts : o = Observe(v)

\* operator.add, the reducer of the observations.
Record(o) == Append(state.observations, o)

VerifyOutcome(saved) ==
    /\ next = "verify_outcome"
    /\ state.status = "verifying"
    /\ state.plan # None
    /\ state.revision_count <= VerifyLimit
    /\ \E o \in {verifications[state.revision_count]}
                  \cup {Observe(v) : v \in Verdicts} :
           /\ Verified(o)
           /\ verifications' = [verifications EXCEPT ![state.revision_count] = o]
           /\ Save(saved,
                   [state EXCEPT !.observations = Record(o),
                                 !.status = StatusFor(o)],
                   RouteAfterVerification(StatusFor(o)))
    /\ UNCHANGED <<approvals, dispatches, executions, revisions>>

\* _load_verification: one record of this revision that says what happened.
Evidence ==
    {i \in DOMAIN state.observations :
        state.observations[i].revision = state.revision_count}

HasEvidence ==
    /\ Cardinality(Evidence) = 1
    /\ \A i \in Evidence :
           /\ Consistent(state.observations[i], MaxRevisions)
           /\ state.observations[i].recoverable

\* Mutant: the model's plan as it is.
KeepsExecuted_Model(plan) == TRUE

\* _merge_executed_plan and _validate_revision_plan: the executed actions come
\* first, in their old order; nothing new depends on an action that failed.
KeepsExecuted(plan) ==
    LET old == SelectSeq(state.plan.actions, LAMBDA a : a \in Executed)
    IN  /\ Executed \subseteq ActionsOf(plan)
        /\ SubSeq(plan.actions, 1, Len(old)) = old

RevisionAllowed(plan) ==
    /\ plan # state.plan
    /\ KeepsExecuted(plan)
    /\ \A a \in ActionsOf(plan) \ Executed :
           Needs[a] \cap Executed \subseteq Succeeded

RevisePlan(saved) ==
    LET n == state.revision_count + 1
    IN  /\ next = "revise_plan"
        /\ state.status = "planning"
        /\ state.plan # None
        /\ state.revision_count < MaxRevisions
        /\ HasEvidence
        /\ \E plan \in IF revisions[n] = None THEN Plan ELSE {revisions[n]} :
               /\ RevisionAllowed(plan)
               /\ revisions' = [revisions EXCEPT ![n] = plan]
               /\ Save(saved,
                       [state EXCEPT !.plan = plan, !.revision_count = n,
                                     !.policy_decisions = None,
                                     !.pending_approval = None],
                       "validate_plan")
        /\ UNCHANGED <<approvals, dispatches, executions, verifications>>

\* _load_evidence: the last verification has to describe the current plan.
CanRender ==
    /\ state.status \in Terminal
    /\ state.observations # <<>> => Consistent(LastObservation, MaxRevisions)
    /\ state.status \in {"succeeded", "partially_succeeded"} =>
           /\ state.observations # <<>>
           /\ Outcome(LastObservation.verdict) = state.status

\* The template of the answer.
Template ==
    IF /\ state.status = "failed"
       /\ state.observations # <<>>
       /\ Outcome(LastObservation.verdict) = "uncertain"
        THEN "uncertain"
        ELSE state.status

RenderResponse ==
    /\ next = "render_response"
    /\ CanRender
    /\ Checkpoint([state EXCEPT !.final_response = Template], "end")
    /\ UNCHANGED stores

--------------------------------------------------------------------------------
(* Specification                                                              *)

\* A step of the graph that needs neither the user nor the desktop.
GraphStep(saved) ==
    \/ saved /\ (\/ NormalizeRequest \/ LoadContext \/ ClassifyIntent
                 \/ CreatePlan \/ ValidatePlan \/ EvaluatePolicy
                 \/ RenderResponse)
    \/ saved /\ \E a \in Action : CollectActionResult(a)
    \/ ResumeApproval(saved)
    \/ \E a \in Action : DispatchAction(a, saved)
    \/ VerifyOutcome(saved)
    \/ RevisePlan(saved)

Environment ==
    \/ \E a \in Action : RequestApproval(a)
    \/ \E a \in Action, d \in Digest, answer \in {"approve", "deny"} :
           AnswerApproval(a, d, answer)
    \/ \E d \in Digest : Expire(d)
    \/ \E a \in Action, outcome \in {"succeeded", "failed", "late"} :
           Execute(a, outcome)

Next == Environment \/ \E saved \in BOOLEAN : GraphStep(saved)

Spec == Init /\ [][Next]_vars

\* LangGraph runs node after node, and a run that was interrupted is resumed
\* from its checkpoint by the wake-up in the outbox.
FairSpec == Spec /\ WF_vars(GraphStep(TRUE))

\* The same with a desktop that runs what it is sent.
DesktopSpec ==
    FairSpec /\ WF_vars(\E a \in Action, outcome \in {"succeeded", "failed", "late"} :
                           Execute(a, outcome))

--------------------------------------------------------------------------------
(* Properties                                                                 *)

Pending ==
    [digest : Digest, candidate : Digest,
     value : {"approve", "deny", "approved", "denied", "expired"}]

State ==
    [status : {"created", "planning", "awaiting_approval", "executing",
               "verifying"} \cup Terminal,
     intent : {None, "clear", "needs_clarification"},
     plan : Plan \cup {None},
     policy_decisions : Ruling \cup {None},
     pending_approval : Pending \cup {None},
     action_results : [Action -> {None, "succeeded", "failed", "uncertain"}],
     observations : Seq(Observation),
     revision_count : 0..MaxRevisions,
     final_response : Terminal \cup {None, "uncertain"}]

\* Type invariant: the values of every variable.
TypeOK ==
    /\ next \in Node
    /\ state \in State
    /\ approvals \in
           [Digest -> {"none", "pending", "overdue", "approved", "denied", "expired"}]
    /\ dispatches \in [Action -> Ruling \cup {None}]
    /\ executions \in [Action -> {"none", "succeeded", "failed", "late"}]
    /\ verifications \in [0..MaxRevisions -> Observation \cup {None}]
    /\ revisions \in [1..MaxRevisions -> Plan \cup {None}]

\* Nothing reaches the desktop without authority: what was sent under a ruling
\* was allowed by it, or the user approved this action under this ruling.
ApprovedBeforeDispatch ==
    \A a \in Action :
        LET r == dispatches[a]
        IN  r # None => \/ Rule[r][a] = "allow"
                        \/ Rule[r][a] = "ask" /\ approvals[<<a, r>>] = "approved"

\* The desktop sees an action only after it ran the ones it depends on, with
\* success, although the graph knows of them from receipts only.
DependenciesFirst ==
    \A a \in Action :
        dispatches[a] # None => \A n \in Needs[a] : executions[n] = "succeeded"

\* A revision never loses an action that has a result.
PlanKeepsResults == Executed # {} => Executed \subseteq ActionsOf(state.plan)

\* Whoever reaches revise_plan has the evidence the node insists on, although
\* verify_outcome computed it under its own settings.
RevisionHasEvidence ==
    next = "revise_plan" => state.revision_count < MaxRevisions /\ HasEvidence

\* "succeeded" is only said of a plan whose every action was sent and ran.
SuccessIsEarned ==
    state.final_response = "succeeded" =>
        \A a \in ActionsOf(state.plan) :
            dispatches[a] # None /\ executions[a] # "none"

\* A result, an observation and a sent request are never rewritten; a run that
\* has ended stays ended.
HistoryIsKept ==
    [][ /\ \A a \in Executed : state'.action_results[a] = state.action_results[a]
        /\ SubSeq(state'.observations, 1, Len(state.observations))
             = state.observations
        /\ \A a \in Action : dispatches[a] # None => dispatches'[a] = dispatches[a]
        /\ state.status \in Terminal => state'.status = state.status ]_vars

\* The abstract ledger of side effects this workflow implements.
Ledger ==
    INSTANCE ActionLedger WITH
        phase <- [a \in Action |->
                    IF dispatches[a] = None THEN "idle"
                    ELSE IF executions[a] = "none" THEN "sent" ELSE executions[a]],
        answered <- next = "end"

\* Refinement: actions are sent once, one at a time and after what they need, and
\* nothing is under way any more when the user is answered.
ImplementsLedger == Ledger!Spec

\* Every approval the user is asked for is one that can still be given: a
\* revision asks afresh (docs/07-STATE_DESIGN.md).
FreshApproval ==
    next = "pause_for_approval" =>
        \A a \in Action :
            IsFirst(a, Asks) =>
                approvals[<<a, state.policy_decisions>>]
                    \in {"none", "pending", "overdue"}

\* The answer "denied actions were not run" is true.
DeniedWasNotRun ==
    state.final_response = "denied" =>
        \A a \in ActionsOf(state.plan) :
            \/ Rule[state.policy_decisions][a] = "deny"
            \/ /\ state.pending_approval # None
               /\ state.pending_approval.value = "denied"
               /\ state.pending_approval.digest = <<a, state.policy_decisions>>
            => executions[a] = "none"

\* A request that needs clarification gets an answer.
ClarificationIsAnswered == state.intent = "needs_clarification" ~> next = "end"

\* With a desktop that runs what it is sent, a task under revision ends.
RevisionSettles == next = "revise_plan" ~> state.status \in Terminal

\* A run whose last word is a verification gets its answer, whatever was revised,
\* delivered again or lost in a restart on the way.
VerifiedIsAnswered ==
    state.status \in {"succeeded", "partially_succeeded", "failed"} ~> next = "end"

\* Every run that has ended gets its answer, a denied or expired one too.
TerminalIsAnswered == state.status \in Terminal ~> next = "end"
================================================================================
