--------------------------- MODULE JarvisGraphProofs ---------------------------
(***************************************************************************)
(* Proofs about JarvisGraph: what the runs check on small instances holds  *)
(* for every set of actions, rulings and remarks and for every setting.    *)
(***************************************************************************)
EXTENDS JarvisGraph, FiniteSetTheorems, SequenceTheorems, TLAPS

USE DEF MaxRevisions

\* The actions of a plan are actions.
LEMMA PlanActions ==
    ASSUME NEW plan \in Plan
    PROVE  ActionsOf(plan) \subseteq Action
BY DEF Plan, ActionsOf

\* The routes lead to nodes.
LEMMA RoutesAreNodes ==
    /\ \A plan, r : /\ PolicyStatus(plan, r) \in {"denied", "executing", "awaiting_approval"}
                    /\ RouteAfterPolicy(PolicyStatus(plan, r)) \in Node
    /\ \A s : RouteAfterApproval(s) \in Node /\ RouteAfterVerification(s) \in Node
BY DEF PolicyStatus, RouteAfterPolicy, RouteAfterApproval, RouteAfterVerification, Node

\* What a verification node writes is an observation, and a status.
LEMMA ObservationTyped ==
    ASSUME TypeOK, state.plan \in Plan, NEW v \in Verdicts
    PROVE  Observe(v) \in Observation
<1>1. v \in [ActionsOf(state.plan) -> Verdict]
  BY SettingsAssumption DEF Verdicts, Verdict
<1>2. ActionsOf(state.plan) \in SUBSET Action
  BY PlanActions
<1>3. state.revision_count \in 0..2
  BY DEF TypeOK, State
<1>4. Recoverable(v, state.revision_count, VerifyLimit) \in BOOLEAN
  BY DEF Recoverable
<1>5. Executed \in SUBSET Action
  BY DEF Executed
<1> QED  BY <1>1, <1>2, <1>3, <1>4, <1>5 DEF Observe, Observation

LEMMA StatusTyped ==
    \A o : StatusFor(o) \in {"planning", "succeeded", "partially_succeeded", "failed"}
BY DEF StatusFor, Outcome

--------------------------------------------------------------------------------
(* Type correctness                                                           *)

LEMMA InitTyped == Init => TypeOK
<1> SUFFICES ASSUME Init PROVE TypeOK
  OBVIOUS
<1>1. state \in State
  BY DEF Init, State, Terminal
<1> QED  BY <1>1 DEF Init, TypeOK, Node

\* What a step that is checkpointed, or lost before it is, keeps of the types.
LEMMA SaveTyped ==
    ASSUME TypeOK, NEW saved, NEW s \in State, NEW n \in Node, Save(saved, s, n)
    PROVE  next' \in Node /\ state' \in State
BY DEF TypeOK, Save, Checkpoint

LEMMA RequestTyped ==
    ASSUME TypeOK, NEW a \in Action, RequestApproval(a)
    PROVE  TypeOK'
BY DEF TypeOK, RequestApproval, Digest

LEMMA AnswerTyped ==
    ASSUME TypeOK, NEW a \in Action, NEW d \in Digest,
           NEW answer \in {"approve", "deny"}, AnswerApproval(a, d, answer)
    PROVE  TypeOK'
<1>1. <<a, state.policy_decisions>> \in Digest
  BY DEF TypeOK, State, AnswerApproval, Decided, Digest
<1>2. [digest |-> <<a, state.policy_decisions>>, candidate |-> d, value |-> answer]
        \in Pending
  BY <1>1 DEF Pending
<1>3. state' \in State
  BY <1>2 DEF TypeOK, State, AnswerApproval, Checkpoint
<1>4. next' \in Node
  BY DEF AnswerApproval, Checkpoint, Node
<1> QED  BY <1>3, <1>4 DEF TypeOK, AnswerApproval, stores

LEMMA ExpireTyped ==
    ASSUME TypeOK, NEW d \in Digest, Expire(d)
    PROVE  TypeOK'
BY DEF TypeOK, Expire

LEMMA ExecuteTyped ==
    ASSUME TypeOK, NEW a \in Action, NEW outcome \in {"succeeded", "failed", "late"},
           Execute(a, outcome)
    PROVE  TypeOK'
BY DEF TypeOK, Execute

LEMMA ResumeTyped ==
    ASSUME TypeOK, NEW saved, ResumeApproval(saved)
    PROVE  TypeOK'
<1> DEFINE pending == state.pending_approval
           outcome == Resolution(pending.digest, pending.value)
           status == IF outcome = "approved" THEN "executing" ELSE outcome
           s == [state EXCEPT !.pending_approval.value = outcome, !.status = status]
<1>1. pending \in Pending
  BY DEF TypeOK, State, ResumeApproval
<1>2. outcome \in {"approved", "denied", "expired"}
  BY DEF Resolution
<1>3. [pending EXCEPT !.value = outcome] \in Pending
  BY <1>1, <1>2 DEF Pending
<1>4. s = [state EXCEPT !.pending_approval = [pending EXCEPT !.value = outcome],
                        !.status = status]
  BY DEF TypeOK, State
<1>5. s \in State
  <2>1. status \in {"executing", "denied", "expired"}
    BY <1>2
  <2> HIDE DEF status, outcome, pending
  <2> QED  BY <1>3, <1>4, <2>1 DEF TypeOK, State, Terminal
<1>6. RouteAfterApproval(status) \in Node
  BY RoutesAreNodes
<1>7. Save(saved, s, RouteAfterApproval(status))
  BY DEF ResumeApproval
<1>8. next' \in Node /\ state' \in State
  <2> HIDE DEF s, status, outcome, pending
  <2> QED  BY <1>5, <1>6, <1>7, SaveTyped
<1>9. approvals' \in [Digest -> {"none", "pending", "overdue", "approved", "denied",
                                 "expired"}]
  <2>1. approvals' = [approvals EXCEPT ![pending.digest] = outcome]
    BY DEF ResumeApproval
  <2> HIDE DEF outcome, pending
  <2> QED  BY <1>2, <2>1 DEF TypeOK
<1> QED  BY <1>8, <1>9 DEF TypeOK, ResumeApproval

LEMMA DispatchTyped ==
    ASSUME TypeOK, NEW a \in Action, NEW saved, DispatchAction(a, saved)
    PROVE  TypeOK'
<1>1. next' \in Node /\ state' \in State
  BY SaveTyped DEF TypeOK, DispatchAction, Node
<1>2. dispatches' \in [Action -> Ruling \cup {None}]
  BY DEF TypeOK, State, DispatchAction
<1> QED  BY <1>1, <1>2 DEF TypeOK, DispatchAction

LEMMA CollectTyped ==
    ASSUME TypeOK, NEW a \in Action, CollectActionResult(a)
    PROVE  TypeOK'
<1>1. Collected(a) \in {"succeeded", "failed", "uncertain"}
  BY DEF TypeOK, CollectActionResult, Delivered, Collected
<1>2. state' \in State
  BY <1>1 DEF TypeOK, State, CollectActionResult, Checkpoint
<1>3. next' \in Node
  BY DEF CollectActionResult, Checkpoint, Node
<1> QED  BY <1>2, <1>3 DEF TypeOK, CollectActionResult, stores

\* Whichever record a verification ends with, it is an observation.
LEMMA VerifiedTyped ==
    ASSUME TypeOK, state.plan # None, NEW o, Verified(o)
    PROVE  o \in Observation
<1>1. state.plan \in Plan /\ state.revision_count \in 0..2
  BY DEF TypeOK, State
<1>2. CASE verifications[state.revision_count] # None
  BY <1>1, <1>2 DEF TypeOK, Verified
<1>3. CASE verifications[state.revision_count] = None
  BY <1>1, <1>3, ObservationTyped DEF Verified
<1> QED  BY <1>2, <1>3

LEMMA VerifyTyped ==
    ASSUME TypeOK, NEW saved, VerifyOutcome(saved)
    PROVE  TypeOK'
<1>1. PICK o : /\ Verified(o)
               /\ verifications' = [verifications EXCEPT ![state.revision_count] = o]
               /\ Save(saved,
                       [state EXCEPT !.observations = Record(o),
                                     !.status = StatusFor(o)],
                       RouteAfterVerification(StatusFor(o)))
  BY DEF VerifyOutcome
<1>2. o \in Observation
  BY <1>1, VerifiedTyped DEF VerifyOutcome
<1>3. Record(o) \in Seq(Observation)
  BY <1>2 DEF TypeOK, State, Record
<1>4. [state EXCEPT !.observations = Record(o), !.status = StatusFor(o)] \in State
  BY <1>3, StatusTyped DEF TypeOK, State, Terminal
<1>5. next' \in Node /\ state' \in State
  BY <1>1, <1>4, SaveTyped, RoutesAreNodes
<1>6. verifications' \in [0..MaxRevisions -> Observation \cup {None}]
  BY <1>1, <1>2 DEF TypeOK
<1> QED  BY <1>5, <1>6 DEF TypeOK, VerifyOutcome

LEMMA ReviseTyped ==
    ASSUME TypeOK, NEW saved, RevisePlan(saved)
    PROVE  TypeOK'
<1> DEFINE n == state.revision_count + 1
<1>1. n \in 1..2
  BY DEF TypeOK, State, RevisePlan
<1>2. PICK plan \in IF revisions[n] = None THEN Plan ELSE {revisions[n]} :
          /\ revisions' = [revisions EXCEPT ![n] = plan]
          /\ Save(saved,
                  [state EXCEPT !.plan = plan, !.revision_count = n,
                                !.policy_decisions = None, !.pending_approval = None],
                  "validate_plan")
  BY DEF RevisePlan
<1>3. plan \in Plan
  BY <1>1, <1>2 DEF TypeOK
<1> HIDE DEF n
<1>4. [state EXCEPT !.plan = plan, !.revision_count = n, !.policy_decisions = None,
                    !.pending_approval = None] \in State
  <2>1. n \in 0..2
    BY <1>1
  <2>2. state \in State
    BY DEF TypeOK
  <2> QED  BY <1>3, <2>1, <2>2 DEF State
<1>5. next' \in Node /\ state' \in State
  BY <1>2, <1>4, SaveTyped DEF Node
<1>6. revisions' \in [1..MaxRevisions -> Plan \cup {None}]
  BY <1>1, <1>2, <1>3 DEF TypeOK
<1> QED  BY <1>5, <1>6 DEF TypeOK, RevisePlan

LEMMA RenderTyped ==
    ASSUME TypeOK, RenderResponse
    PROVE  TypeOK'
<1>1. Template \in Terminal \cup {"uncertain"}
  BY DEF Template, RenderResponse, CanRender
<1>2. state' \in State
  BY <1>1 DEF TypeOK, State, RenderResponse, Checkpoint
<1>3. next' \in Node
  BY DEF RenderResponse, Checkpoint, Node
<1> QED  BY <1>2, <1>3 DEF TypeOK, RenderResponse, stores

\* The nodes that turn a request into decisions.
Planning ==
    \/ NormalizeRequest \/ LoadContext \/ ClassifyIntent
    \/ CreatePlan \/ ValidatePlan \/ EvaluatePolicy

LEMMA PlanningTyped ==
    ASSUME TypeOK, Planning
    PROVE  TypeOK'
<1>1. CASE NormalizeRequest
  <2>1. state' \in State /\ next' \in Node
    BY <1>1 DEF TypeOK, State, NormalizeRequest, Checkpoint, Node
  <2> QED  BY <1>1, <2>1 DEF TypeOK, NormalizeRequest, stores
<1>2. CASE LoadContext
  BY <1>2 DEF TypeOK, LoadContext, Checkpoint, Node, stores
<1>3. CASE ClassifyIntent
  <2>1. state' \in State /\ next' \in Node
    BY <1>3 DEF TypeOK, State, ClassifyIntent, Checkpoint, Node
  <2> QED  BY <1>3, <2>1 DEF TypeOK, ClassifyIntent, stores
<1>4. CASE CreatePlan
  <2>1. state' \in State /\ next' \in Node
    BY <1>4 DEF TypeOK, State, CreatePlan, Checkpoint, Node
  <2> QED  BY <1>4, <2>1 DEF TypeOK, CreatePlan, stores
<1>5. CASE ValidatePlan
  BY <1>5 DEF TypeOK, ValidatePlan, Checkpoint, Node, stores
<1>6. CASE EvaluatePolicy
  <2>1. PICK r \in Ruling :
            Checkpoint([state EXCEPT !.policy_decisions = r,
                                     !.status = PolicyStatus(state.plan, r)],
                       RouteAfterPolicy(PolicyStatus(state.plan, r)))
    BY <1>6 DEF EvaluatePolicy
  <2>2. /\ PolicyStatus(state.plan, r) \in {"denied", "executing", "awaiting_approval"}
        /\ RouteAfterPolicy(PolicyStatus(state.plan, r)) \in Node
    BY RoutesAreNodes
  <2>3. state' \in State
    BY <2>1, <2>2 DEF TypeOK, State, Checkpoint, Terminal
  <2>4. next' \in Node
    BY <2>1, <2>2 DEF Checkpoint
  <2> QED  BY <1>6, <2>3, <2>4 DEF TypeOK, EvaluatePolicy, stores
<1> QED  BY <1>1, <1>2, <1>3, <1>4, <1>5, <1>6 DEF Planning

LEMMA StutterTyped ==
    ASSUME TypeOK, UNCHANGED vars
    PROVE  TypeOK'
BY DEF TypeOK, vars

\* Every kind of step, for the proofs that go through them.
Step(saved) ==
    \/ Planning
    \/ RenderResponse
    \/ \E a \in Action : CollectActionResult(a)
    \/ ResumeApproval(saved)
    \/ \E a \in Action : DispatchAction(a, saved)
    \/ VerifyOutcome(saved)
    \/ RevisePlan(saved)
    \/ \E a \in Action : RequestApproval(a)
    \/ \E a \in Action, d \in Digest, answer \in {"approve", "deny"} :
           AnswerApproval(a, d, answer)
    \/ \E d \in Digest : Expire(d)
    \/ \E a \in Action, outcome \in {"succeeded", "failed", "late"} :
           Execute(a, outcome)

LEMMA NextIsStep == Next => \E saved \in BOOLEAN : Step(saved)
<1>1. ASSUME NEW saved \in BOOLEAN, GraphStep(saved)
      PROVE  Step(saved)
  BY <1>1 DEF GraphStep, Step, Planning
<1>2. ASSUME Environment
      PROVE  Step(TRUE)
  BY <1>2 DEF Environment, Step
<1> QED  BY <1>1, <1>2 DEF Next

LEMMA StepTyped ==
    ASSUME TypeOK, [Next]_vars
    PROVE  TypeOK'
<1>1. ASSUME NEW saved \in BOOLEAN, Step(saved)
      PROVE  TypeOK'
  BY <1>1, PlanningTyped, RenderTyped, CollectTyped, ResumeTyped, DispatchTyped,
     VerifyTyped, ReviseTyped, RequestTyped, AnswerTyped, ExpireTyped, ExecuteTyped
     DEF Step
<1> QED  BY <1>1, NextIsStep, StutterTyped

\* The values of every variable, in every reachable state.
THEOREM TypeCorrect == Spec => []TypeOK
<1>1. Init => TypeOK
  BY InitTyped
<1>2. TypeOK /\ [Next]_vars => TypeOK'
  BY StepTyped
<1> QED  BY <1>1, <1>2, PTL DEF Spec

--------------------------------------------------------------------------------
(* Authority: ApprovedBeforeDispatch                                          *)

\* The graph says "approved" only of what the store has approved.
ApprovalIsResolved ==
    state.pending_approval # None /\ state.pending_approval.value = "approved" =>
        approvals[state.pending_approval.digest] = "approved"

AuthorityInv == TypeOK /\ ApprovalIsResolved /\ ApprovedBeforeDispatch

LEMMA AuthorityStep ==
    ASSUME AuthorityInv, [Next]_vars
    PROVE  ApprovalIsResolved' /\ ApprovedBeforeDispatch'
<1> USE DEF AuthorityInv
<1>1. ASSUME approvals' = approvals, dispatches' = dispatches,
             state'.pending_approval \in {None, state.pending_approval}
      PROVE  ApprovalIsResolved' /\ ApprovedBeforeDispatch'
  BY <1>1 DEF ApprovalIsResolved, ApprovedBeforeDispatch
<1>3. ASSUME Planning \/ RenderResponse \/ \E a \in Action : CollectActionResult(a)
      PROVE  ApprovalIsResolved' /\ ApprovedBeforeDispatch'
  <2>1. state'.pending_approval = state.pending_approval
    BY <1>3 DEF TypeOK, State, Planning, NormalizeRequest, LoadContext, ClassifyIntent,
       CreatePlan, ValidatePlan, EvaluatePolicy, RenderResponse, CollectActionResult,
       Checkpoint
  <2>2. approvals' = approvals /\ dispatches' = dispatches
    BY <1>3 DEF Planning, NormalizeRequest, LoadContext, ClassifyIntent, CreatePlan,
       ValidatePlan, EvaluatePolicy, RenderResponse, CollectActionResult, stores
  <2> QED  BY <1>1, <2>1, <2>2
<1>4. ASSUME NEW saved, ResumeApproval(saved)
      PROVE  ApprovalIsResolved' /\ ApprovedBeforeDispatch'
  <2> DEFINE d == state.pending_approval.digest
             outcome == Resolution(d, state.pending_approval.value)
  <2>1. /\ d \in Digest
        /\ approvals[d] \in {"pending", "overdue"}
        /\ approvals' = [approvals EXCEPT ![d] = outcome]
        /\ dispatches' = dispatches
    BY <1>4 DEF TypeOK, State, Pending, ResumeApproval, Unresolved
  <2>2. ApprovedBeforeDispatch'
    <3> HIDE DEF d, outcome
    <3> QED  BY <2>1 DEF TypeOK, ApprovedBeforeDispatch
  <2>3. CASE saved
    <3>1. state'.pending_approval = [state.pending_approval EXCEPT !.value = outcome]
      BY <1>4, <2>3 DEF TypeOK, State, ResumeApproval, Save, Checkpoint
    <3>2. state'.pending_approval.digest = d /\ state'.pending_approval.value = outcome
      BY <1>4, <3>1 DEF TypeOK, State, Pending, ResumeApproval
    <3> HIDE DEF d, outcome
    <3>3. ApprovalIsResolved'
      BY <2>1, <3>2 DEF TypeOK, ApprovalIsResolved
    <3> QED  BY <2>2, <3>3
  <2>4. CASE ~ saved
    <3>1. state' = state
      BY <1>4, <2>4 DEF ResumeApproval, Save
    <3>2. ApprovalIsResolved'
      BY <2>1, <3>1 DEF ApprovalIsResolved
    <3> QED  BY <2>2, <3>2
  <2> QED  BY <2>3, <2>4
<1>5. ASSUME NEW a \in Action, NEW saved, DispatchAction(a, saved)
      PROVE  ApprovalIsResolved' /\ ApprovedBeforeDispatch'
  <2>1. state' = state /\ approvals' = approvals
    BY <1>5 DEF DispatchAction, Save, Checkpoint
  <2>2. dispatches' = [dispatches EXCEPT ![a] = state.policy_decisions]
    BY <1>5 DEF DispatchAction
  <2>3. LET r == state.policy_decisions
        IN  \/ Rule[r][a] = "allow"
            \/ Rule[r][a] = "ask" /\ approvals[<<a, r>>] = "approved"
    BY <1>5 DEF DispatchAction, Authorized, Asks, ApprovalIsResolved
  <2>4. ApprovedBeforeDispatch'
    BY <2>1, <2>2, <2>3 DEF TypeOK, ApprovedBeforeDispatch
  <2> QED  BY <2>1, <2>4 DEF ApprovalIsResolved
<1>6. ASSUME NEW saved, VerifyOutcome(saved) \/ RevisePlan(saved)
      PROVE  ApprovalIsResolved' /\ ApprovedBeforeDispatch'
  <2>1. state'.pending_approval \in {None, state.pending_approval}
    BY <1>6 DEF TypeOK, State, VerifyOutcome, RevisePlan, Save, Checkpoint
  <2> QED  BY <1>1, <1>6, <2>1 DEF VerifyOutcome, RevisePlan
<1>7. ASSUME NEW a \in Action, RequestApproval(a)
      PROVE  ApprovalIsResolved' /\ ApprovedBeforeDispatch'
  <2>1. \A d \in Digest : approvals[d] = "approved" => approvals'[d] = "approved"
    BY <1>7 DEF TypeOK, RequestApproval
  <2>2. ApprovedBeforeDispatch'
    BY <1>7, <2>1 DEF TypeOK, RequestApproval, ApprovedBeforeDispatch, Digest
  <2>3. ApprovalIsResolved'
    BY <1>7 DEF RequestApproval, ApprovalIsResolved
  <2> QED  BY <2>2, <2>3
<1>8. ASSUME NEW a \in Action, NEW d \in Digest, NEW answer \in {"approve", "deny"},
             AnswerApproval(a, d, answer)
      PROVE  ApprovalIsResolved' /\ ApprovedBeforeDispatch'
  <2>1. state'.pending_approval.value = answer
    BY <1>8 DEF TypeOK, State, AnswerApproval, Checkpoint
  <2> QED  BY <1>8, <2>1 DEF AnswerApproval, ApprovalIsResolved, ApprovedBeforeDispatch,
           stores
<1>9. ASSUME NEW d \in Digest, Expire(d)
      PROVE  ApprovalIsResolved' /\ ApprovedBeforeDispatch'
  <2>1. \A e \in Digest : approvals[e] = "approved" => approvals'[e] = "approved"
    BY <1>9 DEF TypeOK, Expire
  <2>2. ApprovedBeforeDispatch'
    BY <1>9, <2>1 DEF TypeOK, Expire, ApprovedBeforeDispatch, Digest
  <2>3. ApprovalIsResolved'
    BY <1>9, <2>1 DEF TypeOK, State, Pending, Expire, ApprovalIsResolved
  <2> QED  BY <2>2, <2>3
<1>10. ASSUME NEW a \in Action, NEW o \in {"succeeded", "failed", "late"}, Execute(a, o)
       PROVE  ApprovalIsResolved' /\ ApprovedBeforeDispatch'
  BY <1>10 DEF Execute, ApprovalIsResolved, ApprovedBeforeDispatch
<1>11. ASSUME UNCHANGED vars
       PROVE  ApprovalIsResolved' /\ ApprovedBeforeDispatch'
  BY <1>11 DEF vars, ApprovalIsResolved, ApprovedBeforeDispatch
<1>12. ASSUME NEW saved \in BOOLEAN, Step(saved)
       PROVE  ApprovalIsResolved' /\ ApprovedBeforeDispatch'
  BY <1>12, <1>3, <1>4, <1>5, <1>6, <1>7, <1>8, <1>9, <1>10 DEF Step
<1> QED  BY <1>11, <1>12, NextIsStep

\* Nothing reaches the desktop unless policy allowed it or the user approved it,
\* exactly this action under exactly this ruling (dispatch.py, _approval_proof).
THEOREM AuthorityCorrect == Spec => []ApprovedBeforeDispatch
<1>1. Init => AuthorityInv
  <2>1. Init => ApprovalIsResolved /\ ApprovedBeforeDispatch
    BY DEF Init, ApprovalIsResolved, ApprovedBeforeDispatch
  <2> QED  BY <2>1, InitTyped DEF AuthorityInv
<1>2. AuthorityInv /\ [Next]_vars => AuthorityInv'
  BY StepTyped, AuthorityStep DEF AuthorityInv
<1>3. AuthorityInv => ApprovedBeforeDispatch
  BY DEF AuthorityInv
<1> QED  BY <1>1, <1>2, <1>3, PTL DEF Spec

--------------------------------------------------------------------------------
(* Results: DependenciesFirst and PlanKeepsResults                            *)

\* The steps that leave plan, results, dispatches and executions alone.
LEMMA QuietSteps ==
    ASSUME TypeOK, NEW saved,
           \/ NormalizeRequest \/ LoadContext \/ ClassifyIntent \/ ValidatePlan
           \/ EvaluatePolicy \/ RenderResponse \/ ResumeApproval(saved)
           \/ VerifyOutcome(saved)
           \/ \E a \in Action : RequestApproval(a)
           \/ \E a \in Action, d \in Digest, answer \in {"approve", "deny"} :
                  AnswerApproval(a, d, answer)
           \/ \E d \in Digest : Expire(d)
    PROVE  /\ state'.plan = state.plan
           /\ state'.action_results = state.action_results
           /\ dispatches' = dispatches
           /\ executions' = executions
<1>1. dispatches' = dispatches /\ executions' = executions
  BY DEF NormalizeRequest, LoadContext, ClassifyIntent, ValidatePlan, EvaluatePolicy,
     RenderResponse, ResumeApproval, VerifyOutcome, RequestApproval, AnswerApproval,
     Expire, stores
<1>2. CASE \/ NormalizeRequest \/ LoadContext \/ ClassifyIntent \/ ValidatePlan
           \/ EvaluatePolicy \/ RenderResponse
  BY <1>1, <1>2 DEF TypeOK, State, NormalizeRequest, LoadContext, ClassifyIntent,
     ValidatePlan, EvaluatePolicy, RenderResponse, Checkpoint
<1>3. CASE ResumeApproval(saved) \/ VerifyOutcome(saved)
  BY <1>1, <1>3 DEF TypeOK, State, ResumeApproval, VerifyOutcome, Save, Checkpoint
<1>4. CASE \/ \E a \in Action : RequestApproval(a)
           \/ \E a \in Action, d \in Digest, answer \in {"approve", "deny"} :
                  AnswerApproval(a, d, answer)
           \/ \E d \in Digest : Expire(d)
  BY <1>1, <1>4 DEF TypeOK, State, RequestApproval, AnswerApproval, Expire, Checkpoint
<1> QED  BY <1>2, <1>3, <1>4

\* A success the graph has on record is a success of the desktop, and the plan
\* has every action with a result.
SuccessHappened ==
    \A a \in Action :
        state.action_results[a] = "succeeded" => executions[a] = "succeeded"

ResultsArePlanned ==
    IF state.plan = None THEN Executed = {} ELSE Executed \subseteq ActionsOf(state.plan)

ResultsInv == TypeOK /\ SuccessHappened /\ ResultsArePlanned /\ DependenciesFirst

LEMMA ResultsFrame ==
    ASSUME ResultsInv, state'.plan = state.plan,
           state'.action_results = state.action_results,
           dispatches' = dispatches, executions' = executions
    PROVE  SuccessHappened' /\ ResultsArePlanned' /\ DependenciesFirst'
BY DEF ResultsInv, SuccessHappened, ResultsArePlanned, DependenciesFirst, Executed,
   ActionsOf

LEMMA ResultsStep ==
    ASSUME ResultsInv, [Next]_vars
    PROVE  SuccessHappened' /\ ResultsArePlanned' /\ DependenciesFirst'
<1>0. TypeOK
  BY DEF ResultsInv
<1>1. ASSUME CreatePlan
      PROVE  SuccessHappened' /\ ResultsArePlanned' /\ DependenciesFirst'
  <2>1. state'.action_results = state.action_results /\ Executed = {}
    BY <1>0, <1>1 DEF ResultsInv, ResultsArePlanned, TypeOK, State, CreatePlan, Checkpoint
  <2>2. executions' = executions /\ dispatches' = dispatches
    BY <1>1 DEF CreatePlan, stores
  <2>3. ResultsArePlanned'
    BY <2>1 DEF ResultsArePlanned, Executed
  <2> QED  BY <2>1, <2>2, <2>3 DEF ResultsInv, SuccessHappened, DependenciesFirst
<1>2. ASSUME NEW a \in Action, CollectActionResult(a)
      PROVE  SuccessHappened' /\ ResultsArePlanned' /\ DependenciesFirst'
  <2>1. /\ state'.plan = state.plan
        /\ state'.action_results = [state.action_results EXCEPT ![a] = Collected(a)]
        /\ executions' = executions
        /\ dispatches' = dispatches
    BY <1>0, <1>2 DEF TypeOK, State, CollectActionResult, Checkpoint, stores
  <2>2. Collected(a) = "succeeded" => executions[a] = "succeeded"
    BY DEF Collected
  <2>3. SuccessHappened'
    BY <1>0, <2>1, <2>2 DEF ResultsInv, TypeOK, State, SuccessHappened
  <2>4. ResultsArePlanned'
    <3>1. Executed' \subseteq Executed \cup {a}
      BY <1>0, <2>1 DEF TypeOK, State, Executed
    <3>2. a \in ActionsOf(state.plan) /\ state.plan # None
      BY <1>2 DEF CollectActionResult
    <3> QED  BY <2>1, <3>1, <3>2 DEF ResultsInv, ResultsArePlanned, ActionsOf
  <2> QED  BY <2>1, <2>3, <2>4 DEF ResultsInv, DependenciesFirst
<1>3. ASSUME NEW a \in Action, NEW saved, DispatchAction(a, saved)
      PROVE  SuccessHappened' /\ ResultsArePlanned' /\ DependenciesFirst'
  <2>1. /\ state' = state
        /\ executions' = executions
        /\ dispatches' = [dispatches EXCEPT ![a] = state.policy_decisions]
    BY <1>3 DEF DispatchAction, Save, Checkpoint
  <2>2. Needs[a] \subseteq Succeeded
    BY <1>3 DEF DispatchAction, IsFirst, Ready
  <2>3. \A n \in Needs[a] : executions[n] = "succeeded"
    BY <2>2 DEF ResultsInv, SuccessHappened, Succeeded
  <2>4. DependenciesFirst'
    BY <1>0, <2>1, <2>3 DEF ResultsInv, TypeOK, DependenciesFirst
  <2> QED  BY <2>1, <2>4 DEF ResultsInv, SuccessHappened, ResultsArePlanned, Executed,
           ActionsOf
<1>4. ASSUME NEW saved, RevisePlan(saved)
      PROVE  SuccessHappened' /\ ResultsArePlanned' /\ DependenciesFirst'
  <2>1. /\ state'.action_results = state.action_results
        /\ executions' = executions
        /\ dispatches' = dispatches
    BY <1>0, <1>4 DEF TypeOK, State, RevisePlan, Save, Checkpoint
  <2>2. state.plan # None
    BY <1>4 DEF RevisePlan
  <2>3. Executed \subseteq ActionsOf(state'.plan)
    <3>1. PICK plan : /\ RevisionAllowed(plan)
                      /\ Save(saved,
                              [state EXCEPT !.plan = plan,
                                            !.revision_count = state.revision_count + 1,
                                            !.policy_decisions = None,
                                            !.pending_approval = None],
                              "validate_plan")
      BY <1>4 DEF RevisePlan
    <3>2. Executed \subseteq ActionsOf(plan)
      BY <3>1 DEF RevisionAllowed, KeepsExecuted
    <3>3. state'.plan \in {plan, state.plan}
      BY <1>0, <3>1 DEF TypeOK, State, Save, Checkpoint
    <3> QED  BY <2>2, <3>2, <3>3 DEF ResultsInv, ResultsArePlanned
  <2>4. ResultsArePlanned'
    <3>1. Executed' = Executed
      BY <2>1 DEF Executed
    <3>2. state'.plan # None
      <4>1. PICK n : /\ n \in 1..2
                     /\ n = state.revision_count + 1
        BY <1>0, <1>4 DEF TypeOK, State, RevisePlan
      <4>2. PICK plan \in IF revisions[n] = None THEN Plan ELSE {revisions[n]} :
                Save(saved,
                     [state EXCEPT !.plan = plan, !.revision_count = n,
                                   !.policy_decisions = None,
                                   !.pending_approval = None],
                     "validate_plan")
        BY <1>4, <4>1 DEF RevisePlan
      <4>3. plan \in Plan
        BY <1>0, <4>1, <4>2 DEF TypeOK
      <4>4. state'.plan \in {plan, state.plan}
        BY <1>0, <4>2 DEF TypeOK, State, Save, Checkpoint
      <4> QED  BY <2>2, <4>3, <4>4, PlanNoneAssumption
    <3> QED  BY <2>3, <3>1, <3>2 DEF ResultsArePlanned, ActionsOf
  <2> QED  BY <2>1, <2>4 DEF ResultsInv, SuccessHappened, DependenciesFirst
<1>5. ASSUME NEW a \in Action, NEW o \in {"succeeded", "failed", "late"}, Execute(a, o)
      PROVE  SuccessHappened' /\ ResultsArePlanned' /\ DependenciesFirst'
  <2>1. \A b \in Action : executions[b] = "succeeded" => executions'[b] = "succeeded"
    BY <1>0, <1>5 DEF TypeOK, Execute
  <2>2. state' = state /\ dispatches' = dispatches
    BY <1>5 DEF Execute
  <2>3. DependenciesFirst'
    BY <1>0, <2>1, <2>2, PlanAssumption DEF ResultsInv, DependenciesFirst
  <2>4. SuccessHappened'
    BY <2>1, <2>2 DEF ResultsInv, SuccessHappened
  <2> QED  BY <2>2, <2>3, <2>4 DEF ResultsInv, ResultsArePlanned, Executed, ActionsOf
<1>6. ASSUME UNCHANGED vars
      PROVE  SuccessHappened' /\ ResultsArePlanned' /\ DependenciesFirst'
  BY <1>6, ResultsFrame DEF vars
<1>7. ASSUME NEW saved \in BOOLEAN, Step(saved)
      PROVE  SuccessHappened' /\ ResultsArePlanned' /\ DependenciesFirst'
  BY <1>0, <1>7, <1>1, <1>2, <1>3, <1>4, <1>5, QuietSteps, ResultsFrame
     DEF Step, Planning
<1> QED  BY <1>6, <1>7, NextIsStep

LEMMA ResultsInvariant == Spec => []ResultsInv
<1>1. Init => ResultsInv
  <2>1. ASSUME Init
        PROVE  SuccessHappened /\ ResultsArePlanned /\ DependenciesFirst
    <3>1. /\ state.plan = None
          /\ state.action_results = [a \in Action |-> None]
          /\ dispatches = [a \in Action |-> None]
      BY <2>1 DEF Init
    <3>2. SuccessHappened
      BY <3>1, NoneAssumption DEF SuccessHappened
    <3> QED  BY <3>1, <3>2 DEF ResultsArePlanned, DependenciesFirst, Executed
  <2> QED  BY <2>1, InitTyped DEF ResultsInv
<1>2. ResultsInv /\ [Next]_vars => ResultsInv'
  BY StepTyped, ResultsStep DEF ResultsInv
<1> QED  BY <1>1, <1>2, PTL DEF Spec

\* No action is sent before the ones it needs have run with success on the desktop
\* (dispatch.py, _select_action, with the outcome that action_result.py records).
THEOREM DependenciesCorrect == Spec => []DependenciesFirst
<1>1. ResultsInv => DependenciesFirst
  BY DEF ResultsInv
<1> QED  BY <1>1, ResultsInvariant, PTL

\* No revision loses an action with a result (revision.py, _validate_revision_plan).
THEOREM RevisionsKeepResults == Spec => []PlanKeepsResults
<1>1. ResultsInv => PlanKeepsResults
  BY DEF ResultsInv, ResultsArePlanned, PlanKeepsResults
<1> QED  BY <1>1, ResultsInvariant, PTL

--------------------------------------------------------------------------------
(* History: HistoryIsKept                                                     *)

\* What one step may not rewrite; HistoryIsKept says it of every step.
Kept ==
    /\ \A a \in Executed : state'.action_results[a] = state.action_results[a]
    /\ SubSeq(state'.observations, 1, Len(state.observations)) = state.observations
    /\ \A a \in Action : dispatches[a] # None => dispatches'[a] = dispatches[a]
    /\ state.status \in Terminal => state'.status = state.status

LEMMA PrefixOfItself ==
    ASSUME NEW S, NEW s \in Seq(S)
    PROVE  SubSeq(s, 1, Len(s)) = s
BY SMT

LEMMA PrefixOfAppend ==
    ASSUME NEW S, NEW s \in Seq(S), NEW e \in S
    PROVE  SubSeq(Append(s, e), 1, Len(s)) = s
BY SMT

LEMMA KeptByFrame ==
    ASSUME TypeOK, state'.action_results = state.action_results,
           state'.observations = state.observations, dispatches' = dispatches,
           state.status \in Terminal => state'.status = state.status
    PROVE  Kept
BY PrefixOfItself DEF TypeOK, State, Kept

LEMMA KeptByStep ==
    ASSUME TypeOK, NEW saved, Step(saved)
    PROVE  Kept
<1>1. CASE Planning \/ RenderResponse
  <2>1. /\ state'.action_results = state.action_results
        /\ state'.observations = state.observations
    BY <1>1 DEF TypeOK, State, Planning, NormalizeRequest, LoadContext, ClassifyIntent,
       CreatePlan, ValidatePlan, EvaluatePolicy, RenderResponse, Checkpoint
  <2>2. state.status \in Terminal => state'.status = state.status
    BY <1>1 DEF TypeOK, State, Terminal, Planning, NormalizeRequest, LoadContext,
       ClassifyIntent, CreatePlan, ValidatePlan, EvaluatePolicy, RenderResponse, Checkpoint
  <2>3. dispatches' = dispatches
    BY <1>1 DEF Planning, NormalizeRequest, LoadContext, ClassifyIntent,
       CreatePlan, ValidatePlan, EvaluatePolicy, RenderResponse, stores
  <2> QED  BY <2>1, <2>2, <2>3, KeptByFrame
<1>2. ASSUME NEW a \in Action, CollectActionResult(a)
      PROVE  Kept
  <2>1. /\ state'.action_results = [state.action_results EXCEPT ![a] = Collected(a)]
        /\ state.action_results[a] \in {None, Collected(a)}
        /\ state'.observations = state.observations
        /\ dispatches' = dispatches
        /\ state.status \notin Terminal
    BY <1>2 DEF TypeOK, State, Terminal, CollectActionResult, Checkpoint, stores
  <2>2. \A b \in Executed : state'.action_results[b] = state.action_results[b]
    BY <2>1 DEF TypeOK, State, Executed
  <2> QED  BY <2>1, <2>2, PrefixOfItself DEF TypeOK, State, Kept
<1>3. CASE ResumeApproval(saved) \/ RevisePlan(saved)
  <2>1. /\ state'.action_results = state.action_results
        /\ state'.observations = state.observations
    BY <1>3 DEF TypeOK, State, ResumeApproval, RevisePlan, Save, Checkpoint
  <2>2. dispatches' = dispatches /\ state.status \notin Terminal
    BY <1>3 DEF Terminal, ResumeApproval, RevisePlan
  <2> QED  BY <2>1, <2>2, KeptByFrame
<1>4. ASSUME NEW a \in Action, DispatchAction(a, saved)
      PROVE  Kept
  <2>1. state' = state
    BY <1>4 DEF DispatchAction, Save, Checkpoint
  <2>2. \A b \in Action : dispatches[b] # None => dispatches'[b] = dispatches[b]
    BY <1>4 DEF TypeOK, DispatchAction, Accepts
  <2> QED  BY <2>1, <2>2, PrefixOfItself DEF TypeOK, State, Kept
<1>5. CASE VerifyOutcome(saved)
  <2>1. PICK o : Verified(o) /\ Save(saved,
                     [state EXCEPT !.observations = Record(o), !.status = StatusFor(o)],
                     RouteAfterVerification(StatusFor(o)))
    BY <1>5 DEF VerifyOutcome
  <2>2. o \in Observation
    BY <1>5, <2>1, VerifiedTyped DEF VerifyOutcome
  <2>3. /\ state'.action_results = state.action_results
        /\ state'.observations \in {state.observations, Append(state.observations, o)}
    BY <2>1 DEF TypeOK, State, Save, Checkpoint, Record
  <2>4. dispatches' = dispatches /\ state.status \notin Terminal
    BY <1>5 DEF Terminal, VerifyOutcome
  <2>5. SubSeq(state'.observations, 1, Len(state.observations)) = state.observations
    BY <2>2, <2>3, PrefixOfItself, PrefixOfAppend DEF TypeOK, State
  <2> QED  BY <2>3, <2>4, <2>5 DEF Kept
<1>6. CASE \/ \E a \in Action : RequestApproval(a)
           \/ \E d \in Digest : Expire(d)
           \/ \E a \in Action, outcome \in {"succeeded", "failed", "late"} :
                  Execute(a, outcome)
  <2>1. state' = state /\ dispatches' = dispatches
    BY <1>6 DEF RequestApproval, Expire, Execute
  <2> QED  BY <2>1, KeptByFrame
<1>7. ASSUME NEW a \in Action, NEW d \in Digest, NEW answer \in {"approve", "deny"},
             AnswerApproval(a, d, answer)
      PROVE  Kept
  <2>1. /\ state'.action_results = state.action_results
        /\ state'.observations = state.observations
        /\ state'.status = state.status
    BY <1>7 DEF TypeOK, State, AnswerApproval, Checkpoint
  <2> QED  BY <1>7, <2>1, KeptByFrame DEF AnswerApproval, stores
<1> QED  BY <1>1, <1>2, <1>3, <1>4, <1>5, <1>6, <1>7 DEF Step

\* Results, observations and sent requests are never rewritten, and a run that has
\* ended stays ended, whatever is delivered again or run again after a restart
\* (action_result.py's and dispatch.py's conflicts, the reducer of the observations).
THEOREM HistoryKept == Spec => HistoryIsKept
<1>1. TypeOK /\ [Next]_vars => [Kept]_vars
  BY NextIsStep, KeptByStep
<1> QED  BY <1>1, TypeCorrect, PTL DEF Spec, HistoryIsKept, Kept

--------------------------------------------------------------------------------
(* The answer: SuccessIsEarned                                                *)

\* A verification passes only actions with a result.
Honest(o) == \A a \in DOMAIN o.verdict : o.verdict[a] = "passed" => a \in o.seen

RecordsAreHonest ==
    /\ \A n \in 0..MaxRevisions : verifications[n] # None => Honest(verifications[n])
    /\ \A i \in DOMAIN state.observations : Honest(state.observations[i])

\* A result comes from an execution, and an execution from a dispatch.
ResultsHappened ==
    \A a \in Action :
        /\ state.action_results[a] # None => executions[a] # "none"
        /\ executions[a] # "none" => dispatches[a] # None

AnsweredIsEnd ==
    /\ state.final_response # None => next = "end"
    /\ state.final_response = "succeeded" => ActionsOf(state.plan) \subseteq Action

AnswerInv ==
    TypeOK /\ RecordsAreHonest /\ ResultsHappened /\ AnsweredIsEnd /\ SuccessIsEarned

\* RecordsAreHonest is a matter of verify_outcome alone.
LEMMA HonestStep ==
    ASSUME TypeOK, RecordsAreHonest, NEW saved, Step(saved)
    PROVE  RecordsAreHonest'
<1>1. ASSUME verifications' = verifications, state'.observations = state.observations
      PROVE  RecordsAreHonest'
  BY <1>1 DEF RecordsAreHonest, Honest
<1>2. CASE VerifyOutcome(saved)
  <2>1. PICK o : /\ Verified(o)
                 /\ verifications' = [verifications EXCEPT ![state.revision_count] = o]
                 /\ Save(saved,
                         [state EXCEPT !.observations = Record(o), !.status = StatusFor(o)],
                         RouteAfterVerification(StatusFor(o)))
    BY <1>2 DEF VerifyOutcome
  <2>2. o \in Observation
    BY <1>2, <2>1, VerifiedTyped DEF VerifyOutcome
  <2>3. Honest(o)
    <3>1. state.revision_count \in 0..2
      BY DEF TypeOK, State
    <3>2. ASSUME NEW v \in Verdicts
          PROVE  Honest(Observe(v))
      BY <3>2 DEF Honest, Observe, Verdicts
    <3> QED  BY <2>1, <3>1, <3>2 DEF Verified, RecordsAreHonest
  <2>4. \A n \in 0..MaxRevisions : verifications'[n] # None => Honest(verifications'[n])
    BY <2>1, <2>3 DEF TypeOK, RecordsAreHonest
  <2>5. state'.observations \in {state.observations, Append(state.observations, o)}
    BY <2>1 DEF TypeOK, State, Save, Checkpoint, Record
  <2>6. \A i \in DOMAIN state'.observations : Honest(state'.observations[i])
    <3>1. CASE state'.observations = state.observations
      BY <3>1 DEF RecordsAreHonest
    <3>2. CASE state'.observations = Append(state.observations, o)
      <4>1. state.observations \in Seq(Observation)
        BY DEF TypeOK, State
      <4>2. ASSUME NEW i \in DOMAIN Append(state.observations, o)
            PROVE  \/ i \in DOMAIN state.observations
                      /\ Append(state.observations, o)[i] = state.observations[i]
                   \/ Append(state.observations, o)[i] = o
        BY <2>2, <4>1, <4>2
      <4> QED  BY <2>3, <3>2, <4>2 DEF RecordsAreHonest
    <3> QED  BY <2>5, <3>1, <3>2
  <2> QED  BY <2>4, <2>6 DEF RecordsAreHonest, Honest
<1>3. CASE Planning \/ RenderResponse \/ \E a \in Action : CollectActionResult(a)
  <2>1. verifications' = verifications
    BY <1>3 DEF Planning, NormalizeRequest, LoadContext, ClassifyIntent, CreatePlan,
       ValidatePlan, EvaluatePolicy, RenderResponse, CollectActionResult, stores
  <2>2. state'.observations = state.observations
    BY <1>3 DEF TypeOK, State, Planning, NormalizeRequest, LoadContext, ClassifyIntent,
       CreatePlan, ValidatePlan, EvaluatePolicy, RenderResponse, CollectActionResult,
       Checkpoint
  <2> QED  BY <1>1, <2>1, <2>2
<1>4. CASE ResumeApproval(saved) \/ RevisePlan(saved)
  <2>1. verifications' = verifications
    BY <1>4 DEF ResumeApproval, RevisePlan
  <2>2. state'.observations = state.observations
    BY <1>4 DEF TypeOK, State, ResumeApproval, RevisePlan, Save, Checkpoint
  <2> QED  BY <1>1, <2>1, <2>2
<1>5. CASE \/ \E a \in Action : DispatchAction(a, saved) \/ RequestApproval(a)
           \/ \E a \in Action, d \in Digest, answer \in {"approve", "deny"} :
                  AnswerApproval(a, d, answer)
           \/ \E d \in Digest : Expire(d)
           \/ \E a \in Action, outcome \in {"succeeded", "failed", "late"} :
                  Execute(a, outcome)
  <2>1. verifications' = verifications
    BY <1>5 DEF DispatchAction, RequestApproval, AnswerApproval, Expire, Execute, stores
  <2>2. state'.observations = state.observations
    BY <1>5 DEF TypeOK, State, DispatchAction, RequestApproval, AnswerApproval, Expire,
       Execute, Save, Checkpoint
  <2> QED  BY <1>1, <2>1, <2>2
<1> QED  BY <1>2, <1>3, <1>4, <1>5 DEF Step

\* What an execution or a dispatch has become known by stays known.
LEMMA HappenedStep ==
    ASSUME TypeOK, ResultsHappened, NEW saved, Step(saved)
    PROVE  ResultsHappened'
<1>1. ASSUME state'.action_results = state.action_results, dispatches' = dispatches,
             executions' = executions
      PROVE  ResultsHappened'
  BY <1>1 DEF ResultsHappened
<1>2. ASSUME NEW a \in Action, CollectActionResult(a)
      PROVE  ResultsHappened'
  <2>1. /\ state'.action_results = [state.action_results EXCEPT ![a] = Collected(a)]
        /\ executions[a] # "none"
        /\ executions' = executions
        /\ dispatches' = dispatches
    BY <1>2 DEF TypeOK, State, CollectActionResult, Delivered, Checkpoint, stores
  <2> QED  BY <2>1 DEF TypeOK, State, ResultsHappened
<1>3. ASSUME NEW a \in Action, DispatchAction(a, saved)
      PROVE  ResultsHappened'
  <2>1. state' = state /\ executions' = executions
    BY <1>3 DEF DispatchAction, Save, Checkpoint
  <2>2. dispatches' = [dispatches EXCEPT ![a] = state.policy_decisions]
    BY <1>3 DEF DispatchAction
  <2>3. state.policy_decisions # None
    BY <1>3 DEF DispatchAction, Decided
  <2> QED  BY <2>1, <2>2, <2>3 DEF TypeOK, ResultsHappened
<1>4. ASSUME NEW a \in Action, NEW o \in {"succeeded", "failed", "late"}, Execute(a, o)
      PROVE  ResultsHappened'
  BY <1>4 DEF TypeOK, Execute, ResultsHappened
<1>5. CASE CreatePlan \/ RevisePlan(saved)
  <2>1. dispatches' = dispatches /\ executions' = executions
    BY <1>5 DEF CreatePlan, RevisePlan, stores
  <2>2. state'.action_results = state.action_results
    BY <1>5 DEF TypeOK, State, CreatePlan, RevisePlan, Save, Checkpoint
  <2> QED  BY <1>1, <2>1, <2>2
<1> QED  BY <1>1, <1>2, <1>3, <1>4, <1>5, QuietSteps DEF Step, Planning

\* The graph does nothing any more at its end, and only its last node answers.
LEMMA OnlyRenderAnswers ==
    ASSUME TypeOK, NEW saved, Step(saved), ~ RenderResponse
    PROVE  /\ state'.final_response = state.final_response
           /\ next = "end" => state' = state /\ next' = next
<1>1. CASE Planning \/ \E a \in Action : CollectActionResult(a)
  BY <1>1 DEF TypeOK, State, Planning, NormalizeRequest, LoadContext, ClassifyIntent,
     CreatePlan, ValidatePlan, EvaluatePolicy, CollectActionResult, Checkpoint
<1>2. CASE ResumeApproval(saved) \/ VerifyOutcome(saved) \/ RevisePlan(saved)
  BY <1>2 DEF TypeOK, State, ResumeApproval, VerifyOutcome, RevisePlan, Save, Checkpoint
<1>3. CASE \E a \in Action : DispatchAction(a, saved)
  BY <1>3 DEF DispatchAction, Save, Checkpoint
<1>4. CASE \/ \E a \in Action : RequestApproval(a)
           \/ \E a \in Action, d \in Digest, answer \in {"approve", "deny"} :
                  AnswerApproval(a, d, answer)
           \/ \E d \in Digest : Expire(d)
           \/ \E a \in Action, outcome \in {"succeeded", "failed", "late"} :
                  Execute(a, outcome)
  BY <1>4 DEF TypeOK, State, RequestApproval, AnswerApproval, Expire, Execute, Checkpoint
<1> QED  BY <1>1, <1>2, <1>3, <1>4 DEF Step

LEMMA AnswerStep ==
    ASSUME AnswerInv, NEW saved, Step(saved)
    PROVE  AnsweredIsEnd' /\ SuccessIsEarned'
<1> USE DEF AnswerInv
<1>1. CASE RenderResponse
  <2>1. /\ next' = "end"
        /\ state'.final_response = Template
        /\ state'.plan = state.plan
        /\ dispatches' = dispatches
        /\ executions' = executions
    BY <1>1 DEF TypeOK, State, RenderResponse, Checkpoint, stores
  <2>2. ASSUME Template = "succeeded"
        PROVE  ActionsOf(state.plan) \subseteq Executed
    <3>1. /\ state.observations # <<>>
          /\ Consistent(LastObservation, MaxRevisions)
          /\ Outcome(LastObservation.verdict) = "succeeded"
      BY <1>1, <2>2 DEF Template, RenderResponse, CanRender
    <3>2. Issues(LastObservation.verdict) = {}
      BY <3>1 DEF Outcome
    <3>3. Honest(LastObservation)
      BY <3>1 DEF TypeOK, State, RecordsAreHonest, LastObservation
    <3> HIDE DEF AnswerInv
    <3> QED  BY <3>1, <3>2, <3>3 DEF Consistent, Issues, Honest
  <2>3. Executed \subseteq {a \in Action : dispatches[a] # None /\ executions[a] # "none"}
    BY DEF Executed, ResultsHappened
  <2> QED  BY <2>1, <2>2, <2>3 DEF AnsweredIsEnd, SuccessIsEarned, ActionsOf
<1>2. CASE ~ RenderResponse
  <2>1. /\ state'.final_response = state.final_response
        /\ next = "end" => state' = state /\ next' = next
    BY <1>2, OnlyRenderAnswers
  <2>2. \A a \in Action : /\ dispatches[a] # None => dispatches'[a] # None
                          /\ executions[a] # "none" => executions'[a] # "none"
    <3>1. \A a \in Action : dispatches[a] # None => dispatches'[a] = dispatches[a]
      BY KeptByStep DEF Kept
    <3>2. CASE \E a \in Action, o \in {"succeeded", "failed", "late"} : Execute(a, o)
      BY <3>1, <3>2 DEF TypeOK, Execute
    <3>3. CASE ~ \E a \in Action, o \in {"succeeded", "failed", "late"} : Execute(a, o)
      <4>1. executions' = executions
        BY <3>3 DEF Step, Planning, NormalizeRequest, LoadContext, ClassifyIntent,
           CreatePlan, ValidatePlan, EvaluatePolicy, RenderResponse, CollectActionResult,
           ResumeApproval, DispatchAction, VerifyOutcome, RevisePlan, RequestApproval,
           AnswerApproval, Expire, stores
      <4> QED  BY <3>1, <4>1
    <3> QED  BY <3>2, <3>3
  <2>3. AnsweredIsEnd'
    BY <2>1, NoneAssumption DEF AnsweredIsEnd, ActionsOf
  <2>4. ASSUME state'.final_response = "succeeded"
        PROVE  \A a \in ActionsOf(state'.plan) :
                   dispatches'[a] # None /\ executions'[a] # "none"
    <3>1. state.final_response = "succeeded" /\ state' = state
      BY <2>1, <2>4, NoneAssumption DEF AnsweredIsEnd
    <3>2. ActionsOf(state.plan) \subseteq Action
      BY <3>1 DEF AnsweredIsEnd
    <3> QED  BY <2>2, <3>1, <3>2 DEF SuccessIsEarned
  <2> QED  BY <2>3, <2>4 DEF SuccessIsEarned, ActionsOf
<1> QED  BY <1>1, <1>2

\* "succeeded" is only said of a plan whose every action was sent and ran: the
\* probes pass what has a result (verification.py), a result has an execution
\* behind it, and the last verification describes the plan (response.py).
THEOREM AnswerCorrect == Spec => []SuccessIsEarned
<1>1. Init => AnswerInv
  <2>1. ASSUME Init
        PROVE  RecordsAreHonest /\ ResultsHappened /\ AnsweredIsEnd /\ SuccessIsEarned
    <3>1. RecordsAreHonest
      BY <2>1 DEF Init, RecordsAreHonest
    <3>2. ResultsHappened
      BY <2>1 DEF Init, ResultsHappened
    <3>3. AnsweredIsEnd /\ SuccessIsEarned
      BY <2>1, NoneAssumption DEF Init, AnsweredIsEnd, SuccessIsEarned
    <3> QED  BY <3>1, <3>2, <3>3
  <2> QED  BY <2>1, InitTyped DEF AnswerInv
<1>2. ASSUME AnswerInv, [Next]_vars
      PROVE  AnswerInv'
  <2>1. TypeOK'
    BY <1>2, StepTyped DEF AnswerInv
  <2>2. ASSUME NEW saved \in BOOLEAN, Step(saved)
        PROVE  AnswerInv'
    BY <1>2, <2>1, <2>2, HonestStep, HappenedStep, AnswerStep DEF AnswerInv
  <2>3. ASSUME UNCHANGED vars
        PROVE  AnswerInv'
    BY <1>2, <2>1, <2>3 DEF AnswerInv, vars, RecordsAreHonest, Honest, ResultsHappened,
       AnsweredIsEnd, SuccessIsEarned, ActionsOf
  <2> QED  BY <1>2, <2>2, <2>3, NextIsStep
<1>3. AnswerInv => SuccessIsEarned
  BY DEF AnswerInv
<1> QED  BY <1>1, <1>2, <1>3, PTL DEF Spec

--------------------------------------------------------------------------------
(* Revisions: RevisionHasEvidence                                             *)

\* Before the verification of a revision there is no observation of it; after one
\* that can be recovered from there is exactly the last.
Earlier(i) == state.observations[i].revision < state.revision_count

LastIsEvidence ==
    /\ state.observations # <<>>
    /\ LastObservation.revision = state.revision_count
    /\ LastObservation.recoverable
    /\ Consistent(LastObservation, MaxRevisions)
    /\ state.revision_count < MaxRevisions
    /\ \A i \in DOMAIN state.observations : i # Len(state.observations) => Earlier(i)

Finished == {"revise_plan", "render_response", "end"}

EvidenceIsFresh ==
    /\ next \notin Finished => \A i \in DOMAIN state.observations : Earlier(i)
    /\ next = "revise_plan" => LastIsEvidence

RecordsKeepRevision ==
    \A n \in 0..MaxRevisions : verifications[n] # None => verifications[n].revision = n

EvidenceInv == TypeOK /\ RecordsKeepRevision /\ EvidenceIsFresh

LEMMA LastIsTheEvidence ==
    ASSUME TypeOK, LastIsEvidence
    PROVE  HasEvidence
<1>1. /\ state.observations \in Seq(Observation)
      /\ state.revision_count \in 0..2
  BY DEF TypeOK, State
<1>2. Len(state.observations) \in DOMAIN state.observations
  BY <1>1 DEF LastIsEvidence
<1>3. Evidence = {Len(state.observations)}
  BY <1>1, <1>2 DEF Evidence, LastIsEvidence, LastObservation, Earlier, Observation
<1>4. Cardinality(Evidence) = 1
  BY <1>3, FS_Singleton
<1> QED  BY <1>3, <1>4 DEF HasEvidence, LastIsEvidence, LastObservation

\* A verification that may be revised is evidence for revise_plan too, whatever
\* limit verify_outcome was given.
LEMMA VerifiedIsEvidence ==
    ASSUME EvidenceInv, state.plan # None, NEW o, Verified(o)
    PROVE  /\ o.revision = state.revision_count
           /\ o.recoverable =>
                 /\ Consistent(o, MaxRevisions)
                 /\ state.revision_count < MaxRevisions
<1>1. state.plan \in Plan /\ state.revision_count \in 0..2
  BY DEF EvidenceInv, TypeOK, State
<1>2. o.revision = state.revision_count
  BY <1>1 DEF Verified, Observe, EvidenceInv, RecordsKeepRevision
<1>3. Consistent(o, VerifyLimit)
  <2>1. ASSUME NEW v \in Verdicts
        PROVE  Consistent(Observe(v), VerifyLimit)
    <3>1. DOMAIN v = ActionsOf(state.plan)
      BY DEF Verdicts
    <3> QED  BY <3>1 DEF Consistent, Observe
  <2> QED  BY <2>1 DEF Verified
<1>4. ASSUME o.recoverable
      PROVE  Recoverable(o.verdict, o.revision, VerifyLimit)
  BY <1>3, <1>4 DEF Consistent, Recoverable
<1>5. ASSUME Recoverable(o.verdict, o.revision, VerifyLimit)
      PROVE  /\ Recoverable(o.verdict, o.revision, MaxRevisions)
             /\ state.revision_count < MaxRevisions
  BY <1>1, <1>2, <1>5, SettingsAssumption DEF Recoverable
<1>6. o \in Observation
  BY VerifiedTyped DEF EvidenceInv
<1>7. ASSUME o.recoverable
      PROVE  Consistent(o, MaxRevisions)
  BY <1>3, <1>4, <1>5, <1>6, <1>7 DEF Consistent, Observation
<1> QED  BY <1>2, <1>4, <1>5, <1>7

\* Every other node leaves the observations to the revision they are of.
LEMMA EvidenceFrame ==
    ASSUME EvidenceInv, NEW saved,
           \/ Planning \/ RenderResponse
           \/ \E a \in Action : CollectActionResult(a)
           \/ ResumeApproval(saved)
           \/ \E a \in Action : DispatchAction(a, saved)
           \/ \E a \in Action : RequestApproval(a)
           \/ \E a \in Action, d \in Digest, answer \in {"approve", "deny"} :
                  AnswerApproval(a, d, answer)
    PROVE  RecordsKeepRevision' /\ EvidenceIsFresh'
<1>1. verifications' = verifications
  BY DEF Planning, NormalizeRequest, LoadContext, ClassifyIntent, CreatePlan, ValidatePlan,
     EvaluatePolicy, RenderResponse, CollectActionResult, ResumeApproval, DispatchAction,
     RequestApproval, AnswerApproval, stores
<1>2. state'.observations = state.observations /\ state'.revision_count = state.revision_count
  <2>1. CASE Planning \/ RenderResponse \/ \E a \in Action : CollectActionResult(a)
    BY <2>1 DEF EvidenceInv, TypeOK, State, Planning, NormalizeRequest, LoadContext,
       ClassifyIntent, CreatePlan, ValidatePlan, EvaluatePolicy, RenderResponse,
       CollectActionResult, Checkpoint
  <2>2. CASE ~ (Planning \/ RenderResponse \/ \E a \in Action : CollectActionResult(a))
    BY <2>2 DEF EvidenceInv, TypeOK, State, ResumeApproval, DispatchAction,
       RequestApproval, AnswerApproval, Save, Checkpoint
  <2> QED  BY <2>1, <2>2
<1>3. next' # "revise_plan" /\ (next \in Finished => next' \in Finished)
  BY DEF Planning, NormalizeRequest, LoadContext, ClassifyIntent, CreatePlan, ValidatePlan,
     EvaluatePolicy, RenderResponse, CollectActionResult, ResumeApproval, DispatchAction,
     RequestApproval, AnswerApproval, Save, Checkpoint, Finished, RouteAfterPolicy,
     PolicyStatus, RouteAfterApproval
<1> QED  BY <1>1, <1>2, <1>3 DEF EvidenceInv, RecordsKeepRevision, EvidenceIsFresh, Earlier

LEMMA EvidenceVerified ==
    ASSUME EvidenceInv, NEW saved, VerifyOutcome(saved)
    PROVE  RecordsKeepRevision' /\ EvidenceIsFresh'
<1> DEFINE n == state.revision_count
<1>1. PICK o : /\ Verified(o)
               /\ verifications' = [verifications EXCEPT ![n] = o]
               /\ Save(saved,
                       [state EXCEPT !.observations = Record(o), !.status = StatusFor(o)],
                       RouteAfterVerification(StatusFor(o)))
  BY DEF VerifyOutcome
<1>2. /\ state.observations \in Seq(Observation)
      /\ n \in 0..2
      /\ o \in Observation
      /\ verifications \in [0..2 -> Observation \cup {None}]
  BY <1>1, VerifiedTyped DEF EvidenceInv, TypeOK, State, VerifyOutcome
<1>3. /\ o.revision = n
      /\ o.recoverable => Consistent(o, MaxRevisions) /\ n < MaxRevisions
  BY <1>1, VerifiedIsEvidence DEF VerifyOutcome
<1>4. RecordsKeepRevision'
  BY <1>1, <1>2, <1>3 DEF EvidenceInv, RecordsKeepRevision
<1>5. \A i \in DOMAIN state.observations : Earlier(i)
  BY DEF EvidenceInv, EvidenceIsFresh, Finished, VerifyOutcome
<1>6. CASE ~ saved
  BY <1>4, <1>6, <1>1 DEF Save, EvidenceInv, EvidenceIsFresh, LastIsEvidence, Earlier,
     Consistent, LastObservation, Executed, ActionsOf
<1>7. CASE saved
  <2>1. /\ state' = [state EXCEPT !.observations = Append(state.observations, o),
                                  !.status = StatusFor(o)]
        /\ next' = RouteAfterVerification(StatusFor(o))
    BY <1>1, <1>7 DEF Save, Checkpoint, Record
  <2>2. /\ state'.observations = Append(state.observations, o)
        /\ state'.revision_count = n
        /\ state'.plan = state.plan
        /\ state'.action_results = state.action_results
    BY <2>1 DEF EvidenceInv, TypeOK, State
  <2>3. next' \in Finished /\ (next' = "revise_plan" => o.recoverable)
    BY <2>1 DEF RouteAfterVerification, StatusFor, Outcome, Finished
  <2>4. ASSUME o.recoverable
        PROVE  LastIsEvidence'
    <3>1. /\ state'.observations # <<>>
          /\ LastObservation' = o
      BY <1>2, <2>2, AppendProperties DEF LastObservation
    <3>2. Consistent(o, MaxRevisions)'
      BY <1>3, <2>2, <2>4 DEF Consistent, Executed, ActionsOf
    <3>3. ASSUME NEW i \in DOMAIN state'.observations, i # Len(state'.observations)
          PROVE  Earlier(i)'
      <4>1. i \in DOMAIN state.observations /\ state'.observations[i] = state.observations[i]
        BY <1>2, <2>2, <3>3, AppendProperties
      <4> QED  BY <1>5, <2>2, <4>1 DEF Earlier
    <3>4. LastObservation'.recoverable /\ LastObservation'.revision = state'.revision_count
      BY <1>3, <2>2, <2>4, <3>1
    <3>5. Consistent(LastObservation, MaxRevisions)'
      BY <3>1, <3>2 DEF Consistent
    <3> QED  BY <1>3, <2>2, <2>4, <3>1, <3>3, <3>4, <3>5 DEF LastIsEvidence
  <2> QED  BY <1>4, <2>3, <2>4 DEF EvidenceIsFresh
<1> QED  BY <1>6, <1>7

LEMMA EvidenceRevised ==
    ASSUME EvidenceInv, NEW saved, RevisePlan(saved)
    PROVE  RecordsKeepRevision' /\ EvidenceIsFresh'
<1>1. verifications' = verifications
  BY DEF RevisePlan
<1>2. CASE ~ saved
  <2>1. state' = state /\ next' = next
    BY <1>2 DEF RevisePlan, Save
  <2> QED  BY <1>1, <2>1 DEF EvidenceInv, RecordsKeepRevision, EvidenceIsFresh,
           LastIsEvidence, Earlier, Consistent, LastObservation, Executed, ActionsOf
<1>3. CASE saved
  <2>1. /\ state'.observations = state.observations
        /\ state'.revision_count = state.revision_count + 1
        /\ next' = "validate_plan"
    BY <1>3 DEF EvidenceInv, TypeOK, State, RevisePlan, Save, Checkpoint
  <2>2. LastIsEvidence
    BY DEF EvidenceInv, EvidenceIsFresh, RevisePlan
  <2>3. /\ state.observations \in Seq(Observation)
        /\ state.revision_count \in 0..2
    BY DEF EvidenceInv, TypeOK, State
  <2>4. \A i \in DOMAIN state.observations :
            state.observations[i].revision < state.revision_count + 1
    <3>1. ASSUME NEW i \in DOMAIN state.observations, Earlier(i)
          PROVE  state.observations[i].revision < state.revision_count + 1
      <4>1. state.observations[i] \in Observation
        BY <2>3, <3>1
      <4>2. state.observations[i].revision \in 0..2
        BY <4>1 DEF Observation
      <4> QED  BY <2>3, <3>1, <4>2 DEF Earlier
    <3>2. state.observations[Len(state.observations)].revision < state.revision_count + 1
      BY <2>2, <2>3 DEF LastIsEvidence, LastObservation
    <3> QED  BY <2>2, <3>1, <3>2 DEF LastIsEvidence
  <2> QED  BY <1>1, <2>1, <2>4 DEF EvidenceInv, RecordsKeepRevision, EvidenceIsFresh, Earlier
<1> QED  BY <1>2, <1>3

LEMMA EvidenceStep ==
    ASSUME EvidenceInv, [Next]_vars
    PROVE  RecordsKeepRevision' /\ EvidenceIsFresh'
<1>1. CASE \/ \E d \in Digest : Expire(d)
           \/ \E a \in Action, outcome \in {"succeeded", "failed", "late"} :
                  Execute(a, outcome)
           \/ UNCHANGED vars
  <2>1. state' = state /\ next' = next /\ verifications' = verifications
    BY <1>1 DEF Expire, Execute, vars
  <2> QED  BY <2>1 DEF EvidenceInv, RecordsKeepRevision, EvidenceIsFresh,
           LastIsEvidence, Earlier, Consistent, LastObservation, Executed, ActionsOf
<1>2. ASSUME NEW saved \in BOOLEAN, Step(saved)
      PROVE  RecordsKeepRevision' /\ EvidenceIsFresh'
  BY <1>1, <1>2, EvidenceFrame, EvidenceVerified, EvidenceRevised DEF Step
<1> QED  BY <1>1, <1>2, NextIsStep

\* Whoever reaches revise_plan has one recoverable verification of the current
\* revision that says what happened, and a revision left (revision.py,
\* _load_verification against verification.py's record and limit).
THEOREM RevisionsHaveEvidence == Spec => []RevisionHasEvidence
<1>1. Init => EvidenceInv
  <2>1. Init => RecordsKeepRevision /\ EvidenceIsFresh
    BY DEF Init, RecordsKeepRevision, EvidenceIsFresh
  <2> QED  BY <2>1, InitTyped DEF EvidenceInv
<1>2. EvidenceInv /\ [Next]_vars => EvidenceInv'
  BY StepTyped, EvidenceStep DEF EvidenceInv
<1>3. EvidenceInv => RevisionHasEvidence
  BY LastIsTheEvidence DEF EvidenceInv, EvidenceIsFresh, LastIsEvidence, RevisionHasEvidence
<1> QED  BY <1>1, <1>2, <1>3, PTL DEF Spec

--------------------------------------------------------------------------------
(* The last word: what VerifiedIsAnswered rests on                            *)

\* A run whose last word is a verification is answered, or is about to be by a
\* node that does not raise.
AnswerIsReady ==
    state.status \in {"succeeded", "partially_succeeded", "failed"} =>
        \/ next = "end"
        \/ next = "render_response" /\ CanRender

\* The outcomes a verification can end a run with.
LEMMA OutcomesOf ==
    ASSUME NEW o
    PROVE  /\ StatusFor(o) # "planning" =>
                /\ StatusFor(o) \in {"succeeded", "partially_succeeded", "failed"}
                /\ StatusFor(o) # "failed" => Outcome(o.verdict) = StatusFor(o)
           /\ StatusFor(o) = "planning" \/ StatusFor(o) \in Terminal
BY DEF StatusFor, Outcome, Terminal

LEMMA ReadyVerified ==
    ASSUME TypeOK, VerifyLimit = MaxRevisions, NEW saved, VerifyOutcome(saved)
    PROVE  AnswerIsReady'
<1>1. PICK o : /\ Verified(o)
               /\ Save(saved,
                       [state EXCEPT !.observations = Record(o), !.status = StatusFor(o)],
                       RouteAfterVerification(StatusFor(o)))
  BY DEF VerifyOutcome
<1>2. CASE ~ saved
  BY <1>1, <1>2 DEF Save, VerifyOutcome, AnswerIsReady
<1>3. CASE saved
  <2>1. o \in Observation /\ state.observations \in Seq(Observation)
    BY <1>1, VerifiedTyped DEF TypeOK, State, VerifyOutcome
  <2>2. /\ state' = [state EXCEPT !.observations = Append(state.observations, o),
                                  !.status = StatusFor(o)]
        /\ next' = RouteAfterVerification(StatusFor(o))
    BY <1>1, <1>3 DEF Save, Checkpoint, Record
  <2>3. /\ state'.observations = Append(state.observations, o)
        /\ state'.status = StatusFor(o) /\ state'.plan = state.plan
        /\ state'.action_results = state.action_results
    BY <2>2 DEF TypeOK, State
  <2>4. state'.observations # <<>> /\ LastObservation' = o
    BY <2>1, <2>3, AppendProperties DEF LastObservation
  <2>5. Consistent(o, MaxRevisions)
    <3>1. ASSUME NEW v \in Verdicts
          PROVE  Consistent(Observe(v), VerifyLimit)
      <4>1. DOMAIN v = ActionsOf(state.plan)
        BY DEF Verdicts
      <4> QED  BY <4>1 DEF Consistent, Observe
    <3> QED  BY <1>1, <3>1 DEF Verified
  <2>6. Consistent(o, MaxRevisions)'
    BY <2>3, <2>5 DEF Consistent, Executed, ActionsOf
  <2>7. CASE StatusFor(o) = "planning"
    BY <2>3, <2>7 DEF AnswerIsReady
  <2>8. CASE StatusFor(o) # "planning"
    <3>1. next' = "render_response"
      BY <2>2, <2>8 DEF RouteAfterVerification
    <3>2. /\ StatusFor(o) \in Terminal
          /\ StatusFor(o) \in {"succeeded", "partially_succeeded"}
               => Outcome(o.verdict) = StatusFor(o)
      BY <2>8, OutcomesOf
    <3>3. Consistent(LastObservation, MaxRevisions)'
      BY <2>4, <2>6 DEF Consistent
    <3>4. Outcome(LastObservation.verdict)' = Outcome(o.verdict)
      BY <2>4 DEF Outcome, Issues
    <3>5. CanRender'
      BY <2>3, <2>4, <3>2, <3>3, <3>4 DEF CanRender
    <3> QED  BY <3>1, <3>5 DEF AnswerIsReady
  <2> QED  BY <2>7, <2>8
<1> QED  BY <1>2, <1>3

LEMMA ReadyStep ==
    ASSUME TypeOK, AnswerIsReady, VerifyLimit = MaxRevisions, [Next]_vars
    PROVE  AnswerIsReady'
\* A run with its last word takes one more step, and no other step says one.
<1>1. ASSUME state' = state, next' = next
      PROVE  AnswerIsReady'
  <2>1. LastObservation' = LastObservation
    BY <1>1 DEF LastObservation
  <2>2. Consistent(LastObservation, MaxRevisions)' = Consistent(LastObservation, MaxRevisions)
    BY <1>1, <2>1 DEF Consistent, Executed, ActionsOf
  <2>3. Outcome(LastObservation.verdict)' = Outcome(LastObservation.verdict)
    BY <2>1 DEF Outcome, Issues
  <2> QED  BY <1>1, <2>2, <2>3 DEF AnswerIsReady, CanRender
<1>2. CASE \/ \E d \in Digest : Expire(d)
           \/ \E a \in Action, outcome \in {"succeeded", "failed", "late"} :
                  Execute(a, outcome)
           \/ \E a \in Action : RequestApproval(a)
           \/ UNCHANGED vars
  BY <1>1, <1>2 DEF Expire, Execute, RequestApproval, vars
<1>3. ASSUME NEW saved \in BOOLEAN, Step(saved)
      PROVE  AnswerIsReady'
  <2>1. CASE RenderResponse
    BY <2>1 DEF RenderResponse, Checkpoint, AnswerIsReady
  <2>2. CASE VerifyOutcome(saved)
    BY <2>2, ReadyVerified
  <2>3. CASE Planning \/ \E a \in Action : CollectActionResult(a)
    <3>1. CASE EvaluatePolicy
      <4>1. \E r : state'.status = PolicyStatus(state.plan, r)
        BY <3>1 DEF EvaluatePolicy, Checkpoint, TypeOK, State
      <4> QED  BY <4>1, RoutesAreNodes DEF AnswerIsReady
    <3>2. CASE ClassifyIntent
      <4>1. state'.status = state.status /\ next = "classify_intent"
        BY <3>2 DEF ClassifyIntent, Checkpoint, TypeOK, State
      <4> QED  BY <4>1 DEF AnswerIsReady
    <3>3. CASE \/ NormalizeRequest \/ LoadContext \/ CreatePlan \/ ValidatePlan
               \/ \E a \in Action : CollectActionResult(a)
      <4>1. state'.status \in {"planning", "verifying"}
        BY <3>3 DEF TypeOK, State, NormalizeRequest, LoadContext, CreatePlan, ValidatePlan,
           CollectActionResult, Checkpoint
      <4> QED  BY <4>1 DEF AnswerIsReady
    <3> QED  BY <2>3, <3>1, <3>2, <3>3 DEF Planning
  <2>4. CASE \/ ResumeApproval(saved) \/ RevisePlan(saved)
             \/ \E a \in Action : DispatchAction(a, saved)
             \/ \E a \in Action, d \in Digest, answer \in {"approve", "deny"} :
                    AnswerApproval(a, d, answer)
    <3>1. state'.status \notin {"succeeded", "partially_succeeded", "failed"}
      BY <2>4 DEF TypeOK, State, ResumeApproval, Resolution, RevisePlan, DispatchAction,
         AnswerApproval, Save, Checkpoint
    <3> QED  BY <3>1 DEF AnswerIsReady
  <2> QED  BY <1>2, <1>3, <2>1, <2>2, <2>3, <2>4 DEF Step
<1> QED  BY <1>2, <1>3, NextIsStep

\* A run that a verification ended reaches render_response with everything the
\* node insists on, whatever was revised, delivered again or lost in a restart:
\* nothing is missing for its answer but the node's turn (response.py:
\* _load_evidence against verification.py's record).  The limits of the two have
\* to agree; with a smaller one for verify_outcome the node refuses.
THEOREM VerifiedCanBeAnswered ==
    ASSUME VerifyLimit = MaxRevisions
    PROVE  Spec => []AnswerIsReady
<1>1. Init => AnswerIsReady
  BY DEF Init, AnswerIsReady
<1>2. TypeOK /\ AnswerIsReady /\ [Next]_vars => AnswerIsReady'
  BY ReadyStep
<1> QED  BY <1>1, <1>2, TypeCorrect, PTL DEF Spec

--------------------------------------------------------------------------------
(* Refinement: ImplementsLedger                                               *)

\* The actions under way: sent, and not yet with a result.
Open == {a \in Action : dispatches[a] # None /\ a \notin Executed}

\* One at most, between its dispatch and its result; after a crash in between
\* dispatch_action selects the same action again.
OneIsOpen ==
    /\ \A a, b \in Open : a = b
    /\ next \notin {"dispatch_action", "collect_action_result"} => Open = {}
    /\ next = "dispatch_action" => \A a \in Open : IsFirst(a, Ready)

LedgerInv == ResultsInv /\ ResultsHappened /\ OneIsOpen

LEMMA FirstIsUnique ==
    ASSUME TypeOK, state.plan # None, NEW a, NEW b, IsFirst(a, Ready), IsFirst(b, Ready)
    PROVE  a = b
<1>1. PICK i \in DOMAIN state.plan.actions :
          /\ a = state.plan.actions[i]
          /\ Ready(a)
          /\ \A j \in 1..(i - 1) : ~ Ready(state.plan.actions[j])
  BY DEF IsFirst
<1>2. PICK k \in DOMAIN state.plan.actions :
          /\ b = state.plan.actions[k]
          /\ Ready(b)
          /\ \A j \in 1..(k - 1) : ~ Ready(state.plan.actions[j])
  BY DEF IsFirst
<1>3. PICK n \in 1..MaxActions : state.plan.actions \in [1..n -> Action]
  <2>1. state.plan \in Plan
    BY DEF TypeOK, State
  <2>2. state.plan.actions \in UNION {[1..n -> Action] : n \in 1..MaxActions}
    BY <2>1 DEF Plan
  <2> QED  BY <2>2
<1>4. i \in Int /\ k \in Int /\ 1 <= i /\ 1 <= k
  BY <1>1, <1>2, <1>3, PlanAssumption
<1>5. ~ (i < k) /\ ~ (k < i)
  BY <1>1, <1>2, <1>4
<1> QED  BY <1>1, <1>2, <1>4, <1>5

\* Nodes that neither send nor collect leave what is under way alone.
LEMMA OpenFrame ==
    ASSUME OneIsOpen, state'.action_results = state.action_results,
           dispatches' = dispatches,
           next \notin {"dispatch_action", "collect_action_result"}
    PROVE  OneIsOpen'
BY DEF OneIsOpen, Open, Executed

LEMMA OpenStep ==
    ASSUME LedgerInv, ~ Redelivery, NEW saved, Step(saved)
    PROVE  OneIsOpen'
<1>0. TypeOK
  BY DEF LedgerInv, ResultsInv
<1>1. CASE \/ NormalizeRequest \/ LoadContext \/ ClassifyIntent \/ ValidatePlan
           \/ EvaluatePolicy \/ RenderResponse \/ ResumeApproval(saved)
           \/ VerifyOutcome(saved)
           \/ \E a \in Action : RequestApproval(a)
           \/ \E a \in Action, d \in Digest, answer \in {"approve", "deny"} :
                  AnswerApproval(a, d, answer)
  <2>1. state'.action_results = state.action_results /\ dispatches' = dispatches
    BY <1>0, <1>1, QuietSteps
  <2>2. next \notin {"dispatch_action", "collect_action_result"}
    BY <1>1 DEF NormalizeRequest, LoadContext, ClassifyIntent, ValidatePlan, EvaluatePolicy,
       RenderResponse, ResumeApproval, VerifyOutcome, RequestApproval, AnswerApproval
  <2> QED  BY <2>1, <2>2, OpenFrame DEF LedgerInv
<1>2. CASE CreatePlan \/ RevisePlan(saved)
  <2>1. state'.action_results = state.action_results /\ dispatches' = dispatches
    BY <1>0, <1>2 DEF TypeOK, State, CreatePlan, RevisePlan, Save, Checkpoint, stores
  <2>2. next \notin {"dispatch_action", "collect_action_result"}
    BY <1>2 DEF CreatePlan, RevisePlan
  <2> QED  BY <2>1, <2>2, OpenFrame DEF LedgerInv
<1>3. CASE \/ \E d \in Digest : Expire(d)
           \/ \E a \in Action, outcome \in {"succeeded", "failed", "late"} :
                  Execute(a, outcome)
  <2>1. state' = state /\ next' = next /\ dispatches' = dispatches
    BY <1>3 DEF Expire, Execute
  <2> QED  BY <2>1 DEF LedgerInv, OneIsOpen, Open, Executed, Succeeded, IsFirst, Ready
<1>4. ASSUME NEW a \in Action, DispatchAction(a, saved)
      PROVE  OneIsOpen'
  <2>1. /\ state' = state
        /\ dispatches' = [dispatches EXCEPT ![a] = state.policy_decisions]
        /\ next = "dispatch_action"
        /\ IsFirst(a, Ready)
        /\ state.plan # None
    BY <1>4 DEF DispatchAction, Save, Checkpoint, Decided
  <2>2. \A b \in Open : b = a
    BY <1>0, <2>1, FirstIsUnique DEF LedgerInv, OneIsOpen
  <2>3. Executed' = Executed
    BY <2>1 DEF Executed
  <2>4. Open' \subseteq {a}
    BY <1>0, <2>1, <2>2, <2>3 DEF TypeOK, Open
  <2>5. next' \in {"dispatch_action", "collect_action_result"}
    BY <1>4 DEF DispatchAction, Save, Checkpoint
  <2>6. IsFirst(a, Ready)'
    BY <2>1 DEF IsFirst, Ready, Executed, Succeeded
  <2> QED  BY <2>4, <2>5, <2>6 DEF OneIsOpen
<1>5. ASSUME NEW a \in Action, CollectActionResult(a)
      PROVE  OneIsOpen'
  <2>1. /\ state'.action_results = [state.action_results EXCEPT ![a] = Collected(a)]
        /\ dispatches' = dispatches
        /\ executions[a] # "none"
        /\ a \notin Executed
        /\ next' = "verify_outcome"
    BY <1>0, <1>5 DEF TypeOK, State, CollectActionResult, Delivered, Checkpoint, stores
  <2>2. a \in Open
    BY <2>1 DEF LedgerInv, ResultsHappened, Open
  <2>3. Collected(a) # None
    BY <1>0, <2>1, NoneAssumption DEF TypeOK, Collected
  <2>4. Executed' = Executed \cup {a}
    BY <1>0, <2>1, <2>3 DEF TypeOK, State, Executed
  <2>5. Open' = {}
    BY <2>1, <2>2, <2>4 DEF LedgerInv, OneIsOpen, Open
  <2> QED  BY <2>1, <2>5 DEF OneIsOpen
<1> QED  BY <1>1, <1>2, <1>3, <1>4, <1>5 DEF Step, Planning

\* The phase of an action in the ledger.
Phase ==
    [a \in Action |->
        IF dispatches[a] = None THEN "idle"
        ELSE IF executions[a] = "none" THEN "sent" ELSE executions[a]]

LEMMA PhaseFrame ==
    ASSUME dispatches' = dispatches, executions' = executions,
           (next' = "end") = (next = "end")
    PROVE  UNCHANGED Ledger!vars
BY DEF Ledger!vars

LEMMA LedgerStep ==
    ASSUME LedgerInv, NEW saved, Step(saved)
    PROVE  Ledger!Next \/ UNCHANGED Ledger!vars
<1>0. TypeOK
  BY DEF LedgerInv, ResultsInv
<1>1. CASE RenderResponse
  <2>1. dispatches' = dispatches /\ executions' = executions /\ next' = "end"
    BY <1>1 DEF RenderResponse, Checkpoint, stores
  <2>2. Open = {}
    BY <1>1 DEF LedgerInv, OneIsOpen, RenderResponse
  <2>3. \A a \in Action : dispatches[a] # None => executions[a] # "none"
    BY <2>2 DEF LedgerInv, ResultsHappened, Open, Executed
  <2>4. Ledger!Answer
    BY <1>0, <2>1, <2>3 DEF Ledger!Answer, TypeOK
  <2> QED  BY <2>4 DEF Ledger!Next
<1>2. ASSUME NEW a \in Action, DispatchAction(a, saved)
      PROVE  Ledger!Next \/ UNCHANGED Ledger!vars
  <2>1. /\ state' = state
        /\ executions' = executions
        /\ dispatches' = [dispatches EXCEPT ![a] = state.policy_decisions]
        /\ dispatches[a] \in {None, state.policy_decisions}
        /\ state.policy_decisions # None
        /\ next = "dispatch_action" /\ next' # "end"
        /\ state.plan # None
        /\ IsFirst(a, Ready)
    BY <1>2 DEF DispatchAction, Accepts, Decided, Save, Checkpoint
  <2>2. CASE dispatches[a] # None
    <3>1. dispatches' = dispatches
      BY <1>0, <2>1, <2>2 DEF TypeOK
    <3> QED  BY <2>1, <3>1, PhaseFrame
  <2>3. CASE dispatches[a] = None
    <3>1. Phase[a] = "idle" /\ executions[a] = "none"
      BY <1>0, <2>3 DEF LedgerInv, ResultsHappened, TypeOK, Phase
    <3>2. \A n \in Needs[a] : Phase[n] = "succeeded"
      <4>1. Needs[a] \subseteq Succeeded
        BY <2>1 DEF IsFirst, Ready
      <4>2. \A n \in Succeeded : executions[n] = "succeeded" /\ dispatches[n] # None
        BY DEF LedgerInv, ResultsInv, ResultsHappened, SuccessHappened, Succeeded
      <4> QED  BY <4>1, <4>2 DEF Phase, Succeeded
    <3>3. \A b \in Action : Phase[b] # "sent"
      <4>1. ASSUME NEW b \in Action, dispatches[b] # None, executions[b] = "none"
            PROVE  FALSE
        <5>1. b \in Open
          BY <4>1 DEF LedgerInv, ResultsHappened, Open, Executed
        <5>2. b = a
          BY <1>0, <2>1, <5>1, FirstIsUnique DEF LedgerInv, OneIsOpen
        <5> QED  BY <2>3, <4>1, <5>2
      <4> QED  BY <1>0, <4>1 DEF Phase, TypeOK
    <3>4. Phase' = [Phase EXCEPT ![a] = "sent"]
      BY <1>0, <2>1, <3>1 DEF TypeOK, Phase
    <3>5. Ledger!Send(a)
      BY <2>1, <3>1, <3>2, <3>3, <3>4 DEF Ledger!Send, Phase
    <3> QED  BY <3>5 DEF Ledger!Next
  <2> QED  BY <2>2, <2>3
<1>3. ASSUME NEW a \in Action, NEW o \in {"succeeded", "failed", "late"}, Execute(a, o)
      PROVE  Ledger!Next \/ UNCHANGED Ledger!vars
  <2>1. /\ dispatches[a] # None
        /\ executions[a] = "none"
        /\ executions' = [executions EXCEPT ![a] = o]
        /\ dispatches' = dispatches
        /\ next' = next
    BY <1>3 DEF Execute
  <2>2. Phase[a] = "sent"
    BY <2>1 DEF Phase
  <2>3. Phase' = [Phase EXCEPT ![a] = o]
    BY <1>0, <2>1 DEF TypeOK, Phase
  <2>4. Ledger!Run(a, o)
    BY <2>1, <2>2, <2>3 DEF Ledger!Run, Phase
  <2> QED  BY <2>4 DEF Ledger!Next
<1>4. ASSUME \/ Planning
             \/ \E a \in Action : CollectActionResult(a)
             \/ ResumeApproval(saved)
             \/ VerifyOutcome(saved)
             \/ RevisePlan(saved)
             \/ \E a \in Action : RequestApproval(a)
             \/ \E a \in Action, d \in Digest, answer \in {"approve", "deny"} :
                    AnswerApproval(a, d, answer)
             \/ \E d \in Digest : Expire(d)
      PROVE  Ledger!Next \/ UNCHANGED Ledger!vars
  <2>1. dispatches' = dispatches /\ executions' = executions
    BY <1>4 DEF Planning, NormalizeRequest, LoadContext, ClassifyIntent, CreatePlan,
       ValidatePlan, EvaluatePolicy, CollectActionResult, ResumeApproval, VerifyOutcome,
       RevisePlan, RequestApproval, AnswerApproval, Expire, stores
  <2>2. (next' = "end") = (next = "end")
    BY <1>4 DEF Planning, NormalizeRequest, LoadContext, ClassifyIntent, CreatePlan,
       ValidatePlan, EvaluatePolicy, CollectActionResult, ResumeApproval, VerifyOutcome,
       RevisePlan, RequestApproval, AnswerApproval, Expire, Save, Checkpoint,
       RouteAfterPolicy, PolicyStatus, RouteAfterApproval, RouteAfterVerification
  <2> QED  BY <2>1, <2>2, PhaseFrame
<1> QED  BY <1>1, <1>2, <1>3, <1>4 DEF Step

\* The workflow implements the ledger of side effects as long as no old receipt is
\* delivered again: every action is sent once, after what it needs and with nothing
\* else under way, crashes before a checkpoint included, and the user is answered
\* when nothing is under way any more (dispatch.py, action_result.py, response.py).
THEOREM LedgerImplemented ==
    ASSUME ~ Redelivery
    PROVE  Spec => ImplementsLedger
<1>1. Init => LedgerInv /\ Ledger!Init
  <2>1. ASSUME Init
        PROVE  SuccessHappened /\ ResultsArePlanned /\ DependenciesFirst
    BY <2>1, NoneAssumption DEF Init, SuccessHappened, ResultsArePlanned,
       DependenciesFirst, Executed
  <2>2. ASSUME Init
        PROVE  ResultsHappened /\ OneIsOpen /\ Ledger!Init
    BY <2>2 DEF Init, ResultsHappened, OneIsOpen, Open, Ledger!Init
  <2> QED  BY <2>1, <2>2, InitTyped DEF LedgerInv, ResultsInv
<1>2. ASSUME LedgerInv, [Next]_vars
      PROVE  LedgerInv'
  <2>1. ResultsInv'
    BY <1>2, StepTyped, ResultsStep DEF LedgerInv, ResultsInv
  <2>2. ASSUME NEW saved \in BOOLEAN, Step(saved)
        PROVE  LedgerInv'
    BY <1>2, <2>1, <2>2, HappenedStep, OpenStep DEF LedgerInv, ResultsInv
  <2>3. ASSUME UNCHANGED vars
        PROVE  LedgerInv'
    BY <1>2, <2>1, <2>3 DEF LedgerInv, vars, ResultsHappened, OneIsOpen, Open, Executed,
       Succeeded, IsFirst, Ready
  <2> QED  BY <1>2, <2>2, <2>3, NextIsStep
<1>3. ASSUME LedgerInv, [Next]_vars
      PROVE  [Ledger!Next]_(Ledger!vars)
  <2>1. ASSUME UNCHANGED vars
        PROVE  UNCHANGED Ledger!vars
    BY <2>1, PhaseFrame DEF vars
  <2> QED  BY <1>3, <2>1, NextIsStep, LedgerStep
<1> QED  BY <1>1, <1>2, <1>3, PTL DEF Spec, ImplementsLedger, Ledger!Spec

================================================================================
