------------------------------- MODULE PlanPolicy ------------------------------
(***************************************************************************)
(* evaluatePlanPolicy of graph/policy.py: what the policy says of every    *)
(* action of a validated plan.                                             *)
(*                                                                         *)
(* A snapshot has one rule for some capabilities, and denies the others.   *)
(* Its aggregate rules look at the plan as a whole, so that an effect split *)
(* over several harmless actions is not harmless; then a security model,   *)
(* which is not trusted, may tighten what came out.                        *)
(*                                                                         *)
(* Aggregate rules are applied in the order of their ids, recommendations  *)
(* in that of their targets and reasons.  Both are names somebody chose,   *)
(* so any order is possible, except that advice for the whole plan comes   *)
(* before advice for one action.  Reason codes are left out.               *)
(***************************************************************************)
EXTENDS PlanValidation

CONSTANTS
    Capability,      \* capability ids
    Uses,            \* the capability of each action
    ActionRule,      \* rules a snapshot may have for a capability
    Aggregate,       \* aggregate rules a snapshot may have
    Recommendation,  \* what the security model may recommend
    MaxAggregates,   \* aggregate rules of one snapshot (16 in the code)
    MaxAdvice,       \* recommendations of one assessment (16 in the code)
    NoRule           \* the policy does not name the capability

\* DECISION_RANK and RISK_RANK
Allow == 0
Ask == 1
Deny == 2
Decision == Allow .. Deny
Risk == 0 .. 4
R2 == 2
R3 == 3
R4 == 4

WholePlan == "whole plan"

Ruled == [decision : Decision, risk : Risk, grant : BOOLEAN]

\* What the contracts of rules and decisions agree on (validate_safety_floor,
\* validate_decision_contract).
Sound(d) ==
    /\ d.risk = R4 => d.decision = Deny
    /\ d.risk = R3 => d.decision # Allow
    /\ d.risk = R2 /\ d.decision = Allow => d.grant
    /\ d.decision # Allow => ~d.grant

ASSUME RuleAssumption ==
    /\ Uses \in [Action -> Capability]
    /\ ActionRule \subseteq {r \in Ruled : Sound(r)}
    /\ Aggregate \subseteq
           [capabilities : SUBSET Capability, minimum : 2 .. 8,
            decision : {Ask, Deny}, risk : R2 .. R4]
    /\ \A r \in Aggregate : r.risk = R4 => r.decision = Deny
    /\ Recommendation \subseteq
           [target : Action \cup {WholePlan}, decision : Decision, risk : Risk]
    /\ WholePlan \notin Action /\ NoRule \notin ActionRule

VARIABLES
    phase,     \* how far the call is, or how it ended
    rules,     \* the rule of each capability in the snapshot, or NoRule
    combined,  \* the aggregate rules of the snapshot
    pending,   \* those that are not applied yet
    decided,   \* _MutableDecision of every action
    baseline,  \* the decisions the security model was shown
    advice,    \* the recommendations of the assessment
    unheeded,  \* those that are not applied yet
    status     \* the status the node returns

policy == <<phase, rules, combined, pending, decided, baseline, advice, unheeded,
            status>>

--------------------------------------------------------------------------------
(* Decisions                                                                  *)

\* _apply_safety_floor
Floor(decision, risk, grant) ==
    IF risk = R4 THEN Deny
    ELSE IF risk = R3 /\ decision = Allow THEN Ask
    ELSE IF risk = R2 /\ decision = Allow /\ ~grant THEN Ask
    ELSE decision

Higher(m, n) == IF m < n THEN n ELSE m

\* _tighten
Tighten(d, by) ==
    LET grant == d.grant /\ by.decision <= d.decision
        risk == Higher(d.risk, by.risk)
        decision == Floor(Higher(d.decision, by.decision), risk, grant)
    IN  [decision |-> decision, risk |-> risk, grant |-> grant /\ decision = Allow]

\* _baseline_decisions: deny by default
DefaultDeny == [decision |-> Deny, risk |-> R4, grant |-> FALSE]

BaseRule(a) == IF rules[Uses[a]] = NoRule THEN DefaultDeny ELSE rules[Uses[a]]

--------------------------------------------------------------------------------
(* evaluatePlanPolicy                                                         *)

Resolve(found, aggregates) ==
    /\ phase = "waiting"
    /\ rules' = found
    /\ combined' = aggregates /\ pending' = aggregates
    /\ decided' = [a \in plan.actions |->
                     IF found[Uses[a]] = NoRule THEN DefaultDeny ELSE found[Uses[a]]]
    /\ phase' = "combining"
    /\ UNCHANGED <<baseline, advice, unheeded, status>>

\* The actions a rule matches, and whether they are enough.
Matched(rule) == {a \in plan.actions : Uses[a] \in rule.capabilities}

\* Mutant: a capability used twice counts once.
Applies_ToKinds(rule) == Cardinality({Uses[a] : a \in Matched(rule)}) >= rule.minimum

Applies(rule) == Cardinality(Matched(rule)) >= rule.minimum

\* _apply_aggregate_rules, one rule
Combine(rule) ==
    /\ phase = "combining"
    /\ rule \in pending
    /\ pending' = pending \ {rule}
    /\ decided' = [a \in plan.actions |->
                     IF Applies(rule) /\ a \in Matched(rule)
                     THEN Tighten(decided[a], rule) ELSE decided[a]]
    /\ UNCHANGED <<phase, rules, combined, baseline, advice, unheeded, status>>

\* _workflow_status
Status ==
    IF \E a \in plan.actions : decided[a].decision = Deny THEN "denied"
    ELSE IF \E a \in plan.actions : decided[a].decision = Ask THEN "awaiting_approval"
    ELSE "executing"

\* The first projection; without an advisor it is the last.
Project(hasAdvisor) ==
    /\ phase = "combining"
    /\ pending = {}
    /\ baseline' = decided
    /\ IF hasAdvisor THEN phase' = "advising" /\ UNCHANGED status
                     ELSE phase' = "decided" /\ status' = Status
    /\ UNCHANGED <<rules, combined, pending, decided, advice, unheeded>>

Advise(recommendations) ==
    /\ phase = "advising"
    /\ IF \A r \in recommendations : r.target \in plan.actions \cup {WholePlan}
       THEN /\ phase' = "heeding"
            /\ advice' = recommendations /\ unheeded' = recommendations
       ELSE /\ phase' = "policy_security_assessment_invalid"
            /\ UNCHANGED <<advice, unheeded>>
    /\ UNCHANGED <<rules, combined, pending, decided, baseline, status>>

Targets(r) == IF r.target = WholePlan THEN plan.actions ELSE {r.target}

\* Mutant: advice replaces what it is meant to tighten.
Heeded_Replaced(d, r) ==
    [decision |-> Floor(r.decision, r.risk, d.grant), risk |-> r.risk,
     grant |-> d.grant /\ Floor(r.decision, r.risk, d.grant) = Allow]

\* Weaker or equal advice is ignored.
Heeded(d, r) ==
    IF r.decision <= d.decision /\ r.risk <= d.risk THEN d ELSE Tighten(d, r)

\* _apply_security_assessment, one recommendation
Heed(r) ==
    /\ phase = "heeding"
    /\ r \in unheeded
    /\ r.target # WholePlan => \A q \in unheeded : q.target # WholePlan
    /\ unheeded' = unheeded \ {r}
    /\ decided' = [a \in plan.actions |->
                     IF a \in Targets(r) THEN Heeded(decided[a], r) ELSE decided[a]]
    /\ UNCHANGED <<phase, rules, combined, pending, baseline, advice, status>>

Decide ==
    /\ phase = "heeding"
    /\ unheeded = {}
    /\ phase' = "decided"
    /\ status' = Status
    /\ UNCHANGED <<rules, combined, pending, decided, baseline, advice, unheeded>>

\* A resolver or an advisor that raises, is late or answers for somebody else.
Unavailable ==
    /\ \/ /\ phase = "waiting"
          /\ phase' \in {"policy_snapshot_unavailable", "policy_snapshot_invalid"}
       \/ phase = "advising" /\ phase' = "policy_security_analysis_unavailable"
    /\ UNCHANGED <<rules, combined, pending, decided, baseline, advice, unheeded,
                   status>>

--------------------------------------------------------------------------------
PolicyInit ==
    /\ phase = "off"
    /\ rules = [c \in Capability |-> NoRule]
    /\ combined = {} /\ pending = {}
    /\ decided = << >> /\ baseline = << >>
    /\ advice = {} /\ unheeded = {}
    /\ status = "planning"

PolicyNext ==
    \/ \E found \in [Capability -> ActionRule \cup {NoRule}],
          aggregates \in SUBSET Aggregate :
            Cardinality(aggregates) <= MaxAggregates /\ Resolve(found, aggregates)
    \/ \E rule \in Aggregate : Combine(rule)
    \/ \E hasAdvisor \in BOOLEAN : Project(hasAdvisor)
    \/ \E recommendations \in SUBSET Recommendation :
            Cardinality(recommendations) <= MaxAdvice /\ Advise(recommendations)
    \/ \E r \in Recommendation : Heed(r)
    \/ Decide
    \/ Unavailable

--------------------------------------------------------------------------------
(* Safety                                                                     *)

\* Everything that has had a say about action a: its rule, the aggregate rules
\* whose capabilities it and enough other actions use, the advice for it.
Says(a) ==
    {BaseRule(a)}
    \cup {r \in combined \ pending :
             /\ Uses[a] \in r.capabilities
             /\ r.minimum <= Cardinality({b \in plan.actions :
                                            Uses[b] \in r.capabilities})}
    \cup {r \in advice \ unheeded : r.target \in {a, WholePlan}}

\* The strictest rule wins: the risk of an action is the highest that any rule or
\* advice gives it, its decision the strictest one raised to what this risk
\* demands, in whatever order names made them apply ("risk cannot be reduced by
\* splitting one effect across several actions").
StrictestWins ==
    phase \in {"combining", "advising", "heeding", "decided"} =>
        \A a \in plan.actions :
            /\ \E r \in Says(a) :
                  r.risk = decided[a].risk /\ \A q \in Says(a) : q.risk <= r.risk
            /\ \E r \in Says(a) :
                  /\ \A q \in Says(a) : q.decision <= r.decision
                  /\ decided[a].decision =
                       Floor(r.decision, decided[a].risk, BaseRule(a).grant)

Strictness(s) == CASE s = "denied" -> Deny
                   [] s = "awaiting_approval" -> Ask
                   [] s = "executing" -> Allow

\* The security model "may raise risk or tighten": whatever it says, no action
\* ends below the decision and the risk it was shown, the plan goes on only if
\* every action may, and each decision keeps its contract, so that the node never
\* breaks on what it was advised.
AdviceOnlyTightens ==
    /\ phase \in {"advising", "heeding", "decided"} =>
         \A a \in plan.actions :
            /\ Sound(decided[a]) /\ Sound(baseline[a])
            /\ decided[a].decision >= baseline[a].decision
            /\ decided[a].risk >= baseline[a].risk
    /\ phase = "decided" =>
         \A a \in plan.actions :
            Strictness(status) >= baseline[a].decision
================================================================================
