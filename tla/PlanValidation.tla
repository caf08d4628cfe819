----------------------------- MODULE PlanValidation ----------------------------
(***************************************************************************)
(* validatePlan of graph/validation.py: is a checkpointed plan one that    *)
(* the rest of the graph can run?  The actions are sorted by their         *)
(* dependencies, then the plan is measured against its budgets, then every *)
(* action and criterion against the capabilities resolved for this call.   *)
(*                                                                         *)
(* The sort always takes the smallest ready id.  Ids are hashes, so any    *)
(* ready action may be the smallest, and the choice is left open.  A plan  *)
(* is what the checkpoint holds: a draft, or a revision merged with what   *)
(* was executed.  Criteria, arguments and the limits on how many actions,  *)
(* criteria and arguments there are have no part in the order and are left *)
(* out.                                                                    *)
(***************************************************************************)
EXTENDS Integers, Sequences, FiniteSetsExt, Functions

CONSTANTS
    Action,     \* ids of actions
    Timeout,    \* timeout_seconds an action may have
    MaxEdges,   \* max_dependency_edges
    MaxTotal,   \* max_total_timeout_seconds
    MaxPath     \* max_critical_path_seconds

ASSUME BudgetAssumption ==
    Timeout \subseteq Nat \ {0} /\ {MaxEdges, MaxTotal, MaxPath} \subseteq Nat

VARIABLES
    plan,      \* the plan under validation
    stage,     \* how far the call is, or how it ended
    incoming,  \* the dependencies of each action that are not sorted yet
    ready,     \* actions without any, not sorted yet
    ordered    \* the actions in the order they were sorted in

validation == <<plan, stage, incoming, ready, ordered>>

\* Every plan of actions with dependencies, which the schema does not restrict.
Plan ==
    UNION {[actions : {S}, needs : [S -> SUBSET Action], time : [S -> Timeout]] :
              S \in SUBSET Action}

--------------------------------------------------------------------------------
(* _topological_order                                                         *)

\* A dependency is another action of the plan.
DependenciesExist ==
    \A a \in plan.actions : plan.needs[a] \subseteq plan.actions \ {a}

StartSort ==
    /\ stage = "loaded"
    /\ IF DependenciesExist
       THEN /\ stage' = "sorting"
            /\ incoming' = plan.needs
            /\ ready' = {a \in plan.actions : plan.needs[a] = {}}
            /\ ordered' = << >>
       ELSE /\ stage' = "plan_dependency_invalid"
            /\ UNCHANGED <<incoming, ready, ordered>>
    /\ UNCHANGED plan

\* Mutant: an action is ready as soon as one of its dependencies is sorted.
Released_Early(a) == {c \in plan.actions : a \in incoming[c]}

\* The actions that waited for a only.
Released(a) == {c \in plan.actions : incoming[c] = {a}}

Visit(a) ==
    /\ stage = "sorting"
    /\ a \in ready
    /\ ordered' = Append(ordered, a)
    /\ incoming' = [c \in plan.actions |-> incoming[c] \ {a}]
    /\ ready' = (ready \ {a}) \cup Released(a)
    /\ UNCHANGED <<plan, stage>>

\* An action is never sorted twice, so comparing lengths is comparing sets.
EndSort ==
    /\ stage = "sorting"
    /\ ready = {}
    /\ stage' = IF Range(ordered) = plan.actions THEN "sorted"
                                                 ELSE "plan_dependency_cycle"
    /\ UNCHANGED <<plan, incoming, ready, ordered>>

--------------------------------------------------------------------------------
(* _validate_budgets                                                          *)

Edges == SumFunction([a \in plan.actions |-> Cardinality(plan.needs[a])])

TotalTimeout == SumFunction(plan.time)

\* Mutant: of several dependencies only the one sorted last counts.
LongestPath_LastDependency ==
    LET path[i \in 1 .. Len(ordered)] ==
            LET before == {j \in 1 .. i - 1 : ordered[j] \in plan.needs[ordered[i]]}
            IN  plan.time[ordered[i]]
                  + IF before = {} THEN 0 ELSE path[Max(before)]
    IN  Max({0} \cup {path[i] : i \in DOMAIN ordered})

\* The longest chain of timeouts, one action after another along the order.
LongestPath ==
    LET path[i \in 1 .. Len(ordered)] ==
            LET before == {j \in 1 .. i - 1 : ordered[j] \in plan.needs[ordered[i]]}
            IN  plan.time[ordered[i]] + Max({0} \cup {path[j] : j \in before})
    IN  Max({0} \cup {path[i] : i \in DOMAIN ordered})

WithinBudgets ==
    /\ plan.actions # {}
    /\ Edges <= MaxEdges
    /\ TotalTimeout <= MaxTotal
    /\ LongestPath <= MaxPath

Measure ==
    /\ stage = "sorted"
    /\ stage' = IF WithinBudgets THEN "measured" ELSE "plan_budget_exceeded"
    /\ UNCHANGED <<plan, incoming, ready, ordered>>

--------------------------------------------------------------------------------
(* _validate_action_contract and the criteria                                 *)

ContractFaults ==
    {"plan_capability_unknown", "plan_capability_invalid", "plan_argument_invalid",
     "plan_resource_unknown", "plan_action_duplicate", "plan_verification_invalid"}

\* The capabilities are resolved afresh: a draft that fitted them may not any more.
CheckContracts ==
    /\ stage = "measured"
    /\ stage' \in {"accepted"} \cup ContractFaults
    /\ UNCHANGED <<plan, incoming, ready, ordered>>

\* Settings, state, identity, references or the resolver's answer are refused
\* first; one code stands for all.
RefuseContext ==
    /\ stage = "loaded"
    /\ stage' = "plan_validation_context_invalid"
    /\ UNCHANGED <<plan, incoming, ready, ordered>>

--------------------------------------------------------------------------------
ValidationInit ==
    /\ plan \in Plan
    /\ stage = "loaded"
    /\ incoming = << >>
    /\ ready = {}
    /\ ordered = << >>

ValidationNext ==
    \/ StartSort \/ (\E a \in Action : Visit(a)) \/ EndSort
    \/ Measure \/ CheckContracts \/ RefuseContext

--------------------------------------------------------------------------------
(* Safety                                                                     *)

\* dispatch_action finds work in an accepted plan whatever has succeeded so far
\* (_select_action of graph/dispatch.py), and only a plan in which some actions
\* wait for each other is refused for a cycle.
RunnableOrCyclic ==
    /\ stage \in {"sorted", "measured", "accepted"} =>
         \A done \in SUBSET plan.actions : done # plan.actions =>
            \E a \in plan.actions \ done : plan.needs[a] \subseteq done
    /\ stage = "plan_dependency_cycle" =>
         \E stuck \in (SUBSET plan.actions) \ {{}} :
            \A a \in stuck : plan.needs[a] \cap stuck # {}

\* The chains of a plan: each action needs the one before it.
Chains ==
    {s \in UNION {[1 .. n -> plan.actions] : n \in 1 .. Cardinality(plan.actions)} :
        \A i \in 1 .. Len(s) - 1 : s[i] \in plan.needs[s[i + 1]]}

ChainTime(s) == SumFunction([i \in DOMAIN s |-> plan.time[s[i]]])

\* "max_critical_path_seconds": whatever the order of the sort, no chain of an
\* accepted plan takes longer, and a plan that keeps its other budgets is refused
\* only if one does.
CriticalPathIsExact ==
    /\ stage \in {"measured", "accepted"} =>
         \A s \in Chains : ChainTime(s) <= MaxPath
    /\ stage = "plan_budget_exceeded" =>
         \/ plan.actions = {} \/ Edges > MaxEdges \/ TotalTimeout > MaxTotal
         \/ \E s \in Chains : ChainTime(s) > MaxPath
================================================================================
