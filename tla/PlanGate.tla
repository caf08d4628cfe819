------------------------------- MODULE PlanGate --------------------------------
(***************************************************************************)
(* The two nodes every plan passes before anything may be dispatched:      *)
(* validate_plan and evaluate_policy, one after the other as               *)
(* graph/builder.py connects them.  A node that raises ends the run.       *)
(***************************************************************************)
EXTENDS PlanPolicy

CONSTANT Evaluated  \* bound: the plans whose evaluation is explored

vars == <<plan, stage, incoming, ready, ordered,
          phase, rules, combined, pending, decided, baseline, advice, unheeded,
          status>>

Init == ValidationInit /\ PolicyInit

\* The accepted plan is checkpointed and the next node starts.
HandOver ==
    /\ stage = "accepted" /\ phase = "off" /\ plan \in Evaluated
    /\ phase' = "waiting"
    /\ UNCHANGED validation
    /\ UNCHANGED <<rules, combined, pending, decided, baseline, advice, unheeded,
                   status>>

Next ==
    \/ ValidationNext /\ UNCHANGED policy
    \/ HandOver
    \/ PolicyNext /\ UNCHANGED validation

Spec == Init /\ [][Next]_vars
================================================================================
