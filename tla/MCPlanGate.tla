------------------------------ MODULE MCPlanGate -------------------------------
(* A small instance of PlanGate for TLC: two actions that read and one that   *)
(* writes, under snapshots with and without rules that look at the whole plan. *)
EXTENDS PlanGate

MCUses == [a \in Action |-> IF a = "write" THEN "files.write" ELSE "files.read"]

\* Allowed without risk, with a grant at R1 and at R2, asked for and denied.
MCActionRule ==
    {[decision |-> Allow, risk |-> 0, grant |-> FALSE],
     [decision |-> Allow, risk |-> 1, grant |-> TRUE],
     [decision |-> Allow, risk |-> R2, grant |-> TRUE],
     [decision |-> Ask, risk |-> R3, grant |-> FALSE],
     [decision |-> Deny, risk |-> R2, grant |-> FALSE]}

\* A rule for repeated reading, one for two capabilities that is met by two, and one
\* that takes three actions.
MCAggregate ==
    {[capabilities |-> {"files.read"}, minimum |-> 2, decision |-> Ask, risk |-> R2],
     [capabilities |-> Capability, minimum |-> 2, decision |-> Ask, risk |-> R3],
     [capabilities |-> Capability, minimum |-> 3, decision |-> Deny, risk |-> R2]}

MCRecommendation ==
    {[target |-> WholePlan, decision |-> Allow, risk |-> R2],
     [target |-> WholePlan, decision |-> Ask, risk |-> 1],
     [target |-> "write", decision |-> Allow, risk |-> R4],
     [target |-> "write", decision |-> Ask, risk |-> R3],
     [target |-> "read1", decision |-> Allow, risk |-> R3],
     [target |-> "read1", decision |-> Deny, risk |-> 0]}

\* Policy reads neither dependencies nor timeouts.
MCEvaluated ==
    {p \in Plan : \A a \in p.actions : p.needs[a] = {} /\ p.time[a] = 1}
================================================================================
