----------------------------- MODULE ActionLedger -----------------------------
(***************************************************************************)
(* What the workflow promises about side effects, without plans, policies  *)
(* or checkpoints: an action is sent at most once, after the actions it    *)
(* depends on have run with success and while no other one is under way;   *)
(* it runs at most once; and when the user is answered nothing is under    *)
(* way and nothing will be sent again.                                     *)
(***************************************************************************)
CONSTANTS Action, Needs

VARIABLES phase, answered

vars == <<phase, answered>>

Init ==
    /\ phase = [a \in Action |-> "idle"]
    /\ answered = FALSE

Send(a) ==
    /\ ~ answered
    /\ phase[a] = "idle"
    /\ \A n \in Needs[a] : phase[n] = "succeeded"
    /\ \A b \in Action : phase[b] # "sent"
    /\ phase' = [phase EXCEPT ![a] = "sent"]
    /\ UNCHANGED answered

Run(a, outcome) ==
    /\ phase[a] = "sent"
    /\ phase' = [phase EXCEPT ![a] = outcome]
    /\ UNCHANGED answered

Answer ==
    /\ \A a \in Action : phase[a] # "sent"
    /\ answered' = TRUE
    /\ UNCHANGED phase

Next ==
    \/ \E a \in Action : Send(a)
    \/ \E a \in Action, outcome \in {"succeeded", "failed", "late"} : Run(a, outcome)
    \/ Answer

Spec == Init /\ [][Next]_vars
================================================================================
