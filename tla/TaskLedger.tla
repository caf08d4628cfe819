------------------------------ MODULE TaskLedger ------------------------------
(***************************************************************************)
(* What the task control plane promises, without its projections, keys,    *)
(* approvals or handlers: for each task an append-only ledger of events,   *)
(* numbered 1, 2, 3, ..., and a set of wake-ups for the workflow that is   *)
(* extended in the very step that appends the event it reports.  A ledger  *)
(* opens with one "task.created"; a task is cancelled at most once and an  *)
(* approval decided at most once.  TaskStore implements this.              *)
(***************************************************************************)
EXTENDS Integers

CONSTANTS Task, Approval, None

VARIABLES
    ledger,   \* the events every reader may rely on
    wakeups   \* <<task, sequence>> of the events the workflow is woken for

vars == <<ledger, wakeups>>

EventType ==
    {"task.created", "task.cancellation_requested", "approval.decided",
     "workflow"}

EntriesOf(t) == {e \in ledger : e.task = t}

\* The numbers that continue the ledger of t: 1, or one more than an entry's,
\* and larger than every entry's.
NextNumbers(t) ==
    {n \in {1} \cup {e.sequence + 1 : e \in EntriesOf(t)} :
        \A e \in EntriesOf(t) : e.sequence < n}

\* What may be recorded once only is not recorded yet.
IsFresh(e) ==
    /\ e.type = "task.created" <=> e.sequence = 1
    /\ e.type = "task.cancellation_requested" =>
         \A old \in EntriesOf(e.task) : old.type # e.type
    /\ e.type = "approval.decided" =>
         \A old \in ledger :
             old.type = e.type => old.approval # e.approval

Record(e) ==
    /\ IsFresh(e)
    /\ ledger' = ledger \cup {e}
    /\ wakeups' = IF e.type = "workflow"
                  THEN wakeups
                  ELSE wakeups \cup {<<e.task, e.sequence>>}

Init == ledger = {} /\ wakeups = {}

Next ==
    \E t \in Task, type \in EventType, a \in Approval \cup {None},
       d \in {"approve", "deny", None} :
        \E n \in NextNumbers(t) :
            Record([task |-> t, sequence |-> n, type |-> type, approval |-> a,
                    decision |-> d])

Spec == Init /\ [][Next]_vars
================================================================================
