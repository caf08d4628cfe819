------------------------------- MODULE TaskFeed -------------------------------
(***************************************************************************)
(* What the live stream may assume of the task store, and all it does: the *)
(* numbers of a task's events are committed one after the other, a commit  *)
(* is handed to the broker once and in any order among others, and a page  *)
(* is cut from what is committed.  TaskStore gives this and EventStream    *)
(* takes it; neither mentions the other.                                   *)
(***************************************************************************)
EXTENDS Integers

CONSTANT Task

VARIABLES
    committed,   \* <<task, sequence>> of every event in the log
    unpublished  \* those whose service call has not reached the publisher

vars == <<committed, unpublished>>

\* The number that continues the log of t.
NextNumbers(t) ==
    {n \in {1} \cup {e[2] + 1 : e \in committed} :
        /\ <<t, n>> \notin committed
        /\ \A m \in 1 .. n - 1 : <<t, m>> \in committed}

Commit(t) ==
    \E n \in NextNumbers(t) :
        /\ committed' = committed \cup {<<t, n>>}
        /\ unpublished' = unpublished \cup {<<t, n>>}

Publish(e) ==
    /\ e \in unpublished
    /\ unpublished' = unpublished \ {e}
    /\ UNCHANGED committed

Init == committed = {} /\ unpublished = {}

Next ==
    \/ \E t \in Task : Commit(t)
    \/ \E e \in unpublished : Publish(e)

Spec == Init /\ [][Next]_vars

--------------------------------------------------------------------------------
(* Reads                                                                      *)

\* A page of at most `limit` events after a cursor, and whether more are there.
Page(t, after, limit) ==
    {n \in (after + 1) .. (after + limit) : <<t, n>> \in committed}

HasMore(t, after, limit) == <<t, after + limit + 1>> \in committed
================================================================================
