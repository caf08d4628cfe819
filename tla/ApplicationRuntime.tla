-------------------------- MODULE ApplicationRuntime --------------------------
(***************************************************************************)
(* The lifecycle of the backend (runtime/lifecycle.py): one owner, the     *)
(* lifespan of the application, starts and stops the managed resources in  *)
(* their required order, while readiness probes (health/service.py) check  *)
(* them again.  start, refresh_readiness and shutdown each run under one   *)
(* asyncio.Lock; an await on a resource is one step, and its timeout is    *)
(* one of the ways in which it fails.                                      *)
(*                                                                         *)
(* A resource is its place in REQUIRED_RESOURCE_ORDER, the last one being  *)
(* the workers.  A failure code is the resource it names.                  *)
(***************************************************************************)
EXTENDS Integers, Sequences, FiniteSets

CONSTANTS
    N,        \* number of resources: six
    Probe     \* readiness requests that may be under way together

ASSUME SizeAssumption == N \in Nat \ {0}
ASSUME ProbeAssumption == Probe \cap {"nobody", "owner"} = {}

VARIABLES
    state,      \* RuntimeState
    accepting,  \* accepting_work
    active,     \* _active, oldest resource first
    health,     \* _health: resource -> its report
    failure,    \* _failure_code
    holder,     \* who is inside the lock
    pc,         \* where the owner is
    at,         \* the resource the holder of the lock is working on
    first,      \* first_failure of a refresh, failures[0] of a shutdown
    waiting,    \* probes that want the lock
    cut,        \* history: the last refresh was cancelled under way
    alive       \* resources that were created and not closed yet

control == <<state, accepting, failure>>
resources == <<active, health, alive>>
vars == <<control, resources, holder, pc, at, first, waiting, cut>>

Resource == 1..N
Workers == N
NoFailure == 0

RuntimeState == {"created", "starting", "ready", "draining", "stopped", "failed"}

EmptyDict == [i \in {} |-> "ready"]

\* What check_health may come to: a report, or an exception, a timeout or
\* something that is no report at all.
Checked == {"ready", "not_ready", "error"}

\* refresh_readiness records a check that failed as a dependency not ready.
Recorded(h) == IF h = "ready" THEN "ready" ELSE "not_ready"

\* health[i] = h
PutHealth(i, h) ==
    [j \in DOMAIN health \cup {i} |-> IF j = i THEN h ELSE health[j]]

\* Mutant: the last failure is kept.
FirstFailure_Last(i, ready) == IF ready THEN first ELSE i

FirstFailure(i, ready) == IF ready \/ first # NoFailure THEN first ELSE i

--------------------------------------------------------------------------------
(* start                                                                      *)

Start ==
    /\ pc = "down"
    /\ holder = "nobody"
    /\ state \in {"created", "stopped"}
    /\ state' = "starting"
    /\ accepting' = FALSE
    /\ failure' = NoFailure
    /\ health' = EmptyDict
    /\ active' = <<>>
    /\ cut' = FALSE
    /\ holder' = "owner"
    /\ pc' = "creating"
    /\ at' = 1
    /\ UNCHANGED <<first, waiting, alive>>

\* Something raised while resource at was being brought up.
RollBack ==
    /\ accepting' = FALSE
    /\ failure' = at
    /\ pc' = "rolling_back"
    /\ UNCHANGED <<state, holder, at, first, waiting, cut>>

CreateFails == pc = "creating" /\ RollBack /\ UNCHANGED resources

\* Mutant: a resource is registered when it has been started.
Create_Later ==
    /\ pc = "creating"
    /\ alive' = alive \cup {at}
    /\ pc' = "starting"
    /\ UNCHANGED <<control, active, health, holder, at, first, waiting, cut>>

\* The factory returns: the resource is registered before it is started.
Create ==
    /\ pc = "creating"
    /\ alive' = alive \cup {at}
    /\ active' = Append(active, at)
    /\ pc' = "starting"
    /\ UNCHANGED <<control, health, holder, at, first, waiting, cut>>

StartResource ==
    /\ pc = "starting"
    /\ pc' = "checking"
    /\ UNCHANGED <<control, resources, holder, at, first, waiting, cut>>

StartResourceFails == pc = "starting" /\ RollBack /\ UNCHANGED resources

\* Accepting work, once the last resource is healthy.
Ready ==
    /\ state' = "ready"
    /\ accepting' = TRUE
    /\ pc' = "serving"
    /\ holder' = "nobody"
    /\ UNCHANGED <<failure, at>>

CheckSucceeds ==
    /\ pc = "checking"
    /\ health' = PutHealth(at, "ready")
    /\ \/ at = N /\ Ready
       \/ at < N /\ at' = at + 1 /\ pc' = "creating" /\ UNCHANGED <<control, holder>>
    /\ UNCHANGED <<active, alive, first, waiting, cut>>

CheckFails ==
    /\ pc = "checking"
    /\ health' \in {health, PutHealth(at, "not_ready")}
    /\ RollBack
    /\ UNCHANGED <<active, alive>>

\* _close_all ignores what close() raises here.
RolledBack ==
    /\ pc = "rolling_back"
    /\ active = <<>>
    /\ state' = "failed"
    /\ holder' = "nobody"
    /\ pc' = "down"
    /\ UNCHANGED <<accepting, failure, resources, at, first, waiting, cut>>

--------------------------------------------------------------------------------
(* shutdown                                                                   *)

\* The lifespan ends, or whoever owns a runtime that is down stops it again.
Stop ==
    /\ pc \in {"serving", "down"}
    /\ pc' = "stopping"
    /\ UNCHANGED <<control, resources, holder, at, first, waiting, cut>>

ShutdownIdle ==
    /\ pc = "stopping"
    /\ holder = "nobody"
    /\ state \in {"created", "stopped"}
    /\ accepting' = FALSE
    /\ state' = "stopped"
    /\ pc' = "down"
    /\ UNCHANGED <<failure, resources, holder, at, first, waiting, cut>>

\* Mutant: intake is stopped after the workers have been drained.
StopIntake_Late == UNCHANGED accepting

StopIntake == accepting' = FALSE

Shutdown ==
    /\ pc = "stopping"
    /\ holder = "nobody"
    /\ state \notin {"created", "stopped"}
    /\ StopIntake
    /\ state' = "draining"
    /\ holder' = "owner"
    /\ first' = NoFailure
    /\ pc' = IF \E i \in DOMAIN active : active[i] = Workers
             THEN "draining" ELSE "closing"
    /\ UNCHANGED <<failure, resources, at, waiting, cut>>

\* Workers that cannot be drained count as drained.
Drain(ok) ==
    /\ pc = "draining"
    /\ first' = FirstFailure(Workers, ok)
    /\ pc' = "closing"
    /\ UNCHANGED <<control, resources, holder, at, waiting, cut>>

\* Mutant: [-1] instead of pop().
Popped_Kept == [resource |-> active[Len(active)], rest |-> active]

\* _active.pop()
Popped == [resource |-> active[Len(active)], rest |-> SubSeq(active, 1, Len(active) - 1)]

\* One round of _close_all; only shutdown collects the failures.
Close(ok) ==
    /\ pc \in {"rolling_back", "closing"}
    /\ active # <<>>
    /\ active' = Popped.rest
    /\ alive' = alive \ {Popped.resource}
    /\ health' = [i \in DOMAIN health \ {Popped.resource} |-> health[i]]
    /\ first' = IF pc = "closing" THEN FirstFailure(Popped.resource, ok) ELSE first
    /\ UNCHANGED <<control, holder, pc, at, waiting, cut>>

ShutdownEnds ==
    /\ pc = "closing"
    /\ active = <<>>
    /\ state' = IF first = NoFailure THEN "stopped" ELSE "failed"
    /\ failure' = first
    /\ holder' = "nobody"
    /\ pc' = "down"
    /\ UNCHANGED <<accepting, resources, at, first, waiting, cut>>

--------------------------------------------------------------------------------
(* refresh_readiness                                                          *)

\* Requests are served from the end of start to the end of the lifespan.
Arrive(p) ==
    /\ pc = "serving"
    /\ p \notin waiting /\ holder # p
    /\ waiting' = waiting \cup {p}
    /\ UNCHANGED <<control, resources, holder, pc, at, first, cut>>

\* The runtime is not ready any more when the probe gets the lock.
RefreshIdle(p) ==
    /\ p \in waiting
    /\ holder = "nobody"
    /\ state # "ready"
    /\ waiting' = waiting \ {p}
    /\ UNCHANGED <<control, resources, holder, pc, at, first, cut>>

RefreshBegin(p) ==
    /\ p \in waiting
    /\ holder = "nobody"
    /\ state = "ready"
    /\ waiting' = waiting \ {p}
    /\ holder' = p
    /\ at' = 1
    /\ first' = NoFailure
    /\ UNCHANGED <<control, resources, pc, cut>>

Refresh(p, h) ==
    LET ready == Recorded(h) = "ready"
    IN  /\ holder = p
        /\ health' = PutHealth(active[at], Recorded(h))
        /\ first' = FirstFailure(active[at], ready)
        /\ \/ /\ at < Len(active)
              /\ at' = at + 1
              /\ UNCHANGED <<control, holder, cut>>
           \/ /\ at = Len(active)
              /\ accepting' = (first' = NoFailure /\ Len(active) = N)
              /\ failure' = first'
              /\ cut' = FALSE
              /\ holder' = "nobody"
              /\ UNCHANGED <<state, at>>
        /\ UNCHANGED <<active, alive, pc, waiting>>

\* CancelledError is not an Exception: a refresh under way just stops, and keeps
\* what it has written.
CancelProbe(p) ==
    /\ p \in waiting \cup {holder}
    /\ waiting' = waiting \ {p}
    /\ holder' = IF holder = p THEN "nobody" ELSE holder
    /\ cut' = (cut \/ holder = p)
    /\ UNCHANGED <<control, resources, pc, at, first>>

--------------------------------------------------------------------------------
(* Specification                                                              *)

Init ==
    /\ state = "created"
    /\ accepting = FALSE
    /\ active = <<>>
    /\ health = EmptyDict
    /\ failure = NoFailure
    /\ holder = "nobody"
    /\ pc = "down"
    /\ at = 1
    /\ first = NoFailure
    /\ waiting = {}
    /\ cut = FALSE
    /\ alive = {}

Bringing ==
    \/ Start \/ Create \/ CreateFails \/ StartResource \/ StartResourceFails
    \/ CheckSucceeds \/ CheckFails \/ RolledBack

Stopping ==
    \/ Stop \/ ShutdownIdle \/ Shutdown \/ ShutdownEnds
    \/ \E ok \in BOOLEAN : Drain(ok) \/ Close(ok)

Refreshing(p) ==
    \/ Arrive(p) \/ RefreshIdle(p) \/ RefreshBegin(p) \/ CancelProbe(p)
    \/ \E h \in Checked : Refresh(p, h)

Next == Bringing \/ Stopping \/ \E p \in Probe : Refreshing(p)

\* Every wait inside shutdown and inside a probe has a timeout, and asyncio.Lock
\* wakes its waiters in turn.  factory() and start() have no timeout: nothing
\* is assumed of Bringing.
Fairness ==
    /\ SF_vars(ShutdownIdle) /\ SF_vars(Shutdown)
    /\ WF_vars(\E ok \in BOOLEAN : Drain(ok))
    /\ WF_vars(\E ok \in BOOLEAN : Close(ok))
    /\ WF_vars(ShutdownEnds)
    /\ \A p \in Probe : WF_vars(\E h \in Checked : Refresh(p, h))

Spec == Init /\ [][Next]_vars

FairSpec == Spec /\ Fairness

--------------------------------------------------------------------------------
(* Properties                                                                 *)

\* Type invariant: the values of every variable.
TypeOK ==
    /\ state \in RuntimeState
    /\ accepting \in BOOLEAN
    /\ active \in Seq(Resource)
    /\ DOMAIN health \subseteq Resource
    /\ \A i \in DOMAIN health : health[i] \in {"ready", "not_ready"}
    /\ failure \in 0..N
    /\ holder \in {"nobody", "owner"} \cup Probe
    /\ pc \in {"down", "creating", "starting", "checking", "rolling_back",
               "serving", "stopping", "draining", "closing"}
    /\ at \in Resource
    /\ first \in 0..N
    /\ waiting \subseteq Probe
    /\ cut \in BOOLEAN
    /\ alive \subseteq Resource

\* A resource lives only while everything it was started after is alive: the
\* workers never run without the graph, nor the graph without the database.
AliveIsPrefix == \A i \in alive : 1..i \subseteq alive

\* Whatever start or shutdown met on the way, a runtime that is down has closed
\* every resource it created.
NothingLeaks == pc = "down" => alive = {} /\ active = <<>>

\* Resources are released in the reverse of their order of creation, all of them.
ReleasedInReverse == AliveIsPrefix /\ NothingLeaks

\* A runtime that reports itself ready for work has all of its resources, even
\* to the liveness probe, which reads it without the lock.
WorkNeedsEverything == accepting => state = "ready" /\ alive = Resource

\* Between two refreshes, unless the last one was cancelled half-way, work is
\* accepted exactly if every dependency was healthy when it was last checked, and
\* the failure code names the first that was not.
AcceptanceMatchesHealth ==
    state = "ready" /\ holder = "nobody" /\ ~cut =>
        LET bad == {i \in Resource : i \notin DOMAIN health \/ health[i] # "ready"}
        IN  /\ accepting <=> bad = {}
            /\ IF bad = {} THEN failure = NoFailure
               ELSE failure \in bad /\ \A i \in bad : failure <= i

\* A shutdown ends, whatever probes and resources do meanwhile.
ShutdownTerminates == pc = "stopping" ~> pc = "down"
================================================================================
