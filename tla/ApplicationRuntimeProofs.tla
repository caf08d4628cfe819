----------------------- MODULE ApplicationRuntimeProofs -----------------------
(* Theorems about ApplicationRuntime, for any number of resources and probes. *)
EXTENDS ApplicationRuntime, SequenceTheorems, FiniteSetTheorems, TLAPS

OwnerBusy == {"creating", "starting", "checking", "rolling_back", "draining", "closing"}

\* _active lists resources 1, 2, 3, ..., and they are the ones that are alive.
StackIsAlive ==
    /\ \A i \in DOMAIN active : active[i] = i
    /\ alive = 1..Len(active)

\* Where the owner is decides how far the stack has grown; only a runtime whose
\* resources are all there is ready or under the eyes of a probe.
OwnerAgrees ==
    /\ pc \in OwnerBusy <=> holder = "owner"
    /\ pc = "creating" => at = Len(active) + 1
    /\ pc \in {"starting", "checking"} => at = Len(active)
    /\ pc = "down" => active = <<>>
    /\ pc = "serving" => state = "ready"
    /\ pc = "stopping" => state = "ready" \/ active = <<>>
    /\ state = "ready" => pc \in {"serving", "stopping"} /\ Len(active) = N
    /\ accepting \/ holder \in Probe => state = "ready"

\* The type invariant without accepting: the provers take numbers and Boolean
\* values one at a time.
Shapes ==
    /\ state \in RuntimeState
    /\ active \in Seq(Resource)
    /\ DOMAIN health \subseteq Resource
    /\ \A i \in DOMAIN health : health[i] \in {"ready", "not_ready"}
    /\ failure \in 0..N
    /\ holder \in {"nobody", "owner"} \cup Probe
    /\ pc \in {"down", "creating", "starting", "checking", "rolling_back",
               "serving", "stopping", "draining", "closing"}
    /\ at \in Resource
    /\ first \in 0..N
    /\ waiting \subseteq Probe
    /\ alive \subseteq Resource

Inv == Shapes /\ accepting \in BOOLEAN /\ StackIsAlive /\ OwnerAgrees

\* A probe is neither the owner nor nobody.
LEMMA ProbesAreOthers == "nobody" \notin Probe /\ "owner" \notin Probe
BY ProbeAssumption

LEMMA Places ==
    /\ N \in Nat \ {0}
    /\ \A i : i \in Resource <=> i \in Nat /\ 1 <= i /\ i <= N
BY SizeAssumption DEF Resource

LEMMA InitInv == Init => Inv
<1> SUFFICES ASSUME Init PROVE Inv
    OBVIOUS
<1>1. 1..0 = {} /\ Len(active) = 0 /\ active \in Seq(Resource)
      BY DEF Init
<1>2. DOMAIN health = {}
      BY DEF Init, EmptyDict
<1>3. Shapes
      BY <1>1, <1>2, Places DEF Init, Shapes, RuntimeState, NoFailure
<1>4. StackIsAlive
      BY <1>1 DEF Init, StackIsAlive
<1>5. OwnerAgrees
      BY ProbesAreOthers DEF Init, OwnerAgrees, OwnerBusy
<1>6. accepting \in BOOLEAN
      BY DEF Init
<1> QED BY <1>3, <1>4, <1>5, <1>6 DEF Inv

\* The dictionary of reports stays one whatever is put into it.
LEMMA PutHealthTyped ==
    ASSUME Shapes, NEW i \in Resource, NEW h \in {"ready", "not_ready"}
    PROVE  LET d == PutHealth(i, h)
           IN  /\ DOMAIN d \subseteq Resource
               /\ \A j \in DOMAIN d : d[j] \in {"ready", "not_ready"}
BY DEF Shapes, PutHealth

\* A sequence without its last element.
LEMMA FrontIs ==
    ASSUME NEW s \in Seq(Resource), NEW n \in Nat, Len(s) = n + 1
    PROVE  /\ SubSeq(s, 1, n) \in Seq(Resource)
           /\ Len(SubSeq(s, 1, n)) = n
           /\ \A i \in 1..n : SubSeq(s, 1, n)[i] = s[i]
<1>1. \A i \in 1..n : s[i] \in Resource
      OBVIOUS
<1>2. Len(SubSeq(s, 1, n)) = IF 1 <= n THEN n - 1 + 1 ELSE 0
      BY <1>1, SubSeqProperties
<1> QED BY <1>1, <1>2, SubSeqProperties

\* Popping the stack takes away its last resource and nothing else.
LEMMA PoppedIs ==
    ASSUME Shapes, active # <<>>
    PROVE  /\ Popped.rest \in Seq(Resource)
           /\ Len(Popped.rest) = Len(active) - 1
           /\ \A i \in DOMAIN Popped.rest : Popped.rest[i] = active[i]
           /\ Popped.resource = active[Len(active)]
           /\ Len(active) \in Nat \ {0}
<1>1. active \in Seq(Resource) /\ Len(active) \in Nat \ {0}
      BY DEF Shapes
<1>2. PICK n \in Nat : n = Len(active) - 1 /\ Len(active) = n + 1
      BY <1>1
<1>3. Popped.rest = SubSeq(active, 1, n)
      BY <1>2 DEF Popped
<1>4. Popped.resource = active[Len(active)]
      BY DEF Popped
<1> QED BY <1>1, <1>2, <1>3, <1>4, FrontIs

LEMMA BringingKeepsInv == Inv /\ Bringing => Inv'
<1> SUFFICES ASSUME Inv, Bringing PROVE Inv'
    OBVIOUS
<1> USE Places, ProbesAreOthers
    DEF Inv, Shapes, StackIsAlive, OwnerAgrees, OwnerBusy, RuntimeState,
        NoFailure, control, resources
<1>1. CASE Start
  <2>1. Shapes'
        BY <1>1 DEF Start, EmptyDict
  <2>2. StackIsAlive'
        BY <1>1 DEF Start, EmptyDict
  <2>3. OwnerAgrees'
        BY <1>1 DEF Start, EmptyDict
  <2>4. accepting' \in BOOLEAN
        BY <1>1 DEF Start, EmptyDict
  <2> QED BY <2>1, <2>2, <2>3, <2>4
<1>2. CASE Create
  <2>1. Shapes'
        BY <1>2 DEF Create
  <2>2. StackIsAlive'
        BY <1>2 DEF Create
  <2>3. OwnerAgrees'
        BY <1>2 DEF Create
  <2>4. accepting' \in BOOLEAN
        BY <1>2 DEF Create
  <2> QED BY <2>1, <2>2, <2>3, <2>4
<1>3. CASE CreateFails
  <2>1. Shapes'
        BY <1>3 DEF CreateFails, RollBack
  <2>2. StackIsAlive'
        BY <1>3 DEF CreateFails, RollBack
  <2>3. OwnerAgrees'
        BY <1>3 DEF CreateFails, RollBack
  <2>4. accepting' \in BOOLEAN
        BY <1>3 DEF CreateFails, RollBack
  <2> QED BY <2>1, <2>2, <2>3, <2>4
<1>4. CASE StartResource
  <2>1. Shapes'
        BY <1>4 DEF StartResource
  <2>2. StackIsAlive'
        BY <1>4 DEF StartResource
  <2>3. OwnerAgrees'
        BY <1>4 DEF StartResource
  <2>4. accepting' \in BOOLEAN
        BY <1>4 DEF StartResource
  <2> QED BY <2>1, <2>2, <2>3, <2>4
<1>5. CASE StartResourceFails
  <2>1. Shapes'
        BY <1>5 DEF StartResourceFails, RollBack
  <2>2. StackIsAlive'
        BY <1>5 DEF StartResourceFails, RollBack
  <2>3. OwnerAgrees'
        BY <1>5 DEF StartResourceFails, RollBack
  <2>4. accepting' \in BOOLEAN
        BY <1>5 DEF StartResourceFails, RollBack
  <2> QED BY <2>1, <2>2, <2>3, <2>4
<1>6. CASE CheckSucceeds
  <2>1. Shapes'
        BY <1>6, PutHealthTyped DEF CheckSucceeds, Ready
  <2>2. StackIsAlive'
        BY <1>6, PutHealthTyped DEF CheckSucceeds, Ready
  <2>3. OwnerAgrees'
        BY <1>6, PutHealthTyped DEF CheckSucceeds, Ready
  <2>4. accepting' \in BOOLEAN
        BY <1>6, PutHealthTyped DEF CheckSucceeds, Ready
  <2> QED BY <2>1, <2>2, <2>3, <2>4
<1>7. CASE CheckFails
  <2>1. Shapes'
        BY <1>7, PutHealthTyped DEF CheckFails, RollBack
  <2>2. StackIsAlive'
        BY <1>7, PutHealthTyped DEF CheckFails, RollBack
  <2>3. OwnerAgrees'
        BY <1>7, PutHealthTyped DEF CheckFails, RollBack
  <2>4. accepting' \in BOOLEAN
        BY <1>7, PutHealthTyped DEF CheckFails, RollBack
  <2> QED BY <2>1, <2>2, <2>3, <2>4
<1>8. CASE RolledBack
  <2>1. Shapes'
        BY <1>8 DEF RolledBack
  <2>2. StackIsAlive'
        BY <1>8 DEF RolledBack
  <2>3. OwnerAgrees'
        BY <1>8 DEF RolledBack
  <2>4. accepting' \in BOOLEAN
        BY <1>8 DEF RolledBack
  <2> QED BY <2>1, <2>2, <2>3, <2>4
<1> QED BY <1>1, <1>2, <1>3, <1>4, <1>5, <1>6, <1>7, <1>8 DEF Bringing

LEMMA StoppingKeepsInv == Inv /\ Stopping => Inv'
<1> SUFFICES ASSUME Inv, Stopping PROVE Inv'
    OBVIOUS
<1> USE Places, ProbesAreOthers
    DEF Inv, Shapes, StackIsAlive, OwnerAgrees, OwnerBusy, RuntimeState,
        NoFailure, control, resources
<1>1. CASE Stop
  <2>1. Shapes'
        BY <1>1 DEF Stop
  <2>2. StackIsAlive'
        BY <1>1 DEF Stop
  <2>3. OwnerAgrees'
        BY <1>1 DEF Stop
  <2>4. accepting' \in BOOLEAN
        BY <1>1 DEF Stop
  <2> QED BY <2>1, <2>2, <2>3, <2>4
<1>2. CASE ShutdownIdle
  <2>1. Shapes'
        BY <1>2 DEF ShutdownIdle
  <2>2. StackIsAlive'
        BY <1>2 DEF ShutdownIdle
  <2>3. OwnerAgrees'
        BY <1>2 DEF ShutdownIdle
  <2>4. accepting' \in BOOLEAN
        BY <1>2 DEF ShutdownIdle
  <2> QED BY <2>1, <2>2, <2>3, <2>4
<1>3. CASE Shutdown
  <2>1. Shapes'
        BY <1>3 DEF Shutdown, StopIntake
  <2>2. StackIsAlive'
        BY <1>3 DEF Shutdown, StopIntake
  <2>3. OwnerAgrees'
        BY <1>3 DEF Shutdown, StopIntake
  <2>4. accepting' \in BOOLEAN
        BY <1>3 DEF Shutdown, StopIntake
  <2> QED BY <2>1, <2>2, <2>3, <2>4
<1>4. CASE ShutdownEnds
  <2>1. Shapes'
        BY <1>4 DEF ShutdownEnds
  <2>2. StackIsAlive'
        BY <1>4 DEF ShutdownEnds
  <2>3. OwnerAgrees'
        BY <1>4 DEF ShutdownEnds
  <2>4. accepting' \in BOOLEAN
        BY <1>4 DEF ShutdownEnds
  <2> QED BY <2>1, <2>2, <2>3, <2>4
<1>5. ASSUME NEW ok \in BOOLEAN, Drain(ok) PROVE Inv'
  <2>1. Shapes'
        BY <1>5 DEF Drain, FirstFailure, Workers
  <2>2. StackIsAlive'
        BY <1>5 DEF Drain, FirstFailure, Workers
  <2>3. OwnerAgrees'
        BY <1>5 DEF Drain, FirstFailure, Workers
  <2>4. accepting' \in BOOLEAN
        BY <1>5 DEF Drain, FirstFailure, Workers
  <2> QED BY <2>1, <2>2, <2>3, <2>4
<1>6. ASSUME NEW ok \in BOOLEAN, Close(ok) PROVE Inv'
  <2>1. Shapes'
        BY <1>6, PoppedIs DEF Close, FirstFailure
  <2>2. StackIsAlive'
    <3>1. Popped.resource = Len(active) /\ active # <<>>
          BY <1>6, PoppedIs DEF Close
    <3>2. alive' = 1..(Len(active) - 1)
          BY <1>6, <3>1, PoppedIs DEF Close
    <3>3. active' = Popped.rest
          BY <1>6 DEF Close
    <3>4. Len(active') = Len(active) - 1
          BY <3>1, <3>3, PoppedIs
    <3>5. \A i \in DOMAIN active' : active'[i] = i
          BY <3>1, <3>3, PoppedIs
    <3> QED BY <3>2, <3>4, <3>5
  <2>3. OwnerAgrees'
        BY <1>6, PoppedIs DEF Close, FirstFailure
  <2>4. accepting' \in BOOLEAN
        BY <1>6, PoppedIs DEF Close, FirstFailure
  <2> QED BY <2>1, <2>2, <2>3, <2>4
<1> QED BY <1>1, <1>2, <1>3, <1>4, <1>5, <1>6 DEF Stopping

LEMMA RefreshingKeepsInv ==
    ASSUME Inv, NEW p \in Probe, Refreshing(p) PROVE Inv'
<1> USE Places, ProbesAreOthers
    DEF Inv, Shapes, StackIsAlive, OwnerAgrees, OwnerBusy, RuntimeState,
        NoFailure, control, resources
<1>1. CASE Arrive(p)
  <2>1. Shapes'
        BY <1>1 DEF Arrive
  <2>2. StackIsAlive'
        BY <1>1 DEF Arrive
  <2>3. OwnerAgrees'
        BY <1>1 DEF Arrive
  <2>4. accepting' \in BOOLEAN
        BY <1>1 DEF Arrive
  <2> QED BY <2>1, <2>2, <2>3, <2>4
<1>2. CASE RefreshIdle(p)
  <2>1. Shapes'
        BY <1>2 DEF RefreshIdle
  <2>2. StackIsAlive'
        BY <1>2 DEF RefreshIdle
  <2>3. OwnerAgrees'
        BY <1>2 DEF RefreshIdle
  <2>4. accepting' \in BOOLEAN
        BY <1>2 DEF RefreshIdle
  <2> QED BY <2>1, <2>2, <2>3, <2>4
<1>3. CASE RefreshBegin(p)
  <2>1. Shapes'
        BY <1>3 DEF RefreshBegin
  <2>2. StackIsAlive'
        BY <1>3 DEF RefreshBegin
  <2>3. OwnerAgrees'
        BY <1>3 DEF RefreshBegin
  <2>4. accepting' \in BOOLEAN
        BY <1>3 DEF RefreshBegin
  <2> QED BY <2>1, <2>2, <2>3, <2>4
<1>4. CASE CancelProbe(p)
  <2>1. Shapes'
        BY <1>4 DEF CancelProbe
  <2>2. StackIsAlive'
        BY <1>4 DEF CancelProbe
  <2>3. OwnerAgrees'
        BY <1>4 DEF CancelProbe
  <2>4. accepting' \in BOOLEAN
        BY <1>4 DEF CancelProbe
  <2> QED BY <2>1, <2>2, <2>3, <2>4
<1>5. ASSUME NEW h \in Checked, Refresh(p, h) PROVE Inv'
  <2>1. Recorded(h) \in {"ready", "not_ready"}
        BY DEF Recorded
  <2>2. active[at] = at /\ at \in Resource
        BY <1>5 DEF Refresh
  <2>3. Shapes'
        BY <1>5, <2>1, <2>2, PutHealthTyped DEF Refresh, FirstFailure
  <2>4. StackIsAlive'
        BY <1>5 DEF Refresh
  <2>5. accepting' \in BOOLEAN
        BY <1>5 DEF Refresh
  <2>6. OwnerAgrees'
        BY <1>5 DEF Refresh
  <2> QED BY <2>3, <2>4, <2>5, <2>6
<1> QED BY <1>1, <1>2, <1>3, <1>4, <1>5 DEF Refreshing

LEMMA NextKeepsInv == Inv /\ [Next]_vars => Inv'
<1>1. Inv /\ UNCHANGED vars => Inv'
      BY DEF Inv, Shapes, StackIsAlive, OwnerAgrees, vars, control, resources
<1> QED BY <1>1, BringingKeepsInv, StoppingKeepsInv, RefreshingKeepsInv DEF Next

LEMMA Invariance == Spec => []Inv
BY InitInv, NextKeepsInv, PTL DEF Spec

CutIsBoolean == cut \in BOOLEAN

LEMMA CutTyped == Spec => []CutIsBoolean
<1>1. Init => CutIsBoolean
      BY DEF Init, CutIsBoolean
<1>2. CutIsBoolean /\ [Next]_vars => CutIsBoolean'
  <2> SUFFICES ASSUME cut \in BOOLEAN, [Next]_vars PROVE cut' \in BOOLEAN
      BY DEF CutIsBoolean
  <2>1. CASE Bringing
        BY <2>1 DEF Bringing, Start, Create, CreateFails, StartResource,
              StartResourceFails, RollBack, CheckSucceeds, CheckFails, RolledBack
  <2>2. CASE Stopping
        BY <2>2 DEF Stopping, Stop, ShutdownIdle, Shutdown, Drain, Close, ShutdownEnds
  <2>3. ASSUME NEW p \in Probe, Refreshing(p) PROVE cut' \in BOOLEAN
        BY <2>3 DEF Refreshing, Arrive, RefreshIdle, RefreshBegin, CancelProbe, Refresh
  <2>4. CASE UNCHANGED vars
        BY <2>4 DEF vars
  <2> QED BY <2>1, <2>2, <2>3, <2>4 DEF Next
<1> QED BY <1>1, <1>2, PTL DEF Spec

\* Types of every variable, with any number of resources.
THEOREM TypeCorrect == Spec => []TypeOK
<1>1. Inv /\ CutIsBoolean => TypeOK
      BY Zenon DEF Inv, CutIsBoolean, Shapes, TypeOK
<1> QED BY <1>1, Invariance, CutTyped, PTL

\* Resources are closed in the reverse of the order in which they were created
\* (_close_all), during start, rollback and shutdown alike, and neither a failed
\* start nor a failed shutdown leaves one behind.
THEOREM ClosedInReverse == Spec => []ReleasedInReverse
<1>1. Inv => AliveIsPrefix
      BY DEF Inv, Shapes, StackIsAlive, AliveIsPrefix
<1>2. Inv => NothingLeaks
      BY DEF Inv, Shapes, StackIsAlive, OwnerAgrees, NothingLeaks
<1> QED BY <1>1, <1>2, Invariance, PTL DEF ReleasedInReverse

\* Work is accepted only while every resource is up (accepting_work).
THEOREM WorkIsBacked == Spec => []WorkNeedsEverything
<1>1. Inv => WorkNeedsEverything
      BY DEF Inv, Shapes, StackIsAlive, OwnerAgrees, WorkNeedsEverything, Resource
<1> QED BY <1>1, Invariance, PTL

--------------------------------------------------------------------------------
(* What a probe has found out                                                 *)

\* In the reports d, f names the first of the resources 1..k that was not
\* healthy, if any.
FirstOf(d, f, k) ==
    /\ 1..k \subseteq DOMAIN d
    /\ f = NoFailure => \A i \in 1..k : d[i] = "ready"
    /\ f # NoFailure => /\ f \in 1..k /\ d[f] # "ready"
                       /\ \A i \in 1..(f - 1) : d[i] = "ready"

\* start goes on while everything is healthy; a refresh knows the first failure
\* among the resources it has visited; what it leaves behind is all of it.
HealthAgrees ==
    /\ pc \in {"creating", "starting", "checking"} =>
           failure = NoFailure /\ FirstOf(health, NoFailure, at - 1)
    /\ holder \in Probe => FirstOf(health, first, at - 1)
    /\ state = "ready" /\ holder = "nobody" /\ ~cut =>
           (accepting <=> failure = NoFailure) /\ FirstOf(health, failure, N)

\* One more visit, or one more resource brought up.
LEMMA VisitExtends ==
    ASSUME Shapes, NEW i \in Resource, NEW h \in {"ready", "not_ready"},
           NEW f \in 0..N, FirstOf(health, f, i - 1)
    PROVE  FirstOf(PutHealth(i, h), IF h = "ready" \/ f # NoFailure THEN f ELSE i, i)
<1>1. i \in Nat /\ 1 <= i /\ i <= N /\ N \in Nat
      BY Places
<1>2. DOMAIN PutHealth(i, h) = DOMAIN health \cup {i}
      BY DEF PutHealth
<1>3. PutHealth(i, h)[i] = h
      BY DEF PutHealth
<1>4. \A j \in 1..(i - 1) : PutHealth(i, h)[j] = health[j]
      BY <1>1 DEF PutHealth, FirstOf
<1>5. 1..i \subseteq DOMAIN PutHealth(i, h)
      BY <1>1, <1>2 DEF FirstOf
<1>6. CASE h = "ready"
      BY <1>1, <1>3, <1>4, <1>5, <1>6 DEF FirstOf, NoFailure
<1>7. CASE h # "ready"
      BY <1>1, <1>3, <1>4, <1>5, <1>7 DEF FirstOf, NoFailure
<1> QED BY <1>6, <1>7

LEMMA InitHealth == Init => HealthAgrees
BY ProbesAreOthers DEF Init, HealthAgrees

LEMMA BringingKeepsHealth == Inv /\ HealthAgrees /\ Bringing => HealthAgrees'
<1> SUFFICES ASSUME Inv, HealthAgrees, Bringing PROVE HealthAgrees'
    OBVIOUS
<1> USE Places, ProbesAreOthers
    DEF HealthAgrees, Inv, Shapes, OwnerAgrees, OwnerBusy, control, resources
<1>1. CASE Start
  <2>1. at' - 1 = 0 /\ 1..0 = {}
        BY <1>1 DEF Start
  <2> QED BY <1>1, <2>1 DEF Start, EmptyDict, FirstOf, NoFailure
<1>2. CASE Create
      BY <1>2 DEF Create
<1>3. CASE CreateFails
      BY <1>3 DEF CreateFails, RollBack
<1>4. CASE StartResource
      BY <1>4 DEF StartResource
<1>5. CASE StartResourceFails
      BY <1>5 DEF StartResourceFails, RollBack
<1>6. CASE CheckSucceeds
  <2>1. FirstOf(health', NoFailure, at)
        BY <1>6, VisitExtends DEF CheckSucceeds, NoFailure
  <2>2. CASE at = N /\ Ready
        BY <1>6, <2>1, <2>2 DEF CheckSucceeds, Ready
  <2>3. CASE at < N /\ at' = at + 1 /\ pc' = "creating" /\ UNCHANGED <<control, holder>>
    <3>1. at' - 1 = at
          BY <2>3
    <3> QED BY <1>6, <2>1, <2>3, <3>1 DEF CheckSucceeds
  <2> QED BY <1>6, <2>2, <2>3 DEF CheckSucceeds
<1>7. CASE CheckFails
      BY <1>7 DEF CheckFails, RollBack
<1>8. CASE RolledBack
      BY <1>8 DEF RolledBack
<1> QED BY <1>1, <1>2, <1>3, <1>4, <1>5, <1>6, <1>7, <1>8 DEF Bringing

LEMMA StoppingKeepsHealth == Inv /\ HealthAgrees /\ Stopping => HealthAgrees'
<1> SUFFICES ASSUME Inv, HealthAgrees, Stopping PROVE HealthAgrees'
    OBVIOUS
<1> USE ProbesAreOthers
    DEF HealthAgrees, Inv, Shapes, OwnerAgrees, OwnerBusy, control, resources
<1>1. CASE Stop
      BY <1>1 DEF Stop
<1>2. CASE ShutdownIdle
      BY <1>2 DEF ShutdownIdle
<1>3. CASE Shutdown
      BY <1>3 DEF Shutdown
<1>4. CASE ShutdownEnds
      BY <1>4 DEF ShutdownEnds
<1>5. ASSUME NEW ok \in BOOLEAN, Drain(ok) PROVE HealthAgrees'
      BY <1>5 DEF Drain
<1>6. ASSUME NEW ok \in BOOLEAN, Close(ok) PROVE HealthAgrees'
      BY <1>6 DEF Close
<1> QED BY <1>1, <1>2, <1>3, <1>4, <1>5, <1>6 DEF Stopping

LEMMA RefreshingKeepsHealth ==
    ASSUME Inv, HealthAgrees, NEW p \in Probe, Refreshing(p)
    PROVE  HealthAgrees'
<1> USE Places, ProbesAreOthers
    DEF HealthAgrees, Inv, Shapes, StackIsAlive, OwnerAgrees, OwnerBusy, control, resources
<1>1. CASE Arrive(p)
      BY <1>1 DEF Arrive
<1>2. CASE RefreshIdle(p)
      BY <1>2 DEF RefreshIdle
<1>3. CASE RefreshBegin(p)
  <2>1. at' - 1 = 0 /\ 1..0 = {}
        BY <1>3 DEF RefreshBegin
  <2> QED BY <1>3, <2>1 DEF RefreshBegin, FirstOf, NoFailure
<1>4. CASE CancelProbe(p)
      BY <1>4 DEF CancelProbe
<1>5. ASSUME NEW h \in Checked, Refresh(p, h) PROVE HealthAgrees'
  <2>1. active[at] = at /\ at \in Resource /\ Len(active) = N
        BY <1>5 DEF Refresh
  <2>2. FirstOf(health', first', at)
    <3>1. Recorded(h) \in {"ready", "not_ready"}
          BY DEF Recorded
    <3> QED BY <1>5, <2>1, <3>1, VisitExtends DEF Refresh, FirstFailure
  <2>3. CASE at < Len(active) /\ at' = at + 1 /\ UNCHANGED <<control, holder, cut>>
    <3>1. at' - 1 = at
          BY <2>3
    <3> QED BY <1>5, <2>2, <2>3, <3>1 DEF Refresh
  <2>4. CASE /\ at = Len(active)
             /\ accepting' = (first' = NoFailure /\ Len(active) = N)
             /\ failure' = first' /\ cut' = FALSE /\ holder' = "nobody"
             /\ UNCHANGED <<state, at>>
        BY <1>5, <2>1, <2>2, <2>4 DEF Refresh
  <2> QED BY <1>5, <2>3, <2>4 DEF Refresh
<1> QED BY <1>1, <1>2, <1>3, <1>4, <1>5 DEF Refreshing

\* Unless the last refresh was cancelled half-way, work is accepted exactly while
\* every dependency was healthy at its last check (refresh_readiness).
THEOREM AcceptanceIsHonest == Spec => []AcceptanceMatchesHealth
<1>1. Inv /\ HealthAgrees /\ [Next]_vars => HealthAgrees'
  <2>1. HealthAgrees /\ UNCHANGED vars => HealthAgrees'
        BY DEF HealthAgrees, vars, control, resources
  <2> QED BY <2>1, BringingKeepsHealth, StoppingKeepsHealth, RefreshingKeepsHealth
          DEF Next
<1>2. Inv /\ HealthAgrees => AcceptanceMatchesHealth
  <2> SUFFICES ASSUME Inv, HealthAgrees, state = "ready", holder = "nobody", ~cut
               PROVE  AcceptanceMatchesHealth
      BY DEF AcceptanceMatchesHealth
  <2> DEFINE bad == {i \in Resource : i \notin DOMAIN health \/ health[i] # "ready"}
  <2>1. FirstOf(health, failure, N) /\ (accepting <=> failure = NoFailure)
        BY DEF HealthAgrees
  <2>2. CASE failure = NoFailure
    <3>1. bad = {}
          BY <2>1, <2>2, Places DEF FirstOf
    <3> QED BY <2>1, <2>2, <3>1 DEF AcceptanceMatchesHealth
  <2>3. CASE failure # NoFailure
    <3>1. failure \in bad /\ \A i \in bad : failure <= i
          BY <2>1, <2>3, Places DEF FirstOf
    <3> QED BY <2>1, <2>3, <3>1 DEF AcceptanceMatchesHealth
  <2> QED BY <2>2, <2>3
<1> QED BY <1>1, <1>2, InitHealth, Invariance, PTL DEF Spec

--------------------------------------------------------------------------------
(* The end of a shutdown: what ShutdownTerminates rests on                    *)

InShutdown == pc \in {"stopping", "draining", "closing"}

\* The steps the owner still has to take until the runtime is down, and those the
\* probes can still put in between: nobody new arrives, and a probe visits each
\* resource once.
OwnerLeft ==
    CASE pc = "stopping" -> N + 3
      [] pc = "draining" -> Len(active) + 2
      [] pc = "closing" -> Len(active) + 1
      [] OTHER -> 0

ProbesLeft ==
    Cardinality(waiting) * (N + 1) + (IF holder \in Probe THEN N + 1 - at ELSE 0)

StepsLeft == OwnerLeft + ProbesLeft

\* Whatever happens during a shutdown brings its end nearer.
ShutdownRunsDown ==
    [][ InShutdown => /\ StepsLeft' \in Nat /\ StepsLeft' < StepsLeft
                      /\ InShutdown' \/ pc' = "down" ]_vars

\* A shutdown is never stuck: it holds the lock, or can take it, or waits for a
\* probe that has a resource to visit.
ShutdownCanGoOn ==
    InShutdown =>
        \/ pc = "stopping" /\ holder = "nobody"
        \/ pc = "stopping" /\ holder \in Probe /\ at \in DOMAIN active
        \/ pc \in {"draining", "closing"} /\ holder = "owner"

WaitingIsFinite == IsFiniteSet(waiting)

LEMMA WaitingStep ==
    ASSUME WaitingIsFinite, [Next]_vars
    PROVE  WaitingIsFinite'
<1>1. CASE waiting' = waiting
      BY <1>1 DEF WaitingIsFinite
<1>2. CASE Bringing
      BY <1>1, <1>2 DEF Bringing, Start, Create, CreateFails, StartResource,
         StartResourceFails, RollBack, CheckSucceeds, CheckFails, RolledBack
<1>3. CASE Stopping
      BY <1>1, <1>3 DEF Stopping, Stop, ShutdownIdle, Shutdown, Drain, Close, ShutdownEnds
<1>4. ASSUME NEW p \in Probe, Refreshing(p) PROVE WaitingIsFinite'
  <2>1. waiting' \in {waiting, waiting \cup {p}, waiting \ {p}}
        BY <1>4 DEF Refreshing, Arrive, RefreshIdle, RefreshBegin, CancelProbe, Refresh
  <2> QED BY <1>1, <2>1, FS_AddElement, FS_RemoveElement DEF WaitingIsFinite
<1> QED BY <1>1, <1>2, <1>3, <1>4 DEF Next, vars

LEMMA WaitingInvariant == Spec => []WaitingIsFinite
<1>1. Init => WaitingIsFinite
      BY FS_EmptySet DEF Init, WaitingIsFinite
<1> QED BY <1>1, WaitingStep, PTL DEF Spec

\* One probe fewer that waits leaves room for all the steps of its refresh.
LEMMA FewerWait ==
    ASSUME WaitingIsFinite, NEW p \in waiting, waiting' = waiting \ {p}
    PROVE  /\ Cardinality(waiting) \in Nat /\ Cardinality(waiting') \in Nat
           /\ Cardinality(waiting) * (N + 1) = Cardinality(waiting') * (N + 1) + N + 1
<1>1. /\ Cardinality(waiting') = Cardinality(waiting) - 1
      /\ Cardinality(waiting) \in Nat /\ Cardinality(waiting') \in Nat
      BY FS_RemoveElement, FS_CardinalityType DEF WaitingIsFinite
<1>2. ASSUME NEW w \in Nat, NEW v \in Nat, v = w - 1
      PROVE  w * (N + 1) = v * (N + 1) + N + 1
      BY <1>2, SizeAssumption
<1> QED BY <1>1, <1>2

\* The numbers that are added up.
LEMMA LeftTyped ==
    ASSUME Inv, WaitingIsFinite
    PROVE  /\ N \in Nat /\ Len(active) \in Nat /\ at \in 1..N
           /\ Cardinality(waiting) * (N + 1) \in Nat
           /\ OwnerLeft \in Nat /\ ProbesLeft \in Nat
<1>1. N \in Nat /\ Len(active) \in Nat /\ at \in 1..N
      BY SizeAssumption DEF Inv, Shapes, Resource
<1>2. Cardinality(waiting) \in Nat
      BY FS_CardinalityType DEF WaitingIsFinite
<1>3. ASSUME NEW w \in Nat PROVE w * (N + 1) \in Nat
      BY <1>1
<1>4. Cardinality(waiting) * (N + 1) \in Nat
      BY <1>2, <1>3
<1>5. OwnerLeft \in Nat
      BY <1>1 DEF OwnerLeft
<1>6. ProbesLeft \in Nat
  <2> DEFINE w == Cardinality(waiting) * (N + 1)
  <2>1. w \in Nat
        BY <1>4
  <2>2. ProbesLeft = w + (IF holder \in Probe THEN N + 1 - at ELSE 0)
        BY DEF ProbesLeft
  <2> HIDE DEF w
  <2> QED BY <1>1, <2>1, <2>2
<1> QED BY <1>1, <1>4, <1>5, <1>6

LEMMA OwnerNearer ==
    ASSUME Inv, InShutdown, Stopping
    PROVE  /\ OwnerLeft' < OwnerLeft /\ ProbesLeft' = ProbesLeft
           /\ InShutdown' \/ pc' = "down"
<1> USE Places DEF InShutdown
<1>1. Len(active) \in Nat /\ Len(active) <= N
      BY DEF Inv, Shapes, StackIsAlive, Resource
<1>2. CASE Stop
      BY <1>2 DEF Stop
<1>3. CASE ShutdownIdle
  <2>1. pc = "stopping" /\ pc' = "down" /\ UNCHANGED <<holder, at, waiting>>
        BY <1>3 DEF ShutdownIdle
  <2> QED BY <2>1 DEF OwnerLeft, ProbesLeft
<1>4. CASE Shutdown
  <2>1. /\ pc = "stopping" /\ pc' \in {"draining", "closing"}
        /\ holder = "nobody" /\ holder' = "owner"
        /\ active' = active /\ waiting' = waiting
        BY <1>4 DEF Shutdown, resources
  <2>2. ProbesLeft' = ProbesLeft
        BY <2>1, ProbesAreOthers DEF ProbesLeft
  <2> QED BY <1>1, <2>1, <2>2 DEF OwnerLeft
<1>5. CASE ShutdownEnds
  <2>1. /\ pc = "closing" /\ pc' = "down" /\ holder' = "nobody" /\ waiting' = waiting
        BY <1>5 DEF ShutdownEnds
  <2>2. holder = "owner"
        BY <2>1 DEF Inv, OwnerAgrees, OwnerBusy
  <2>3. ProbesLeft' = ProbesLeft
        BY <2>1, <2>2, ProbesAreOthers DEF ProbesLeft
  <2> QED BY <1>1, <2>1, <2>3 DEF OwnerLeft
<1>6. ASSUME NEW ok \in BOOLEAN, Drain(ok)
      PROVE  OwnerLeft' < OwnerLeft /\ ProbesLeft' = ProbesLeft /\ InShutdown'
  <2>1. /\ pc = "draining" /\ pc' = "closing"
        /\ UNCHANGED <<active, holder, at, waiting>>
        BY <1>6 DEF Drain, resources
  <2> QED BY <1>1, <2>1 DEF OwnerLeft, ProbesLeft
<1>7. ASSUME NEW ok \in BOOLEAN, Close(ok)
      PROVE  OwnerLeft' < OwnerLeft /\ ProbesLeft' = ProbesLeft /\ InShutdown'
  <2>1. /\ pc = "closing" /\ active # <<>> /\ active' = Popped.rest
        /\ UNCHANGED <<pc, holder, at, waiting>>
        BY <1>7 DEF Close
  <2>2. Len(active') = Len(active) - 1
        BY <2>1, PoppedIs DEF Inv
  <2> QED BY <1>1, <2>1, <2>2 DEF OwnerLeft, ProbesLeft
<1> QED BY <1>2, <1>3, <1>4, <1>5, <1>6, <1>7 DEF Stopping

LEMMA ProbesNearer ==
    ASSUME Inv, WaitingIsFinite, InShutdown, NEW p \in Probe, Refreshing(p)
    PROVE  pc' = pc /\ OwnerLeft' = OwnerLeft /\ ProbesLeft' < ProbesLeft
<1>1. pc # "serving"
      BY DEF InShutdown
<1>2. pc' = pc /\ active' = active
      BY DEF Refreshing, Arrive, RefreshIdle, RefreshBegin, CancelProbe, Refresh, resources
<1>3. OwnerLeft' = OwnerLeft
      BY <1>2 DEF OwnerLeft
<1> DEFINE w == Cardinality(waiting) * (N + 1)
           v == Cardinality(waiting') * (N + 1)
           busy == IF holder \in Probe THEN N + 1 - at ELSE 0
           after == IF holder' \in Probe THEN N + 1 - at' ELSE 0
<1>4. ProbesLeft = w + busy /\ ProbesLeft' = v + after
      BY DEF ProbesLeft
<1>5. w \in Nat /\ N \in Nat /\ at \in 1..N
      BY LeftTyped
<1>6. waiting' = waiting => v = w
      OBVIOUS
<1>7. ASSUME waiting' = waiting \ {p}, p \in waiting
      PROVE  v \in Int /\ w = v + N + 1
  <2>1. w = v + N + 1 /\ Cardinality(waiting') \in Nat
        BY <1>7, FewerWait
  <2>2. ASSUME NEW k \in Nat PROVE k * (N + 1) \in Int
        BY <1>5
  <2> QED BY <2>1, <2>2
<1>8. "nobody" \notin Probe
      BY ProbesAreOthers
<1> HIDE DEF w, v
<1>9. v + after < w + busy
  <2>1. CASE Arrive(p)
        BY <1>1, <2>1 DEF Arrive
  <2>2. CASE RefreshIdle(p)
    <3>1. waiting' = waiting \ {p} /\ p \in waiting /\ UNCHANGED <<holder, at>>
          BY <2>2 DEF RefreshIdle
    <3> QED BY <1>5, <1>7, <3>1
  <2>3. CASE RefreshBegin(p)
    <3>1. /\ waiting' = waiting \ {p} /\ p \in waiting
          /\ holder = "nobody" /\ holder' = p /\ at' = 1
          BY <2>3 DEF RefreshBegin
    <3> QED BY <1>5, <1>7, <1>8, <3>1
  <2>4. CASE CancelProbe(p)
    <3>1. CASE p \in waiting
      <4>1. waiting' = waiting \ {p} /\ at' = at /\ holder' \in {"nobody", holder}
            BY <2>4 DEF CancelProbe
      <4> QED BY <1>5, <1>7, <1>8, <3>1, <4>1
    <3>2. CASE p \notin waiting
      <4>1. waiting' = waiting /\ at' = at /\ holder = p /\ holder' = "nobody"
            BY <2>4, <3>2 DEF CancelProbe
      <4> QED BY <1>5, <1>6, <1>8, <4>1
    <3> QED BY <3>1, <3>2
  <2>5. ASSUME NEW h \in Checked, Refresh(p, h) PROVE v + after < w + busy
    <3>1. waiting' = waiting /\ holder = p
          BY <2>5 DEF Refresh
    <3>2. \/ holder' = p /\ at' = at + 1
          \/ holder' = "nobody"
          BY <2>5, <3>1 DEF Refresh
    <3> QED BY <1>5, <1>6, <1>8, <3>1, <3>2
  <2> QED BY <2>1, <2>2, <2>3, <2>4, <2>5 DEF Refreshing
<1> QED BY <1>2, <1>3, <1>4, <1>9

LeftIsNumber == OwnerLeft \in Nat /\ ProbesLeft \in Nat

\* A sum gets smaller with one of its terms.
LEMMA LessInSecond ==
    ASSUME NEW a \in Nat, NEW b \in Nat, NEW c \in Nat, NEW d \in Nat, c = a, d < b
    PROVE  c + d \in Nat /\ c + d < a + b
OBVIOUS

LEMMA LessInFirst ==
    ASSUME NEW a \in Nat, NEW b \in Nat, NEW c \in Nat, c < a
    PROVE  c + b \in Nat /\ c + b < a + b
OBVIOUS

LEMMA LeftInvariant == Spec => []LeftIsNumber
<1>1. Inv /\ WaitingIsFinite => LeftIsNumber
      BY LeftTyped DEF LeftIsNumber
<1> QED BY <1>1, Invariance, WaitingInvariant, PTL

\* From the call of shutdown on, every step of the owner and of any probe brings
\* the end nearer, so that there are only finitely many (shutdown, _close_all and
\* refresh_readiness under the one lock).
THEOREM ShutdownIsBounded == Spec => ShutdownRunsDown
<1>1. ASSUME Inv, WaitingIsFinite, LeftIsNumber, LeftIsNumber', InShutdown, Next
      PROVE  /\ StepsLeft' \in Nat /\ StepsLeft' < StepsLeft
             /\ InShutdown' \/ pc' = "down"
  <2>0. StepsLeft = OwnerLeft + ProbesLeft /\ StepsLeft' = OwnerLeft' + ProbesLeft'
        BY DEF StepsLeft
  <2>1. /\ OwnerLeft \in Nat /\ ProbesLeft \in Nat
        /\ OwnerLeft' \in Nat /\ ProbesLeft' \in Nat
        BY <1>1 DEF LeftIsNumber
  <2>2. CASE Bringing
        BY <1>1, <2>2 DEF InShutdown, Bringing, Start, Create, CreateFails, StartResource,
           StartResourceFails, CheckSucceeds, CheckFails, RolledBack
  <2>3. CASE Stopping
    <3>1. OwnerLeft' < OwnerLeft /\ ProbesLeft' = ProbesLeft
          BY <1>1, <2>3, OwnerNearer
    <3>2. InShutdown' \/ pc' = "down"
          BY <1>1, <2>3, OwnerNearer
    <3>3. OwnerLeft' + ProbesLeft' \in Nat /\ OwnerLeft' + ProbesLeft' < OwnerLeft + ProbesLeft
      <4>1. OwnerLeft' + ProbesLeft \in Nat /\ OwnerLeft' + ProbesLeft < OwnerLeft + ProbesLeft
            BY <2>1, <3>1, LessInFirst
      <4> QED BY <3>1, <4>1
    <3> QED BY <2>0, <3>2, <3>3
  <2>4. ASSUME NEW p \in Probe, Refreshing(p)
        PROVE  /\ StepsLeft' \in Nat /\ StepsLeft' < StepsLeft
               /\ InShutdown' \/ pc' = "down"
    <3>1. pc' = pc /\ OwnerLeft' = OwnerLeft /\ ProbesLeft' < ProbesLeft
          BY <1>1, <2>4, ProbesNearer
    <3>2. InShutdown'
          BY <1>1, <3>1 DEF InShutdown
    <3>3. OwnerLeft' + ProbesLeft' \in Nat /\ OwnerLeft' + ProbesLeft' < OwnerLeft + ProbesLeft
          BY <2>1, <3>1, LessInSecond
    <3> QED BY <2>0, <3>2, <3>3
  <2> QED BY <1>1, <2>2, <2>3, <2>4 DEF Next
<1>2. Inv /\ WaitingIsFinite /\ LeftIsNumber /\ LeftIsNumber' /\ [Next]_vars
        => [ InShutdown => /\ StepsLeft' \in Nat /\ StepsLeft' < StepsLeft
                           /\ InShutdown' \/ pc' = "down" ]_vars
      BY <1>1
<1> QED BY <1>2, Invariance, WaitingInvariant, LeftInvariant, PTL DEF Spec, ShutdownRunsDown

\* And there is always one to take: the lock is free, or with the owner, or with a
\* probe in the middle of its visits; nobody holds it who does nothing.
THEOREM ShutdownIsNeverStuck == Spec => []ShutdownCanGoOn
<1>1. Inv => ShutdownCanGoOn
      BY ProbesAreOthers DEF Inv, Shapes, OwnerAgrees, OwnerBusy, InShutdown,
         ShutdownCanGoOn, Resource
<1> QED BY <1>1, Invariance, PTL
================================================================================
