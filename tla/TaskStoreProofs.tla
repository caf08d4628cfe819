--------------------------- MODULE TaskStoreProofs ---------------------------
(***************************************************************************)
(* Proofs about TaskStore, for every value of its constants.               *)
(***************************************************************************)
EXTENDS TaskStore, TLAPS

--------------------------------------------------------------------------------
(* Dictionaries                                                               *)

\* dict[key] = value changes what is stored under key, and nothing else.
LEMMA PutReads ==
    ASSUME NEW f, NEW k, NEW v
    PROVE  /\ DOMAIN Put(f, k, v) = DOMAIN f \cup {k}
           /\ Put(f, k, v)[k] = v
           /\ \A x \in DOMAIN f : x # k => Put(f, k, v)[x] = f[x]
BY DEF Put

\* dict[key] = value keeps a dictionary well typed.
LEMMA PutDict ==
    ASSUME NEW K, NEW V, NEW f, IsDict(f, K, V), NEW k \in K, NEW v \in V
    PROVE  IsDict(Put(f, k, v), K, V)
BY DEF IsDict, Put

\* So does dict[key] = value for a key that is there.
LEMMA ExceptDict ==
    ASSUME NEW K, NEW V, NEW f, IsDict(f, K, V), NEW k \in DOMAIN f, NEW v \in V
    PROVE  IsDict([f EXCEPT ![k] = v], K, V)
BY DEF IsDict

\* What is stored under a key has the type of the dictionary's values.
LEMMA ReadDict ==
    ASSUME NEW K, NEW V, NEW f, IsDict(f, K, V), NEW k \in DOMAIN f
    PROVE  f[k] \in V /\ k \in K
BY DEF IsDict

--------------------------------------------------------------------------------
(* The log                                                                    *)

\* The largest element of a set of integers is the one no element exceeds.
LEMMA MaxIs ==
    ASSUME NEW S \in SUBSET Int, NEW m \in S, \A x \in S : x <= m
    PROVE  Max(S) = m
<1>1. m \in S /\ \A y \in S : m >= y
  OBVIOUS
<1>2. \A x \in S : (\A y \in S : x >= y) => x = m
  OBVIOUS
<1>3. QED
  BY <1>1, <1>2, Zenon DEF Max

\* The dictionaries speak of the same tasks, and each task has a last event:
\* what keeps max(...) in the repository from raising on an empty log.
KeysAgree ==
    /\ DOMAIN projections = DOMAIN tasks
    /\ \A i \in DOMAIN events : events[i].task \in DOMAIN tasks
    /\ \A a \in DOMAIN approvals : approvals[a].task \in DOMAIN tasks
    /\ \A t \in DOMAIN tasks :
         \E i \in DOMAIN events :
            /\ events[i].task = t
            /\ \A j \in DOMAIN events :
                 events[j].task = t => events[j].sequence <= events[i].sequence

LogInv == TypeOK /\ KeysAgree /\ SequencesContiguous

\* Every event has a number.
LEMMA EventsAreNumbered ==
    ASSUME LogInv
    PROVE  \A i \in DOMAIN events : events[i].sequence \in Nat \ {0}
<1>1. events \in Seq(EventRecord)
  BY DEF LogInv, TypeOK
<1>2. \A j \in DOMAIN events : events[j] \in EventRecord
  BY <1>1
<1> QED
  BY <1>2 DEF EventRecord

\* max(...) + 1 is one more than the number of the task's last event.
LEMMA NextIsLastPlusOne ==
    ASSUME LogInv, NEW t \in DOMAIN tasks
    PROVE  /\ NextSequence(t) \in Nat /\ NextSequence(t) >= 2
           /\ \A i \in DOMAIN events :
                events[i].task = t => events[i].sequence < NextSequence(t)
           /\ \E i \in DOMAIN events :
                events[i].task = t /\ events[i].sequence = NextSequence(t) - 1
<1> DEFINE here == {j \in DOMAIN events : events[j].task = t}
           S == {events[i].sequence : i \in here}
<1>1. PICK i \in DOMAIN events :
        /\ events[i].task = t
        /\ \A j \in DOMAIN events :
             events[j].task = t => events[j].sequence <= events[i].sequence
  BY DEF LogInv, KeysAgree
<1>2. \A j \in DOMAIN events : events[j].sequence \in Nat \ {0}
  BY EventsAreNumbered
<1>3. /\ S \in SUBSET Int /\ events[i].sequence \in S
      /\ \A n \in S : n <= events[i].sequence
  BY <1>1, <1>2
<1>4. Max(S) = events[i].sequence
  <2> HIDE DEF S
  <2> QED  BY <1>3, MaxIs
<1>5. NextSequence(t) = events[i].sequence + 1
  BY <1>4 DEF NextSequence
<1> QED
  BY <1>1, <1>2, <1>5

\* Appending the next event of a task keeps the log contiguous and each task's
\* last event known.
LEMMA AppendKeepsLog ==
    ASSUME TypeOK, SequencesContiguous, NEW e \in EventRecord,
           events' = Append(events, e),
           \A i \in DOMAIN events :
              events[i].task = e.task => events[i].sequence < e.sequence,
           \/ e.sequence = 1
           \/ \E i \in DOMAIN events :
                events[i].task = e.task /\ events[i].sequence = e.sequence - 1
    PROVE  SequencesContiguous'
<1>1. /\ events \in Seq(EventRecord) /\ events' \in Seq(EventRecord)
      /\ Len(events') = Len(events) + 1
      /\ events'[Len(events) + 1] = e
      /\ \A i \in DOMAIN events : events'[i] = events[i]
      /\ DOMAIN events' = DOMAIN events \cup {Len(events) + 1}
      /\ DOMAIN events = 1 .. Len(events)
  BY DEF TypeOK
<1>2. SUFFICES ASSUME NEW i \in DOMAIN events'
               PROVE  /\ \A j \in DOMAIN events' :
                           (j < i /\ events'[j].task = events'[i].task)
                             => events'[j].sequence < events'[i].sequence
                      /\ \/ events'[i].sequence = 1
                         \/ \E j \in DOMAIN events' :
                              /\ events'[j].task = events'[i].task
                              /\ events'[j].sequence = events'[i].sequence - 1
  BY DEF SequencesContiguous
<1>3. CASE i \in DOMAIN events
  <2>1. \A j \in DOMAIN events' : j < i => j \in DOMAIN events
    BY <1>1, <1>3
  <2> QED
    BY <1>1, <1>3, <2>1 DEF SequencesContiguous
<1>4. CASE i = Len(events) + 1
  BY <1>1, <1>4
<1> QED
  BY <1>1, <1>3, <1>4

\* One commit: the event is typed and the next one of a known task, so the log
\* stays contiguous and typed, and that task's last event is the new one.
LEMMA CommitKeepsLog ==
    ASSUME LogInv, NEW t \in DOMAIN tasks, NEW type \in EventType,
           NEW a \in Approval \cup {None}, NEW d \in Decision \cup {None},
           events' = Append(events, Event(t, NextSequence(t), type, a, d)),
           UNCHANGED tasks, DOMAIN projections' = DOMAIN tasks,
           \A b \in DOMAIN approvals' : approvals'[b].task \in DOMAIN tasks
    PROVE  KeysAgree' /\ SequencesContiguous' /\ events' \in Seq(EventRecord)
<1> DEFINE e == Event(t, NextSequence(t), type, a, d)
<1>1. e \in EventRecord /\ e.task = t /\ e.sequence = NextSequence(t)
  <2>1. t \in Task
    BY ReadDict DEF LogInv, TypeOK, IsDict
  <2> QED
    BY <2>1, NextIsLastPlusOne DEF Event, EventRecord
<1>2. SequencesContiguous'
  <2> HIDE DEF e
  <2>1. events' = Append(events, e)
    BY DEF e
  <2> QED
    BY <1>1, <2>1, NextIsLastPlusOne, AppendKeepsLog DEF LogInv
<1>3. /\ events \in Seq(EventRecord) /\ events' \in Seq(EventRecord)
      /\ events'[Len(events) + 1] = e
      /\ \A i \in DOMAIN events : events'[i] = events[i]
      /\ DOMAIN events' = DOMAIN events \cup {Len(events) + 1}
  <2> HIDE DEF e
  <2>1. events' = Append(events, e) /\ events \in Seq(EventRecord)
    BY DEF e, LogInv, TypeOK
  <2> QED
    BY <1>1, <2>1
<1>4. KeysAgree'
  <2> HIDE DEF e
  <2>1. \A i \in DOMAIN events' : events'[i].task \in DOMAIN tasks
    BY <1>1, <1>3 DEF LogInv, KeysAgree
  <2>2. ASSUME NEW u \in DOMAIN tasks
        PROVE  \E i \in DOMAIN events' :
                 /\ events'[i].task = u
                 /\ \A j \in DOMAIN events' :
                      events'[j].task = u
                        => events'[j].sequence <= events'[i].sequence
    <3>1. CASE u = t
      <4>1. \A j \in DOMAIN events : events'[j].task = u
              => events'[j].sequence <= e.sequence
        BY <1>1, <1>3, <3>1, NextIsLastPlusOne, EventsAreNumbered DEF LogInv
      <4>2. e.sequence <= e.sequence
        BY <1>1, NextIsLastPlusOne
      <4>3. \A j \in DOMAIN events' : events'[j].task = u
              => events'[j].sequence <= events'[Len(events) + 1].sequence
        BY <1>3, <4>1, <4>2
      <4>4. Len(events) + 1 \in DOMAIN events' /\ events'[Len(events) + 1].task = u
        BY <1>1, <1>3, <3>1
      <4> QED
        BY <4>3, <4>4
    <3>2. CASE u # t
      BY <1>1, <1>3, <3>2 DEF LogInv, KeysAgree
    <3> QED
      BY <3>1, <3>2
  <2> QED
    BY <2>1, <2>2 DEF KeysAgree
<1> QED
  BY <1>2, <1>3, <1>4

--------------------------------------------------------------------------------
(* Types and the log of each task                                             *)

\* A service call that has committed is typed.
LEMMA ContinueTyped ==
    ASSUME TypeOK, NEW r \in Request, Continue(r)
    PROVE  call' \in [Request -> [stage : {"idle", "publish", "notify"},
                                  position : Nat]]
BY DEF TypeOK, Continue

LEMMA CommitTyped ==
    ASSUME TypeOK, NEW e \in EventRecord, Commit(e)
    PROVE  outbox' \in Seq(OutboxRecord) /\ events' = Append(events, e)
<1>1. WakeUp(e) \in OutboxRecord
  BY DEF EventRecord, OutboxRecord, WakeUp
<1> QED
  BY <1>1 DEF TypeOK, Commit

\* The initial store is empty.
LEMMA InitLog == Init => LogInv
<1> SUFFICES ASSUME Init PROVE LogInv
  OBVIOUS
<1>1. \A K, V : IsDict(EmptyDict, K, V)
  BY DEF IsDict, EmptyDict
<1>2. DOMAIN EmptyDict = {}
  BY DEF EmptyDict
<1>3. TypeOK
  BY <1>1, BoundsAssumption DEF Init, TypeOK, Idle
<1>4. KeysAgree /\ SequencesContiguous
  BY <1>2 DEF Init, KeysAgree, SequencesContiguous
<1> QED
  BY <1>3, <1>4 DEF LogInv

\* Creating a task opens its log.
LEMMA CreateKeepsLog ==
    ASSUME LogInv, NEW r \in Request, NEW p \in Principal, NEW k \in Key,
           NEW x \in Hash, Create(r, p, k, x)
    PROVE  LogInv'
<1>1. PICK t \in Task :
         /\ t \notin DOMAIN tasks
         /\ tasks' = Put(tasks, t, [owner |-> p, key |-> k, hash |-> x])
         /\ projections' = Put(projections, t,
                               [status |-> "created", pending |-> None])
         /\ byKey' = Put(byKey, <<p, k>>, t)
         /\ Commit(Event(t, 1, "task.created", None, None))
  BY DEF Create, IndexTask
<1> DEFINE e == Event(t, 1, "task.created", None, None)
<1>2. e \in EventRecord /\ e.task = t /\ e.sequence = 1
  BY DEF Event, EventRecord, EventType
<1> HIDE DEF e
<1>3. Commit(e) /\ e \in EventRecord
  BY <1>1, <1>2 DEF e
<1>4. events' = Append(events, e) /\ outbox' \in Seq(OutboxRecord)
  BY <1>3, CommitTyped DEF LogInv
<1> DEFINE record == [owner |-> p, key |-> k, hash |-> x]
           shown == [status |-> "created", pending |-> None]
<1>5. record \in TaskRecord /\ shown \in ProjectionRecord
  BY DEF TaskRecord, ProjectionRecord, Status
<1>6. IsDict(tasks', Task, TaskRecord) /\ DOMAIN tasks' = DOMAIN tasks \cup {t}
  <2>1. IsDict(tasks, Task, TaskRecord) /\ tasks' = Put(tasks, t, record)
    BY <1>1 DEF LogInv, TypeOK
  <2> HIDE DEF record
  <2> QED
    BY <1>5, <2>1, PutDict, PutReads
<1>7. /\ IsDict(projections', Task, ProjectionRecord)
      /\ DOMAIN projections' = DOMAIN projections \cup {t}
  <2>1. /\ IsDict(projections, Task, ProjectionRecord)
        /\ projections' = Put(projections, t, shown)
    BY <1>1 DEF LogInv, TypeOK
  <2> HIDE DEF shown
  <2> QED
    BY <1>5, <2>1, PutDict, PutReads
<1>8. IsDict(byKey', Principal \X Key, Task)
  BY <1>1, PutDict DEF LogInv, TypeOK
<1>9. events \in Seq(EventRecord) /\ events' \in Seq(EventRecord)
  BY <1>3, <1>4 DEF LogInv, TypeOK
<1>10. /\ events'[Len(events) + 1] = e
       /\ \A i \in DOMAIN events : events'[i] = events[i]
       /\ DOMAIN events' = DOMAIN events \cup {Len(events) + 1}
  BY <1>3, <1>4, <1>9
<1>11. \A i \in DOMAIN events : events[i].task # t
  BY <1>1 DEF LogInv, KeysAgree
<1>12. TypeOK'
  BY <1>4, <1>6, <1>7, <1>8, <1>9, ContinueTyped DEF LogInv, TypeOK, Create
<1>13. SequencesContiguous'
  BY <1>2, <1>3, <1>4, <1>11, AppendKeepsLog DEF LogInv
<1>14. \A i \in DOMAIN events' : events'[i].task \in DOMAIN tasks'
  BY <1>2, <1>6, <1>10 DEF LogInv, KeysAgree
<1>15. \A u \in DOMAIN tasks' :
         \E i \in DOMAIN events' :
            /\ events'[i].task = u
            /\ \A j \in DOMAIN events' :
                 events'[j].task = u => events'[j].sequence <= events'[i].sequence
  BY <1>2, <1>6, <1>10, <1>11 DEF LogInv, KeysAgree
<1>16. KeysAgree'
  BY <1>6, <1>7, <1>14, <1>15 DEF LogInv, KeysAgree, Create
<1> QED
  BY <1>12, <1>13, <1>16 DEF LogInv

LEMMA AppendNat ==
    ASSUME NEW s \in Seq(Nat), NEW n \in Nat
    PROVE  Append(s, n) \in Seq(Nat)
OBVIOUS

\* A commit for a known task: its event and outbox record are typed.
LEMMA CommitNext ==
    ASSUME LogInv, NEW t \in DOMAIN tasks, NEW type \in EventType,
           NEW a \in Approval \cup {None}, NEW d \in Decision \cup {None},
           Commit(Event(t, NextSequence(t), type, a, d))
    PROVE  /\ outbox' \in Seq(OutboxRecord)
           /\ events' = Append(events, Event(t, NextSequence(t), type, a, d))
           /\ Event(t, NextSequence(t), type, a, d) \in EventRecord
<1> DEFINE e == Event(t, NextSequence(t), type, a, d)
<1>1. t \in Task
  BY DEF LogInv, TypeOK, IsDict
<1>2. e \in EventRecord
  BY <1>1, NextIsLastPlusOne DEF Event, EventRecord
<1> HIDE DEF e
<1>3. Commit(e)
  BY DEF e
<1>4. outbox' \in Seq(OutboxRecord) /\ events' = Append(events, e)
  BY <1>2, <1>3, CommitTyped DEF LogInv
<1> QED
  BY <1>2, <1>4 DEF e

\* Cancelling appends the next event of a known task.
LEMMA CancelKeepsLog ==
    ASSUME LogInv, NEW r \in Request, NEW p \in Principal, NEW t \in Task,
           Cancel(r, p, t)
    PROVE  LogInv'
<1> DEFINE shown == [projections[t] EXCEPT !.status = "cancellation_requested"]
<1>1. t \in DOMAIN tasks /\ t \in DOMAIN projections
  BY DEF Cancel, LogInv, KeysAgree
<1>2. "task.cancellation_requested" \in EventType
  BY DEF EventType
<1>3. /\ outbox' \in Seq(OutboxRecord)
      /\ events' = Append(events, Event(t, NextSequence(t),
                            "task.cancellation_requested", None, None))
  BY <1>1, <1>2, CommitNext DEF Cancel
<1>4. shown \in ProjectionRecord
  <2>1. projections[t] \in ProjectionRecord
    BY <1>1, ReadDict DEF LogInv, TypeOK
  <2> QED
    BY <2>1 DEF ProjectionRecord, Status
<1>5. projections' = [projections EXCEPT ![t] = shown]
  BY DEF Cancel
<1>6. IsDict(projections', Task, ProjectionRecord)
  <2>1. IsDict(projections, Task, ProjectionRecord)
    BY DEF LogInv, TypeOK
  <2> HIDE DEF shown
  <2> QED
    BY <1>1, <1>4, <1>5, <2>1, ExceptDict
<1>7. DOMAIN projections' = DOMAIN tasks
  BY <1>5 DEF LogInv, KeysAgree
<1>8. KeysAgree' /\ SequencesContiguous' /\ events' \in Seq(EventRecord)
  BY <1>1, <1>2, <1>3, <1>7, CommitKeepsLog DEF Cancel, LogInv, KeysAgree
<1>9. TypeOK'
  BY <1>3, <1>6, <1>8, ContinueTyped
     DEF LogInv, TypeOK, Cancel, RememberCancellation
<1> QED
  BY <1>8, <1>9 DEF LogInv

\* Deciding an approval appends the next event of the approval's task.
LEMMA DecideKeepsLog ==
    ASSUME LogInv, NEW r \in Request, NEW p \in Principal, NEW a \in Approval,
           NEW g \in Digest, NEW d \in Decision, Decide(r, p, a, g, d)
    PROVE  LogInv'
<1> DEFINE t == approvals[a].task
           shown == [status |-> IF d = "approve" THEN "executing" ELSE "denied",
                     pending |-> None]
           spent == [approvals[a] EXCEPT !.status =
                       IF d = "approve" THEN "approved" ELSE "denied"]
<1>1. a \in DOMAIN approvals /\ t \in DOMAIN tasks /\ t \in DOMAIN projections
  BY DEF Decide, LogInv, KeysAgree
<1>2. approvals[a] \in ApprovalRecord
  BY <1>1, ReadDict DEF LogInv, TypeOK
<1>3. spent \in ApprovalRecord /\ spent.task = t
  BY <1>2 DEF ApprovalRecord
<1>4. shown \in ProjectionRecord
  BY DEF ProjectionRecord, Status, Terminal
<1>5. /\ projections' = [projections EXCEPT ![t] = shown]
      /\ approvals' = [approvals EXCEPT ![a] = spent]
      /\ Commit(Event(t, NextSequence(t), "approval.decided", a, d))
  BY DEF Decide, Resolve, Consume
<1>6. /\ IsDict(projections, Task, ProjectionRecord)
      /\ IsDict(approvals, Approval, ApprovalRecord)
  BY DEF LogInv, TypeOK
<1> HIDE DEF t, shown, spent
<1>7. IsDict(projections', Task, ProjectionRecord)
  BY <1>1, <1>4, <1>5, <1>6, ExceptDict
<1>8. IsDict(approvals', Approval, ApprovalRecord)
  BY <1>1, <1>3, <1>5, <1>6, ExceptDict
<1>9. "approval.decided" \in EventType /\ d \in Decision \cup {None}
  BY DEF EventType
<1>10. /\ outbox' \in Seq(OutboxRecord)
       /\ events' = Append(events,
                           Event(t, NextSequence(t), "approval.decided", a, d))
  BY <1>1, <1>5, <1>9, CommitNext
<1>11. /\ DOMAIN projections' = DOMAIN tasks
       /\ \A b \in DOMAIN approvals' : approvals'[b].task \in DOMAIN tasks
  BY <1>1, <1>3, <1>5 DEF LogInv, KeysAgree
<1>12. KeysAgree' /\ SequencesContiguous' /\ events' \in Seq(EventRecord)
  BY <1>1, <1>9, <1>10, <1>11, CommitKeepsLog DEF Decide
<1>13. TypeOK'
  BY <1>7, <1>8, <1>10, <1>12, ContinueTyped DEF LogInv, TypeOK, Decide
<1> QED
  BY <1>12, <1>13 DEF LogInv

\* The workflow's writes leave the log alone or append its own event to it.
LEMMA WorkflowWriteKeepsLog ==
    ASSUME LogInv, NEW t \in Task, NEW s \in Status, WorkflowWrite(t, s)
    PROVE  LogInv'
<1> DEFINE shown == [status |-> s, pending |-> None]
<1>1. /\ shown \in ProjectionRecord
      /\ t \in DOMAIN projections
      /\ projections' = [projections EXCEPT ![t] = shown]
      /\ IsDict(projections, Task, ProjectionRecord)
  BY DEF ProjectionRecord, WorkflowWrite, LogInv, KeysAgree, TypeOK
<1> HIDE DEF shown
<1>2. IsDict(projections', Task, ProjectionRecord)
  BY <1>1, ExceptDict
<1>3. DOMAIN projections' = DOMAIN projections
  BY <1>1
<1>4. TypeOK'
  BY <1>2 DEF LogInv, TypeOK, WorkflowWrite
<1>5. KeysAgree' /\ SequencesContiguous'
  BY <1>3 DEF LogInv, KeysAgree, SequencesContiguous, WorkflowWrite
<1> QED
  BY <1>4, <1>5 DEF LogInv

LEMMA WorkflowEventKeepsLog ==
    ASSUME LogInv, NEW t \in Task, WorkflowEvent(t)
    PROVE  LogInv'
<1>1. "workflow" \in EventType /\ t \in DOMAIN tasks
  BY DEF EventType, WorkflowEvent
<1>2. KeysAgree' /\ SequencesContiguous' /\ events' \in Seq(EventRecord)
  BY <1>1, CommitKeepsLog DEF WorkflowEvent, LogInv, KeysAgree
<1>3. TypeOK'
  BY <1>2 DEF LogInv, TypeOK, WorkflowEvent
<1> QED
  BY <1>2, <1>3 DEF LogInv

LEMMA OpenApprovalKeepsLog ==
    ASSUME LogInv, NEW t \in Task, NEW a \in Approval, NEW g \in Digest,
           NEW expires \in 1 .. MaxTime, OpenApproval(t, a, g, expires)
    PROVE  LogInv'
<1> DEFINE asked == [task |-> t, owner |-> tasks[t].owner, digest |-> g,
                     expires |-> expires, status |-> "pending"]
           shown == [status |-> "awaiting_approval", pending |-> a]
<1>1. t \in DOMAIN projections /\ t \in DOMAIN tasks
  BY DEF OpenApproval, LogInv, KeysAgree
<1>2. tasks[t] \in TaskRecord
  BY <1>1, ReadDict DEF LogInv, TypeOK
<1>3. asked \in ApprovalRecord /\ asked.task = t /\ shown \in ProjectionRecord
  BY <1>2, BoundsAssumption
     DEF TaskRecord, ApprovalRecord, ProjectionRecord, Status
<1>4. /\ approvals' = Put(approvals, a, asked)
      /\ projections' = [projections EXCEPT ![t] = shown]
      /\ IsDict(projections, Task, ProjectionRecord)
      /\ IsDict(approvals, Approval, ApprovalRecord)
  BY DEF OpenApproval, LogInv, TypeOK
<1> HIDE DEF asked, shown
<1>5. IsDict(projections', Task, ProjectionRecord)
  BY <1>1, <1>3, <1>4, ExceptDict
<1>6. IsDict(approvals', Approval, ApprovalRecord)
  BY <1>3, <1>4, PutDict
<1>7. \A b \in DOMAIN approvals' : approvals'[b].task \in DOMAIN tasks
  <2>1. /\ DOMAIN approvals' = DOMAIN approvals \cup {a}
        /\ approvals'[a] = asked
        /\ \A b \in DOMAIN approvals : b # a => approvals'[b] = approvals[b]
    BY <1>4 DEF Put
  <2> QED
    BY <1>1, <1>3, <2>1 DEF LogInv, KeysAgree
<1>8. TypeOK'
  BY <1>5, <1>6 DEF LogInv, TypeOK, OpenApproval
<1>9. KeysAgree' /\ SequencesContiguous'
  BY <1>4, <1>7 DEF LogInv, KeysAgree, SequencesContiguous, OpenApproval
<1> QED
  BY <1>8, <1>9 DEF LogInv

\* Publishing, waking the workflow and the clock touch no part of the store.
LEMMA OtherStepsKeepLog ==
    ASSUME LogInv,
           \/ \E r \in Request : Publish(r) \/ Notify(r)
           \/ Tick
           \/ UNCHANGED vars
    PROVE  LogInv'
<1>1. UNCHANGED store
  BY DEF Publish, Notify, Tick, vars, store
<1>2. KeysAgree' /\ SequencesContiguous'
  BY <1>1 DEF LogInv, KeysAgree, SequencesContiguous, store
<1>3. TypeOK'
  <2>1. ASSUME NEW r \in Request, Publish(r) PROVE TypeOK'
    <3>1. /\ call[r].position \in Nat /\ published \in Seq(Nat)
          /\ call' \in [Request -> [stage : {"idle", "publish", "notify"},
                                    position : Nat]]
      BY <2>1 DEF LogInv, TypeOK, Publish
    <3>2. \/ published' = Append(published, call[r].position)
          \/ published' = published
      BY <2>1 DEF Publish
    <3>3. published' \in Seq(Nat)
      BY <3>1, <3>2, AppendNat
    <3> QED
      BY <1>1, <2>1, <3>1, <3>3 DEF LogInv, TypeOK, Publish, store
  <2>2. ASSUME NEW r \in Request, Notify(r) PROVE TypeOK'
    BY <1>1, <2>2 DEF LogInv, TypeOK, Notify, store, Idle
  <2>3. CASE Tick
    BY <1>1, <2>3, BoundsAssumption DEF LogInv, TypeOK, Tick, store
  <2>4. CASE UNCHANGED vars
    BY <1>1, <2>4 DEF LogInv, TypeOK, vars, store
  <2> QED
    BY <2>1, <2>2, <2>3, <2>4
<1> QED
  BY <1>2, <1>3 DEF LogInv

LEMMA NextKeepsLog == LogInv /\ [Next]_vars => LogInv'
<1> SUFFICES ASSUME LogInv, [Next]_vars PROVE LogInv'
  OBVIOUS
<1>1. ASSUME NEW r \in Request, ServiceCall(r) PROVE LogInv'
  BY <1>1, CreateKeepsLog, CancelKeepsLog, DecideKeepsLog, OtherStepsKeepLog
     DEF ServiceCall, ReplayCreate, ReplayCancel, RejectDecide
<1>2. CASE Workflow
  BY <1>2, WorkflowWriteKeepsLog, WorkflowEventKeepsLog, OpenApprovalKeepsLog
     DEF Workflow
<1> QED
  BY <1>1, <1>2, OtherStepsKeepLog DEF Next

\* The types hold, the dictionaries agree, and the log of every task is
\* 1, 2, 3, ...: the inductive invariant of the event log.
THEOREM LogInvariant == Spec => []LogInv
  BY InitLog, NextKeepsLog, PTL DEF Spec

\* The store keeps the types of its records and dictionaries.
THEOREM TypeCorrect == Spec => []TypeOK
<1>1. LogInv => TypeOK
  BY DEF LogInv
<1> QED
  BY <1>1, LogInvariant, PTL

\* However commits interleave, each task's events are numbered 1, 2, 3, ...
THEOREM SequencesAreContiguous == Spec => []SequencesContiguous
<1>1. LogInv => SequencesContiguous
  BY DEF LogInv
<1> QED
  BY <1>1, LogInvariant, PTL

================================================================================
