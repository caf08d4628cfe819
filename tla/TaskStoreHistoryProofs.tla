------------------------- MODULE TaskStoreHistoryProofs -------------------------
(***************************************************************************)
(* Proofs about what TaskStore records, for every value of its constants:  *)
(* keys, cancellations, decisions, wake-ups, pages and publications, and   *)
(* that the store implements TaskLedger.                                   *)
(***************************************************************************)
EXTENDS TaskStoreProofs, FiniteSetTheorems

--------------------------------------------------------------------------------
(* What one step does to the log                                              *)

\* What is read from a log that e was appended to.
LEMMA AppendReads ==
    ASSUME NEW S, NEW s \in Seq(S), NEW e \in S
    PROVE  /\ DOMAIN s = 1 .. Len(s) /\ Len(s) \in Nat
           /\ DOMAIN Append(s, e) = DOMAIN s \cup {Len(s) + 1}
           /\ Len(s) + 1 \notin DOMAIN s
           /\ Append(s, e)[Len(s) + 1] = e
           /\ \A i \in DOMAIN s : Append(s, e)[i] = s[i]
           /\ SubSeq(Append(s, e), 1, Len(s)) = s
           /\ Len(Append(s, e)) = Len(s) + 1
OBVIOUS

LEMMA SubSeqOfItself ==
    ASSUME NEW S, NEW s \in Seq(S)
    PROVE  SubSeq(s, 1, Len(s)) = s
OBVIOUS

\* e is the next event of its task and comes with its wake-up.
Grows(e) ==
    /\ e \in EventRecord
    /\ events' = Append(events, e)
    /\ outbox' = IF e.type = "workflow" THEN outbox ELSE Append(outbox, WakeUp(e))
    /\ \A i \in DOMAIN events :
           events[i].task = e.task => events[i].sequence < e.sequence
    /\ \/ e.sequence = 1
       \/ \E i \in DOMAIN events :
              events[i].task = e.task /\ events[i].sequence = e.sequence - 1
    /\ e.type = "task.created" <=> e.sequence = 1

LEMMA CreateGrows ==
    ASSUME LogInv, NEW r, NEW p \in Principal, NEW k \in Key, NEW x \in Hash,
           Create(r, p, k, x)
    PROVE  \E t \in Task \ DOMAIN tasks :
               Grows(Event(t, 1, "task.created", None, None))
<1>1. PICK t \in Task \ DOMAIN tasks : Commit(Event(t, 1, "task.created", None, None))
  BY DEF Create
<1> DEFINE e == Event(t, 1, "task.created", None, None)
<1>2. e \in EventRecord /\ e.task = t /\ e.sequence = 1 /\ e.type = "task.created"
  BY DEF Event, EventRecord, EventType
<1> HIDE DEF e
<1>3. \A i \in DOMAIN events : events[i].task # t
  BY <1>1 DEF LogInv, KeysAgree
<1>4. Grows(e)
  BY <1>1, <1>2, <1>3 DEF Grows, Commit, e
<1> QED  BY <1>1, <1>4 DEF e

LEMMA NextGrows ==
    ASSUME LogInv, NEW t \in DOMAIN tasks, NEW type \in EventType \ {"task.created"},
           NEW a \in Approval \cup {None}, NEW d \in Decision \cup {None},
           events' = Append(events, Event(t, NextSequence(t), type, a, d)),
           outbox' = IF type = "workflow" THEN outbox
                     ELSE Append(outbox, WakeUp(Event(t, NextSequence(t), type, a, d)))
    PROVE  Grows(Event(t, NextSequence(t), type, a, d))
<1> DEFINE e == Event(t, NextSequence(t), type, a, d)
<1>1. t \in Task
  BY DEF LogInv, TypeOK, IsDict
<1>2. /\ NextSequence(t) \in Nat /\ NextSequence(t) >= 2
      /\ \A i \in DOMAIN events :
           events[i].task = t => events[i].sequence < NextSequence(t)
      /\ \E i \in DOMAIN events :
           events[i].task = t /\ events[i].sequence = NextSequence(t) - 1
  BY NextIsLastPlusOne
<1>3. e \in EventRecord /\ e.task = t /\ e.sequence = NextSequence(t) /\ e.type = type
  BY <1>1, <1>2 DEF Event, EventRecord
<1> HIDE DEF e
<1>4. /\ events' = Append(events, e)
      /\ outbox' = IF e.type = "workflow" THEN outbox ELSE Append(outbox, WakeUp(e))
  BY <1>3 DEF e
<1>5. Grows(e)
  BY <1>2, <1>3, <1>4 DEF Grows
<1> QED  BY <1>5 DEF e

LEMMA CancelGrows ==
    ASSUME LogInv, NEW r, NEW p, NEW t \in Task, Cancel(r, p, t)
    PROVE  /\ t \in DOMAIN tasks
           /\ Grows(Event(t, NextSequence(t), "task.cancellation_requested", None, None))
<1>1. t \in DOMAIN tasks
  BY DEF Cancel, LogInv, KeysAgree
<1> QED  BY <1>1, NextGrows DEF Cancel, Commit, EventType

LEMMA DecideGrows ==
    ASSUME LogInv, NEW r, NEW p, NEW a \in Approval, NEW g, NEW d \in Decision,
           Decide(r, p, a, g, d)
    PROVE  LET t == approvals[a].task
           IN  /\ t \in DOMAIN tasks
               /\ Grows(Event(t, NextSequence(t), "approval.decided", a, d))
<1>1. approvals[a].task \in DOMAIN tasks
  BY DEF Decide, LogInv, KeysAgree
<1> QED  BY <1>1, NextGrows DEF Decide, Commit, EventType

LEMMA EventGrows ==
    ASSUME LogInv, NEW t \in Task, WorkflowEvent(t)
    PROVE  Grows(Event(t, NextSequence(t), "workflow", None, None))
BY NextGrows DEF WorkflowEvent, EventType

\* The steps that leave the log and its wake-ups alone.
Quiet ==
    \/ \E r \in Request : Publish(r) \/ Notify(r)
    \/ \E t \in Task, s \in Status : WorkflowWrite(t, s)
    \/ \E t \in Task, a \in Approval, g \in Digest, expires \in 1 .. MaxTime :
           OpenApproval(t, a, g, expires)
    \/ Tick
    \/ UNCHANGED vars

LEMMA QuietKeepsLog == Quiet => UNCHANGED <<events, outbox>>
BY DEF Quiet, Publish, Notify, WorkflowWrite, OpenApproval, Tick, vars, store

\* Every kind of step, for the proofs that go through them.
Step ==
    \/ \E r \in Request, p \in Principal, k \in Key, x \in Hash : Create(r, p, k, x)
    \/ \E r \in Request, p \in Principal, t \in Task : Cancel(r, p, t)
    \/ \E r \in Request, p \in Principal, a \in Approval, g \in Digest, d \in Decision :
           Decide(r, p, a, g, d)
    \/ \E t \in Task : WorkflowEvent(t)
    \/ Quiet

LEMMA NextIsStep == [Next]_vars => Step
<1>1. ASSUME NEW r \in Request, ServiceCall(r)
      PROVE  Step
  BY <1>1 DEF ServiceCall, ReplayCreate, ReplayCancel, RejectDecide, Step, Quiet
<1> QED  BY <1>1 DEF Next, Workflow, Step, Quiet

LEMMA LogGrows ==
    ASSUME LogInv, Step
    PROVE  (\E e : Grows(e)) \/ UNCHANGED <<events, outbox>>
BY CreateGrows, CancelGrows, DecideGrows, EventGrows, QuietKeepsLog DEF Step

--------------------------------------------------------------------------------
(* Idempotency keys                                                           *)

LEMMA ScopeStep ==
    ASSUME LogInv, OneTaskPerScope, Step
    PROVE  OneTaskPerScope'
<1>1. ASSUME NEW r \in Request, NEW p \in Principal, NEW k \in Key, NEW x \in Hash,
             Create(r, p, k, x)
      PROVE  OneTaskPerScope'
  <2>1. PICK t \in Task \ DOMAIN tasks :
            /\ tasks' = Put(tasks, t, [owner |-> p, key |-> k, hash |-> x])
            /\ byKey' = Put(byKey, <<p, k>>, t)
    BY <1>1 DEF Create, IndexTask
  <2>2. <<p, k>> \notin DOMAIN byKey
    BY <1>1 DEF Create
  <2>3. /\ DOMAIN tasks' = DOMAIN tasks \cup {t}
        /\ tasks'[t].owner = p /\ tasks'[t].key = k
        /\ \A u \in DOMAIN tasks : tasks'[u] = tasks[u]
    <3> DEFINE record == [owner |-> p, key |-> k, hash |-> x]
    <3>1. tasks' = Put(tasks, t, record) /\ t \notin DOMAIN tasks
      BY <2>1
    <3>2. record.owner = p /\ record.key = k
      OBVIOUS
    <3> HIDE DEF record
    <3>3. /\ DOMAIN tasks' = DOMAIN tasks \cup {t}
          /\ tasks'[t] = record
          /\ \A u \in DOMAIN tasks : u # t => tasks'[u] = tasks[u]
      BY <3>1 DEF Put
    <3> QED  BY <3>1, <3>2, <3>3
  <2>4. /\ DOMAIN byKey' = DOMAIN byKey \cup {<<p, k>>}
        /\ byKey'[<<p, k>>] = t
        /\ \A s \in DOMAIN byKey : byKey'[s] = byKey[s]
    <3>1. /\ DOMAIN byKey' = DOMAIN byKey \cup {<<p, k>>}
          /\ byKey'[<<p, k>>] = t
          /\ \A s \in DOMAIN byKey : s # <<p, k>> => byKey'[s] = byKey[s]
      BY <2>1 DEF Put
    <3> QED  BY <2>2, <3>1
  <2> QED  BY <2>2, <2>3, <2>4 DEF OneTaskPerScope
<1>2. ASSUME \/ \E r \in Request, p \in Principal, t \in Task : Cancel(r, p, t)
             \/ \E r \in Request, p \in Principal, a \in Approval, g \in Digest,
                   d \in Decision : Decide(r, p, a, g, d)
             \/ \E t \in Task : WorkflowEvent(t)
             \/ Quiet
      PROVE  OneTaskPerScope'
  <2>1. byKey' = byKey /\ tasks' = tasks
    BY <1>2 DEF Cancel, Decide, WorkflowEvent, Quiet, Publish, Notify, WorkflowWrite,
       OpenApproval, Tick, vars, store
  <2> QED  BY <2>1 DEF OneTaskPerScope
<1> QED  BY <1>1, <1>2 DEF Step

\* An idempotency scope belongs to one task, and a task to one scope, however
\* creations interleave (repository.py, create_or_get).
THEOREM OneTaskEach == Spec => []OneTaskPerScope
<1>1. Init => OneTaskPerScope
  BY DEF Init, OneTaskPerScope, EmptyDict
<1>2. LogInv /\ OneTaskPerScope /\ [Next]_vars => OneTaskPerScope'
  BY NextIsStep, ScopeStep
<1> QED  BY <1>1, <1>2, LogInvariant, PTL DEF Spec

--------------------------------------------------------------------------------
(* Wake-ups                                                                   *)

LEMMA OutboxStep ==
    ASSUME LogInv, OutboxMatchesEvents, Step
    PROVE  OutboxMatchesEvents'
<1>1. CASE UNCHANGED <<events, outbox>>
  BY <1>1 DEF OutboxMatchesEvents, Wakes
<1>2. ASSUME NEW e, Grows(e)
      PROVE  OutboxMatchesEvents'
  <2>1. /\ events \in Seq(EventRecord) /\ e \in EventRecord
        /\ events' = Append(events, e)
        /\ outbox \in Seq(OutboxRecord)
        /\ \A i \in DOMAIN events :
               events[i].task = e.task => events[i].sequence < e.sequence
    BY <1>2 DEF Grows, LogInv, TypeOK
  <2>2. /\ DOMAIN events' = DOMAIN events \cup {Len(events) + 1}
        /\ events'[Len(events) + 1] = e
        /\ \A i \in DOMAIN events : events'[i] = events[i]
    BY <2>1, AppendReads
  <2>3. CASE e.type = "workflow"
    <3>1. outbox' = outbox
      BY <1>2, <2>3 DEF Grows
    <3> QED  BY <2>2, <2>3, <3>1 DEF OutboxMatchesEvents, Wakes
  <2>4. CASE e.type # "workflow"
    <3>1. outbox' = Append(outbox, WakeUp(e)) /\ WakeUp(e) \in OutboxRecord
      BY <1>2, <2>1, <2>4 DEF Grows, WakeUp, EventRecord, OutboxRecord
    <3>2. /\ DOMAIN outbox' = DOMAIN outbox \cup {Len(outbox) + 1}
          /\ outbox'[Len(outbox) + 1] = WakeUp(e)
          /\ \A k \in DOMAIN outbox : outbox'[k] = outbox[k]
      BY <2>1, <3>1, AppendReads
    <3>3. WakeUp(e).task = e.task /\ WakeUp(e).sequence = e.sequence
          /\ WakeUp(e).type = e.type
      BY DEF WakeUp
    <3>4. \A k \in DOMAIN outbox :
              ~ (outbox[k].task = e.task /\ outbox[k].sequence = e.sequence)
      <4>1. e.sequence \in Nat
        BY <2>1 DEF EventRecord
      <4> QED  BY <2>1, <4>1 DEF OutboxMatchesEvents
    <3>5. (\A i \in DOMAIN events : Wakes(i) =>
              \E k \in DOMAIN outbox :
                 /\ outbox[k].task = events[i].task
                 /\ outbox[k].sequence = events[i].sequence
                 /\ outbox[k].type = events[i].type)'
      BY <2>2, <3>2, <3>3 DEF OutboxMatchesEvents, Wakes
    <3>6. (\A k \in DOMAIN outbox :
              \E i \in DOMAIN events :
                 /\ Wakes(i)
                 /\ outbox[k].task = events[i].task
                 /\ outbox[k].sequence = events[i].sequence
                 /\ outbox[k].type = events[i].type)'
      BY <2>2, <2>4, <3>2, <3>3 DEF OutboxMatchesEvents, Wakes
    <3>7. (\A k, l \in DOMAIN outbox :
              (outbox[k].task = outbox[l].task /\ outbox[k].sequence = outbox[l].sequence)
                 => k = l)'
      BY <3>2, <3>3, <3>4 DEF OutboxMatchesEvents
    <3> QED  BY <3>5, <3>6, <3>7 DEF OutboxMatchesEvents
  <2> QED  BY <2>3, <2>4
<1> QED  BY <1>1, <1>2, LogGrows

\* Every event that must wake the workflow has one outbox record and no record is
\* without its event: both are appended in one commit (repository.py).
THEOREM OutboxIsExact == Spec => []OutboxMatchesEvents
<1>1. Init => OutboxMatchesEvents
  BY DEF Init, OutboxMatchesEvents
<1>2. LogInv /\ OutboxMatchesEvents /\ [Next]_vars => OutboxMatchesEvents'
  BY NextIsStep, OutboxStep
<1> QED  BY <1>1, <1>2, LogInvariant, PTL DEF Spec

--------------------------------------------------------------------------------
(* Cancellations and decisions                                                *)

\* The log after a step: nothing new, or e at its end.
LEMMA GrownReads ==
    ASSUME LogInv, NEW e, Grows(e)
    PROVE  /\ DOMAIN events' = DOMAIN events \cup {Len(events) + 1}
           /\ Len(events) + 1 \notin DOMAIN events
           /\ events'[Len(events) + 1] = e
           /\ \A i \in DOMAIN events : events'[i] = events[i]
<1>1. events \in Seq(EventRecord) /\ e \in EventRecord /\ events' = Append(events, e)
  BY DEF Grows, LogInv, TypeOK
<1> QED  BY <1>1, AppendReads

\* Who records a cancellation, and who a decision.
LEMMA EventFields ==
    ASSUME NEW t, NEW n, NEW type, NEW a, NEW d
    PROVE  /\ Event(t, n, type, a, d).task = t
           /\ Event(t, n, type, a, d).type = type
           /\ Event(t, n, type, a, d).approval = a
           /\ Event(t, n, type, a, d).decision = d
BY DEF Event

LEMMA CancelledStep ==
    ASSUME LogInv, CancelledOnce, Step
    PROVE  CancelledOnce'
<1>1. ASSUME NEW r \in Request, NEW p \in Principal, NEW t \in Task, Cancel(r, p, t)
      PROVE  CancelledOnce'
  <2>1. PICK e : /\ Grows(e)
                 /\ e.task = t
                 /\ e.type = "task.cancellation_requested"
    BY <1>1, CancelGrows, EventFields
  <2>2. t \notin cancellations /\ cancellations' = cancellations \cup {t}
    BY <1>1 DEF Cancel, RememberCancellation
  <2>3. /\ DOMAIN events' = DOMAIN events \cup {Len(events) + 1}
        /\ events'[Len(events) + 1] = e
        /\ \A i \in DOMAIN events : events'[i] = events[i]
    BY <2>1, GrownReads
  <2> QED  BY <2>1, <2>2, <2>3 DEF CancelledOnce
<1>2. ASSUME NEW e, Grows(e), e.type # "task.cancellation_requested",
             cancellations' = cancellations
      PROVE  CancelledOnce'
  <2>1. /\ DOMAIN events' = DOMAIN events \cup {Len(events) + 1}
        /\ events'[Len(events) + 1] = e
        /\ \A i \in DOMAIN events : events'[i] = events[i]
    BY <1>2, GrownReads
  <2> QED  BY <1>2, <2>1 DEF CancelledOnce
<1>3. ASSUME events' = events, cancellations' = cancellations
      PROVE  CancelledOnce'
  BY <1>3 DEF CancelledOnce
<1>4. CASE \E r \in Request, p \in Principal, k \in Key, x \in Hash : Create(r, p, k, x)
  <2>1. PICK e : Grows(e) /\ e.type = "task.created"
    BY <1>4, CreateGrows, EventFields
  <2>2. cancellations' = cancellations
    BY <1>4 DEF Create
  <2> QED  BY <1>2, <2>1, <2>2
<1>5. CASE \E r \in Request, p \in Principal, a \in Approval, g \in Digest,
              d \in Decision : Decide(r, p, a, g, d)
  <2>1. PICK e : Grows(e) /\ e.type = "approval.decided"
    BY <1>5, DecideGrows, EventFields
  <2>2. cancellations' = cancellations
    BY <1>5 DEF Decide
  <2> QED  BY <1>2, <2>1, <2>2
<1>6. CASE \E t \in Task : WorkflowEvent(t)
  <2>1. PICK e : Grows(e) /\ e.type = "workflow"
    BY <1>6, EventGrows, EventFields
  <2>2. cancellations' = cancellations
    BY <1>6 DEF WorkflowEvent
  <2> QED  BY <1>2, <2>1, <2>2
<1>7. CASE Quiet
  <2>1. cancellations' = cancellations
    BY <1>7 DEF Quiet, Publish, Notify, WorkflowWrite, OpenApproval, Tick, vars, store
  <2> QED  BY <1>3, <1>7, <2>1, QuietKeepsLog
<1> QED  BY <1>1, <1>4, <1>5, <1>6, <1>7 DEF Step

LEMMA DecidedStep ==
    ASSUME LogInv, DecidedOnce, Step
    PROVE  DecidedOnce'
<1>1. ASSUME NEW r \in Request, NEW p \in Principal, NEW a \in Approval, NEW g \in Digest,
             NEW d \in Decision, Decide(r, p, a, g, d)
      PROVE  DecidedOnce'
  <2>1. PICK e : /\ Grows(e)
                 /\ e.task = approvals[a].task
                 /\ e.type = "approval.decided"
                 /\ e.approval = a
                 /\ e.decision = d
    BY <1>1, DecideGrows, EventFields
  <2>2. /\ a \in DOMAIN approvals
        /\ approvals[a].status = "pending"
        /\ approvals' = [approvals EXCEPT ![a].status =
                            IF d = "approve" THEN "approved" ELSE "denied"]
    BY <1>1 DEF Decide, CanAnswer, Consume
  <2>3. approvals[a] \in ApprovalRecord
    BY <2>2, ReadDict DEF LogInv, TypeOK
  <2>4. /\ DOMAIN approvals' = DOMAIN approvals
        /\ approvals'[a].task = approvals[a].task
        /\ approvals'[a].status = IF d = "approve" THEN "approved" ELSE "denied"
        /\ \A b \in DOMAIN approvals : b # a => approvals'[b] = approvals[b]
    BY <2>2, <2>3 DEF ApprovalRecord
  <2>5. /\ DOMAIN events' = DOMAIN events \cup {Len(events) + 1}
        /\ events'[Len(events) + 1] = e
        /\ \A i \in DOMAIN events : events'[i] = events[i]
    BY <2>1, GrownReads
  <2>6. \A i \in DOMAIN events : events[i].type = "approval.decided"
                                    => events[i].approval # a
    BY <2>2 DEF DecidedOnce
  <2>7. (\A i, j \in DOMAIN events :
            /\ events[i].type = "approval.decided"
            /\ events[j].type = "approval.decided"
            /\ events[i].approval = events[j].approval
            => i = j)'
    BY <2>1, <2>5, <2>6 DEF DecidedOnce
  <2>8. (\A i \in DOMAIN events : events[i].type = "approval.decided" =>
            /\ events[i].approval \in DOMAIN approvals
            /\ approvals[events[i].approval].task = events[i].task
            /\ approvals[events[i].approval].status =
                 IF events[i].decision = "approve" THEN "approved" ELSE "denied")'
    <3>1. ASSUME NEW i \in DOMAIN events, events[i].type = "approval.decided"
          PROVE  LET b == events[i].approval
                 IN  b \in DOMAIN approvals /\ b # a /\ approvals'[b] = approvals[b]
      BY <2>4, <2>6, <3>1 DEF DecidedOnce
    <3> QED  BY <2>1, <2>2, <2>4, <2>5, <3>1 DEF DecidedOnce
  <2>9. (\A b \in DOMAIN approvals : approvals[b].status # "pending" =>
            \E i \in DOMAIN events :
               events[i].type = "approval.decided" /\ events[i].approval = b)'
    BY <2>1, <2>4, <2>5 DEF DecidedOnce
  <2> QED  BY <2>7, <2>8, <2>9 DEF DecidedOnce
<1>2. ASSUME NEW e, Grows(e), e.type # "approval.decided", approvals' = approvals
      PROVE  DecidedOnce'
  <2>1. /\ DOMAIN events' = DOMAIN events \cup {Len(events) + 1}
        /\ events'[Len(events) + 1] = e
        /\ \A i \in DOMAIN events : events'[i] = events[i]
    BY <1>2, GrownReads
  <2> QED  BY <1>2, <2>1 DEF DecidedOnce
<1>3. CASE \E r \in Request, p \in Principal, k \in Key, x \in Hash : Create(r, p, k, x)
  <2>1. PICK e : Grows(e) /\ e.type = "task.created"
    BY <1>3, CreateGrows, EventFields
  <2>2. approvals' = approvals
    BY <1>3 DEF Create
  <2> QED  BY <1>2, <2>1, <2>2
<1>4. CASE \E r \in Request, p \in Principal, t \in Task : Cancel(r, p, t)
  <2>1. PICK e : Grows(e) /\ e.type = "task.cancellation_requested"
    BY <1>4, CancelGrows, EventFields
  <2>2. approvals' = approvals
    BY <1>4 DEF Cancel
  <2> QED  BY <1>2, <2>1, <2>2
<1>5. CASE \E t \in Task : WorkflowEvent(t)
  <2>1. PICK e : Grows(e) /\ e.type = "workflow"
    BY <1>5, EventGrows, EventFields
  <2>2. approvals' = approvals
    BY <1>5 DEF WorkflowEvent
  <2> QED  BY <1>2, <2>1, <2>2
<1>6. ASSUME NEW t \in Task, NEW a \in Approval, NEW g \in Digest,
             NEW expires \in 1 .. MaxTime, OpenApproval(t, a, g, expires)
      PROVE  DecidedOnce'
  <2>1. events' = events /\ a \notin DOMAIN approvals
    BY <1>6 DEF OpenApproval
  <2>2. /\ DOMAIN approvals' = DOMAIN approvals \cup {a}
        /\ approvals'[a].status = "pending"
        /\ \A b \in DOMAIN approvals : approvals'[b] = approvals[b]
    BY <1>6 DEF OpenApproval, Put
  <2> QED  BY <2>1, <2>2 DEF DecidedOnce
<1>7. CASE Quiet
  <2>1. CASE approvals' = approvals
    BY <1>7, <2>1, QuietKeepsLog DEF DecidedOnce
  <2>2. CASE approvals' # approvals
    BY <1>6, <1>7, <2>2 DEF Quiet, Publish, Notify, WorkflowWrite, Tick, vars, store
  <2> QED  BY <2>1, <2>2
<1> QED  BY <1>1, <1>3, <1>4, <1>5, <1>7 DEF Step

\* A cancellation is recorded once per task and an approval decided once, with the
\* event its record tells of, however often clients repeat a call (repository.py,
\* request_cancellation and decide_approval).
THEOREM RetriesAreRecordedOnce == Spec => []RecordedOnce
<1>1. Init => RecordedOnce
  BY DEF Init, RecordedOnce, DecidedOnce, CancelledOnce, EmptyDict
<1>2. LogInv /\ RecordedOnce /\ [Next]_vars => RecordedOnce'
  BY NextIsStep, CancelledStep, DecidedStep DEF RecordedOnce
<1> QED  BY <1>1, <1>2, LogInvariant, PTL DEF Spec

--------------------------------------------------------------------------------
(* Pending approvals                                                          *)

LEMMA PendingStep ==
    ASSUME LogInv, PendingApprovalIsLive, Step
    PROVE  PendingApprovalIsLive'
<1>1. ASSUME NEW r \in Request, NEW p \in Principal, NEW k \in Key, NEW x \in Hash,
             Create(r, p, k, x)
      PROVE  PendingApprovalIsLive'
  <2>1. PICK t \in Task \ DOMAIN tasks :
            projections' = Put(projections, t, [status |-> "created", pending |-> None])
    BY <1>1 DEF Create
  <2>2. approvals' = approvals
    BY <1>1 DEF Create
  <2> DEFINE shown == [status |-> "created", pending |-> None]
  <2>3. shown.status = "created" /\ shown.pending = None
    OBVIOUS
  <2>4. /\ DOMAIN projections' = DOMAIN projections \cup {t}
        /\ projections'[t] = shown
        /\ \A u \in DOMAIN projections : u # t => projections'[u] = projections[u]
    <3>1. projections' = Put(projections, t, shown)
      BY <2>1
    <3> HIDE DEF shown
    <3> QED  BY <3>1 DEF Put
  <2> HIDE DEF shown
  <2> QED  BY <2>2, <2>3, <2>4 DEF PendingApprovalIsLive
<1>2. ASSUME NEW r \in Request, NEW p \in Principal, NEW t \in Task, Cancel(r, p, t)
      PROVE  PendingApprovalIsLive'
  <2>1. approvals' = approvals
    BY <1>2 DEF Cancel
  <2>2. /\ t \in DOMAIN projections
        /\ projections' = [projections EXCEPT ![t].status = "cancellation_requested"]
    BY <1>2 DEF Cancel
  <2>3. projections[t] \in ProjectionRecord
    BY <2>2, ReadDict DEF LogInv, TypeOK
  <2>4. /\ DOMAIN projections' = DOMAIN projections
        /\ projections'[t].status = "cancellation_requested"
        /\ projections'[t].pending = projections[t].pending
        /\ \A u \in DOMAIN projections : u # t => projections'[u] = projections[u]
    BY <2>2, <2>3 DEF ProjectionRecord
  <2> QED  BY <2>1, <2>2, <2>4 DEF PendingApprovalIsLive
<1>3. ASSUME NEW r \in Request, NEW p \in Principal, NEW a \in Approval, NEW g \in Digest,
             NEW d \in Decision, Decide(r, p, a, g, d)
      PROVE  PendingApprovalIsLive'
  <2> DEFINE t == approvals[a].task
             shown == [status |-> IF d = "approve" THEN "executing" ELSE "denied",
                       pending |-> None]
  <2>1. /\ a \in DOMAIN approvals
        /\ approvals' = [approvals EXCEPT ![a].status =
                            IF d = "approve" THEN "approved" ELSE "denied"]
        /\ projections' = [projections EXCEPT ![t] = shown]
    BY <1>3 DEF Decide, Consume, Resolve
  <2>2. shown.pending = None /\ shown.status # "awaiting_approval"
    OBVIOUS
  <2>3. /\ DOMAIN approvals' = DOMAIN approvals
        /\ \A b \in DOMAIN approvals : b # a => approvals'[b] = approvals[b]
    BY <2>1
  <2> HIDE DEF shown
  <2>4. /\ DOMAIN projections' = DOMAIN projections
        /\ \A u \in DOMAIN projections :
               projections'[u] = IF u = t THEN shown ELSE projections[u]
    BY <2>1
  <2>5. ASSUME NEW u \in DOMAIN projections, u # t, projections[u].pending # None
        PROVE  projections[u].pending # a
    BY <2>5 DEF PendingApprovalIsLive
  <2> QED  BY <2>2, <2>3, <2>4, <2>5 DEF PendingApprovalIsLive
<1>4. ASSUME NEW t \in Task, NEW s \in Status, WorkflowWrite(t, s)
      PROVE  PendingApprovalIsLive'
  <2> DEFINE shown == [status |-> s, pending |-> None]
  <2>1. projections' = [projections EXCEPT ![t] = shown] /\ approvals' = approvals
    BY <1>4 DEF WorkflowWrite
  <2>2. shown.pending = None /\ shown.status # "awaiting_approval"
    BY <1>4 DEF WorkflowWrite, WorkflowMoves
  <2> HIDE DEF shown
  <2>3. /\ DOMAIN projections' = DOMAIN projections
        /\ \A u \in DOMAIN projections :
               projections'[u] = IF u = t THEN shown ELSE projections[u]
    BY <2>1
  <2> QED  BY <2>1, <2>2, <2>3 DEF PendingApprovalIsLive
<1>5. ASSUME NEW t \in Task, NEW a \in Approval, NEW g \in Digest,
             NEW expires \in 1 .. MaxTime, OpenApproval(t, a, g, expires)
      PROVE  PendingApprovalIsLive'
  <2> DEFINE shown == [status |-> "awaiting_approval", pending |-> a]
  <2>1. /\ a \notin DOMAIN approvals
        /\ projections' = [projections EXCEPT ![t] = shown]
    BY <1>5 DEF OpenApproval
  <2>2. /\ DOMAIN approvals' = DOMAIN approvals \cup {a}
        /\ approvals'[a].task = t
        /\ approvals'[a].status = "pending"
        /\ \A b \in DOMAIN approvals : b # a => approvals'[b] = approvals[b]
    BY <1>5 DEF OpenApproval, Put
  <2>3. shown.pending = a /\ a # None
    BY NoneAssumption
  <2> HIDE DEF shown
  <2>4. /\ DOMAIN projections' = DOMAIN projections
        /\ \A u \in DOMAIN projections :
               projections'[u] = IF u = t THEN shown ELSE projections[u]
    BY <2>1
  <2> QED  BY <2>1, <2>2, <2>3, <2>4 DEF PendingApprovalIsLive
<1>6. ASSUME projections' = projections, approvals' = approvals
      PROVE  PendingApprovalIsLive'
  BY <1>6 DEF PendingApprovalIsLive
<1>7. CASE \/ \E t \in Task : WorkflowEvent(t)
           \/ \E r \in Request : Publish(r) \/ Notify(r)
           \/ Tick
           \/ UNCHANGED vars
  BY <1>6, <1>7 DEF WorkflowEvent, Publish, Notify, Tick, vars, store
<1> QED  BY <1>1, <1>2, <1>3, <1>4, <1>5, <1>7 DEF Step, Quiet

\* The approval a task shows can be answered, and a task that waits shows one
\* (repository.py, decide_approval and put_pending_approval_for_test).
THEOREM PendingIsLive == Spec => []PendingApprovalIsLive
<1>1. Init => PendingApprovalIsLive
  BY DEF Init, PendingApprovalIsLive, EmptyDict
<1>2. LogInv /\ PendingApprovalIsLive /\ [Next]_vars => PendingApprovalIsLive'
  BY NextIsStep, PendingStep
<1> QED  BY <1>1, <1>2, LogInvariant, PTL DEF Spec

--------------------------------------------------------------------------------
(* History                                                                    *)

\* What one step may not rewrite; HistoryIsImmutable says it of every step.
Kept ==
    /\ Len(events) <= Len(events') /\ SubSeq(events', 1, Len(events)) = events
    /\ Len(outbox) <= Len(outbox') /\ SubSeq(outbox', 1, Len(outbox)) = outbox
    /\ \A t \in DOMAIN tasks : t \in DOMAIN tasks' /\ tasks'[t] = tasks[t]
    /\ \A a \in DOMAIN approvals : approvals[a].status # "pending" =>
         a \in DOMAIN approvals' /\ approvals'[a] = approvals[a]

LEMMA KeptByStep ==
    ASSUME LogInv, Step
    PROVE  Kept
<1>0. events \in Seq(EventRecord) /\ outbox \in Seq(OutboxRecord)
  BY DEF LogInv, TypeOK
<1>1. /\ Len(events) <= Len(events') /\ SubSeq(events', 1, Len(events)) = events
      /\ Len(outbox) <= Len(outbox') /\ SubSeq(outbox', 1, Len(outbox)) = outbox
  <2>1. CASE UNCHANGED <<events, outbox>>
    BY <1>0, <2>1, SubSeqOfItself
  <2>2. ASSUME NEW e, Grows(e)
        PROVE  /\ Len(events) <= Len(events') /\ SubSeq(events', 1, Len(events)) = events
               /\ Len(outbox) <= Len(outbox') /\ SubSeq(outbox', 1, Len(outbox)) = outbox
    <3>1. WakeUp(e) \in OutboxRecord /\ e \in EventRecord
      BY <2>2 DEF Grows, EventRecord, OutboxRecord, WakeUp
    <3>2. Len(events) <= Len(events') /\ SubSeq(events', 1, Len(events)) = events
      BY <1>0, <2>2, <3>1, AppendReads DEF Grows
    <3>3. outbox' \in {outbox, Append(outbox, WakeUp(e))}
      BY <2>2 DEF Grows
    <3>4. Len(outbox) <= Len(outbox') /\ SubSeq(outbox', 1, Len(outbox)) = outbox
      BY <1>0, <3>1, <3>3, AppendReads, SubSeqOfItself
    <3> QED  BY <3>2, <3>4
  <2> QED  BY <2>1, <2>2, LogGrows
<1>2. \A t \in DOMAIN tasks : t \in DOMAIN tasks' /\ tasks'[t] = tasks[t]
  <2>1. ASSUME NEW r \in Request, NEW p \in Principal, NEW k \in Key, NEW x \in Hash,
               Create(r, p, k, x)
        PROVE  \A t \in DOMAIN tasks : t \in DOMAIN tasks' /\ tasks'[t] = tasks[t]
    BY <2>1 DEF Create, Put
  <2>2. CASE tasks' = tasks
    BY <2>2
  <2> QED  BY <2>1, <2>2 DEF Step, Cancel, Decide, WorkflowEvent, Quiet, Publish, Notify,
           WorkflowWrite, OpenApproval, Tick, vars, store
<1>3. \A a \in DOMAIN approvals : approvals[a].status # "pending" =>
          a \in DOMAIN approvals' /\ approvals'[a] = approvals[a]
  <2>1. ASSUME NEW r \in Request, NEW p \in Principal, NEW a \in Approval,
               NEW g \in Digest, NEW d \in Decision, Decide(r, p, a, g, d),
               NEW b \in DOMAIN approvals, approvals[b].status # "pending"
        PROVE  b \in DOMAIN approvals' /\ approvals'[b] = approvals[b]
    BY <2>1 DEF Decide, CanAnswer, Consume
  <2>2. ASSUME NEW t \in Task, NEW a \in Approval, NEW g \in Digest,
               NEW expires \in 1 .. MaxTime, OpenApproval(t, a, g, expires),
               NEW b \in DOMAIN approvals
        PROVE  b \in DOMAIN approvals' /\ approvals'[b] = approvals[b]
    BY <2>2 DEF OpenApproval, Put
  <2>3. CASE approvals' = approvals
    BY <2>3
  <2> QED  BY <2>1, <2>2, <2>3 DEF Step, Create, Cancel, WorkflowEvent, Quiet, Publish,
           Notify, WorkflowWrite, Tick, vars, store
<1> QED  BY <1>1, <1>2, <1>3 DEF Kept

\* Events and wake-ups are only appended, tasks keep owner and request, and a
\* consumed approval never changes again.
THEOREM HistoryKept == Spec => HistoryIsImmutable
<1>1. LogInv /\ [Next]_vars => [Kept]_vars
  BY NextIsStep, KeptByStep
<1> QED  BY <1>1, LogInvariant, PTL DEF Spec, HistoryIsImmutable, Kept

--------------------------------------------------------------------------------
(* Refinement: ImplementsLedger                                               *)

Entries == {events[i] : i \in DOMAIN events}
Woken == {<<outbox[k].task, outbox[k].sequence>> : k \in DOMAIN outbox}

\* What the history allows to be recorded now.
Fresh(e) ==
    /\ e.type = "task.cancellation_requested" =>
         \A i \in DOMAIN events :
             events[i].task = e.task => events[i].type # "task.cancellation_requested"
    /\ e.type = "approval.decided" =>
         \A i \in DOMAIN events :
             events[i].type = "approval.decided" => events[i].approval # e.approval

\* A fresh event at the end of the log is a record in the ledger.
LEMMA GrowsRecords ==
    ASSUME LogInv, NEW e, Grows(e), Fresh(e)
    PROVE  Ledger!Next
<1>1. /\ e \in EventRecord
      /\ events \in Seq(EventRecord)
      /\ outbox \in Seq(OutboxRecord)
  BY DEF Grows, LogInv, TypeOK
<1>2. Entries' = Entries \cup {e}
  <2>1. /\ DOMAIN events' = DOMAIN events \cup {Len(events) + 1}
        /\ events'[Len(events) + 1] = e
        /\ \A i \in DOMAIN events : events'[i] = events[i]
    BY GrownReads
  <2> QED  BY <2>1 DEF Entries
<1>3. Woken' = IF e.type = "workflow" THEN Woken
               ELSE Woken \cup {<<e.task, e.sequence>>}
  <2>1. CASE e.type = "workflow"
    BY <2>1 DEF Grows, Woken
  <2>2. CASE e.type # "workflow"
    <3>1. WakeUp(e) \in OutboxRecord
      BY <1>1 DEF EventRecord, OutboxRecord, WakeUp
    <3>2. outbox' = Append(outbox, WakeUp(e))
      BY <2>2 DEF Grows
    <3>3. /\ DOMAIN outbox' = DOMAIN outbox \cup {Len(outbox) + 1}
          /\ outbox'[Len(outbox) + 1] = WakeUp(e)
          /\ \A k \in DOMAIN outbox : outbox'[k] = outbox[k]
      BY <1>1, <3>1, <3>2, AppendReads
    <3>4. WakeUp(e).task = e.task /\ WakeUp(e).sequence = e.sequence
      BY DEF WakeUp
    <3> QED  BY <2>2, <3>3, <3>4 DEF Woken
  <2> QED  BY <2>1, <2>2
<1>4. Ledger!IsFresh(e)
  <2>1. e.type = "task.created" <=> e.sequence = 1
    BY DEF Grows
  <2>2. e.type = "task.cancellation_requested" =>
            \A old \in Ledger!EntriesOf(e.task) : old.type # e.type
    BY DEF Fresh, Ledger!EntriesOf
  <2>3. e.type = "approval.decided" =>
            \A old \in Entries : old.type = e.type => old.approval # e.approval
    BY DEF Fresh, Entries
  <2> QED  BY <2>1, <2>2, <2>3 DEF Ledger!IsFresh, Entries
<1>5. Ledger!Record(e)
  BY <1>2, <1>3, <1>4 DEF Ledger!Record, Entries, Woken
<1>6. e.sequence \in Ledger!NextNumbers(e.task)
  <2>1. \A old \in Ledger!EntriesOf(e.task) : old.sequence < e.sequence
    BY DEF Grows, Ledger!EntriesOf
  <2>2. \/ e.sequence = 1
        \/ \E old \in Ledger!EntriesOf(e.task) : e.sequence = old.sequence + 1
    <3>1. ASSUME NEW i \in DOMAIN events, events[i].task = e.task,
                 events[i].sequence = e.sequence - 1
          PROVE  \E old \in Ledger!EntriesOf(e.task) : e.sequence = old.sequence + 1
      <4>1. events[i] \in Ledger!EntriesOf(e.task)
        BY <3>1 DEF Ledger!EntriesOf
      <4>2. e.sequence = events[i].sequence + 1
        BY <1>1, <3>1 DEF EventRecord
      <4> QED  BY <4>1, <4>2
    <3> QED  BY <3>1 DEF Grows
  <2> QED  BY <2>1, <2>2 DEF Ledger!NextNumbers
<1>7. /\ e.task \in Task
      /\ e.type \in Ledger!EventType
      /\ e.approval \in Approval \cup {None}
      /\ e.decision \in {"approve", "deny", None}
      /\ e = [task |-> e.task, sequence |-> e.sequence, type |-> e.type,
              approval |-> e.approval, decision |-> e.decision]
  BY <1>1 DEF EventRecord, EventType, Decision, Ledger!EventType
<1> QED  BY <1>5, <1>6, <1>7 DEF Ledger!Next

LEMMA StepImplements ==
    ASSUME LogInv, RecordedOnce, Step
    PROVE  Ledger!Next \/ UNCHANGED Ledger!vars
<1> USE DEF RecordedOnce
<1>1. CASE \E r \in Request, p \in Principal, k \in Key, x \in Hash : Create(r, p, k, x)
  <2>1. PICK e : Grows(e) /\ e.type = "task.created"
    BY <1>1, CreateGrows, EventFields
  <2> QED  BY <2>1, GrowsRecords DEF Fresh
<1>2. ASSUME NEW r \in Request, NEW p \in Principal, NEW t \in Task, Cancel(r, p, t)
      PROVE  Ledger!Next
  <2>1. PICK e : /\ Grows(e)
                 /\ e.task = t
                 /\ e.type = "task.cancellation_requested"
    BY <1>2, CancelGrows, EventFields
  <2>2. t \notin cancellations
    BY <1>2 DEF Cancel
  <2>3. Fresh(e)
    BY <2>1, <2>2 DEF Fresh, CancelledOnce
  <2> QED  BY <2>1, <2>3, GrowsRecords
<1>3. ASSUME NEW r \in Request, NEW p \in Principal, NEW a \in Approval, NEW g \in Digest,
             NEW d \in Decision, Decide(r, p, a, g, d)
      PROVE  Ledger!Next
  <2>1. PICK e : /\ Grows(e)
                 /\ e.type = "approval.decided"
                 /\ e.approval = a
    BY <1>3, DecideGrows, EventFields
  <2>2. approvals[a].status = "pending"
    BY <1>3 DEF Decide, CanAnswer
  <2>3. Fresh(e)
    BY <2>1, <2>2 DEF Fresh, DecidedOnce
  <2> QED  BY <2>1, <2>3, GrowsRecords
<1>4. CASE \E t \in Task : WorkflowEvent(t)
  <2>1. PICK e : Grows(e) /\ e.type = "workflow"
    BY <1>4, EventGrows, EventFields
  <2> QED  BY <2>1, GrowsRecords DEF Fresh
<1>5. CASE Quiet
  BY <1>5, QuietKeepsLog DEF Ledger!vars
<1> QED  BY <1>1, <1>2, <1>3, <1>4, <1>5 DEF Step

\* The control plane implements the task ledger: every step appends the next event
\* of one task together with its wake-up, or changes neither.
THEOREM LedgerImplemented == Spec => ImplementsLedger
<1>1. Init => Ledger!Init
  BY DEF Init, Ledger!Init
<1>2. LogInv /\ RecordedOnce /\ [Next]_vars => [Ledger!Next]_(Ledger!vars)
  BY NextIsStep, StepImplements
<1> QED  BY <1>1, <1>2, LogInvariant, RetriesAreRecordedOnce, PTL
         DEF Spec, ImplementsLedger, Ledger!Spec

--------------------------------------------------------------------------------
(* Publication                                                                *)

\* Calls in flight are at different events, and none is at one that was published
\* by another call.
CallsApart ==
    /\ \A m \in DOMAIN published : published[m] \in DOMAIN events
    /\ \A m, n \in DOMAIN published : published[m] = published[n] => m = n
    /\ \A r \in Request :
         IF call[r].stage = "idle" THEN call[r].position = 0
         ELSE /\ call[r].position \in DOMAIN events
              /\ \A q \in Request \ {r} : call[q].position # call[r].position
              /\ call[r].stage = "publish" =>
                   \A m \in DOMAIN published : published[m] # call[r].position

LEMMA ContinueApart ==
    ASSUME LogInv, CallsApart, NEW r \in Request, call[r] = Idle, Continue(r),
           published' = published, NEW e, Grows(e)
    PROVE  CallsApart'
<1>1. /\ DOMAIN events' = DOMAIN events \cup {Len(events) + 1}
      /\ Len(events) + 1 \notin DOMAIN events
      /\ Len(events) \in Nat
  <2>1. events \in Seq(EventRecord)
    BY DEF LogInv, TypeOK
  <2>2. /\ DOMAIN events' = DOMAIN events \cup {Len(events) + 1}
        /\ Len(events) + 1 \notin DOMAIN events
    BY GrownReads, Zenon
  <2>3. Len(events) \in Nat
    BY <2>1
  <2> QED  BY <2>2, <2>3
<1>2. /\ call'[r].stage = "publish" /\ call'[r].position = Len(events) + 1
      /\ \A q \in Request \ {r} : call'[q] = call[q]
  BY DEF Continue, LogInv, TypeOK
<1>3. \A q \in Request \ {r} : call[q].position # Len(events) + 1
  BY <1>1 DEF CallsApart
<1> QED  BY <1>1, <1>2, <1>3 DEF CallsApart

LEMMA CallsStep ==
    ASSUME LogInv, CallsApart, Step
    PROVE  CallsApart'
<1>1. CASE \E r \in Request, p \in Principal, k \in Key, x \in Hash : Create(r, p, k, x)
  BY <1>1, CreateGrows, ContinueApart DEF Create
<1>2. CASE \E r \in Request, p \in Principal, t \in Task : Cancel(r, p, t)
  BY <1>2, CancelGrows, ContinueApart DEF Cancel
<1>3. CASE \E r \in Request, p \in Principal, a \in Approval, g \in Digest,
              d \in Decision : Decide(r, p, a, g, d)
  BY <1>3, DecideGrows, ContinueApart DEF Decide
<1>4. CASE \E t \in Task : WorkflowEvent(t)
  <2>1. PICK e : Grows(e)
    BY <1>4, EventGrows
  <2>2. call' = call /\ published' = published
    BY <1>4 DEF WorkflowEvent
  <2>3. DOMAIN events \subseteq DOMAIN events'
    BY <2>1, GrownReads
  <2> QED  BY <2>2, <2>3 DEF CallsApart
<1>5. ASSUME NEW r \in Request, Publish(r)
      PROVE  CallsApart'
  <2>1. /\ call'[r].stage = "notify" /\ call'[r].position = call[r].position
        /\ \A q \in Request \ {r} : call'[q] = call[q]
        /\ events' = events
    BY <1>5 DEF Publish, LogInv, TypeOK, store
  <2>2. /\ call[r].stage = "publish"
        /\ call[r].position \in DOMAIN events
        /\ call[r].position \in Nat
        /\ published \in Seq(Nat)
    BY <1>5 DEF Publish, CallsApart, LogInv, TypeOK
  <2>3. CASE published' = published
    BY <2>1, <2>2, <2>3 DEF CallsApart
  <2>4. CASE published' = Append(published, call[r].position)
    <3>1. /\ DOMAIN published' = DOMAIN published \cup {Len(published) + 1}
          /\ published'[Len(published) + 1] = call[r].position
          /\ \A m \in DOMAIN published : published'[m] = published[m]
      BY <2>2, <2>4, AppendReads
    <3> QED  BY <2>1, <2>2, <3>1 DEF CallsApart
  <2> QED  BY <1>5, <2>3, <2>4 DEF Publish
<1>6. ASSUME NEW r \in Request, Notify(r)
      PROVE  CallsApart'
  <2>1. /\ call'[r].stage = "idle" /\ call'[r].position = 0
        /\ \A q \in Request \ {r} : call'[q] = call[q]
        /\ events' = events /\ published' = published
    BY <1>6 DEF Notify, LogInv, TypeOK, store, Idle
  <2>2. 0 \notin DOMAIN events
    BY DEF LogInv, TypeOK
  <2> QED  BY <2>1, <2>2 DEF CallsApart
<1>7. CASE ~ \E r \in Request : Publish(r) \/ Notify(r)
  <2>1. CASE Quiet
    BY <1>7, <2>1 DEF Quiet, WorkflowWrite, OpenApproval, Tick, vars, store, CallsApart
  <2> QED  BY <1>1, <1>2, <1>3, <1>4, <2>1 DEF Step
<1> QED  BY <1>1, <1>2, <1>3, <1>4, <1>5, <1>6, <1>7 DEF Step

\* What is committed is published at most once, and never by two calls (service.py).
THEOREM PublicationsAreSingle == Spec => []PublishedOnce
<1>1. Init => CallsApart
  BY DEF Init, CallsApart, Idle
<1>2. LogInv /\ CallsApart /\ [Next]_vars => CallsApart'
  BY NextIsStep, CallsStep
<1>3. CallsApart => PublishedOnce
  BY DEF CallsApart, PublishedOnce
<1> QED  BY <1>1, <1>2, <1>3, LogInvariant, PTL DEF Spec

--------------------------------------------------------------------------------
(* Notifications                                                              *)

\* An event wakes the workflow exactly if the workflow was woken for it or a service
\* call that has committed it is still in flight.
WakeUpIsOwed ==
    \A i \in DOMAIN events :
        Wakes(i) <=> \/ i \in notified
                     \/ \E r \in Request : call[r].stage # "idle" /\ call[r].position = i

NotifiedIsCommitted == notified \subseteq DOMAIN events

\* A committed event is in the hands of the call that committed it.
LEMMA ContinueOwes ==
    ASSUME LogInv, WakeUpIsOwed, NotifiedIsCommitted, NEW r \in Request,
           call[r] = Idle, Continue(r), notified' = notified,
           NEW e, Grows(e), e.type # "workflow"
    PROVE  WakeUpIsOwed' /\ NotifiedIsCommitted'
<1> DEFINE last == Len(events) + 1
<1>1. /\ DOMAIN events' = DOMAIN events \cup {last}
      /\ last \notin DOMAIN events
      /\ events'[last] = e
      /\ \A i \in DOMAIN events : events'[i] = events[i]
  BY GrownReads
<1>2. /\ call'[r].stage = "publish" /\ call'[r].position = last
      /\ \A q \in Request \ {r} : call'[q] = call[q]
      /\ call[r].stage = "idle"
  BY DEF Continue, LogInv, TypeOK, Idle
<1> HIDE DEF last
<1>3. ASSUME NEW i \in DOMAIN events
      PROVE  (\E q \in Request : call'[q].stage # "idle" /\ call'[q].position = i)
               <=> \E q \in Request : call[q].stage # "idle" /\ call[q].position = i
  BY <1>1, <1>2
<1>4. ASSUME NEW i \in DOMAIN events'
      PROVE  events'[i].type # "workflow" <=>
                \/ i \in notified'
                \/ \E q \in Request : call'[q].stage # "idle" /\ call'[q].position = i
  <2>1. CASE i = last
    BY <1>1, <1>2, <2>1
  <2>2. CASE i # last
    BY <1>1, <1>3, <1>4, <2>2 DEF WakeUpIsOwed, Wakes
  <2> QED  BY <2>1, <2>2
<1>5. notified' \subseteq DOMAIN events'
  BY <1>1 DEF NotifiedIsCommitted
<1> QED  BY <1>4, <1>5 DEF WakeUpIsOwed, NotifiedIsCommitted, Wakes

LEMMA OwedStep ==
    ASSUME LogInv, CallsApart, WakeUpIsOwed, NotifiedIsCommitted, Step
    PROVE  WakeUpIsOwed' /\ NotifiedIsCommitted'
<1>1. CASE \E r \in Request, p \in Principal, k \in Key, x \in Hash : Create(r, p, k, x)
  <2>1. PICK r \in Request, p \in Principal, k \in Key, x \in Hash : Create(r, p, k, x)
    BY <1>1
  <2>2. PICK e : Grows(e) /\ e.type = "task.created"
    BY <2>1, CreateGrows, EventFields
  <2> QED  BY <2>1, <2>2, ContinueOwes DEF Create
<1>2. CASE \E r \in Request, p \in Principal, t \in Task : Cancel(r, p, t)
  <2>1. PICK r \in Request, p \in Principal, t \in Task : Cancel(r, p, t)
    BY <1>2
  <2>2. PICK e : Grows(e) /\ e.type = "task.cancellation_requested"
    BY <2>1, CancelGrows, EventFields
  <2> QED  BY <2>1, <2>2, ContinueOwes DEF Cancel
<1>3. CASE \E r \in Request, p \in Principal, a \in Approval, g \in Digest,
              d \in Decision : Decide(r, p, a, g, d)
  <2>1. PICK r \in Request, p \in Principal, a \in Approval, g \in Digest,
             d \in Decision : Decide(r, p, a, g, d)
    BY <1>3
  <2>2. PICK e : Grows(e) /\ e.type = "approval.decided"
    BY <2>1, DecideGrows, EventFields
  <2> QED  BY <2>1, <2>2, ContinueOwes DEF Decide
<1>4. CASE \E t \in Task : WorkflowEvent(t)
  <2>1. PICK e : Grows(e) /\ e.type = "workflow"
    BY <1>4, EventGrows, EventFields
  <2>2. call' = call /\ notified' = notified
    BY <1>4 DEF WorkflowEvent
  <2>3. /\ DOMAIN events' = DOMAIN events \cup {Len(events) + 1}
        /\ Len(events) + 1 \notin DOMAIN events
        /\ events'[Len(events) + 1] = e
        /\ \A i \in DOMAIN events : events'[i] = events[i]
    BY <2>1, GrownReads
  <2>4. \A r \in Request :
            call[r].stage # "idle" => call[r].position \in DOMAIN events
    BY DEF CallsApart
  <2> QED  BY <2>1, <2>2, <2>3, <2>4 DEF WakeUpIsOwed, NotifiedIsCommitted, Wakes
<1>5. ASSUME NEW r \in Request, Publish(r)
      PROVE  WakeUpIsOwed' /\ NotifiedIsCommitted'
  <2>1. /\ call[r].stage = "publish" /\ call'[r].stage = "notify"
        /\ call'[r].position = call[r].position
        /\ \A q \in Request \ {r} : call'[q] = call[q]
        /\ events' = events /\ notified' = notified
    BY <1>5 DEF Publish, LogInv, TypeOK, store
  <2>2. ASSUME NEW i
        PROVE  (\E q \in Request : call'[q].stage # "idle" /\ call'[q].position = i)
                 <=> \E q \in Request : call[q].stage # "idle" /\ call[q].position = i
    BY <2>1
  <2> QED  BY <2>1, <2>2 DEF WakeUpIsOwed, NotifiedIsCommitted, Wakes
<1>6. ASSUME NEW r \in Request, Notify(r)
      PROVE  WakeUpIsOwed' /\ NotifiedIsCommitted'
  <2>1. /\ call[r].stage = "notify" /\ call'[r].stage = "idle"
        /\ \A q \in Request \ {r} : call'[q] = call[q]
        /\ events' = events /\ notified' = notified \cup {call[r].position}
    BY <1>6 DEF Notify, LogInv, TypeOK, store, Idle
  <2>2. call[r].position \in DOMAIN events
    BY <2>1 DEF CallsApart
  <2>3. ASSUME NEW i
        PROVE  \/ i \in notified'
               \/ \E q \in Request : call'[q].stage # "idle" /\ call'[q].position = i
               <=> \/ i \in notified
                   \/ \E q \in Request : call[q].stage # "idle" /\ call[q].position = i
    BY <2>1
  <2>4. Wakes(call[r].position)
    BY <2>1, <2>2 DEF WakeUpIsOwed
  <2> QED  BY <2>1, <2>2, <2>3, <2>4 DEF WakeUpIsOwed, NotifiedIsCommitted, Wakes
<1>7. CASE ~ \E r \in Request : Publish(r) \/ Notify(r)
  <2>1. CASE Quiet
    BY <1>7, <2>1 DEF Quiet, WorkflowWrite, OpenApproval, Tick, vars, store,
                      WakeUpIsOwed, NotifiedIsCommitted, Wakes
  <2> QED  BY <1>1, <1>2, <1>3, <1>4, <2>1 DEF Step
<1> QED  BY <1>1, <1>2, <1>3, <1>4, <1>5, <1>6, <1>7 DEF Step

\* No wake-up is ever lost and nobody is woken without one: until the workflow is
\* woken for a commit, the call that made the commit is on its way to do it,
\* whatever the publisher did (service.py).
THEOREM WakeUpsAreOwed == Spec => []WakeUpIsOwed
<1>1. Init => CallsApart /\ WakeUpIsOwed /\ NotifiedIsCommitted
  BY DEF Init, CallsApart, WakeUpIsOwed, NotifiedIsCommitted, Idle
<1>2. LogInv /\ CallsApart /\ [Next]_vars => CallsApart'
  BY NextIsStep, CallsStep
<1>3. LogInv /\ CallsApart /\ WakeUpIsOwed /\ NotifiedIsCommitted /\ [Next]_vars
        => WakeUpIsOwed' /\ NotifiedIsCommitted'
  BY NextIsStep, OwedStep
<1> QED  BY <1>1, <1>2, <1>3, LogInvariant, PTL DEF Spec

--------------------------------------------------------------------------------
(* Pages                                                                      *)

\* The log of a task has every number up to its last.
NoGaps ==
    \A i \in DOMAIN events : \A n \in 1 .. events[i].sequence :
        \E j \in DOMAIN events : events[j].task = events[i].task /\ events[j].sequence = n

LEMMA GapsStep ==
    ASSUME LogInv, NoGaps, Step
    PROVE  NoGaps'
<1>1. CASE UNCHANGED <<events, outbox>>
  BY <1>1 DEF NoGaps
<1>2. ASSUME NEW e, Grows(e)
      PROVE  NoGaps'
  <2>1. /\ DOMAIN events' = DOMAIN events \cup {Len(events) + 1}
        /\ events'[Len(events) + 1] = e
        /\ \A i \in DOMAIN events : events'[i] = events[i]
    BY <1>2, GrownReads
  <2>2. e.sequence \in Nat \ {0}
    BY <1>2 DEF Grows, EventRecord
  <2>3. ASSUME NEW n \in 1 .. e.sequence, n # e.sequence
        PROVE  \E j \in DOMAIN events : events[j].task = e.task /\ events[j].sequence = n
    <3>1. PICK i \in DOMAIN events :
              events[i].task = e.task /\ events[i].sequence = e.sequence - 1
      BY <1>2, <2>2, <2>3 DEF Grows
    <3>2. n \in 1 .. events[i].sequence
      BY <2>2, <2>3, <3>1
    <3> QED  BY <3>1, <3>2 DEF NoGaps
  <2>4. ASSUME NEW i \in DOMAIN events, NEW n \in 1 .. events[i].sequence
        PROVE  \E j \in DOMAIN events' :
                   events'[j].task = events[i].task /\ events'[j].sequence = n
    BY <2>1, <2>4 DEF NoGaps
  <2>5. ASSUME NEW n \in 1 .. e.sequence
        PROVE  \E j \in DOMAIN events' :
                   events'[j].task = e.task /\ events'[j].sequence = n
    BY <2>1, <2>3, <2>5
  <2> QED  BY <2>1, <2>4, <2>5 DEF NoGaps
<1> QED  BY <1>1, <1>2, LogGrows

\* What a cursor has before it: the numbers after it, up to the task's last.
LEMMA LaterNumbers ==
    ASSUME LogInv, NoGaps, NEW t \in DOMAIN tasks, NEW after \in Nat
    PROVE  {events[i].sequence : i \in {j \in DOMAIN events :
                events[j].task = t /\ events[j].sequence > after}}
             = (after + 1) .. (NextSequence(t) - 1)
<1>1. /\ NextSequence(t) \in Nat
      /\ \A i \in DOMAIN events :
           events[i].task = t => events[i].sequence < NextSequence(t)
      /\ \E i \in DOMAIN events :
           events[i].task = t /\ events[i].sequence = NextSequence(t) - 1
  BY NextIsLastPlusOne
<1>2. \A i \in DOMAIN events : events[i].sequence \in Nat \ {0}
  BY EventsAreNumbered
<1>3. ASSUME NEW n \in (after + 1) .. (NextSequence(t) - 1)
      PROVE  \E i \in DOMAIN events : events[i].task = t /\ events[i].sequence = n
  <2>1. PICK i \in DOMAIN events :
            events[i].task = t /\ events[i].sequence = NextSequence(t) - 1
    BY <1>1
  <2>2. n \in 1 .. events[i].sequence
    BY <1>1, <1>3, <2>1
  <2> QED  BY <2>1, <2>2 DEF NoGaps
<1> QED  BY <1>1, <1>2, <1>3

\* The first `limit` numbers of an interval.
LEMMA WindowOfInterval ==
    ASSUME NEW after \in Nat, NEW last \in Nat, NEW limit \in Nat
    PROVE  LET found == (after + 1) .. last
               end == IF last < after + limit THEN last ELSE after + limit
           IN  /\ {n \in found : Cardinality({m \in found : m < n}) < limit}
                    = (after + 1) .. end
               /\ Cardinality(found) > limit <=> last > after + limit
<1> DEFINE found == (after + 1) .. last
           end == IF last < after + limit THEN last ELSE after + limit
<1>1. ASSUME NEW n \in found
      PROVE  Cardinality({m \in found : m < n}) = n - 1 - after
  <2>1. {m \in found : m < n} = (after + 1) .. (n - 1)
    OBVIOUS
  <2>2. Cardinality((after + 1) .. (n - 1))
          = IF after + 1 > n - 1 THEN 0 ELSE (n - 1) - (after + 1) + 1
    BY FS_Interval
  <2>3. (IF after + 1 > n - 1 THEN 0 ELSE (n - 1) - (after + 1) + 1) = n - 1 - after
    OBVIOUS
  <2> QED  BY <2>1, <2>2, <2>3
<1>2. {n \in found : Cardinality({m \in found : m < n}) < limit}
        = {n \in found : n - 1 - after < limit}
  BY <1>1
<1>3. {n \in found : n - 1 - after < limit} = (after + 1) .. end
  OBVIOUS
<1>4. Cardinality(found) = IF after + 1 > last THEN 0 ELSE last - (after + 1) + 1
  BY FS_Interval
<1>5. (IF after + 1 > last THEN 0 ELSE last - (after + 1) + 1) > limit
        <=> last > after + limit
  OBVIOUS
<1> QED  BY <1>2, <1>3, <1>4, <1>5

\* A page of any size from any cursor: it continues the cursor without a gap, ends
\* where the next one begins, and says whether anything is left.
PageContinues(t, after, limit) ==
    LET page == EventPage(t, after, limit)
        last == NextSequence(t) - 1
    IN  /\ page.events = (after + 1) .. page.next_cursor
        /\ page.has_more <=> page.next_cursor < last
        /\ after < last => page.next_cursor \in (after + 1) .. last

PagesContinue ==
    \A t \in DOMAIN tasks, after \in Nat, limit \in Nat \ {0} :
        PageContinues(t, after, limit)

\* What a page read returns.
LEMMA PageReads ==
    ASSUME LogInv, NoGaps, NEW t \in DOMAIN tasks, NEW after \in Nat,
           NEW limit \in Nat \ {0}
    PROVE  LET page == EventPage(t, after, limit)
               last == NextSequence(t) - 1
               end == IF last < after + limit THEN last ELSE after + limit
           IN  /\ page.events = (after + 1) .. end
               /\ page.next_cursor = IF after < last THEN end ELSE after
               /\ page.has_more <=> last > after + limit
<1> DEFINE last == NextSequence(t) - 1
           found == (after + 1) .. last
           window == {n \in found : Cardinality({m \in found : m < n}) < limit}
           end == IF last < after + limit THEN last ELSE after + limit
<1>1. after \in Nat /\ limit \in Nat /\ limit > 0 /\ last \in Nat
  BY NextIsLastPlusOne
<1>2. {events[i].sequence : i \in {j \in DOMAIN events :
            events[j].task = t /\ events[j].sequence > after}} = found
  BY <1>1, LaterNumbers
<1>3. EventPage(t, after, limit) =
        [events |-> window,
         next_cursor |-> IF window = {} THEN after ELSE Max(window),
         has_more |-> Cardinality(found) > limit]
  BY <1>2 DEF EventPage
<1>4. /\ window = (after + 1) .. end
      /\ Cardinality(found) > limit <=> last > after + limit
  BY <1>1, WindowOfInterval
<1> HIDE DEF last, found, window
<1>5. /\ EventPage(t, after, limit).events = window
      /\ EventPage(t, after, limit).next_cursor
           = IF window = {} THEN after ELSE Max(window)
  BY <1>3
<1>6. EventPage(t, after, limit).has_more <=> last > after + limit
  <2>1. EventPage(t, after, limit).has_more = (Cardinality(found) > limit)
    <3> DEFINE more == Cardinality(found) > limit
    <3>1. EventPage(t, after, limit) =
            [events |-> window,
             next_cursor |-> IF window = {} THEN after ELSE Max(window),
             has_more |-> more]
      BY <1>3
    <3> HIDE DEF more
    <3>2. EventPage(t, after, limit).has_more = more
      BY <3>1
    <3> QED  BY <3>2 DEF more
  <2> QED  BY <1>4, <2>1, Zenon
<1>7. CASE after < last
  <2>1. end \in window /\ window \in SUBSET Int /\ \A n \in window : n <= end
    BY <1>1, <1>4, <1>7
  <2> HIDE DEF end
  <2>2. Max(window) = end /\ window # {}
    BY <2>1, MaxIs
  <2> QED  BY <1>4, <1>5, <1>6, <1>7, <2>2 DEF last, end
<1>8. CASE ~ (after < last)
  <2>1. window = {}
    BY <1>1, <1>4, <1>8
  <2> QED  BY <1>4, <1>5, <1>6, <1>8, <2>1 DEF last
<1> QED  BY <1>7, <1>8

LEMMA PagesFollow ==
    ASSUME LogInv, NoGaps
    PROVE  PagesContinue
<1> SUFFICES ASSUME NEW t \in DOMAIN tasks, NEW after \in Nat,
                    NEW limit \in Nat \ {0}
             PROVE  LET page == EventPage(t, after, limit)
                        last == NextSequence(t) - 1
                    IN  /\ page.events = (after + 1) .. page.next_cursor
                        /\ page.has_more <=> page.next_cursor < last
                        /\ after < last => page.next_cursor \in (after + 1) .. last
  BY DEF PagesContinue, PageContinues
<1> DEFINE page == EventPage(t, after, limit)
           last == NextSequence(t) - 1
           end == IF last < after + limit THEN last ELSE after + limit
<1>1. after \in Nat /\ limit \in Nat /\ limit > 0 /\ last \in Nat
  BY NextIsLastPlusOne
<1>2. /\ page.events = (after + 1) .. end
      /\ page.next_cursor = IF after < last THEN end ELSE after
      /\ page.has_more <=> last > after + limit
  BY PageReads, Zenon
<1> HIDE DEF last, page
<1>3. IF after < last THEN /\ end \in (after + 1) .. last
                           /\ last > after + limit <=> end < last
                      ELSE (after + 1) .. end = {} /\ (after + 1) .. after = {}
                             /\ ~ (last > after + limit)
  BY <1>1
<1> HIDE DEF end
<1> QED  BY <1>2, <1>3 DEF last, page

\* A client that pages through the log of a task misses nothing and sees nothing
\* twice, whatever cursor it starts from and however long its pages are
\* (repository.py, list_authorized_events).
THEOREM PagesOfAnySize == Spec => []PagesContinue
<1>1. Init => NoGaps
  BY DEF Init, NoGaps
<1>2. LogInv /\ NoGaps /\ [Next]_vars => NoGaps'
  BY NextIsStep, GapsStep
<1>3. LogInv /\ NoGaps => PagesContinue
  BY PagesFollow
<1> QED  BY <1>1, <1>2, <1>3, LogInvariant, PTL DEF Spec

\* In particular the pages that TLC reads.
THEOREM PagesHaveNoGaps == Spec => []PagesAreContiguous
<1>1. PagesContinue => PagesAreContiguous
  BY BoundsAssumption DEF PagesContinue, PageContinues, PagesAreContiguous
<1> QED  BY <1>1, PagesOfAnySize, PTL

--------------------------------------------------------------------------------
(* The feed of the live stream                                                *)

\* A new event has the number that the feed has next.
LEMMA GrowsIsNext ==
    ASSUME LogInv, NoGaps, NEW e, Grows(e)
    PROVE  /\ e.task \in Task
           /\ e.sequence \in Feed!NextNumbers(e.task)
           /\ Committed' = Committed \cup {<<e.task, e.sequence>>}
<1>1. /\ DOMAIN events' = DOMAIN events \cup {Len(events) + 1}
      /\ events'[Len(events) + 1] = e
      /\ \A i \in DOMAIN events : events'[i] = events[i]
  BY GrownReads
<1>2. e.task \in Task /\ e.sequence \in Nat \ {0}
  BY DEF Grows, EventRecord
<1>3. \A i \in DOMAIN events : events[i].sequence \in Nat \ {0}
  BY EventsAreNumbered
<1>4. <<e.task, e.sequence>> \notin Committed
  BY <1>2, <1>3 DEF Grows, Committed
<1>5. ASSUME NEW n \in 1 .. e.sequence - 1
      PROVE  <<e.task, n>> \in Committed
  <2>1. PICK i \in DOMAIN events :
            events[i].task = e.task /\ events[i].sequence = e.sequence - 1
    BY <1>2, <1>5 DEF Grows
  <2>2. n \in 1 .. events[i].sequence
    BY <1>5, <2>1
  <2>3. PICK j \in DOMAIN events : events[j].task = e.task /\ events[j].sequence = n
    BY <2>1, <2>2 DEF NoGaps
  <2> QED  BY <2>3 DEF Committed
<1>6. e.sequence \in {1} \cup {x[2] + 1 : x \in Committed}
  <2>1. ASSUME NEW i \in DOMAIN events,
               events[i].task = e.task, events[i].sequence = e.sequence - 1
        PROVE  \E x \in Committed : e.sequence = x[2] + 1
    <3>1. <<events[i].task, events[i].sequence>> \in Committed
      BY DEF Committed
    <3>2. e.sequence = <<events[i].task, events[i].sequence>>[2] + 1
      BY <1>2, <2>1
    <3> QED  BY <3>1, <3>2
  <2> QED  BY <2>1 DEF Grows
<1>7. e.sequence \in Feed!NextNumbers(e.task)
  BY <1>4, <1>5, <1>6 DEF Feed!NextNumbers
<1>8. Committed' = Committed \cup {<<e.task, e.sequence>>}
  BY <1>1 DEF Committed
<1> QED  BY <1>2, <1>7, <1>8

\* A service call that commits has its event to publish.
LEMMA ContinueFeeds ==
    ASSUME LogInv, NoGaps, CallsApart, NEW r \in Request, call[r] = Idle, Continue(r),
           NEW e, Grows(e)
    PROVE  Feed!Next
<1> DEFINE last == Len(events) + 1
<1>1. /\ events'[last] = e
      /\ \A i \in DOMAIN events : events'[i] = events[i]
  BY GrownReads
<1>2. /\ call'[r].stage = "publish" /\ call'[r].position = last
      /\ \A q \in Request \ {r} : call'[q] = call[q]
      /\ call[r].stage = "idle"
  BY DEF Continue, LogInv, TypeOK, Idle
<1> HIDE DEF last
<1>3. \A q \in Request : call[q].stage = "publish" => call[q].position \in DOMAIN events
  BY DEF CallsApart
<1>4. Unpublished' = Unpublished \cup {<<e.task, e.sequence>>}
  BY <1>1, <1>2, <1>3 DEF Unpublished
<1>5. Feed!Commit(e.task) /\ e.task \in Task
  BY <1>4, GrowsIsNext DEF Feed!Commit
<1> QED  BY <1>5 DEF Feed!Next

\* A call that publishes takes its own event off, and no other call's.
LEMMA PublishFeeds ==
    ASSUME LogInv, CallsApart, NEW r \in Request, Publish(r)
    PROVE  Feed!Next
<1> DEFINE at(q) == call[q].position
           name(i) == <<events[i].task, events[i].sequence>>
<1>1. /\ call[r].stage = "publish" /\ call'[r].stage = "notify"
      /\ \A q \in Request \ {r} : call'[q] = call[q]
      /\ events' = events
  BY DEF Publish, LogInv, TypeOK, store
<1>2. ASSUME NEW q \in Request \ {r}, call[q].stage = "publish"
      PROVE  name(at(q)) # name(at(r))
  <2>1. /\ at(q) \in DOMAIN events /\ at(r) \in DOMAIN events /\ at(q) # at(r)
        /\ at(q) \in Nat /\ at(r) \in Nat
    BY <1>1, <1>2 DEF CallsApart, LogInv, TypeOK
  <2>2. \A i \in DOMAIN events : events[i].sequence \in Nat
    BY EventsAreNumbered
  <2> QED  BY <2>1, <2>2 DEF LogInv, SequencesContiguous
<1>3. name(at(r)) \in Unpublished
  BY <1>1 DEF Unpublished
<1>4. Unpublished' = Unpublished \ {name(at(r))}
  BY <1>1, <1>2 DEF Unpublished
<1>5. Committed' = Committed
  BY <1>1 DEF Committed
<1>6. Feed!Publish(name(at(r)))
  BY <1>3, <1>4, <1>5 DEF Feed!Publish
<1> QED  BY <1>3, <1>6 DEF Feed!Next

\* The workflow's own events reach nobody.
Silent == \E t \in Task : WorkflowEvent(t)

LEMMA StepFeeds ==
    ASSUME LogInv, NoGaps, CallsApart, Step, ~ Silent
    PROVE  Feed!Next \/ UNCHANGED Feed!vars
<1>1. ASSUME NEW r \in Request, NEW p \in Principal, NEW k \in Key, NEW x \in Hash,
             Create(r, p, k, x)
      PROVE  Feed!Next
  BY <1>1, CreateGrows, ContinueFeeds DEF Create
<1>2. ASSUME NEW r \in Request, NEW p \in Principal, NEW t \in Task, Cancel(r, p, t)
      PROVE  Feed!Next
  BY <1>2, CancelGrows, ContinueFeeds DEF Cancel
<1>3. ASSUME NEW r \in Request, NEW p \in Principal, NEW a \in Approval, NEW g \in Digest,
             NEW d \in Decision, Decide(r, p, a, g, d)
      PROVE  Feed!Next
  BY <1>3, DecideGrows, ContinueFeeds DEF Decide
<1>4. ASSUME NEW r \in Request, Notify(r)
      PROVE  UNCHANGED Feed!vars
  <2>1. /\ call[r].stage = "notify" /\ call'[r].stage = "idle"
        /\ \A q \in Request \ {r} : call'[q] = call[q]
        /\ events' = events
    BY <1>4 DEF Notify, LogInv, TypeOK, store, Idle
  <2>2. Unpublished' = Unpublished
    BY <2>1 DEF Unpublished
  <2>3. Committed' = Committed
    BY <2>1 DEF Committed
  <2> QED  BY <2>2, <2>3 DEF Feed!vars
<1>5. CASE Quiet /\ ~ \E r \in Request : Publish(r) \/ Notify(r)
  <2>1. events' = events /\ call' = call
    BY <1>5 DEF Quiet, WorkflowWrite, OpenApproval, Tick, vars, store
  <2> QED  BY <2>1 DEF Feed!vars, Committed, Unpublished
<1> QED  BY <1>1, <1>2, <1>3, <1>4, <1>5, PublishFeeds DEF Step, Silent, Quiet

\* As long as the workflow appends no event of its own, the log and the calls in
\* flight are the feed that EventStream runs on: numbers are committed without a gap
\* and each commit reaches the publisher once (service.py, repository.py).
THEOREM FeedImplemented == Spec /\ [][~ Silent]_vars => ImplementsFeed
<1>1. Init => CallsApart /\ NoGaps /\ Feed!Init
  BY DEF Init, CallsApart, Idle, NoGaps, Feed!Init, Committed, Unpublished
<1>2. LogInv /\ CallsApart /\ [Next]_vars => CallsApart'
  BY NextIsStep, CallsStep
<1>3. LogInv /\ NoGaps /\ [Next]_vars => NoGaps'
  BY NextIsStep, GapsStep
<1>4. ASSUME LogInv, NoGaps, CallsApart, [Next]_vars, [~ Silent]_vars
      PROVE  [Feed!Next]_(Feed!vars)
  <2>1. CASE UNCHANGED vars
    BY <2>1 DEF vars, store, Feed!vars, Committed, Unpublished
  <2>2. CASE ~ Silent
    BY <1>4, <2>2, NextIsStep, StepFeeds
  <2> QED  BY <1>4, <2>1, <2>2
<1> QED  BY <1>1, <1>2, <1>3, <1>4, LogInvariant, PTL DEF Spec, ImplementsFeed, Feed!Spec

\* A page of any size is cut from what the feed has committed.
PagesOfFeed ==
    \A t \in DOMAIN tasks, after \in Nat, limit \in Nat \ {0} : PageOfFeed(t, after, limit)

LEMMA PagesAreCut ==
    ASSUME LogInv, NoGaps
    PROVE  PagesOfFeed
<1> SUFFICES ASSUME NEW t \in DOMAIN tasks, NEW after \in Nat,
                    NEW limit \in Nat \ {0}
             PROVE  PageOfFeed(t, after, limit)
  BY DEF PagesOfFeed
<1> DEFINE page == EventPage(t, after, limit)
           last == NextSequence(t) - 1
           end == IF last < after + limit THEN last ELSE after + limit
<1>1. after \in Nat /\ limit \in Nat /\ limit > 0 /\ last \in Nat
  BY NextIsLastPlusOne
<1>2. /\ page.events = (after + 1) .. end
      /\ page.next_cursor = IF after < last THEN end ELSE after
      /\ page.has_more <=> last > after + limit
  BY PageReads, Zenon
<1>3. ASSUME NEW n \in Nat \ {0}
      PROVE  <<t, n>> \in Committed <=> n <= last
  <2>1. /\ \A i \in DOMAIN events : events[i].sequence \in Nat
        /\ \A i \in DOMAIN events : events[i].task = t => events[i].sequence <= last
    BY NextIsLastPlusOne, EventsAreNumbered
  <2>2. PICK i \in DOMAIN events : events[i].task = t /\ events[i].sequence = last
    BY NextIsLastPlusOne
  <2>3. n <= last => \E j \in DOMAIN events : events[j].task = t /\ events[j].sequence = n
    BY <1>1, <2>2 DEF NoGaps
  <2> QED  BY <2>1, <2>3 DEF Committed
<1> HIDE DEF page, last
<1>4. \A n \in (after + 1) .. (after + limit) : <<t, n>> \in Committed <=> n <= last
  BY <1>1, <1>3
<1>5. (after + 1) .. end = {n \in (after + 1) .. (after + limit) : <<t, n>> \in Committed}
  BY <1>1, <1>4
<1>6. <<t, after + limit + 1>> \in Committed <=> last > after + limit
  BY <1>1, <1>3
<1> QED  BY <1>2, <1>5, <1>6 DEF PageOfFeed, Feed!Page, Feed!HasMore, page

\* Whatever cursor a stream replays from and however long its pages are, what it reads
\* is cut from what the feed has committed, and nothing in between is left out
\* (repository.py, list_authorized_events).
THEOREM FeedIsRead == Spec => []PagesOfFeed
<1>1. Init => NoGaps
  BY DEF Init, NoGaps
<1>2. LogInv /\ NoGaps /\ [Next]_vars => NoGaps'
  BY NextIsStep, GapsStep
<1>3. LogInv /\ NoGaps => PagesOfFeed
  BY PagesAreCut
<1> QED  BY <1>1, <1>2, <1>3, LogInvariant, PTL DEF Spec

================================================================================
