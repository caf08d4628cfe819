------------------------------ MODULE TaskStore ------------------------------
(***************************************************************************)
(* The task control plane: InMemoryTaskRepository (tasks/repository.py)    *)
(* and the services that drive it (tasks/service.py).                      *)
(*                                                                         *)
(* Every repository operation runs under one asyncio.Lock, so it is one    *)
(* action here.  A service call is three steps, each an await on an        *)
(* injected object: the commit, then event_publisher.publish, then         *)
(* notifier.notify; either of the last two may raise, and the service      *)
(* swallows it.  The dictionaries of the repository are functions whose    *)
(* domain is the set of their keys.                                        *)
(*                                                                         *)
(* The writer that moves a task through its workflow is not in the         *)
(* repository's code: WorkflowWrite and OpenApproval call the writing      *)
(* operations of the repository in the order of the graph's own statuses   *)
(* (graph/builder.py), and never touch a task that has ended.              *)
(***************************************************************************)
EXTENDS Integers, Sequences, FiniteSetsExt

CONSTANTS
    Task,        \* task ids (uuid4: never drawn twice)
    Principal,   \* authenticated (actor, device) pairs
    Key,         \* idempotency keys
    Hash,        \* request hashes
    Approval,    \* approval ids
    Digest,      \* action digests
    Request,     \* service calls that may be in flight together
    None,        \* Python's None
    MaxEvents,   \* bound: length of the event log
    MaxTime      \* bound: the last value of the clock

ASSUME NoneAssumption ==
    None \notin Approval \cup {"approve", "deny"}
ASSUME BoundsAssumption == MaxEvents \in Nat /\ MaxTime \in Nat

VARIABLES
    byKey,          \* _by_idempotency: <<principal, key>> -> task id
    tasks,          \* _tasks: the immutable task records
    projections,    \* _projections: status and pending approval
    events,         \* _events, in commit order
    outbox,         \* _outbox, in commit order
    cancellations,  \* keys of _cancellations
    approvals,      \* _approvals
    call,           \* what each service call still has to do
    published,      \* positions in events handed to live subscribers
    notified,       \* positions in events the workflow was woken for
    now             \* the clock

store == <<byKey, tasks, projections, events, outbox, cancellations, approvals>>
vars == <<byKey, tasks, projections, events, outbox, cancellations, approvals,
          call, published, notified, now>>

--------------------------------------------------------------------------------
(* Records                                                                    *)

Terminal ==
    {"succeeded", "partially_succeeded", "failed", "cancelled", "denied",
     "expired"}

Status ==
    {"created", "planning", "cancellation_requested", "awaiting_approval",
     "executing", "verifying"} \cup Terminal

EventType ==
    {"task.created", "task.cancellation_requested", "approval.decided",
     "workflow"}

Decision == {"approve", "deny"}

TaskRecord == [owner : Principal, key : Key, hash : Hash]

ProjectionRecord == [status : Status, pending : Approval \cup {None}]

EventRecord ==
    [task : Task, sequence : Nat \ {0}, type : EventType,
     approval : Approval \cup {None}, decision : Decision \cup {None}]

OutboxRecord == [task : Task, sequence : Nat \ {0}, type : EventType]

ApprovalRecord ==
    [task : Task, owner : Principal, digest : Digest, expires : Nat,
     status : {"pending", "approved", "denied"}]

EmptyDict == [k \in {} |-> None]

\* dict[key] = value
Put(dict, key, value) ==
    [k \in DOMAIN dict \cup {key} |-> IF k = key THEN value ELSE dict[k]]

\* Mutant: the last number again.
NextSequence_Last(t) ==
    Max({events[i].sequence : i \in {j \in DOMAIN events : events[j].task = t}})

\* The sequence the repository gives to the next event of t: max(...) + 1.
NextSequence(t) ==
    Max({events[i].sequence : i \in {j \in DOMAIN events : events[j].task = t}})
      + 1

Event(t, n, type, a, d) ==
    [task |-> t, sequence |-> n, type |-> type, approval |-> a, decision |-> d]

WakeUp(e) == [task |-> e.task, sequence |-> e.sequence, type |-> e.type]

\* Mutant: the outbox is written for new tasks only.
Commit_Lossy(e) ==
    /\ Len(events) < MaxEvents
    /\ events' = Append(events, e)
    /\ outbox' = IF e.sequence = 1 THEN Append(outbox, WakeUp(e)) ELSE outbox

\* One event and the outbox record that wakes the workflow, written together.
Commit(e) ==
    /\ Len(events) < MaxEvents
    /\ events' = Append(events, e)
    /\ outbox' = Append(outbox, WakeUp(e))

--------------------------------------------------------------------------------
(* Service calls                                                              *)

Idle == [stage |-> "idle", position |-> 0]

\* The repository answered created=True: the service goes on to publish.
Continue(r) ==
    call' = [call EXCEPT ![r] = [stage |-> "publish",
                                 position |-> Len(events) + 1]]

\* Mutant: the new task is not indexed under its key.
IndexTask_Missing(p, k, t) == UNCHANGED byKey

\* self._by_idempotency[scope] = outcome
IndexTask(p, k, t) == byKey' = Put(byKey, <<p, k>>, t)

\* TaskCreationService.create for a scope that is not yet known.
Create(r, p, k, x) ==
    /\ call[r] = Idle
    /\ <<p, k>> \notin DOMAIN byKey
    /\ \E t \in Task \ DOMAIN tasks :
         /\ tasks' = Put(tasks, t, [owner |-> p, key |-> k, hash |-> x])
         /\ projections' = Put(projections, t,
                               [status |-> "created", pending |-> None])
         /\ IndexTask(p, k, t)
         /\ Commit(Event(t, 1, "task.created", None, None))
    /\ Continue(r)
    /\ UNCHANGED <<cancellations, approvals, published, notified, now>>

\* Mutant: the stored outcome is returned as it is, with created=True.
ReplayCreate_Created(r, p, k, x) ==
    /\ call[r] = Idle
    /\ <<p, k>> \in DOMAIN byKey
    /\ \E i \in DOMAIN events :
         /\ events[i].task = byKey[<<p, k>>] /\ events[i].sequence = 1
         /\ call' = [call EXCEPT ![r] = [stage |-> "publish", position |-> i]]
    /\ UNCHANGED <<store, published, notified, now>>

\* The scope is known: the stored outcome with created=False when the request
\* is the same one, IdempotencyConflictError otherwise.  Neither writes.
ReplayCreate(r, p, k, x) ==
    /\ call[r] = Idle
    /\ <<p, k>> \in DOMAIN byKey
    /\ UNCHANGED vars

\* self._cancellations[task_id] = outcome
RememberCancellation(t) == cancellations' = cancellations \cup {t}

\* TaskControlService.cancel of a task that is still running.
Cancel(r, p, t) ==
    /\ call[r] = Idle
    /\ t \in DOMAIN projections /\ tasks[t].owner = p
    /\ t \notin cancellations
    /\ projections[t].status \notin Terminal
    /\ Commit(Event(t, NextSequence(t), "task.cancellation_requested",
                    None, None))
    /\ projections' = [projections EXCEPT
                         ![t].status = "cancellation_requested"]
    /\ RememberCancellation(t)
    /\ Continue(r)
    /\ UNCHANGED <<byKey, tasks, approvals, published, notified, now>>

\* A replayed cancellation, a terminal task or somebody else's: nothing written.
ReplayCancel(r, p, t) ==
    /\ call[r] = Idle
    /\ t \in DOMAIN projections
    /\ \/ tasks[t].owner # p
       \/ t \in cancellations
       \/ projections[t].status \in Terminal
    /\ UNCHANGED vars

\* Mutant: a consumed approval is accepted again.
CanAnswer_Consumed(p, a, g) ==
    /\ approvals[a].owner = p
    /\ now < approvals[a].expires
    /\ approvals[a].digest = g

\* p may answer a: it owns it, and it is pending, unexpired and the one shown.
CanAnswer(p, a, g) ==
    /\ approvals[a].owner = p
    /\ approvals[a].status = "pending"
    /\ now < approvals[a].expires
    /\ approvals[a].digest = g

\* Mutant: the decision is recorded in the log and not in the approval.
Consume_Missing(a, d) == UNCHANGED approvals

\* self._approvals[approval_id] = updated
Consume(a, d) ==
    approvals' = [approvals EXCEPT ![a].status =
                    IF d = "approve" THEN "approved" ELSE "denied"]

\* Mutant: pending_approval is left in the projection.
Resolve_KeepsPending(t, d) ==
    projections' = [projections EXCEPT ![t].status =
                      IF d = "approve" THEN "executing" ELSE "denied"]

\* The projection after a decision: whatever its status was, it is overwritten.
Resolve(t, d) ==
    projections' = [projections EXCEPT ![t] =
        [status |-> IF d = "approve" THEN "executing" ELSE "denied",
         pending |-> None]]

\* TaskControlService.decide: consume one pending approval.
Decide(r, p, a, g, d) ==
    /\ call[r] = Idle
    /\ a \in DOMAIN approvals
    /\ CanAnswer(p, a, g)
    /\ LET t == approvals[a].task IN
         /\ Commit(Event(t, NextSequence(t), "approval.decided", a, d))
         /\ Resolve(t, d)
    /\ Consume(a, d)
    /\ Continue(r)
    /\ UNCHANGED <<byKey, tasks, cancellations, published, notified, now>>

\* 404, approval_consumed, approval_expired or approval_digest_mismatch.
RejectDecide(r, p, a, g) ==
    /\ call[r] = Idle
    /\ a \in DOMAIN approvals
    /\ ~CanAnswer(p, a, g)
    /\ UNCHANGED vars

\* Mutant: a publisher that raises ends the service call.
Publish_Raises(r) ==
    /\ call[r].stage = "publish"
    /\ \/ /\ published' = Append(published, call[r].position)
          /\ call' = [call EXCEPT ![r].stage = "notify"]
       \/ /\ published' = published
          /\ call' = [call EXCEPT ![r] = Idle]
    /\ UNCHANGED <<store, notified, now>>

\* event_publisher.publish(outcome.event): delivered, or raised and swallowed.
Publish(r) ==
    /\ call[r].stage = "publish"
    /\ \/ published' = Append(published, call[r].position)
       \/ published' = published
    /\ call' = [call EXCEPT ![r].stage = "notify"]
    /\ UNCHANGED <<store, notified, now>>

\* notifier.notify(task_id); a failure is swallowed too, so the call ends.
Notify(r) ==
    /\ call[r].stage = "notify"
    /\ notified' = notified \cup {call[r].position}
    /\ call' = [call EXCEPT ![r] = Idle]
    /\ UNCHANGED <<store, published, now>>

--------------------------------------------------------------------------------
(* The workflow's side of the repository                                      *)

\* Where the workflow takes a task without asking anybody: the status each
\* node of the graph leaves behind.
WorkflowMoves(s) ==
    CASE s = "created" -> {"planning"}
      [] s = "planning" -> {"executing", "denied"}
      [] s = "executing" -> {"verifying"}
      [] s = "verifying" -> {"planning", "succeeded", "partially_succeeded",
                             "failed"}
      [] s = "awaiting_approval" -> {"expired"}
      [] s = "cancellation_requested" -> {"cancelled"}
      [] OTHER -> {}

\* replace_projection of an existing task, keeping its identity.
WorkflowWrite(t, s) ==
    /\ t \in DOMAIN tasks
    /\ s \in WorkflowMoves(projections[t].status)
    /\ s = "expired" => approvals[projections[t].pending].expires <= now
    /\ projections' = [projections EXCEPT ![t] = [status |-> s, pending |-> None]]
    /\ UNCHANGED <<byKey, tasks, events, outbox, cancellations, approvals,
                   call, published, notified, now>>

\* append_event_for_test: the workflow's own event, which wakes nobody.
WorkflowEvent(t) ==
    /\ t \in DOMAIN tasks
    /\ Len(events) < MaxEvents
    /\ events' = Append(events,
                        Event(t, NextSequence(t), "workflow", None, None))
    /\ UNCHANGED <<byKey, tasks, projections, outbox, cancellations, approvals,
                   call, published, notified, now>>

\* put_pending_approval_for_test: planning pauses on an approval.
OpenApproval(t, a, g, expires) ==
    /\ t \in DOMAIN projections
    /\ projections[t].status = "planning"
    /\ a \notin DOMAIN approvals
    /\ approvals' = Put(approvals, a,
                        [task |-> t, owner |-> tasks[t].owner, digest |-> g,
                         expires |-> expires, status |-> "pending"])
    /\ projections' = [projections EXCEPT ![t] =
                         [status |-> "awaiting_approval", pending |-> a]]
    /\ UNCHANGED <<byKey, tasks, events, outbox, cancellations,
                   call, published, notified, now>>

Tick ==
    /\ now < MaxTime
    /\ now' = now + 1
    /\ UNCHANGED <<store, call, published, notified>>

--------------------------------------------------------------------------------
Init ==
    /\ byKey = EmptyDict /\ tasks = EmptyDict /\ projections = EmptyDict
    /\ events = << >> /\ outbox = << >>
    /\ cancellations = {} /\ approvals = EmptyDict
    /\ call = [r \in Request |-> Idle]
    /\ published = << >> /\ notified = {}
    /\ now = 0

ServiceCall(r) ==
    \E p \in Principal :
        \/ \E k \in Key, x \in Hash : Create(r, p, k, x) \/ ReplayCreate(r, p, k, x)
        \/ \E t \in Task : Cancel(r, p, t) \/ ReplayCancel(r, p, t)
        \/ \E a \in Approval, g \in Digest :
              \/ \E d \in Decision : Decide(r, p, a, g, d)
              \/ RejectDecide(r, p, a, g)

Workflow ==
    \E t \in Task :
        \/ \E s \in Status : WorkflowWrite(t, s)
        \/ WorkflowEvent(t)
        \/ \E a \in Approval, g \in Digest, expires \in 1 .. MaxTime :
              OpenApproval(t, a, g, expires)

Next ==
    \/ \E r \in Request : ServiceCall(r) \/ Publish(r) \/ Notify(r)
    \/ Workflow
    \/ Tick

\* A service call that has committed is a coroutine the event loop resumes.
Fairness == \A r \in Request : WF_vars(Publish(r)) /\ WF_vars(Notify(r))

Spec == Init /\ [][Next]_vars /\ Fairness
--------------------------------------------------------------------------------
(* Reads                                                                      *)

\* Mutant: the cursor's own event is sent again.
EventPage_Inclusive(t, after, limit) ==
    LET found == {events[i].sequence : i \in
                    {j \in DOMAIN events :
                       events[j].task = t /\ events[j].sequence >= after}}
        window == {n \in found : Cardinality({m \in found : m < n}) < limit}
    IN  [events |-> window,
         next_cursor |-> IF window = {} THEN after ELSE Max(window),
         has_more |-> Cardinality(found) > limit]

\* list_authorized_events: the events of t after a cursor, in sequence order,
\* at most `limit` of them, and whether more were there.
EventPage(t, after, limit) ==
    LET later == {i \in DOMAIN events :
                    events[i].task = t /\ events[i].sequence > after}
        found == {events[i].sequence : i \in later}
        window == {n \in found : Cardinality({m \in found : m < n}) < limit}
    IN  [events |-> window,
         next_cursor |-> IF window = {} THEN after ELSE Max(window),
         has_more |-> Cardinality(found) > limit]

--------------------------------------------------------------------------------
(* Types                                                                      *)

IsDict(f, K, V) == DOMAIN f \subseteq K /\ f \in [DOMAIN f -> V]

TypeOK ==
    /\ IsDict(byKey, Principal \X Key, Task)
    /\ IsDict(tasks, Task, TaskRecord)
    /\ IsDict(projections, Task, ProjectionRecord)
    /\ events \in Seq(EventRecord)
    /\ outbox \in Seq(OutboxRecord)
    /\ cancellations \subseteq Task
    /\ IsDict(approvals, Approval, ApprovalRecord)
    /\ call \in [Request -> [stage : {"idle", "publish", "notify"},
                             position : Nat]]
    /\ published \in Seq(Nat)
    /\ notified \subseteq Nat
    /\ now \in 0 .. MaxTime

--------------------------------------------------------------------------------
(* Safety                                                                     *)

Wakes(i) == events[i].type # "workflow"

\* However creations, cancellations, decisions and workflow events interleave,
\* the log of each task is 1, 2, 3, ... in commit order: no number is used
\* twice, none is skipped, and a later event never has a smaller number.
\* Cursors and the gap detection of live streams rest on it.
SequencesContiguous ==
    \A i \in DOMAIN events :
        /\ \A j \in DOMAIN events :
             (j < i /\ events[j].task = events[i].task)
               => events[j].sequence < events[i].sequence
        /\ \/ events[i].sequence = 1
           \/ \E j \in DOMAIN events :
                /\ events[j].task = events[i].task
                /\ events[j].sequence = events[i].sequence - 1

\* "Producers write domain change and outbox record atomically": every event
\* that must wake the workflow has exactly one outbox record, and no outbox
\* record names an event that is not in the log.
OutboxMatchesEvents ==
    /\ \A i \in DOMAIN events : Wakes(i) =>
         \E k \in DOMAIN outbox :
            /\ outbox[k].task = events[i].task
            /\ outbox[k].sequence = events[i].sequence
            /\ outbox[k].type = events[i].type
    /\ \A k \in DOMAIN outbox :
         \E i \in DOMAIN events :
            /\ Wakes(i)
            /\ outbox[k].task = events[i].task
            /\ outbox[k].sequence = events[i].sequence
            /\ outbox[k].type = events[i].type
    /\ \A k, l \in DOMAIN outbox :
         (outbox[k].task = outbox[l].task /\ outbox[k].sequence = outbox[l].sequence)
           => k = l

\* An idempotency scope (actor, device, key) belongs to one task for ever: the
\* index and the tasks agree in both directions, so two concurrent creations
\* with one key cannot leave two tasks.
OneTaskPerScope ==
    /\ \A s \in DOMAIN byKey :
         /\ byKey[s] \in DOMAIN tasks
         /\ <<tasks[byKey[s]].owner, tasks[byKey[s]].key>> = s
    /\ \A t \in DOMAIN tasks :
         /\ <<tasks[t].owner, tasks[t].key>> \in DOMAIN byKey
         /\ byKey[<<tasks[t].owner, tasks[t].key>>] = t

\* An approval is consumed once: a consumed approval has exactly one
\* "approval.decided" event, in the log of its own task and with the decision
\* its record carries; a pending one has none.
DecidedOnce ==
    /\ \A i, j \in DOMAIN events :
         /\ events[i].type = "approval.decided"
         /\ events[j].type = "approval.decided"
         /\ events[i].approval = events[j].approval
         => i = j
    /\ \A i \in DOMAIN events : events[i].type = "approval.decided" =>
         /\ events[i].approval \in DOMAIN approvals
         /\ approvals[events[i].approval].task = events[i].task
         /\ approvals[events[i].approval].status =
              IF events[i].decision = "approve" THEN "approved" ELSE "denied"
    /\ \A a \in DOMAIN approvals : approvals[a].status # "pending" =>
         \E i \in DOMAIN events :
            events[i].type = "approval.decided" /\ events[i].approval = a

\* A cancellation is recorded once per task, with its event: replays find it.
CancelledOnce ==
    /\ \A i, j \in DOMAIN events :
         /\ events[i].type = "task.cancellation_requested"
         /\ events[j].type = "task.cancellation_requested"
         /\ events[i].task = events[j].task
         => i = j
    /\ \A i \in DOMAIN events :
         events[i].type = "task.cancellation_requested"
           => events[i].task \in cancellations
    /\ \A t \in cancellations :
         \E i \in DOMAIN events :
            /\ events[i].type = "task.cancellation_requested"
            /\ events[i].task = t

\* What a client may retry is recorded once.
RecordedOnce == DecidedOnce /\ CancelledOnce

\* The approval a task shows is one that can still be answered for that task,
\* and a task that waits for an approval shows one: nobody is asked about an
\* approval already consumed, and no task waits for an answer nobody can give.
PendingApprovalIsLive ==
    \A t \in DOMAIN projections :
        /\ projections[t].pending # None =>
             /\ projections[t].pending \in DOMAIN approvals
             /\ approvals[projections[t].pending].task = t
             /\ approvals[projections[t].pending].status = "pending"
        /\ projections[t].status = "awaiting_approval"
             => projections[t].pending # None

\* The service publishes what is committed, and each event once: a replayed
\* request and a failed publisher never make subscribers see an event twice,
\* and an event on its way to publication is not published yet.
PublishedOnce ==
    /\ \A m \in DOMAIN published : published[m] \in DOMAIN events
    /\ \A m, n \in DOMAIN published : published[m] = published[n] => m = n
    /\ \A r \in Request : call[r].stage = "publish" =>
         /\ call[r].position \in DOMAIN events
         /\ \A m \in DOMAIN published : published[m] # call[r].position
         /\ \A q \in Request \ {r} : call[q].position # call[r].position

\* A client that pages from any cursor with any limit sees every later event
\* exactly once: a page continues its cursor without a gap, the next cursor is
\* the end of the page, and has_more says whether events were left out.
PagesAreContiguous ==
    \A t \in DOMAIN tasks, after \in 0 .. MaxEvents, limit \in 1 .. 2 :
        LET page == EventPage(t, after, limit)
            last == NextSequence(t) - 1
        IN  /\ page.events = (after + 1) .. page.next_cursor
            /\ page.has_more <=> page.next_cursor < last
            /\ after < last => page.next_cursor \in (after + 1) .. last

\* The event log and the outbox are only ever appended to, a task never changes
\* its owner or its request, and a consumed approval never changes again.
HistoryIsImmutable ==
    [][/\ Len(events) <= Len(events') /\ SubSeq(events', 1, Len(events)) = events
       /\ Len(outbox) <= Len(outbox') /\ SubSeq(outbox', 1, Len(outbox)) = outbox
       /\ \A t \in DOMAIN tasks : t \in DOMAIN tasks' /\ tasks'[t] = tasks[t]
       /\ \A a \in DOMAIN approvals : approvals[a].status # "pending" =>
            a \in DOMAIN approvals' /\ approvals'[a] = approvals[a]]_vars

--------------------------------------------------------------------------------
(* Liveness                                                                   *)

\* Whatever the publisher does, the workflow is woken for every commit: a
\* publish that fails does not keep notify from being called.
EveryCommitIsNotified ==
    \A i \in 1 .. MaxEvents :
        (i \in DOMAIN events /\ Wakes(i)) ~> i \in notified

--------------------------------------------------------------------------------
(* Refinement                                                                 *)

Ledger == INSTANCE TaskLedger WITH
    ledger <- {events[i] : i \in DOMAIN events},
    wakeups <- {<<outbox[k].task, outbox[k].sequence>> : k \in DOMAIN outbox}

\* The control plane implements the task ledger: every step appends the next
\* event of one task together with its wake-up, or changes neither.
ImplementsLedger == Ledger!Spec

\* The log as the live stream sees it.
Committed == {<<events[i].task, events[i].sequence>> : i \in DOMAIN events}

Unpublished ==
    {<<events[call[r].position].task, events[call[r].position].sequence>> :
        r \in {q \in Request : call[q].stage = "publish"}}

Feed == INSTANCE TaskFeed WITH committed <- Committed, unpublished <- Unpublished

\* As long as nobody appends events that are not published (the workflow's own,
\* for which the repository has a test helper only), the control plane is the feed
\* that the live stream relies on, whatever the publisher does with the events.
ImplementsFeed == Feed!Spec

\* A page the repository reads is the feed's.
PageOfFeed(t, after, limit) ==
    LET page == EventPage(t, after, limit)
    IN  /\ page.events = Feed!Page(t, after, limit)
        /\ page.has_more <=> Feed!HasMore(t, after, limit)

--------------------------------------------------------------------------------
(* What the documentation promises of task statuses                           *)

\* "A terminal task is never reopened" (07-STATE_DESIGN.md).
TerminalNeverReopened ==
    [][\A t \in DOMAIN projections :
          projections[t].status \in Terminal =>
              projections'[t].status = projections[t].status]_vars

\* "Only declared transitions are accepted": execution is entered from
\* planning or from a granted approval, never after a cancellation request.
CancellationNotOverridden ==
    [][\A t \in DOMAIN projections :
          projections[t].status = "cancellation_requested" =>
              projections'[t].status # "executing"]_vars
================================================================================
