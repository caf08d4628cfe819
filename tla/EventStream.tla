----------------------------- MODULE EventStream -----------------------------
(***************************************************************************)
(* Live task events: the connection registry, the bounded broker and the   *)
(* WebSocket session of websocket/session.py, with a client at the end of  *)
(* each connection.                                                        *)
(*                                                                         *)
(* The event log is what TaskStore proves of it: for each task the         *)
(* sequences 1 .. log[t].  A committed event waits in unpublished until    *)
(* its service call reaches the broker; two calls may get there in either  *)
(* order.                                                                  *)
(*                                                                         *)
(* A session is one coroutine.  It gives way to others only at an await    *)
(* that can suspend: the wait for a frame or a broker message, a page      *)
(* read, and every send.  What runs between two of those is one action     *)
(* here; the locks of registry and broker are never contended.             *)
(***************************************************************************)
EXTENDS Integers, Sequences, FiniteSets

CONSTANTS
    Task,              \* tasks the clients ask for
    Readable,          \* those their principal owns
    Conn,              \* connection ids
    MaxConnections,    \* LiveConnectionRegistry.max_connections
    MaxSubscriptions,  \* LiveConnectionRegistry.max_subscriptions
    QueueSize,         \* the broker's queue_size
    PageSize,          \* streamTaskEvents: page_size
    BadFrames,         \* whether clients send frames answered by an error
    MaxEvents          \* bound: events of one task

ASSUME SizesAssumption ==
    /\ MaxConnections \in Nat /\ MaxSubscriptions \in Nat
    /\ QueueSize \in Nat \ {0} /\ PageSize \in Nat \ {0}
    /\ MaxEvents \in Nat /\ BadFrames \in BOOLEAN
ASSUME TasksAssumption == Readable \subseteq Task /\ Task # {}

VARIABLES
    log,          \* the events of t in the repository are 1 .. log[t]
    unpublished,  \* committed events the broker has not been given yet
    open,         \* keys of LiveConnectionRegistry._connections
    subs,         \* LiveConnection.subscriptions
    registered,   \* keys of the broker's _queues and _subscriptions
    brokerSubs,   \* the broker's _subscriptions
    queue,        \* the broker's _queues
    pc,           \* where each session's coroutine is
    cursors,      \* the session's cursors; NoCursor for a missing key
    held,         \* broker messages taken together with a frame, at most one
    replay,       \* the subscription being replayed
    seen,         \* client: last sequence received of each task
    live          \* client: tasks it believes to be streamed to it

server == <<open, subs, registered, brokerSubs, queue>>
session == <<pc, cursors, held, replay>>
client == <<seen, live>>
vars == <<log, unpublished, server, session, client>>

NoCursor == -1

\* Session states: not running, before the welcome frame, waiting for a frame
\* or a message (which is there already when the wait is "ready"), reading a
\* page, sending a page, handling a broker message.
Stage == {"closed", "welcoming", "waiting", "ready", "paging", "replaying",
          "deliver"}

\* queue.get() of a queue that is not empty is done as soon as the wait begins.
Wait(q) == IF q = << >> THEN "waiting" ELSE "ready"

NoReplay == [task |-> CHOOSE t \in Task : TRUE, cursor |-> 0, upto |-> 0,
             more |-> FALSE]

EventMsg(t, n) == [kind |-> "event", task |-> t, sequence |-> n]
ResyncMsg(t) == [kind |-> "resync", task |-> t, sequence |-> 0]

Message == [kind : {"event", "resync"}, task : Task, sequence : 0 .. MaxEvents]

--------------------------------------------------------------------------------
(* Commits and the broker                                                     *)

Commit(t) ==
    /\ t \in Readable
    /\ log[t] < MaxEvents
    /\ log' = [log EXCEPT ![t] = @ + 1]
    /\ unpublished' = unpublished \cup {<<t, log[t] + 1>>}
    /\ UNCHANGED <<server, session, client>>

Targets(t) == {c \in registered : t \in brokerSubs[c]}

Full(c) == Len(queue[c]) >= QueueSize

\* put_nowait, or a queue drained of everything and one resync message.
Enqueue(c, t, n) ==
    IF Full(c) THEN <<ResyncMsg(t)>> ELSE Append(queue[c], EventMsg(t, n))

\* InMemoryTaskEventBroker.publish: every subscriber in one critical section.
Publish(t, n) ==
    /\ <<t, n>> \in unpublished
    /\ unpublished' = unpublished \ {<<t, n>>}
    /\ queue' = [c \in Conn |->
                   IF c \in Targets(t) THEN Enqueue(c, t, n) ELSE queue[c]]
    /\ brokerSubs' = [c \in Conn |->
                        IF c \in Targets(t) /\ Full(c) THEN brokerSubs[c] \ {t}
                                                       ELSE brokerSubs[c]]
    /\ UNCHANGED <<log, open, subs, registered, session, client>>

--------------------------------------------------------------------------------
(* Opening and closing a session                                              *)

\* Mutant: one connection too many.
HasRoom_OffByOne == Cardinality(open) <= MaxConnections

HasRoom == Cardinality(open) < MaxConnections

\* connections.open and broker.register; a fresh connection id each time.
Open(c) ==
    /\ pc[c] = "closed" /\ c \notin open
    /\ HasRoom
    /\ open' = open \cup {c}
    /\ subs' = [subs EXCEPT ![c] = {}]
    /\ registered' = registered \cup {c}
    /\ brokerSubs' = [brokerSubs EXCEPT ![c] = {}]
    /\ queue' = [queue EXCEPT ![c] = << >>]
    /\ cursors' = [cursors EXCEPT ![c] = [t \in Task |-> NoCursor]]
    /\ pc' = [pc EXCEPT ![c] = "welcoming"]
    /\ UNCHANGED <<log, unpublished, held, replay, client>>

\* No room: the handshake is refused with 4429.
RefuseOpen == ~HasRoom /\ UNCHANGED vars

\* accept and the welcome frame reach the client.
Welcome(c) ==
    /\ pc[c] = "welcoming"
    /\ pc' = [pc EXCEPT ![c] = Wait(queue[c])]
    /\ UNCHANGED <<log, unpublished, server, cursors, held, replay, client>>

\* accept or the welcome frame raises: the coroutine ends before its try.
WelcomeFails(c) ==
    /\ pc[c] = "welcoming"
    /\ pc' = [pc EXCEPT ![c] = "closed"]
    /\ UNCHANGED <<log, unpublished, server, cursors, held, replay, client>>

\* Mutant: the queue and the subscriptions stay with the broker.
Cleanup_BrokerForgotten(c) ==
    /\ open' = open \ {c}
    /\ UNCHANGED <<registered, queue, brokerSubs>>

\* broker.unregister and connections.close.
Cleanup(c) ==
    /\ open' = open \ {c}
    /\ registered' = registered \ {c}
    /\ queue' = [queue EXCEPT ![c] = << >>]
    /\ brokerSubs' = [brokerSubs EXCEPT ![c] = {}]

\* A disconnect noticed at any await, or a frame too large or too frequent:
\* the finally block cleans up.  The client keeps what it has seen.
EndSession(c) ==
    /\ pc[c] \notin {"closed", "welcoming"}
    /\ pc' = [pc EXCEPT ![c] = "closed"]
    /\ Cleanup(c)
    /\ subs' = [subs EXCEPT ![c] = {}]
    /\ cursors' = [cursors EXCEPT ![c] = [t \in Task |-> NoCursor]]
    /\ held' = [held EXCEPT ![c] = << >>]
    /\ replay' = [replay EXCEPT ![c] = NoReplay]
    /\ live' = [live EXCEPT ![c] = {}]
    /\ UNCHANGED <<log, unpublished, seen>>

--------------------------------------------------------------------------------
(* One round of the session's loop                                            *)

Waiting(c) == pc[c] \in {"waiting", "ready"}

\* The broker's half of asyncio.wait is done: its message leaves the queue.
Take(c) ==
    /\ queue[c] # << >>
    /\ queue' = [queue EXCEPT ![c] = Tail(@)]

\* asyncio.wait returns with a broker message and no frame (or with a frame
\* that changes nothing, a ping).
TakeMessage(c) ==
    /\ Waiting(c)
    /\ Take(c)
    /\ held' = [held EXCEPT ![c] = <<Head(queue[c])>>]
    /\ pc' = [pc EXCEPT ![c] = "deliver"]
    /\ UNCHANGED <<log, unpublished, open, subs, registered, brokerSubs,
                   cursors, replay, client>>

\* asyncio.wait returns with a frame: alone, when no message was there as the
\* wait began, or together with a message.
Receive(c) ==
    \/ pc[c] = "waiting" /\ UNCHANGED <<held, queue>>
    \/ /\ Waiting(c)
       /\ Take(c)
       /\ held' = [held EXCEPT ![c] = <<Head(queue[c])>>]

\* The continue after an error answer begins the next wait: a message taken in
\* the same wait as the frame is never handled.
ReceiveAndContinue(c) ==
    /\ \/ pc[c] = "waiting" /\ UNCHANGED queue
       \/ Waiting(c) /\ Take(c)
    /\ UNCHANGED held
    /\ pc' = [pc EXCEPT ![c] = Wait(queue'[c])]

\* connections.subscribe answers True.
MaySubscribe(c, t) == t \in subs[c] \/ Cardinality(subs[c]) < MaxSubscriptions

\* Mutant: the broker is told of the subscription after the replay only.
Subscribe_BrokerLate(c, t) ==
    /\ subs' = [subs EXCEPT ![c] = @ \cup {t}]
    /\ UNCHANGED brokerSubs

\* connections.subscribe and broker.subscribe, before the first page is read.
Subscribe(c, t) ==
    /\ subs' = [subs EXCEPT ![c] = @ \cup {t}]
    /\ brokerSubs' = [brokerSubs EXCEPT ![c] = @ \cup {t}]

\* task.subscribe from a cursor: the replay starts.  The client resumes after
\* what it has, or reads from the beginning.
ReceiveSubscribe(c, t, after) ==
    /\ Receive(c)
    /\ t \in Readable /\ after \in {0, seen[c][t]}
    /\ MaySubscribe(c, t)
    /\ Subscribe(c, t)
    /\ pc' = [pc EXCEPT ![c] = "paging"]
    /\ replay' = [replay EXCEPT ![c] = [NoReplay EXCEPT !.task = t,
                                                        !.cursor = after]]
    /\ seen' = [seen EXCEPT ![c][t] = after]
    /\ live' = [live EXCEPT ![c] = @ \ {t}]
    /\ UNCHANGED <<log, unpublished, open, registered, cursors>>

\* subscription_denied: an unknown task or an impossible cursor.  Registry and
\* broker forget the task, the session's cursor stays.
ReceiveDenied(c, t) ==
    /\ BadFrames
    /\ ReceiveAndContinue(c)
    /\ MaySubscribe(c, t)
    /\ subs' = [subs EXCEPT ![c] = @ \ {t}]
    /\ brokerSubs' = [brokerSubs EXCEPT ![c] = @ \ {t}]
    /\ live' = [live EXCEPT ![c] = @ \ {t}]
    /\ UNCHANGED <<log, unpublished, open, registered, cursors, replay, seen>>

\* invalid_json, invalid_subscription or subscription_limit.
ReceiveInvalid(c) ==
    /\ BadFrames
    /\ ReceiveAndContinue(c)
    /\ UNCHANGED <<log, unpublished, open, subs, registered, brokerSubs,
                   cursors, replay, client>>

\* task.unsubscribe, then the message that came with it.
ReceiveUnsubscribe(c, t) ==
    /\ Receive(c)
    /\ cursors' = [cursors EXCEPT ![c][t] = NoCursor]
    /\ subs' = [subs EXCEPT ![c] = @ \ {t}]
    /\ brokerSubs' = [brokerSubs EXCEPT ![c] = @ \ {t}]
    /\ live' = [live EXCEPT ![c] = @ \ {t}]
    /\ pc' = [pc EXCEPT ![c] = "deliver"]
    /\ UNCHANGED <<log, unpublished, open, registered, replay, seen>>

--------------------------------------------------------------------------------
(* Replay                                                                     *)

\* The last event of the page after a cursor (list_authorized_events).
PageEnd(t, after) ==
    IF after + PageSize < log[t] THEN after + PageSize ELSE log[t]

\* service.list: the next page of the durable log.
ReplayPage(c) ==
    /\ pc[c] = "paging"
    /\ LET r == replay[c]
           upto == PageEnd(r.task, r.cursor)
       IN  replay' = [replay EXCEPT ![c].upto = upto,
                                    ![c].more = upto < log[r.task]]
    /\ pc' = [pc EXCEPT ![c] = "replaying"]
    /\ UNCHANGED <<log, unpublished, server, cursors, held, client>>

\* One event of the page is sent.
ReplaySend(c) ==
    /\ pc[c] = "replaying"
    /\ LET r == replay[c] IN
         /\ r.cursor < r.upto
         /\ replay' = [replay EXCEPT ![c].cursor = @ + 1]
         /\ seen' = [seen EXCEPT ![c][r.task] = r.cursor + 1]
    /\ UNCHANGED <<log, unpublished, server, pc, cursors, held, live>>

NextPage(c) ==
    /\ pc[c] = "replaying"
    /\ replay[c].cursor >= replay[c].upto /\ replay[c].more
    /\ pc' = [pc EXCEPT ![c] = "paging"]
    /\ UNCHANGED <<log, unpublished, server, cursors, held, replay, client>>

\* Mutant: the cursor the client asked from, not the one replay reached.
StartCursor_Asked(c) == 0

\* cursors[task_id] = cursor
StartCursor(c) == replay[c].cursor

\* The last page is out: the cursor is kept and task.subscribed is sent.
FinishReplay(c) ==
    /\ pc[c] = "replaying"
    /\ replay[c].cursor >= replay[c].upto /\ ~replay[c].more
    /\ cursors' = [cursors EXCEPT ![c][replay[c].task] = StartCursor(c)]
    /\ live' = [live EXCEPT ![c] = @ \cup {replay[c].task}]
    /\ replay' = [replay EXCEPT ![c] = NoReplay]
    /\ pc' = [pc EXCEPT ![c] = "deliver"]
    /\ UNCHANGED <<log, unpublished, server, held, seen>>

--------------------------------------------------------------------------------
(* Handling a broker message                                                  *)

\* Mutant: gaps are not noticed.
Verdict_NoGap(cursor, m) ==
    IF cursor = NoCursor THEN "ignore"
    ELSE IF m.kind = "resync" THEN "resync"
    ELSE IF m.sequence <= cursor THEN "ignore"
    ELSE "send"

\* What the session makes of a message, given the cursor of its task.
Verdict(cursor, m) ==
    IF cursor = NoCursor THEN "ignore"
    ELSE IF m.kind = "resync" THEN "resync"
    ELSE IF m.sequence <= cursor THEN "ignore"
    ELSE IF m.sequence = cursor + 1 THEN "send"
    ELSE "gap"

\* resync.required: the session forgets the task and tells the client.  After a
\* gap the broker forgets it too; after an overflow it already has.
Resync(c, t, leaveBroker) ==
    /\ cursors' = [cursors EXCEPT ![c][t] = NoCursor]
    /\ subs' = [subs EXCEPT ![c] = @ \ {t}]
    /\ brokerSubs' = IF leaveBroker THEN [brokerSubs EXCEPT ![c] = @ \ {t}]
                                    ELSE brokerSubs
    /\ live' = [live EXCEPT ![c] = @ \ {t}]
    /\ UNCHANGED seen

SendEvent(c, m) ==
    /\ cursors' = [cursors EXCEPT ![c][m.task] = m.sequence]
    /\ seen' = [seen EXCEPT ![c][m.task] = m.sequence]
    /\ UNCHANGED <<subs, brokerSubs, live>>

\* The end of a round: the message taken in the wait, if there is one.
Deliver(c) ==
    /\ pc[c] = "deliver"
    /\ \/ /\ held[c] = << >>
          /\ UNCHANGED <<subs, brokerSubs, cursors, client>>
       \/ /\ held[c] # << >>
          /\ LET m == Head(held[c])
                 verdict == Verdict(cursors[c][m.task], m)
             IN  \/ /\ verdict = "ignore"
                    /\ UNCHANGED <<subs, brokerSubs, cursors, client>>
                 \/ verdict = "resync" /\ Resync(c, m.task, FALSE)
                 \/ verdict = "gap" /\ Resync(c, m.task, TRUE)
                 \/ verdict = "send" /\ SendEvent(c, m)
    /\ held' = [held EXCEPT ![c] = << >>]
    /\ pc' = [pc EXCEPT ![c] = Wait(queue[c])]
    /\ UNCHANGED <<log, unpublished, open, registered, queue, replay>>

--------------------------------------------------------------------------------
Init ==
    /\ log = [t \in Task |-> 0] /\ unpublished = {}
    /\ open = {} /\ registered = {}
    /\ subs = [c \in Conn |-> {}] /\ brokerSubs = [c \in Conn |-> {}]
    /\ queue = [c \in Conn |-> << >>]
    /\ pc = [c \in Conn |-> "closed"]
    /\ cursors = [c \in Conn |-> [t \in Task |-> NoCursor]]
    /\ held = [c \in Conn |-> << >>]
    /\ replay = [c \in Conn |-> NoReplay]
    /\ seen = [c \in Conn |-> [t \in Task |-> 0]]
    /\ live = [c \in Conn |-> {}]

\* What a running session does by itself.
Step(c) ==
    \/ Welcome(c) \/ TakeMessage(c)
    \/ ReplayPage(c) \/ ReplaySend(c) \/ NextPage(c) \/ FinishReplay(c)
    \/ Deliver(c)

ClientFrame(c) ==
    \/ ReceiveInvalid(c)
    \/ \E t \in Task :
        \/ \E after \in 0 .. MaxEvents : ReceiveSubscribe(c, t, after)
        \/ ReceiveDenied(c, t)
        \/ ReceiveUnsubscribe(c, t)

Next ==
    \/ \E t \in Task : Commit(t) \/ \E n \in 1 .. MaxEvents : Publish(t, n)
    \/ RefuseOpen
    \/ \E c \in Conn :
        Open(c) \/ WelcomeFails(c) \/ EndSession(c) \/ ClientFrame(c) \/ Step(c)

\* The event loop resumes every coroutine that can run: service calls reach
\* the broker, and a session handles what it has received.  Nothing obliges a
\* client to send anything, or a connection to open or to end.
Fairness ==
    /\ \A t \in Task, n \in 1 .. MaxEvents : WF_vars(Publish(t, n))
    /\ \A c \in Conn : WF_vars(Step(c))

Spec == Init /\ [][Next]_vars /\ Fairness

--------------------------------------------------------------------------------
(* Types                                                                      *)

\* Type invariant, with the limits: queues, subscriptions and connections never
\* exceed theirs, whatever the clients and the publishers do.
TypeOK ==
    /\ log \in [Task -> 0 .. MaxEvents]
    /\ unpublished \subseteq Task \X (1 .. MaxEvents)
    /\ open \subseteq Conn /\ registered \subseteq Conn
    /\ Cardinality(open) <= MaxConnections
    /\ subs \in [Conn -> SUBSET Task] /\ brokerSubs \in [Conn -> SUBSET Task]
    /\ pc \in [Conn -> Stage]
    /\ cursors \in [Conn -> [Task -> {NoCursor} \cup 0 .. MaxEvents]]
    /\ queue \in [Conn -> Seq(Message)] /\ held \in [Conn -> Seq(Message)]
    /\ \A c \in Conn :
         /\ Len(queue[c]) <= QueueSize /\ Len(held[c]) <= 1
         /\ Cardinality(subs[c]) <= MaxSubscriptions
    /\ replay \in [Conn -> [task : Task, cursor : 0 .. MaxEvents,
                            upto : 0 .. MaxEvents, more : BOOLEAN]]
    /\ seen \in [Conn -> [Task -> 0 .. MaxEvents]]
    /\ live \in [Conn -> SUBSET Task]

--------------------------------------------------------------------------------
(* Safety                                                                     *)

\* A client never sees an event twice or out of order, and never misses one
\* silently inside a subscription: each event it receives of a task follows the
\* last one it has, whether it comes from the replay or from the live stream,
\* and whatever order the broker was given them in.
InOrder ==
    [][\A c \in Conn, t \in Task :
         seen'[c][t] # seen[c][t] =>
            \/ seen'[c][t] = seen[c][t] + 1
            \/ replay'[c].task = t /\ pc'[c] = "paging"]_vars

\* The cursor a resync.required names is the last event the client has, so the
\* page it then asks for continues its view.
CursorIsWhatWasSeen ==
    \A c \in Conn, t \in Task :
        (cursors[c][t] # NoCursor /\ ~(pc[c] \in {"paging", "replaying"}
                                        /\ replay[c].task = t))
            => cursors[c][t] = seen[c][t]

\* The broker serves exactly the connections of the registry: after a session
\* ends nothing is put into its queue any more.
BrokerMatchesRegistry ==
    /\ registered = open
    /\ \A c \in Conn \ registered : queue[c] = << >> /\ brokerSubs[c] = {}

\* Every slot of the registry is held by a session that runs ("deterministic
\* cleanup").
SlotsBelongToSessions == \A c \in open : pc[c] # "closed"

--------------------------------------------------------------------------------
(* What the stream relies on                                                  *)

Committed == {e \in Task \X (1 .. MaxEvents) : e[2] <= log[e[1]]}

Feed == INSTANCE TaskFeed WITH committed <- Committed

\* The events around the stream are those of the feed that TaskStore implements.
FollowsFeed == Feed!Spec

\* The pages a replay reads are the feed's.
PagesOfFeed ==
    \A c \in Conn : pc[c] = "paging" =>
        LET r == replay[c]
            upto == PageEnd(r.task, r.cursor)
        IN  /\ (r.cursor + 1) .. upto = Feed!Page(r.task, r.cursor, PageSize)
            /\ upto < log[r.task] <=> Feed!HasMore(r.task, r.cursor, PageSize)

--------------------------------------------------------------------------------
(* Liveness                                                                   *)

\* A client that was told it is subscribed gets every event of the task, or is
\* told to resynchronise: it is never left with a stale view in silence.
StreamIsLive ==
    \A c \in Conn, t \in Task, n \in 1 .. MaxEvents :
        (t \in live[c] /\ log[t] >= n /\ seen[c][t] < n)
            ~> (t \notin live[c] \/ seen[c][t] >= n)
================================================================================
