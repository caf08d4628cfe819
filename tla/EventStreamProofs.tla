--------------------------- MODULE EventStreamProofs ---------------------------
(***************************************************************************)
(* Proofs about EventStream, for every number of tasks, connections and    *)
(* events and for every limit of registry, broker and pages.               *)
(***************************************************************************)
EXTENDS EventStream, FiniteSetTheorems, TLAPS

\* Every kind of step of one connection, for the proofs that go through them.
ConnStep(c) ==
    \/ Open(c) \/ Welcome(c) \/ WelcomeFails(c) \/ EndSession(c)
    \/ TakeMessage(c) \/ ReceiveInvalid(c)
    \/ \E t \in Task, after \in 0 .. MaxEvents : ReceiveSubscribe(c, t, after)
    \/ \E t \in Task : ReceiveDenied(c, t)
    \/ \E t \in Task : ReceiveUnsubscribe(c, t)
    \/ ReplayPage(c) \/ ReplaySend(c) \/ NextPage(c) \/ FinishReplay(c)
    \/ Deliver(c)

AnyStep ==
    \/ \E t \in Task : Commit(t)
    \/ \E t \in Task, n \in 1 .. MaxEvents : Publish(t, n)
    \/ \E c \in Conn : ConnStep(c)
    \/ UNCHANGED vars

LEMMA NextIsStep == [Next]_vars => AnyStep
<1>1. ASSUME NEW c \in Conn,
             Open(c) \/ WelcomeFails(c) \/ EndSession(c) \/ ClientFrame(c) \/ Step(c)
      PROVE  ConnStep(c)
  BY <1>1 DEF ClientFrame, Step, ConnStep
<1> QED  BY <1>1 DEF Next, RefuseOpen, AnyStep

--------------------------------------------------------------------------------
(* Types and limits                                                           *)

\* The types by the part of the system that keeps them, with the sets that have
\* to be finite for their sizes to mean anything.
LogTyped ==
    /\ log \in [Task -> 0 .. MaxEvents]
    /\ unpublished \subseteq Task \X (1 .. MaxEvents)

RegistryTyped ==
    /\ open \subseteq Conn /\ registered \subseteq Conn
    /\ IsFiniteSet(open) /\ Cardinality(open) <= MaxConnections
    /\ subs \in [Conn -> SUBSET Task] /\ brokerSubs \in [Conn -> SUBSET Task]
    /\ \A c \in Conn : IsFiniteSet(subs[c]) /\ Cardinality(subs[c]) <= MaxSubscriptions

QueuesTyped ==
    /\ queue \in [Conn -> Seq(Message)] /\ held \in [Conn -> Seq(Message)]
    /\ \A c \in Conn : Len(queue[c]) <= QueueSize /\ Len(held[c]) <= 1

SessionsTyped ==
    /\ pc \in [Conn -> Stage]
    /\ cursors \in [Conn -> [Task -> {NoCursor} \cup 0 .. MaxEvents]]
    /\ replay \in [Conn -> [task : Task, cursor : 0 .. MaxEvents,
                            upto : 0 .. MaxEvents, more : BOOLEAN]]

ClientsTyped ==
    /\ seen \in [Conn -> [Task -> 0 .. MaxEvents]]
    /\ live \in [Conn -> SUBSET Task]

TypeInv == LogTyped /\ RegistryTyped /\ QueuesTyped /\ SessionsTyped /\ ClientsTyped

LEMMA NoReplayTyped ==
    /\ NoReplay \in [task : Task, cursor : 0 .. MaxEvents, upto : 0 .. MaxEvents,
                     more : BOOLEAN]
    /\ NoCursor \in {NoCursor} \cup 0 .. MaxEvents
<1>1. (CHOOSE t \in Task : TRUE) \in Task
  BY TasksAssumption
<1> QED  BY <1>1, SizesAssumption DEF NoReplay

LEMMA InitTyped == Init => TypeInv
<1> SUFFICES ASSUME Init PROVE TypeInv
  OBVIOUS
<1>1. LogTyped
  BY SizesAssumption DEF Init, LogTyped
<1>2. RegistryTyped
  BY SizesAssumption, FS_EmptySet DEF Init, RegistryTyped
<1>3. QueuesTyped
  BY SizesAssumption DEF Init, QueuesTyped
<1>4. SessionsTyped
  BY NoReplayTyped DEF Init, SessionsTyped, Stage
<1>5. ClientsTyped
  BY SizesAssumption DEF Init, ClientsTyped
<1> QED  BY <1>1, <1>2, <1>3, <1>4, <1>5 DEF TypeInv

LEMMA LogStep ==
    ASSUME TypeInv, AnyStep
    PROVE  LogTyped'
<1>1. ASSUME NEW t \in Task, Commit(t)
      PROVE  LogTyped'
  BY <1>1, SizesAssumption DEF TypeInv, LogTyped, Commit
<1>2. ASSUME NEW t \in Task, NEW n, Publish(t, n)
      PROVE  LogTyped'
  BY <1>2 DEF TypeInv, LogTyped, Publish
<1>3. ASSUME NEW c \in Conn, ConnStep(c)
      PROVE  LogTyped'
  <2>1. log' = log /\ unpublished' = unpublished
    BY <1>3 DEF ConnStep, Open, Welcome, WelcomeFails, EndSession, TakeMessage,
       ReceiveInvalid, ReceiveSubscribe, ReceiveDenied, ReceiveUnsubscribe, ReplayPage,
       ReplaySend, NextPage, FinishReplay, Deliver
  <2> QED  BY <2>1 DEF TypeInv, LogTyped
<1> QED  BY <1>1, <1>2, <1>3 DEF AnyStep, vars, TypeInv, LogTyped

LEMMA Removed ==
    ASSUME NEW S, IsFiniteSet(S), NEW n \in Nat, Cardinality(S) <= n, NEW x
    PROVE  IsFiniteSet(S \ {x}) /\ Cardinality(S \ {x}) <= n
<1>1. /\ IsFiniteSet(S \ {x})
      /\ Cardinality(S \ {x}) <= Cardinality(S)
  BY FS_Subset
<1>2. Cardinality(S \ {x}) \in Nat /\ Cardinality(S) \in Nat
  BY <1>1, FS_CardinalityType
<1> QED  BY <1>1, <1>2

LEMMA Added ==
    ASSUME NEW S, IsFiniteSet(S), NEW n \in Nat, NEW x,
           (x \in S /\ Cardinality(S) <= n) \/ Cardinality(S) < n
    PROVE  IsFiniteSet(S \cup {x}) /\ Cardinality(S \cup {x}) <= n
<1>1. /\ IsFiniteSet(S \cup {x})
      /\ Cardinality(S \cup {x}) = IF x \in S THEN Cardinality(S) ELSE Cardinality(S) + 1
  BY FS_AddElement
<1>2. Cardinality(S) \in Nat
  BY FS_CardinalityType
<1> QED  BY <1>1, <1>2

LEMMA RegistryStep ==
    ASSUME TypeInv, AnyStep
    PROVE  RegistryTyped'
<1> USE SizesAssumption DEF TypeInv
<1>1. ASSUME NEW c \in Conn, Open(c)
      PROVE  RegistryTyped'
  <2>1. /\ open' = open \cup {c}
        /\ registered' = registered \cup {c}
        /\ subs' = [subs EXCEPT ![c] = {}]
        /\ brokerSubs' = [brokerSubs EXCEPT ![c] = {}]
        /\ Cardinality(open) < MaxConnections
    BY <1>1 DEF Open, HasRoom
  <2>2. IsFiniteSet(open') /\ Cardinality(open') <= MaxConnections
    BY <2>1, Added DEF RegistryTyped
  <2> QED  BY <2>1, <2>2, FS_EmptySet DEF RegistryTyped
<1>2. ASSUME NEW c \in Conn, EndSession(c)
      PROVE  RegistryTyped'
  <2>1. /\ open' = open \ {c}
        /\ registered' = registered \ {c}
        /\ subs' = [subs EXCEPT ![c] = {}]
        /\ brokerSubs' = [brokerSubs EXCEPT ![c] = {}]
    BY <1>2 DEF EndSession, Cleanup
  <2>2. IsFiniteSet(open') /\ Cardinality(open') <= MaxConnections
    BY <2>1, Removed DEF RegistryTyped
  <2> QED  BY <2>1, <2>2, FS_EmptySet DEF RegistryTyped
<1>3. ASSUME NEW c \in Conn, NEW t \in Task, open' = open, registered' = registered,
             subs' \in {subs, [subs EXCEPT ![c] = @ \ {t}]},
             brokerSubs' \in {brokerSubs, [brokerSubs EXCEPT ![c] = @ \ {t}]}
      PROVE  RegistryTyped'
  <2>1. /\ IsFiniteSet(subs[c] \ {t})
        /\ Cardinality(subs[c] \ {t}) <= MaxSubscriptions
    BY Removed DEF RegistryTyped
  <2> QED  BY <1>3, <2>1 DEF RegistryTyped
<1>4. ASSUME NEW c \in Conn, NEW t \in Task, NEW after, ReceiveSubscribe(c, t, after)
      PROVE  RegistryTyped'
  <2>1. /\ open' = open /\ registered' = registered
        /\ subs' = [subs EXCEPT ![c] = @ \cup {t}]
        /\ brokerSubs' = [brokerSubs EXCEPT ![c] = @ \cup {t}]
        /\ t \in subs[c] \/ Cardinality(subs[c]) < MaxSubscriptions
    BY <1>4 DEF ReceiveSubscribe, Subscribe, MaySubscribe
  <2>2. /\ IsFiniteSet(subs[c] \cup {t})
        /\ Cardinality(subs[c] \cup {t}) <= MaxSubscriptions
    BY <2>1, Added DEF RegistryTyped
  <2> QED  BY <2>1, <2>2 DEF RegistryTyped
<1>5. ASSUME NEW c \in Conn, Deliver(c)
      PROVE  RegistryTyped'
  <2>1. open' = open /\ registered' = registered
    BY <1>5 DEF Deliver
  <2>2. CASE subs' = subs /\ brokerSubs' = brokerSubs
    BY <2>1, <2>2 DEF RegistryTyped
  <2>3. CASE ~ (subs' = subs /\ brokerSubs' = brokerSubs)
    <3>1. PICK m : /\ held[c] # << >> /\ m = Head(held[c])
                   /\ Resync(c, m.task, FALSE) \/ Resync(c, m.task, TRUE)
      BY <1>5, <2>3 DEF Deliver, SendEvent
    <3>2. m.task \in Task
      <4>1. held[c] \in Seq(Message)
        BY DEF QueuesTyped
      <4>2. m \in Message
        BY <3>1, <4>1
      <4> QED  BY <4>2 DEF Message
    <3>3. /\ subs' = [subs EXCEPT ![c] = @ \ {m.task}]
          /\ brokerSubs' \in {brokerSubs, [brokerSubs EXCEPT ![c] = @ \ {m.task}]}
      BY <3>1 DEF Resync
    <3> QED  BY <1>3, <2>1, <3>2, <3>3
  <2> QED  BY <2>2, <2>3
<1>6. ASSUME NEW t \in Task, NEW n, Publish(t, n)
      PROVE  RegistryTyped'
  <2>1. /\ open' = open /\ registered' = registered /\ subs' = subs
        /\ brokerSubs' \in [Conn -> SUBSET Task]
    BY <1>6 DEF Publish, RegistryTyped
  <2> QED  BY <2>1 DEF RegistryTyped
<1>7. ASSUME UNCHANGED <<open, registered, subs, brokerSubs>>
      PROVE  RegistryTyped'
  BY <1>7 DEF RegistryTyped
<1>8. ASSUME NEW c \in Conn, NEW t \in Task,
             ReceiveDenied(c, t) \/ ReceiveUnsubscribe(c, t)
      PROVE  RegistryTyped'
  BY <1>3, <1>8 DEF ReceiveDenied, ReceiveUnsubscribe
<1>9. ASSUME NEW c \in Conn, ConnStep(c)
      PROVE  RegistryTyped'
  <2>1. CASE \/ Welcome(c) \/ WelcomeFails(c) \/ TakeMessage(c) \/ ReceiveInvalid(c)
             \/ ReplayPage(c) \/ ReplaySend(c) \/ NextPage(c) \/ FinishReplay(c)
    BY <1>7, <2>1 DEF Welcome, WelcomeFails, TakeMessage, ReceiveInvalid, ReplayPage,
       ReplaySend, NextPage, FinishReplay, server
  <2> QED  BY <1>1, <1>2, <1>4, <1>5, <1>8, <1>9, <2>1 DEF ConnStep
<1>10. CASE (\E t \in Task : Commit(t)) \/ UNCHANGED vars
  BY <1>7, <1>10 DEF Commit, vars, server
<1> QED  BY <1>6, <1>9, <1>10 DEF AnyStep

\* A queue without its first message, and that message.
LEMMA TailTyped ==
    ASSUME NEW q \in Seq(Message), q # << >>
    PROVE  /\ Tail(q) \in Seq(Message) /\ Len(Tail(q)) <= Len(q)
           /\ Head(q) \in Message
           /\ <<Head(q)>> \in Seq(Message) /\ Len(<<Head(q)>>) = 1
OBVIOUS

LEMMA EmptyTyped == << >> \in Seq(Message) /\ Len(<< >>) = 0
OBVIOUS

\* What is left in the queues, and held, when one message is taken or dropped.
LEMMA TakeTyped ==
    ASSUME QueuesTyped, NEW c \in Conn,
           \/ queue' = queue
           \/ queue[c] # << >> /\ queue' = [queue EXCEPT ![c] = Tail(@)],
           \/ held' = held
           \/ held' = [held EXCEPT ![c] = << >>]
           \/ queue[c] # << >> /\ held' = [held EXCEPT ![c] = <<Head(queue[c])>>]
    PROVE  QueuesTyped'
<1>1. queue' \in [Conn -> Seq(Message)] /\ \A d \in Conn : Len(queue'[d]) <= QueueSize
  <2>1. CASE queue' = queue
    BY <2>1 DEF QueuesTyped
  <2>2. CASE queue[c] # << >> /\ queue' = [queue EXCEPT ![c] = Tail(@)]
    <3>1. queue[c] \in Seq(Message) /\ Len(queue[c]) \in Nat
      BY DEF QueuesTyped
    <3>2. Tail(queue[c]) \in Seq(Message) /\ Len(Tail(queue[c])) <= QueueSize
      <4>1. Tail(queue[c]) \in Seq(Message) /\ Len(Tail(queue[c])) <= Len(queue[c])
        BY <2>2, <3>1, TailTyped
      <4>2. Len(Tail(queue[c])) \in Nat
        BY <4>1
      <4> QED  BY <3>1, <4>1, <4>2, SizesAssumption DEF QueuesTyped
    <3> QED  BY <2>2, <3>2 DEF QueuesTyped
  <2> QED  BY <2>1, <2>2
<1>2. held' \in [Conn -> Seq(Message)] /\ \A d \in Conn : Len(held'[d]) <= 1
  <2>1. CASE held' = held
    BY <2>1 DEF QueuesTyped
  <2>2. CASE held' = [held EXCEPT ![c] = << >>]
    BY <2>2, EmptyTyped DEF QueuesTyped
  <2>3. CASE queue[c] # << >> /\ held' = [held EXCEPT ![c] = <<Head(queue[c])>>]
    <3>1. queue[c] \in Seq(Message)
      BY DEF QueuesTyped
    <3>2. <<Head(queue[c])>> \in Seq(Message) /\ Len(<<Head(queue[c])>>) = 1
      BY <2>3, <3>1, TailTyped
    <3> DEFINE taken == <<Head(queue[c])>>
    <3>3. held' = [held EXCEPT ![c] = taken]
      BY <2>3
    <3> HIDE DEF taken
    <3> QED  BY <3>2, <3>3 DEF QueuesTyped, taken
  <2> QED  BY <2>1, <2>2, <2>3
<1> QED  BY <1>1, <1>2 DEF QueuesTyped

LEMMA QueuesStep ==
    ASSUME TypeInv, AnyStep
    PROVE  QueuesTyped'
<1> USE DEF TypeInv
<1>1. ASSUME NEW c \in Conn, Open(c) \/ EndSession(c)
      PROVE  QueuesTyped'
  <2>1. queue' = [queue EXCEPT ![c] = << >>]
    BY <1>1 DEF Open, EndSession, Cleanup
  <2>2. held' \in {held, [held EXCEPT ![c] = << >>]}
    BY <1>1 DEF Open, EndSession
  <2>3. /\ queue' \in [Conn -> Seq(Message)]
        /\ \A d \in Conn : Len(queue'[d]) <= QueueSize
    BY <2>1, EmptyTyped, SizesAssumption DEF QueuesTyped
  <2>4. /\ held' \in [Conn -> Seq(Message)]
        /\ \A d \in Conn : Len(held'[d]) <= 1
    <3>1. CASE held' = held
      BY <3>1 DEF QueuesTyped
    <3>2. CASE held' = [held EXCEPT ![c] = << >>]
      BY <3>2, EmptyTyped DEF QueuesTyped
    <3> QED  BY <2>2, <3>1, <3>2
  <2> QED  BY <2>3, <2>4 DEF QueuesTyped
<1>2. ASSUME NEW c \in Conn, NEW t \in Task, NEW after,
             TakeMessage(c) \/ ReceiveSubscribe(c, t, after) \/ ReceiveUnsubscribe(c, t)
      PROVE  QueuesTyped'
  BY <1>2, TakeTyped DEF TakeMessage, ReceiveSubscribe, ReceiveUnsubscribe, Receive, Take
<1>3. ASSUME NEW c \in Conn, NEW t \in Task, ReceiveInvalid(c) \/ ReceiveDenied(c, t)
      PROVE  QueuesTyped'
  BY <1>3, TakeTyped DEF ReceiveInvalid, ReceiveDenied, ReceiveAndContinue, Take
<1>4. ASSUME NEW c \in Conn, Deliver(c)
      PROVE  QueuesTyped'
  BY <1>4, TakeTyped DEF Deliver
<1>5. ASSUME NEW t \in Task, NEW n \in 1 .. MaxEvents, Publish(t, n)
      PROVE  QueuesTyped'
  <2>1. ASSUME NEW c \in Conn
        PROVE  Enqueue(c, t, n) \in Seq(Message) /\ Len(Enqueue(c, t, n)) <= QueueSize
    <3>1. queue[c] \in Seq(Message) /\ Len(queue[c]) \in Nat
      BY DEF QueuesTyped
    <3>2. EventMsg(t, n) \in Message /\ ResyncMsg(t) \in Message
      BY SizesAssumption DEF EventMsg, ResyncMsg, Message
    <3> HIDE DEF TypeInv
    <3>3. CASE Full(c)
      <4>1. <<ResyncMsg(t)>> \in Seq(Message) /\ Len(<<ResyncMsg(t)>>) = 1
        BY <3>2
      <4> QED  BY <3>3, <4>1, SizesAssumption DEF Enqueue
    <3>4. CASE ~ Full(c)
      <4>1. /\ Append(queue[c], EventMsg(t, n)) \in Seq(Message)
            /\ Len(Append(queue[c], EventMsg(t, n))) = Len(queue[c]) + 1
        BY <3>1, <3>2
      <4> QED  BY <3>1, <3>4, <4>1, SizesAssumption DEF Enqueue, Full
    <3> QED  BY <3>3, <3>4
  <2>2. /\ queue' = [c \in Conn |-> IF c \in Targets(t) THEN Enqueue(c, t, n) ELSE queue[c]]
        /\ held' = held
    BY <1>5 DEF Publish, session
  <2> QED  BY <2>1, <2>2 DEF QueuesTyped
<1>6. ASSUME UNCHANGED <<queue, held>>
      PROVE  QueuesTyped'
  BY <1>6 DEF QueuesTyped
<1>7. ASSUME NEW c \in Conn, ConnStep(c)
      PROVE  QueuesTyped'
  <2>1. CASE \/ Welcome(c) \/ WelcomeFails(c) \/ ReplayPage(c) \/ ReplaySend(c)
             \/ NextPage(c) \/ FinishReplay(c)
    BY <1>6, <2>1 DEF Welcome, WelcomeFails, ReplayPage, ReplaySend, NextPage,
       FinishReplay, server
  <2>2. CASE TakeMessage(c) \/ ReceiveInvalid(c)
    BY <1>2, <1>3, <2>2, TasksAssumption
  <2> QED  BY <1>1, <1>2, <1>3, <1>4, <1>7, <2>1, <2>2 DEF ConnStep
<1>8. CASE (\E t \in Task : Commit(t)) \/ UNCHANGED vars
  BY <1>6, <1>8 DEF Commit, vars, server, session
<1> QED  BY <1>5, <1>7, <1>8 DEF AnyStep

\* The message a session holds is one the broker may send.
LEMMA HeldTyped ==
    ASSUME TypeInv, NEW c \in Conn, held[c] # << >>
    PROVE  /\ Head(held[c]).task \in Task
           /\ Head(held[c]).sequence \in 0 .. MaxEvents
<1>1. held[c] \in Seq(Message)
  BY DEF TypeInv, QueuesTyped
<1>2. Head(held[c]) \in Message
  BY <1>1
<1> QED  BY <1>2 DEF Message

LEMMA SessionsStep ==
    ASSUME TypeInv, AnyStep
    PROVE  SessionsTyped'
<1> USE DEF TypeInv
<1> DEFINE Place == [task : Task, cursor : 0 .. MaxEvents, upto : 0 .. MaxEvents,
                     more : BOOLEAN]
<1>1. ASSUME NEW f, f \in [Conn -> Place], NEW c \in Conn, NEW p \in Place
      PROVE  [f EXCEPT ![c] = p] \in [Conn -> Place]
  <2> HIDE DEF Place
  <2> QED  BY <1>1
<1>2. \A q : Wait(q) \in Stage
  BY DEF Wait, Stage
<1>3. /\ {"closed", "welcoming", "paging", "replaying", "deliver"} \subseteq Stage
      /\ NoReplay \in Place
      /\ NoCursor \in {NoCursor} \cup 0 .. MaxEvents
  BY NoReplayTyped DEF Stage
<1>5. ASSUME NEW c \in Conn, NEW s \in Stage, pc' \in {pc, [pc EXCEPT ![c] = s]},
             UNCHANGED <<cursors, replay>>
      PROVE  SessionsTyped'
  BY <1>5 DEF SessionsTyped
<1>6. ASSUME NEW c \in Conn,
             \/ Welcome(c) \/ WelcomeFails(c) \/ TakeMessage(c) \/ ReceiveInvalid(c)
             \/ NextPage(c) \/ \E t \in Task : ReceiveDenied(c, t)
      PROVE  SessionsTyped'
  <2>1. UNCHANGED <<cursors, replay>>
    BY <1>6 DEF Welcome, WelcomeFails, TakeMessage, ReceiveInvalid, NextPage, ReceiveDenied
  <2>2. \E s \in Stage : pc' = [pc EXCEPT ![c] = s]
    BY <1>2, <1>3, <1>6 DEF Welcome, WelcomeFails, TakeMessage, ReceiveInvalid, NextPage,
       ReceiveDenied, ReceiveAndContinue
  <2> QED  BY <1>5, <2>1, <2>2
<1>7. ASSUME NEW c \in Conn, Open(c) \/ EndSession(c)
      PROVE  SessionsTyped'
  <2>1. /\ cursors' = [cursors EXCEPT ![c] = [u \in Task |-> NoCursor]]
        /\ replay' \in {replay, [replay EXCEPT ![c] = NoReplay]}
    BY <1>7 DEF Open, EndSession
  <2>2. \E s \in Stage : pc' = [pc EXCEPT ![c] = s]
    BY <1>3, <1>7 DEF Open, EndSession
  <2>3. replay' \in [Conn -> Place]
    BY <1>1, <1>3, <2>1 DEF SessionsTyped
  <2>4. cursors' \in [Conn -> [Task -> {NoCursor} \cup 0 .. MaxEvents]]
    BY <1>3, <2>1 DEF SessionsTyped
  <2>5. pc' \in [Conn -> Stage]
    BY <2>2 DEF SessionsTyped
  <2> QED  BY <2>3, <2>4, <2>5 DEF SessionsTyped
<1>8. ASSUME NEW c \in Conn, NEW t \in Task, NEW after \in 0 .. MaxEvents,
             ReceiveSubscribe(c, t, after)
      PROVE  SessionsTyped'
  <2> DEFINE p == [NoReplay EXCEPT !.task = t, !.cursor = after]
  <2>1. p \in Place
    BY NoReplayTyped
  <2>2. /\ cursors' = cursors
        /\ replay' = [replay EXCEPT ![c] = p]
        /\ pc' = [pc EXCEPT ![c] = "paging"]
    BY <1>8 DEF ReceiveSubscribe
  <2> HIDE DEF p
  <2> QED  BY <1>3, <2>1, <2>2 DEF SessionsTyped
<1>9. ASSUME NEW c \in Conn, NEW t \in Task, ReceiveUnsubscribe(c, t)
      PROVE  SessionsTyped'
  <2>1. /\ cursors' = [cursors EXCEPT ![c][t] = NoCursor]
        /\ replay' = replay
        /\ pc' = [pc EXCEPT ![c] = "deliver"]
    BY <1>9 DEF ReceiveUnsubscribe
  <2> QED  BY <1>3, <2>1 DEF SessionsTyped
<1>10. ASSUME NEW c \in Conn, ReplayPage(c)
       PROVE  SessionsTyped'
  <2> DEFINE upto == PageEnd(replay[c].task, replay[c].cursor)
             p == [replay[c] EXCEPT !.upto = upto, !.more = upto < log[replay[c].task]]
  <2>1. replay[c] \in Place
    BY DEF SessionsTyped
  <2>2. upto \in 0 .. MaxEvents
    BY <2>1, SizesAssumption DEF PageEnd, LogTyped
  <2>3. p \in Place
    <3> HIDE DEF upto
    <3>1. (upto < log[replay[c].task]) \in BOOLEAN
      OBVIOUS
    <3> QED  BY <2>1, <2>2, <3>1
  <2>4. replay' = [replay EXCEPT ![c] = p]
    BY <1>10 DEF ReplayPage, SessionsTyped
  <2>5. cursors' = cursors /\ pc' = [pc EXCEPT ![c] = "replaying"]
    BY <1>10 DEF ReplayPage
  <2> HIDE DEF p, upto
  <2> QED  BY <1>3, <2>3, <2>4, <2>5 DEF SessionsTyped
<1>11. ASSUME NEW c \in Conn, ReplaySend(c)
       PROVE  SessionsTyped'
  <2> DEFINE p == [replay[c] EXCEPT !.cursor = @ + 1]
  <2>1. replay[c] \in Place /\ replay[c].cursor < replay[c].upto
    BY <1>11 DEF SessionsTyped, ReplaySend
  <2>2. p \in Place
    BY <2>1, SizesAssumption
  <2>3. /\ cursors' = cursors
        /\ pc' = pc
        /\ replay' = [replay EXCEPT ![c] = p]
    BY <1>11 DEF ReplaySend, SessionsTyped
  <2> HIDE DEF p
  <2> QED  BY <2>2, <2>3 DEF SessionsTyped
<1>12. ASSUME NEW c \in Conn, FinishReplay(c)
       PROVE  SessionsTyped'
  <2>1. replay[c].task \in Task /\ replay[c].cursor \in 0 .. MaxEvents
    BY DEF SessionsTyped
  <2>2. /\ cursors' = [cursors EXCEPT ![c][replay[c].task] = replay[c].cursor]
        /\ replay' = [replay EXCEPT ![c] = NoReplay]
        /\ pc' = [pc EXCEPT ![c] = "deliver"]
    BY <1>12 DEF FinishReplay, StartCursor
  <2> QED  BY <1>3, <2>1, <2>2 DEF SessionsTyped
<1>13. ASSUME NEW c \in Conn, Deliver(c)
       PROVE  SessionsTyped'
  <2>1. replay' = replay /\ pc' = [pc EXCEPT ![c] = Wait(queue[c])]
    BY <1>13 DEF Deliver
  <2>2. cursors' = cursors \/ \E t \in Task, n \in {NoCursor} \cup 0 .. MaxEvents :
                                  cursors' = [cursors EXCEPT ![c][t] = n]
    BY <1>13, HeldTyped DEF Deliver, Resync, SendEvent
  <2>3. cursors' \in [Conn -> [Task -> {NoCursor} \cup 0 .. MaxEvents]]
    <3>1. CASE cursors' = cursors
      BY <3>1 DEF SessionsTyped
    <3>2. ASSUME NEW t \in Task, NEW n \in {NoCursor} \cup 0 .. MaxEvents,
                 cursors' = [cursors EXCEPT ![c][t] = n]
          PROVE  cursors' \in [Conn -> [Task -> {NoCursor} \cup 0 .. MaxEvents]]
      BY <3>2 DEF SessionsTyped
    <3> QED  BY <2>2, <3>1, <3>2
  <2>4. pc' \in [Conn -> Stage]
    BY <1>2, <2>1 DEF SessionsTyped
  <2> QED  BY <2>1, <2>3, <2>4 DEF SessionsTyped
<1>14. ASSUME NEW c \in Conn, ConnStep(c)
       PROVE  SessionsTyped'
  BY <1>6, <1>7, <1>8, <1>9, <1>10, <1>11, <1>12, <1>13, <1>14 DEF ConnStep
<1>15. CASE \/ \E t \in Task : Commit(t)
            \/ \E t \in Task, n \in 1 .. MaxEvents : Publish(t, n)
            \/ UNCHANGED vars
  <2>1. UNCHANGED <<pc, cursors, replay>>
    BY <1>15 DEF Commit, Publish, vars, session
  <2> QED  BY <2>1 DEF SessionsTyped
<1> QED  BY <1>14, <1>15 DEF AnyStep

LEMMA ClientsStep ==
    ASSUME TypeInv, AnyStep
    PROVE  ClientsTyped'
<1> USE DEF TypeInv
<1>0. ASSUME NEW c \in Conn, NEW t, live' = [live EXCEPT ![c] = @ \ {t}]
      PROVE  live' \in [Conn -> SUBSET Task]
  <2>1. live \in [Conn -> SUBSET Task]
    BY DEF ClientsTyped
  <2>2. live[c] \ {t} \in SUBSET Task
    BY <2>1
  <2> QED  BY <1>0, <2>1, <2>2
<1>1. ASSUME NEW c \in Conn, ConnStep(c)
      PROVE  live' \in [Conn -> SUBSET Task]
  <2>1. CASE EndSession(c)
    BY <2>1 DEF EndSession, ClientsTyped
  <2>2. CASE FinishReplay(c)
    BY <2>2 DEF FinishReplay, ClientsTyped, SessionsTyped
  <2>3. CASE Deliver(c)
    <3>1. CASE live' = live
      BY <3>1 DEF ClientsTyped
    <3>2. CASE live' # live
      <4>1. PICK t : live' = [live EXCEPT ![c] = @ \ {t}]
        BY <2>3, <3>2 DEF Deliver, Resync, SendEvent, client
      <4> QED  BY <1>0, <4>1
    <3> QED  BY <3>1, <3>2
  <2>4. CASE \/ \E t \in Task, after \in 0 .. MaxEvents : ReceiveSubscribe(c, t, after)
             \/ \E t \in Task : ReceiveDenied(c, t) \/ ReceiveUnsubscribe(c, t)
    BY <1>0, <2>4 DEF ReceiveSubscribe, ReceiveDenied, ReceiveUnsubscribe
  <2>5. CASE \/ Open(c) \/ Welcome(c) \/ WelcomeFails(c) \/ TakeMessage(c)
             \/ ReceiveInvalid(c) \/ ReplayPage(c) \/ ReplaySend(c) \/ NextPage(c)
    BY <2>5 DEF Open, Welcome, WelcomeFails, TakeMessage, ReceiveInvalid, ReplayPage,
       ReplaySend, NextPage, client, ClientsTyped
  <2> QED  BY <1>1, <2>1, <2>2, <2>3, <2>4, <2>5 DEF ConnStep
<1>2. ASSUME NEW c \in Conn, ConnStep(c)
      PROVE  seen' \in [Conn -> [Task -> 0 .. MaxEvents]]
  <2>1. ASSUME NEW t \in Task, NEW n \in 0 .. MaxEvents,
               seen' = [seen EXCEPT ![c][t] = n]
        PROVE  seen' \in [Conn -> [Task -> 0 .. MaxEvents]]
    BY <2>1 DEF ClientsTyped
  <2>2. CASE \E t \in Task, after \in 0 .. MaxEvents : ReceiveSubscribe(c, t, after)
    BY <2>1, <2>2 DEF ReceiveSubscribe
  <2>3. CASE ReplaySend(c)
    <3>1. /\ replay[c].task \in Task /\ replay[c].cursor \in 0 .. MaxEvents
          /\ replay[c].upto \in 0 .. MaxEvents
      BY DEF SessionsTyped
    <3>2. replay[c].cursor + 1 \in 0 .. MaxEvents
      BY <2>3, <3>1, SizesAssumption DEF ReplaySend
    <3> QED  BY <2>1, <2>3, <3>1, <3>2 DEF ReplaySend
  <2>4. CASE Deliver(c)
    <3>1. seen' = seen \/ (held[c] # << >> /\ SendEvent(c, Head(held[c])))
      BY <2>4 DEF Deliver, Resync, client
    <3>2. CASE seen' = seen
      BY <3>2 DEF ClientsTyped
    <3> QED  BY <2>1, <3>1, <3>2, HeldTyped DEF SendEvent
  <2>5. CASE \/ Open(c) \/ Welcome(c) \/ WelcomeFails(c) \/ EndSession(c)
             \/ TakeMessage(c) \/ ReceiveInvalid(c)
             \/ \E t \in Task : ReceiveDenied(c, t) \/ ReceiveUnsubscribe(c, t)
             \/ ReplayPage(c) \/ NextPage(c) \/ FinishReplay(c)
    BY <2>5 DEF Open, Welcome, WelcomeFails, EndSession, TakeMessage, ReceiveInvalid,
       ReceiveDenied, ReceiveUnsubscribe, ReplayPage, NextPage, FinishReplay, client,
       ClientsTyped
  <2> QED  BY <1>2, <2>2, <2>3, <2>4, <2>5 DEF ConnStep
<1>3. CASE \/ \E t \in Task : Commit(t)
           \/ \E t \in Task, n \in 1 .. MaxEvents : Publish(t, n)
           \/ UNCHANGED vars
  <2>1. UNCHANGED client
    BY <1>3 DEF Commit, Publish, vars
  <2> QED  BY <2>1 DEF client, ClientsTyped
<1> QED  BY <1>1, <1>2, <1>3 DEF AnyStep, ClientsTyped

LEMMA TypeInvariant == Spec => []TypeInv
<1>1. TypeInv /\ [Next]_vars => TypeInv'
  <2> SUFFICES ASSUME TypeInv, [Next]_vars PROVE TypeInv'
    OBVIOUS
  <2>1. AnyStep
    BY NextIsStep
  <2>2. LogTyped' /\ RegistryTyped'
    BY <2>1, LogStep, RegistryStep
  <2>3. QueuesTyped' /\ SessionsTyped' /\ ClientsTyped'
    BY <2>1, QueuesStep, SessionsStep, ClientsStep
  <2> QED  BY <2>2, <2>3 DEF TypeInv
<1> QED  BY <1>1, InitTyped, PTL DEF Spec

\* Every variable keeps its type, and no queue, no session's subscriptions and
\* no number of connections ever exceeds its limit, whatever the clients send
\* and in whatever order the publishers reach the broker (task_events.py,
\* websocket/connections.py).
THEOREM TypeCorrect == Spec => []TypeOK
<1>1. TypeInv => TypeOK
  BY DEF TypeInv, TypeOK, LogTyped, RegistryTyped, QueuesTyped, SessionsTyped,
     ClientsTyped
<1> QED  BY <1>1, TypeInvariant, PTL

--------------------------------------------------------------------------------
(* The broker and the registry                                                *)

\* BrokerMatchesRegistry is not inductive: a session that runs may subscribe and
\* take messages, so it has to be known to the registry.
SessionsAreOpen == \A c \in Conn : pc[c] # "closed" => c \in open

MatchInv == BrokerMatchesRegistry /\ SessionsAreOpen

LEMMA MatchStep ==
    ASSUME TypeInv, MatchInv, AnyStep
    PROVE  MatchInv'
<1> USE DEF MatchInv, BrokerMatchesRegistry, SessionsAreOpen
<1>1. ASSUME NEW c \in Conn, Open(c)
      PROVE  MatchInv'
  BY <1>1 DEF Open, TypeInv, RegistryTyped, QueuesTyped, SessionsTyped
<1>2. ASSUME NEW c \in Conn, EndSession(c)
      PROVE  MatchInv'
  BY <1>2 DEF EndSession, Cleanup, TypeInv, RegistryTyped, QueuesTyped, SessionsTyped
\* A step of a session that runs: it disturbs its own queue and subscriptions.
<1>3. ASSUME NEW c \in Conn, pc[c] # "closed", open' = open, registered' = registered,
             \A d \in Conn \ {c} : /\ pc'[d] = pc[d] /\ queue'[d] = queue[d]
                                  /\ brokerSubs'[d] = brokerSubs[d]
      PROVE  MatchInv'
  BY <1>3
<1>4. ASSUME NEW c \in Conn,
             \/ Welcome(c) \/ WelcomeFails(c) \/ TakeMessage(c) \/ ReceiveInvalid(c)
             \/ \E t \in Task, after \in 0 .. MaxEvents : ReceiveSubscribe(c, t, after)
             \/ \E t \in Task : ReceiveDenied(c, t) \/ ReceiveUnsubscribe(c, t)
             \/ ReplayPage(c) \/ ReplaySend(c) \/ NextPage(c) \/ FinishReplay(c)
             \/ Deliver(c)
      PROVE  MatchInv'
  <2>1. pc[c] # "closed"
    BY <1>4 DEF Welcome, WelcomeFails, TakeMessage, ReceiveInvalid, ReceiveSubscribe,
       ReceiveDenied, ReceiveUnsubscribe, ReceiveAndContinue, Receive, Waiting, ReplayPage,
       ReplaySend, NextPage, FinishReplay, Deliver
  <2>2. open' = open /\ registered' = registered
    BY <1>4 DEF Welcome, WelcomeFails, TakeMessage, ReceiveInvalid, ReceiveSubscribe,
       ReceiveDenied, ReceiveUnsubscribe, ReplayPage, ReplaySend, NextPage, FinishReplay,
       Deliver, server
  <2>3. \A d \in Conn \ {c} : pc'[d] = pc[d]
    BY <1>4 DEF Welcome, WelcomeFails, TakeMessage, ReceiveInvalid, ReceiveSubscribe,
       ReceiveDenied, ReceiveUnsubscribe, ReceiveAndContinue, ReplayPage, ReplaySend,
       NextPage, FinishReplay, Deliver, TypeInv, SessionsTyped
  <2>4. \A d \in Conn \ {c} : queue'[d] = queue[d]
    BY <1>4 DEF Welcome, WelcomeFails, TakeMessage, ReceiveInvalid, ReceiveSubscribe,
       ReceiveDenied, ReceiveUnsubscribe, ReceiveAndContinue, Receive, Take, ReplayPage,
       ReplaySend, NextPage, FinishReplay, Deliver, server, TypeInv, QueuesTyped
  <2>5. \A d \in Conn \ {c} : brokerSubs'[d] = brokerSubs[d]
    BY <1>4 DEF Welcome, WelcomeFails, TakeMessage, ReceiveInvalid, ReceiveSubscribe,
       Subscribe, ReceiveDenied, ReceiveUnsubscribe, ReplayPage, ReplaySend, NextPage,
       FinishReplay, Deliver, Resync, SendEvent, server, TypeInv, RegistryTyped
  <2> QED  BY <1>3, <2>1, <2>2, <2>3, <2>4, <2>5
\* A publication reaches the connections the broker has registered.
<1>5. ASSUME NEW t \in Task, NEW n, Publish(t, n)
      PROVE  MatchInv'
  <2>1. UNCHANGED <<open, registered, pc>>
    BY <1>5 DEF Publish, session
  <2>2. \A c \in Conn \ registered : queue'[c] = queue[c] /\ brokerSubs'[c] = brokerSubs[c]
    BY <1>5 DEF Publish, Targets
  <2> QED  BY <2>1, <2>2
<1>6. CASE (\E t \in Task : Commit(t)) \/ UNCHANGED vars
  <2>1. UNCHANGED <<server, pc>>
    BY <1>6 DEF Commit, vars, session
  <2> QED  BY <2>1 DEF server
<1> QED  BY <1>1, <1>2, <1>4, <1>5, <1>6 DEF AnyStep, ConnStep

LEMMA MatchInvariant == Spec => []MatchInv
<1>1. Init => MatchInv
  BY DEF Init, MatchInv, BrokerMatchesRegistry, SessionsAreOpen
<1>2. TypeInv /\ MatchInv /\ [Next]_vars => MatchInv'
  BY MatchStep, NextIsStep
<1> QED  BY <1>1, <1>2, TypeInvariant, PTL DEF Spec

\* The broker keeps a queue and subscriptions for exactly the connections the
\* registry has, so a session that ended is never published to again and its
\* queue does not fill up (session.py: the finally block).
THEOREM BrokerAgrees == Spec => []BrokerMatchesRegistry
<1>1. MatchInv => BrokerMatchesRegistry
  BY DEF MatchInv
<1> QED  BY <1>1, MatchInvariant, PTL

--------------------------------------------------------------------------------
(* What a client has seen                                                     *)

\* While a task is replayed the replay's cursor takes the place of the session's.
ReplayIsWhatWasSeen ==
    \A c \in Conn : pc[c] \in {"paging", "replaying"} =>
                      replay[c].cursor = seen[c][replay[c].task]

SeenInv == CursorIsWhatWasSeen /\ ReplayIsWhatWasSeen

\* What one step of a session may do to the client's view of a task: nothing,
\* the event after the last one, or a new start at the client's own request.
Advance(c) ==
    \A t \in Task : seen'[c][t] # seen[c][t] =>
                      \/ seen'[c][t] = seen[c][t] + 1
                      \/ replay'[c].task = t /\ pc'[c] = "paging"

\* A session outside a replay, whose client sees nothing new.
LEMMA SeenKept ==
    ASSUME SeenInv, NEW c \in Conn, seen'[c] = seen[c],
           pc[c] \notin {"paging", "replaying"}, pc'[c] \notin {"paging", "replaying"},
           \A t \in Task : cursors'[c][t] \in {NoCursor, cursors[c][t]}
    PROVE  /\ \A t \in Task : cursors'[c][t] # NoCursor => cursors'[c][t] = seen'[c][t]
           /\ Advance(c)
BY DEF SeenInv, CursorIsWhatWasSeen, Advance

LEMMA SeenStep ==
    ASSUME TypeInv, SeenInv, AnyStep
    PROVE  SeenInv' /\ \A c \in Conn : Advance(c)
<1> DEFINE Good(c) ==
             /\ \A t \in Task :
                  (cursors'[c][t] # NoCursor /\ ~(pc'[c] \in {"paging", "replaying"}
                                                    /\ replay'[c].task = t))
                     => cursors'[c][t] = seen'[c][t]
             /\ pc'[c] \in {"paging", "replaying"} =>
                   replay'[c].cursor = seen'[c][replay'[c].task]
             /\ Advance(c)
<1>1. (\A c \in Conn : Good(c)) => SeenInv' /\ \A c \in Conn : Advance(c)
  BY DEF SeenInv, CursorIsWhatWasSeen, ReplayIsWhatWasSeen
<1>2. ASSUME NEW d \in Conn, pc'[d] = pc[d], cursors'[d] = cursors[d],
             replay'[d] = replay[d], seen'[d] = seen[d]
      PROVE  Good(d)
  BY <1>2 DEF SeenInv, CursorIsWhatWasSeen, ReplayIsWhatWasSeen, Advance
\* A step of one session leaves the others as they are.
<1>3. ASSUME NEW c \in Conn, ConnStep(c), NEW d \in Conn \ {c}
      PROVE  Good(d)
  <2>1. pc'[d] = pc[d]
    BY <1>3 DEF ConnStep, Open, EndSession, Welcome, WelcomeFails, TakeMessage,
       ReceiveInvalid, ReceiveSubscribe, ReceiveDenied, ReceiveUnsubscribe,
       ReceiveAndContinue, ReplayPage, ReplaySend, NextPage, FinishReplay, Deliver,
       TypeInv, SessionsTyped
  <2>2. cursors'[d] = cursors[d]
    BY <1>3 DEF ConnStep, Open, EndSession, Welcome, WelcomeFails, TakeMessage,
       ReceiveInvalid, ReceiveSubscribe, ReceiveDenied, ReceiveUnsubscribe, ReplayPage,
       ReplaySend, NextPage, FinishReplay, Deliver, Resync, SendEvent, TypeInv,
       SessionsTyped
  <2>3. replay'[d] = replay[d]
    BY <1>3 DEF ConnStep, Open, EndSession, Welcome, WelcomeFails, TakeMessage,
       ReceiveInvalid, ReceiveSubscribe, ReceiveDenied, ReceiveUnsubscribe, ReplayPage,
       ReplaySend, NextPage, FinishReplay, Deliver, TypeInv, SessionsTyped
  <2>4. seen'[d] = seen[d]
    BY <1>3 DEF ConnStep, Open, EndSession, Welcome, WelcomeFails, TakeMessage,
       ReceiveInvalid, ReceiveSubscribe, ReceiveDenied, ReceiveUnsubscribe, ReplayPage,
       ReplaySend, NextPage, FinishReplay, Deliver, Resync, SendEvent, client, TypeInv,
       ClientsTyped
  <2> QED  BY <1>2, <2>1, <2>2, <2>3, <2>4
<1>4. ASSUME NEW c \in Conn, Open(c) \/ EndSession(c)
      PROVE  Good(c)
  <2>1. cursors'[c] = [t \in Task |-> NoCursor] /\ seen' = seen
    BY <1>4 DEF Open, EndSession, client, TypeInv, SessionsTyped
  <2>2. pc'[c] \in {"closed", "welcoming"}
    BY <1>4 DEF Open, EndSession, TypeInv, SessionsTyped
  <2> QED  BY <2>1, <2>2 DEF Advance
<1>5. ASSUME NEW c \in Conn,
             \/ Welcome(c) \/ WelcomeFails(c) \/ TakeMessage(c) \/ ReceiveInvalid(c)
             \/ \E t \in Task : ReceiveDenied(c, t) \/ ReceiveUnsubscribe(c, t)
      PROVE  Good(c)
  <2>1. seen' = seen /\ pc[c] \notin {"paging", "replaying"}
    BY <1>5 DEF Welcome, WelcomeFails, TakeMessage, ReceiveInvalid, ReceiveDenied,
       ReceiveUnsubscribe, ReceiveAndContinue, Receive, Waiting, client
  <2>2. pc'[c] \notin {"paging", "replaying"}
    BY <1>5 DEF Welcome, WelcomeFails, TakeMessage, ReceiveInvalid, ReceiveDenied,
       ReceiveUnsubscribe, ReceiveAndContinue, Wait, TypeInv, SessionsTyped
  <2>3. \A t \in Task : cursors'[c][t] \in {NoCursor, cursors[c][t]}
    BY <1>5 DEF Welcome, WelcomeFails, TakeMessage, ReceiveInvalid, ReceiveDenied,
       ReceiveUnsubscribe, TypeInv, SessionsTyped
  <2> QED  BY <2>1, <2>2, <2>3, SeenKept
<1>6. ASSUME NEW c \in Conn, NEW t \in Task, NEW after \in 0 .. MaxEvents,
             ReceiveSubscribe(c, t, after)
      PROVE  Good(c)
  <2>1. /\ cursors' = cursors
        /\ seen'[c] = [seen[c] EXCEPT ![t] = after]
        /\ pc[c] \in {"waiting", "ready"} /\ pc'[c] = "paging"
    BY <1>6 DEF ReceiveSubscribe, Receive, Waiting, TypeInv, SessionsTyped, ClientsTyped
  <2>2. replay'[c].task = t /\ replay'[c].cursor = after
    BY <1>6, NoReplayTyped DEF ReceiveSubscribe, TypeInv, SessionsTyped
  <2>3. seen[c] \in [Task -> 0 .. MaxEvents]
    BY DEF TypeInv, ClientsTyped
  <2> QED  BY <2>1, <2>2, <2>3 DEF SeenInv, CursorIsWhatWasSeen, Advance
<1>7. ASSUME NEW c \in Conn, ReplayPage(c) \/ NextPage(c)
      PROVE  Good(c)
  <2>1. /\ seen' = seen /\ cursors' = cursors
        /\ pc[c] \in {"paging", "replaying"} /\ pc'[c] \in {"paging", "replaying"}
    BY <1>7 DEF ReplayPage, NextPage, client, TypeInv, SessionsTyped
  <2>2. replay'[c].task = replay[c].task /\ replay'[c].cursor = replay[c].cursor
    BY <1>7 DEF ReplayPage, NextPage, TypeInv, SessionsTyped
  <2> QED  BY <2>1, <2>2 DEF SeenInv, CursorIsWhatWasSeen, ReplayIsWhatWasSeen, Advance
<1>8. ASSUME NEW c \in Conn, ReplaySend(c)
      PROVE  Good(c)
  <2>1. /\ cursors' = cursors /\ pc' = pc /\ pc[c] = "replaying"
        /\ seen'[c] = [seen[c] EXCEPT ![replay[c].task] = replay[c].cursor + 1]
    BY <1>8 DEF ReplaySend, TypeInv, ClientsTyped
  <2>2. /\ replay'[c].task = replay[c].task
        /\ replay'[c].cursor = replay[c].cursor + 1
        /\ replay[c].task \in Task
    BY <1>8 DEF ReplaySend, TypeInv, SessionsTyped
  <2>3. seen[c] \in [Task -> 0 .. MaxEvents]
    BY DEF TypeInv, ClientsTyped
  <2> QED  BY <2>1, <2>2, <2>3
           DEF SeenInv, CursorIsWhatWasSeen, ReplayIsWhatWasSeen, Advance
<1>9. ASSUME NEW c \in Conn, FinishReplay(c)
      PROVE  Good(c)
  <2>1. /\ seen' = seen /\ pc[c] = "replaying" /\ pc'[c] = "deliver"
        /\ cursors'[c] = [cursors[c] EXCEPT ![replay[c].task] = replay[c].cursor]
    BY <1>9 DEF FinishReplay, StartCursor, TypeInv, SessionsTyped
  <2>2. /\ replay[c].task \in Task
        /\ cursors[c] \in [Task -> {NoCursor} \cup 0 .. MaxEvents]
    BY DEF TypeInv, SessionsTyped
  <2> QED  BY <2>1, <2>2
           DEF SeenInv, CursorIsWhatWasSeen, ReplayIsWhatWasSeen, Advance
<1>10. ASSUME NEW c \in Conn, Deliver(c)
       PROVE  Good(c)
  <2>1. pc[c] = "deliver" /\ pc'[c] \notin {"paging", "replaying"}
    BY <1>10 DEF Deliver, Wait, TypeInv, SessionsTyped
  <2>2. CASE \E m : held[c] # << >> /\ m = Head(held[c]) /\ SendEvent(c, m)
                    /\ Verdict(cursors[c][m.task], m) = "send"
    <3>1. PICK m : /\ held[c] # << >> /\ m = Head(held[c]) /\ SendEvent(c, m)
                   /\ Verdict(cursors[c][m.task], m) = "send"
      BY <2>2
    <3>2. m.task \in Task
      BY <3>1, HeldTyped
    <3>3. /\ cursors[c][m.task] # NoCursor
          /\ m.sequence = cursors[c][m.task] + 1
      BY <3>1 DEF Verdict
    <3>4. /\ cursors'[c] = [cursors[c] EXCEPT ![m.task] = m.sequence]
          /\ seen'[c] = [seen[c] EXCEPT ![m.task] = m.sequence]
      BY <3>1 DEF SendEvent, TypeInv, SessionsTyped, ClientsTyped
    <3>5. /\ cursors[c] \in [Task -> {NoCursor} \cup 0 .. MaxEvents]
          /\ seen[c] \in [Task -> 0 .. MaxEvents]
      BY DEF TypeInv, SessionsTyped, ClientsTyped
    <3>6. cursors[c][m.task] = seen[c][m.task]
      BY <2>1, <3>2, <3>3 DEF SeenInv, CursorIsWhatWasSeen
    <3> QED  BY <2>1, <3>2, <3>3, <3>4, <3>5, <3>6
             DEF SeenInv, CursorIsWhatWasSeen, Advance
  <2>3. CASE ~ \E m : held[c] # << >> /\ m = Head(held[c]) /\ SendEvent(c, m)
                      /\ Verdict(cursors[c][m.task], m) = "send"
    <3>1. /\ seen' = seen
          /\ cursors' = cursors \/ \E t : cursors' = [cursors EXCEPT ![c][t] = NoCursor]
      BY <1>10, <2>3 DEF Deliver, Resync, client
    <3>2. \A t \in Task : cursors'[c][t] \in {NoCursor, cursors[c][t]}
      BY <3>1 DEF TypeInv, SessionsTyped
    <3> QED  BY <2>1, <3>1, <3>2, SeenKept
  <2> QED  BY <2>2, <2>3
<1>11. ASSUME NEW c \in Conn, ConnStep(c)
       PROVE  \A d \in Conn : Good(d)
  <2>1. Good(c)
    BY <1>4, <1>5, <1>6, <1>7, <1>8, <1>9, <1>10, <1>11 DEF ConnStep
  <2> QED  BY <1>3, <1>11, <2>1
<1>12. CASE \/ \E t \in Task : Commit(t)
            \/ \E t \in Task, n \in 1 .. MaxEvents : Publish(t, n)
            \/ UNCHANGED vars
  <2>1. UNCHANGED <<pc, cursors, replay, seen>>
    BY <1>12 DEF Commit, Publish, vars, session, client
  <2> QED  BY <1>1, <1>2, <2>1
<1> QED  BY <1>1, <1>11, <1>12 DEF AnyStep

LEMMA SeenInvariant == Spec => []SeenInv
<1>1. Init => SeenInv
  BY DEF Init, SeenInv, CursorIsWhatWasSeen, ReplayIsWhatWasSeen
<1>2. TypeInv /\ SeenInv /\ [Next]_vars => SeenInv'
  BY SeenStep, NextIsStep
<1> QED  BY <1>1, <1>2, TypeInvariant, PTL DEF Spec

\* The cursor a session keeps of a task, and names when it asks for a resync, is
\* the last event its client has received (session.py: cursors and _replay).
THEOREM CursorsAgree == Spec => []CursorIsWhatWasSeen
<1>1. SeenInv => CursorIsWhatWasSeen
  BY DEF SeenInv
<1> QED  BY <1>1, SeenInvariant, PTL

\* A client receives the events of a task one after the other, from the replay
\* and from the live stream alike, in whatever order they were published
\* (session.py: the comparison of a message with the cursor).
THEOREM EventsInOrder == Spec => InOrder
<1>1. TypeInv /\ SeenInv /\ [Next]_vars =>
        \A c \in Conn, t \in Task :
           seen'[c][t] # seen[c][t] =>
              \/ seen'[c][t] = seen[c][t] + 1
              \/ replay'[c].task = t /\ pc'[c] = "paging"
  BY SeenStep, NextIsStep DEF Advance
<1> QED  BY <1>1, TypeInvariant, SeenInvariant, PTL DEF Spec, InOrder

--------------------------------------------------------------------------------
(* Nothing is lost in silence                                                 *)

\* What a connection has been given and has not handled: the messages in its
\* queue and the one its session holds.
Elements(q) == {q[i] : i \in 1 .. Len(q)}

Outstanding(c) == Elements(queue[c]) \cup Elements(held[c])

\* A resync of the task is among them.
Told(c, t) == ResyncMsg(t) \in Outstanding(c)

OnItsWay(c, t, n) == <<t, n>> \in unpublished \/ EventMsg(t, n) \in Outstanding(c)

\* A client that believes it follows a task either has a resync of it coming or
\* every event it has not seen is on its way: in a call that has committed it, in
\* the connection's queue, or with the session.
NothingIsLost ==
    \A c \in Conn : \A t \in live[c] :
        Told(c, t) \/ \A n \in seen[c][t] + 1 .. log[t] : OnItsWay(c, t, n)

\* A connection follows one task at a time.  With two, the overflow of a queue
\* drops the events of both and names only one of them.
OneAtATime ==
    \A c \in Conn : \A t, u \in subs[c] \cup brokerSubs[c] : t = u

\* NothingIsLost is not inductive: an event yet to be published reaches only the
\* connections the broker knows to be subscribed, a replay has to leave no gap
\* between its last page and the live stream, and a message is not taken while
\* another is held.
Covered(c, t, after) ==
    \/ Told(c, t)
    \/ t \in brokerSubs[c] /\ \A n \in after + 1 .. log[t] : OnItsWay(c, t, n)

Following(c) ==
    /\ live[c] \subseteq subs[c]
    /\ \A t \in live[c] : cursors[c][t] # NoCursor /\ Covered(c, t, cursors[c][t])

CaughtUp(c) ==
    pc[c] \in {"paging", "replaying"} =>
        /\ replay[c].task \in subs[c] \ live[c]
        /\ Told(c, replay[c].task) \/ replay[c].task \in brokerSubs[c]
        /\ pc[c] = "replaying" /\ ~replay[c].more
             => Covered(c, replay[c].task, replay[c].upto)

Idle(c) ==
    /\ pc[c] \notin {"paging", "replaying", "deliver"} => held[c] = << >>
    /\ pc[c] \in {"closed", "welcoming"} => live[c] = {}

Attended(c) == Following(c) /\ CaughtUp(c) /\ Idle(c)

StreamInv == \A c \in Conn : Attended(c)

LEMMA ElementsOfQueues ==
    ASSUME NEW q \in Seq(Message)
    PROVE  /\ Elements(<< >>) = {}
           /\ \A m : Elements(<<m>>) = {m}
           /\ \A m \in Message : Elements(Append(q, m)) = Elements(q) \cup {m}
           /\ q # << >> => Elements(q) = Elements(Tail(q)) \cup {Head(q)}
<1>1. Elements(<< >>) = {} /\ \A m : Elements(<<m>>) = {m}
  BY DEF Elements
<1>2. ASSUME NEW m \in Message
      PROVE  Elements(Append(q, m)) = Elements(q) \cup {m}
  <2>1. /\ Len(q) \in Nat /\ Len(Append(q, m)) = Len(q) + 1
        /\ \A i \in 1 .. Len(q) : Append(q, m)[i] = q[i]
        /\ Append(q, m)[Len(q) + 1] = m
    OBVIOUS
  <2>2. 1 .. Len(q) + 1 = (1 .. Len(q)) \cup {Len(q) + 1}
    BY <2>1
  <2> QED  BY <2>1, <2>2, Zenon DEF Elements
<1>3. ASSUME q # << >>
      PROVE  Elements(q) = Elements(Tail(q)) \cup {Head(q)}
  <2>1. /\ Len(q) \in Nat \ {0} /\ Len(Tail(q)) = Len(q) - 1
        /\ Head(q) = q[1] /\ \A i \in 1 .. Len(q) - 1 : Tail(q)[i] = q[i + 1]
    BY <1>3
  <2> DEFINE n == Len(q)  tail == Tail(q)
  <2>2. n \in Nat \ {0} /\ Len(tail) = n - 1 /\ \A i \in 1 .. n - 1 : tail[i] = q[i + 1]
    BY <2>1
  <2> HIDE DEF n, tail
  <2>3. {q[i] : i \in 1 .. n} = {tail[i] : i \in 1 .. n - 1} \cup {q[1]}
    <3>1. ASSUME NEW i \in 1 .. n
          PROVE  i = 1 \/ (i - 1 \in 1 .. n - 1 /\ q[i] = tail[i - 1])
      BY <2>2
    <3>2. ASSUME NEW i \in 1 .. n - 1
          PROVE  i + 1 \in 1 .. n /\ tail[i] = q[i + 1]
      BY <2>2
    <3>3. 1 \in 1 .. n
      BY <2>2
    <3> DEFINE all == {q[i] : i \in 1 .. n}  rest == {tail[i] : i \in 1 .. n - 1}
    <3>4. ASSUME NEW x \in all
          PROVE  x \in rest \/ x = q[1]
      <4>1. PICK i \in 1 .. n : x = q[i]
        OBVIOUS
      <4> QED  BY <3>1, <4>1
    <3>5. ASSUME NEW x \in rest
          PROVE  x \in all
      <4>1. PICK i \in 1 .. n - 1 : x = tail[i]
        OBVIOUS
      <4> QED  BY <3>2, <4>1
    <3>6. q[1] \in all
      BY <3>3
    <3> HIDE DEF all, rest
    <3>7. all = rest \cup {q[1]}
      BY <3>4, <3>5, <3>6, Zenon
    <3> QED  BY <3>7 DEF all, rest
  <2> QED  BY <2>1, <2>2, <2>3 DEF Elements, n, tail
<1> QED  BY <1>1, <1>2, <1>3

\* A message taken from the queue is held, and nothing else was held before.
LEMMA TakenIsHeld ==
    ASSUME TypeInv, NEW c \in Conn, held[c] = << >>, queue[c] # << >>,
           queue' = [queue EXCEPT ![c] = Tail(@)],
           held' = [held EXCEPT ![c] = <<Head(queue[c])>>]
    PROVE  Outstanding(c)' = Outstanding(c)
<1>1. queue'[c] = Tail(queue[c]) /\ held'[c] = <<Head(queue[c])>>
  BY DEF TypeInv, QueuesTyped
<1>2. queue[c] \in Seq(Message)
  BY DEF TypeInv, QueuesTyped
<1>3. /\ Elements(queue[c]) = Elements(Tail(queue[c])) \cup {Head(queue[c])}
      /\ Elements(held[c]) = {} /\ Elements(<<Head(queue[c])>>) = {Head(queue[c])}
  BY <1>2, ElementsOfQueues
<1> QED  BY ONLY <1>1, <1>3 DEF Outstanding

LEMMA ReceivedIsHeld ==
    ASSUME TypeInv, NEW c \in Conn, Idle(c), Receive(c)
    PROVE  Outstanding(c)' = Outstanding(c)
<1>1. CASE UNCHANGED <<held, queue>>
  BY <1>1 DEF Outstanding
<1>2. CASE Waiting(c) /\ Take(c) /\ held' = [held EXCEPT ![c] = <<Head(queue[c])>>]
  BY <1>2, TakenIsHeld DEF Waiting, Take, Idle
<1> QED  BY <1>1, <1>2 DEF Receive

\* A covered task stays covered while nothing outstanding goes.
LEMMA CoveredKept ==
    ASSUME NEW c, NEW t, NEW after \in Int, NEW later \in Int, after <= later,
           log' = log, log[t] \in Int, unpublished' = unpublished,
           Outstanding(c) \subseteq Outstanding(c)',
           t \in brokerSubs[c] => t \in brokerSubs'[c],
           Covered(c, t, after)
    PROVE  Covered(c, t, later)'
<1>1. CASE Told(c, t)
  BY <1>1 DEF Told, Covered
<1>2. CASE t \in brokerSubs[c] /\ \A n \in after + 1 .. log[t] : OnItsWay(c, t, n)
  <2>1. ASSUME NEW n \in later + 1 .. log'[t]
        PROVE  OnItsWay(c, t, n)'
    <3>1. n \in after + 1 .. log[t]
      OBVIOUS
    <3> QED  BY <1>2, <3>1 DEF OnItsWay
  <2> QED  BY <1>2, <2>1 DEF Covered
<1> QED  BY <1>1, <1>2 DEF Covered

LEMMA FollowingKept ==
    ASSUME TypeInv, NEW c \in Conn, Following(c),
           log' = log, unpublished' = unpublished,
           Outstanding(c) \subseteq Outstanding(c)',
           live'[c] \subseteq live[c], live'[c] \subseteq subs'[c],
           \A t \in live'[c] : /\ cursors'[c][t] = cursors[c][t]
                               /\ t \in brokerSubs[c] => t \in brokerSubs'[c]
    PROVE  Following(c)'
<1>1. ASSUME NEW t \in live'[c]
      PROVE  cursors'[c][t] # NoCursor /\ Covered(c, t, cursors[c][t])'
  <2>1. t \in live[c] /\ t \in Task
    BY DEF TypeInv, ClientsTyped
  <2>2. PICK a : a = cursors[c][t]
    OBVIOUS
  <2>3. a \in Int /\ log[t] \in Int
    BY <2>1, <2>2 DEF TypeInv, SessionsTyped, LogTyped, NoCursor
  <2>4. a # NoCursor /\ Covered(c, t, a) /\ cursors'[c][t] = a
    BY <2>1, <2>2 DEF Following
  <2>5. Covered(c, t, a)'
    BY <2>3, <2>4, CoveredKept
  <2> QED  BY <2>2, <2>4, <2>5
<1> QED  BY <1>1 DEF Following

\* A session whose state did not change is attended to as before.
LEMMA AttendedAsBefore ==
    ASSUME NEW d \in Conn, Attended(d), log' = log, unpublished' = unpublished,
           pc'[d] = pc[d], queue'[d] = queue[d], held'[d] = held[d], subs'[d] = subs[d],
           brokerSubs'[d] = brokerSubs[d], cursors'[d] = cursors[d],
           replay'[d] = replay[d], live'[d] = live[d]
    PROVE  Attended(d)'
<1>1. Following(d)'
  BY DEF Attended, Following, Covered, Told, OnItsWay, Outstanding
<1>2. CaughtUp(d)'
  BY DEF Attended, CaughtUp, Covered, Told, OnItsWay, Outstanding
<1>3. Idle(d)'
  BY DEF Attended, Idle
<1> QED  BY <1>1, <1>2, <1>3 DEF Attended

\* A step of one session leaves the others as they are.
LEMMA OthersKept ==
    ASSUME TypeInv
    PROVE  \A c \in Conn : ConnStep(c) =>
             \A d \in Conn \ {c} : Attended(d) => Attended(d)'
<1>1. ASSUME NEW c \in Conn, ConnStep(c), NEW d \in Conn \ {c}
      PROVE  /\ log' = log /\ unpublished' = unpublished
             /\ pc'[d] = pc[d] /\ queue'[d] = queue[d] /\ held'[d] = held[d]
             /\ subs'[d] = subs[d] /\ brokerSubs'[d] = brokerSubs[d]
             /\ cursors'[d] = cursors[d] /\ replay'[d] = replay[d]
             /\ live'[d] = live[d]
  <2>1. pc'[d] = pc[d] /\ replay'[d] = replay[d]
    BY <1>1 DEF ConnStep, Open, EndSession, Welcome, WelcomeFails, TakeMessage,
       ReceiveInvalid, ReceiveSubscribe, ReceiveDenied, ReceiveUnsubscribe,
       ReceiveAndContinue, ReplayPage, ReplaySend, NextPage, FinishReplay, Deliver,
       TypeInv, SessionsTyped
  <2>2. queue'[d] = queue[d]
    BY <1>1 DEF ConnStep, Open, EndSession, Cleanup, Welcome, WelcomeFails, TakeMessage,
       ReceiveInvalid, ReceiveSubscribe, ReceiveDenied, ReceiveUnsubscribe,
       ReceiveAndContinue, Receive, Take, ReplayPage, ReplaySend, NextPage, FinishReplay,
       Deliver, server, TypeInv, QueuesTyped
  <2>3. held'[d] = held[d]
    BY <1>1 DEF ConnStep, Open, EndSession, Welcome, WelcomeFails, TakeMessage,
       ReceiveInvalid, ReceiveSubscribe, ReceiveDenied, ReceiveUnsubscribe,
       ReceiveAndContinue, Receive, ReplayPage, ReplaySend, NextPage, FinishReplay,
       Deliver, TypeInv, QueuesTyped
  <2>4. subs'[d] = subs[d]
    BY <1>1 DEF ConnStep, Open, EndSession, Welcome, WelcomeFails, TakeMessage,
       ReceiveInvalid, ReceiveSubscribe, Subscribe, ReceiveDenied, ReceiveUnsubscribe,
       ReplayPage, ReplaySend, NextPage, FinishReplay, Deliver, Resync, SendEvent, server,
       TypeInv, RegistryTyped
  <2>5. brokerSubs'[d] = brokerSubs[d]
    BY <1>1 DEF ConnStep, Open, EndSession, Cleanup, Welcome, WelcomeFails, TakeMessage,
       ReceiveInvalid, ReceiveSubscribe, Subscribe, ReceiveDenied, ReceiveUnsubscribe,
       ReplayPage, ReplaySend, NextPage, FinishReplay, Deliver, Resync, SendEvent, server,
       TypeInv, RegistryTyped
  <2>6. cursors'[d] = cursors[d]
    BY <1>1 DEF ConnStep, Open, EndSession, Welcome, WelcomeFails, TakeMessage,
       ReceiveInvalid, ReceiveSubscribe, ReceiveDenied, ReceiveUnsubscribe, ReplayPage,
       ReplaySend, NextPage, FinishReplay, Deliver, Resync, SendEvent, TypeInv,
       SessionsTyped
  <2>7. live'[d] = live[d]
    BY <1>1 DEF ConnStep, Open, EndSession, Welcome, WelcomeFails, TakeMessage,
       ReceiveInvalid, ReceiveSubscribe, ReceiveDenied, ReceiveUnsubscribe, ReplayPage,
       ReplaySend, NextPage, FinishReplay, Deliver, Resync, SendEvent, client, TypeInv,
       ClientsTyped
  <2>8. log' = log /\ unpublished' = unpublished
    BY <1>1 DEF ConnStep, Open, EndSession, Welcome, WelcomeFails, TakeMessage,
       ReceiveInvalid, ReceiveSubscribe, ReceiveDenied, ReceiveUnsubscribe, ReplayPage,
       ReplaySend, NextPage, FinishReplay, Deliver
  <2> QED  BY <2>1, <2>2, <2>3, <2>4, <2>5, <2>6, <2>7, <2>8
<1> QED  BY <1>1, AttendedAsBefore

\* A commit puts its event on its way.
LEMMA CommitAttended ==
    ASSUME TypeInv, NEW t \in Task, Commit(t), NEW c \in Conn, Attended(c)
    PROVE  Attended(c)'
<1>1. /\ log' = [log EXCEPT ![t] = @ + 1]
      /\ unpublished' = unpublished \cup {<<t, log[t] + 1>>}
      /\ UNCHANGED <<subs, brokerSubs, queue, pc, cursors, held, replay, live>>
  BY DEF Commit, server, session, client
<1>2. ASSUME NEW u \in Task, NEW after \in Int, Covered(c, u, after)
      PROVE  Covered(c, u, after)'
  <2>1. CASE Told(c, u)
    BY <1>1, <2>1 DEF Covered, Told, Outstanding
  <2>2. CASE u \in brokerSubs[c] /\ \A n \in after + 1 .. log[u] : OnItsWay(c, u, n)
    <3>1. log[u] \in Nat /\ log[t] \in Nat /\ log \in [Task -> 0 .. MaxEvents]
      BY DEF TypeInv, LogTyped
    <3>2. ASSUME NEW n \in after + 1 .. log'[u]
          PROVE  OnItsWay(c, u, n)'
      <4>1. CASE n \in after + 1 .. log[u]
        BY <1>1, <2>2, <4>1 DEF OnItsWay, Outstanding
      <4>2. CASE n \notin after + 1 .. log[u]
        <5>1. u = t /\ n = log[t] + 1
          BY <1>1, <3>1, <4>2
        <5> QED  BY <1>1, <5>1 DEF OnItsWay
      <4> QED  BY <4>1, <4>2
    <3> QED  BY <1>1, <2>2, <3>2 DEF Covered
  <2> QED  BY <1>2, <2>1, <2>2 DEF Covered
<1>3. Following(c)'
  <2>1. ASSUME NEW u \in live'[c]
        PROVE  cursors'[c][u] # NoCursor /\ Covered(c, u, cursors[c][u])'
    <3>1. u \in live[c] /\ u \in Task
      BY <1>1 DEF TypeInv, ClientsTyped
    <3>2. PICK a : a = cursors[c][u]
      OBVIOUS
    <3>3. a \in Int /\ a # NoCursor /\ Covered(c, u, a)
      BY <3>1, <3>2 DEF Attended, Following, TypeInv, SessionsTyped, NoCursor
    <3>4. Covered(c, u, a)'
      BY <1>2, <3>1, <3>3
    <3> QED  BY <1>1, <3>2, <3>3, <3>4
  <2> QED  BY <1>1, <2>1 DEF Attended, Following
<1>4. CaughtUp(c)'
  <2>1. PICK u, a : u = replay[c].task /\ a = replay[c].upto
    OBVIOUS
  <2>2. u \in Task /\ a \in Int
    BY <2>1 DEF TypeInv, SessionsTyped
  <2>3. Covered(c, u, a) => Covered(c, u, a)'
    BY <1>2, <2>2
  <2> QED  BY <1>1, <2>1, <2>3 DEF Attended, CaughtUp, Told, Outstanding
<1> QED  BY <1>1, <1>3, <1>4 DEF Attended, Idle

\* A publication reaches every subscribed queue, as its event or as a resync: a
\* full queue belongs to a connection that follows no other task.
LEMMA PublishAttended ==
    ASSUME TypeInv, MatchInv, OneAtATime, NEW t \in Task, NEW n \in 1 .. MaxEvents,
           Publish(t, n), NEW c \in Conn, Attended(c)
    PROVE  Attended(c)'
<1>1. /\ unpublished' = unpublished \ {<<t, n>>}
      /\ UNCHANGED <<log, subs, pc, cursors, held, replay, live>>
      /\ queue'[c] = IF c \in Targets(t) THEN Enqueue(c, t, n) ELSE queue[c]
      /\ brokerSubs'[c] = IF c \in Targets(t) /\ Full(c) THEN brokerSubs[c] \ {t}
                                                        ELSE brokerSubs[c]
  BY DEF Publish, session, client
<1>2. c \in Targets(t) <=> t \in brokerSubs[c]
  BY DEF Targets, MatchInv, BrokerMatchesRegistry
<1>3. ASSUME NEW u \in subs[c]
      PROVE  /\ Told(c, u) => Told(c, u)'
             /\ u \in brokerSubs[c] => Told(c, u)' \/ u \in brokerSubs'[c]
             /\ \A m : OnItsWay(c, u, m) /\ u \in brokerSubs[c]
                         => Told(c, u)' \/ OnItsWay(c, u, m)'
  <2>1. CASE c \notin Targets(t)
    <3>1. Outstanding(c)' = Outstanding(c) /\ brokerSubs'[c] = brokerSubs[c]
      BY <1>1, <2>1 DEF Outstanding
    <3>2. u \in brokerSubs[c] => u # t
      BY <1>2, <2>1
    <3> QED  BY <1>1, <3>1, <3>2 DEF Told, OnItsWay
  <2>2. CASE c \in Targets(t) /\ Full(c)
    <3>1. u = t
      BY <1>2, <2>2 DEF OneAtATime
    <3>2. queue'[c] = <<ResyncMsg(t)>>
      BY <1>1, <2>2 DEF Enqueue
    <3>3. Elements(<<ResyncMsg(t)>>) = {ResyncMsg(t)}
      BY ElementsOfQueues, EmptyTyped
    <3>4. Told(c, u)'
      BY <3>1, <3>2, <3>3 DEF Told, Outstanding
    <3> QED  BY <3>4
  <2>3. CASE c \in Targets(t) /\ ~ Full(c)
    <3>1. queue'[c] = Append(queue[c], EventMsg(t, n)) /\ brokerSubs'[c] = brokerSubs[c]
      BY <1>1, <2>3 DEF Enqueue
    <3>2. EventMsg(t, n) \in Message /\ queue[c] \in Seq(Message)
      <4>1. n \in 0 .. MaxEvents
        BY SizesAssumption
      <4> QED  BY <4>1 DEF EventMsg, Message, TypeInv, QueuesTyped
    <3>3. Elements(Append(queue[c], EventMsg(t, n))) = Elements(queue[c]) \cup {EventMsg(t, n)}
      BY <3>2, ElementsOfQueues
    <3>4. Outstanding(c)' = Outstanding(c) \cup {EventMsg(t, n)}
      BY <1>1, <3>1, <3>3 DEF Outstanding
    <3>5. ASSUME NEW m, OnItsWay(c, u, m)
          PROVE  OnItsWay(c, u, m)'
      <4>1. CASE <<u, m>> = <<t, n>>
        BY <3>4, <4>1 DEF OnItsWay
      <4>2. CASE <<u, m>> # <<t, n>>
        BY <1>1, <3>4, <3>5, <4>2 DEF OnItsWay
      <4> QED  BY <4>1, <4>2
    <3> QED  BY <3>1, <3>4, <3>5 DEF Told
  <2> QED  BY <2>1, <2>2, <2>3
<1>4. ASSUME NEW u \in subs[c], NEW after, Covered(c, u, after)
      PROVE  Covered(c, u, after)'
  <2>1. CASE Told(c, u)'
    BY <2>1 DEF Covered
  <2>2. CASE ~ Told(c, u)'
    <3>1. u \in brokerSubs[c] /\ u \in brokerSubs'[c]
      BY <1>3, <1>4, <2>2 DEF Covered
    <3>2. ASSUME NEW m \in after + 1 .. log'[u]
          PROVE  OnItsWay(c, u, m)'
      <4>1. OnItsWay(c, u, m)
        BY <1>1, <1>3, <1>4, <2>2 DEF Covered
      <4> QED  BY <1>3, <2>2, <3>1, <4>1
    <3> QED  BY <3>1, <3>2 DEF Covered
  <2> QED  BY <2>1, <2>2
<1>5. Following(c)'
  <2>1. ASSUME NEW u \in live'[c]
        PROVE  cursors'[c][u] # NoCursor /\ Covered(c, u, cursors[c][u])'
    <3>1. u \in live[c] /\ u \in subs[c]
      BY <1>1 DEF Attended, Following
    <3>2. PICK a : a = cursors[c][u]
      OBVIOUS
    <3>3. a # NoCursor /\ Covered(c, u, a)
      BY <3>1, <3>2 DEF Attended, Following
    <3>4. Covered(c, u, a)'
      BY <1>4, <3>1, <3>3
    <3> QED  BY <1>1, <3>2, <3>3, <3>4
  <2> QED  BY <1>1, <2>1 DEF Attended, Following
<1>6. CaughtUp(c)'
  <2> SUFFICES ASSUME pc[c] \in {"paging", "replaying"} PROVE CaughtUp(c)'
    BY <1>1 DEF CaughtUp
  <2>1. PICK u, a : u = replay[c].task /\ a = replay[c].upto
    OBVIOUS
  <2>2. u \in subs[c] \ live[c] /\ (Told(c, u) \/ u \in brokerSubs[c])
    BY <2>1 DEF Attended, CaughtUp
  <2>3. Covered(c, u, a) => Covered(c, u, a)'
    BY <1>4, <2>2
  <2>4. Told(c, u)' \/ u \in brokerSubs'[c]
    BY <1>3, <2>2
  <2> QED  BY <1>1, <2>1, <2>2, <2>3, <2>4 DEF Attended, CaughtUp
<1> QED  BY <1>1, <1>5, <1>6 DEF Attended, Idle

\* Beginning, ending and the frames other than a subscription.
LEMMA FrameAttended ==
    ASSUME TypeInv, ~BadFrames, NEW c \in Conn, Attended(c),
           \/ Open(c) \/ Welcome(c) \/ WelcomeFails(c) \/ EndSession(c) \/ TakeMessage(c)
           \/ ReceiveInvalid(c)
           \/ \E t \in Task : ReceiveDenied(c, t) \/ ReceiveUnsubscribe(c, t)
    PROVE  Attended(c)'
<1> USE DEF Attended
<1>1. CASE Open(c)
  <2>1. /\ pc[c] = "closed" /\ live' = live /\ held' = held
        /\ pc' = [pc EXCEPT ![c] = "welcoming"]
    BY <1>1 DEF Open, client
  <2>2. pc'[c] = "welcoming"
    BY <2>1 DEF TypeInv, SessionsTyped
  <2> QED  BY <2>1, <2>2 DEF Idle, Following, CaughtUp
<1>2. CASE EndSession(c)
  <2>1. pc'[c] = "closed" /\ live'[c] = {} /\ held'[c] = << >>
    BY <1>2 DEF EndSession, TypeInv, SessionsTyped, ClientsTyped, QueuesTyped
  <2> QED  BY <2>1 DEF Idle, Following, CaughtUp
<1>3. CASE Welcome(c) \/ WelcomeFails(c)
  <2>1. /\ UNCHANGED <<log, unpublished, subs, brokerSubs, queue, cursors, held, live>>
        /\ pc[c] = "welcoming" /\ pc'[c] \in {"closed", "waiting", "ready"}
    BY <1>3 DEF Welcome, WelcomeFails, Wait, server, client, TypeInv, SessionsTyped
  <2>2. Outstanding(c)' = Outstanding(c)
    BY <2>1 DEF Outstanding
  <2>3. Following(c)'
    BY <2>1, <2>2, FollowingKept DEF Following
  <2> QED  BY <2>1, <2>3 DEF Idle, CaughtUp
<1>4. CASE TakeMessage(c)
  <2>1. /\ UNCHANGED <<log, unpublished, subs, brokerSubs, cursors, live>>
        /\ pc[c] \in {"waiting", "ready"} /\ pc'[c] = "deliver"
    BY <1>4 DEF TakeMessage, Waiting, client, TypeInv, SessionsTyped
  <2>2. Outstanding(c)' = Outstanding(c)
    BY <1>4, <2>1, TakenIsHeld DEF TakeMessage, Take, Idle
  <2>3. Following(c)'
    BY <2>1, <2>2, FollowingKept DEF Following
  <2> QED  BY <2>1, <2>3 DEF Idle, CaughtUp
<1>5. ASSUME NEW t \in Task, ReceiveUnsubscribe(c, t)
      PROVE  Attended(c)'
  <2>1. /\ log' = log /\ unpublished' = unpublished
        /\ subs'[c] = subs[c] \ {t} /\ brokerSubs'[c] = brokerSubs[c] \ {t}
        /\ live'[c] = live[c] \ {t} /\ pc'[c] = "deliver"
        /\ \A u \in Task \ {t} : cursors'[c][u] = cursors[c][u]
    BY <1>5 DEF ReceiveUnsubscribe, TypeInv, SessionsTyped, RegistryTyped, ClientsTyped
  <2>2. Outstanding(c)' = Outstanding(c)
    BY <1>5, ReceivedIsHeld DEF ReceiveUnsubscribe
  <2>3. live'[c] \subseteq subs'[c] /\ live'[c] \subseteq Task \ {t}
    BY <2>1 DEF Following, TypeInv, ClientsTyped
  <2>4. Following(c)'
    BY <2>1, <2>2, <2>3, FollowingKept
  <2> QED  BY <2>1, <2>4 DEF Idle, CaughtUp
<1> QED  BY <1>1, <1>2, <1>3, <1>4, <1>5 DEF ReceiveInvalid, ReceiveDenied

\* A subscription and its replay: the page read last ends at the end of the log,
\* and from then on the broker's messages carry on.
LEMMA ReplayAttended ==
    ASSUME TypeInv, NEW c \in Conn, Attended(c),
           \/ \E t \in Task, after \in 0 .. MaxEvents : ReceiveSubscribe(c, t, after)
           \/ ReplayPage(c) \/ ReplaySend(c) \/ NextPage(c) \/ FinishReplay(c)
    PROVE  Attended(c)'
<1> USE DEF Attended
<1>1. ASSUME NEW t \in Task, NEW after \in 0 .. MaxEvents, ReceiveSubscribe(c, t, after)
      PROVE  Attended(c)'
  <2>1. /\ log' = log /\ unpublished' = unpublished /\ cursors' = cursors
        /\ subs'[c] = subs[c] \cup {t} /\ brokerSubs'[c] = brokerSubs[c] \cup {t}
        /\ live'[c] = live[c] \ {t} /\ pc'[c] = "paging"
    BY <1>1 DEF ReceiveSubscribe, Subscribe, TypeInv, SessionsTyped, RegistryTyped,
       ClientsTyped
  <2>2. replay'[c].task = t
    BY <1>1, NoReplayTyped DEF ReceiveSubscribe, TypeInv, SessionsTyped
  <2>3. Outstanding(c)' = Outstanding(c)
    BY <1>1, ReceivedIsHeld DEF ReceiveSubscribe
  <2>4. Following(c)'
    BY <2>1, <2>3, FollowingKept DEF Following
  <2> QED  BY <2>1, <2>2, <2>4 DEF Idle, CaughtUp
\* Within the replay the registry, the broker and the queue are left alone.
<1>2. ASSUME \/ ReplayPage(c) \/ ReplaySend(c) \/ NextPage(c)
      PROVE  Attended(c)'
  <2>1. /\ UNCHANGED <<log, unpublished, subs, brokerSubs, queue, held, cursors, live>>
        /\ pc[c] \in {"paging", "replaying"} /\ pc'[c] \in {"paging", "replaying"}
        /\ replay'[c].task = replay[c].task
    BY <1>2 DEF ReplayPage, ReplaySend, NextPage, server, client, TypeInv, SessionsTyped
  <2>2. Outstanding(c)' = Outstanding(c)
    BY <2>1 DEF Outstanding
  <2>3. Following(c)'
    BY <2>1, <2>2, FollowingKept DEF Following
  <2>4. PICK t, upto : t = replay[c].task /\ upto = replay'[c].upto
    OBVIOUS
  <2>5. t \in Task /\ log[t] \in Nat
    BY <2>4 DEF TypeInv, SessionsTyped, LogTyped
  <2>6. t \in subs[c] \ live[c] /\ (Told(c, t) \/ t \in brokerSubs[c])
    BY <2>1, <2>4 DEF CaughtUp
  <2>7. (Told(c, t) \/ t \in brokerSubs[c])'
    BY <2>1, <2>2, <2>6 DEF Told
  <2>8. ASSUME pc'[c] = "replaying", ~ replay'[c].more
        PROVE  Covered(c, t, upto)'
    <3>1. CASE ReplayPage(c)
      <4>1. /\ upto = PageEnd(t, replay[c].cursor)
            /\ replay'[c].more = (upto < log[t])
        BY <2>4, <3>1 DEF ReplayPage, TypeInv, SessionsTyped
      <4>2. upto \in Nat /\ ~ (upto < log[t])
        BY <2>4, <2>5, <2>8, <4>1, SizesAssumption DEF PageEnd, TypeInv, SessionsTyped
      <4>3. \A n \in upto + 1 .. log'[t] : FALSE
        BY <2>1, <2>5, <4>2
      <4> QED  BY <2>7, <4>3 DEF Covered
    <3>2. CASE ReplaySend(c)
      <4>1. /\ pc[c] = "replaying" /\ replay'[c].upto = replay[c].upto
            /\ replay'[c].more = replay[c].more
        BY <3>2 DEF ReplaySend, TypeInv, SessionsTyped
      <4>2. Covered(c, t, upto)
        BY <2>4, <2>8, <4>1 DEF CaughtUp
      <4>3. upto \in Int
        BY <2>4, <4>1 DEF TypeInv, SessionsTyped
      <4> QED  BY <2>1, <2>2, <2>5, <4>2, <4>3, CoveredKept
    <3>3. CASE NextPage(c)
      BY <2>8, <3>3 DEF NextPage, TypeInv, SessionsTyped
    <3> QED  BY <1>2, <3>1, <3>2, <3>3
  <2>9. CaughtUp(c)'
    BY <2>1, <2>4, <2>6, <2>7, <2>8 DEF CaughtUp
  <2> QED  BY <2>1, <2>3, <2>9 DEF Idle
<1>3. CASE FinishReplay(c)
  <2>1. PICK t, upto, cursor : /\ t = replay[c].task /\ upto = replay[c].upto
                               /\ cursor = replay[c].cursor
    OBVIOUS
  <2>2. t \in Task /\ upto \in Nat /\ cursor \in Nat /\ log[t] \in Nat
    BY <2>1, SizesAssumption DEF TypeInv, SessionsTyped, LogTyped
  <2>3. /\ UNCHANGED <<log, unpublished, subs, brokerSubs, queue, held>>
        /\ pc[c] = "replaying" /\ pc'[c] = "deliver" /\ cursor >= upto
        /\ ~ replay[c].more /\ live'[c] = live[c] \cup {t}
        /\ cursors'[c] = [cursors[c] EXCEPT ![t] = cursor]
    BY <1>3, <2>1 DEF FinishReplay, StartCursor, server, TypeInv, SessionsTyped,
       ClientsTyped
  <2>4. Outstanding(c)' = Outstanding(c)
    BY <2>3 DEF Outstanding
  <2>5. t \in subs[c] \ live[c] /\ Covered(c, t, upto)
    BY <2>1, <2>3 DEF CaughtUp
  <2>6. Covered(c, t, cursor)'
    BY <2>2, <2>3, <2>4, <2>5, CoveredKept
  <2>7. cursors[c] \in [Task -> {NoCursor} \cup 0 .. MaxEvents]
    BY DEF TypeInv, SessionsTyped
  <2>8. ASSUME NEW u \in live'[c]
        PROVE  cursors'[c][u] # NoCursor /\ Covered(c, u, cursors[c][u])'
    <3>1. CASE u = t
      <4>1. cursors'[c][u] = cursor /\ cursor # NoCursor
        BY <2>2, <2>3, <2>7, <3>1 DEF NoCursor
      <4> QED  BY <2>6, <3>1, <4>1
    <3>2. CASE u # t
      <4>1. u \in live[c] /\ u \in Task
        BY <2>3, <3>2 DEF TypeInv, ClientsTyped
      <4>2. PICK a : a = cursors[c][u]
        OBVIOUS
      <4>3. a \in Int /\ a # NoCursor /\ Covered(c, u, a) /\ log[u] \in Int
        BY <4>1, <4>2 DEF Following, TypeInv, SessionsTyped, LogTyped, NoCursor
      <4>4. Covered(c, u, a)'
        BY <2>3, <2>4, <4>3, CoveredKept
      <4>5. cursors'[c][u] = a
        BY <2>3, <2>7, <3>2, <4>1, <4>2
      <4> QED  BY <4>3, <4>4, <4>5
    <3> QED  BY <3>1, <3>2
  <2>9. Following(c)'
    BY <2>3, <2>5, <2>8 DEF Following
  <2> QED  BY <2>3, <2>9 DEF Idle, CaughtUp
<1> QED  BY <1>1, <1>2, <1>3

\* The one message a session can hold.
LEMMA HeldIsOne ==
    ASSUME TypeInv, NEW c \in Conn, held[c] # << >>
    PROVE  Elements(held[c]) = {Head(held[c])}
<1>1. held[c] \in Seq(Message) /\ Len(held[c]) <= 1
  BY DEF TypeInv, QueuesTyped
<1>2. held[c] = <<Head(held[c])>>
  BY <1>1
<1>3. Elements(<<Head(held[c])>>) = {Head(held[c])}
  BY <1>1, ElementsOfQueues
<1> QED  BY <1>2, <1>3

\* A message handled is one the client has seen already, the one that comes next,
\* or the end of its belief to follow the task.
LEMMA DeliverAttended ==
    ASSUME TypeInv, NEW c \in Conn, Attended(c), Deliver(c)
    PROVE  Attended(c)'
<1> USE DEF Attended
<1>1. /\ log' = log /\ unpublished' = unpublished /\ queue' = queue
      /\ held'[c] = << >> /\ pc'[c] \in {"waiting", "ready"}
      /\ Outstanding(c)' = Elements(queue[c])
  <2>1. /\ log' = log /\ unpublished' = unpublished /\ queue' = queue
        /\ held'[c] = << >> /\ pc'[c] \in {"waiting", "ready"}
    BY DEF Deliver, Wait, TypeInv, SessionsTyped, QueuesTyped
  <2>2. Elements(<< >>) = {}
    BY EmptyTyped, ElementsOfQueues
  <2> QED  BY <2>1, <2>2 DEF Outstanding
<1>2. SUFFICES Following(c)'
  BY <1>1 DEF Idle, CaughtUp
<1>3. CASE held[c] = << >> /\ UNCHANGED <<subs, brokerSubs, cursors, client>>
  <2>1. Elements(held[c]) = {}
    BY <1>3, EmptyTyped, ElementsOfQueues
  <2>2. Outstanding(c) \subseteq Outstanding(c)'
    BY <1>1, <2>1 DEF Outstanding
  <2>3. /\ live'[c] = live[c] /\ subs'[c] = subs[c]
        /\ brokerSubs'[c] = brokerSubs[c] /\ cursors'[c] = cursors[c]
    BY <1>3 DEF client
  <2>4. live[c] \subseteq subs[c]
    BY DEF Following
  <2> QED  BY <1>1, <2>2, <2>3, <2>4, FollowingKept
<1>4. CASE held[c] # << >>
  <2>1. PICK m : m = Head(held[c])
    OBVIOUS
  <2>2. m \in Message /\ m.task \in Task
    <3>1. held[c] \in Seq(Message)
      BY DEF TypeInv, QueuesTyped
    <3>2. m \in Message
      BY <1>4, <2>1, <3>1
    <3> QED  BY <3>2 DEF Message
  <2>3. \A x \in Outstanding(c) : x = m \/ x \in Outstanding(c)'
    BY <1>1, <1>4, <2>1, HeldIsOne DEF Outstanding
  \* The tasks the message is not about.
  <2>4. ASSUME NEW u \in Task, u # m.task, NEW a \in Int, Covered(c, u, a),
               u \in brokerSubs[c] => u \in brokerSubs'[c]
        PROVE  Covered(c, u, a)'
    <3>1. m # ResyncMsg(u) /\ \A n : m # EventMsg(u, n)
      BY <2>4 DEF ResyncMsg, EventMsg
    <3> QED  BY <1>1, <2>3, <2>4, <3>1 DEF Covered, Told, OnItsWay
  <2>5. ASSUME live'[c] = live[c], subs'[c] = subs[c], brokerSubs'[c] = brokerSubs[c],
               NEW b \in Int, m.task \in live[c] => b # NoCursor /\ Covered(c, m.task, b)',
               cursors'[c] = [cursors[c] EXCEPT ![m.task] = b]
        PROVE  Following(c)'
    <3>1. ASSUME NEW u \in live'[c]
          PROVE  cursors'[c][u] # NoCursor /\ Covered(c, u, cursors[c][u])'
      <4>1. /\ u \in live[c] /\ u \in Task
            /\ cursors[c] \in [Task -> {NoCursor} \cup 0 .. MaxEvents]
        BY <2>5 DEF TypeInv, ClientsTyped, SessionsTyped
      <4>2. CASE u = m.task
        BY <2>5, <4>1, <4>2
      <4>3. CASE u # m.task
        <5>1. PICK a : a = cursors[c][u]
          OBVIOUS
        <5>2. a \in Int /\ a # NoCursor /\ Covered(c, u, a)
          BY <4>1, <5>1 DEF Following, NoCursor
        <5>3. Covered(c, u, a)'
          BY <2>4, <2>5, <4>1, <4>3, <5>2
        <5>4. cursors'[c][u] = a
          BY <2>5, <4>1, <4>3, <5>1
        <5> QED  BY <5>2, <5>3, <5>4
      <4> QED  BY <4>2, <4>3
    <3> QED  BY <2>5, <3>1 DEF Following
  <2>6. cursors[c] \in [Task -> {NoCursor} \cup 0 .. MaxEvents]
    BY DEF TypeInv, SessionsTyped
  <2>7. PICK b : b = cursors[c][m.task]
    OBVIOUS
  <2>8. b \in Int /\ (m.task \in live[c] => b # NoCursor /\ Covered(c, m.task, b))
    BY <2>2, <2>6, <2>7 DEF Following, NoCursor
  <2>9. m.task \in live[c] /\ ~ Told(c, m.task)
          => \A n \in b + 1 .. log[m.task] : OnItsWay(c, m.task, n)
    BY <2>8 DEF Covered
  \* A message of no concern, or older than what the client has.
  <2>10. CASE Verdict(b, m) = "ignore" /\ UNCHANGED <<subs, brokerSubs, cursors, client>>
    <3>1. m.task \in live[c] => m.kind # "resync" /\ m.sequence <= b
      BY <2>8, <2>10 DEF Verdict
    <3>2. m.task \in live[c] => Covered(c, m.task, b)'
      <4> SUFFICES ASSUME m.task \in live[c] PROVE Covered(c, m.task, b)'
        OBVIOUS
      <4>1. m # ResyncMsg(m.task) /\ \A n \in Int : n > b => m # EventMsg(m.task, n)
        <5>1. m.sequence \in Int
          BY <2>2, SizesAssumption DEF Message
        <5> QED  BY <2>8, <3>1, <5>1 DEF ResyncMsg, EventMsg
      <4>2. log[m.task] \in Int /\ \A n \in b + 1 .. log[m.task] : n > b /\ n \in Int
        BY <2>2, <2>8 DEF TypeInv, LogTyped
      <4> QED  BY <1>1, <2>3, <2>8, <2>10, <4>1, <4>2 DEF Covered, Told, OnItsWay
    <3>3. cursors'[c] = [cursors[c] EXCEPT ![m.task] = b]
      BY <2>2, <2>6, <2>7, <2>10
    <3>4. live'[c] = live[c] /\ subs'[c] = subs[c] /\ brokerSubs'[c] = brokerSubs[c]
      BY <2>10 DEF client
    <3> QED  BY <2>5, <2>8, <3>2, <3>3, <3>4
  \* The event that comes next.
  <2>11. CASE Verdict(b, m) = "send" /\ SendEvent(c, m)
    <3>1. b # NoCursor /\ m.kind # "resync" /\ m.sequence = b + 1
      BY <2>11 DEF Verdict
    <3>2. m.task \in live[c] => Covered(c, m.task, b + 1)'
      <4> SUFFICES ASSUME m.task \in live[c] PROVE Covered(c, m.task, b + 1)'
        OBVIOUS
      <4>1. m # ResyncMsg(m.task) /\ \A n : n > b + 1 => m # EventMsg(m.task, n)
        BY <2>8, <3>1 DEF ResyncMsg, EventMsg
      <4>2. /\ log[m.task] \in Int
            /\ \A n \in b + 1 + 1 .. log[m.task] : n > b + 1 /\ n \in b + 1 .. log[m.task]
        BY <2>2, <2>8 DEF TypeInv, LogTyped
      <4>3. brokerSubs' = brokerSubs
        BY <2>11 DEF SendEvent
      <4> QED  BY <1>1, <2>3, <2>8, <4>1, <4>2, <4>3 DEF Covered, Told, OnItsWay
    <3>3. cursors'[c] = [cursors[c] EXCEPT ![m.task] = b + 1]
      BY <2>11, <3>1 DEF SendEvent, TypeInv, SessionsTyped
    <3>4. live'[c] = live[c] /\ subs'[c] = subs[c] /\ brokerSubs'[c] = brokerSubs[c]
      BY <2>11 DEF SendEvent
    <3>5. b + 1 \in Int /\ b + 1 # NoCursor
      <4>1. b \in Nat
        BY <2>2, <2>6, <2>7, <3>1, SizesAssumption
      <4> QED  BY <4>1 DEF NoCursor
    <3> QED  BY <2>5, <3>2, <3>3, <3>4, <3>5
  \* The client is told to start over.
  <2>12. CASE Resync(c, m.task, FALSE) \/ Resync(c, m.task, TRUE)
    <3>1. /\ live'[c] = live[c] \ {m.task} /\ subs'[c] = subs[c] \ {m.task}
          /\ cursors'[c] = [cursors[c] EXCEPT ![m.task] = NoCursor]
          /\ brokerSubs'[c] \in {brokerSubs[c], brokerSubs[c] \ {m.task}}
      BY <2>12 DEF Resync, TypeInv, SessionsTyped, RegistryTyped, ClientsTyped
    <3>2. ASSUME NEW u \in live'[c]
          PROVE  cursors'[c][u] # NoCursor /\ Covered(c, u, cursors[c][u])'
      <4>1. u \in live[c] /\ u # m.task /\ u \in Task
        BY <3>1 DEF TypeInv, ClientsTyped
      <4>2. PICK a : a = cursors[c][u]
        OBVIOUS
      <4>3. a \in Int /\ a # NoCursor /\ Covered(c, u, a)
        BY <2>6, <4>1, <4>2 DEF Following, NoCursor
      <4>4. Covered(c, u, a)'
        BY <2>4, <3>1, <4>1, <4>3
      <4>5. cursors'[c][u] = a
        BY <2>6, <3>1, <4>1, <4>2
      <4> QED  BY <4>3, <4>4, <4>5
    <3>3. live'[c] \subseteq subs'[c]
      BY <3>1 DEF Following
    <3> QED  BY <3>2, <3>3 DEF Following
  <2> QED  BY <1>4, <2>1, <2>7, <2>10, <2>11, <2>12 DEF Deliver
<1> QED  BY <1>3, <1>4 DEF Deliver

LEMMA StreamStep ==
    ASSUME TypeInv, MatchInv, OneAtATime, ~BadFrames, StreamInv, AnyStep
    PROVE  StreamInv'
<1>1. ASSUME NEW c \in Conn, ConnStep(c)
      PROVE  StreamInv'
  <2>1. Attended(c)'
    BY <1>1, FrameAttended, ReplayAttended, DeliverAttended DEF ConnStep, StreamInv
  <2>2. \A d \in Conn \ {c} : Attended(d)'
    BY <1>1, OthersKept DEF StreamInv
  <2> QED  BY <2>1, <2>2 DEF StreamInv
<1>2. ASSUME NEW t \in Task, Commit(t)
      PROVE  StreamInv'
  BY <1>2, CommitAttended DEF StreamInv
<1>3. ASSUME NEW t \in Task, NEW n \in 1 .. MaxEvents, Publish(t, n)
      PROVE  StreamInv'
  BY <1>3, PublishAttended DEF StreamInv
<1>4. CASE UNCHANGED vars
  <2>1. UNCHANGED <<log, unpublished, subs, brokerSubs, queue, pc, cursors, held, replay,
                    live>>
    BY <1>4 DEF vars, server, session, client
  <2> QED  BY <2>1, AttendedAsBefore DEF StreamInv
<1> QED  BY <1>1, <1>2, <1>3, <1>4 DEF AnyStep

\* Whatever the sizes of queue and page and whoever publishes in what order, a
\* client that follows one task at a time and is answered no error never lacks an
\* event in silence: each one it has not seen is on its way to it, or a
\* resync.required is (session.py: subscribe before _replay, the comparison with
\* the cursor; task_events.py: publish and its overflow).
THEOREM NothingLostInSilence ==
    ASSUME ~BadFrames
    PROVE  Spec /\ []OneAtATime => []NothingIsLost
<1>1. Init => StreamInv
  <2>1. Init => \A c \in Conn : Following(c) /\ CaughtUp(c) /\ Idle(c)
    BY DEF Init, Following, CaughtUp, Idle
  <2> QED  BY <2>1 DEF StreamInv, Attended
<1>2. TypeInv /\ MatchInv /\ OneAtATime /\ StreamInv /\ [Next]_vars => StreamInv'
  BY StreamStep, NextIsStep
<1>3. TypeInv /\ SeenInv /\ StreamInv => NothingIsLost
  <2> SUFFICES ASSUME TypeInv, SeenInv, StreamInv, NEW c \in Conn, NEW t \in live[c]
               PROVE  \/ Told(c, t)
                      \/ \A n \in seen[c][t] + 1 .. log[t] : OnItsWay(c, t, n)
    BY DEF NothingIsLost
  <2>1. cursors[c][t] # NoCursor /\ Covered(c, t, cursors[c][t])
    BY DEF StreamInv, Attended, Following
  <2>2. t \in Task /\ ~ (pc[c] \in {"paging", "replaying"} /\ replay[c].task = t)
    BY DEF StreamInv, Attended, CaughtUp, TypeInv, ClientsTyped
  <2>3. cursors[c][t] = seen[c][t]
    BY <2>1, <2>2 DEF SeenInv, CursorIsWhatWasSeen
  <2> QED  BY <2>1, <2>3 DEF Covered
<1> QED  BY <1>1, <1>2, <1>3, TypeInvariant, MatchInvariant, SeenInvariant, PTL DEF Spec

--------------------------------------------------------------------------------
(* The feed                                                                   *)

\* Whatever waits for the broker, for a session or for a client is in the log.
Known(c) ==
    /\ \A m \in Outstanding(c) : m.sequence <= log[m.task]
    /\ \A t \in Task : seen[c][t] <= log[t]
    /\ pc[c] = "replaying" => replay[c].upto <= log[replay[c].task]

KnownInv ==
    /\ \A t \in Task, n \in 1 .. MaxEvents : <<t, n>> \in unpublished => n <= log[t]
    /\ \A c \in Conn : Known(c)

\* A session only takes messages away.
LEMMA OutstandingStep ==
    ASSUME TypeInv, NEW c \in Conn, ConnStep(c), NEW d \in Conn
    PROVE  Outstanding(d)' \subseteq Outstanding(d)
<1>1. \/ queue'[d] \in {queue[d], << >>}
      \/ queue[d] # << >> /\ queue'[d] = Tail(queue[d])
  BY DEF ConnStep, Open, EndSession, Cleanup, Welcome, WelcomeFails, TakeMessage,
     ReceiveInvalid, ReceiveSubscribe, ReceiveDenied, ReceiveUnsubscribe,
     ReceiveAndContinue, Receive, Take, ReplayPage, ReplaySend, NextPage, FinishReplay,
     Deliver, server, TypeInv, QueuesTyped
<1>2. \/ held'[d] \in {held[d], << >>}
      \/ queue[d] # << >> /\ held'[d] = <<Head(queue[d])>>
  BY DEF ConnStep, Open, EndSession, Welcome, WelcomeFails, TakeMessage,
     ReceiveInvalid, ReceiveSubscribe, ReceiveDenied, ReceiveUnsubscribe,
     ReceiveAndContinue, Receive, Take, ReplayPage, ReplaySend, NextPage, FinishReplay,
     Deliver, TypeInv, QueuesTyped
<1>3. queue[d] \in Seq(Message)
  BY DEF TypeInv, QueuesTyped
<1>4. /\ Elements(<< >>) = {} /\ Elements(<<Head(queue[d])>>) = {Head(queue[d])}
      /\ queue[d] # << >> => Elements(queue[d]) = Elements(Tail(queue[d])) \cup {Head(queue[d])}
  BY <1>3, ElementsOfQueues
<1>5. Elements(queue'[d]) \subseteq Elements(queue[d])
  BY <1>1, <1>4
<1>6. Elements(held'[d]) \subseteq Elements(queue[d]) \cup Elements(held[d])
  BY <1>2, <1>4
<1> QED  BY <1>5, <1>6 DEF Outstanding

\* What a client is sent comes from the page or from the queue.
LEMMA SeenKnown ==
    ASSUME TypeInv, KnownInv, NEW c \in Conn, ConnStep(c), NEW d \in Conn, NEW t \in Task
    PROVE  seen'[d][t] <= log[t]
<1>1. /\ seen[d][t] <= log[t] /\ seen \in [Conn -> [Task -> 0 .. MaxEvents]]
      /\ log[t] \in Nat
  BY DEF KnownInv, Known, TypeInv, ClientsTyped, LogTyped
<1>2. ASSUME NEW u \in Task, NEW after, ReceiveSubscribe(c, u, after)
      PROVE  seen'[d][t] <= log[t]
  <2>1. seen' = [seen EXCEPT ![c][u] = after] /\ after \in {0, seen[c][u]}
    BY <1>2 DEF ReceiveSubscribe
  <2> QED  BY <1>1, <2>1
<1>3. CASE ReplaySend(c)
  <2>1. PICK u, n, upto : u = replay[c].task /\ n = replay[c].cursor /\ upto = replay[c].upto
    OBVIOUS
  <2>2. /\ seen' = [seen EXCEPT ![c][u] = n + 1] /\ pc[c] = "replaying" /\ n < upto
        /\ u \in Task /\ n \in Nat /\ upto \in Nat
    BY <1>3, <2>1, SizesAssumption DEF ReplaySend, TypeInv, SessionsTyped
  <2>3. upto <= log[u] /\ log[u] \in Nat
    BY <2>1, <2>2 DEF KnownInv, Known, TypeInv, LogTyped
  <2> QED  BY <1>1, <2>2, <2>3
<1>4. CASE Deliver(c)
  <2>1. CASE seen' = seen
    BY <1>1, <2>1
  <2>2. CASE seen' # seen
    <3>1. PICK m : /\ held[c] # << >> /\ m = Head(held[c])
                   /\ seen' = [seen EXCEPT ![c][m.task] = m.sequence]
      BY <1>4, <2>2 DEF Deliver, Resync, SendEvent, client
    <3>2. m \in Outstanding(c)
      BY <3>1, HeldIsOne DEF Outstanding
    <3>3. m.sequence <= log[m.task]
      BY <3>2 DEF KnownInv, Known
    <3> QED  BY <1>1, <3>1, <3>3
  <2> QED  BY <2>1, <2>2
<1>5. CASE \/ Open(c) \/ EndSession(c) \/ Welcome(c) \/ WelcomeFails(c) \/ TakeMessage(c)
           \/ ReceiveInvalid(c) \/ ReplayPage(c) \/ NextPage(c) \/ FinishReplay(c)
           \/ \E u \in Task : ReceiveDenied(c, u) \/ ReceiveUnsubscribe(c, u)
  <2>1. seen' = seen
    BY <1>5 DEF Open, EndSession, Welcome, WelcomeFails, TakeMessage, ReceiveInvalid,
       ReplayPage, NextPage, FinishReplay, ReceiveDenied, ReceiveUnsubscribe, client
  <2> QED  BY <1>1, <2>1
<1> QED  BY <1>2, <1>3, <1>4, <1>5 DEF ConnStep

\* A page ends where the log does, or before.
LEMMA ReplayKnown ==
    ASSUME TypeInv, KnownInv, NEW c \in Conn, ConnStep(c), NEW d \in Conn,
           pc'[d] = "replaying"
    PROVE  replay'[d].upto <= log[replay'[d].task]
<1>1. CASE pc'[d] = pc[d] /\ replay'[d].task = replay[d].task
           /\ replay'[d].upto = replay[d].upto
  BY <1>1 DEF KnownInv, Known
<1>2. CASE ReplayPage(c) /\ d = c
  <2>1. PICK u, n : u = replay[c].task /\ n = replay[c].cursor
    OBVIOUS
  <2>2. /\ replay'[d].task = u /\ replay'[d].upto = PageEnd(u, n)
        /\ u \in Task /\ n \in Nat /\ log[u] \in Nat
    BY <1>2, <2>1, SizesAssumption DEF ReplayPage, TypeInv, SessionsTyped, LogTyped
  <2>3. PageEnd(u, n) <= log[u]
    BY <2>2, SizesAssumption DEF PageEnd
  <2> QED  BY <2>2, <2>3
<1>3. CASE d # c
  <2>1. pc'[d] = pc[d] /\ replay'[d] = replay[d]
    BY <1>3 DEF ConnStep, Open, EndSession, Welcome, WelcomeFails, TakeMessage,
       ReceiveInvalid, ReceiveSubscribe, ReceiveDenied, ReceiveUnsubscribe,
       ReceiveAndContinue, ReplayPage, ReplaySend, NextPage, FinishReplay, Deliver,
       TypeInv, SessionsTyped
  <2> QED  BY <1>1, <2>1
<1>4. CASE d = c /\ ~ ReplayPage(c)
  <2>1. ReplaySend(c)
    BY <1>4 DEF ConnStep, Open, EndSession, Welcome, WelcomeFails, TakeMessage,
       ReceiveInvalid, ReceiveSubscribe, ReceiveDenied, ReceiveUnsubscribe,
       ReceiveAndContinue, NextPage, FinishReplay, Deliver, Wait, TypeInv, SessionsTyped
  <2>2. /\ pc' = pc /\ replay'[d].task = replay[d].task
        /\ replay'[d].upto = replay[d].upto
    BY <1>4, <2>1 DEF ReplaySend, TypeInv, SessionsTyped
  <2> QED  BY <1>1, <2>2
<1> QED  BY <1>2, <1>3, <1>4

\* What is on its way to a session are messages of the tasks.
LEMMA OutstandingTyped ==
    ASSUME TypeInv, NEW d \in Conn
    PROVE  \A m \in Outstanding(d) : m.task \in Task /\ m.sequence \in Int
<1>1. queue[d] \in Seq(Message) /\ held[d] \in Seq(Message)
  BY DEF TypeInv, QueuesTyped
<1>2. Elements(queue[d]) \subseteq Message /\ Elements(held[d]) \subseteq Message
  BY <1>1 DEF Elements
<1> QED  BY <1>2, SizesAssumption DEF Outstanding, Message

LEMMA KnownStep ==
    ASSUME TypeInv, KnownInv, AnyStep
    PROVE  KnownInv'
<1>1. ASSUME NEW c \in Conn, ConnStep(c)
      PROVE  KnownInv'
  <2>1. log' = log /\ unpublished' = unpublished
    BY <1>1 DEF ConnStep, Open, EndSession, Welcome, WelcomeFails, TakeMessage,
       ReceiveInvalid, ReceiveSubscribe, ReceiveDenied, ReceiveUnsubscribe, ReplayPage,
       ReplaySend, NextPage, FinishReplay, Deliver
  <2>2. ASSUME NEW d \in Conn
        PROVE  Known(d)'
    <3>1. \A m \in Outstanding(d)' : m.sequence <= log[m.task]
      BY <1>1, OutstandingStep DEF KnownInv, Known
    <3> QED  BY <1>1, <2>1, <3>1, SeenKnown, ReplayKnown DEF Known
  <2> QED  BY <2>1, <2>2 DEF KnownInv
<1>2. ASSUME NEW t \in Task, Commit(t)
      PROVE  KnownInv'
  <2>1. /\ log' = [log EXCEPT ![t] = @ + 1]
        /\ unpublished' = unpublished \cup {<<t, log[t] + 1>>}
        /\ UNCHANGED <<queue, pc, held, replay, seen>>
    BY <1>2 DEF Commit, server, session, client
  <2>2. log \in [Task -> 0 .. MaxEvents]
    BY DEF TypeInv, LogTyped
  <2>3. \A u \in Task : log'[u] \in Int /\ log[u] \in Int /\ log[u] <= log'[u]
    BY <2>1, <2>2
  <2>4. \A u \in Task, n \in 1 .. MaxEvents : <<u, n>> \in unpublished' => n <= log'[u]
    BY <2>1, <2>2, <2>3 DEF KnownInv
  <2>5. ASSUME NEW d \in Conn
        PROVE  Known(d)'
    <3>1. Outstanding(d)' = Outstanding(d)
      BY <2>1 DEF Outstanding
    <3>2. \A m \in Outstanding(d) : m.task \in Task /\ m.sequence \in Int
      BY OutstandingTyped
    <3>3. \A m \in Outstanding(d)' : m.sequence <= log'[m.task]
      BY <2>3, <3>1, <3>2 DEF KnownInv, Known
    <3>4. \A u \in Task : seen'[d][u] <= log'[u]
      BY <2>1, <2>3 DEF KnownInv, Known, TypeInv, ClientsTyped
    <3>5. pc'[d] = "replaying" => replay'[d].upto <= log'[replay'[d].task]
      BY <2>1, <2>3 DEF KnownInv, Known, TypeInv, SessionsTyped
    <3> QED  BY <3>3, <3>4, <3>5 DEF Known
  <2> QED  BY <2>4, <2>5 DEF KnownInv
<1>3. ASSUME NEW t \in Task, NEW n \in 1 .. MaxEvents, Publish(t, n)
      PROVE  KnownInv'
  <2>1. /\ log' = log /\ unpublished' \subseteq unpublished /\ n <= log[t]
        /\ UNCHANGED <<pc, held, replay, seen>>
    BY <1>3 DEF Publish, session, client, KnownInv
  <2>2. ASSUME NEW d \in Conn
        PROVE  Known(d)'
    <3>1. queue'[d] \in {queue[d], <<ResyncMsg(t)>>, Append(queue[d], EventMsg(t, n))}
      BY <1>3 DEF Publish, Enqueue
    <3>2. queue[d] \in Seq(Message) /\ EventMsg(t, n) \in Message
      <4>1. n \in 0 .. MaxEvents
        BY SizesAssumption
      <4> QED  BY <4>1 DEF EventMsg, Message, TypeInv, QueuesTyped
    <3>3. /\ Elements(<<ResyncMsg(t)>>) = {ResyncMsg(t)}
          /\ Elements(Append(queue[d], EventMsg(t, n))) = Elements(queue[d]) \cup {EventMsg(t, n)}
      BY <3>2, ElementsOfQueues
    <3>4. Outstanding(d)' \subseteq Outstanding(d) \cup {ResyncMsg(t), EventMsg(t, n)}
      BY <2>1, <3>1, <3>3 DEF Outstanding
    <3>5. /\ ResyncMsg(t).sequence <= log[ResyncMsg(t).task]
          /\ EventMsg(t, n).sequence <= log[EventMsg(t, n).task]
      BY <2>1 DEF ResyncMsg, EventMsg, TypeInv, LogTyped
    <3> QED  BY <2>1, <3>4, <3>5 DEF KnownInv, Known
  <2> QED  BY <2>1, <2>2 DEF KnownInv
<1>4. CASE UNCHANGED vars
  BY <1>4 DEF vars, server, session, client, KnownInv, Known, Outstanding
<1> QED  BY <1>1, <1>2, <1>3, <1>4 DEF AnyStep

LEMMA KnownInvariant == Spec => []KnownInv
<1>1. Init => KnownInv
  <2> SUFFICES ASSUME Init PROVE KnownInv
    OBVIOUS
  <2>1. \A c \in Conn : Outstanding(c) = {}
    BY ElementsOfQueues, EmptyTyped DEF Init, Outstanding
  <2> QED  BY <2>1 DEF Init, KnownInv, Known
<1>2. TypeInv /\ KnownInv /\ [Next]_vars => KnownInv'
  BY KnownStep, NextIsStep
<1> QED  BY <1>1, <1>2, TypeInvariant, PTL DEF Spec

\* What a client believes to be the last event of a task is never ahead of the log.
SeenIsCommitted == \A c \in Conn, t \in Task : seen[c][t] <= log[t]

\* No client is ever shown an event that is not in the log, or left with a cursor
\* beyond it, whatever is dropped, published late or asked for again
\* (session.py: the events of a page and of the queue are all a client is sent).
THEOREM NothingIsInvented == Spec => []SeenIsCommitted
<1>1. KnownInv => SeenIsCommitted
  BY DEF KnownInv, Known, SeenIsCommitted
<1> QED  BY <1>1, KnownInvariant, PTL

LEMMA CommitFollows ==
    ASSUME TypeInv, NEW t \in Task, Commit(t)
    PROVE  Feed!Commit(t)
<1> DEFINE n == log[t] + 1
<1>1. log \in [Task -> 0 .. MaxEvents] /\ log[t] < MaxEvents
      /\ log' = [log EXCEPT ![t] = n] /\ unpublished' = unpublished \cup {<<t, n>>}
  BY DEF TypeInv, LogTyped, Commit
<1>2. n \in 1 .. MaxEvents /\ n \in Nat
  BY <1>1, SizesAssumption
<1>3. Committed' = Committed \cup {<<t, n>>}
  BY <1>1, <1>2 DEF Committed
<1>4. <<t, n>> \notin Committed /\ \A m \in 1 .. n - 1 : <<t, m>> \in Committed
  BY <1>1, <1>2, SizesAssumption DEF Committed
<1>5. n \in {1} \cup {e[2] + 1 : e \in Committed}
  <2>1. CASE n # 1
    <3>1. <<t, n - 1>> \in Committed /\ <<t, n - 1>>[2] + 1 = n
      BY <1>2, <1>4, <2>1
    <3> QED  BY <3>1
  <2> QED  BY <2>1
<1>6. n \in Feed!NextNumbers(t)
  BY <1>4, <1>5 DEF Feed!NextNumbers
<1> QED  BY <1>1, <1>3, <1>6 DEF Feed!Commit

\* What happens around the stream is what the feed allows.
THEOREM FeedIsFollowed == Spec => FollowsFeed
<1>1. Init => Feed!Init
  BY DEF Init, Feed!Init, Committed
<1>2. TypeInv /\ [Next]_vars => [Feed!Next]_(Feed!vars)
  <2> SUFFICES ASSUME TypeInv, AnyStep PROVE Feed!Next \/ UNCHANGED Feed!vars
    BY NextIsStep
  <2>1. ASSUME NEW t \in Task, Commit(t)
        PROVE  Feed!Next
    BY <2>1, CommitFollows DEF Feed!Next
  <2>2. ASSUME NEW t \in Task, NEW n \in 1 .. MaxEvents, Publish(t, n)
        PROVE  Feed!Next
    <3>1. /\ <<t, n>> \in unpublished /\ unpublished' = unpublished \ {<<t, n>>}
          /\ Committed' = Committed
      BY <2>2 DEF Publish, Committed
    <3>2. Feed!Publish(<<t, n>>)
      BY <3>1 DEF Feed!Publish
    <3> QED  BY <3>1, <3>2 DEF Feed!Next
  <2>3. CASE log' = log /\ unpublished' = unpublished
    BY <2>3 DEF Feed!vars, Committed
  <2>4. ASSUME NEW c \in Conn, ConnStep(c)
        PROVE  log' = log /\ unpublished' = unpublished
    BY <2>4 DEF ConnStep, Open, EndSession, Welcome, WelcomeFails, TakeMessage,
       ReceiveInvalid, ReceiveSubscribe, ReceiveDenied, ReceiveUnsubscribe, ReplayPage,
       ReplaySend, NextPage, FinishReplay, Deliver
  <2> QED  BY <2>1, <2>2, <2>3, <2>4 DEF AnyStep, vars
<1> QED  BY <1>1, <1>2, TypeInvariant, PTL DEF Spec, FollowsFeed, Feed!Spec

\* A replay reads the pages that the feed has (session.py, _replay): the store's are
\* the same, which is FeedIsRead.
THEOREM PagesAreTheFeeds == Spec => []PagesOfFeed
<1>1. TypeInv /\ SeenInv /\ KnownInv => PagesOfFeed
  <2> SUFFICES ASSUME TypeInv, SeenInv, KnownInv, NEW c \in Conn, pc[c] = "paging"
               PROVE  LET r == replay[c]
                          upto == PageEnd(r.task, r.cursor)
                      IN  /\ (r.cursor + 1) .. upto = Feed!Page(r.task, r.cursor, PageSize)
                          /\ upto < log[r.task] <=> Feed!HasMore(r.task, r.cursor, PageSize)
    BY DEF PagesOfFeed
  <2>1. PICK t, n, last : t = replay[c].task /\ n = replay[c].cursor /\ last = log[t]
    OBVIOUS
  <2>2. /\ t \in Task /\ n \in Nat /\ last \in 0 .. MaxEvents /\ n <= last
        /\ MaxEvents \in Nat /\ PageSize \in Nat /\ PageSize > 0
    BY <2>1, SizesAssumption DEF TypeInv, SessionsTyped, LogTyped, SeenInv,
       ReplayIsWhatWasSeen, KnownInv, Known
  <2>3. \A k \in Nat \ {0} : <<t, k>> \in Committed <=> k <= last
    BY <2>1, <2>2 DEF Committed
  <2>4. PageEnd(t, n) = IF n + PageSize < last THEN n + PageSize ELSE last
    BY <2>1 DEF PageEnd
  <2>5. (n + 1) .. PageEnd(t, n)
          = {k \in (n + 1) .. (n + PageSize) : <<t, k>> \in Committed}
    BY <2>2, <2>3, <2>4
  <2>6. PageEnd(t, n) < last <=> <<t, n + PageSize + 1>> \in Committed
    BY <2>2, <2>3, <2>4
  <2> QED  BY <2>1, <2>5, <2>6 DEF Feed!Page, Feed!HasMore
<1> QED  BY <1>1, TypeInvariant, SeenInvariant, KnownInvariant, PTL

================================================================================
