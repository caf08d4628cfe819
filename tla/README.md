# JARVIS OS backend: specifications, model checks and proofs

TLA+ modules for the Python backend in `backend/src/jarvis`: the task control
plane, the live event stream, the workflow graph with the validation of plans and
the policy over them, the application runtime, the identities of desktop devices
and their sessions.
TLC checks them on small instances; TLAPS proves the safety properties that
matter most for every value of their constants.

Paths below are relative to `backend/src/jarvis` unless they start with
`jarvis-os-docs` or `desktop`.

## 1. Inventory

| Component | Source | State it keeps | Operations | What makes it hard |
|---|---|---|---|---|
| Task repository | `tasks/repository.py`, `tasks/models.py` | dictionaries of tasks, projections, approvals, cancellations; event log; outbox | create, read, page through events, cancel, decide an approval, projection writes | four writers number the same log; one commit is four writes; retries with the same key |
| Task services | `tasks/service.py` | none of their own; a call is commit, publish, notify | create, cancel, decide, queries | publisher and notifier may raise between the steps; calls overlap |
| Event broker, connection registry, WebSocket session | `websocket/session.py` | bounded queue and subscriptions per connection; cursors of a session | open, subscribe with replay, unsubscribe, deliver, resync, close | replay races with live events; queues overflow; publications overtake each other; the peer goes away anywhere |
| Workflow graph | `graph/builder.py` and one module per node | `JarvisState` in a checkpoint; approval, dispatch, receipt, verification and revision stores | thirteen nodes, three routes | the process stops between a store call and the checkpoint; results come late or twice; the user answers late or not at all; plans change under approvals |
| Plan validation | `graph/validation.py` | a plan, the sort of its actions | sort, budgets, contracts | the order depends on ids that are hashes; revisions bring merged plans |
| Plan policy | `graph/policy.py` | a decision for every action | rules, aggregate rules, advice of a security model | rules meet in the order of their names; the adviser is not trusted |
| Application runtime | `runtime/lifecycle.py` | runtime state, stack of resources, health reports | start, refresh, shutdown | every resource may fail in every step; probes hold the lock during shutdown |
| Health reporting | `health/` | metric counters | liveness, readiness | reads the runtime without its lock |
| Session establishment | `security/session_auth.py` | challenges, device epochs, sessions | issue a challenge, authenticate, rotate | epoch read before and used after an await; limits and expiry |
| Request authentication | `security/desktop_auth.py` | nonces with their expiry | authenticate a request | clock and expiry at different precisions |
| Device identity | `security/device_identity.py` | key store, registry | register an installation | two registrations at once, with clean-up on failure; answers that are lost |
| Task HTTP API, error mapping, settings, application factory | `tasks/api.py`, `errors.py`, `config/settings.py`, `main.py` | none | translation, wiring | - |
| Model provider | `providers/ollama.py` | an HTTP client | chat, health | outcomes only |
| Reflection, specialist workflows | `graph/reflection.py`, `graph/specialists.py` | candidate store; none | propose a candidate; walk an approved list of steps | idempotency; skipped dependents |
| Policy baseline loader | `desktop/src/Jarvis.Security/Policy` | none | load signed rules and tightening overlays | a pure function |

How they interact:

* The HTTP API and the WebSocket session authenticate a request
  (`desktop_auth`), then call a task service. A service commits to the
  repository, hands the event to the broker and wakes the workflow through a
  notifier.
* The broker puts the event into the queue of every subscribed connection. A
  session waits for a client frame or a queue entry, whichever comes first.
* The workflow runs one node after another from a checkpoint. Its nodes write
  their own stores, and interrupt for two outsiders: the user, who approves or
  denies, and the desktop, which executes what is dispatched and delivers
  receipts.
* The runtime starts telemetry, database, checkpointer, graph, providers and
  workers in that order, and stops them in reverse; probes re-check them.

What makes each part correct:

* *Task control plane*: the log of a task is numbered 1, 2, 3, ...; every event
  the workflow has to know of is in the outbox; a task is created once per key
  and published once; an approval is decided at most once and a cancellation
  recorded at most once; a reader that pages through the log sees all of it.
* *Event stream*: a client sees the events of a task in order and without gaps,
  or is told to resynchronise; cursors say what was sent; queues, connections
  and subscriptions stay within their limits; nothing is left in registry or
  broker when a session ends.
* *Workflow*: nothing is dispatched without policy or approval, before its
  dependencies or twice; revisions keep what has been done; a success is
  claimed only of a plan that ran; a task that has ended gets its answer.
* *Plan validation and policy*: an accepted plan can always go on, and keeps its
  budgets; the strictest rule decides about an action, in whatever order rules
  apply; advice only tightens.
* *Device identity*: registrations that overlap agree on one identity; a failure
  costs nobody else a key, and leaves no key without an explanation.
* *Runtime*: resources outlive what was started after them, none is leaked, work
  is accepted exactly while every dependency is healthy, and a shutdown ends.
* *Sessions*: a device has one active session at most; a challenge leads to one
  grant at most, and two logins from the same epoch to one session; a request
  of a replaced session is refused; a nonce counts once.

## 2. Modules

| Module | Models |
|---|---|
| `TaskLedger` | abstract: an append-only ledger per task and the wake-ups it causes |
| `TaskFeed` | abstract: what the live stream may assume of the task store, and all it does |
| `TaskStore` | repository and services; implements `TaskLedger` and `TaskFeed` |
| `TaskStoreProofs`, `TaskStoreHistoryProofs` | theorems about `TaskStore`: its log, and what the rest of it keeps with the log |
| `EventStream` | broker, registry, session and a client at the end of each connection; runs on `TaskFeed` |
| `EventStreamProofs` | theorems about `EventStream` |
| `ActionLedger` | abstract: what the workflow promises about side effects |
| `JarvisGraph` | the nodes of the graph, their stores, the user and the desktop; implements `ActionLedger` |
| `JarvisGraphProofs` | theorems about `JarvisGraph` |
| `PlanValidation` | the sort of a plan by its dependencies, its budgets and the order of the checks |
| `PlanPolicy` | rules, aggregate rules and advice over the actions of a plan |
| `PlanGate` | the two nodes one after the other: `validate_plan`, then `evaluate_policy` |
| `PlanGateProofs` | theorems about `PlanGate` |
| `ApplicationRuntime` | lifecycle and readiness probes |
| `ApplicationRuntimeProofs` | theorems about `ApplicationRuntime` |
| `SessionAuthority` | challenges, session rotation and request authentication |
| `SessionAuthorityProofs` | theorems about `SessionAuthority` |
| `DeviceRegistration` | registration of an installation over key store and registry |
| `DeviceRegistrationProofs` | theorems about `DeviceRegistration` |
| `MCTaskStore`, `MCEventStream`, `MCJarvisGraph`, `MCPlanGate`, `MCDeviceRegistration`, `MCSessionAuthority` | symmetry and constant values for TLC |

Operators named `X_Something` under a comment that starts with "Mutant:" are
mutated forms of the operator X that follows them: the way a plausible bug would
change it. No specification uses them; each property has at least one that
violates it, so that it is known to say something about the code.

### TaskStore

Every repository operation runs under one `asyncio.Lock` and is one action. A
service call is a record in `call`: after the commit it still has to `Publish`
and then to `Notify`, each of which may raise and is then swallowed, as
`tasks/service.py` does. Dictionaries are functions whose domain is the set of
keys: `_by_idempotency` is `byKey`, `_tasks`, `_projections`, `_events`,
`_outbox`, `_cancellations` and `_approvals` keep their names. `Create`,
`ReplayCreate`, `Cancel`, `ReplayCancel`, `Decide` and `RejectDecide` are the
branches of `create_or_get`, `request_cancellation` and `decide_approval`;
`EventPage` is `list_authorized_events`.

The code that moves a task through its workflow is not in the repository: the
module calls the writing operations (`replace_projection`, `append_event_for_test`,
`put_pending_approval_for_test`) in the order of the statuses of
`graph/builder.py`, and never on a task that has ended.

### EventStream

A session is a coroutine and gives way only at an await that can suspend, so
what runs between two of them is one action: `pc` says where it stands
(`welcoming`, `waiting`, `ready`, `paging`, `replaying`, `deliver`). The pair
returned by `asyncio.wait` is modelled as it is: a frame and a broker message may
be taken in one step, and the message is then `held`. Committed events wait in
`unpublished` until their service call reaches the broker, in any order. `seen`
and `live` are what the client has received and believes. The locks of broker
and registry are never contended, because nothing inside them awaits. Frames are
reduced to their kinds, authentication to its outcome.

The log is a number for each task, and a publication a pair, where `TaskStore` has
records, calls and callers. `TaskFeed` is the contract between the two: events are
committed with the next number of their task, each commit reaches the publisher at
most once and in any order among others, and a page is cut from what is committed.
Both sides are proved of it (`FeedImplemented`, `FeedIsRead`, `FeedIsFollowed`,
`PagesAreTheFeeds`), so what holds of the stream holds of it beside the store.
Three things the contract leaves out, by the code. Events that the workflow writes
itself have a test helper only and are published by nobody, so `FeedImplemented` has the
hypothesis that there are none. A publisher that raises is a `Publish` of the feed
and of `TaskStore`, but not of the stream: the broker's own `publish` awaits nothing
and does not raise. And that the stream is always ready for the feed's next step
is read off the guards of `Commit` and `Publish`, which ask for the log and
`unpublished` only; as a theorem it would need ENABLED.

### JarvisGraph

A node is one action: it reads the checkpointed `state`, calls its store and
returns a delta, which LangGraph checkpoints with the next node. With `saved =
FALSE` the process stops after the store call and before the checkpoint: the
store has changed and the same node runs again. A node that raises changes
nothing: an action that is not enabled. The environment is the user
(`AnswerApproval`), the deadline of an approval (`Expire`) and the desktop
(`Execute`); with `Redelivery` old receipts and old answers arrive again.

Abstractions:

* An action of a plan stands for its semantic identity, since `action_id` is a
  hash of capability, arguments, dependencies and timeout. It has one success
  criterion, whose verdict stands for the criterion's codes too.
* A ruling is everything one policy evaluation decides (versions and reasons
  included), so an approval digest is a pair of an action and a ruling. How a
  ruling comes about is in `PlanPolicy`.
* A model's output is any plan or intent that passes the validation of the node
  that asked for it.
* The response store only returns what it was given, and is no variable.
* Revisions that a user's scope correction asks for are left out: no edge of the
  graph supplies one. So are limits of the external dispatch store.

### PlanValidation, PlanPolicy and PlanGate

`JarvisGraph` takes a validated plan and a ruling as given. These modules are
what happens inside the two nodes that produce them. A state is a point of one
call; `plan` is any plan a checkpoint may hold, cyclic ones and dangling
dependencies included, since a model wrote it or a revision merged it.

`StartSort`, `Visit` and `EndSort` are `_topological_order`: `incoming`, `ready`
and `ordered` are its locals. It takes the smallest ready id, and ids are hashes
of the actions, so `Visit` takes any ready action. `Measure` is
`_validate_budgets`, with the longest path computed along `ordered` as the code
does; `CheckContracts` is the rest of `_validate_plan`, whose outcome the plan's
shape does not decide. The limits on the number of actions, criteria and
arguments are left out.

`Resolve` gives every action its rule or the default (deny, R4). `Combine` applies
one aggregate rule, `Heed` one recommendation; both go through `Tighten`
(`_tighten` with `_apply_safety_floor`). The code sorts rules by id and
recommendations by target and reason: names somebody chose, so any order may
come, except that advice for the whole plan is first. `Project` is the first
projection, which the adviser is shown, and `Decide` the last. A capability stands
for an id with one version; of a grant only its presence matters; reason codes
are left out (a decision holds 40 of them, more than a rule with 16 aggregate
rules and 16 recommendations adds).

### ApplicationRuntime

The owner is `manage_application_lifespan`, or whoever calls `start` and
`shutdown` in turn; `pc` is its place. `holder` is the owner of the one lock,
`waiting` the probes that want it. An await on a resource is a step with its
outcomes, a timeout being one of the failures. `_active` is the sequence
`active`; `alive` is the set of resources that exist, whatever `_active` says.
A probe may be cancelled at any of its awaits; the
history variable `cut` remembers that the last refresh was. Health reports
removed by `_close_all` and the close itself are one step: no one reads the
reports without the lock.

### DeviceRegistration

`call` holds the locals of each call of `registerDeviceIdentity`, in this process
or another: the key store belongs to the operating-system user and a call may run
in a second process. Every operation of key store or registry is a step:
`LookUp`, `ReturnExisting` (with `_validate_existing`), `GetOrCreate`, `Register`,
`Finish` (the comparison with the candidate), `CleanUp` (`_delete_quietly`). A key
store generates a fresh pair each time, so `drawn` never gives one twice; a public
key stands for its encoding and for the device id, a hash of it. `RegisterFails`
raises before the registry stored anything or after it, the protocol saying only
that it stores atomically. `Vanish` is a cancellation, which no handler of the
code catches, or the end of the process. `stored` remembers what the registry did
for a call.

### SessionAuthority

A login (`authenticateSession`) and a request (`authenticate`) are coroutines over
injected stores. The stores of the repository answer without suspending; the
protocols they implement allow a store that does not, so each awaited operation
is a step of its own, together with the code that runs when it returns, and
everything else may happen in between: another login rotates the session, the
clock moves on, the challenge expires after it was looked up. `login` and `call`
hold the locals of the coroutines. A grant is its place in `grants`, which is
also the session id (the code draws a UUID). One module has both halves, because
they share the authority's records and the clock.

Time is counted in ticks, `Second` of them to a second: records keep the tick, a
token and a remembered nonce the second. The status of a device never changes in
the code, so `Enabled` is a constant. A proof with the wrong key, signature or
contract range is `ProofRefused`, before the challenge is consumed; a request
with the wrong headers changes nothing and is left out until it has read a
record. `unissued` makes challenge ids fresh, as UUIDs are.

## 3. Runs

Deadlock is checked except in the runs of `JarvisGraph`, where a run that has
been answered, or whose node raises, has no next step, in `gate` and `device`,
where every call ends, and in `sessions`, where nothing is left to do when the
clock has reached its bound.

| Run | Instance | Shows |
|---|---|---|
| `taskstore_two` | two tasks, two principals, two calls in flight, 4 events | log, outbox, index and publication stay consistent under every interleaving |
| `taskstore_long` | one task, two approvals with two digests, 5 events, a deadline, fairness | `TaskStore` implements `TaskLedger` over a long life with expiry, repeated answers and cancellation; history is never rewritten; every commit is notified although publishing may fail |
| `taskstore_terminal` | one task, one approval | finding 1 |
| `stream_tasks` | two connections for one slot, two tasks, queue and pages of 1, one subscription, bad frames | replay, live events, overflow and error frames in every interleaving; registry and broker agree as sessions end and come back |
| `stream_live` | one task, 4 events, queue and pages of 2, fairness | a subscriber gets every event or a resync |
| `stream_overflow` | the smallest that shows it | finding 2 |
| `graph_two` | plans of up to two actions, two remarks, four rulings, five verdicts, crashes, redelivery, fairness | authority, dependencies, plans, evidence and history; a verified run is answered |
| `graph_three` | plans of up to three actions, two rulings, three verdicts, crashes | `JarvisGraph` implements `ActionLedger`: actions are sent once, one at a time and after what they need |
| `gate` | every plan of three actions with any dependencies and two timeouts; five rules, three aggregate rules, six recommendations | the sort accepts exactly the plans that can go on; the critical path is exact; the strictest rule wins; advice only tightens |
| `device` | two users, one installation, four calls, four keys, failures of both stores, lost answers and cancelled calls | calls agree on one identity; only the call that drew a key costs the installation its key; every unused key is explained |
| `runtime_six` | six resources, two probes that may be cancelled, fairness | everything may fail anywhere: nothing leaks, acceptance is honest, a shutdown ends |
| `sessions` | two devices, three challenges, two logins, one request, one nonce, five moments of the clock | one active session per device, one grant per challenge and epoch, no request of a replaced session, a nonce once |

Why these bounds are enough to be interesting:

* `MaxEvents` and `MaxTime` bound the log and the clock in the guards of
  `TaskStore`. Four events hold a creation, a workflow step, a decision and a
  cancellation; five hold two decisions besides; one tick takes an approval from
  answerable to expired.
* A queue of 1 overflows with the second event, pages of 1 suspend between any
  two events of a replay, one slot fewer than connections makes the registry
  refuse. `stream_live` uses 2 and 4 so that a page or a queue may also be
  partly filled.
* A plan may be revised twice (`MaxRevisions`, which is the code's constant) and
  executes at most one action per revision round, so three actions are the most
  that can be executed. "write" needs "open"; "usual" asks for writing,
  "strict" for everything, "closed" denies writing and "free" allows all.
* `gate`: three actions have every shape a dependency can take: chains, forks,
  joins, cycles and actions that wait for themselves. With timeouts of 1 and 2 a
  join whose two branches differ exceeds `MaxPath` by one branch only. `Evaluated`
  bounds the plans policy is asked about to those without dependencies, because
  policy reads none; `MaxAggregates` and `MaxAdvice` bound rules and
  recommendations (16 in the code) to three. Aggregate rules overlap, so that one
  is met by repeating a capability, one by using two and one by three actions.
* `device`: four calls are two that overlap, one that comes back and one of
  another user; each may draw a key of its own.
* Six is the number of resources the code requires.
* `sessions`: two logins hold the same challenge, or two challenges of one device
  and the same epoch; the third challenge replaces a session that has expired,
  and two devices tell the limit per device from the limit of the store. A
  session of three ticks that began on a whole second outlives its token's
  second by one tick, and the clock goes one tick beyond. One request that may be
  sent again and again is enough: requests meet in the nonce store only, whose
  operations are atomic, and what one does before and after another one did it
  does itself.

Fairness:

* `TaskStore`: a service call that has committed goes on (WF on `Publish` and
  `Notify`): both are plain awaits without a condition.
* `EventStream`: publications reach the broker and a session whose coroutine is
  runnable runs (WF on each `Publish` and each `Step`): asyncio is fair. Clients
  are never forced to send, connect or leave.
* `JarvisGraph`: the graph goes on while a node is able to return (WF on
  `GraphStep(TRUE)`), since LangGraph runs node after node and the outbox wakes
  an interrupted run. The user is never forced to answer. `DesktopSpec`, used by
  `JarvisGraph_settles.cfg` only, also makes the desktop execute what it is sent.
* `ApplicationRuntime`: `asyncio.Lock` serves its waiters in turn (SF on entering
  `shutdown`), and every wait inside a shutdown or a probe has a timeout (WF).
  `factory()` and `start()` have none, so nothing is assumed of a start.

## 4. Proofs

TLAPS checks these theorems for every value of the constants that satisfies the
named assumptions (`NoneAssumption`, `BoundsAssumption` in `TaskStore`;
`SizesAssumption`, `TasksAssumption` in `EventStream`;
`PlanAssumption`, `RuleAssumption`, `SettingsAssumption`, `NoneAssumption`,
`PlanNoneAssumption` in `JarvisGraph`; `SizeAssumption`, `ProbeAssumption` in
`ApplicationRuntime`; `NoneAssumption` in `DeviceRegistration`; `BudgetAssumption`
and `RuleAssumption` in the modules of `PlanGate`; `DeviceAssumption`, `TimeAssumption`, `LimitAssumption` in
`SessionAuthority`). All of them say no more than that bounds are numbers,
tables have the right domains, rules keep the contracts that `graph/policy.py`
validates, and Python's None is no value of another kind.

* `TaskStoreProofs`. The inductive invariant `LogInv` is `TypeOK`, the agreement
  of the dictionaries on their keys, and `SequencesContiguous`. The numbers of a
  task's events are contiguous only because `max(...) + 1` is taken of a set
  that is 1..n already, and that set is not empty only because a task in `_tasks`
  has its creation event, which is what the agreement of the dictionaries says.
  `LogInvariant`, `TypeCorrect`, `SequencesAreContiguous`.
* `TaskStoreHistoryProofs` proves every other safety property of the runs of
  `TaskStore`, with its refinement. The steps that write an event are reduced to
  one: `Grows(e)` appends the next event of a task together with its wake-up, and
  what is left is `Quiet`. `OneTaskEach`, `OutboxIsExact`,
  `RetriesAreRecordedOnce` and `PendingIsLive` are inductive given `LogInv`;
  `HistoryKept` is an action property. `LedgerImplemented` maps the log to the
  ledger's set of entries: an event is `Fresh`, because its number is larger than
  every other of its task. `PublicationsAreSingle` needs `CallsApart`: calls in
  flight stand at different events, and none at one that is already published.
  `PagesHaveNoGaps` needs `NoGaps`: numbers start at 1 and leave none out, so the
  slice of a page is an interval. `PagesOfAnySize` says the same for every page size,
  where the run tries sizes one and two. `WakeUpsAreOwed` is the safety half of
  `EveryCommitIsNotified`: an event wakes the workflow exactly if the workflow was
  woken for it or the call that committed it is still in flight.
  `FeedImplemented` maps the log to `committed` and the calls in stage "publish" to
  `unpublished`; it needs `CallsApart`, because a publication may remove one element
  only, and `NoGaps`, for the number that comes next. `FeedIsRead` is `PagesOfAnySize`
  read as a slice of the feed.
* `EventStreamProofs` proves every safety property of the run `stream_tasks`.
  `TypeCorrect` carries the limits, and so the finiteness of connections and
  subscriptions. `BrokerAgrees` needs `SessionsAreOpen`: only a session the
  registry knows may subscribe. `CursorsAgree` needs `ReplayIsWhatWasSeen`, since
  during a replay the replay's cursor stands for the session's; both together say
  that what is sent next is the next event, which is `EventsInOrder`.
  `NothingLostInSilence` is the safety half of `StreamIsLive`: each event a
  subscribed client has not seen is still to be published, in its queue or held by
  the session, or a `resync.required` is. It has two hypotheses, and both are
  needed: `~BadFrames`, because a frame answered by an error costs the message
  received with it (`EventStream_badframe.cfg`), and `[]OneAtATime`, because an
  overflow drops the events of every task and names one (finding 2). `StreamInv`
  follows a connection through subscribe, replay and live stream: the broker knows
  the subscription before the replay reads its first page (`Following`, `CaughtUp`),
  so what is committed after the last page is in the queue, and what the cursor
  check skips has been seen. `NothingIsInvented` is the other direction: nothing a
  client has seen is beyond the log, because nothing in a queue, a held message or a
  page is (`KnownInv`). It also makes a cursor a client resumes from one that the
  feed has a page for, which `PagesAreTheFeeds` needs. `FeedIsFollowed` says that the
  stream's commits and publications are the feed's.
* `JarvisGraphProofs`. `TypeCorrect`; `AuthorityCorrect`: nothing is sent without
  authority, with the strengthening `ApprovalIsResolved` (an approval in the
  checkpoint was resolved in the store, for the same digest); `DependenciesCorrect`
  and `RevisionsKeepResults`, from one invariant `ResultsInv` (a result that says
  "succeeded" happened, and what has a result is in the plan). `HistoryKept` is
  an action property. `AnswerCorrect`: `AnswerInv` says that a verification passes
  only what has a result (`RecordsAreHonest`) and that a result was executed and
  an execution sent (`ResultsHappened`). `RevisionsHaveEvidence`: `EvidenceInv`
  says that before the verification of a revision no observation is of that
  revision, and on the way to `revise_plan` exactly the last one is; a record left
  by a crash is of its own revision (`RecordsKeepRevision`). `LedgerImplemented`
  assumes `~Redelivery`: `OneIsOpen` says that one action at most is between its
  dispatch and its result, and that after a crash `dispatch_action` selects that
  one again. `VerifiedCanBeAnswered` is the safety half of `VerifiedIsAnswered`: the
  evidence that `render_response` insists on is there whenever a verification has
  ended the run. Its hypothesis `VerifyLimit = MaxRevisions` is the default of the
  two nodes (two revisions); without it the statement is false
  (`JarvisGraph_limit.cfg`).
* `ApplicationRuntimeProofs`. The invariant says that `_active` lists resources
  1, 2, 3, ..., that they are the ones alive, and that the owner's place decides
  how many there are. `TypeCorrect`, `ClosedInReverse` (with it that nothing is
  leaked), `WorkIsBacked`; and `AcceptanceIsHonest`, for which `HealthAgrees` says what a
  half-finished refresh knows. `ShutdownIsBounded` and `ShutdownIsNeverStuck` are the
  safety half of `ShutdownTerminates`: `StepsLeft` counts the steps of the owner and
  of the probes that still wait for the lock or hold it, every step of a shutdown
  lowers it and leads on or down, and until the end the lock is free or its holder
  has a step to take. What is left to fairness is that this step is taken.
* `PlanGateProofs`. `SortIsRight`: `SortInv` says that what is sorted needs only
  what is sorted, that `incoming` and `ready` are what they should be given
  `ordered`, and that from any set of finished actions something sorted can go on.
  When nothing is ready, what is not sorted waits for itself. `BudgetIsExact`: the
  path the recursion measures is the time of the longest chain of actions. No
  induction principle can be used, so each half is proved for a least
  counterexample: the shortest beginning of a chain that takes longer than the value
  computed for its last action, and the first sorted action whose value is the time
  of no chain; what either depends on comes before it and is no counterexample. The lemmas on sums say that a fold over
  a chain splits off its last action in any order. `TheStrictestWins`:
  the maximum of everything said so far is not inductive, because a grant is
  lost when a rule asks and a floor then holds for good. `PolicyInv` adds that a
  decision is sound and keeps its grant exactly while it allows; then raising to
  the floor before or after the next rule is the same (`FloorTwice`), and a weaker
  recommendation can be ignored (`StrictestIgnored`). `AdviceTightens` follows from
  the same invariant.
* `DeviceRegistrationProofs` proves every property of the run `device`, and
  `TypeCorrect`. One invariant, `KeyInv`, follows the key: a pair was generated by
  one call, for the user and the installation it is used for (`KeysAreFresh`,
  `KeysAreGenerated`), and lies under that call's reference until that very call
  has failed and cleaned up (`KeysStayPut`).
* `SessionAuthorityProofs` proves every property of the run `sessions`.
  `TypeCorrect` is the types and the two limits of the challenge store, whose
  finiteness has to be carried along. `OneSessionPerDevice`: `OneActiveSession` is
  inductive with the types, because a purge keeps what is active.
  `RequestsAreCurrent` needs `CurrentIsRemembered`: a session that is the device's
  now was so when the request came, since a replaced session never comes back.
  `ChallengesGrantOnce` needs `GrantedIsGone`: a granted challenge is neither in the
  store nor to be drawn. `EpochsCountGrants` needs that the grants of a device are
  finitely many, and that a rotation happens only at the epoch the login read.
  `NoncesAdmittedOnce` needs `AdmittedIsSeen`: the store keeps a nonce, with the
  second of its token, for as long as that second is ahead.

Model-checked only: the liveness properties `EveryCommitIsNotified`,
`StreamIsLive`, `VerifiedIsAnswered` and `ShutdownTerminates`, since liveness under
fairness is out of the prover's reach. What each of them rests on is proved
(`WakeUpsAreOwed`, `NothingLostInSilence`, `VerifiedCanBeAnswered`,
`ShutdownIsBounded` with `ShutdownIsNeverStuck`): that the thing to come is never
lost, and that there is always a step towards it. Every other property of the
passing runs is a theorem.

## 5. Findings

Each is a run that TLC refutes, with a statement of the repository it contradicts.

1. `taskstore_terminal`: a task cancelled while an approval is pending is put back
   to executing when the approval is answered (`tasks/repository.py:365`).
2. `stream_overflow`: an overflow drains the queue of a connection but reports
   one task only; events of the others vanish while their subscriptions stay
   (`websocket/session.py:151`).

Modelling met more of the same kind. The properties below are stated in the
modules, and each configuration makes TLC show the counterexample; they are kept
beside the runs because they share a cause with one of the two, need a particular
setting or contradict the wording of a document rather than a rule in it.

| Configuration | Property | What it shows |
|---|---|---|
| `TaskStore_cancel.cfg` | `CancellationNotOverridden` | finding 1 for a task whose cancellation was only requested |
| `EventStream_badframe.cfg` | `StreamIsLive` | a broker message returned together with a frame that is answered by an error is dropped (`websocket/session.py:309`) |
| `EventStream_leak.cfg` | `SlotsBelongToSessions` | a peer that leaves during accept or welcome keeps its slot of the registry (`websocket/session.py:260`; "deterministic cleanup" in `jarvis-os-docs/implementation/coding-log/110008-open-websocket-v1.md:3`) |
| `DeviceRegistration_repeat.cfg` | `RepeatSucceeds` | the registry stored the identity and its answer was lost: the call deletes the key it has just bound, and registering again fails for ever (`security/device_identity.py:237`; "made repeat registration idempotent" in the coding log of 130000) |
| `JarvisGraph_denied.cfg` | `DeniedWasNotRun` | after a revision the user may be asked again about an action that has run, and a denial is answered with "denied actions were not run" (`graph/response.py:57`) |
| `JarvisGraph_fresh.cfg` | `FreshApproval` | the cause of the one above: under an unchanged policy the approval asked for is consumed already, and the run cannot go on (`graph/approval.py:289`) |
| `JarvisGraph_unanswered.cfg` | `TerminalIsAnswered` | a denial after a revision that changed the actions cannot be rendered: the last verification is compared with the new plan (`graph/response.py:240`) |
| `JarvisGraph_limit.cfg` | `TerminalIsAnswered` | with `max_revision_count = 1` an exhausted uncertainty cannot be rendered, because the renderer assumes 2 (`graph/response.py:242`) |
| `JarvisGraph_clarify.cfg` | `ClarificationIsAnswered` | an intent that needs clarification stops the run at `create_plan` (`graph/plan.py:471`) |
| `JarvisGraph_settles.cfg` | `RevisionSettles` | a revision that leaves nothing to execute stops the run at `dispatch_action` (`graph/dispatch.py:419`) |

A probe that is cancelled half-way (`runtime/lifecycle.py:233`) leaves the reports
it has written beside the old value of `accepting_work`, until the next probe:
`AcceptanceMatchesHealth` says so with `~cut`, and is false without it.

`JarvisGraph` implements `ActionLedger` without redelivery only: an old receipt
makes `collect_action_result` answer for an earlier action while another is in
flight. No document promises otherwise, so this is a limit of the property.

## 6. Plan

Done, in order of importance: `TaskStore`, `EventStream`, `JarvisGraph`,
`ApplicationRuntime`, `SessionAuthority`, `DeviceRegistration`, `PlanGate`.

Next modules:

1. `DispatchStore`: leases, deadlines and the in-flight limits that
   `graph/dispatch.py` and `graph/action_result.py` compute.
2. `Specialists` and `PolicyBaseline`: pure walks and folds against a reference
   definition (overlays only tighten; a dependent of a failed step is skipped).
   No node of the graph calls the specialists yet.
3. `TaskWorkflow`: `TaskStore` composed with `JarvisGraph` through the outbox.

Next theorems: those of the modules above, and between `TaskStore` and `JarvisGraph`
a contract like `TaskFeed`, for the approvals and the wake-ups.

Not planned: HTTP translation, error tables, settings, wiring, the handles of the
Windows key store and the HTTP client of the model provider (no state of their own, or
foreign calls).
