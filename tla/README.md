# EuroScope Data Bridge: a TLA+ model

The Data Bridge is a EuroScope plugin (a DLL) that serves the controller
client's data over WebSocket. A client sends requests and gets responses; a
client that subscribed to an event type gets a push whenever EuroScope calls the
plugin back. This directory models the server (`src/src/WebSocketServer.cpp`, and
`src/src/Plugin.cpp`, which drives it), the request handlers (`Handlers.cpp`), the
serializers (`Serializer.cpp`), the queue nothing uses any more
(`ThreadSafeQueue.h`) and the C# test client. Line numbers below are of
`WebSocketServer.cpp` unless another file is named.

## Inventory

| component | state | operations | interacts with |
|---|---|---|---|
| **Client registry** (`WebSocketServer`) | `m_sessions`, `m_clientIdToHdl`, `m_subscriptionCounts`, all under `m_clientsMutex` | `OnValidate`, `OnOpen`, `OnClose`, `OnFail`, `HandleSubscriptionRequest`, `HasSubscribers`, the last block of `Stop` | called by the IO thread, by workers, by the main thread |
| **Server life cycle** (`WebSocketServer`, plugin constructor and destructor) | `m_running`, `m_ioThread`, `m_activeWorkers`, the condition variable, the endpoint of websocketpp | `Start`, `Stop`, the IO thread's body, the worker's body | EuroScope loads and unloads the DLL; asio runs the handlers |
| **Request and push path** (`OnMessage`, `RouteOutgoing`, `Broadcast`, the request processor of `Plugin.cpp`) | messages received, detached workers, one outgoing queue per connection | parse and dispatch, process, route, broadcast, drop when the queue is full | registry, handlers, websocketpp |
| **Plugin callbacks** (`Plugin.cpp` 132-353) | none | test `HasSubscribers`, serialise, `Broadcast` | EuroScope main thread |
| **Request handlers** (`Handlers.cpp`) | none of their own; the EuroScope SDK's | `HandleRequest`: about 50 request types | run on workers, call the SDK |
| **Serializer** (`Serializer.cpp`) | none | SDK object to JSON | handlers, callbacks |
| **ThreadSafeQueue** (`ThreadSafeQueue.h`) | a queue, a mutex, a condition variable | `Push`, `PushWithLimit`, `TryPop`, `PopBlocking`, `Drain` | nothing: no code uses it |
| **Test client** (`tests/...TestProject`, C#) | the current connection, pending requests by id, three tables | connect, disconnect, request, receive | the server, over the wire |
| **DLL entry** (`dllmain.cpp`) | the plugin object | create, delete | EuroScope |
| **websocketpp, asio** (third party) | connection and endpoint states, outgoing queues | listen, accept, run, send, close | everything in the server |

There are three kinds of thread: EuroScope's **main** thread (callbacks, `Start`,
`Stop`), the **IO** thread (all handlers of websocketpp, one after another) and
one detached **worker** per request. They share the registry (one mutex), the
worker counter (an atomic), `m_running` (an atomic), and the outgoing queues.

What is hard here, and what makes each part correct:

* *Registry.* Three maps updated from three kinds of thread must stay consistent
  with each other in every order of connects, closes, failures and late
  subscription requests; an id handed to a request must never come to mean
  another client; the cap is tested in one handler and used up in another.
* *Life cycle.* `Stop` must leave nothing running, in any order of `Start`,
  `Stop`, unload and death of the event loop, without mutex around the worker
  counter; and it must return.
* *Handlers and serializers.* Workers read and write objects of EuroScope that
  its main thread creates, changes and removes between any two SDK calls; an
  answer must still mean something, and loops over what grows and shrinks must
  end.
* *Test client.* Everything runs on one thread, but a user clicks between two
  awaits: answers, pushes and the ends of old connections come in any order.
* *Request and push path.* A client must get the answers to its own requests,
  its idea of its subscriptions must be right when its requests are answered by
  parallel workers, a push must not overtake or follow the wrong
  acknowledgement, and a slow client must not make the queue grow.

`PROJECT.json` lists the hazards line by line with the properties that watch them.

## Modules

| module | models |
|---|---|
| `PubSub` | the abstract service: which client is subscribed to what, and which events somebody wants |
| `ClientRegistry` | the registry; implements `PubSub` |
| `ClientRegistryProofs` | its invariants and the refinement, proved |
| `ServerLifecycle` | threads, `Start`, `Stop`, unload |
| `ServerLifecycleProofs` | its invariants, proved, and that `Stop` waits for nobody who is not on the way |
| `Bridge` | one run of the server: messages, workers, callbacks and outgoing queues over `ClientRegistry` |
| `BridgeProofs` | that `Bridge` implements `ClientRegistry` and what follows, and that no request is lost or doubled |
| `BridgeViewProofs` | that a client which waits for each answer knows its subscriptions, and is only sent pushes it can expect |
| `RequestHandlers` | one request in `HandleRequest` against EuroScope's main thread |
| `RequestHandlersProofs` | its invariants, proved, and that every step brings a request nearer to its answer |
| `Serializer` | one call of a serializer, by a worker or by a callback |
| `SerializerProofs` | its invariants, proved, and that every step brings a call nearer to its end |
| `ThreadSafeQueue` | the queue, its mutex and its condition variable |
| `ThreadSafeQueueProofs` | its invariants, proved |
| `TestClient` | the view model of the test client and its connections |
| `TestClientProofs` | its invariants, proved |
| `MC...` | symmetry sets and bounds for TLC; a `.cfg` alone where model values are not needed |

### ClientRegistry

`sessions`, `clientIdToHdl` and `subscriptionCounts` are the maps of the code,
as functions whose domain changes. `conn` is what websocketpp has made of each
connection; `issued` remembers every id `GenerateClientId` has returned (the ids
are random UUIDs: that two are different is assumed). Each handler has one
critical section and is one action. `MaxHandshakes`, a guard of `OnValidate`, is
a bound of the model on connections between validate and open; the code has no
such limit, and how far the cap can be passed depends on it. `OnClose` and `OnFail` share `DropSession`,
as the two functions share their text. `HandleSubscriptionRequest` acts for any
id issued so far, also of a client that has gone.

The counters are operators over the set of events of a request: `Increment`
counts only the events that were new in the session (`insert(e).second`),
`Decrement` erases an entry that reaches zero.

### ServerLifecycle

`mainPc` is where the main thread is; `Stop` is the sequence `stop_listening`,
`close`, `halt`, `join`, `check` (and `deciding`, `blocked`), `clear`, run once
by an owner, and twice on unload (`~DataBridgePlugin` and `~WebSocketServer`).
`condition_variable::wait` is split into the test of the predicate (`check`),
the decision to block (`deciding`) and blocking (`blocked`): a worker notifies
without the mutex, so its notify can fall in between. A worker is `running`,
then `notifying` (it has lowered the counter), then gone. `transport` is the
state of websocketpp's endpoint: `listen` demands READY, and only
`stop_listening` gets back to it from LISTENING.

The constants say what may fail: `IoMayFail` (`run()` throws or returns by
itself), `ThreadsMayFail` (`std::thread` throws, in `OnMessage` and in `Start`,
where the exception leaves the plugin's constructor), `PortMayBeTaken`
(`listen` fails), `RunningAtConstruction` (values of `m_running`, which has no
initialiser, before the first `Start`).

### Bridge

Extends `ClientRegistry` and adds, for one run of the server, what moves between
the threads: `inbox` (messages received), `job` (what each worker does: started,
answered, ended), `queue` and `wire` (websocketpp's `m_send_queue` and the write
in progress), `pusher` (the callback between `HasSubscribers` and `Broadcast`),
and the client's side (`sent`, `pending`, `view`: the last list of subscriptions
it was sent). Requests and frames are records of an id, a kind and a set of
events; every frame has size one, and `MaxBuffered` is
`MAX_CLIENT_SEND_QUEUE_BYTES` in frames. `HandleSubscriptionRequest` and
`RouteOutgoing` take the mutex one after the other, so a worker has a step for
each. `unanswered` records the requests the server gave up. A worker routes its
answer by the `client_id` of the request, which `OnMessage` writes into every
one: `SendToAllLocked`, for a request without (`NoClient`), is there and is shown
by `AnswersGoHome` never to be reached.

A client here waits for the answer of a subscription request before it sends
the next one; `Pipelining = TRUE` lifts that, and then the parallel workers do
apply requests in another order than they were sent (`ViewIsTruth` fails, as the
wiki's "processed asynchronously on its own worker thread" lets one expect).

`ClearSessions` is not part of `Bridge`: the clients of a stopped server are
`ServerLifecycle`'s and `ClientRegistry`'s subject.

### RequestHandlers

`HandleRequest` is about fifty blocks of two dozen shapes. `Table` has a row per
shape: which arguments are tested before and after the lookups, what is looked
up in which order, whether the SDK's result is tested, which collections are
listed. Types that differ only in the setter they call share a row. A behaviour
is one call. The actions go through a row in the order of the code:
`CheckArguments`, `Lookup` (once per object; for a voice channel
`LookThroughChannels`, the walk that compares names), `LateArgumentMissing`,
`Act` or `Report`; or `SelectNext` and `EndOfList`. In between `Appears` and
`Vanishes`, EuroScope's main thread, create and remove objects: flight plans,
radar targets, controllers, the controller logged in here, sector elements and
voice channels. `seen` and `kept` are what existed at some and at all moments of
the request; they are there for the properties.

Three things are assumed of the SDK, whose source is not in the repository: a
call is atomic; a call on an object that is gone does nothing, and returns false
if it returns a bool; `SelectNext` goes on after an object that was removed. A
handler shares nothing with another one but EuroScope, so one is modelled, and
`Bridge` only needs that it answers or throws.

The handlers which do not test the SDK's result (`accept_handoff`,
`push_flight_strip`, `set_asel`, ...) report success also when the object
vanished before the call. `SuccessMeansFound`, which is about all handlers, says
what a success is worth nevertheless: everything it speaks of is what the request
named, and existed at some moment of its work, although a walk through the voice
channels sees them come and go. A list is not the state of one moment:
`ListsAreBracketed` says what it is instead.

### Serializer

A record is a sequence of sections (`FlightPlan`, `RadarTarget`, ...): which of
them has a `try` block of its own, and which has a loop. There are three kinds
of loop: up to a number that was read once (routes, predictions), until the SDK
says there is no more (the positions and components of a sector element), and
from one radar position to the previous. `Opens`, `Fields`, `ReadsNumber`, `Point`, `Element`,
`HistoryEntry` and the ends of loops are the steps; `Fails` is any SDK call that
throws, and what it takes with it. A worker's call is interleaved with
`Changes` and `NewFix`, the main thread's; a callback's is not, since it is the
main thread. `Callbacks` says for each of the thirteen callbacks of the plugin
whether it uses a serializer or writes its own record, which it dumps with the
strict error handler. Text is one of four classes (`Texts`), and the names of
fields are left out. A null pointer is taken for the empty text except in three
callbacks, which hand what the SDK returns to a string untested
(`Plugin.cpp:166`, `199`, `234-235`): `SdkNames`, with the outcome "undefined"
(`NullName`). Whether the SDK ever returns null there is not known.

### ThreadSafeQueue

Messages are numbers in the order of `Push`. All methods are under the mutex and
are one step each, with two exceptions: `Push` notifies after the mutex is
released (`PushNotifies`), and `Drain` calls its callback between two pops.
`PopBlocking` sleeps, wakes by a notify or by itself, and tests the queue again.

### TestClient

A step is what happens between two awaits on the UI thread. There is one
`WebSocketService` per click on Connect; `svc` is the number of the current one.
`loop` says how far the receive loop of each is, `cancelled` which tokens are
cancelled, `disconnecting` whose `DisconnectAsync` is waiting for its close.
`pending` is `_pendingRequestTypes`; `GetBegins` sends a request and `GetEnds`
registers it, after the await, so that `Answered` may come in between. At the
limit any entry may be evicted: the comment in `MainViewModel.cs:146` says the
oldest, but the code takes the first key of a `Dictionary`, which promises no
order and fills freed slots again. `tracked`, `evicted` and `ignored` are
history for the properties.

## Runs

| run | shows | bounds |
|---|---|---|
| `registry` | type, `IdsMirrorSessions`, `CountsExact`, `SessionsAreOpen`, `OvershootBounded`, `IdsNeverReassigned`, and `ImplementsPubSub` | 3 connections, 2 events, cap 1, 2 handshakes at once: the cap is reached, passed by one, and left; each handler meets each state of another connection |
| `lifecycle` | type, `WorkerCap`, `Quiescent`, `NeverCrashes`, `EveryWorkerCounted`, `RunningIsTruthful`; under fairness `StopEndsUnlessWakeupLost` | 2 clients, 3 worker threads with a cap of 2, so that one may still notify when two others work; everything may fail; `Start` and `Stop` any number of times |
| `lost_wakeup`, `restart` | violated: `StopReturns`, `ReadyAfterStop` | only the failure in question is allowed, see each `.cfg` |
| `bridge` | type, `AnswersGoHome`, `ViewIsTruth`, `PushesAreExpected`, `RequestsAccounted`, `GuardedFramesBounded` | 2 clients, 3 requests in all, 2 workers, queue of 1: two requests in workers while a third is refused, a full queue, a client closing or another opening at each point |
| `bridge_live` | `RequestsSettle` under fairness | 2 clients, 2 requests, 1 worker |
| `handlers` | type, `NotFoundMeansAbsent`, `ErrorsLeaveNoTrace`, `SuccessMeansFound`, `ListsAreBracketed`; under fairness `EveryRequestReturns` | every row of the table; 2 flight plans, 1 radar target, 1 controller, oneself, 3 sector elements of two types (so that the middle of a list can go), 2 voice channels; object 1 of each kind does not serialize |
| `serializer` | type, `FailuresStayLocal`, `PointsMatchNumber`, `HistoryDescends`; under fairness `SerializationEnds` | every record and callback; routes of up to 3 points, 4 radar positions: a route shrinks and grows in the middle of its loop, a position arrives at the front and leaves at the back |
| `client` | type, `StatusTellsTheTruth`, `TablesNotMixed`, `IgnoredForAReason` | 2 tables, 2 connections, 4 requests and room for 2 pending: eviction, and an old connection that ends during a new one |
| `queue` | type, `InOrder`, `NoSleeperForgotten`; under fairness `SleepersWake` | 4 threads, 5 messages, limits 0, 1 and 2: a message stolen from the thread that was woken for it |
| `send_bypass` | violated: `BufferBounded` | 1 client |
| `utf8_events` | violated: `EventsSurviveBadText` | the callbacks that write their own record |

Each violated property says what a comment or a document says; the quotes and the
line where the code does otherwise are under `findings` in `PROJECT.json`:

* `lost_wakeup`: `Stop` reads the counter (195) as one; the worker lowers it and
  notifies (353-354); `Stop` blocks, and nobody will notify again. Holding
  `m_workersMutex` around the decrement would close the gap.
* `restart`: the event loop died, `m_running` is false, `Stop` skips
  `stop_listening` (161-165); the endpoint is LISTENING for ever.
* `send_bypass`: `pong` (329) and `sendError` (299) do not ask `IsSendQueueFull`.
* `utf8_events`: text that is not UTF-8, such as a chat message, makes `dump()`
  throw in seven callbacks (`Plugin.cpp:275` and others), and the event is lost.

Five more formulas are defined that do not hold, and say how far a property next
to them goes; no run checks them, and adding one to the `.cfg` of its module
shows the counterexample. `HardClientCap` (`ClientRegistry`): with a cap of 2
and two overlapping handshakes both pass `OnValidate` (211) and both get a
session; `OvershootBounded` is what holds. `NoWorkerOutlives` (`ServerLifecycle`):
a worker has lowered the counter and not yet notified when the unload completes,
and will notify a condition variable that is gone (354), which is not among the
crashes `NeverCrashes` speaks of; `Quiescent` is what holds. `ActiveWorkersExact` (`ServerLifecycle`): `fetch_add`
(346) happens before a thread that may fail to be created; `EveryWorkerCounted`
holds, and equality when threads do not fail is a theorem. `EveryRequestAnswered`
(`Bridge`): the `Server busy` error (338) has no id, and a worker whose handler
threw sends nothing (350); `RequestsSettle` holds, where such a request counts as
settled. `SuccessMeansDone` (`RequestHandlers`): a handler that does not test the
SDK's result reports a success that had no effect; `SuccessMeansFound` holds.

Deadlock checking is off where the system really stops: a destroyed server,
clients that have sent their last request and closed, a request or a call that
has returned, a queue whose consumers wait.

## Fairness

`ServerLifecycle`: the steps of `Stop`, the exit of the IO thread once it is on
its way, and each worker. That is the operating system's scheduling, and
requests that end. Nothing makes anybody call `Start` or `Stop`; and no
spurious wakeup is counted on, since the standard promises none.

`Bridge`: the handlers of each connection (asio runs ready handlers in order),
each worker, and the write and the reading of each connection's frames. The last
one is an assumption on the client; a client that does not read is what
`IsSendQueueFull` is for, and appears in the safety run.

`RequestHandlers` and `Serializer`: the call goes on. Nothing is asked of
EuroScope, which may create, change and remove objects for ever (in `Serializer`
radar positions are numbered up to `MaxTime`, but a route may change for ever).

`ThreadSafeQueue`: a thread that is about to notify, or was woken, goes on; nobody
has to call anything. `TestClient` has no fairness and only safety: a server need
not answer.

## Proofs

Everything is proved for all values of the constants that satisfy the named
assumptions (`LimitsAssumption`, `LifecycleAssumption`, `BridgeAssumption`,
`QueueAssumption`, `TestClientAssumption`, `ItemsAssumption`,
`SerializerAssumption`).

**ClientRegistryProofs.** The inductive invariant is the type invariant, the
inverse maps, counters exact event by event, and sessions only of open
connections. The counters need it all: `OnClose` gives back what
`sessions[h].subscriptions` holds, so exactness before and after is about one
session leaving a set whose cardinality the counter is. The cap needs handshakes
added to sessions (`CapInv`): validating raises the first, opening moves one
over. `NeverReassigned` and `RegistryImplementsPubSub` go step by step from the
same invariant.

**ServerLifecycleProofs.** `CountInv` bounds the counter from both sides (equal
only when `std::thread` does not throw); `JoinInv` ties the IO thread to
`m_ioThread` and says it is joined before `Stop` looks at the workers, which is
why the counter cannot rise again. `NoCrash` needs one more, `ThreadInv`: a
joinable thread that nobody stopped comes with a LISTENING endpoint, on which
`Start` fails before it would overwrite the thread; and `NoCrash` and
`RunningTells` assume `RunningAtConstruction = {FALSE}`.
`StopWaitsForSomeone` is the safety half of `StopEndsUnlessWakeupLost`: where
`Stop` waits, there is a thread that will end the wait. `LoopInv` follows an IO
thread that still runs: `m_running` stands for it, or the `Stop` in progress has
halted it before the join. `WakeInv` holds from the test of the counter on: it
has not reached zero, or the worker that lowered it has its notify still to
come, or that notify was lost between test and blocking. This one needs nothing
of `RunningAtConstruction`.

**BridgeProofs.** Every step of `Bridge` is a step of `ClientRegistry` or leaves
its variables alone (`RegistryStep`), so `BridgeSpec => Spec`, and what is proved
of the registry holds while messages, workers and callbacks go on
(`BridgeImplementsRegistry`, `BridgeServesPubSub`). The inductive invariant adds
to that of the registry, per connection, that its inbox holds only its own
requests (`RequestsOf`) and its queue and wire only frames for it (`FramesOf`).
The step that could break it is a worker's: it has a client id, not a
connection. `JobInv` says that the request it holds is of the connection the id
stands for, *if* it still stands for one; that survives other clients because an
id is never issued twice (`IdsKept`) and because the two maps are inverse to
each other (`IdsMirrorSessions`). `AnswersReachTheirSender` follows.
`GuardHolds` is about the length of a queue: what the guard lets in, it lets in
while all frames together, those it does not count included, are within the limit.

`RequestsAreAccounted` is about where a request can be: in an inbox, with a
worker, in an answer on its way, or given up by the server (`Places`).
`AccountInv` says that the four are pairwise apart for every id, that two workers
and two positions of an inbox or a queue never hold the same one, that an id a
client waits for has a place, and that an id not yet sent has none, which is why
a new request cannot collide with an old one. Each step moves one request to
another place, or leaves all where they are (`Keeps`, `Still`). The step that
needs more is again a worker's: its answer goes into the queue that the client id
leads to, and only `JobInv` says that this is the queue of the client which
waits, or that this client has gone. It holds for pipelining clients too, and is
the safety half of `RequestsSettle`: what is not settled is somewhere, and
fairness is only needed to move it on.

**BridgeViewProofs.** For `Pipelining = FALSE`. `ViewInv` collects what belongs to
a connection wherever it is: its requests in the inbox and in workers
(`Requested`), its frames in workers, queue and on the wire (`Replies`).
`OnePlace` says that at most one of them all is a subscription request or the
answer to one, so that no second worker changes the subscriptions while an
acknowledgement is on its way. `Flow` says that the client waits for whatever is
not settled, that an acknowledgement on its way lists what the server holds, and
that what the client believes is right before its request is processed, once it
is settled, and when it is refused (`Believes`). An answer that is dropped on
the way leaves the client waiting, which is why the property is about clients
with nothing open. A connection about to open has nothing anywhere yet
(`Silent`): a handle is one connection. `WaitingClientsKnow` follows, with the
counters from the registry's invariant.

`WaitingClientsExpectPushes` is about the order of frames. `StreamInv` looks at
what is on its way to a client (wire, then queue), together with the set of
events it could name by itself: those of its view and those it has asked for.
The events of a push belong to that set, and to the list of every
acknowledgement that is *ahead* of the push in the stream; and the subscriptions
in the session are within what the client believes or has asked for. That set,
and not the last acknowledgement alone, is what a push is compared with,
because a worker subscribes the client (`HandleSubscriptionRequest`) before it
routes the acknowledgement, and a callback in between sends a push that
overtakes it. The steps use `ViewInv`: a push is broadcast while each
acknowledgement on its way lists what the session holds (`Flow`), so it is
listed by all those it follows; and when one is read, what the client drops from
its set is in no push behind it.

**ThreadSafeQueueProofs.** `InOrder` is inductive with the types. `NoSleeperForgotten`
compares the length of the queue with the number of threads on their way, and
only while somebody sleeps: a push adds one to both, a `notify_one` turns a
notifier and a sleeper into one woken thread, and a woken thread either takes a
message or finds none, which needs finite sets of threads (`QueueAssumption`).

**TestClientProofs.** `LinkInv` says which services may still have a loop or a
disconnect to end, and that a connection in the making is not yet shown;
`WireInv` ties what is on the wire, being sent and pending to one another: a
request of a Get button is pending, or evicted, or its send is still awaited, and
all three agree on its table. Both properties about answers are read off it.

**RequestHandlersProofs.** `GoodRow` is what all rows of `Table` have in common
and the only thing used of them. `WorldInv` nests `kept`, `world` and `seen`;
`LookInv` says that a channel of the name that has been there all the time is
still ahead of the cursor; `ListInv` that finished collections are bracketed and
the current one is bracketed up to the cursor. `SelectNext` moves the cursor to
the least object beyond it that exists, so that whatever it skips was missing at
that moment and has left `kept`. `SpecAdvances` is the safety half of
`EveryRequestReturns`: a step of the handler answers, begins, finds an object,
finishes a collection, or has fewer objects ahead of its cursor (`Ahead`), none
of which EuroScope can undo by what it adds or removes; and after the answer
there is no step. `TargetInv` says that each object found so far is one that the
request named and has been there (`RightTarget`); lookups add to what was found
and `seen` only grows, so `SuccessMeansFound` follows when the answer is given.

**SerializerProofs.** `IInv` says of each moment of a call what its section and
loop imply. `Control` and `Numbers` are about the place in the record and what
has been written; `ThrownBefore` says that what is marked as failed or lost has
been passed, so that `FailedByThrow` and `LostByThrow` are kept by later
sections. The three kinds of loop each have an invariant (`CountedLoop`,
`UntilLoop`, `Walk`). `HistoryDescends` is read off `Walk`: the entries descend,
the position to be looked at next (`prev`) is older than all of them, and what
lies between it and the start of the walk (`pos`) was written or skipped, because
the previous position is the greatest older one (`Greatest`). `NewFix` puts a
position at the front of the list while a worker walks it; `PositionIsOld` says
that the start is no newer than the newest there was, so the walk cannot meet
it. `SpecAdvances` is the safety half of
`SerializationEnds`: a step of the call goes to a later section or phase, or
leaves less of a loop (`LoopLeft`), and no step of EuroScope takes that back.
Since each of these is bounded below, a call can only fail to end by not being
run. For the loops without a number of their own that rests on the bound
`MaxLength` of the model: an element of a sector file has finitely many positions.

**Only model-checked**: what is temporal under fairness
(`StopEndsUnlessWakeupLost`, `RequestsSettle`, `EveryRequestReturns`,
`SerializationEnds`, `SleepersWake`), which is beyond the prover.
`StopWaitsForSomeone`, `RequestsAreAccounted`, the two `SpecAdvances` and
`NoSleeperForgotten` are the part of each that is not about fairness, and are
proved. Every invariant and every action property of
a passing run is a theorem, `ViewIsTruth` and `PushesAreExpected` for clients that
wait for each answer, which is how the run has them.

## Not modelled

* The values in responses and events, and of arguments beyond given or not: an
  argument of the wrong JSON type is one that is not given, to `JStr`, and the
  default (zero, or -1 for an index), to `JInt`.
* The EuroScope SDK, called from workers and from the main thread: its source is
  not here. Whether its list of controllers contains oneself, so that
  `get_controllers` and a snapshot list the own position twice, is not known.
* `SelectActiveSectorfile` before the sector elements are listed
  (`Handlers.cpp:233`), which changes nothing the properties speak of; and the
  error of `MakeResponse` for a result that does not parse, since every result
  is a dump of JSON.
* A mutex throwing, allocation failure.
* Messages that reach `OnMessage` before a session exists, other than as dropped.
* `MAX_CLIENT_SEND_QUEUE_FRAMES`: the code does not enforce it either (541).
* Windows socket start-up (`m_wsaInitialized`), `DllMain`, and all logging.
* Of the test client: its log, the clipboard, the contents of rows, and the
  exception that a disconnect meets on a service disposed meanwhile, beyond that
  it changes nothing (`DisconnectEnds`).

## Plan

Done: registry, life cycle, request and push path, request handlers, serializers,
queue, test client, and the proofs above. Left:

1. `Bridge` over several runs of the server (`Stop` between), so that late
   workers and `ClearSessions` meet.
2. An abstract queue that `ThreadSafeQueue` implements.
