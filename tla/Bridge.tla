-------------------------------- MODULE Bridge --------------------------------
(***************************************************************************)
(* One run of the server, from the client's request to the frames it gets  *)
(* back: OnMessage on the IO thread, the worker of each request, the main  *)
(* thread's event callbacks, and the outgoing queue of each connection,    *)
(* over the registry of ClientRegistry.                                    *)
(*                                                                         *)
(* The threads meet in two places only, the registry and the outgoing      *)
(* queues.  Each step below is one critical section of m_clientsMutex, or  *)
(* one handler of the IO thread; between two steps of a thread any other   *)
(* may run, so a client may close while its request is in a worker, and    *)
(* may change its subscriptions between the test of HasSubscribers and the *)
(* Broadcast.  Frames are of one size: sizes only matter to the guard.     *)
(***************************************************************************)
EXTENDS ClientRegistry, Sequences

CONSTANTS Workers,               \* bound: worker threads
          MaxConcurrentRequests, \* MAX_CONCURRENT_REQUESTS
          MaxBuffered,           \* MAX_CLIENT_SEND_QUEUE_BYTES, in frames
          MaxRequests,           \* bound: requests the clients send in all
          NoClient,              \* the empty client id
          HandlerMayThrow,       \* whether HandleRequest may throw
          Pipelining             \* whether a client sends a subscription request
                                 \* before the last one was answered

ASSUME BridgeAssumption ==
    /\ IsFiniteSet(Workers)
    /\ MaxConcurrentRequests \in Nat \ {0}
    /\ MaxBuffered \in Nat \ {0}
    /\ MaxRequests \in Nat
    /\ NoClient \notin ClientIds
    /\ {HandlerMayThrow, Pipelining} \subseteq BOOLEAN

VARIABLES inbox,      \* messages received on a connection, not yet handled
          job,        \* what each worker thread is doing
          queue,      \* websocketpp's m_send_queue of each connection
          wire,       \* frames popped from it, in the write in progress
          pusher,     \* event of the callback about to Broadcast, if any
          sent,       \* number of requests sent so far
          pending,    \* well-formed requests a client has no answer to
          view,       \* subscriptions as the last answer listed them
          unanswered  \* requests the server gave no answer that names them

ioState     == <<inbox, queue, wire>>
clientState == <<sent, pending, view>>
bridgeState == <<ioState, job, pusher, clientState, unanswered>>
bridgeVars  == <<vars, bridgeState>>

(***************************************************************************)
(* Requests and frames.  "subscribe" and "unsubscribe" carry a set of      *)
(* events, "bad events" is one of the two with an events field that is no  *)
(* array, "query" is any request for HandleRequest, "invalid" one that     *)
(* OnMessage refuses.  An "ack" lists the subscriptions after the request; *)
(* a "nack" is a response with success false.  An "error" has no id.       *)
(***************************************************************************)
Ids  == Handles \X (1 .. MaxRequests)
NoId == <<>>
Request(id, kind, E) == [id |-> id, kind |-> kind, events |-> E]
Frame(id, kind, E)   == [id |-> id, kind |-> kind, events |-> E]

Control  == {"subscribe", "unsubscribe", "bad events"}
Requests ==
    [id : Ids, kind : {"subscribe", "unsubscribe"}, events : SUBSET Events]
        \union [id : Ids, kind : {"bad events", "query", "ping", "invalid"}, events : {{}}]
Answers == [id : Ids, kind : {"ack", "nack", "response", "pong"}, events : SUBSET Events]
Frames  == Answers \union [id : {NoId}, kind : {"error", "push"}, events : SUBSET Events]

\* The subscription requests a client waits for.
Unsettled(h) == {r \in pending[h] : r.kind \in Control}

Free == [pc |-> "free"]
Busy == {w \in Workers : job[w] # Free}

BridgeInit ==
    /\ Init
    /\ inbox = [h \in Handles |-> <<>>]
    /\ queue = [h \in Handles |-> <<>>]
    /\ wire = [h \in Handles |-> <<>>]
    /\ job = [w \in Workers |-> Free]
    /\ pusher = {}
    /\ sent = 0
    /\ pending = [h \in Handles |-> {}]
    /\ view = [h \in Handles |-> {}]
    /\ unanswered = {}

-------------------------------------------------------------------------------
(***************************************************************************)
(* connection::send appends to the queue; IsSendQueueFull is the guard     *)
(* that RouteOutgoing and Broadcast apply first, and the others do not.    *)
(* The write in progress has left the buffered amount.                     *)
(***************************************************************************)
IsSendQueueFull_OffByOne(h) == Len(queue[h]) + 1 > MaxBuffered + 1

IsSendQueueFull(h) == Len(queue[h]) + 1 > MaxBuffered

Send(h, f) == queue' = [queue EXCEPT ![h] = Append(@, f)]

-------------------------------------------------------------------------------
(***************************************************************************)
(* The client, as far as the server's promises concern it: it sends, and   *)
(* it reads its frames in order, keeping the last list of subscriptions.   *)
(***************************************************************************)
ClientSends(h) ==
    /\ conn[h] = "open"
    /\ sent < MaxRequests
    /\ sent' = sent + 1
    /\ \E r \in Requests :
           /\ r.id = <<h, sent + 1>>
           /\ inbox' = [inbox EXCEPT ![h] = Append(@, r)]
           /\ r.kind \in Control => Pipelining \/ Unsettled(h) = {}
           /\ pending' = [pending EXCEPT ![h] = IF r.kind = "invalid" THEN @ ELSE @ \union {r}]
    /\ UNCHANGED <<vars, queue, wire, job, pusher, view, unanswered>>

Deliver(h) ==
    /\ wire[h] # <<>>
    /\ wire' = [wire EXCEPT ![h] = Tail(@)]
    /\ LET f == Head(wire[h])
       IN  /\ view' = [view EXCEPT ![h] = IF f.kind = "ack" THEN f.events ELSE @]
           /\ pending' = [pending EXCEPT ![h] = {r \in @ : r.id # f.id}]
    /\ UNCHANGED <<vars, inbox, queue, job, pusher, sent, unanswered>>

(***************************************************************************)
(* write_frame: everything queued goes into one write, one at a time.      *)
(***************************************************************************)
StartWrite(h) ==
    /\ wire[h] = <<>>
    /\ queue[h] # <<>>
    /\ wire' = [wire EXCEPT ![h] = queue[h]]
    /\ queue' = [queue EXCEPT ![h] = <<>>]
    /\ UNCHANGED <<vars, inbox, job, pusher, clientState, unanswered>>

-------------------------------------------------------------------------------
(***************************************************************************)
(* The registry's handlers.  A connection that closes takes along what it  *)
(* had received and what it was to be sent.                                *)
(***************************************************************************)
Connects(h) == (OnValidate(h) \/ OnOpen(h) \/ OnFail(h)) /\ UNCHANGED bridgeState

Closes(h) ==
    /\ OnClose(h)
    /\ inbox' = [inbox EXCEPT ![h] = <<>>]
    /\ queue' = [queue EXCEPT ![h] = <<>>]
    /\ wire' = [wire EXCEPT ![h] = <<>>]
    /\ pending' = [pending EXCEPT ![h] = {}]
    /\ view' = [view EXCEPT ![h] = {}]
    /\ UNCHANGED <<job, pusher, sent, unanswered>>

(***************************************************************************)
(* OnMessage, by the answer it gives: an error frame for what it refuses   *)
(* to read, a pong, "Server busy", or a worker.  Errors and pongs are sent *)
(* at once, without the guard, and an error does not name its request.     *)
(* The id of the client is written over whatever the request has for       *)
(* client_id, so that no request reaches RouteOutgoing with the empty id.  *)
(***************************************************************************)
Refuse(h, r) ==
    /\ r.kind = "invalid"
    /\ Send(h, Frame(NoId, "error", {}))
    /\ unanswered' = unanswered \union {r.id}
    /\ UNCHANGED job

Pong(h, r) ==
    /\ r.kind = "ping"
    /\ Send(h, Frame(r.id, "pong", {}))
    /\ UNCHANGED <<job, unanswered>>

Overload(h, r) ==
    /\ r.kind \notin {"invalid", "ping"}
    /\ Cardinality(Busy) >= MaxConcurrentRequests
    /\ Send(h, Frame(NoId, "error", {}))
    /\ unanswered' = unanswered \union {r.id}
    /\ UNCHANGED job

\* Mutant: OnMessage does not write the client id into the request.
Dispatch_Anonymous(h, r) ==
    /\ r.kind \notin {"invalid", "ping"}
    /\ Cardinality(Busy) < MaxConcurrentRequests
    /\ \E w \in Workers \ Busy :
           job' = [job EXCEPT ![w] = [pc |-> "started", request |-> r, client |-> NoClient]]
    /\ UNCHANGED <<queue, unanswered>>

Dispatch(h, r) ==
    /\ r.kind \notin {"invalid", "ping"}
    /\ Cardinality(Busy) < MaxConcurrentRequests
    /\ \E w \in Workers \ Busy :
           job' = [job EXCEPT ![w] = [pc |-> "started", request |-> r,
                                      client |-> sessions[h].clientId]]
    /\ UNCHANGED <<queue, unanswered>>

OnMessage(h) ==
    /\ conn[h] = "open"
    /\ inbox[h] # <<>>
    /\ inbox' = [inbox EXCEPT ![h] = Tail(@)]
    /\ LET r == Head(inbox[h])
       IN  IF h \in DOMAIN sessions
             THEN Refuse(h, r) \/ Pong(h, r) \/ Overload(h, r) \/ Dispatch(h, r)
             ELSE unanswered' = unanswered \union {r.id} /\ UNCHANGED <<queue, job>>
    /\ UNCHANGED <<vars, wire, pusher, clientState>>

-------------------------------------------------------------------------------
(***************************************************************************)
(* A worker.  The request processor of DataBridgePlugin sends subscription *)
(* requests to HandleSubscriptionRequest and all others to HandleRequest,  *)
(* then routes the answer; the two hold m_clientsMutex one after the       *)
(* other, not together.  HandleRequest may throw (memory, or the SDK): the *)
(* worker catches it, and nobody tells the client.                         *)
(***************************************************************************)
Answer(w, kind, E) ==
    job' = [job EXCEPT ![w] = [pc |-> "answered", client |-> job[w].client,
                               frame |-> Frame(job[w].request.id, kind, E)]]

\* Mutant: the acknowledgement lists the events asked for, not those in force.
ProcessSubscription_EchoesRequest(w) ==
    LET c == job[w].client
        r == job[w].request
    IN  \/ /\ r.kind = "subscribe"
           /\ Subscribe(c, r.events)
           /\ Answer(w, "ack", r.events)
        \/ /\ r.kind = "unsubscribe"
           /\ Unsubscribe(c, r.events)
           /\ Answer(w, "ack", sessions'[clientIdToHdl[c]].subscriptions)
        \/ /\ r.kind \in {"subscribe", "unsubscribe"}
           /\ UnknownClient(c)
           /\ Answer(w, "nack", {})

ProcessSubscription(w) ==
    LET c == job[w].client
        r == job[w].request
    IN  \/ /\ \/ r.kind = "subscribe" /\ Subscribe(c, r.events)
              \/ r.kind = "unsubscribe" /\ Unsubscribe(c, r.events)
           /\ Answer(w, "ack", sessions'[clientIdToHdl[c]].subscriptions)
        \/ /\ r.kind \in {"subscribe", "unsubscribe"}
           /\ UnknownClient(c)
           /\ Answer(w, "nack", {})

\* Mutant: an events field that is no array gives an empty, unsent, response.
ProcessOther_Silent(w) ==
    /\ \/ job[w].request.kind = "bad events" /\ job' = [job EXCEPT ![w] = [pc |-> "ended"]]
       \/ job[w].request.kind = "query" /\ Answer(w, "response", {})
    /\ UNCHANGED vars

ProcessOther(w) ==
    /\ \/ job[w].request.kind = "bad events" /\ Answer(w, "nack", {})
       \/ job[w].request.kind = "query" /\ Answer(w, "response", {})
    /\ UNCHANGED vars

Process(w) ==
    /\ job[w].pc = "started"
    /\ ProcessSubscription(w) \/ ProcessOther(w)
    /\ UNCHANGED <<ioState, pusher, clientState, unanswered>>

Throws(w) ==
    /\ HandlerMayThrow
    /\ job[w].pc = "started"
    /\ job[w].request.kind = "query"
    /\ job' = [job EXCEPT ![w] = [pc |-> "ended"]]
    /\ unanswered' = unanswered \union {job[w].request.id}
    /\ UNCHANGED <<vars, ioState, pusher, clientState>>

(***************************************************************************)
(* To the client the id stands for, if it has room; with the empty id, to  *)
(* every client that has.                                                  *)
(***************************************************************************)
SendToAllLocked(f) ==
    queue' = [h \in Handles |->
                 IF h \in DOMAIN sessions /\ ~IsSendQueueFull(h)
                   THEN Append(queue[h], f) ELSE queue[h]]

RouteOutgoing(c, f) ==
    IF c = NoClient THEN SendToAllLocked(f)
    ELSE IF c \in DOMAIN clientIdToHdl /\ ~IsSendQueueFull(clientIdToHdl[c])
      THEN Send(clientIdToHdl[c], f)
      ELSE UNCHANGED queue

Route(w) ==
    /\ job[w].pc = "answered"
    /\ RouteOutgoing(job[w].client, job[w].frame)
    /\ unanswered' = IF queue' = queue THEN unanswered \union {job[w].frame.id}
                                       ELSE unanswered
    /\ job' = [job EXCEPT ![w] = [pc |-> "ended"]]
    /\ UNCHANGED <<vars, inbox, wire, pusher, clientState>>

WorkerEnds(w) ==
    /\ job[w].pc = "ended"
    /\ job' = [job EXCEPT ![w] = Free]
    /\ UNCHANGED <<vars, ioState, pusher, clientState, unanswered>>

Worker(w) == Process(w) \/ Throws(w) \/ Route(w) \/ WorkerEnds(w)

-------------------------------------------------------------------------------
(***************************************************************************)
(* An event callback of the plugin, on the main thread: nothing when       *)
(* nobody subscribed; otherwise it serialises (which may fail) and then    *)
(* broadcasts to those subscribed by then.                                 *)
(***************************************************************************)
CallbackFires(e) ==
    /\ pusher = {}
    /\ HasSubscribers(e)
    /\ pusher' = {e}
    /\ UNCHANGED <<vars, ioState, job, clientState, unanswered>>

CallbackFails ==
    /\ pusher # {}
    /\ pusher' = {}
    /\ UNCHANGED <<vars, ioState, job, clientState, unanswered>>

\* Mutant: the subscription filter is forgotten, as in SendToAllLocked.
Broadcast_Unfiltered(e) ==
    /\ e \in pusher
    /\ pusher' = {}
    /\ queue' = [h \in Handles |->
                    IF h \in DOMAIN sessions /\ ~IsSendQueueFull(h)
                      THEN Append(queue[h], Frame(NoId, "push", {e})) ELSE queue[h]]
    /\ UNCHANGED <<vars, inbox, wire, job, clientState, unanswered>>

Broadcast(e) ==
    /\ e \in pusher
    /\ pusher' = {}
    /\ queue' = [h \in Handles |->
                    IF h \in Recipients(e) /\ ~IsSendQueueFull(h)
                      THEN Append(queue[h], Frame(NoId, "push", {e})) ELSE queue[h]]
    /\ UNCHANGED <<vars, inbox, wire, job, clientState, unanswered>>

Plugin == CallbackFails \/ \E e \in Events : CallbackFires(e) \/ Broadcast(e)

-------------------------------------------------------------------------------
Connection(h) == ClientSends(h) \/ Connects(h) \/ OnMessage(h)
                     \/ StartWrite(h) \/ Deliver(h) \/ Closes(h)

BridgeNext == \/ \E h \in Handles : Connection(h)
              \/ \E w \in Workers : Worker(w)
              \/ Plugin

BridgeSpec == BridgeInit /\ [][BridgeNext]_bridgeVars

(***************************************************************************)
(* The io_service runs ready handlers in the order they became ready, the  *)
(* operating system runs every worker, and the clients of this             *)
(* specification read what they are sent.                                  *)
(***************************************************************************)
BridgeFairness ==
    /\ \A h \in Handles : /\ WF_bridgeVars(OnMessage(h))
                          /\ WF_bridgeVars(StartWrite(h))
                          /\ WF_bridgeVars(Deliver(h))
    /\ \A w \in Workers : WF_bridgeVars(Worker(w))

FairBridgeSpec == BridgeSpec /\ BridgeFairness

-------------------------------------------------------------------------------
(***************************************************************************)
(* The type invariant.                                                     *)
(***************************************************************************)
Jobs == {Free, [pc |-> "ended"]}
        \union [pc : {"started"}, client : issued, request : Requests]
        \union [pc : {"answered"}, client : issued, frame : Answers]

BridgeTypeOK ==
    /\ TypeOK
    /\ inbox \in [Handles -> Seq(Requests)]
    /\ queue \in [Handles -> Seq(Frames)]
    /\ wire \in [Handles -> Seq(Frames)]
    /\ job \in [Workers -> Jobs]
    /\ pusher \subseteq Events
    /\ sent \in 0 .. MaxRequests
    /\ pending \in [Handles -> SUBSET Requests]
    /\ view \in [Handles -> SUBSET Events]
    /\ unanswered \subseteq Ids

(***************************************************************************)
(* A frame that names a request is on its way only to the connection that  *)
(* sent that request, however late the worker is and whoever connected or  *)
(* left meanwhile: RouteOutgoing finds the client by an id the IO thread   *)
(* wrote into the request when it arrived.                                 *)
(***************************************************************************)
Outgoing(h) == wire[h] \o queue[h]

AnswersGoHome ==
    \A h \in Handles : \A i \in DOMAIN Outgoing(h) :
        LET f == Outgoing(h)[i] IN f.id # NoId => f.id[1] = h

(***************************************************************************)
(* A client that waits for each answer knows its subscriptions: when none  *)
(* of those requests is open, the last list it was sent is what the server   *)
(* holds, and HasSubscribers says so of each event on it, so no callback   *)
(* the client counts on is skipped.                                        *)
(***************************************************************************)
ViewIsTruth ==
    \A h \in DOMAIN sessions : Unsettled(h) = {} =>
        /\ view[h] = sessions[h].subscriptions
        /\ \A e \in view[h] : HasSubscribers(e)

(***************************************************************************)
(* A push is only sent to a client that can expect it at that place in the *)
(* stream: the last list of subscriptions before it names the event, or    *)
(* the client asked for it and has not read the answer.  So no push        *)
(* follows the answer to the unsubscribe, though the callback that sent it *)
(* may have tested HasSubscribers before.                                  *)
(***************************************************************************)
Expected(h, i) ==
    LET acks == {j \in 1 .. i - 1 : Outgoing(h)[j].kind = "ack"}
    IN  IF acks = {} THEN view[h]
        ELSE Outgoing(h)[CHOOSE j \in acks : \A k \in acks : k <= j].events

Asked(h) == UNION {r.events : r \in {p \in pending[h] : p.kind = "subscribe"}}

PushesAreExpected ==
    \A h \in Handles : \A i \in DOMAIN Outgoing(h) :
        Outgoing(h)[i].kind = "push" =>
            Outgoing(h)[i].events \subseteq
                Expected(h, i) \union Asked(h)

(***************************************************************************)
(* What the backpressure guard bounds: the frames it let into the queue of *)
(* a connection.  A worker and the main thread may send to one client at   *)
(* once; the test and the send are under one lock.                         *)
(***************************************************************************)
Guarded(f) == f.kind \notin {"pong", "error"}
GuardedFramesBounded ==
    \A h \in Handles :
        Cardinality({i \in DOMAIN queue[h] : Guarded(queue[h][i])}) <= MaxBuffered

(***************************************************************************)
(* What Constants.h says of MAX_CLIENT_SEND_QUEUE_BYTES ("Max outbound     *)
(* bytes buffered per client before the server drops new frames").         *)
(***************************************************************************)
BufferBounded == \A h \in Handles : Len(queue[h]) <= MaxBuffered

Waits(id) == \E r \in pending[id[1]] : r.id = id

(***************************************************************************)
(* Where request id is, or its answer: received and not read, with the     *)
(* worker that has it, on its way back, or given up without an answer.     *)
(***************************************************************************)
Positions(s, id) == {i \in DOMAIN s : s[i].id = id}
Has(j, id) == \/ j.pc = "started" /\ j.request.id = id
              \/ j.pc = "answered" /\ j.frame.id = id
Places(id) ==
    ({"inbox"} \X Positions(inbox[id[1]], id))
        \union ({"worker"} \X {w \in Workers : Has(job[w], id)})
        \union ({"outgoing"} \X Positions(Outgoing(id[1]), id))
        \union ({"given up"} \X (unanswered \intersect {id}))

(***************************************************************************)
(* While a client waits for a request, the request or its answer is in one *)
(* place, and no request is ever in two: none is lost between the handlers *)
(* of the IO thread, the workers and the queues, none is answered twice,   *)
(* and none that was given up is answered after all.                       *)
(***************************************************************************)
RequestsAccounted ==
    \A id \in Ids : /\ Waits(id) => Places(id) # {}
                    /\ \A p, q \in Places(id) : p = q

(***************************************************************************)
(* Every well-formed request is settled: its answer reaches the client, or *)
(* the connection closes, or the server gave it up (its handler threw, the *)
(* queue was full, the server was busy).  No request is left behind in an  *)
(* inbox, a worker or a queue.                                             *)
(***************************************************************************)
RequestsSettle == \A id \in Ids : Waits(id) ~> (~Waits(id) \/ id \in unanswered)

(***************************************************************************)
(* What the wiki says of requests ("the server returns a response carrying *)
(* the same id after processing"; "All errors are returned via response    *)
(* messages", "Server busy" among them): a client that keeps reading gets  *)
(* an answer it can match to each well-formed request.                     *)
(***************************************************************************)
EveryRequestAnswered == \A id \in Ids : Waits(id) ~> ~Waits(id)
===============================================================================
