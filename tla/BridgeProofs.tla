----------------------------- MODULE BridgeProofs -----------------------------
(***************************************************************************)
(* Proofs about Bridge, for any number of connections, workers, requests   *)
(* and events, and any limits: it implements ClientRegistry, answers reach *)
(* only the connection that asked, the guard bounds what it lets in, and   *)
(* no request is lost or answered twice.                                   *)
(***************************************************************************)
EXTENDS Bridge, ClientRegistryProofs, SequenceTheorems

(***************************************************************************)
(* What connection h may have sent, and what may be sent to it.            *)
(***************************************************************************)
RequestsOf(h) == {r \in Requests : r.id[1] = h}
FramesOf(h) == {f \in Frames : f.id # NoId => f.id[1] = h}

(***************************************************************************)
(* A worker holds a request of the connection its client id stands for, if *)
(* the id still stands for one.                                            *)
(***************************************************************************)
Asker(w) == clientIdToHdl[job[w].client]
Serves(w) == /\ job[w].pc \in {"started", "answered"}
             /\ job[w].client \in DOMAIN clientIdToHdl

InboxInv == /\ inbox \in [Handles -> Seq(Requests)]
            /\ \A h \in Handles : inbox[h] \in Seq(RequestsOf(h))
OutInv   == /\ queue \in [Handles -> Seq(Frames)]
            /\ wire \in [Handles -> Seq(Frames)]
            /\ \A h \in Handles : queue[h] \in Seq(FramesOf(h)) /\ wire[h] \in Seq(FramesOf(h))
JobInv   == /\ job \in [Workers -> Jobs]
            /\ \A w \in Workers :
                   /\ Serves(w) /\ job[w].pc = "started" => job[w].request.id[1] = Asker(w)
                   /\ Serves(w) /\ job[w].pc = "answered" => job[w].frame \in FramesOf(Asker(w))
RestInv  == /\ pusher \subseteq Events
            /\ sent \in 0 .. MaxRequests
            /\ pending \in [Handles -> SUBSET Requests]
            /\ view \in [Handles -> SUBSET Events]
            /\ unanswered \subseteq Ids

BInv == InboxInv /\ OutInv /\ JobInv /\ RestInv

AllActions ==
    \/ \E h \in Handles : Connection(h)
    \/ \E w \in Workers : Process(w) \/ Throws(w) \/ Route(w) \/ WorkerEnds(w)
    \/ CallbackFails
    \/ \E e \in Events : CallbackFires(e) \/ Broadcast(e)

-------------------------------------------------------------------------------
\* The next-state relation, with the workers' steps as separate cases.
LEMMA NextIsAllActions == BridgeNext => AllActions
  BY DEF BridgeNext, AllActions, Worker, Plugin

(***************************************************************************)
(* Sequences of what belongs to a connection are sequences of frames and   *)
(* of requests, and messages come and go from their ends.                  *)
(***************************************************************************)
LEMMA OwnFrames ==
    ASSUME NEW h, NEW s \in Seq(FramesOf(h))
    PROVE  s \in Seq(Frames)
  BY SeqMonotonic DEF FramesOf

\* What one connection may have sent is a sequence of requests.
LEMMA OwnRequests ==
    ASSUME NEW h, NEW s \in Seq(RequestsOf(h))
    PROVE  s \in Seq(Requests)
  BY SeqMonotonic DEF RequestsOf

(***************************************************************************)
(* A job is one of four records, told apart by pc.                         *)
(***************************************************************************)
LEMMA JobKinds ==
    ASSUME NEW j \in Jobs
    PROVE  /\ j.pc \in {"free", "started", "answered", "ended"}
           /\ j.pc = "started" => j.client \in issued /\ j.request \in Requests
           /\ j.pc = "answered" => j.client \in issued /\ j.frame \in Answers
  BY DEF Jobs, Free

(***************************************************************************)
(* Every step of Bridge is a step of the registry, or leaves it alone.     *)
(***************************************************************************)
LEMMA RequestEvents ==
    ASSUME NEW r \in Requests
    PROVE  r.events \in SUBSET Events /\ r.id \in Ids
  BY DEF Requests

\* A step of Bridge is a step of the registry or leaves it alone.
LEMMA RegistryStep == JobInv /\ [BridgeNext]_bridgeVars => [Next]_vars
  <1> SUFFICES ASSUME JobInv, [BridgeNext]_bridgeVars PROVE [Next]_vars
    OBVIOUS
  <1>1. ASSUME NEW h \in Handles, Connects(h) \/ Closes(h) PROVE Next
    BY <1>1 DEF Connects, Closes, Next
  <1>2. ASSUME NEW h \in Handles, ClientSends(h) \/ OnMessage(h) \/ StartWrite(h) \/ Deliver(h)
        PROVE  UNCHANGED vars
    BY <1>2 DEF ClientSends, OnMessage, StartWrite, Deliver
  <1>3. ASSUME NEW w \in Workers, Process(w) PROVE [Next]_vars
    <2>1. job[w].pc = "started" /\ job[w] \in Jobs
      BY <1>3 DEF Process, JobInv
    <2>2. job[w].client \in issued /\ job[w].request \in Requests
      BY <2>1, JobKinds
    <2>3. job[w].request.events \in SUBSET Events
      BY <2>2, RequestEvents
    <2>4. CASE ProcessSubscription(w)
      BY <2>2, <2>3, <2>4 DEF ProcessSubscription, HandleSubscriptionRequest, Next
    <2>5. CASE ProcessOther(w)
      BY <2>5 DEF ProcessOther
    <2>6. QED
      BY <1>3, <2>4, <2>5 DEF Process
  <1>4. ASSUME NEW w \in Workers, Throws(w) \/ Route(w) \/ WorkerEnds(w) PROVE UNCHANGED vars
    BY <1>4 DEF Throws, Route, WorkerEnds
  <1>5. ASSUME NEW e \in Events, CallbackFails \/ CallbackFires(e) \/ Broadcast(e)
        PROVE  UNCHANGED vars
    BY <1>5 DEF CallbackFails, CallbackFires, Broadcast
  <1>6. CASE CallbackFails
    BY <1>6 DEF CallbackFails
  <1>7. CASE UNCHANGED bridgeVars
    BY <1>7 DEF bridgeVars
  <1>8. QED
    BY <1>1, <1>2, <1>3, <1>4, <1>5, <1>6, <1>7, NextIsAllActions DEF AllActions, Connection

-------------------------------------------------------------------------------
(***************************************************************************)
(* What a connection has sent stays its own.                               *)
(***************************************************************************)
LEMMA InboxStep == BInv /\ [BridgeNext]_bridgeVars => InboxInv'
  <1> SUFFICES ASSUME BInv, [BridgeNext]_bridgeVars PROVE InboxInv'
    OBVIOUS
  <1> USE DEF bridgeState, ioState, clientState
  <1>1. InboxInv
    BY DEF BInv
  <1>2. ASSUME UNCHANGED inbox PROVE InboxInv'
    BY <1>1, <1>2 DEF InboxInv
  <1>3. ASSUME NEW h \in Handles, NEW s \in Seq(RequestsOf(h)),
               inbox' = [inbox EXCEPT ![h] = s]
        PROVE  InboxInv'
    <2>1. s \in Seq(Requests)
      BY OwnRequests
    <2>2. QED
      BY <1>1, <1>3, <2>1 DEF InboxInv
  <1>4. ASSUME NEW h \in Handles, ClientSends(h) PROVE InboxInv'
    <2>1. PICK r \in Requests : /\ r.id = <<h, sent + 1>>
                                /\ inbox' = [inbox EXCEPT ![h] = Append(@, r)]
      BY <1>4 DEF ClientSends
    <2>2. r \in RequestsOf(h)
      BY <2>1 DEF RequestsOf
    <2>3. Append(inbox[h], r) \in Seq(RequestsOf(h))
      BY <1>1, <2>2, AppendProperties DEF InboxInv
    <2>4. inbox' = [inbox EXCEPT ![h] = Append(inbox[h], r)]
      BY <2>1
    <2>5. QED
      BY <1>3, <2>3, <2>4
  <1>5. ASSUME NEW h \in Handles, Closes(h) PROVE InboxInv'
    <2>1. <<>> \in Seq(RequestsOf(h))
      BY EmptySeq
    <2>2. QED
      BY <1>3, <1>5, <2>1 DEF Closes
  <1>6. ASSUME NEW h \in Handles, OnMessage(h) PROVE InboxInv'
    <2>1. inbox[h] # <<>> /\ inbox' = [inbox EXCEPT ![h] = Tail(inbox[h])]
      BY <1>6 DEF OnMessage
    <2>2. Tail(inbox[h]) \in Seq(RequestsOf(h))
      BY <1>1, <2>1, HeadTailProperties DEF InboxInv
    <2>3. QED
      BY <1>3, <2>1, <2>2
  <1>7. ASSUME NEW h \in Handles, Connects(h) \/ StartWrite(h) \/ Deliver(h) PROVE InboxInv'
    BY <1>2, <1>7 DEF Connects, StartWrite, Deliver
  <1>8. ASSUME NEW w \in Workers, Process(w) \/ Throws(w) \/ Route(w) \/ WorkerEnds(w)
        PROVE  InboxInv'
    BY <1>2, <1>8 DEF Process, Throws, Route, WorkerEnds
  <1>9. ASSUME NEW e \in Events, CallbackFires(e) \/ Broadcast(e) PROVE InboxInv'
    BY <1>2, <1>9 DEF CallbackFires, Broadcast
  <1>10. CASE CallbackFails \/ UNCHANGED bridgeVars
    BY <1>2, <1>10 DEF CallbackFails, bridgeVars
  <1>11. QED
    BY <1>4, <1>5, <1>6, <1>7, <1>8, <1>9, <1>10, NextIsAllActions DEF AllActions, Connection

-------------------------------------------------------------------------------
(***************************************************************************)
(* What is queued for a connection is a push, an error, or an answer to a  *)
(* request of its own.  The IO thread answers on the connection it reads   *)
(* from; a worker goes by the client id, which JobInv and the stability of *)
(* ids make the right one.                                                 *)
(***************************************************************************)
LEMMA InboxHead ==
    ASSUME InboxInv, NEW h \in Handles, inbox[h] # <<>>
    PROVE  Head(inbox[h]) \in Requests /\ Head(inbox[h]).id[1] = h
  <1>1. Head(inbox[h]) \in RequestsOf(h)
    BY HeadTailProperties DEF InboxInv
  <1>2. QED
    BY <1>1 DEF RequestsOf

\* The frames the server makes are frames.
LEMMA FrameTypes ==
    /\ \A id \in Ids, k \in {"ack", "nack", "response", "pong"}, E \in SUBSET Events :
           Frame(id, k, E) \in Answers /\ Frame(id, k, E) \in Frames
    /\ \A k \in {"error", "push"}, E \in SUBSET Events : Frame(NoId, k, E) \in Frames
  BY DEF Frames, Answers, Frame

\* No step sends a frame to a connection it is not for.
LEMMA OutStep == IInv /\ BInv /\ [BridgeNext]_bridgeVars => OutInv'
  <1> SUFFICES ASSUME IInv, BInv, [BridgeNext]_bridgeVars PROVE OutInv'
    OBVIOUS
  <1> USE DEF bridgeState, ioState, clientState
  <1>1. OutInv /\ InboxInv /\ JobInv
    BY DEF BInv
  <1>2. ASSUME UNCHANGED <<queue, wire>> PROVE OutInv'
    BY <1>1, <1>2 DEF OutInv
  <1>3. ASSUME NEW h \in Handles, NEW s \in Seq(FramesOf(h)), NEW t \in Seq(FramesOf(h)),
               queue' = [queue EXCEPT ![h] = s], wire' = [wire EXCEPT ![h] = t]
        PROVE  OutInv'
    <2>1. s \in Seq(Frames) /\ t \in Seq(Frames)
      BY OwnFrames
    <2>2. QED
      BY <1>1, <1>3, <2>1 DEF OutInv
  <1>4. ASSUME NEW h \in Handles, NEW f \in FramesOf(h), Send(h, f), UNCHANGED wire
        PROVE  OutInv'
    <2>1. Append(queue[h], f) \in Seq(FramesOf(h)) /\ wire[h] \in Seq(FramesOf(h))
      BY <1>1, AppendProperties DEF OutInv
    <2>2. /\ queue' = [queue EXCEPT ![h] = Append(queue[h], f)]
          /\ wire' = [wire EXCEPT ![h] = wire[h]]
      BY <1>1, <1>4 DEF Send, OutInv
    <2>3. QED
      BY <1>3, <2>1, <2>2
  <1>5. ASSUME NEW h \in Handles, Closes(h) PROVE OutInv'
    <2>1. <<>> \in Seq(FramesOf(h))
      BY EmptySeq
    <2>2. QED
      BY <1>3, <1>5, <2>1 DEF Closes
  <1>6. ASSUME NEW h \in Handles, StartWrite(h) PROVE OutInv'
    <2>1. <<>> \in Seq(FramesOf(h)) /\ queue[h] \in Seq(FramesOf(h))
      BY <1>1, EmptySeq DEF OutInv
    <2>2. QED
      BY <1>3, <1>6, <2>1 DEF StartWrite
  <1>7. ASSUME NEW h \in Handles, Deliver(h) PROVE OutInv'
    <2>1. wire[h] # <<>> /\ wire' = [wire EXCEPT ![h] = Tail(wire[h])]
      BY <1>7 DEF Deliver
    <2>2. queue' = [queue EXCEPT ![h] = queue[h]]
      BY <1>1, <1>7 DEF Deliver, OutInv
    <2>3. Tail(wire[h]) \in Seq(FramesOf(h)) /\ queue[h] \in Seq(FramesOf(h))
      BY <1>1, <2>1, HeadTailProperties DEF OutInv
    <2>4. QED
      BY <1>3, <2>1, <2>2, <2>3
  <1>8. ASSUME NEW h \in Handles, OnMessage(h) PROVE OutInv'
    <2> DEFINE r == Head(inbox[h])
    <2>1. r \in Requests /\ r.id[1] = h /\ r.id \in Ids
      BY <1>1, <1>8, InboxHead, RequestEvents DEF OnMessage
    <2>2. UNCHANGED wire
      BY <1>8 DEF OnMessage
    <2>3. CASE Pong(h, r)
      <3>1. Frame(r.id, "pong", {}) \in FramesOf(h)
        BY <2>1, FrameTypes DEF FramesOf, Frame
      <3>2. QED
        BY <1>4, <2>2, <2>3, <3>1 DEF Pong
    <2>4. CASE Refuse(h, r) \/ Overload(h, r)
      <3>1. Frame(NoId, "error", {}) \in FramesOf(h)
        BY FrameTypes DEF FramesOf, Frame
      <3>2. QED
        BY <1>4, <2>2, <2>4, <3>1 DEF Refuse, Overload
    <2>5. CASE UNCHANGED queue
      BY <1>2, <2>2, <2>5
    <2>6. QED
      BY <1>8, <2>3, <2>4, <2>5 DEF OnMessage, Dispatch
  <1>9. ASSUME NEW w \in Workers, Route(w) PROVE OutInv'
    <2>1. job[w].pc = "answered" /\ UNCHANGED wire /\ RouteOutgoing(job[w].client, job[w].frame)
      BY <1>9 DEF Route
    <2>2. CASE UNCHANGED queue
      BY <1>2, <2>1, <2>2
    <2>3. CASE queue' # queue
      <3>0. job[w].client # NoClient
        BY <1>1, <2>1, JobKinds, BridgeAssumption DEF JobInv, IInv, TypeOK
      <3>1. Serves(w) /\ Send(Asker(w), job[w].frame)
        BY <2>1, <2>3, <3>0 DEF RouteOutgoing, Serves, Asker
      <3>2. job[w].frame \in FramesOf(Asker(w))
        BY <1>1, <2>1, <3>1 DEF JobInv
      <3>3. CASE Asker(w) \in Handles
        BY <1>4, <2>1, <3>1, <3>2, <3>3
      <3>4. CASE Asker(w) \notin Handles
        BY <1>1, <2>3, <3>1, <3>4 DEF Send, OutInv
      <3>5. QED
        BY <3>3, <3>4
    <2>4. QED
      BY <2>2, <2>3
  <1>10. ASSUME NEW e \in Events, Broadcast(e) PROVE OutInv'
    <2> DEFINE f == Frame(NoId, "push", {e})
    <2>1. \A h \in Handles : f \in FramesOf(h)
      BY FrameTypes DEF FramesOf, Frame
    <2>2. \A h \in Handles : queue'[h] \in {queue[h], Append(queue[h], f)}
      BY <1>10 DEF Broadcast
    <2>3. \A h \in Handles : Append(queue[h], f) \in Seq(FramesOf(h))
      BY <1>1, <2>1, AppendProperties DEF OutInv
    <2>4. \A h \in Handles : queue'[h] \in Seq(FramesOf(h))
      BY <1>1, <2>2, <2>3 DEF OutInv
    <2>5. \A h \in Handles : queue'[h] \in Seq(Frames)
      BY <2>4, OwnFrames
    <2>6. queue' = [h \in Handles |-> queue'[h]] /\ UNCHANGED wire
      BY <1>10 DEF Broadcast
    <2>7. QED
      BY <1>1, <2>4, <2>5, <2>6 DEF OutInv
  <1>11. ASSUME NEW h \in Handles, Connects(h) \/ ClientSends(h) PROVE OutInv'
    BY <1>2, <1>11 DEF Connects, ClientSends
  <1>12. ASSUME NEW w \in Workers, Process(w) \/ Throws(w) \/ WorkerEnds(w) PROVE OutInv'
    BY <1>2, <1>12 DEF Process, Throws, WorkerEnds
  <1>13. ASSUME NEW e \in Events, CallbackFires(e) PROVE OutInv'
    BY <1>2, <1>13 DEF CallbackFires
  <1>14. CASE CallbackFails \/ UNCHANGED bridgeVars
    BY <1>2, <1>14 DEF CallbackFails, bridgeVars
  <1>15. QED
    BY <1>5, <1>6, <1>7, <1>8, <1>9, <1>10, <1>11, <1>12, <1>13, <1>14,
       NextIsAllActions DEF AllActions, Connection

-------------------------------------------------------------------------------
(***************************************************************************)
(* What a worker holds belongs to the connection its client id stands for, *)
(* or the id stands for none: ids are never reassigned.                    *)
(***************************************************************************)
Belongs(w) ==
    /\ Serves(w) /\ job[w].pc = "started" => job[w].request.id[1] = Asker(w)
    /\ Serves(w) /\ job[w].pc = "answered" => job[w].frame \in FramesOf(Asker(w))

\* A job stays a job when ids are issued.
LEMMA JobsGrow == ASSUME issued \subseteq issued' PROVE Jobs \subseteq Jobs'
  BY DEF Jobs

\* The request of a worker goes on belonging to the connection its client id stands for.
LEMMA BelongsStays ==
    ASSUME JobInv, [Next]_vars, NEW w \in Workers, job'[w] = job[w]
    PROVE  Belongs(w)'
  <1>1. KeepsIds
    BY IdsKept
  <1>2. job[w] \in Jobs /\ Belongs(w)
    BY DEF JobInv, Belongs
  <1>3. ASSUME Serves(w)' PROVE Serves(w) /\ Asker(w)' = Asker(w)
    <2>1. job[w].pc \in {"started", "answered"} /\ job[w].client \in DOMAIN clientIdToHdl'
      BY <1>3 DEF Serves
    <2>2. job[w].client \in issued
      BY <1>2, <2>1, JobKinds
    <2>3. QED
      BY <1>1, <2>1, <2>2 DEF KeepsIds, Serves, Asker
  <1>4. ASSUME Serves(w)', job'[w].pc = "started"
        PROVE  job'[w].request.id[1] = Asker(w)'
    BY <1>2, <1>3, <1>4 DEF Belongs
  <1>5. ASSUME Serves(w)', job'[w].pc = "answered"
        PROVE  job'[w].frame \in FramesOf(Asker(w)')
    BY <1>2, <1>3, <1>5 DEF Belongs
  <1>6. QED
    BY <1>4, <1>5 DEF Belongs, FramesOf, Frames, Answers

\* A step that changes one job.
LEMMA JobChanges ==
    ASSUME JobInv, [Next]_vars, NEW w \in Workers, NEW j \in Jobs',
           job' = [job EXCEPT ![w] = j], Belongs(w)'
    PROVE  JobInv'
  <1>1. Jobs \subseteq Jobs'
    BY IdsKept, JobsGrow
  <1>2. job' \in [Workers -> Jobs']
    BY <1>1 DEF JobInv
  <1>3. \A v \in Workers : Belongs(v)'
    <2>1. ASSUME NEW v \in Workers, v # w PROVE Belongs(v)'
      BY <2>1, BelongsStays DEF JobInv
    <2>2. QED
      BY <2>1
  <1>4. QED
    BY <1>2, <1>3 DEF JobInv, Belongs

(***************************************************************************)
(* The answer of a worker names the request it holds.                      *)
(***************************************************************************)
LEMMA AnswerBelongs ==
    ASSUME JobInv, [Next]_vars, UNCHANGED clientIdToHdl, NEW w \in Workers,
           job[w].pc = "started", NEW k \in {"ack", "nack", "response"},
           NEW E \in SUBSET Events, Answer(w, k, E)
    PROVE  JobInv'
  <1> DEFINE f == Frame(job[w].request.id, k, E)
             j == [pc |-> "answered", client |-> job[w].client, frame |-> f]
  <1>1. /\ job[w].client \in issued
        /\ job[w].request \in Requests
    BY JobKinds DEF JobInv
  <1>2. f \in Answers /\ f \in Frames /\ f.id = job[w].request.id
    BY <1>1, RequestEvents, FrameTypes DEF Frame
  <1>3. j \in Jobs'
    BY <1>1, <1>2, IdsKept DEF Jobs, Answers
  <1>4. job' = [job EXCEPT ![w] = j] /\ job'[w] = j
    BY DEF Answer, JobInv
  <1>5. Belongs(w)'
    <2>1. SUFFICES ASSUME Serves(w)' PROVE j.frame \in FramesOf(Asker(w)')
      BY <1>4 DEF Belongs, FramesOf, Frames, Answers
    <2>2. Serves(w) /\ Asker(w)' = Asker(w)
      BY <1>4, <2>1 DEF Serves, Asker
    <2>3. job[w].request.id[1] = Asker(w)
      BY <2>2 DEF JobInv
    <2>4. QED
      BY <1>2, <2>2, <2>3 DEF FramesOf
  <1>6. QED
    BY <1>3, <1>4, <1>5, JobChanges

\* Processing a request issues and forgets no id.
LEMMA ProcessKeepsIds ==
    ASSUME NEW w \in Workers, Process(w)
    PROVE  UNCHANGED clientIdToHdl
  BY DEF Process, ProcessSubscription, ProcessOther, Subscribe, Unsubscribe, UnknownClient, vars

(***************************************************************************)
(* The list in an acknowledgement is a set of events: that of a session.   *)
(***************************************************************************)
LEMMA AcknowledgedEvents ==
    ASSUME IInv, IInv', NEW c, Known(c), UNCHANGED clientIdToHdl,
           DOMAIN sessions' = DOMAIN sessions
    PROVE  sessions'[clientIdToHdl[c]].subscriptions \in SUBSET Events
  <1>1. clientIdToHdl[c] \in DOMAIN sessions'
    BY DEF Known
  <1>2. QED
    BY <1>1 DEF IInv, TypeOK

\* No step gives a worker the request of another connection.
LEMMA JobStep == IInv /\ BInv /\ [BridgeNext]_bridgeVars => JobInv'
  <1> SUFFICES ASSUME IInv, BInv, [BridgeNext]_bridgeVars PROVE JobInv'
    OBVIOUS
  <1> USE DEF bridgeState, ioState, clientState
  <1>1. JobInv /\ InboxInv /\ [Next]_vars /\ IInv'
    BY RegistryStep, StepInvariant DEF BInv
  <1>2. ASSUME UNCHANGED job PROVE JobInv'
    <2>1. job' \in [Workers -> Jobs']
      BY <1>1, <1>2, IdsKept, JobsGrow DEF JobInv
    <2>2. \A w \in Workers : Belongs(w)'
      BY <1>1, <1>2, BelongsStays
    <2>3. QED
      BY <2>1, <2>2 DEF JobInv, Belongs
  <1>3. ASSUME NEW w \in Workers, NEW j \in {Free, [pc |-> "ended"]},
               job' = [job EXCEPT ![w] = j]
        PROVE  JobInv'
    <2>1. j \in Jobs' /\ job'[w] = j
      BY <1>1, <1>3 DEF Jobs, Free, JobInv
    <2>2. Belongs(w)'
      BY <2>1 DEF Belongs, Serves, Free
    <2>3. QED
      BY <1>1, <1>3, <2>1, <2>2, JobChanges
  <1>4. ASSUME NEW h \in Handles, OnMessage(h) PROVE JobInv'
    <2> DEFINE r == Head(inbox[h])
    <2>1. r \in Requests /\ r.id[1] = h
      BY <1>1, <1>4, InboxHead DEF OnMessage
    <2>2. CASE h \in DOMAIN sessions /\ Dispatch(h, r)
      <3> DEFINE c == sessions[h].clientId
                 j == [pc |-> "started", request |-> r, client |-> c]
      <3>1. PICK w \in Workers \ Busy : job' = [job EXCEPT ![w] = j]
        BY <2>2 DEF Dispatch
      <3>2. c \in issued /\ c \in DOMAIN clientIdToHdl /\ clientIdToHdl[c] = h
        BY <2>2 DEF IInv, TypeOK, IdsMirrorSessions
      <3>3. j \in Jobs' /\ job'[w] = j
        BY <1>1, <2>1, <3>1, <3>2, IdsKept DEF Jobs, JobInv
      <3>4. UNCHANGED clientIdToHdl
        BY <1>4 DEF OnMessage, vars
      <3>5. Belongs(w)'
        BY <2>1, <3>2, <3>3, <3>4 DEF Belongs, Asker
      <3>6. QED
        BY <1>1, <3>1, <3>3, <3>5, JobChanges
    <2>3. CASE UNCHANGED job
      BY <1>2, <2>3
    <2>4. QED
      BY <1>4, <2>2, <2>3 DEF OnMessage, Refuse, Pong, Overload
  <1>5. ASSUME NEW w \in Workers, Process(w) PROVE JobInv'
    <2>1. job[w].pc = "started" /\ UNCHANGED clientIdToHdl
      BY <1>5, ProcessKeepsIds DEF Process
    <2>2. ASSUME NEW k \in {"ack", "nack", "response"}, NEW E \in SUBSET Events, Answer(w, k, E)
          PROVE  JobInv'
      BY <1>1, <2>1, <2>2, AnswerBelongs
    <2>3. CASE ProcessSubscription(w)
      <3> DEFINE c == job[w].client
                 r == job[w].request
      <3>1. ASSUME Subscribe(c, r.events) \/ Unsubscribe(c, r.events)
            PROVE  Known(c) /\ DOMAIN sessions' = DOMAIN sessions
        BY <3>1 DEF Subscribe, Unsubscribe
      <3>2. CASE Answer(w, "nack", {})
        BY <2>2, <3>2
      <3>3. CASE /\ Subscribe(c, r.events) \/ Unsubscribe(c, r.events)
                 /\ Answer(w, "ack", sessions'[clientIdToHdl[c]].subscriptions)
        <4>1. sessions'[clientIdToHdl[c]].subscriptions \in SUBSET Events
          BY <1>1, <2>1, <3>1, <3>3, AcknowledgedEvents
        <4>2. QED
          BY <2>2, <3>3, <4>1
      <3>4. QED
        BY <2>3, <3>2, <3>3 DEF ProcessSubscription
    <2>4. CASE ProcessOther(w)
      <3>1. Answer(w, "nack", {}) \/ Answer(w, "response", {})
        BY <2>4 DEF ProcessOther
      <3>2. {} \in SUBSET Events
        OBVIOUS
      <3>3. QED
        BY <2>2, <3>1, <3>2
    <2>5. QED
      BY <1>5, <2>3, <2>4 DEF Process
  <1>6. ASSUME NEW w \in Workers, Throws(w) \/ Route(w) \/ WorkerEnds(w) PROVE JobInv'
    BY <1>3, <1>6 DEF Throws, Route, WorkerEnds
  <1>7. ASSUME NEW h \in Handles,
               Connects(h) \/ Closes(h) \/ ClientSends(h) \/ StartWrite(h) \/ Deliver(h)
        PROVE  JobInv'
    BY <1>2, <1>7 DEF Connects, Closes, ClientSends, StartWrite, Deliver
  <1>8. ASSUME NEW e \in Events, CallbackFires(e) \/ Broadcast(e) PROVE JobInv'
    BY <1>2, <1>8 DEF CallbackFires, Broadcast
  <1>9. CASE CallbackFails \/ UNCHANGED bridgeVars
    BY <1>2, <1>9 DEF CallbackFails, bridgeVars
  <1>10. QED
    BY <1>4, <1>5, <1>6, <1>7, <1>8, <1>9, NextIsAllActions DEF AllActions, Connection

-------------------------------------------------------------------------------
\* The remaining variables keep their types.
LEMMA RestStep == BInv /\ [BridgeNext]_bridgeVars => RestInv'
  <1> SUFFICES ASSUME BInv, [BridgeNext]_bridgeVars PROVE RestInv'
    OBVIOUS
  <1> USE DEF bridgeState, ioState, clientState
  <1>1. RestInv /\ OutInv /\ InboxInv /\ JobInv
    BY DEF BInv
  <1>2. ASSUME UNCHANGED <<pusher, clientState, unanswered>> PROVE RestInv'
    BY <1>1, <1>2 DEF RestInv
  <1>3. ASSUME UNCHANGED <<clientState, unanswered>>, pusher' \subseteq Events PROVE RestInv'
    BY <1>1, <1>3 DEF RestInv
  <1>4. ASSUME UNCHANGED <<pusher, clientState>>,
               NEW id \in Ids, unanswered' \subseteq unanswered \union {id}
        PROVE  RestInv'
    BY <1>1, <1>4 DEF RestInv
  <1>5. ASSUME NEW h \in Handles, ClientSends(h) PROVE RestInv'
    <2>1. sent' = sent + 1 /\ sent < MaxRequests /\ UNCHANGED <<pusher, view, unanswered>>
      BY <1>5 DEF ClientSends
    <2>2. sent' \in 0 .. MaxRequests
      BY <1>1, <2>1, BridgeAssumption DEF RestInv
    <2>3. PICK r \in Requests :
              pending' = [pending EXCEPT ![h] = IF r.kind = "invalid" THEN @ ELSE @ \union {r}]
      BY <1>5 DEF ClientSends
    <2>4. pending' \in [Handles -> SUBSET Requests]
      BY <1>1, <2>3 DEF RestInv
    <2>5. QED
      BY <1>1, <2>1, <2>2, <2>4 DEF RestInv
  <1>6. ASSUME NEW h \in Handles, Deliver(h) PROVE RestInv'
    <2> DEFINE f == Head(wire[h])
    <2>1. f \in Frames
      BY <1>1, <1>6, HeadTailProperties DEF Deliver, OutInv
    <2>2. f.events \in SUBSET Events
      BY <2>1 DEF Frames, Answers
    <2>3. view' \in [Handles -> SUBSET Events]
      BY <1>1, <1>6, <2>2 DEF Deliver, RestInv
    <2>4. pending' \in [Handles -> SUBSET Requests]
      BY <1>1, <1>6 DEF Deliver, RestInv
    <2>5. UNCHANGED <<pusher, sent, unanswered>>
      BY <1>6 DEF Deliver
    <2>6. QED
      BY <1>1, <2>3, <2>4, <2>5 DEF RestInv
  <1>7. ASSUME NEW h \in Handles, Closes(h) PROVE RestInv'
    BY <1>1, <1>7 DEF Closes, RestInv
  <1>8. ASSUME NEW h \in Handles, OnMessage(h) PROVE RestInv'
    <2>1. Head(inbox[h]).id \in Ids
      BY <1>1, <1>8, InboxHead, RequestEvents DEF OnMessage
    <2>2. /\ UNCHANGED <<pusher, clientState>>
          /\ unanswered' \subseteq unanswered \union {Head(inbox[h]).id}
      BY <1>8 DEF OnMessage, Refuse, Pong, Overload, Dispatch
    <2>3. QED
      BY <1>4, <2>1, <2>2
  <1>9. ASSUME NEW w \in Workers, Throws(w) PROVE RestInv'
    <2>1. job[w].request.id \in Ids
      BY <1>1, <1>9, JobKinds, RequestEvents DEF Throws, JobInv
    <2>2. QED
      BY <1>4, <1>9, <2>1 DEF Throws
  <1>10. ASSUME NEW w \in Workers, Route(w) PROVE RestInv'
    <2>1. job[w].pc = "answered" /\ UNCHANGED <<pusher, clientState>>
          /\ unanswered' \subseteq unanswered \union {job[w].frame.id}
      BY <1>10 DEF Route
    <2>2. job[w].frame.id \in Ids
      BY <1>1, <2>1, JobKinds DEF JobInv, Answers
    <2>3. QED
      BY <1>4, <2>1, <2>2
  <1>11. ASSUME NEW w \in Workers, Process(w) \/ WorkerEnds(w) PROVE RestInv'
    BY <1>2, <1>11 DEF Process, WorkerEnds
  <1>12. ASSUME NEW e \in Events, CallbackFires(e) \/ Broadcast(e) PROVE RestInv'
    BY <1>3, <1>12 DEF CallbackFires, Broadcast
  <1>13. ASSUME NEW h \in Handles, Connects(h) \/ StartWrite(h) PROVE RestInv'
    BY <1>2, <1>13 DEF Connects, StartWrite
  <1>14. CASE CallbackFails
    BY <1>3, <1>14 DEF CallbackFails
  <1>15. CASE UNCHANGED bridgeVars
    BY <1>2, <1>15 DEF bridgeVars
  <1>16. QED
    BY <1>5, <1>6, <1>7, <1>8, <1>9, <1>10, <1>11, <1>12, <1>13, <1>14, <1>15,
       NextIsAllActions DEF AllActions, Connection

-------------------------------------------------------------------------------
(***************************************************************************)
(* The registry's invariant and Bridge's own are inductive together.       *)
(***************************************************************************)
THEOREM BridgeInvariant == BridgeSpec => [](IInv /\ BInv)
  <1>1. BridgeInit => IInv /\ BInv
    <2> SUFFICES ASSUME BridgeInit PROVE IInv /\ BInv
      OBVIOUS
    <2>1. IInv
      BY InitInvariant DEF BridgeInit
    <2>2. \A S : <<>> \in Seq(S)
      BY EmptySeq
    <2>3. InboxInv /\ OutInv
      BY <2>2 DEF BridgeInit, InboxInv, OutInv
    <2>4. JobInv
      BY DEF BridgeInit, JobInv, Jobs, Free, Serves
    <2>5. RestInv
      BY BridgeAssumption DEF BridgeInit, RestInv
    <2>6. QED
      BY <2>1, <2>3, <2>4, <2>5 DEF BInv
  <1>2. IInv /\ BInv /\ [BridgeNext]_bridgeVars => (IInv /\ BInv)'
    BY RegistryStep, StepInvariant, InboxStep, OutStep, JobStep, RestStep DEF BInv
  <1>3. QED
    BY <1>1, <1>2, PTL DEF BridgeSpec

(***************************************************************************)
(* The server in action implements the registry: its threads change the    *)
(* maps by the registry's steps only.  What is proved of the registry      *)
(* holds of it.                                                            *)
(***************************************************************************)
THEOREM BridgeImplementsRegistry == BridgeSpec => Spec
  <1>1. BridgeInit => Init
    BY DEF BridgeInit
  <1>2. BInv /\ [BridgeNext]_bridgeVars => [Next]_vars
    BY RegistryStep DEF BInv
  <1>3. QED
    BY <1>1, <1>2, BridgeInvariant, PTL DEF BridgeSpec, Spec

\* The whole request and push path still implements the publish/subscribe
\* service: no message, worker or callback changes a subscription on its own.
THEOREM BridgeServesPubSub == BridgeSpec => ImplementsPubSub
  BY BridgeImplementsRegistry, RegistryImplementsPubSub, PTL

\* Type correctness of messages, jobs and frames (OnMessage, the workers and
\* the outgoing queues), for any number of clients and requests.
THEOREM BridgeTypeCorrect == BridgeSpec => []BridgeTypeOK
  <1>1. IInv /\ BInv => BridgeTypeOK
    BY DEF IInv, BInv, InboxInv, OutInv, JobInv, RestInv, BridgeTypeOK
  <1>2. QED
    BY <1>1, BridgeInvariant, PTL

(***************************************************************************)
(* An answer is only ever on its way to the connection that sent the       *)
(* request, for any number of clients, workers and requests.               *)
(***************************************************************************)
THEOREM AnswersReachTheirSender == BridgeSpec => []AnswersGoHome
  <1>1. BInv => AnswersGoHome
    <2> SUFFICES ASSUME BInv, NEW h \in Handles, NEW i \in DOMAIN Outgoing(h),
                        Outgoing(h)[i].id # NoId
                 PROVE  Outgoing(h)[i].id[1] = h
      BY DEF AnswersGoHome
    <2>1. wire[h] \in Seq(FramesOf(h)) /\ queue[h] \in Seq(FramesOf(h))
      BY DEF BInv, OutInv
    <2>2. Outgoing(h) \in Seq(FramesOf(h))
      BY <2>1, ConcatProperties DEF Outgoing
    <2>3. Outgoing(h)[i] \in FramesOf(h)
      BY <2>2, ElementOfSeq
    <2>4. QED
      BY <2>3 DEF FramesOf
  <1>2. QED
    BY <1>1, BridgeInvariant, PTL

-------------------------------------------------------------------------------
\* Requests have ids, and numbers.
LEMMA RequestIds ==
    ASSUME NEW r \in Requests
    PROVE  r.id \in Ids /\ r.id # NoId /\ r.id[2] \in Nat
  <1>1. r.id \in Ids
    BY RequestEvents
  <1>2. PICK a \in Handles, i \in 1 .. MaxRequests : r.id = <<a, i>>
    BY <1>1 DEF Ids
  <1>3. i \in Nat /\ <<a, i>>[2] = i
    BY BridgeAssumption
  <1>4. Len(<<a, i>>) = 2 /\ Len(<<>>) = 0
    OBVIOUS
  <1>5. QED
    BY <1>1, <1>2, <1>3, <1>4 DEF NoId

\* The types of one connection's part.
LEMMA PartTypes ==
    ASSUME BInv, NEW h \in Handles
    PROVE  /\ inbox[h] \in Seq(Requests) /\ queue[h] \in Seq(Frames) /\ wire[h] \in Seq(Frames)
           /\ sent \in Nat /\ pending[h] \subseteq Requests
  BY BridgeAssumption DEF BInv, InboxInv, OutInv, RestInv

(***************************************************************************)
(* The wire comes before the queue: what is queued is read last, what is   *)
(* delivered was first, and a write that starts changes nothing.           *)
(***************************************************************************)
LEMMA QueuedLast ==
    ASSUME NEW wr \in Seq(Frames), NEW q \in Seq(Frames), NEW f \in Frames
    PROVE  wr \o Append(q, f) = Append(wr \o q, f)
  <1>1. <<f>> \in Seq(Frames)
    OBVIOUS
  <1>2. wr \o q \in Seq(Frames)
    BY ConcatProperties
  <1>3. Append(q, f) = q \o <<f>> /\ Append(wr \o q, f) = (wr \o q) \o <<f>>
    BY <1>2, AppendIsConcat
  <1>4. QED
    BY <1>1, <1>3, ConcatAssociative

\* What is read is the head of the wire.
LEMMA WrittenFirst ==
    ASSUME NEW wr \in Seq(Frames), wr # <<>>, NEW q \in Seq(Frames)
    PROVE  /\ wr \o q # <<>>
           /\ Head(wr \o q) = Head(wr)
           /\ Tail(wr \o q) = Tail(wr) \o q
  <1> DEFINE o == wr \o q
             t == Tail(wr)
  <1>1. /\ o \in Seq(Frames) /\ Len(o) = Len(wr) + Len(q)
        /\ \A i \in 1 .. Len(wr) + Len(q) : o[i] = IF i <= Len(wr) THEN wr[i] ELSE q[i - Len(wr)]
    BY ConcatProperties
  <1>2. /\ Len(wr) \in Nat \ {0} /\ Len(q) \in Nat
        /\ t \in Seq(Frames) /\ Len(t) = Len(wr) - 1
        /\ \A i \in 1 .. Len(t) : t[i] = wr[i + 1]
    BY HeadTailProperties, LenProperties, EmptySeq
  <1>3. o # <<>>
    BY <1>1, <1>2, EmptySeq
  <1>4. Head(o) = Head(wr)
    <2>1. Head(o) = o[1] /\ Head(wr) = wr[1]
      BY <1>3, <1>1
    <2>2. QED
      BY <2>1, <1>1, <1>2
  <1>5. /\ Tail(o) \in Seq(Frames) /\ Len(Tail(o)) = Len(o) - 1
        /\ \A i \in 1 .. Len(Tail(o)) : Tail(o)[i] = o[i + 1]
    BY <1>1, <1>3, HeadTailProperties
  <1>6. /\ t \o q \in Seq(Frames) /\ Len(t \o q) = Len(t) + Len(q)
        /\ \A i \in 1 .. Len(t) + Len(q) : (t \o q)[i] = IF i <= Len(t) THEN t[i] ELSE q[i - Len(t)]
    BY <1>2, ConcatProperties
  <1>7. Len(Tail(o)) = Len(t \o q)
    BY <1>1, <1>2, <1>5, <1>6
  <1>8. ASSUME NEW i \in 1 .. Len(Tail(o)) PROVE Tail(o)[i] = (t \o q)[i]
    <2>1. Tail(o)[i] = IF i + 1 <= Len(wr) THEN wr[i + 1] ELSE q[i + 1 - Len(wr)]
      BY <1>1, <1>2, <1>5, <1>8
    <2>2. CASE i <= Len(t)
      BY <1>2, <1>6, <1>7, <1>8, <2>1, <2>2
    <2>3. CASE ~(i <= Len(t))
      <3>1. (t \o q)[i] = q[i - Len(t)]
        BY <1>2, <1>6, <1>7, <1>8, <2>3
      <3>2. i - Len(t) = i + 1 - Len(wr) /\ ~(i + 1 <= Len(wr))
        BY <1>2, <2>3
      <3>3. QED
        BY <2>1, <3>1, <3>2
    <2>4. QED
      BY <2>2, <2>3
  <1>9. Tail(o) = t \o q
    BY <1>5, <1>6, <1>7, <1>8, SeqEqual
  <1>10. QED
    BY <1>3, <1>4, <1>9

-------------------------------------------------------------------------------
(***************************************************************************)
(* The backpressure guard.  It counts all frames of a queue, so those it   *)
(* let in can be no more.                                                  *)
(***************************************************************************)
GuardedIn(s) == {i \in DOMAIN s : Guarded(s[i])}
Within(s) == Cardinality(GuardedIn(s)) <= MaxBuffered

\* There are no more guarded frames than frames.
LEMMA GuardedCount ==
    ASSUME NEW s \in Seq(Frames)
    PROVE  /\ IsFiniteSet(GuardedIn(s))
           /\ Cardinality(GuardedIn(s)) \in Nat
           /\ Cardinality(GuardedIn(s)) <= Len(s)
  <1>1. /\ Len(s) \in Nat /\ DOMAIN s = 1 .. Len(s)
        /\ GuardedIn(s) \in SUBSET (1 .. Len(s))
    BY LenProperties DEF GuardedIn
  <1>2. IsFiniteSet(1 .. Len(s)) /\ Cardinality(1 .. Len(s)) = Len(s)
    <2>1. PICK n \in Nat : n = Len(s)
      BY <1>1
    <2>2. IsFiniteSet(1 .. n) /\ Cardinality(1 .. n) = IF 1 > n THEN 0 ELSE n - 1 + 1
      BY FS_Interval
    <2>3. QED
      BY <2>1, <2>2
  <1>3. QED
    BY <1>1, <1>2, FS_Subset, FS_CardinalityType

\* An empty queue is within the limit.
LEMMA GuardedNone == Within(<<>>)
  <1>1. GuardedIn(<<>>) = {}
    BY EmptySeq DEF GuardedIn
  <1>2. Cardinality(GuardedIn(<<>>)) = 0
    BY <1>1, FS_EmptySet
  <1>3. QED
    BY <1>2, BridgeAssumption DEF Within

\* A queue that gets a frame: past the guard, or one that is not counted.
LEMMA GuardedAppend ==
    ASSUME NEW s \in Seq(Frames), Within(s), NEW f \in Frames,
           ~Guarded(f) \/ Len(s) + 1 <= MaxBuffered
    PROVE  Within(Append(s, f))
  <1> DEFINE a == Append(s, f)
  <1>1. /\ a \in Seq(Frames) /\ Len(a) = Len(s) + 1 /\ Len(s) \in Nat
        /\ DOMAIN a = 1 .. Len(s) + 1 /\ DOMAIN s = 1 .. Len(s)
        /\ \A i \in 1 .. Len(s) : a[i] = s[i]
        /\ a[Len(s) + 1] = f
    BY AppendProperties, LenProperties
  <1>2. CASE Len(s) + 1 <= MaxBuffered
    <2>1. Cardinality(GuardedIn(a)) \in Nat /\ Cardinality(GuardedIn(a)) <= Len(s) + 1
      BY <1>1, GuardedCount
    <2>2. MaxBuffered \in Nat
      BY BridgeAssumption
    <2>3. QED
      BY <1>1, <1>2, <2>1, <2>2 DEF Within
  <1>3. CASE ~Guarded(f)
    <2>1. GuardedIn(a) = GuardedIn(s)
      BY <1>1, <1>3 DEF GuardedIn
    <2>2. QED
      BY <2>1 DEF Within
  <1>4. QED
    BY <1>2, <1>3

\* No step queues a guarded frame beyond the limit.
LEMMA GuardStep ==
    ASSUME BInv, GuardedFramesBounded, [BridgeNext]_bridgeVars
    PROVE  GuardedFramesBounded'
  <1> USE DEF bridgeState, ioState
  <1>1. /\ OutInv /\ InboxInv /\ JobInv
        /\ \A h \in Handles : queue[h] \in Seq(Frames) /\ Within(queue[h])
    BY DEF BInv, OutInv, GuardedFramesBounded, Within, GuardedIn
  <1>2. SUFFICES ASSUME NEW h \in Handles PROVE Within(queue'[h])
    BY DEF GuardedFramesBounded, Within, GuardedIn
  <1>3. ASSUME queue'[h] = queue[h] PROVE Within(queue'[h])
    BY <1>1, <1>3
  <1>4. ASSUME queue'[h] = <<>> PROVE Within(queue'[h])
    BY <1>4, GuardedNone
  <1>5. ASSUME NEW f \in Frames, queue'[h] = Append(queue[h], f),
               ~Guarded(f) \/ ~IsSendQueueFull(h)
        PROVE  Within(queue'[h])
    <2>1. Len(queue[h]) \in Nat /\ MaxBuffered \in Nat
      BY <1>1, LenProperties, BridgeAssumption
    <2>2. ~Guarded(f) \/ Len(queue[h]) + 1 <= MaxBuffered
      BY <1>5, <2>1 DEF IsSendQueueFull
    <2>3. QED
      BY <1>1, <1>5, <2>2, GuardedAppend
  <1>6. ASSUME NEW g \in Handles, OnMessage(g) PROVE Within(queue'[h])
    <2> DEFINE r == Head(inbox[g])
    <2>1. r.id \in Ids
      BY <1>1, <1>6, InboxHead, RequestEvents DEF OnMessage
    <2>2. ASSUME NEW f \in Frames, ~Guarded(f), Send(g, f) PROVE Within(queue'[h])
      <3>1. queue'[h] = IF h = g THEN Append(queue[h], f) ELSE queue[h]
        BY <1>1, <2>2 DEF Send, OutInv
      <3>2. QED
        BY <1>3, <1>5, <2>2, <3>1
    <2>3. CASE Send(g, Frame(NoId, "error", {}))
      <3>1. Frame(NoId, "error", {}) \in Frames /\ ~Guarded(Frame(NoId, "error", {}))
        BY FrameTypes DEF Frame, Guarded
      <3>2. QED
        BY <2>2, <2>3, <3>1
    <2>4. CASE Send(g, Frame(r.id, "pong", {}))
      <3>1. Frame(r.id, "pong", {}) \in Frames /\ ~Guarded(Frame(r.id, "pong", {}))
        BY <2>1, FrameTypes DEF Frame, Guarded
      <3>2. QED
        BY <2>2, <2>4, <3>1
    <2>5. QED
      BY <1>3, <1>6, <2>3, <2>4 DEF OnMessage, Refuse, Pong, Overload, Dispatch
  <1>7. ASSUME NEW w \in Workers, Route(w) PROVE Within(queue'[h])
    <2>1. PICK c, f : c = job[w].client /\ f = job[w].frame
      OBVIOUS
    <2>2. job[w] \in Jobs /\ job[w].pc = "answered" /\ RouteOutgoing(c, f)
      BY <1>1, <1>7, <2>1 DEF Route, JobInv
    <2>3. f \in Frames
      BY <2>1, <2>2, JobKinds DEF Frames
    <2>4. CASE UNCHANGED queue
      BY <1>3, <2>4
    <2>5. CASE SendToAllLocked(f)
      <3>1. queue'[h] = queue[h] \/ (queue'[h] = Append(queue[h], f) /\ ~IsSendQueueFull(h))
        BY <2>5 DEF SendToAllLocked
      <3>2. QED
        BY <1>3, <1>5, <2>3, <3>1
    <2>6. CASE ~IsSendQueueFull(clientIdToHdl[c]) /\ Send(clientIdToHdl[c], f)
      <3>1. queue'[h] = IF h = clientIdToHdl[c] THEN Append(queue[h], f) ELSE queue[h]
        BY <1>1, <2>6 DEF Send, OutInv
      <3>2. QED
        BY <1>3, <1>5, <2>3, <2>6, <3>1
    <2>7. QED
      BY <2>2, <2>4, <2>5, <2>6 DEF RouteOutgoing
  <1>8. ASSUME NEW e \in Events, Broadcast(e) PROVE Within(queue'[h])
    <2>1. PICK f : f = Frame(NoId, "push", {e})
      OBVIOUS
    <2>2. f \in Frames
      BY <2>1, FrameTypes
    <2>3. queue'[h] = queue[h] \/ (queue'[h] = Append(queue[h], f) /\ ~IsSendQueueFull(h))
      BY <1>8, <2>1 DEF Broadcast
    <2>4. QED
      BY <1>3, <1>5, <2>2, <2>3
  <1>9. ASSUME NEW g \in Handles, Closes(g) \/ StartWrite(g) PROVE Within(queue'[h])
    <2>1. queue'[h] \in {queue[h], <<>>}
      BY <1>1, <1>9 DEF Closes, StartWrite, OutInv
    <2>2. QED
      BY <1>3, <1>4, <2>1
  <1>10. ASSUME NEW g \in Handles, Connects(g) \/ ClientSends(g) \/ Deliver(g)
         PROVE  Within(queue'[h])
    BY <1>3, <1>10 DEF Connects, ClientSends, Deliver
  <1>11. ASSUME NEW w \in Workers, Process(w) \/ Throws(w) \/ WorkerEnds(w)
         PROVE  Within(queue'[h])
    BY <1>3, <1>11 DEF Process, Throws, WorkerEnds
  <1>12. ASSUME NEW e \in Events, CallbackFires(e) PROVE Within(queue'[h])
    BY <1>3, <1>12 DEF CallbackFires
  <1>13. CASE CallbackFails \/ UNCHANGED bridgeVars
    BY <1>3, <1>13 DEF CallbackFails, bridgeVars
  <1>14. QED
    BY <1>6, <1>7, <1>8, <1>9, <1>10, <1>11, <1>12, <1>13, NextIsAllActions
       DEF AllActions, Connection

(***************************************************************************)
(* However many workers and callbacks send to a connection, what its guard *)
(* let in is within the limit.                                             *)
(***************************************************************************)
THEOREM GuardHolds == BridgeSpec => []GuardedFramesBounded
  <1>1. BridgeInit => GuardedFramesBounded
    <2> SUFFICES ASSUME BridgeInit, NEW h \in Handles PROVE Within(queue[h])
      BY DEF GuardedFramesBounded, Within, GuardedIn
    <2>1. queue[h] = <<>>
      BY DEF BridgeInit
    <2>2. QED
      BY <2>1, GuardedNone
  <1>2. BInv /\ GuardedFramesBounded /\ [BridgeNext]_bridgeVars => GuardedFramesBounded'
    BY GuardStep
  <1>3. QED
    BY <1>1, <1>2, BridgeInvariant, PTL DEF BridgeSpec
-------------------------------------------------------------------------------
(***************************************************************************)
(* Where request id is, place by place; it is in one place at most, in one *)
(* if its client waits for it, and in none before it is sent.              *)
(***************************************************************************)
Received(id) == Positions(inbox[id[1]], id)
Carriers(id) == {w \in Workers : Has(job[w], id)}
Returned(id) == Positions(Outgoing(id[1]), id)
GivenUp(id)  == unanswered \intersect {id}

AtMostOne(X) == \A x, y \in X : x = y
Apart(A, W, O, G) ==
    /\ AtMostOne(A) /\ AtMostOne(W) /\ AtMostOne(O) /\ AtMostOne(G)
    /\ A = {} \/ W = {}
    /\ A = {} \/ O = {}
    /\ A = {} \/ G = {}
    /\ W = {} \/ O = {}
    /\ W = {} \/ G = {}
    /\ O = {} \/ G = {}
Nowhere(A, W, O, G) == A = {} /\ W = {} /\ O = {} /\ G = {}

AccountOf(id) ==
    /\ Apart(Received(id), Carriers(id), Returned(id), GivenUp(id))
    /\ Waits(id) => ~Nowhere(Received(id), Carriers(id), Returned(id), GivenUp(id))
    /\ sent < id[2] => Nowhere(Received(id), Carriers(id), Returned(id), GivenUp(id))
AccountInv == \A id \in Ids : AccountOf(id)

\* An id tells whose request it is, and its number; none is the absent one.
LEMMA IdParts ==
    ASSUME NEW id \in Ids
    PROVE  id[1] \in Handles /\ id[2] \in 1 .. MaxRequests /\ id = <<id[1], id[2]>> /\ id # NoId
  <1>1. PICK a \in Handles, i \in 1 .. MaxRequests : id = <<a, i>>
    BY DEF Ids
  <1>2. Len(<<a, i>>) = 2 /\ Len(<<>>) = 0
    OBVIOUS
  <1>3. QED
    BY <1>1, <1>2 DEF NoId

(***************************************************************************)
(* A place keeps what it has, though perhaps at another position.          *)
(***************************************************************************)
Keeps(X, Y) == (Y = {} <=> X = {}) /\ (AtMostOne(X) => AtMostOne(Y))

\* The last of a sequence is new, and the only one if there was none.
LEMMA PositionsAppend ==
    ASSUME NEW S, NEW s \in Seq(S), NEW x \in S, NEW id
    PROVE  /\ x.id # id => Keeps(Positions(s, id), Positions(Append(s, x), id))
           /\ x.id = id /\ Positions(s, id) = {} =>
                  /\ Positions(Append(s, x), id) # {}
                  /\ AtMostOne(Positions(Append(s, x), id))
  <1> DEFINE a == Append(s, x)
             P == Positions(s, id)
             Q == Positions(a, id)
  <1>1. /\ Len(a) = Len(s) + 1 /\ Len(s) \in Nat
        /\ \A i \in 1 .. Len(s) : a[i] = s[i]
        /\ a[Len(s) + 1] = x
        /\ DOMAIN s = 1 .. Len(s) /\ DOMAIN a = 1 .. Len(a)
    BY AppendProperties, LenProperties
  <1>2. \A i \in 1 .. Len(a) : i \in 1 .. Len(s) \/ i = Len(s) + 1
    BY <1>1
  <1>3. \A i \in 1 .. Len(s) : i \in 1 .. Len(a)
    BY <1>1
  <1>4. Len(s) + 1 \in 1 .. Len(a)
    BY <1>1
  <1>5. ASSUME x.id # id PROVE Q = P
    <2>1. \A i \in Q : i \in P
      BY <1>1, <1>2, <1>5 DEF Positions
    <2>2. \A i \in P : i \in Q
      BY <1>1, <1>3 DEF Positions
    <2>3. QED
      BY <2>1, <2>2
  <1>6. ASSUME x.id = id, P = {} PROVE Q = {Len(s) + 1}
    <2>1. \A i \in Q : i = Len(s) + 1
      BY <1>1, <1>2, <1>6 DEF Positions
    <2>2. Len(s) + 1 \in Q
      BY <1>1, <1>4, <1>6 DEF Positions
    <2>3. QED
      BY <2>1, <2>2
  <1>7. QED
    BY <1>5, <1>6 DEF Keeps, AtMostOne

\* The head of a sequence leaves; what is behind it moves up.
LEMMA PositionsTail ==
    ASSUME NEW S, NEW s \in Seq(S), s # <<>>, NEW id
    PROVE  /\ Head(s).id # id => Keeps(Positions(s, id), Positions(Tail(s), id))
           /\ Head(s).id = id /\ AtMostOne(Positions(s, id)) =>
                  Positions(s, id) # {} /\ Positions(Tail(s), id) = {}
           /\ AtMostOne(Positions(s, id)) => AtMostOne(Positions(Tail(s), id))
           /\ Positions(s, id) = {} => Positions(Tail(s), id) = {}
  <1> DEFINE t == Tail(s)
             P == Positions(s, id)
             Q == Positions(t, id)
  <1>1. /\ Len(s) \in Nat \ {0} /\ Len(t) = Len(s) - 1 /\ Head(s) = s[1]
        /\ \A i \in 1 .. Len(t) : t[i] = s[i + 1]
        /\ DOMAIN s = 1 .. Len(s) /\ DOMAIN t = 1 .. Len(t)
    BY HeadTailProperties, LenProperties, EmptySeq
  <1>2. \A i \in Q : i \in Int /\ i + 1 \in P /\ i + 1 # 1
    BY <1>1 DEF Positions
  <1>3. \A i \in P : i = 1 \/ (i - 1 \in Q)
    BY <1>1 DEF Positions
  <1>4. 1 \in P <=> Head(s).id = id
    BY <1>1 DEF Positions
  <1>5. AtMostOne(P) => AtMostOne(Q)
    <2>1. ASSUME AtMostOne(P), NEW i \in Q, NEW j \in Q PROVE i = j
      <3>1. i + 1 = j + 1
        BY <1>2, <2>1 DEF AtMostOne
      <3>2. QED
        BY <1>2, <2>1, <3>1
    <2>2. QED
      BY <2>1 DEF AtMostOne
  <1>6. P = {} => Q = {}
    BY <1>2
  <1>7. Head(s).id # id => (Q = {} => P = {})
    BY <1>3, <1>4
  <1>8. ASSUME Head(s).id = id, AtMostOne(P) PROVE P # {} /\ Q = {}
    BY <1>2, <1>4, <1>8 DEF AtMostOne
  <1>9. QED
    BY <1>5, <1>6, <1>7, <1>8 DEF Keeps

\* An empty sequence has none.
LEMMA PositionsNone ==
    ASSUME NEW id
    PROVE  Positions(<<>>, id) = {}
  BY DEF Positions

-------------------------------------------------------------------------------
(***************************************************************************)
(* What may happen to one request.  Nothing, or the client stops waiting.  *)
(***************************************************************************)
Still(id) ==
    /\ Keeps(Received(id), Received(id)') /\ Keeps(Carriers(id), Carriers(id)')
    /\ Keeps(Returned(id), Returned(id)') /\ Keeps(GivenUp(id), GivenUp(id)')

LEMMA AccountStill ==
    ASSUME NEW id \in Ids, AccountOf(id), Still(id), Waits(id)' => Waits(id),
           sent \in Nat, sent' \in Nat, sent <= sent'
    PROVE  AccountOf(id)'
  <1>1. Apart(Received(id), Carriers(id), Returned(id), GivenUp(id))'
    BY DEF AccountOf, Still, Keeps, Apart
  <1>2. /\ Nowhere(Received(id), Carriers(id), Returned(id), GivenUp(id))'
        <=> Nowhere(Received(id), Carriers(id), Returned(id), GivenUp(id))
    BY DEF Still, Keeps, Nowhere
  <1>3. sent' < id[2] => sent < id[2]
    BY IdParts
  <1>4. QED
    BY <1>1, <1>2, <1>3 DEF AccountOf

\* It goes from one place to another.
LEMMA AccountMoves ==
    ASSUME NEW id \in Ids, AccountOf(id), sent' = sent,
           ~Nowhere(Received(id), Carriers(id), Returned(id), GivenUp(id)),
           Apart(Received(id)', Carriers(id)', Returned(id)', GivenUp(id)'),
           ~Nowhere(Received(id)', Carriers(id)', Returned(id)', GivenUp(id)')
    PROVE  AccountOf(id)'
  BY DEF AccountOf

\* A place where nothing happens keeps what it has.
LEMMA KeepsItself ==
    ASSUME NEW X, NEW Y, Y = X
    PROVE  Keeps(X, Y)
  BY DEF Keeps

-------------------------------------------------------------------------------
(***************************************************************************)
(* What a step makes of each place.  The head of an inbox is taken out.    *)
(***************************************************************************)
LEMMA ReceivedTaken ==
    ASSUME BInv, NEW id \in Ids, AtMostOne(Received(id)), NEW g \in Handles, inbox[g] # <<>>,
           inbox' = [inbox EXCEPT ![g] = Tail(@)], NEW r, r = Head(inbox[g])
    PROVE  /\ r.id # id => Keeps(Received(id), Received(id)')
           /\ r.id = id => Received(id) # {} /\ Received(id)' = {}
  <1>1. inbox[g] \in Seq(Requests)
    BY PartTypes
  <1>2. \A h \in Handles : inbox'[h] = IF h = g THEN Tail(inbox[g]) ELSE inbox[h]
    BY DEF BInv, InboxInv
  <1>3. r.id[1] = g /\ id[1] \in Handles
    BY InboxHead, IdParts DEF BInv
  <1>4. CASE id[1] = g
    <2>1. /\ r.id # id => Keeps(Positions(inbox[g], id), Positions(Tail(inbox[g]), id))
          /\ r.id = id /\ AtMostOne(Positions(inbox[g], id)) =>
                 Positions(inbox[g], id) # {} /\ Positions(Tail(inbox[g]), id) = {}
      BY <1>1, PositionsTail
    <2>2. inbox'[g] = Tail(inbox[g])
      BY <1>2
    <2>3. QED
      BY <1>4, <2>1, <2>2 DEF Received
  <1>5. CASE id[1] # g
    <2>1. Received(id)' = Received(id) /\ r.id # id
      BY <1>2, <1>3, <1>5 DEF Received
    <2>2. QED
      BY <2>1, KeepsItself
  <1>6. QED
    BY <1>4, <1>5

\* Worker w gets the job j.
LEMMA CarriersChange ==
    ASSUME BInv, NEW id, NEW w \in Workers, NEW j, job' = [job EXCEPT ![w] = j],
           AtMostOne(Carriers(id))
    PROVE  /\ Has(j, id) <=> Has(job[w], id) => Keeps(Carriers(id), Carriers(id)')
           /\ Has(job[w], id) /\ ~Has(j, id) => Carriers(id) # {} /\ Carriers(id)' = {}
           /\ Carriers(id) = {} /\ Has(j, id) => Carriers(id)' = {w}
  <1>1. \A u \in Workers : job'[u] = IF u = w THEN j ELSE job[u]
    BY DEF BInv, JobInv
  <1>2. w \in Carriers(id)' <=> Has(j, id)
    BY <1>1 DEF Carriers
  <1>3. w \in Carriers(id) <=> Has(job[w], id)
    BY DEF Carriers
  <1>4. \A u \in Workers \ {w} : u \in Carriers(id)' <=> u \in Carriers(id)
    BY <1>1 DEF Carriers
  <1>5. Carriers(id) \subseteq Workers /\ Carriers(id)' \subseteq Workers
    BY DEF Carriers
  <1>6. ASSUME Has(j, id) <=> Has(job[w], id) PROVE Keeps(Carriers(id), Carriers(id)')
    <2>1. Carriers(id)' = Carriers(id)
      BY <1>2, <1>3, <1>4, <1>5, <1>6
    <2>2. QED
      BY <2>1, KeepsItself
  <1>7. ASSUME Has(job[w], id), ~Has(j, id) PROVE Carriers(id) # {} /\ Carriers(id)' = {}
    BY <1>2, <1>3, <1>4, <1>5, <1>7 DEF AtMostOne
  <1>8. ASSUME Carriers(id) = {}, Has(j, id) PROVE Carriers(id)' = {w}
    BY <1>2, <1>4, <1>5, <1>8
  <1>9. QED
    BY <1>6, <1>7, <1>8

\* Frame f is sent to g.
LEMMA ReturnedSends ==
    ASSUME BInv, NEW id \in Ids, NEW g \in Handles, NEW f \in Frames, Send(g, f), UNCHANGED wire
    PROVE  /\ f.id # id => Keeps(Returned(id), Returned(id)')
           /\ f.id = id /\ id[1] = g /\ Returned(id) = {} =>
                  Returned(id)' # {} /\ AtMostOne(Returned(id)')
  <1>1. wire[g] \in Seq(Frames) /\ queue[g] \in Seq(Frames)
    BY PartTypes
  <1>2. \A h \in Handles : queue'[h] = IF h = g THEN Append(queue[g], f) ELSE queue[h]
    BY DEF Send, BInv, OutInv
  <1>3. Outgoing(g) \in Seq(Frames) /\ Outgoing(g)' = Append(Outgoing(g), f)
    <2>1. Outgoing(g) \in Seq(Frames)
      BY <1>1, ConcatProperties DEF Outgoing
    <2>2. wire[g] \o Append(queue[g], f) = Append(wire[g] \o queue[g], f)
      BY <1>1, QueuedLast
    <2>3. QED
      BY <1>2, <2>1, <2>2 DEF Outgoing
  <1>4. CASE id[1] = g
    <2>1. Positions(Outgoing(g)', id) = Positions(Append(Outgoing(g), f), id)
      BY <1>3
    <2>2. QED
      BY <1>3, <1>4, <2>1, PositionsAppend DEF Returned
  <1>5. CASE id[1] # g
    <2>1. id[1] \in Handles
      BY IdParts
    <2>2. Returned(id)' = Returned(id)
      BY <1>2, <1>5, <2>1 DEF Returned, Outgoing
    <2>3. QED
      BY <1>5, <2>2, KeepsItself
  <1>6. QED
    BY <1>4, <1>5

\* Request i is given up.
LEMMA GivenUpGrows ==
    ASSUME NEW id, NEW i, unanswered' = unanswered \union {i}
    PROVE  /\ i # id => Keeps(GivenUp(id), GivenUp(id)')
           /\ i = id => GivenUp(id)' = {id}
  BY DEF GivenUp, Keeps, AtMostOne

-------------------------------------------------------------------------------
\* A step that touches no request.
LEMMA AccountUntouched ==
    ASSUME BInv, AccountInv,
           UNCHANGED inbox, UNCHANGED job, UNCHANGED queue, UNCHANGED wire,
           UNCHANGED unanswered, UNCHANGED pending, UNCHANGED sent
    PROVE  AccountInv'
  <1> SUFFICES ASSUME NEW id \in Ids PROVE AccountOf(id)'
    BY DEF AccountInv
  <1>1. /\ Received(id)' = Received(id) /\ Carriers(id)' = Carriers(id)
        /\ Returned(id)' = Returned(id) /\ GivenUp(id)' = GivenUp(id)
        /\ Waits(id)' <=> Waits(id)
    BY DEF Received, Carriers, Returned, Outgoing, GivenUp, Waits
  <1>2. QED
    BY <1>1 DEF AccountInv, AccountOf

\* The client sends a request that is nowhere yet.
LEMMA AccountClientSends ==
    ASSUME BInv, AccountInv, NEW g \in Handles, ClientSends(g)
    PROVE  AccountInv'
  <1>1. PICK r \in Requests :
            /\ r.id = <<g, sent + 1>>
            /\ inbox' = [inbox EXCEPT ![g] = Append(@, r)]
            /\ pending' = [pending EXCEPT ![g] = IF r.kind = "invalid" THEN @ ELSE @ \union {r}]
    BY DEF ClientSends
  <1>2. /\ sent' = sent + 1 /\ UNCHANGED queue /\ UNCHANGED wire
        /\ UNCHANGED job /\ UNCHANGED unanswered
    BY DEF ClientSends
  <1>3. \A h \in Handles :
            /\ inbox'[h] = IF h = g THEN Append(inbox[g], r) ELSE inbox[h]
            /\ \A x \in pending'[h] : x \in pending[h] \/ x = r
    BY <1>1 DEF BInv, InboxInv, RestInv
  <1>4. sent \in Nat /\ inbox[g] \in Seq(Requests)
    BY PartTypes
  <1> SUFFICES ASSUME NEW id \in Ids PROVE AccountOf(id)'
    BY DEF AccountInv
  <1>5. AccountOf(id) /\ id[1] \in Handles /\ id = <<id[1], id[2]>> /\ id[2] \in Nat
    BY IdParts DEF AccountInv
  <1>6. /\ Carriers(id)' = Carriers(id) /\ Returned(id)' = Returned(id)
        /\ GivenUp(id)' = GivenUp(id)
    BY <1>2 DEF Carriers, Returned, Outgoing, GivenUp
  <1>7. CASE r.id = id
    <2>1. id[1] = g /\ id[2] = sent + 1
      BY <1>1, <1>7
    <2>2. Nowhere(Received(id), Carriers(id), Returned(id), GivenUp(id))
      BY <1>4, <1>5, <2>1 DEF AccountOf
    <2>3. Received(id)' # {} /\ AtMostOne(Received(id)')
      <3>1. inbox'[g] = Append(inbox[g], r) /\ Positions(inbox[g], id) = {}
        BY <1>3, <2>1, <2>2 DEF Nowhere, Received
      <3>2. /\ Positions(Append(inbox[g], r), id) # {}
            /\ AtMostOne(Positions(Append(inbox[g], r), id))
        BY <1>4, <1>7, <3>1, PositionsAppend
      <3>3. QED
        BY <2>1, <3>1, <3>2 DEF Received
    <2>4. Apart(Received(id)', Carriers(id)', Returned(id)', GivenUp(id)')
      BY <1>6, <2>2, <2>3 DEF Nowhere, Apart, AtMostOne
    <2>5. ~Nowhere(Received(id)', Carriers(id)', Returned(id)', GivenUp(id)')
      BY <2>3 DEF Nowhere
    <2>6. ~(sent' < id[2])
      BY <1>2, <1>4, <2>1
    <2>7. QED
      BY <2>4, <2>5, <2>6 DEF AccountOf
  <1>8. CASE r.id # id
    <2>1. Keeps(Received(id), Received(id)')
      <3>1. CASE id[1] = g
        <4>1. Keeps(Positions(inbox[g], id), Positions(Append(inbox[g], r), id))
          BY <1>4, <1>8, PositionsAppend
        <4>2. inbox'[g] = Append(inbox[g], r)
          BY <1>3
        <4>3. QED
          BY <3>1, <4>1, <4>2 DEF Received
      <3>2. CASE id[1] # g
        BY <1>3, <1>5, <3>2, KeepsItself DEF Received
      <3>3. QED
        BY <3>1, <3>2
    <2>2. Waits(id)' => Waits(id)
      BY <1>3, <1>5, <1>8 DEF Waits
    <2>3. Still(id)
      BY <1>6, <2>1, KeepsItself DEF Still
    <2>4. QED
      BY <1>2, <1>4, <1>5, <2>2, <2>3, AccountStill
  <1>9. QED
    BY <1>7, <1>8

\* The client reads the answer it waits for, or another frame.
LEMMA AccountDelivers ==
    ASSUME BInv, AccountInv, NEW g \in Handles, Deliver(g)
    PROVE  AccountInv'
  <1> DEFINE f == Head(wire[g])
  <1>1. /\ wire[g] # <<>> /\ wire'[g] = Tail(wire[g])
        /\ pending'[g] = {r \in pending[g] : r.id # f.id}
        /\ \A h \in Handles \ {g} : UNCHANGED <<wire[h], pending[h]>>
        /\ UNCHANGED inbox /\ UNCHANGED queue /\ UNCHANGED job
        /\ UNCHANGED sent /\ UNCHANGED unanswered
    BY DEF Deliver, BInv, OutInv, RestInv
  <1>2. wire[g] \in Seq(Frames) /\ queue[g] \in Seq(Frames) /\ sent \in Nat
    BY PartTypes
  <1>3. /\ Outgoing(g) # <<>> /\ Head(Outgoing(g)) = f
        /\ Outgoing(g)' = Tail(Outgoing(g)) /\ Outgoing(g) \in Seq(Frames)
    BY <1>1, <1>2, WrittenFirst, ConcatProperties DEF Outgoing
  <1> SUFFICES ASSUME NEW id \in Ids PROVE AccountOf(id)'
    BY DEF AccountInv
  <1>4. AccountOf(id) /\ id[1] \in Handles
    BY IdParts DEF AccountInv
  <1>5. /\ Received(id)' = Received(id) /\ Carriers(id)' = Carriers(id)
        /\ GivenUp(id)' = GivenUp(id)
    BY <1>1 DEF Received, Carriers, GivenUp
  <1>6. CASE id[1] = g /\ f.id = id
    <2>1. ~Waits(id)'
      BY <1>1, <1>6 DEF Waits
    <2>2. Positions(Tail(Outgoing(g)), id) = {}
      BY <1>3, <1>4, <1>6, PositionsTail DEF AccountOf, Apart, Returned
    <2>3. Returned(id)' = {}
      BY <1>3, <1>6, <2>2 DEF Returned
    <2>4. Apart(Received(id)', Carriers(id)', Returned(id)', GivenUp(id)')
      BY <1>4, <1>5, <2>3 DEF AccountOf, Apart, AtMostOne
    <2>5. sent' < id[2] => Nowhere(Received(id)', Carriers(id)', Returned(id)', GivenUp(id)')
      BY <1>1, <1>4, <1>5, <2>3 DEF AccountOf, Nowhere
    <2>6. QED
      BY <2>1, <2>4, <2>5 DEF AccountOf
  <1>7. CASE ~(id[1] = g /\ f.id = id)
    <2>1. Keeps(Returned(id), Returned(id)')
      <3>1. CASE id[1] = g
        <4>1. Keeps(Positions(Outgoing(g), id), Positions(Tail(Outgoing(g)), id))
          BY <1>3, <1>7, <3>1, PositionsTail
        <4>2. QED
          BY <1>3, <3>1, <4>1 DEF Returned
      <3>2. CASE id[1] # g
        BY <1>1, <1>4, <3>2, KeepsItself DEF Returned, Outgoing
      <3>3. QED
        BY <3>1, <3>2
    <2>2. Waits(id)' => Waits(id)
      BY <1>1, <1>4 DEF Waits
    <2>3. Still(id)
      BY <1>5, <2>1, KeepsItself DEF Still
    <2>4. QED
      BY <1>1, <1>2, <1>4, <2>2, <2>3, AccountStill
  <1>8. QED
    BY <1>6, <1>7

\* A connection that closes takes along its requests and answers.
LEMMA AccountCloses ==
    ASSUME BInv, AccountInv, NEW g \in Handles, Closes(g)
    PROVE  AccountInv'
  <1>1. /\ \A h \in Handles : UNCHANGED <<inbox[h], queue[h], wire[h], pending[h]>> \/ h = g
        /\ inbox'[g] = <<>> /\ queue'[g] = <<>> /\ wire'[g] = <<>> /\ pending'[g] = {}
        /\ UNCHANGED job /\ UNCHANGED unanswered /\ UNCHANGED sent
    BY DEF Closes, BInv, InboxInv, OutInv, RestInv
  <1> SUFFICES ASSUME NEW id \in Ids PROVE AccountOf(id)'
    BY DEF AccountInv
  <1>2. AccountOf(id) /\ id[1] \in Handles /\ sent \in Nat
    BY IdParts, PartTypes DEF AccountInv
  <1>3. Carriers(id)' = Carriers(id) /\ GivenUp(id)' = GivenUp(id)
    BY <1>1 DEF Carriers, GivenUp
  <1>4. CASE id[1] = g
    <2>1. Received(id)' = {} /\ Returned(id)' = {} /\ ~Waits(id)'
      <3>1. Outgoing(g)' = <<>>
        BY <1>1 DEF Outgoing
      <3>2. Positions(<<>>, id) = {}
        BY PositionsNone
      <3>3. Received(id)' = {} /\ Returned(id)' = {}
        BY <1>1, <1>4, <3>1, <3>2 DEF Received, Returned
      <3>4. ~Waits(id)'
        BY <1>1, <1>4 DEF Waits
      <3>5. QED
        BY <3>3, <3>4
    <2>2. Apart(Received(id)', Carriers(id)', Returned(id)', GivenUp(id)')
      BY <1>2, <1>3, <2>1 DEF AccountOf, Apart, AtMostOne
    <2>3. sent' < id[2] => Nowhere(Received(id)', Carriers(id)', Returned(id)', GivenUp(id)')
      BY <1>1, <1>2, <1>3, <2>1 DEF AccountOf, Nowhere
    <2>4. QED
      BY <2>1, <2>2, <2>3 DEF AccountOf
  <1>5. CASE id[1] # g
    <2>1. UNCHANGED <<inbox[id[1]], queue[id[1]], wire[id[1]], pending[id[1]]>>
      BY <1>1, <1>2, <1>5
    <2>2. /\ Received(id)' = Received(id) /\ Returned(id)' = Returned(id)
          /\ Waits(id)' <=> Waits(id)
      BY <2>1 DEF Received, Returned, Outgoing, Waits
    <2>3. Still(id)
      BY <1>3, <2>2, KeepsItself DEF Still
    <2>4. QED
      BY <1>1, <1>2, <2>2, <2>3, AccountStill
  <1>6. QED
    BY <1>4, <1>5

\* A write takes over what was queued.
LEMMA AccountStartWrite ==
    ASSUME BInv, AccountInv, NEW g \in Handles, StartWrite(g)
    PROVE  AccountInv'
  <1>1. /\ UNCHANGED inbox /\ UNCHANGED job /\ UNCHANGED unanswered
        /\ UNCHANGED sent /\ UNCHANGED pending /\ wire[g] = <<>>
    BY DEF StartWrite, clientState
  <1>2. /\ wire'[g] = queue[g] /\ queue'[g] = <<>>
        /\ \A h \in Handles \ {g} : UNCHANGED <<queue[h], wire[h]>>
    BY DEF StartWrite, BInv, OutInv
  <1>3. queue[g] \o <<>> = queue[g] /\ <<>> \o queue[g] = queue[g]
    <2>1. queue[g] \in Seq(Frames)
      BY PartTypes
    <2>2. QED
      BY <2>1, ConcatEmptySeq
  <1>4. \A h \in Handles : Outgoing(h)' = Outgoing(h)
    BY <1>1, <1>2, <1>3 DEF Outgoing
  <1> SUFFICES ASSUME NEW id \in Ids PROVE AccountOf(id)'
    BY DEF AccountInv
  <1>5. /\ Received(id)' = Received(id) /\ Carriers(id)' = Carriers(id)
        /\ GivenUp(id)' = GivenUp(id)
        /\ Waits(id)' <=> Waits(id)
    BY <1>1 DEF Received, Carriers, GivenUp, Waits
  <1>6. Returned(id)' = Returned(id)
    BY <1>4, IdParts DEF Returned
  <1>7. QED
    BY <1>1, <1>5, <1>6 DEF AccountInv, AccountOf

(***************************************************************************)
(* OnMessage: the request leaves the inbox for a worker, for the answer to *)
(* a ping, or for nothing at all.                                          *)
(***************************************************************************)
LEMMA AccountOnMessage ==
    ASSUME BInv, AccountInv, NEW g \in Handles, OnMessage(g)
    PROVE  AccountInv'
  <1>1. PICK r : r = Head(inbox[g])
    OBVIOUS
  <1>2. /\ inbox[g] # <<>> /\ inbox' = [inbox EXCEPT ![g] = Tail(@)]
        /\ UNCHANGED wire /\ UNCHANGED sent /\ UNCHANGED pending
    BY DEF OnMessage, clientState
  <1>3. r \in Requests /\ r.id \in Ids /\ r.id[1] = g /\ sent \in Nat
    BY <1>1, <1>2, InboxHead, RequestEvents, PartTypes DEF BInv
  <1>4. \/ /\ unanswered' = unanswered \union {r.id} /\ UNCHANGED job
           /\ Send(g, Frame(NoId, "error", {})) \/ UNCHANGED queue
        \/ /\ Send(g, Frame(r.id, "pong", {})) /\ UNCHANGED job /\ UNCHANGED unanswered
        \/ /\ \E w \in Workers \ Busy : \E c :
                  job' = [job EXCEPT ![w] = [pc |-> "started", request |-> r, client |-> c]]
           /\ UNCHANGED queue /\ UNCHANGED unanswered
    <2>1. CASE g \in DOMAIN sessions
      BY <1>1, <2>1 DEF OnMessage, Refuse, Pong, Overload, Dispatch
    <2>2. CASE g \notin DOMAIN sessions
      BY <1>1, <2>2 DEF OnMessage
    <2>3. QED
      BY <2>1, <2>2
  <1> SUFFICES ASSUME NEW id \in Ids PROVE AccountOf(id)'
    BY DEF AccountInv
  <1>5. AccountOf(id) /\ id # NoId /\ AtMostOne(Received(id)) /\ AtMostOne(Carriers(id))
    BY IdParts DEF AccountInv, AccountOf, Apart
  <1>6. /\ r.id # id => Keeps(Received(id), Received(id)')
        /\ r.id = id => Received(id) # {} /\ Received(id)' = {}
    BY <1>1, <1>2, <1>5, ReceivedTaken
  <1>7. Waits(id)' <=> Waits(id)
    BY <1>2 DEF Waits
  <1>8. ASSUME UNCHANGED queue PROVE Returned(id)' = Returned(id)
    BY <1>2, <1>8 DEF Returned, Outgoing
  <1>9. ASSUME UNCHANGED job PROVE Carriers(id)' = Carriers(id)
    BY <1>9 DEF Carriers
  <1>10. ASSUME UNCHANGED unanswered PROVE GivenUp(id)' = GivenUp(id)
    BY <1>10 DEF GivenUp
  <1>11. ASSUME r.id # id, Keeps(Carriers(id), Carriers(id)'),
                Keeps(Returned(id), Returned(id)'), Keeps(GivenUp(id), GivenUp(id)')
         PROVE  AccountOf(id)'
    <2>1. Still(id)
      BY <1>6, <1>11 DEF Still
    <2>2. QED
      BY <1>2, <1>3, <1>5, <1>7, <2>1, AccountStill
  <1>12. ASSUME r.id = id
         PROVE  /\ Carriers(id) = {} /\ Returned(id) = {} /\ GivenUp(id) = {}
                /\ Received(id) # {} /\ Received(id)' = {}
    BY <1>5, <1>6, <1>12 DEF AccountOf, Apart
  <1>13. ASSUME r.id = id,
                Apart({}, Carriers(id)', Returned(id)', GivenUp(id)'),
                ~Nowhere({}, Carriers(id)', Returned(id)', GivenUp(id)')
         PROVE  AccountOf(id)'
    <2>1. ~Nowhere(Received(id), Carriers(id), Returned(id), GivenUp(id))
      BY <1>12, <1>13 DEF Nowhere
    <2>2. QED
      BY <1>2, <1>5, <1>12, <1>13, <2>1, AccountMoves
  <1>14. CASE /\ unanswered' = unanswered \union {r.id} /\ UNCHANGED job
              /\ Send(g, Frame(NoId, "error", {})) \/ UNCHANGED queue
    <2>1. Carriers(id)' = Carriers(id)
      BY <1>9, <1>14
    <2>2. /\ r.id # id => Keeps(GivenUp(id), GivenUp(id)')
          /\ r.id = id => GivenUp(id)' = {id}
      BY <1>14, GivenUpGrows
    <2>3. Keeps(Returned(id), Returned(id)')
      <3>1. CASE UNCHANGED queue
        BY <1>8, <3>1, KeepsItself
      <3>2. CASE Send(g, Frame(NoId, "error", {}))
        <4>1. Frame(NoId, "error", {}) \in Frames /\ Frame(NoId, "error", {}).id # id
          BY <1>5, FrameTypes DEF Frame
        <4>2. QED
          BY <1>2, <3>2, <4>1, ReturnedSends
      <3>3. QED
        BY <1>14, <3>1, <3>2
    <2>4. CASE r.id # id
      BY <1>11, <2>1, <2>2, <2>3, <2>4, KeepsItself
    <2>5. CASE r.id = id
      <3>1. Carriers(id)' = {} /\ Returned(id)' = {} /\ GivenUp(id)' = {id}
        BY <1>12, <2>1, <2>2, <2>3, <2>5 DEF Keeps
      <3>2. Apart({}, {}, {}, {id}) /\ ~Nowhere({}, {}, {}, {id})
        BY DEF Apart, AtMostOne, Nowhere
      <3>3. QED
        BY <1>13, <2>5, <3>1, <3>2
    <2>6. QED
      BY <2>4, <2>5
  <1>15. CASE Send(g, Frame(r.id, "pong", {})) /\ UNCHANGED job /\ UNCHANGED unanswered
    <2>1. Carriers(id)' = Carriers(id) /\ GivenUp(id)' = GivenUp(id)
      BY <1>9, <1>10, <1>15
    <2>2. Frame(r.id, "pong", {}) \in Frames /\ Frame(r.id, "pong", {}).id = r.id
      BY <1>3, FrameTypes DEF Frame
    <2>3. /\ r.id # id => Keeps(Returned(id), Returned(id)')
          /\ r.id = id /\ Returned(id) = {} => Returned(id)' # {} /\ AtMostOne(Returned(id)')
      BY <1>2, <1>3, <1>15, <2>2, ReturnedSends
    <2>4. CASE r.id # id
      BY <1>11, <2>1, <2>3, <2>4, KeepsItself
    <2>5. CASE r.id = id
      <3>1. Carriers(id)' = {} /\ Returned(id)' # {} /\ AtMostOne(Returned(id)') /\ GivenUp(id)' = {}
        BY <1>12, <2>1, <2>3, <2>5
      <3>2. /\ Apart({}, Carriers(id)', Returned(id)', GivenUp(id)')
            /\ ~Nowhere({}, Carriers(id)', Returned(id)', GivenUp(id)')
        BY <3>1 DEF Apart, AtMostOne, Nowhere
      <3>3. QED
        BY <1>13, <2>5, <3>2
    <2>6. QED
      BY <2>4, <2>5
  <1>16. CASE /\ \E w \in Workers \ Busy : \E c :
                     job' = [job EXCEPT ![w] = [pc |-> "started", request |-> r, client |-> c]]
              /\ UNCHANGED queue /\ UNCHANGED unanswered
    <2>1. PICK w \in Workers \ Busy : \E c :
              job' = [job EXCEPT ![w] = [pc |-> "started", request |-> r, client |-> c]]
      BY <1>16
    <2> PICK c : job' = [job EXCEPT ![w] = [pc |-> "started", request |-> r, client |-> c]]
      BY <2>1
    <2>2. PICK j : j = [pc |-> "started", request |-> r, client |-> c]
      OBVIOUS
    <2>3. job[w].pc = "free"
      BY DEF Busy, Free
    <2>4. ~Has(job[w], id) /\ (Has(j, id) <=> r.id = id)
      BY <2>2, <2>3 DEF Has
    <2>5. Returned(id)' = Returned(id) /\ GivenUp(id)' = GivenUp(id)
      BY <1>8, <1>10, <1>16
    <2>6. /\ r.id # id => Keeps(Carriers(id), Carriers(id)')
          /\ r.id = id /\ Carriers(id) = {} => Carriers(id)' = {w}
      BY <1>5, <2>1, <2>2, <2>4, CarriersChange
    <2>7. CASE r.id # id
      BY <1>11, <2>5, <2>6, <2>7, KeepsItself
    <2>8. CASE r.id = id
      <3>1. Carriers(id)' = {w} /\ Returned(id)' = {} /\ GivenUp(id)' = {}
        BY <1>12, <2>5, <2>6, <2>8
      <3>2. Apart({}, {w}, {}, {}) /\ ~Nowhere({}, {w}, {}, {})
        BY DEF Apart, AtMostOne, Nowhere
      <3>3. QED
        BY <1>13, <2>8, <3>1, <3>2
    <2>9. QED
      BY <2>7, <2>8
  <1>17. QED
    BY <1>4, <1>14, <1>15, <1>16

-------------------------------------------------------------------------------
(***************************************************************************)
(* Workers.  An answer stands for the request it answers.                  *)
(***************************************************************************)
LEMMA AccountProcesses ==
    ASSUME BInv, AccountInv, NEW w \in Workers, Process(w)
    PROVE  AccountInv'
  <1>1. /\ job[w].pc = "started"
        /\ UNCHANGED inbox /\ UNCHANGED queue /\ UNCHANGED wire
        /\ UNCHANGED pending /\ UNCHANGED sent /\ UNCHANGED unanswered
    BY DEF Process, ioState, clientState
  <1>2. PICK k, E : Answer(w, k, E)
    BY DEF Process, ProcessSubscription, ProcessOther
  <1>3. PICK f : f = Frame(job[w].request.id, k, E)
    OBVIOUS
  <1>4. PICK j : j = [pc |-> "answered", client |-> job[w].client, frame |-> f]
    OBVIOUS
  <1>5. job' = [job EXCEPT ![w] = j]
    BY <1>2, <1>3, <1>4 DEF Answer
  <1> SUFFICES ASSUME NEW id \in Ids PROVE AccountOf(id)'
    BY DEF AccountInv
  <1>6. AccountOf(id) /\ AtMostOne(Carriers(id)) /\ sent \in Nat
    BY IdParts, PartTypes DEF AccountInv, AccountOf, Apart
  <1>7. Has(j, id) <=> Has(job[w], id)
    BY <1>1, <1>3, <1>4 DEF Has, Frame
  <1>8. Keeps(Carriers(id), Carriers(id)')
    BY <1>5, <1>6, <1>7, CarriersChange
  <1>9. /\ Received(id)' = Received(id) /\ Returned(id)' = Returned(id)
        /\ GivenUp(id)' = GivenUp(id)
        /\ Waits(id)' <=> Waits(id)
    BY <1>1 DEF Received, Returned, Outgoing, GivenUp, Waits
  <1>10. Still(id)
    BY <1>8, <1>9, KeepsItself DEF Still
  <1>11. QED
    BY <1>1, <1>6, <1>9, <1>10, AccountStill

\* A worker w that has request i lets go of it: it is given up, or answered.
LEMMA AccountLeaves ==
    ASSUME BInv, AccountInv, NEW w \in Workers, NEW i, \A id : Has(job[w], id) <=> id = i,
           NEW j, job' = [job EXCEPT ![w] = j], \A id : ~Has(j, id),
           UNCHANGED inbox, UNCHANGED wire, UNCHANGED pending, UNCHANGED sent,
           \/ unanswered' = unanswered \union {i} /\ UNCHANGED queue
           \/ /\ UNCHANGED unanswered
              /\ \E f \in Frames : f.id = i /\ i[1] \in Handles /\ Send(i[1], f)
    PROVE  AccountInv'
  <1> SUFFICES ASSUME NEW id \in Ids PROVE AccountOf(id)'
    BY DEF AccountInv
  <1>1. /\ AccountOf(id) /\ AtMostOne(Carriers(id)) /\ sent \in Nat
        /\ Apart(Received(id), Carriers(id), Returned(id), GivenUp(id))
    BY IdParts, PartTypes DEF AccountInv, AccountOf, Apart
  <1>2. Has(job[w], id) <=> id = i
    OBVIOUS
  <1>3. ~Has(j, id)
    OBVIOUS
  <1>4. /\ id # i => Keeps(Carriers(id), Carriers(id)')
        /\ id = i => Carriers(id) # {} /\ Carriers(id)' = {}
    BY <1>1, <1>2, <1>3, CarriersChange
  <1>5. Received(id)' = Received(id)
    BY DEF Received
  <1>6. Waits(id)' <=> Waits(id)
    BY DEF Waits
  <1>7. /\ id # i => Keeps(Returned(id), Returned(id)') /\ Keeps(GivenUp(id), GivenUp(id)')
        /\ id = i => \/ Returned(id)' = Returned(id) /\ GivenUp(id)' = {id}
                     \/ /\ GivenUp(id)' = GivenUp(id)
                        /\ Returned(id) = {} => Returned(id)' # {} /\ AtMostOne(Returned(id)')
    <2>1. CASE unanswered' = unanswered \union {i} /\ UNCHANGED queue
      <3>1. Returned(id)' = Returned(id)
        BY <2>1 DEF Returned, Outgoing
      <3>2. QED
        BY <2>1, <3>1, KeepsItself, GivenUpGrows
    <2>2. CASE /\ UNCHANGED unanswered
               /\ \E f \in Frames : f.id = i /\ i[1] \in Handles /\ Send(i[1], f)
      <3>1. PICK f \in Frames : f.id = i /\ i[1] \in Handles /\ Send(i[1], f)
        BY <2>2
      <3>2. PICK g : g = i[1]
        OBVIOUS
      <3>3. /\ f.id # id => Keeps(Returned(id), Returned(id)')
            /\ f.id = id /\ id[1] = g /\ Returned(id) = {} =>
                   Returned(id)' # {} /\ AtMostOne(Returned(id)')
        BY <3>1, <3>2, ReturnedSends
      <3>4. GivenUp(id)' = GivenUp(id)
        BY <2>2 DEF GivenUp
      <3>5. QED
        BY <3>1, <3>2, <3>3, <3>4, KeepsItself
    <2>3. QED
      BY <2>1, <2>2
  <1>8. CASE id # i
    <2>1. Still(id)
      BY <1>4, <1>5, <1>7, <1>8, KeepsItself DEF Still
    <2>2. QED
      BY <1>1, <1>6, <2>1, AccountStill
  <1>9. CASE id = i
    <2>1. /\ Received(id) = {} /\ Returned(id) = {} /\ GivenUp(id) = {}
          /\ ~Nowhere(Received(id), Carriers(id), Returned(id), GivenUp(id))
      BY <1>1, <1>4, <1>9 DEF Apart, Nowhere
    <2>2. /\ Received(id)' = {} /\ Carriers(id)' = {}
          /\ \/ Returned(id)' = {} /\ GivenUp(id)' = {id}
             \/ GivenUp(id)' = {} /\ Returned(id)' # {} /\ AtMostOne(Returned(id)')
      BY <1>4, <1>5, <1>7, <1>9, <2>1
    <2>3. /\ Apart(Received(id)', Carriers(id)', Returned(id)', GivenUp(id)')
          /\ ~Nowhere(Received(id)', Carriers(id)', Returned(id)', GivenUp(id)')
      BY <2>2 DEF Apart, AtMostOne, Nowhere
    <2>4. QED
      BY <1>1, <2>1, <2>3, AccountMoves
  <1>10. QED
    BY <1>8, <1>9

\* A request whose handler throws is given up.
LEMMA AccountThrows ==
    ASSUME BInv, AccountInv, NEW w \in Workers, Throws(w)
    PROVE  AccountInv'
  <1>1. PICK j : j = [pc |-> "ended"]
    OBVIOUS
  <1>2. PICK i : i = job[w].request.id
    OBVIOUS
  <1>3. /\ \A id : Has(job[w], id) <=> id = i
        /\ \A id : ~Has(j, id)
    BY <1>1, <1>2 DEF Throws, Has
  <1>4. /\ job' = [job EXCEPT ![w] = j] /\ unanswered' = unanswered \union {i}
        /\ UNCHANGED queue /\ UNCHANGED inbox /\ UNCHANGED wire
        /\ UNCHANGED pending /\ UNCHANGED sent
    BY <1>1, <1>2 DEF Throws, ioState, clientState
  <1>5. QED
    BY <1>3, <1>4, AccountLeaves

\* What is not sent is given up.
LEMMA AccountRoutes ==
    ASSUME IInv, BInv, AccountInv, NEW w \in Workers, Route(w)
    PROVE  AccountInv'
  <1>1. PICK j : j = [pc |-> "ended"]
    OBVIOUS
  <1>2. PICK f : f = job[w].frame
    OBVIOUS
  <1>3. PICK i : i = f.id
    OBVIOUS
  <1>4. /\ \A id : Has(job[w], id) <=> id = i
        /\ \A id : ~Has(j, id)
    BY <1>1, <1>2, <1>3 DEF Route, Has
  <1>5. /\ job' = [job EXCEPT ![w] = j] /\ job[w].pc = "answered"
        /\ unanswered' = IF queue' = queue THEN unanswered \union {i} ELSE unanswered
        /\ RouteOutgoing(job[w].client, f)
        /\ UNCHANGED inbox /\ UNCHANGED wire /\ UNCHANGED pending /\ UNCHANGED sent
    BY <1>1, <1>2, <1>3 DEF Route, clientState
  <1>6. CASE queue' = queue
    BY <1>4, <1>5, <1>6, AccountLeaves
  <1>7. CASE queue' # queue
    <2>1. JobInv /\ f \in Answers /\ job[w].client # NoClient
      BY <1>2, <1>5, JobKinds, BridgeAssumption DEF BInv, JobInv, IInv, TypeOK
    <2>2. PICK a : a = Asker(w)
      OBVIOUS
    <2>3. Serves(w) /\ Send(a, f)
      BY <1>5, <1>7, <2>1, <2>2 DEF RouteOutgoing, Serves, Asker
    <2>4. i \in Ids /\ f \in Frames
      BY <1>3, <2>1 DEF Answers, Frames
    <2>5. i # NoId /\ i[1] \in Handles
      BY <2>4, IdParts
    <2>6. f \in FramesOf(a)
      BY <1>2, <1>5, <2>1, <2>2, <2>3 DEF JobInv
    <2>7. i[1] = a
      BY <1>3, <2>5, <2>6 DEF FramesOf
    <2>8. f.id = i /\ i[1] \in Handles /\ Send(i[1], f)
      BY <1>3, <2>3, <2>5, <2>7
    <2>9. UNCHANGED unanswered
      BY <1>5, <1>7
    <2>10. QED
      BY <1>4, <1>5, <2>4, <2>8, <2>9, AccountLeaves
  <1>8. QED
    BY <1>6, <1>7

\* A worker that is done has nothing.
LEMMA AccountWorkerEnds ==
    ASSUME BInv, AccountInv, NEW w \in Workers, WorkerEnds(w)
    PROVE  AccountInv'
  <1>1. /\ job[w].pc = "ended" /\ job' = [job EXCEPT ![w] = Free]
        /\ UNCHANGED inbox /\ UNCHANGED queue /\ UNCHANGED wire
        /\ UNCHANGED pending /\ UNCHANGED sent /\ UNCHANGED unanswered
    BY DEF WorkerEnds, ioState, clientState
  <1> SUFFICES ASSUME NEW id \in Ids PROVE AccountOf(id)'
    BY DEF AccountInv
  <1>2. AccountOf(id) /\ AtMostOne(Carriers(id)) /\ sent \in Nat
    BY IdParts, PartTypes DEF AccountInv, AccountOf, Apart
  <1>3. Has(Free, id) <=> Has(job[w], id)
    BY <1>1 DEF Has, Free
  <1>4. Keeps(Carriers(id), Carriers(id)')
    BY <1>1, <1>2, <1>3, CarriersChange
  <1>5. /\ Received(id)' = Received(id) /\ Returned(id)' = Returned(id)
        /\ GivenUp(id)' = GivenUp(id)
        /\ Waits(id)' <=> Waits(id)
    BY <1>1 DEF Received, Returned, Outgoing, GivenUp, Waits
  <1>6. Still(id)
    BY <1>4, <1>5, KeepsItself DEF Still
  <1>7. QED
    BY <1>1, <1>2, <1>5, <1>6, AccountStill

\* Pushes answer no request.
LEMMA AccountBroadcasts ==
    ASSUME BInv, AccountInv, NEW e \in Events, Broadcast(e)
    PROVE  AccountInv'
  <1>1. PICK f : f = Frame(NoId, "push", {e})
    OBVIOUS
  <1>2. /\ UNCHANGED inbox /\ UNCHANGED wire /\ UNCHANGED job /\ UNCHANGED unanswered
        /\ UNCHANGED pending /\ UNCHANGED sent
        /\ \A h \in Handles : queue'[h] = queue[h] \/ queue'[h] = Append(queue[h], f)
    BY <1>1 DEF Broadcast, clientState
  <1> SUFFICES ASSUME NEW id \in Ids PROVE AccountOf(id)'
    BY DEF AccountInv
  <1>3. PICK h \in Handles : h = id[1]
    BY IdParts
  <1>4. AccountOf(id) /\ sent \in Nat
    BY PartTypes DEF AccountInv
  <1>5. Keeps(Returned(id), Returned(id)')
    <2>1. CASE queue'[h] = queue[h]
      BY <1>2, <1>3, <2>1, KeepsItself DEF Returned, Outgoing
    <2>2. CASE queue'[h] = Append(queue[h], f)
      <3>1. wire[h] \in Seq(Frames) /\ queue[h] \in Seq(Frames)
        BY PartTypes
      <3>2. f \in Frames /\ f.id = NoId /\ id # NoId
        BY <1>1, FrameTypes, IdParts DEF Frame
      <3>3. wire[h] \o Append(queue[h], f) = Append(wire[h] \o queue[h], f)
        BY <3>1, <3>2, QueuedLast
      <3>4. Outgoing(h) \in Seq(Frames)
        BY <3>1, ConcatProperties DEF Outgoing
      <3>5. Outgoing(h)' = Append(Outgoing(h), f)
        BY <1>2, <2>2, <3>3 DEF Outgoing
      <3>6. Keeps(Positions(Outgoing(h), id), Positions(Append(Outgoing(h), f), id))
        BY <3>2, <3>4, PositionsAppend
      <3>7. QED
        BY <1>3, <3>5, <3>6 DEF Returned
    <2>3. QED
      BY <1>2, <2>1, <2>2
  <1>6. /\ Received(id)' = Received(id) /\ Carriers(id)' = Carriers(id)
        /\ GivenUp(id)' = GivenUp(id)
        /\ Waits(id)' <=> Waits(id)
    BY <1>2 DEF Received, Carriers, GivenUp, Waits
  <1>7. Still(id)
    BY <1>5, <1>6, KeepsItself DEF Still
  <1>8. QED
    BY <1>2, <1>4, <1>6, <1>7, AccountStill

-------------------------------------------------------------------------------
\* At the start there are no requests.
LEMMA AccountStarts == BridgeInit => AccountInv
  <1> SUFFICES ASSUME BridgeInit, NEW id \in Ids PROVE AccountOf(id)
    BY DEF AccountInv
  <1>1. id[1] \in Handles
    BY IdParts
  <1>2. inbox[id[1]] = <<>> /\ Outgoing(id[1]) = <<>> /\ pending[id[1]] = {} /\ unanswered = {}
    BY <1>1 DEF BridgeInit, Outgoing
  <1>3. Received(id) = {} /\ Returned(id) = {}
    BY <1>2, PositionsNone DEF Received, Returned
  <1>4. Carriers(id) = {}
    BY DEF BridgeInit, Carriers, Has, Free
  <1>5. GivenUp(id) = {} /\ ~Waits(id)
    BY <1>2 DEF GivenUp, Waits
  <1>6. QED
    BY <1>3, <1>4, <1>5 DEF AccountOf, Apart, AtMostOne, Nowhere

\* No step of any thread or client loses or doubles one.
LEMMA AccountStep ==
    ASSUME IInv, BInv, AccountInv, [BridgeNext]_bridgeVars
    PROVE  AccountInv'
  <1>1. ASSUME NEW h \in Handles, Connection(h) PROVE AccountInv'
    <2>1. CASE ClientSends(h)
      BY <2>1, AccountClientSends
    <2>2. CASE Connects(h)
      BY <2>2, AccountUntouched DEF Connects, bridgeState, ioState, clientState
    <2>3. CASE OnMessage(h)
      BY <2>3, AccountOnMessage
    <2>4. CASE StartWrite(h)
      BY <2>4, AccountStartWrite
    <2>5. CASE Deliver(h)
      BY <2>5, AccountDelivers
    <2>6. CASE Closes(h)
      BY <2>6, AccountCloses
    <2>7. QED
      BY <1>1, <2>1, <2>2, <2>3, <2>4, <2>5, <2>6 DEF Connection
  <1>2. ASSUME NEW w \in Workers, Process(w) \/ Throws(w) \/ Route(w) \/ WorkerEnds(w)
        PROVE  AccountInv'
    BY <1>2, AccountProcesses, AccountThrows, AccountRoutes, AccountWorkerEnds
  <1>3. ASSUME NEW e \in Events, Broadcast(e) PROVE AccountInv'
    BY <1>3, AccountBroadcasts
  <1>4. CASE \/ CallbackFails
             \/ \E e \in Events : CallbackFires(e)
             \/ UNCHANGED bridgeVars
    <2>1. /\ UNCHANGED inbox /\ UNCHANGED queue /\ UNCHANGED wire /\ UNCHANGED job
          /\ UNCHANGED unanswered /\ UNCHANGED pending /\ UNCHANGED sent
      BY <1>4 DEF CallbackFails, CallbackFires, bridgeVars, bridgeState, ioState, clientState
    <2>2. QED
      BY <2>1, AccountUntouched
  <1>5. QED
    BY <1>1, <1>2, <1>3, <1>4, NextIsAllActions DEF AllActions

(***************************************************************************)
(* No request is lost, answered twice, or answered after it was given up,  *)
(* for any number of clients, workers and requests: while its client waits *)
(* it is in the inbox, with a worker, on its way back, or given up.        *)
(***************************************************************************)
THEOREM RequestsAreAccounted == BridgeSpec => []RequestsAccounted
  <1>1. BridgeInit => AccountInv
    BY AccountStarts
  <1>2. IInv /\ BInv /\ AccountInv /\ [BridgeNext]_bridgeVars => AccountInv'
    BY AccountStep
  <1>3. AccountInv => RequestsAccounted
    <2> SUFFICES ASSUME AccountInv, NEW id \in Ids
                 PROVE  /\ Waits(id) => Places(id) # {}
                        /\ \A p, q \in Places(id) : p = q
      BY DEF RequestsAccounted
    <2>1. /\ Apart(Received(id), Carriers(id), Returned(id), GivenUp(id))
          /\ Waits(id) => ~Nowhere(Received(id), Carriers(id), Returned(id), GivenUp(id))
      BY DEF AccountInv, AccountOf
    <2>2. Places(id) = ({"inbox"} \X Received(id)) \union ({"worker"} \X Carriers(id))
                           \union ({"outgoing"} \X Returned(id)) \union ({"given up"} \X GivenUp(id))
      BY DEF Places, Received, Carriers, Returned, GivenUp
    <2>3. ASSUME Waits(id) PROVE Places(id) # {}
      <3>1. \/ \E x : x \in Received(id)
            \/ \E x : x \in Carriers(id)
            \/ \E x : x \in Returned(id)
            \/ \E x : x \in GivenUp(id)
        BY <2>1, <2>3 DEF Nowhere
      <3>2. \E k, x : <<k, x>> \in Places(id)
        BY <2>2, <3>1
      <3>3. QED
        BY <3>2
    <2>4. ASSUME NEW p \in Places(id), NEW q \in Places(id) PROVE p = q
      <3>1. ASSUME NEW y \in Places(id)
            PROVE  \E x : \/ y = <<"inbox", x>> /\ x \in Received(id)
                          \/ y = <<"worker", x>> /\ x \in Carriers(id)
                          \/ y = <<"outgoing", x>> /\ x \in Returned(id)
                          \/ y = <<"given up", x>> /\ x \in GivenUp(id)
        <4>1. ASSUME NEW k, NEW X, y \in {k} \X X PROVE \E x : y = <<k, x>> /\ x \in X
          BY <4>1
        <4>2. \/ y \in {"inbox"} \X Received(id) \/ y \in {"worker"} \X Carriers(id)
              \/ y \in {"outgoing"} \X Returned(id) \/ y \in {"given up"} \X GivenUp(id)
          BY <2>2, <3>1
        <4>3. QED
          BY <4>1, <4>2
      <3>2. PICK x : \/ p = <<"inbox", x>> /\ x \in Received(id)
                     \/ p = <<"worker", x>> /\ x \in Carriers(id)
                     \/ p = <<"outgoing", x>> /\ x \in Returned(id)
                     \/ p = <<"given up", x>> /\ x \in GivenUp(id)
        BY <3>1
      <3>3. PICK y : \/ q = <<"inbox", y>> /\ y \in Received(id)
                     \/ q = <<"worker", y>> /\ y \in Carriers(id)
                     \/ q = <<"outgoing", y>> /\ y \in Returned(id)
                     \/ q = <<"given up", y>> /\ y \in GivenUp(id)
        BY <3>1
      <3>4. PICK A, W, O, G : /\ A = Received(id) /\ W = Carriers(id)
                              /\ O = Returned(id) /\ G = GivenUp(id)
        OBVIOUS
      <3>5. /\ \/ p = <<"inbox", x>> /\ x \in A
               \/ p = <<"worker", x>> /\ x \in W
               \/ p = <<"outgoing", x>> /\ x \in O
               \/ p = <<"given up", x>> /\ x \in G
            /\ \/ q = <<"inbox", y>> /\ y \in A
               \/ q = <<"worker", y>> /\ y \in W
               \/ q = <<"outgoing", y>> /\ y \in O
               \/ q = <<"given up", y>> /\ y \in G
        BY <3>2, <3>3, <3>4
      <3>6. /\ A = {} \/ W = {}
            /\ A = {} \/ O = {}
            /\ A = {} \/ G = {}
            /\ W = {} \/ O = {}
            /\ W = {} \/ G = {}
            /\ O = {} \/ G = {}
            /\ AtMostOne(A) /\ AtMostOne(W) /\ AtMostOne(O) /\ AtMostOne(G)
        BY <2>1, <3>4 DEF Apart
      <3>7. x = y
        BY <3>5, <3>6 DEF AtMostOne
      <3>8. CASE p = <<"inbox", x>> /\ x \in A
        <4>1. q = <<"inbox", y>>
          BY <3>5, <3>6, <3>8
        <4>2. QED
          BY <3>7, <3>8, <4>1
      <3>9. CASE p = <<"worker", x>> /\ x \in W
        <4>1. q = <<"worker", y>>
          BY <3>5, <3>6, <3>9
        <4>2. QED
          BY <3>7, <3>9, <4>1
      <3>10. CASE p = <<"outgoing", x>> /\ x \in O
        <4>1. q = <<"outgoing", y>>
          BY <3>5, <3>6, <3>10
        <4>2. QED
          BY <3>7, <3>10, <4>1
      <3>11. CASE p = <<"given up", x>> /\ x \in G
        <4>1. q = <<"given up", y>>
          BY <3>5, <3>6, <3>11
        <4>2. QED
          BY <3>7, <3>11, <4>1
      <3>12. QED
        BY <3>5, <3>8, <3>9, <3>10, <3>11
    <2>5. QED
      BY <2>3, <2>4
  <1>4. QED
    BY <1>1, <1>2, <1>3, BridgeInvariant, PTL DEF BridgeSpec
===============================================================================
