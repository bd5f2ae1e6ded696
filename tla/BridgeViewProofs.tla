--------------------------- MODULE BridgeViewProofs ---------------------------
(***************************************************************************)
(* Proofs about Bridge for clients that wait for the answer of each        *)
(* subscription request (Pipelining = FALSE), for any number of clients,   *)
(* workers, requests and events: such a client knows its subscriptions,    *)
(* and is only sent pushes that it can expect.                             *)
(***************************************************************************)
EXTENDS BridgeProofs

Settling == {"ack", "nack"}

Elems(s) == {s[i] : i \in 1 .. Len(s)}
Some(s, K) == \E i \in 1 .. Len(s) : s[i].kind \in K
Once(s, K) == \A i, j \in 1 .. Len(s) : s[i].kind \in K /\ s[j].kind \in K => i = j

(***************************************************************************)
(* What belongs to connection h: the requests of its client that are not   *)
(* processed, the frames it is going to read, and the workers that hold a  *)
(* subscription request of its, or the answer to one.                      *)
(***************************************************************************)
Starters(h)  == {w \in Workers : job[w].pc = "started" /\ job[w].request.id[1] = h}
Answerers(h) == {w \in Workers : job[w].pc = "answered" /\ job[w].frame.id[1] = h}
Holders(h) == {w \in Starters(h) : job[w].request.kind \in Control}
                  \union {w \in Answerers(h) : job[w].frame.kind \in Settling}
JobRequests(h) == {job[w].request : w \in Starters(h)}
JobFrames(h) == {job[w].frame : w \in Answerers(h)}
Requested(h) == Elems(inbox[h]) \union JobRequests(h)
Replies(h) == Elems(queue[h]) \union Elems(wire[h]) \union JobFrames(h)

(***************************************************************************)
(* There is one such request or answer at most, and it is in one place: an *)
(* inbox (in), the hands of a worker (J), a queue (q) or on the wire (wr). *)
(***************************************************************************)
OnePlace(in, q, wr, J) ==
    /\ Once(in, Control) /\ Once(q, Settling) /\ Once(wr, Settling)
    /\ \A v, w \in J : v = w
    /\ Some(in, Control) => J = {} /\ ~Some(q, Settling) /\ ~Some(wr, Settling)
    /\ J # {} => ~Some(q, Settling) /\ ~Some(wr, Settling)
    /\ Some(q, Settling) => ~Some(wr, Settling)

(***************************************************************************)
(* R: requests to process; F: frames to read; p: what the client waits for *)
(* and v what it believes; s: the subscriptions the server has; n requests *)
(* have been numbered.  The client waits for whatever is not settled, one  *)
(* subscription request at a time; an acknowledgement on its way lists     *)
(* what the server has; and what the client believes is right before its   *)
(* request is processed, after it is settled, and when it is refused.      *)
(***************************************************************************)
Numbered(R, F, p, n) ==
    /\ \A r \in R \union p : r.id # NoId /\ r.id[2] \in Nat /\ r.id[2] <= n
    /\ \A f \in F : f.id # NoId => f.id[2] \in Nat /\ f.id[2] <= n
Agree(R, F, p) ==
    \A r \in p : /\ \A x \in R : x.id = r.id => x = r
                 /\ \A f \in F : f.id = r.id => (f.kind \in Settling <=> r.kind \in Control)
Awaited(R, F, p) ==
    /\ \A r, t \in p : r.kind \in Control /\ t.kind \in Control => r = t
    /\ \A r \in R : r.kind \in Control => r \in p
    /\ \A f \in F : f.kind \in Settling => \E r \in p : r.kind \in Control /\ r.id = f.id
Believes(R, F, p, v, s) ==
    /\ \A f \in F : f.kind = "ack" => f.events = s
    /\ \/ \E r \in R : r.kind \in Control
       \/ \A r \in p : r.kind \notin Control
       \/ \E f \in F : f.kind = "nack"
       => v = s
Flow(R, F, p, v, s, n) ==
    Numbered(R, F, p, n) /\ Agree(R, F, p) /\ Awaited(R, F, p) /\ Believes(R, F, p, v, s)

(***************************************************************************)
(* All of it for each connection that has a session; one that will have    *)
(* one has nothing yet.                                                    *)
(***************************************************************************)
GoodFor(h) == /\ OnePlace(inbox[h], queue[h], wire[h], Holders(h))
              /\ Flow(Requested(h), Replies(h), pending[h], view[h],
                      sessions[h].subscriptions, sent)
Silent(h) == Requested(h) = {} /\ Replies(h) = {} /\ pending[h] = {} /\ view[h] = {}
ViewFor(h) == /\ h \in DOMAIN sessions => GoodFor(h)
              /\ conn[h] \in {"new", "handshaking"} => Silent(h)
ViewInv == \A h \in Handles : ViewFor(h)

-------------------------------------------------------------------------------
(***************************************************************************)
(* What Elems, Some and Once make of the ends of a sequence.               *)
(***************************************************************************)
LEMMA NothingInEmpty ==
    ASSUME NEW K
    PROVE  Elems(<<>>) = {} /\ ~Some(<<>>, K) /\ Once(<<>>, K)
  BY EmptySeq DEF Elems, Some, Once

\* The kinds of a sequence are those of its elements.
LEMMA SomeElem ==
    ASSUME NEW s, NEW K
    PROVE  Some(s, K) <=> \E x \in Elems(s) : x.kind \in K
  BY DEF Elems, Some

\* What is appended comes last, and is the only new one.
LEMMA AppendElems ==
    ASSUME NEW S, NEW s \in Seq(S), NEW x \in S, NEW K
    PROVE  /\ Elems(Append(s, x)) = Elems(s) \union {x}
           /\ Some(Append(s, x), K) <=> Some(s, K) \/ x.kind \in K
           /\ Once(s, K) /\ (x.kind \notin K \/ ~Some(s, K)) => Once(Append(s, x), K)
  <1> DEFINE a == Append(s, x)
  <1>1. /\ Len(a) = Len(s) + 1 /\ Len(s) \in Nat
        /\ \A i \in 1 .. Len(s) : a[i] = s[i]
        /\ a[Len(s) + 1] = x
    BY AppendProperties, LenProperties
  <1>2. Elems(a) = Elems(s) \union {x}
    <2>1. ASSUME NEW y \in Elems(a) PROVE y \in Elems(s) \union {x}
      BY <1>1, <2>1 DEF Elems
    <2>2. ASSUME NEW y \in Elems(s) \union {x} PROVE y \in Elems(a)
      <3>1. CASE y = x
        BY <1>1, <3>1 DEF Elems
      <3>2. CASE y \in Elems(s)
        <4>1. PICK i \in 1 .. Len(s) : y = s[i]
          BY <3>2 DEF Elems
        <4>2. i \in 1 .. Len(a) /\ y = a[i]
          BY <1>1, <4>1
        <4>3. QED
          BY <4>2 DEF Elems
      <3>3. QED
        BY <3>1, <3>2
    <2>3. QED
      BY <2>1, <2>2
  <1>3. Some(a, K) <=> Some(s, K) \/ x.kind \in K
    BY <1>2, SomeElem
  <1>4. ASSUME Once(s, K), x.kind \notin K \/ ~Some(s, K) PROVE Once(a, K)
    BY <1>1, <1>4 DEF Once, Some
  <1>5. QED
    BY <1>2, <1>3, <1>4

\* The head leaves, and takes the only one of its kind along.
LEMMA TailElems ==
    ASSUME NEW S, NEW s \in Seq(S), s # <<>>, NEW K
    PROVE  /\ Head(s) \in Elems(s) /\ Elems(Tail(s)) \subseteq Elems(s)
           /\ Some(Tail(s), K) => Some(s, K)
           /\ Once(s, K) => Once(Tail(s), K)
           /\ Once(s, K) /\ Head(s).kind \in K => ~Some(Tail(s), K)
  <1> DEFINE t == Tail(s)
  <1>1. /\ Len(s) \in Nat \ {0} /\ Len(t) = Len(s) - 1 /\ Head(s) = s[1]
        /\ \A i \in 1 .. Len(t) : t[i] = s[i + 1]
    BY HeadTailProperties, LenProperties, EmptySeq
  <1>2. \A i \in 1 .. Len(t) : i + 1 \in 1 .. Len(s)
    BY <1>1
  <1>3. Head(s) \in Elems(s)
    BY <1>1 DEF Elems
  <1>4. Elems(t) \subseteq Elems(s)
    BY <1>1, <1>2 DEF Elems
  <1>5. Some(t, K) => Some(s, K)
    BY <1>4, SomeElem
  <1>6. ASSUME Once(s, K), NEW i \in 1 .. Len(t), NEW j \in 1 .. Len(t),
               t[i].kind \in K, t[j].kind \in K
        PROVE  i = j
    <2>1. s[i + 1].kind \in K /\ s[j + 1].kind \in K
      BY <1>1, <1>6
    <2>2. i + 1 = j + 1
      BY <1>2, <1>6, <2>1 DEF Once
    <2>3. QED
      BY <1>1, <2>2
  <1>7. ASSUME Once(s, K), Head(s).kind \in K, NEW i \in 1 .. Len(t), t[i].kind \in K
        PROVE  FALSE
    <2>1. s[i + 1].kind \in K /\ s[1].kind \in K
      BY <1>1, <1>7
    <2>2. 1 = i + 1
      BY <1>1, <1>2, <1>7, <2>1 DEF Once
    <2>3. QED
      BY <1>1, <2>2
  <1>8. QED
    BY <1>3, <1>4, <1>5, <1>6, <1>7 DEF Some, Once

-------------------------------------------------------------------------------
(***************************************************************************)
(* What may happen to one connection's requests and frames.  First, they   *)
(* are processed or read without an effect, or are lost.                   *)
(***************************************************************************)
LEMMA FlowShrinks ==
    ASSUME NEW R, NEW F, NEW p, NEW v, NEW s, NEW n \in Nat, Flow(R, F, p, v, s, n),
           NEW Q \in SUBSET R, NEW G \in SUBSET F, NEW m \in Nat, n <= m
    PROVE  Flow(Q, G, p, v, s, m)
  <1>1. Numbered(Q, G, p, m)
    BY DEF Flow, Numbered
  <1>2. Agree(Q, G, p) /\ Awaited(Q, G, p)
    BY DEF Flow, Agree, Awaited
  <1>3. Believes(Q, G, p, v, s)
    BY DEF Flow, Believes
  <1>4. QED
    BY <1>1, <1>2, <1>3 DEF Flow

\* There is also a new frame, which is no answer to a subscription request.
LEMMA FlowOther ==
    ASSUME NEW R, NEW F, NEW p, NEW v, NEW s, NEW n \in Nat, Flow(R, F, p, v, s, n),
           NEW f, f.kind \notin Settling,
           f.id = NoId \/ \E x \in R : x.id = f.id /\ x.kind \notin Control,
           NEW Q \in SUBSET R, NEW G, \A e \in G : e \in F \/ e = f
    PROVE  Flow(Q, G, p, v, s, n)
  <1>1. Numbered(Q, G, p, n)
    BY DEF Flow, Numbered
  <1>2. Agree(Q, G, p)
    <2>1. ASSUME NEW r \in p, f.id = r.id PROVE r.kind \notin Control
      BY <2>1 DEF Flow, Numbered, Agree
    <2>2. QED
      BY <2>1 DEF Flow, Agree
  <1>3. Awaited(Q, G, p)
    BY DEF Flow, Awaited
  <1>4. Believes(Q, G, p, v, s)
    BY DEF Flow, Believes, Settling
  <1>5. QED
    BY <1>1, <1>2, <1>3, <1>4 DEF Flow

(***************************************************************************)
(* A client sends the next request; none of its subscription requests is   *)
(* open if it is one.  An invalid request is not waited for.               *)
(***************************************************************************)
LEMMA FlowSend ==
    ASSUME NEW R, NEW F, NEW p, NEW v, NEW s, NEW n \in Nat, Flow(R, F, p, v, s, n),
           NEW r, r.id # NoId, r.id[2] = n + 1,
           r.kind \in Control => \A t \in p : t.kind \notin Control,
           NEW q, r.kind \in Control => q = p \union {r}, q = p \/ q = p \union {r}
    PROVE  Flow(R \union {r}, F, q, v, s, n + 1)
  <1>1. /\ \A x \in R \union p : x.id # r.id
        /\ \A f \in F : f.id # r.id
    BY DEF Flow, Numbered
  <1>2. Numbered(R \union {r}, F, q, n + 1)
    BY DEF Flow, Numbered
  <1>3. Agree(R \union {r}, F, q)
    BY <1>1 DEF Flow, Agree
  <1>4. Awaited(R \union {r}, F, q)
    BY DEF Flow, Awaited
  <1>5. Believes(R \union {r}, F, q, v, s)
    BY DEF Flow, Believes, Awaited
  <1>6. QED
    BY <1>2, <1>3, <1>4, <1>5 DEF Flow

(***************************************************************************)
(* The subscription request x, the only one, is answered: with the         *)
(* subscriptions t that the server has now, or with a refusal, and then    *)
(* nothing has changed.                                                    *)
(***************************************************************************)
LEMMA FlowSettles ==
    ASSUME NEW R, NEW F, NEW p, NEW v, NEW s, NEW n \in Nat, Flow(R, F, p, v, s, n),
           NEW x \in R, x.kind \in Control, \A f \in F : f.kind \notin Settling,
           NEW Q \in SUBSET R, \A r \in Q : r.kind \notin Control,
           NEW f, f.id = x.id, NEW G, \A e \in G : e \in F \/ e = f, NEW t,
           \/ f.kind = "ack" /\ f.events = t
           \/ f.kind = "nack" /\ t = s
    PROVE  Flow(Q, G, p, v, t, n)
  <1>1. x \in p /\ f.kind \in Settling
    BY DEF Flow, Awaited, Settling
  <1>2. Numbered(Q, G, p, n)
    BY DEF Flow, Numbered
  <1>3. Agree(Q, G, p)
    BY <1>1 DEF Flow, Agree
  <1>4. Awaited(Q, G, p)
    BY <1>1 DEF Flow, Awaited
  <1>5. Believes(Q, G, p, v, t)
    <2>1. v = s
      BY DEF Flow, Believes
    <2>2. QED
      BY <1>1, <2>1 DEF Believes, Settling
  <1>6. QED
    BY <1>2, <1>3, <1>4, <1>5 DEF Flow

(***************************************************************************)
(* The client reads f: it stops waiting for what f answers.                *)
(***************************************************************************)
Remaining(p, f) == {r \in p : r.id # f.id}

LEMMA FlowReadsOther ==
    ASSUME NEW R, NEW F, NEW p, NEW v, NEW s, NEW n \in Nat, Flow(R, F, p, v, s, n),
           NEW f \in F, f.kind \notin Settling, NEW G \in SUBSET F
    PROVE  Flow(R, G, Remaining(p, f), v, s, n)
  <1>1. \A r \in p : r.kind \in Control => r \in Remaining(p, f)
    BY DEF Flow, Agree, Remaining
  <1>2. Remaining(p, f) \subseteq p
    BY DEF Remaining
  <1>3. Numbered(R, G, Remaining(p, f), n)
    BY <1>2 DEF Flow, Numbered
  <1>4. Agree(R, G, Remaining(p, f))
    BY <1>2 DEF Flow, Agree
  <1>5. Awaited(R, G, Remaining(p, f))
    BY <1>1, <1>2 DEF Flow, Awaited
  <1>6. Believes(R, G, Remaining(p, f), v, s)
    BY <1>1 DEF Flow, Believes
  <1>7. QED
    BY <1>3, <1>4, <1>5, <1>6 DEF Flow

\* The answer to the only subscription request is read: the client knows.
LEMMA FlowReadsAnswer ==
    ASSUME NEW R, NEW F, NEW p, NEW v, NEW s, NEW n \in Nat, Flow(R, F, p, v, s, n),
           NEW f \in F, f.kind \in Settling, \A r \in R : r.kind \notin Control,
           NEW G \in SUBSET F, \A g \in G : g.kind \notin Settling
    PROVE  Flow(R, G, Remaining(p, f), IF f.kind = "ack" THEN f.events ELSE v, s, n)
  <1>1. Remaining(p, f) \subseteq p
    BY DEF Remaining
  <1>2. \A r \in Remaining(p, f) : r.kind \notin Control
    BY DEF Flow, Awaited, Remaining
  <1>3. (IF f.kind = "ack" THEN f.events ELSE v) = s
    BY DEF Flow, Believes, Settling
  <1>4. Numbered(R, G, Remaining(p, f), n)
    BY <1>1 DEF Flow, Numbered
  <1>5. Agree(R, G, Remaining(p, f))
    BY <1>1 DEF Flow, Agree
  <1>6. Awaited(R, G, Remaining(p, f))
    BY <1>1, <1>2 DEF Flow, Awaited
  <1>7. Believes(R, G, Remaining(p, f), IF f.kind = "ack" THEN f.events ELSE v, s)
    BY <1>3 DEF Flow, Believes, Settling
  <1>8. QED
    BY <1>4, <1>5, <1>6, <1>7 DEF Flow

-------------------------------------------------------------------------------
(***************************************************************************)
(* The one subscription request, or its answer, moves from place to place. *)
(***************************************************************************)
LEMMA PlaceShrinks ==
    ASSUME NEW in, NEW q, NEW wr, NEW J, OnePlace(in, q, wr, J),
           NEW in2, NEW q2, NEW wr2, NEW J2 \in SUBSET J,
           Some(in2, Control) => Some(in, Control), Once(in, Control) => Once(in2, Control),
           Some(q2, Settling) => Some(q, Settling), Once(q, Settling) => Once(q2, Settling),
           Some(wr2, Settling) => Some(wr, Settling), Once(wr, Settling) => Once(wr2, Settling)
    PROVE  OnePlace(in2, q2, wr2, J2)
  BY DEF OnePlace

\* A client without open subscription request sends one.
LEMMA PlaceSends ==
    ASSUME NEW in \in Seq(Requests), NEW q, NEW wr, NEW J, OnePlace(in, q, wr, J),
           NEW r \in Requests,
           r.kind \in Control =>
               ~Some(in, Control) /\ ~Some(q, Settling) /\ ~Some(wr, Settling) /\ J = {}
    PROVE  OnePlace(Append(in, r), q, wr, J)
  <1>1. /\ Some(Append(in, r), Control) <=> Some(in, Control) \/ r.kind \in Control
        /\ Once(in, Control) /\ (r.kind \notin Control \/ ~Some(in, Control))
               => Once(Append(in, r), Control)
    BY AppendElems
  <1>2. QED
    BY <1>1 DEF OnePlace

\* A worker w gets the request at the head of the inbox.
LEMMA PlaceStarts ==
    ASSUME NEW in \in Seq(Requests), in # <<>>, NEW q, NEW wr, NEW J, OnePlace(in, q, wr, J),
           NEW w, NEW J2 \in SUBSET (J \union {w}), Head(in).kind \notin Control => J2 \subseteq J
    PROVE  OnePlace(Tail(in), q, wr, J2)
  <1>1. /\ Some(Tail(in), Control) => Some(in, Control)
        /\ Once(in, Control) => Once(Tail(in), Control)
        /\ Once(in, Control) /\ Head(in).kind \in Control => ~Some(Tail(in), Control)
    BY TailElems
  <1>2. Head(in) \in Elems(in)
    BY TailElems
  <1>3. Head(in).kind \in Control => Some(in, Control)
    BY <1>2, SomeElem
  <1>4. QED
    BY <1>1, <1>3 DEF OnePlace

\* A worker w queues its answer f.
LEMMA PlaceRoutes ==
    ASSUME NEW in, NEW q \in Seq(Frames), NEW wr, NEW J, OnePlace(in, q, wr, J),
           NEW f \in Frames, NEW w, f.kind \in Settling => w \in J,
           NEW J2 \in SUBSET (J \ {w})
    PROVE  OnePlace(in, Append(q, f), wr, J2)
  <1>1. /\ Some(Append(q, f), Settling) <=> Some(q, Settling) \/ f.kind \in Settling
        /\ Once(q, Settling) /\ (f.kind \notin Settling \/ ~Some(q, Settling))
               => Once(Append(q, f), Settling)
    BY AppendElems
  <1>2. QED
    BY <1>1 DEF OnePlace

\* The queue becomes the next write.
LEMMA PlaceWrites ==
    ASSUME NEW in, NEW q, NEW J, OnePlace(in, q, <<>>, J)
    PROVE  OnePlace(in, <<>>, q, J)
  BY NothingInEmpty DEF OnePlace

-------------------------------------------------------------------------------
(***************************************************************************)
(* A connection for which requests and frames have only become fewer.      *)
(***************************************************************************)
Fewer(h) ==
    /\ Requested(h)' \subseteq Requested(h) /\ Replies(h)' \subseteq Replies(h)
    /\ pending'[h] = pending[h] /\ view'[h] = view[h] /\ sent <= sent'
    /\ h \in DOMAIN sessions' =>
           h \in DOMAIN sessions /\ sessions'[h].subscriptions = sessions[h].subscriptions
    /\ conn'[h] \in {"new", "handshaking"} => conn[h] \in {"new", "handshaking"}
    /\ Holders(h)' \subseteq Holders(h)
    /\ Some(inbox'[h], Control) => Some(inbox[h], Control)
    /\ Once(inbox[h], Control) => Once(inbox'[h], Control)
    /\ Some(queue'[h], Settling) => Some(queue[h], Settling)
    /\ Once(queue[h], Settling) => Once(queue'[h], Settling)
    /\ Some(wire'[h], Settling) => Some(wire[h], Settling)
    /\ Once(wire[h], Settling) => Once(wire'[h], Settling)

\* Its invariant is kept.
LEMMA FewerKeeps ==
    ASSUME NEW h \in Handles, ViewFor(h), Fewer(h), sent \in Nat, sent' \in Nat
    PROVE  ViewFor(h)'
  <1>1. ASSUME h \in DOMAIN sessions' PROVE GoodFor(h)'
    <2>1. GoodFor(h) /\ h \in DOMAIN sessions
      BY <1>1 DEF ViewFor, Fewer
    <2>2. OnePlace(inbox'[h], queue'[h], wire'[h], Holders(h)')
      BY <2>1, PlaceShrinks DEF GoodFor, Fewer
    <2>3. Flow(Requested(h)', Replies(h)', pending[h], view[h], sessions[h].subscriptions, sent')
      BY <2>1, FlowShrinks DEF GoodFor, Fewer
    <2>4. QED
      BY <1>1, <2>2, <2>3 DEF GoodFor, Fewer
  <1>2. ASSUME conn'[h] \in {"new", "handshaking"} PROVE Silent(h)'
    BY <1>2 DEF ViewFor, Fewer, Silent
  <1>3. QED
    BY <1>1, <1>2 DEF ViewFor

\* What a step that leaves the workers alone leaves of their part.
LEMMA JobsKept ==
    ASSUME UNCHANGED job, NEW h
    PROVE  /\ JobRequests(h)' = JobRequests(h) /\ JobFrames(h)' = JobFrames(h)
           /\ Holders(h)' = Holders(h)
  BY DEF JobRequests, JobFrames, Holders, Starters, Answerers

(***************************************************************************)
(* What a step of worker w that leaves it with job j changes: j is new,    *)
(* and what w had is gone.                                                 *)
(***************************************************************************)
StartsFor(j, h)  == j.pc = "started" /\ j.request.id[1] = h
AnswersFor(j, h) == j.pc = "answered" /\ j.frame.id[1] = h
Changes(w, j, h) ==
    /\ \A u \in Workers : job'[u] = IF u = w THEN j ELSE job[u]
    /\ \A x \in JobRequests(h)' : x \in JobRequests(h) \/ (StartsFor(j, h) /\ x = j.request)
    /\ \A f \in JobFrames(h)' : f \in JobFrames(h) \/ (AnswersFor(j, h) /\ f = j.frame)
    /\ \A u \in Holders(h)' :
           \/ u \in Holders(h) \ {w}
           \/ u = w /\ StartsFor(j, h) /\ j.request.kind \in Control
           \/ u = w /\ AnswersFor(j, h) /\ j.frame.kind \in Settling

LEMMA JobsChange ==
    ASSUME JobInv, NEW w \in Workers, NEW j, job' = [job EXCEPT ![w] = j], NEW h
    PROVE  Changes(w, j, h)
  <1>1. \A u \in Workers : job'[u] = IF u = w THEN j ELSE job[u]
    BY DEF JobInv
  <1>2. ASSUME NEW x \in JobRequests(h)', x \notin JobRequests(h)
        PROVE  StartsFor(j, h) /\ x = j.request
    BY <1>1, <1>2 DEF JobRequests, Starters, StartsFor
  <1>3. ASSUME NEW f \in JobFrames(h)', f \notin JobFrames(h)
        PROVE  AnswersFor(j, h) /\ f = j.frame
    BY <1>1, <1>3 DEF JobFrames, Answerers, AnswersFor
  <1>4. ASSUME NEW u \in Holders(h)'
        PROVE  \/ u \in Holders(h) \ {w}
               \/ u = w /\ StartsFor(j, h) /\ j.request.kind \in Control
               \/ u = w /\ AnswersFor(j, h) /\ j.frame.kind \in Settling
    BY <1>1, <1>4 DEF Holders, Starters, Answerers, StartsFor, AnswersFor
  <1>5. QED
    BY <1>1, <1>2, <1>3, <1>4 DEF Changes

\* A connection that a step has nothing to do with.
LEMMA Elsewhere ==
    ASSUME NEW h, UNCHANGED <<inbox[h], queue[h], wire[h], pending[h], view[h]>>, sent <= sent',
           JobRequests(h)' \subseteq JobRequests(h), JobFrames(h)' \subseteq JobFrames(h),
           Holders(h)' \subseteq Holders(h),
           h \in DOMAIN sessions' =>
               h \in DOMAIN sessions /\ sessions'[h].subscriptions = sessions[h].subscriptions,
           conn'[h] \in {"new", "handshaking"} => conn[h] \in {"new", "handshaking"}
    PROVE  Fewer(h)
  BY DEF Fewer, Requested, Replies

\* An empty sequence is one without elements.
LEMMA NoElems ==
    ASSUME NEW S, NEW s \in Seq(S), Elems(s) = {}
    PROVE  s = <<>>
  <1>1. Len(s) \in Nat /\ (Len(s) = 0 => s = <<>>)
    BY EmptySeq, LenProperties
  <1>2. 1 \in 1 .. Len(s) => s[1] \in Elems(s)
    BY DEF Elems
  <1>3. QED
    BY <1>1, <1>2

-------------------------------------------------------------------------------
(***************************************************************************)
(* The steps of ViewInv.  A connection starts out with nothing to read and *)
(* an empty list of subscriptions.                                         *)
(***************************************************************************)
LEMMA ViewConnects ==
    ASSUME IInv, BInv, ViewInv, NEW g \in Handles, Connects(g)
    PROVE  ViewInv'
  <1>1. UNCHANGED <<inbox, queue, wire, job, pending, view, sent>>
    BY DEF Connects, bridgeState, ioState, clientState
  <1>2. sent \in Nat /\ sent' \in Nat /\ sent <= sent'
    BY <1>1, PartTypes
  <1>3. ASSUME NEW h \in Handles,
               h \in DOMAIN sessions' =>
                   h \in DOMAIN sessions /\ sessions'[h].subscriptions = sessions[h].subscriptions,
               conn'[h] \in {"new", "handshaking"} => conn[h] \in {"new", "handshaking"}
        PROVE  ViewFor(h)'
    <2>1. Fewer(h)
      BY <1>1, <1>2, <1>3, JobsKept, Elsewhere
    <2>2. QED
      BY <1>2, <2>1, FewerKeeps DEF ViewInv
  <1>4. CASE OnValidate(g)
    <2>1. /\ \A h \in Handles : conn'[h] \in {"new", "handshaking"} => conn[h] \in {"new", "handshaking"}
          /\ UNCHANGED sessions
      BY <1>4 DEF OnValidate, registryVars, IInv, TypeOK
    <2>2. QED
      BY <1>3, <2>1 DEF ViewInv
  <1>5. CASE OnFail(g)
    <2>1. \A h \in Handles : conn'[h] \in {"new", "handshaking"} => conn[h] \in {"new", "handshaking"}
      BY <1>5 DEF OnFail, IInv, TypeOK
    <2>2. \A h \in DOMAIN sessions' : h \in DOMAIN sessions /\ sessions'[h] = sessions[h]
      BY <1>5 DEF OnFail, DropSession, Without, registryVars
    <2>3. QED
      BY <1>3, <2>1, <2>2 DEF ViewInv
  <1>6. CASE OnOpen(g)
    <2>1. PICK c \in ClientIds : sessions' = With(sessions, g, Session(c, {}))
      BY <1>6 DEF OnOpen, GenerateClientId
    <2>2. /\ conn[g] = "handshaking" /\ conn' = [conn EXCEPT ![g] = "open"]
          /\ conn \in [Handles -> ConnStates]
      BY <1>6 DEF OnOpen, IInv, TypeOK
    <2>3. ASSUME NEW h \in Handles, h # g PROVE ViewFor(h)'
      BY <1>3, <2>1, <2>2, <2>3 DEF With
    <2>4. ViewFor(g)'
      <3>1. Silent(g)
        BY <2>2 DEF ViewInv, ViewFor
      <3>2. /\ inbox[g] = <<>> /\ queue[g] = <<>> /\ wire[g] = <<>>
        BY <3>1, NoElems, PartTypes DEF Silent, Requested, Replies
      <3>3. Holders(g) = {}
        BY <3>1 DEF Silent, Requested, Replies, Holders, JobRequests, JobFrames
      <3>4. OnePlace(inbox[g], queue[g], wire[g], Holders(g))
        BY <3>2, <3>3, NothingInEmpty DEF OnePlace
      <3>5. sessions'[g].subscriptions = {}
        BY <2>1 DEF With, Session
      <3>6. Flow({}, {}, {}, {}, {}, sent)
        BY DEF Flow, Numbered, Agree, Awaited, Believes
      <3>7. /\ Requested(g)' = Requested(g) /\ Replies(g)' = Replies(g)
            /\ Holders(g)' = Holders(g)
        BY <1>1, JobsKept DEF Requested, Replies
      <3>8. GoodFor(g)'
        BY <1>1, <3>1, <3>4, <3>5, <3>6, <3>7 DEF GoodFor, Silent
      <3>9. conn'[g] = "open"
        BY <2>2
      <3>10. QED
        BY <3>8, <3>9 DEF ViewFor
    <2>5. QED
      BY <2>3, <2>4 DEF ViewInv
  <1>7. QED
    BY <1>4, <1>5, <1>6 DEF Connects

\* A connection that closes has no session any more.
LEMMA ViewCloses ==
    ASSUME IInv, IInv', BInv, ViewInv, NEW g \in Handles, Closes(g)
    PROVE  ViewInv'
  <1>1. /\ UNCHANGED <<job, sent>>
        /\ \A h \in Handles \ {g} : UNCHANGED <<inbox[h], queue[h], wire[h], pending[h], view[h]>>
    BY DEF Closes, BInv, InboxInv, OutInv, RestInv
  <1>2. conn' = [conn EXCEPT ![g] = "closed"] /\ conn \in [Handles -> ConnStates]
    BY DEF Closes, OnClose, IInv, TypeOK
  <1>3. \A h \in DOMAIN sessions' : h \in DOMAIN sessions /\ sessions'[h] = sessions[h]
    BY DEF Closes, OnClose, DropSession, Without, registryVars
  <1>4. ASSUME NEW h \in Handles, h # g PROVE ViewFor(h)'
    <2>1. sent \in Nat /\ sent' \in Nat /\ sent <= sent'
      BY <1>1, PartTypes
    <2>2. Fewer(h)
      BY <1>1, <1>2, <1>3, <1>4, <2>1, JobsKept, Elsewhere
    <2>3. QED
      BY <2>1, <2>2, FewerKeeps DEF ViewInv
  <1>5. ViewFor(g)'
    BY <1>2 DEF ViewFor, IInv, SessionsAreOpen
  <1>6. QED
    BY <1>4, <1>5 DEF ViewInv

-------------------------------------------------------------------------------
(***************************************************************************)
(* A step of connection g, or of a worker on its behalf, that leaves the   *)
(* other connections alone; or of a worker that only ends.                 *)
(***************************************************************************)
Alone(h) ==
    /\ UNCHANGED <<inbox[h], queue[h], wire[h], pending[h], view[h]>>
    /\ JobRequests(h)' \subseteq JobRequests(h) /\ JobFrames(h)' \subseteq JobFrames(h)
    /\ Holders(h)' \subseteq Holders(h)

LEMMA ViewOnlyOf ==
    ASSUME ViewInv, NEW g, sent \in Nat, sent' \in Nat, sent <= sent',
           UNCHANGED conn, DOMAIN sessions' = DOMAIN sessions,
           \A h \in DOMAIN sessions \ {g} : sessions'[h] = sessions[h],
           \A h \in Handles \ {g} : Alone(h),
           g \in Handles => ViewFor(g)'
    PROVE  ViewInv'
  <1>1. ASSUME NEW h \in Handles, h # g PROVE ViewFor(h)'
    <2>1. Fewer(h)
      BY <1>1, Elsewhere DEF Alone
    <2>2. QED
      BY <1>1, <2>1, FewerKeeps DEF ViewInv
  <1>2. QED
    BY <1>1 DEF ViewInv

\* The registry is left alone as well.
LEMMA ViewOnly ==
    ASSUME ViewInv, NEW g, UNCHANGED vars, sent \in Nat, sent' \in Nat, sent <= sent',
           \A h \in Handles \ {g} : Alone(h),
           g \in Handles => ViewFor(g)'
    PROVE  ViewInv'
  <1>1. UNCHANGED <<sessions, conn>>
    BY DEF vars, registryVars
  <1>2. QED
    BY <1>1, ViewOnlyOf

(***************************************************************************)
(* The client sends: if a subscription request, nothing of an earlier one  *)
(* is left anywhere.                                                       *)
(***************************************************************************)
LEMMA ViewClientSends ==
    ASSUME IInv, BInv, ViewInv, Pipelining = FALSE, NEW g \in Handles, ClientSends(g)
    PROVE  ViewInv'
  <1>1. PICK r \in Requests :
            /\ r.id = <<g, sent + 1>>
            /\ inbox' = [inbox EXCEPT ![g] = Append(@, r)]
            /\ r.kind \in Control => Unsettled(g) = {}
            /\ pending' = [pending EXCEPT ![g] = IF r.kind = "invalid" THEN @ ELSE @ \union {r}]
    BY DEF ClientSends
  <1>2. UNCHANGED <<vars, queue, wire, job, view>> /\ conn[g] = "open" /\ sent' = sent + 1
    BY DEF ClientSends
  <1>3. /\ inbox'[g] = Append(inbox[g], r)
        /\ pending'[g] = IF r.kind = "invalid" THEN pending[g] ELSE pending[g] \union {r}
        /\ \A h \in Handles \ {g} : UNCHANGED <<inbox[h], pending[h]>>
    BY <1>1 DEF BInv, InboxInv, RestInv
  <1>4. sent \in Nat /\ inbox[g] \in Seq(Requests)
    BY PartTypes
  <1>5. ASSUME g \in DOMAIN sessions PROVE GoodFor(g)'
    <2>1. GoodFor(g)
      BY <1>5 DEF ViewInv, ViewFor
    <2>2. /\ Requested(g)' = Requested(g) \union {r} /\ Replies(g)' = Replies(g)
          /\ Holders(g)' = Holders(g)
      <3>1. Elems(Append(inbox[g], r)) = Elems(inbox[g]) \union {r}
        BY <1>4, AppendElems
      <3>2. /\ JobRequests(g)' = JobRequests(g) /\ JobFrames(g)' = JobFrames(g)
            /\ Holders(g)' = Holders(g)
        BY <1>2, JobsKept
      <3>3. QED
        BY <1>2, <1>3, <3>1, <3>2 DEF Requested, Replies
    <2>3. r.kind \in Control => \A t \in pending[g] : t.kind \notin Control
      BY <1>1 DEF Unsettled
    <2>4. r.id # NoId /\ r.id[2] = sent + 1
      BY <1>1, RequestIds
    <2>5. pending'[g] = pending[g] \/ pending'[g] = pending[g] \union {r}
      BY <1>3
    <2>6. r.kind \in Control => pending'[g] = pending[g] \union {r}
      BY <1>3 DEF Control
    <2>7. Flow(Requested(g)', Replies(g)', pending'[g], view[g], sessions[g].subscriptions, sent')
      <3>1. Flow(Requested(g), Replies(g), pending[g], view[g], sessions[g].subscriptions, sent)
        BY <2>1 DEF GoodFor
      <3>2. Flow(Requested(g) \union {r}, Replies(g), pending'[g], view[g],
                 sessions[g].subscriptions, sent + 1)
        BY <1>4, <2>3, <2>4, <2>5, <2>6, <3>1, FlowSend
      <3>3. QED
        BY <1>2, <2>2, <3>2
    <2>8. ASSUME r.kind \in Control
          PROVE  /\ ~Some(inbox[g], Control) /\ ~Some(queue[g], Settling)
                 /\ ~Some(wire[g], Settling) /\ Holders(g) = {}
      <3>1. /\ \A x \in Requested(g) : x.kind \notin Control
            /\ \A f \in Replies(g) : f.kind \notin Settling
        BY <2>1, <2>3, <2>8 DEF GoodFor, Flow, Awaited
      <3>2. Holders(g) = {}
        BY <3>1 DEF Requested, Replies, JobRequests, JobFrames, Holders
      <3>3. QED
        BY <3>1, <3>2, SomeElem DEF Requested, Replies
    <2>9. OnePlace(Append(inbox[g], r), queue[g], wire[g], Holders(g))
      BY <1>4, <2>1, <2>8, PlaceSends DEF GoodFor
    <2>10. QED
      BY <1>2, <1>3, <2>2, <2>7, <2>9 DEF GoodFor, vars, registryVars
  <1>6. ViewFor(g)'
    BY <1>2, <1>5 DEF ViewFor, vars, registryVars
  <1>7. QED
    BY <1>2, <1>3, <1>4, <1>6, JobsKept, ViewOnly DEF Alone

\* A write takes the whole queue over.
LEMMA ViewStartWrite ==
    ASSUME BInv, ViewInv, NEW g \in Handles, StartWrite(g)
    PROVE  ViewInv'
  <1>1. UNCHANGED <<vars, inbox, job, sent, pending, view>> /\ wire[g] = <<>>
    BY DEF StartWrite, clientState
  <1>2. /\ wire'[g] = queue[g] /\ queue'[g] = <<>>
        /\ \A h \in Handles \ {g} : UNCHANGED <<queue[h], wire[h]>>
    BY DEF StartWrite, BInv, OutInv
  <1>3. sent \in Nat
    BY PartTypes
  <1>4. /\ Requested(g)' = Requested(g) /\ Replies(g)' \subseteq Replies(g)
        /\ Holders(g)' = Holders(g)
    BY <1>1, <1>2, JobsKept, NothingInEmpty DEF Requested, Replies
  <1>5. ASSUME g \in DOMAIN sessions PROVE GoodFor(g)'
    <2>1. GoodFor(g)
      BY <1>5 DEF ViewInv, ViewFor
    <2>2. Flow(Requested(g)', Replies(g)', pending[g], view[g], sessions[g].subscriptions, sent)
      BY <1>3, <1>4, <2>1, FlowShrinks DEF GoodFor
    <2>3. OnePlace(inbox[g], queue'[g], wire'[g], Holders(g))
      BY <1>1, <1>2, <2>1, PlaceWrites DEF GoodFor
    <2>4. QED
      BY <1>1, <1>4, <2>2, <2>3 DEF GoodFor, vars, registryVars
  <1>6. ViewFor(g)'
    BY <1>1, <1>4, <1>5 DEF ViewFor, ViewInv, Silent, vars, registryVars
  <1>7. QED
    BY <1>1, <1>2, <1>3, <1>6, JobsKept, ViewOnly DEF Alone

(***************************************************************************)
(* The client reads: an answer to its subscription request is the last     *)
(* thing of that request.                                                  *)
(***************************************************************************)
LEMMA ViewDelivers ==
    ASSUME BInv, ViewInv, NEW g \in Handles, Deliver(g)
    PROVE  ViewInv'
  <1> DEFINE f == Head(wire[g])
             G == Replies(g)'
  <1>1. /\ UNCHANGED <<vars, inbox, queue, job, sent>> /\ wire[g] # <<>>
        /\ wire'[g] = Tail(wire[g])
        /\ pending'[g] = Remaining(pending[g], f)
        /\ view'[g] = IF f.kind = "ack" THEN f.events ELSE view[g]
        /\ \A h \in Handles \ {g} : UNCHANGED <<wire[h], pending[h], view[h]>>
    BY DEF Deliver, BInv, OutInv, RestInv, Remaining
  <1>2. sent \in Nat /\ wire[g] \in Seq(Frames)
    BY PartTypes
  <1>3. /\ f \in Elems(wire[g]) /\ Elems(wire'[g]) \subseteq Elems(wire[g])
        /\ Some(wire'[g], Settling) => Some(wire[g], Settling)
        /\ Once(wire[g], Settling) => Once(wire'[g], Settling)
        /\ Once(wire[g], Settling) /\ f.kind \in Settling => ~Some(wire'[g], Settling)
    BY <1>1, <1>2, TailElems
  <1>4. /\ Requested(g)' = Requested(g) /\ G \subseteq Replies(g) /\ f \in Replies(g)
        /\ Holders(g)' = Holders(g)
    BY <1>1, <1>3, JobsKept DEF Requested, Replies
  <1>5. ASSUME g \in DOMAIN sessions PROVE GoodFor(g)'
    <2>1. /\ OnePlace(inbox[g], queue[g], wire[g], Holders(g))
          /\ Flow(Requested(g), Replies(g), pending[g], view[g], sessions[g].subscriptions, sent)
      BY <1>5 DEF ViewInv, ViewFor, GoodFor
    <2>2. OnePlace(inbox[g], queue[g], wire'[g], Holders(g))
      BY <1>3, <2>1, PlaceShrinks
    <2>3. CASE f.kind \notin Settling
      <3>1. view'[g] = view[g]
        BY <1>1, <2>3 DEF Settling
      <3>2. Flow(Requested(g), G, Remaining(pending[g], f), view[g],
                 sessions[g].subscriptions, sent)
        BY <1>2, <1>4, <2>1, <2>3, FlowReadsOther
      <3>3. QED
        BY <1>1, <1>4, <2>2, <3>1, <3>2 DEF GoodFor, vars, registryVars
    <2>4. CASE f.kind \in Settling
      <3>1. Some(wire[g], Settling)
        BY <1>3, <2>4, SomeElem
      <3>2. /\ ~Some(inbox[g], Control) /\ ~Some(queue[g], Settling)
            /\ ~Some(wire'[g], Settling) /\ Holders(g) = {}
        BY <1>3, <2>1, <2>4, <3>1 DEF OnePlace
      <3>3. \A r \in Requested(g) : r.kind \notin Control
        <4>1. \A r \in JobRequests(g) : r.kind \notin Control
          BY <3>2 DEF JobRequests, Holders
        <4>2. QED
          BY <3>2, <4>1, SomeElem DEF Requested
      <3>4. \A e \in G : e.kind \notin Settling
        <4>1. JobFrames(g)' = JobFrames(g)
          BY <1>1, JobsKept
        <4>2. \A e \in JobFrames(g) : e.kind \notin Settling
          BY <3>2 DEF JobFrames, Holders
        <4>3. G = Elems(queue[g]) \union Elems(wire'[g]) \union JobFrames(g)
          BY <1>1, <4>1 DEF Replies
        <4>4. QED
          BY <3>2, <4>2, <4>3, SomeElem
      <3>5. Flow(Requested(g), G, Remaining(pending[g], f),
                 IF f.kind = "ack" THEN f.events ELSE view[g], sessions[g].subscriptions, sent)
        BY <1>2, <1>4, <2>1, <2>4, <3>3, <3>4, FlowReadsAnswer
      <3>6. QED
        BY <1>1, <1>4, <2>2, <3>5 DEF GoodFor, vars, registryVars
    <2>5. QED
      BY <2>3, <2>4
  <1>6. conn'[g] = conn[g] /\ sessions' = sessions
    BY <1>1 DEF vars, registryVars
  <1>7. conn[g] \notin {"new", "handshaking"}
    BY <1>4 DEF ViewInv, ViewFor, Silent
  <1>8. ViewFor(g)'
    BY <1>5, <1>6, <1>7 DEF ViewFor
  <1>9. QED
    BY <1>1, <1>2, <1>8, JobsKept, ViewOnly DEF Alone

-------------------------------------------------------------------------------
(***************************************************************************)
(* OnMessage.  A refused request is gone; a dispatched one has moved.      *)
(***************************************************************************)
LEMMA ViewDispatches ==
    ASSUME IInv, BInv, ViewInv, NEW g \in DOMAIN sessions, g \in Handles, inbox[g] # <<>>,
           inbox' = [inbox EXCEPT ![g] = Tail(@)], UNCHANGED <<vars, wire, pusher, clientState>>,
           Dispatch(g, Head(inbox[g]))
    PROVE  ViewInv'
  <1> DEFINE r == Head(inbox[g])
             j == [pc |-> "started", request |-> r, client |-> sessions[g].clientId]
  <1>1. PICK w \in Workers \ Busy : job' = [job EXCEPT ![w] = j]
    BY DEF Dispatch
  <1>2. /\ UNCHANGED <<queue, wire, sent, pending, view>>
        /\ inbox'[g] = Tail(inbox[g])
        /\ \A h \in Handles \ {g} : UNCHANGED inbox[h]
    BY DEF Dispatch, clientState, BInv, InboxInv
  <1>3. sent \in Nat /\ inbox[g] \in Seq(Requests)
    BY PartTypes
  <1>4. r \in Requests /\ r.id[1] = g
    BY InboxHead DEF BInv
  <1>5. r \in Elems(inbox[g]) /\ Elems(inbox'[g]) \subseteq Elems(inbox[g])
    BY <1>2, <1>3, TailElems
  <1>6. ASSUME NEW h \in Handles
        PROVE  /\ \A x \in JobRequests(h)' : x \in JobRequests(h) \/ (h = g /\ x = r)
               /\ JobFrames(h)' \subseteq JobFrames(h)
               /\ \A u \in Holders(h)' :
                      u \in Holders(h) \/ (h = g /\ u = w /\ r.kind \in Control)
    <2>1. JobInv
      BY DEF BInv
    <2>2. Changes(w, j, h)
      BY <1>1, <2>1, JobsChange
    <2>3. (StartsFor(j, h) => h = g) /\ ~AnswersFor(j, h)
      BY <1>4 DEF StartsFor, AnswersFor
    <2>4. QED
      BY <2>2, <2>3 DEF Changes
  <1>7. Requested(g)' \subseteq Requested(g) /\ Replies(g)' \subseteq Replies(g)
    BY <1>2, <1>5, <1>6 DEF Requested, Replies
  <1>8. GoodFor(g)'
    <2>1. /\ OnePlace(inbox[g], queue[g], wire[g], Holders(g))
          /\ Flow(Requested(g), Replies(g), pending[g], view[g], sessions[g].subscriptions, sent)
      BY DEF ViewInv, ViewFor, GoodFor
    <2>2. Flow(Requested(g)', Replies(g)', pending[g], view[g], sessions[g].subscriptions, sent)
      BY <1>3, <1>7, <2>1, FlowShrinks
    <2>3. /\ Holders(g)' \subseteq Holders(g) \union {w}
          /\ r.kind \notin Control => Holders(g)' \subseteq Holders(g)
      BY <1>6
    <2>4. OnePlace(Tail(inbox[g]), queue[g], wire[g], Holders(g)')
      BY <1>3, <2>1, <2>3, PlaceStarts
    <2>5. QED
      BY <1>2, <2>2, <2>4 DEF GoodFor, vars, registryVars
  <1>9. conn[g] = "open" /\ UNCHANGED <<conn, sessions>>
    BY DEF IInv, SessionsAreOpen, vars, registryVars
  <1>10. ViewFor(g)'
    BY <1>8, <1>9 DEF ViewFor
  <1>11. \A h \in Handles \ {g} : Alone(h)
    BY <1>2, <1>6 DEF Alone
  <1>12. QED
    BY <1>2, <1>3, <1>10, <1>11, ViewOnly

\* An error or a pong is queued, and no other answer was to come.
LEMMA ViewRefuses ==
    ASSUME IInv, BInv, ViewInv, NEW g \in DOMAIN sessions, g \in Handles, inbox[g] # <<>>,
           inbox' = [inbox EXCEPT ![g] = Tail(@)], UNCHANGED <<vars, wire, pusher, clientState>>,
           UNCHANGED job, NEW f \in Frames, Send(g, f), f.kind \notin Settling,
           f.id = NoId \/ (f.id = Head(inbox[g]).id /\ Head(inbox[g]).kind \notin Control)
    PROVE  ViewInv'
  <1> DEFINE r == Head(inbox[g])
  <1>1. /\ UNCHANGED <<wire, sent, pending, view>>
        /\ inbox'[g] = Tail(inbox[g]) /\ queue'[g] = Append(queue[g], f)
        /\ \A h \in Handles \ {g} : UNCHANGED <<inbox[h], queue[h]>>
    BY DEF Send, clientState, BInv, InboxInv, OutInv
  <1>2. sent \in Nat /\ inbox[g] \in Seq(Requests) /\ queue[g] \in Seq(Frames)
    BY PartTypes
  <1>3. /\ r \in Elems(inbox[g]) /\ Elems(inbox'[g]) \subseteq Elems(inbox[g])
        /\ Some(inbox'[g], Control) => Some(inbox[g], Control)
        /\ Once(inbox[g], Control) => Once(inbox'[g], Control)
    BY <1>1, <1>2, TailElems
  <1>4. /\ Elems(queue'[g]) = Elems(queue[g]) \union {f}
        /\ Some(queue'[g], Settling) => Some(queue[g], Settling)
        /\ Once(queue[g], Settling) => Once(queue'[g], Settling)
    BY <1>1, <1>2, AppendElems
  <1>5. /\ JobRequests(g)' = JobRequests(g) /\ JobFrames(g)' = JobFrames(g)
        /\ Holders(g)' = Holders(g)
    BY JobsKept
  <1>6. /\ Requested(g)' \subseteq Requested(g) /\ r \in Requested(g)
        /\ \A e \in Replies(g)' : e \in Replies(g) \/ e = f
    BY <1>1, <1>3, <1>4, <1>5 DEF Requested, Replies
  <1>7. GoodFor(g)'
    <2>1. /\ OnePlace(inbox[g], queue[g], wire[g], Holders(g))
          /\ Flow(Requested(g), Replies(g), pending[g], view[g], sessions[g].subscriptions, sent)
      BY DEF ViewInv, ViewFor, GoodFor
    <2>2. Flow(Requested(g)', Replies(g)', pending[g], view[g], sessions[g].subscriptions, sent)
      BY <1>2, <1>6, <2>1, FlowOther
    <2>3. OnePlace(inbox'[g], queue'[g], wire[g], Holders(g))
      BY <1>3, <1>4, <2>1, PlaceShrinks
    <2>4. QED
      BY <1>1, <1>5, <2>2, <2>3 DEF GoodFor, vars, registryVars
  <1>8. conn[g] = "open" /\ UNCHANGED <<conn, sessions>>
    BY DEF IInv, SessionsAreOpen, vars, registryVars
  <1>9. ViewFor(g)'
    BY <1>7, <1>8 DEF ViewFor
  <1>10. QED
    BY <1>1, <1>2, <1>9, JobsKept, ViewOnly DEF Alone

\* The handler as a whole; without a session the invariant asks for nothing.
LEMMA ViewOnMessage ==
    ASSUME IInv, BInv, ViewInv, NEW g \in Handles, OnMessage(g)
    PROVE  ViewInv'
  <1> DEFINE r == Head(inbox[g])
  <1>1. /\ conn[g] = "open" /\ inbox[g] # <<>>
        /\ inbox' = [inbox EXCEPT ![g] = Tail(@)]
        /\ UNCHANGED <<vars, wire, pusher, clientState>>
    BY DEF OnMessage
  <1>2. Frame(NoId, "error", {}) \in Frames /\ Frame(NoId, "error", {}).kind \notin Settling
        /\ Frame(NoId, "error", {}).id = NoId
    BY FrameTypes DEF Frame, Settling
  <1>3. CASE g \in DOMAIN sessions /\ Dispatch(g, r)
    BY <1>1, <1>3, ViewDispatches
  <1>4. CASE g \in DOMAIN sessions /\ (Refuse(g, r) \/ Overload(g, r))
    <2>1. Send(g, Frame(NoId, "error", {})) /\ UNCHANGED job
      BY <1>4 DEF Refuse, Overload
    <2>2. QED
      BY <1>1, <1>2, <1>4, <2>1, ViewRefuses
  <1>5. CASE g \in DOMAIN sessions /\ Pong(g, r)
    <2> DEFINE f == Frame(r.id, "pong", {})
    <2>1. Send(g, f) /\ UNCHANGED job /\ r.kind \notin Control
      BY <1>5 DEF Pong, Control
    <2>2. r.id \in Ids
      BY <1>1, InboxHead, RequestEvents DEF BInv
    <2>3. f \in Frames /\ f.id = r.id /\ f.kind \notin Settling
      BY <2>2, FrameTypes DEF Frame, Settling
    <2>4. QED
      BY <1>1, <1>5, <2>1, <2>3, ViewRefuses
  <1>6. CASE g \notin DOMAIN sessions
    <2>1. UNCHANGED <<queue, job, sent, pending, view>>
      BY <1>6 DEF OnMessage, clientState
    <2>2. \A h \in Handles \ {g} : UNCHANGED inbox[h]
      BY <1>1 DEF BInv, InboxInv
    <2>3. ViewFor(g)'
      BY <1>1, <1>6 DEF ViewFor, vars, registryVars
    <2>4. sent \in Nat
      BY PartTypes
    <2>5. QED
      BY <1>1, <2>1, <2>2, <2>3, <2>4, JobsKept, ViewOnly DEF Alone
  <1>7. QED
    BY <1>3, <1>4, <1>5, <1>6 DEF OnMessage

-------------------------------------------------------------------------------
(***************************************************************************)
(* Workers.  One that stops, with or without an answer, takes its job out  *)
(* of the world.                                                           *)
(***************************************************************************)
LEMMA ViewDrops ==
    ASSUME BInv, ViewInv, NEW w \in Workers, NEW j, j.pc \in {"free", "ended"},
           \A h : Changes(w, j, h),
           UNCHANGED vars, UNCHANGED ioState, UNCHANGED clientState
    PROVE  ViewInv'
  <1>1. ASSUME NEW h \in Handles PROVE Alone(h)
    <2>1. Changes(w, j, h)
      OBVIOUS
    <2>2. ~StartsFor(j, h) /\ ~AnswersFor(j, h)
      BY DEF StartsFor, AnswersFor
    <2>3. UNCHANGED <<inbox, queue, wire, pending, view>>
      BY DEF ioState, clientState
    <2>4. QED
      BY <2>1, <2>2, <2>3 DEF Changes, Alone
  <1>2. UNCHANGED sent
    BY DEF clientState
  <1>3. ASSUME NEW h \in Handles PROVE ViewFor(h)'
    <2>1. UNCHANGED <<sessions, conn>>
      BY DEF vars, registryVars
    <2>2. sent \in Nat
      BY PartTypes
    <2>3. Fewer(h)
      BY <1>1, <1>2, <2>1, <2>2, Elsewhere DEF Alone
    <2>4. QED
      BY <1>2, <2>2, <2>3, FewerKeeps DEF ViewInv
  <1>4. QED
    BY <1>3 DEF ViewInv

\* What the answer f to request r does to what belongs to connection g.
LEMMA AnswerFlow ==
    ASSUME sent \in Nat, NEW g, NEW t,
           Flow(Requested(g), Replies(g), pending[g], view[g], sessions[g].subscriptions, sent),
           NEW r \in Requested(g), NEW f, f.id = r.id,
           Requested(g)' \in SUBSET Requested(g),
           \A e \in Replies(g)' : e \in Replies(g) \/ e = f,
           \/ /\ r.kind \notin Control /\ f.kind \notin Settling
              /\ t = sessions[g].subscriptions
           \/ /\ r.kind \in Control
              /\ \A e \in Replies(g) : e.kind \notin Settling
              /\ \A x \in Requested(g)' : x.kind \notin Control
              /\ \/ f.kind = "ack" /\ f.events = t
                 \/ f.kind = "nack" /\ t = sessions[g].subscriptions
    PROVE  Flow(Requested(g)', Replies(g)', pending[g], view[g], t, sent)
  <1>1. CASE r.kind \notin Control
    BY <1>1, FlowOther
  <1>2. CASE r.kind \in Control
    BY <1>2, FlowSettles
  <1>3. QED
    BY <1>1, <1>2

(***************************************************************************)
(* One that has its answer: to a subscription request, then there is no    *)
(* other, and the list in it is the server's; or to another request.       *)
(***************************************************************************)
LEMMA ViewAnswers ==
    ASSUME IInv, BInv, ViewInv, NEW w \in Workers, job[w].pc = "started",
           NEW r, r = job[w].request, NEW g, w \in Starters(g),
           UNCHANGED <<ioState, clientState>>, UNCHANGED conn,
           DOMAIN sessions' = DOMAIN sessions,
           \A h \in DOMAIN sessions \ {g} : sessions'[h] = sessions[h],
           NEW k, NEW E, Answer(w, k, E), NEW f, f = Frame(r.id, k, E),
           \/ k = "ack" /\ r.kind \in Control /\ E = sessions'[g].subscriptions
           \/ k = "nack" /\ r.kind \in Control /\ sessions' = sessions
           \/ k = "response" /\ r.kind \notin Control /\ sessions' = sessions
    PROVE  ViewInv'
  <1> DEFINE j == [pc |-> "answered", client |-> job[w].client, frame |-> f]
  <1>1. JobInv /\ job' = [job EXCEPT ![w] = j]
    BY DEF BInv, Answer
  <1>2. f.id = r.id /\ f.kind = k /\ f.events = E
    BY DEF Frame
  <1>3. \A h : Changes(w, j, h) /\ ~StartsFor(j, h) /\ (AnswersFor(j, h) => h = g)
    BY <1>1, <1>2, JobsChange DEF StartsFor, AnswersFor, Starters
  <1>4. UNCHANGED <<inbox, queue, wire, pending, view, sent>>
    BY DEF ioState, clientState
  <1>5. \A h \in Handles \ {g} : Alone(h)
    <2>1. ASSUME NEW h \in Handles, h # g PROVE Alone(h)
      <3>1. Changes(w, j, h) /\ ~StartsFor(j, h) /\ ~AnswersFor(j, h)
        BY <1>3, <2>1
      <3>2. QED
        BY <1>4, <3>1 DEF Changes, Alone
    <2>2. QED
      BY <2>1
  <1>6. r \in Requests /\ w \in Starters(g) /\ r \in Requested(g)
    <2>1. job[w] \in Jobs
      BY <1>1 DEF JobInv
    <2>2. r \in Requests
      BY <2>1, JobKinds
    <2>3. QED
      BY <2>2 DEF Starters, Requested, JobRequests
  <1>7. /\ Requested(g)' \subseteq Requested(g)
        /\ \A e \in Replies(g)' : e \in Replies(g) \/ e = f
        /\ \A u \in Holders(g)' : u \in Holders(g) \/ (u = w /\ k \in Settling)
    <2>1. Changes(w, j, g) /\ ~StartsFor(j, g)
      BY <1>3
    <2>2. QED
      BY <1>2, <1>4, <2>1 DEF Changes, Requested, Replies
  <1>8. ASSUME g \in DOMAIN sessions, g \in Handles PROVE GoodFor(g)'
    <2>0. sent \in Nat
      BY <1>8, PartTypes
    <2>1. /\ OnePlace(inbox[g], queue[g], wire[g], Holders(g))
          /\ Flow(Requested(g), Replies(g), pending[g], view[g], sessions[g].subscriptions, sent)
      BY <1>8 DEF ViewInv, ViewFor, GoodFor
    <2>2. CASE k = "response" /\ r.kind \notin Control /\ sessions' = sessions
      <3>1. f.kind \notin Settling
        BY <1>2, <2>2 DEF Settling
      <3>2. Flow(Requested(g)', Replies(g)', pending[g], view[g],
                 sessions[g].subscriptions, sent)
        BY <1>2, <1>6, <1>7, <2>0, <2>1, <2>2, <3>1, AnswerFlow
      <3>3. Holders(g)' \subseteq Holders(g)
        BY <1>7, <2>2 DEF Settling
      <3>4. OnePlace(inbox[g], queue[g], wire[g], Holders(g)')
        BY <2>1, <3>3, PlaceShrinks
      <3>5. QED
        BY <1>4, <2>2, <3>2, <3>4 DEF GoodFor
    <2>3. CASE r.kind \in Control /\ k \in Settling
      <3>1. w \in Holders(g) /\ Holders(g)' \subseteq Holders(g)
        BY <1>6, <1>7, <2>3 DEF Holders
      <3>2. /\ ~Some(inbox[g], Control) /\ ~Some(queue[g], Settling)
            /\ ~Some(wire[g], Settling) /\ Holders(g) = {w}
        BY <2>1, <3>1 DEF OnePlace
      <3>3. \A e \in Replies(g) : e.kind \notin Settling
        <4>1. \A u \in Answerers(g) : u # w
          BY DEF Answerers
        <4>2. \A e \in JobFrames(g) : e.kind \notin Settling
          BY <3>2, <4>1 DEF JobFrames, Holders
        <4>3. QED
          BY <3>2, <4>2, SomeElem DEF Replies
      <3>4. \A x \in Requested(g)' : x.kind \notin Control
        <4>1. job'[w] = j
          BY <1>1 DEF JobInv
        <4>2. \A u \in Starters(g)' : u # w
          BY <4>1 DEF Starters
        <4>3. \A u \in Starters(g)' : job'[u].request.kind \notin Control
          BY <3>1, <3>2, <4>2 DEF Holders
        <4>4. \A x \in JobRequests(g)' : x.kind \notin Control
          BY <4>3 DEF JobRequests
        <4>5. QED
          BY <1>4, <3>2, <4>4, SomeElem DEF Requested
      <3>5. \/ f.kind = "ack" /\ f.events = sessions'[g].subscriptions
            \/ f.kind = "nack" /\ sessions'[g].subscriptions = sessions[g].subscriptions
        BY <1>2, <2>3
      <3>6. Flow(Requested(g)', Replies(g)', pending[g], view[g],
                 sessions'[g].subscriptions, sent)
        BY <1>2, <1>6, <1>7, <2>0, <2>1, <2>3, <3>3, <3>4, <3>5, AnswerFlow
      <3>7. OnePlace(inbox[g], queue[g], wire[g], Holders(g)')
        BY <2>1, <3>1, PlaceShrinks
      <3>8. QED
        BY <1>4, <3>6, <3>7 DEF GoodFor
    <2>4. QED
      BY <2>2, <2>3 DEF Settling
  <1>9. ASSUME g \in Handles PROVE ViewFor(g)'
    <2>1. conn[g] \notin {"new", "handshaking"}
      BY <1>6, <1>9 DEF ViewInv, ViewFor, Silent
    <2>2. QED
      BY <1>8, <1>9, <2>1 DEF ViewFor
  <1>10. sent \in Nat
    BY BridgeAssumption DEF BInv, RestInv
  <1>11. QED
    BY <1>4, <1>5, <1>9, <1>10, ViewOnlyOf

\* Processing a request changes the subscriptions of its own client at most.
LEMMA ViewProcesses ==
    ASSUME IInv, BInv, ViewInv, NEW w \in Workers, Process(w)
    PROVE  ViewInv'
  <1>1. job[w].pc = "started" /\ UNCHANGED <<ioState, clientState>>
    BY DEF Process
  <1>2. PICK r : r = job[w].request
    OBVIOUS
  <1>3. PICK c : c = job[w].client
    OBVIOUS
  <1>4. PICK g : w \in Starters(g)
    BY <1>1 DEF Starters
  <1>5. CASE /\ r.kind \in {"subscribe", "unsubscribe"}
             /\ Subscribe(c, r.events) \/ Unsubscribe(c, r.events)
             /\ Answer(w, "ack", sessions'[clientIdToHdl[c]].subscriptions)
    <2>1. Known(c) /\ UNCHANGED <<conn, clientIdToHdl>>
      BY <1>5 DEF Subscribe, Unsubscribe
    <2>2. clientIdToHdl[c] = g
      <3>1. Serves(w) /\ Asker(w) = clientIdToHdl[c]
        BY <1>1, <1>3, <2>1 DEF Serves, Asker, Known
      <3>2. QED
        BY <1>1, <1>4, <3>1 DEF BInv, JobInv, Starters
    <2>3. PICK S : sessions' = [sessions EXCEPT ![g].subscriptions = S]
      BY <1>5, <2>2 DEF Subscribe, Unsubscribe
    <2>4. /\ DOMAIN sessions' = DOMAIN sessions
          /\ \A h \in DOMAIN sessions \ {g} : sessions'[h] = sessions[h]
      BY <2>3
    <2>5. PICK E : E = sessions'[g].subscriptions
      OBVIOUS
    <2>6. PICK f : f = Frame(r.id, "ack", E)
      OBVIOUS
    <2>7. Answer(w, "ack", E) /\ r.kind \in Control
      BY <1>5, <2>2, <2>5 DEF Control
    <2>8. QED
      BY <1>1, <1>2, <1>4, <2>1, <2>4, <2>5, <2>6, <2>7, ViewAnswers
  <1>6. CASE /\ UNCHANGED vars
             /\ \/ Answer(w, "nack", {}) /\ r.kind \in Control
                \/ Answer(w, "response", {}) /\ r.kind \notin Control
    <2>1. UNCHANGED <<conn, sessions>>
      BY <1>6 DEF vars, registryVars
    <2>2. CASE Answer(w, "nack", {}) /\ r.kind \in Control
      <3>1. PICK f : f = Frame(r.id, "nack", {})
        OBVIOUS
      <3>2. QED
        BY <1>1, <1>2, <1>4, <2>1, <2>2, <3>1, ViewAnswers
    <2>3. CASE Answer(w, "response", {}) /\ r.kind \notin Control
      <3>1. PICK f : f = Frame(r.id, "response", {})
        OBVIOUS
      <3>2. QED
        BY <1>1, <1>2, <1>4, <2>1, <2>3, <3>1, ViewAnswers
    <2>4. QED
      BY <1>6, <2>2, <2>3
  <1>7. CASE ProcessSubscription(w)
    <2>1. \/ /\ r.kind \in {"subscribe", "unsubscribe"}
             /\ Subscribe(c, r.events) \/ Unsubscribe(c, r.events)
             /\ Answer(w, "ack", sessions'[clientIdToHdl[c]].subscriptions)
          \/ /\ r.kind \in {"subscribe", "unsubscribe"}
             /\ UnknownClient(c) /\ Answer(w, "nack", {})
      BY <1>2, <1>3, <1>7 DEF ProcessSubscription
    <2>2. QED
      BY <1>5, <1>6, <2>1 DEF UnknownClient, Control
  <1>8. CASE ProcessOther(w)
    BY <1>2, <1>6, <1>8 DEF ProcessOther, Control
  <1>9. QED
    BY <1>7, <1>8 DEF Process

(***************************************************************************)
(* An answer is routed: to nobody, or to the one whose request it answers, *)
(* where it waits in the queue instead of in the worker's hands.           *)
(***************************************************************************)
LEMMA ViewRoutes ==
    ASSUME IInv, BInv, ViewInv, NEW w \in Workers, Route(w)
    PROVE  ViewInv'
  <1>1. /\ job[w].pc = "answered" /\ job' = [job EXCEPT ![w] = [pc |-> "ended"]]
        /\ RouteOutgoing(job[w].client, job[w].frame)
        /\ UNCHANGED <<vars, inbox, wire, clientState>>
    BY DEF Route
  <1>2. CASE UNCHANGED queue
    <2>1. PICK j : j = [pc |-> "ended"]
      OBVIOUS
    <2>2. /\ UNCHANGED vars /\ UNCHANGED ioState /\ UNCHANGED clientState
          /\ j.pc \in {"free", "ended"}
      BY <1>1, <1>2, <2>1 DEF ioState
    <2>3. \A h : Changes(w, j, h)
      BY <1>1, <2>1, JobsChange DEF BInv
    <2>4. QED
      BY <2>2, <2>3, ViewDrops
  <1>3. CASE queue' # queue
    <2> DEFINE j == [pc |-> "ended"]
    <2>1. PICK f : f = job[w].frame
      OBVIOUS
    <2>2. PICK a : a = Asker(w)
      OBVIOUS
    <2>3. JobInv /\ OutInv
      BY DEF BInv
    <2>4. job[w].client # NoClient /\ f \in Answers
      BY <1>1, <2>1, <2>3, JobKinds, BridgeAssumption DEF JobInv, IInv, TypeOK
    <2>5. Serves(w) /\ Send(a, f)
      BY <1>1, <1>3, <2>1, <2>2, <2>4 DEF RouteOutgoing, Serves, Asker
    <2>6. f \in FramesOf(a)
      BY <1>1, <2>1, <2>2, <2>3, <2>5 DEF JobInv
    <2>7. f \in Frames /\ f.id # NoId
      <3>1. PICK b \in Handles, i \in 1 .. MaxRequests : f.id = <<b, i>>
        BY <2>4 DEF Answers, Ids
      <3>2. Len(<<b, i>>) = 2 /\ Len(<<>>) = 0
        OBVIOUS
      <3>3. QED
        BY <2>4, <3>1, <3>2 DEF Frames, NoId
    <2>8. w \in Answerers(a)
      BY <1>1, <2>1, <2>6, <2>7 DEF Answerers, FramesOf
    <2>9. a \in Handles
      BY <1>3, <2>3, <2>5 DEF Send, OutInv
    <2>10. /\ UNCHANGED <<inbox, wire, sent, pending, view>>
           /\ queue'[a] = Append(queue[a], f)
           /\ \A h \in Handles \ {a} : UNCHANGED queue[h]
      BY <1>1, <2>3, <2>5, <2>9 DEF Send, OutInv, clientState
    <2>11. ASSUME NEW h
           PROVE  /\ JobRequests(h)' \subseteq JobRequests(h)
                  /\ JobFrames(h)' \subseteq JobFrames(h)
                  /\ Holders(h)' \subseteq Holders(h) \ {w}
      <3>1. Changes(w, j, h)
        BY <1>1, <2>3, JobsChange
      <3>2. QED
        BY <3>1 DEF Changes, StartsFor, AnswersFor
    <2>12. sent \in Nat /\ queue[a] \in Seq(Frames)
      BY <2>9, PartTypes
    <2>13. Elems(queue'[a]) = Elems(queue[a]) \union {f}
      <3>1. Elems(Append(queue[a], f)) = Elems(queue[a]) \union {f}
        BY <2>7, <2>12, AppendElems
      <3>2. QED
        BY <2>10, <3>1
    <2>14. f \in JobFrames(a) /\ f \in Replies(a)
      BY <2>1, <2>8 DEF JobFrames, Replies
    <2>15. Requested(a)' \subseteq Requested(a) /\ Replies(a)' \subseteq Replies(a)
      BY <2>10, <2>11, <2>13, <2>14 DEF Requested, Replies
    <2>16. ASSUME a \in DOMAIN sessions PROVE GoodFor(a)'
      <3>1. /\ OnePlace(inbox[a], queue[a], wire[a], Holders(a))
            /\ Flow(Requested(a), Replies(a), pending[a], view[a], sessions[a].subscriptions, sent)
        BY <2>9, <2>16 DEF ViewInv, ViewFor, GoodFor
      <3>2. Flow(Requested(a)', Replies(a)', pending[a], view[a], sessions[a].subscriptions, sent)
        BY <2>12, <2>15, <3>1, FlowShrinks
      <3>3. f.kind \in Settling => w \in Holders(a)
        BY <2>1, <2>8 DEF Holders
      <3>4. OnePlace(inbox[a], Append(queue[a], f), wire[a], Holders(a)')
        BY <2>7, <2>11, <2>12, <3>1, <3>3, PlaceRoutes
      <3>5. QED
        BY <1>1, <2>10, <3>2, <3>4 DEF GoodFor, vars, registryVars
    <2>17. conn[a] \notin {"new", "handshaking"}
      BY <2>9, <2>14 DEF ViewInv, ViewFor, Silent
    <2>18. ViewFor(a)'
      BY <1>1, <2>16, <2>17 DEF ViewFor, vars, registryVars
    <2>19. \A h \in Handles \ {a} : Alone(h)
      BY <2>10, <2>11 DEF Alone
    <2>20. QED
      BY <1>1, <2>10, <2>12, <2>18, <2>19, ViewOnly
  <1>4. QED
    BY <1>2, <1>3

-------------------------------------------------------------------------------
\* Pushes answer no request.
LEMMA ViewBroadcasts ==
    ASSUME IInv, BInv, ViewInv, NEW e \in Events, Broadcast(e)
    PROVE  ViewInv'
  <1>1. PICK f : f = Frame(NoId, "push", {e})
    OBVIOUS
  <1>2. f \in Frames /\ f.id = NoId /\ f.kind \notin Settling
    BY <1>1, FrameTypes DEF Frame, Settling
  <1>3. UNCHANGED <<conn, sessions, inbox, wire, job, pending, view, sent>>
    BY DEF Broadcast, vars, registryVars, clientState
  <1>4. \A h \in Handles : \/ queue'[h] = queue[h]
                           \/ h \in DOMAIN sessions /\ queue'[h] = Append(queue[h], f)
    BY <1>1 DEF Broadcast, Recipients
  <1>5. ASSUME NEW h \in Handles PROVE ViewFor(h)'
    <2>1. sent \in Nat /\ queue[h] \in Seq(Frames) /\ sent <= sent'
      BY <1>3, PartTypes
    <2>2. /\ JobRequests(h)' = JobRequests(h) /\ JobFrames(h)' = JobFrames(h)
          /\ Holders(h)' = Holders(h)
      BY <1>3, JobsKept
    <2>3. CASE queue'[h] = queue[h]
      <3>1. Fewer(h)
        BY <1>3, <2>1, <2>2, <2>3, Elsewhere
      <3>2. QED
        BY <1>3, <2>1, <3>1, FewerKeeps DEF ViewInv
    <2>4. CASE h \in DOMAIN sessions /\ queue'[h] = Append(queue[h], f)
      <3>1. /\ Elems(queue'[h]) = Elems(queue[h]) \union {f}
            /\ Some(queue'[h], Settling) => Some(queue[h], Settling)
            /\ Once(queue[h], Settling) => Once(queue'[h], Settling)
        BY <1>2, <2>1, <2>4, AppendElems
      <3>2. Requested(h)' = Requested(h) /\ \A x \in Replies(h)' : x \in Replies(h) \/ x = f
        BY <1>3, <2>2, <3>1 DEF Requested, Replies
      <3>3. /\ OnePlace(inbox[h], queue[h], wire[h], Holders(h))
            /\ Flow(Requested(h), Replies(h), pending[h], view[h], sessions[h].subscriptions, sent)
        BY <2>4 DEF ViewInv, ViewFor, GoodFor
      <3>4. OnePlace(inbox[h], queue'[h], wire[h], Holders(h))
        BY <3>1, <3>3, PlaceShrinks
      <3>5. Flow(Requested(h), Replies(h)', pending[h], view[h], sessions[h].subscriptions, sent)
        BY <1>2, <2>1, <3>2, <3>3, FlowOther
      <3>6. GoodFor(h)'
        BY <1>3, <2>2, <3>2, <3>4, <3>5 DEF GoodFor
      <3>7. conn'[h] = "open"
        BY <1>3, <2>4 DEF IInv, SessionsAreOpen
      <3>8. QED
        BY <3>6, <3>7 DEF ViewFor
    <2>5. QED
      BY <1>4, <2>3, <2>4
  <1>6. QED
    BY <1>5 DEF ViewInv

\* A callback that sends nothing is nothing to the connections.
LEMMA ViewUntouched ==
    ASSUME BInv, ViewInv, UNCHANGED <<vars, ioState, job, clientState>>
    PROVE  ViewInv'
  <1>1. UNCHANGED <<conn, sessions, inbox, queue, wire, pending, view, sent>>
    BY DEF vars, registryVars, ioState, clientState
  <1>2. ASSUME NEW h \in Handles PROVE ViewFor(h)'
    <2>1. sent \in Nat /\ sent <= sent'
      BY <1>1, PartTypes
    <2>2. Fewer(h)
      BY <1>1, <2>1, JobsKept, Elsewhere
    <2>3. QED
      BY <1>1, <2>1, <2>2, FewerKeeps DEF ViewInv
  <1>3. QED
    BY <1>2 DEF ViewInv

-------------------------------------------------------------------------------
\* At the start every connection is silent.
LEMMA ViewStarts == BridgeInit => ViewInv
  <1> SUFFICES ASSUME BridgeInit, NEW h \in Handles PROVE ViewFor(h)
    BY DEF ViewInv
  <1>1. /\ inbox[h] = <<>> /\ queue[h] = <<>> /\ wire[h] = <<>>
        /\ pending[h] = {} /\ view[h] = {} /\ DOMAIN sessions = {}
    BY DEF BridgeInit, Init, EmptyMap
  <1>2. \A w \in Workers : job[w].pc = "free"
    BY DEF BridgeInit, Free
  <1>3. JobRequests(h) = {} /\ JobFrames(h) = {}
    BY <1>2 DEF JobRequests, JobFrames, Starters, Answerers
  <1>4. Silent(h)
    BY <1>1, <1>3, NothingInEmpty DEF Silent, Requested, Replies
  <1>5. QED
    BY <1>1, <1>4 DEF ViewFor

\* No step of any thread or client breaks it.
LEMMA ViewStep ==
    ASSUME Pipelining = FALSE, IInv, BInv, ViewInv, [BridgeNext]_bridgeVars
    PROVE  ViewInv'
  <1>1. IInv'
    BY RegistryStep, StepInvariant DEF BInv
  <1>2. ASSUME NEW h \in Handles, Connection(h) PROVE ViewInv'
    <2>1. CASE ClientSends(h)
      BY <2>1, ViewClientSends
    <2>2. CASE Connects(h)
      BY <2>2, ViewConnects
    <2>3. CASE OnMessage(h)
      BY <2>3, ViewOnMessage
    <2>4. CASE StartWrite(h)
      BY <2>4, ViewStartWrite
    <2>5. CASE Deliver(h)
      BY <2>5, ViewDelivers
    <2>6. CASE Closes(h)
      BY <1>1, <2>6, ViewCloses
    <2>7. QED
      BY <1>2, <2>1, <2>2, <2>3, <2>4, <2>5, <2>6 DEF Connection
  <1>3. ASSUME NEW w \in Workers, Throws(w) \/ WorkerEnds(w) PROVE ViewInv'
    <2>1. PICK j \in {Free, [pc |-> "ended"]} : job' = [job EXCEPT ![w] = j]
      BY <1>3 DEF Throws, WorkerEnds
    <2>2. /\ j.pc \in {"free", "ended"}
          /\ UNCHANGED vars /\ UNCHANGED ioState /\ UNCHANGED clientState
      BY <1>3 DEF Throws, WorkerEnds, Free
    <2>3. \A h : Changes(w, j, h)
      BY <2>1, JobsChange DEF BInv
    <2>4. QED
      BY <2>2, <2>3, ViewDrops
  <1>4. ASSUME NEW w \in Workers, Process(w) \/ Route(w) PROVE ViewInv'
    BY <1>4, ViewProcesses, ViewRoutes
  <1>5. ASSUME NEW e \in Events, Broadcast(e) PROVE ViewInv'
    BY <1>5, ViewBroadcasts
  <1>6. ASSUME NEW e \in Events, CallbackFires(e) PROVE ViewInv'
    BY <1>6, ViewUntouched DEF CallbackFires
  <1>7. CASE CallbackFails \/ UNCHANGED bridgeVars
    BY <1>7, ViewUntouched DEF CallbackFails, bridgeVars, bridgeState
  <1>8. QED
    BY <1>2, <1>3, <1>4, <1>5, <1>6, <1>7, NextIsAllActions DEF AllActions

(***************************************************************************)
(* A client that waits for each answer knows its subscriptions, and every  *)
(* event on its list has subscribers: for any number of clients, workers   *)
(* and requests, whatever closes, is dropped, or is refused meanwhile.     *)
(***************************************************************************)
THEOREM WaitingClientsKnow ==
    ASSUME Pipelining = FALSE
    PROVE  BridgeSpec => []ViewIsTruth
  <1>1. BridgeInit => ViewInv
    BY ViewStarts
  <1>2. IInv /\ BInv /\ ViewInv /\ [BridgeNext]_bridgeVars => ViewInv'
    BY ViewStep
  <1>3. IInv /\ ViewInv => ViewIsTruth
    <2> SUFFICES ASSUME IInv, ViewInv, NEW h \in DOMAIN sessions, Unsettled(h) = {}
                 PROVE  /\ view[h] = sessions[h].subscriptions
                        /\ \A e \in view[h] : HasSubscribers(e)
      BY DEF ViewIsTruth
    <2>1. h \in Handles /\ sessions[h].handshakeDone /\ sessions[h].subscriptions \subseteq Events
      BY DEF IInv, TypeOK
    <2>2. GoodFor(h)
      BY <2>1 DEF ViewInv, ViewFor
    <2>3. \A r \in pending[h] : r.kind \notin Control
      BY DEF Unsettled
    <2>4. view[h] = sessions[h].subscriptions
      BY <2>2, <2>3 DEF GoodFor, Flow, Believes
    <2>5. ASSUME NEW e \in view[h] PROVE HasSubscribers(e)
      <3>1. e \in Events /\ h \in Recipients(e)
        BY <2>1, <2>4, <2>5 DEF Recipients
      <3>2. e \in DOMAIN subscriptionCounts
        BY <3>1, CountsByEventIsExact DEF IInv, CountsExact
      <3>3. QED
        BY <3>2 DEF HasSubscribers, IInv, TypeOK
    <2>6. QED
      BY <2>4, <2>5
  <1>4. QED
    BY <1>1, <1>2, <1>3, BridgeInvariant, PTL DEF BridgeSpec
-------------------------------------------------------------------------------
(***************************************************************************)
(* What is on its way to a client: a push is of an event in T, and after   *)
(* an acknowledgement only of an event that is listed there.  T is what    *)
(* the client believes to have, and what the server has for it; of that,   *)
(* what the client does not know yet it has asked for.  Without a session  *)
(* nothing is on its way.                                                  *)
(***************************************************************************)
Stream(o, T) ==
    \A j \in 1 .. Len(o) : o[j].kind = "push" =>
        /\ o[j].events \subseteq T
        /\ \A i \in 1 .. j - 1 : o[i].kind = "ack" => o[j].events \subseteq o[i].events

StreamFor(h) ==
    IF h \in DOMAIN sessions
      THEN /\ sessions[h].subscriptions \subseteq view[h] \union Asked(h)
           /\ Stream(Outgoing(h), view[h] \union sessions[h].subscriptions)
      ELSE Outgoing(h) = <<>>
StreamInv == \A h \in Handles : StreamFor(h)

-------------------------------------------------------------------------------
(***************************************************************************)
(* What Stream makes of the ends of a sequence.  First, a client that      *)
(* believes more may be sent more.                                         *)
(***************************************************************************)
LEMMA StreamGrows ==
    ASSUME NEW o \in Seq(Frames), NEW T, Stream(o, T), NEW U, T \subseteq U
    PROVE  Stream(o, U)
  BY DEF Stream

\* A frame goes last: no push, or one that every acknowledgement before it allows.
LEMMA StreamAppend ==
    ASSUME NEW o \in Seq(Frames), NEW T, Stream(o, T), NEW f \in Frames,
           f.kind = "push" =>
               /\ f.events \subseteq T
               /\ \A x \in Elems(o) : x.kind = "ack" => f.events \subseteq x.events
    PROVE  Stream(Append(o, f), T)
  <1> DEFINE a == Append(o, f)
  <1>1. /\ Len(a) = Len(o) + 1 /\ Len(o) \in Nat
        /\ \A i \in 1 .. Len(o) : a[i] = o[i]
        /\ a[Len(o) + 1] = f
    BY AppendProperties, LenProperties
  <1>2. SUFFICES ASSUME NEW j \in 1 .. Len(a), a[j].kind = "push"
                 PROVE  /\ a[j].events \subseteq T
                        /\ \A i \in 1 .. j - 1 : a[i].kind = "ack" => a[j].events \subseteq a[i].events
    BY DEF Stream
  <1>3. CASE j = Len(o) + 1
    <2>1. a[j] = f /\ \A i \in 1 .. j - 1 : a[i] = o[i] /\ o[i] \in Elems(o)
      BY <1>1, <1>3 DEF Elems
    <2>2. QED
      BY <1>2, <2>1
  <1>4. CASE j \in 1 .. Len(o)
    <2>1. a[j] = o[j] /\ \A i \in 1 .. j - 1 : a[i] = o[i]
      BY <1>1, <1>4
    <2>2. QED
      BY <1>2, <1>4, <2>1 DEF Stream
  <1>5. QED
    BY <1>1, <1>3, <1>4

\* The head is read, and if it is an acknowledgement the client believes it.
LEMMA StreamTail ==
    ASSUME NEW o \in Seq(Frames), o # <<>>, NEW T, Stream(o, T), NEW U,
           IF Head(o).kind = "ack" THEN Head(o).events \subseteq U ELSE T \subseteq U
    PROVE  Stream(Tail(o), U)
  <1> DEFINE t == Tail(o)
  <1>1. /\ Len(o) \in Nat \ {0} /\ Len(t) = Len(o) - 1 /\ Head(o) = o[1]
        /\ \A i \in 1 .. Len(t) : t[i] = o[i + 1]
    BY HeadTailProperties, LenProperties, EmptySeq
  <1>2. SUFFICES ASSUME NEW j \in 1 .. Len(t), t[j].kind = "push"
                 PROVE  /\ t[j].events \subseteq U
                        /\ \A i \in 1 .. j - 1 : t[i].kind = "ack" => t[j].events \subseteq t[i].events
    BY DEF Stream
  <1>3. j + 1 \in 1 .. Len(o) /\ t[j] = o[j + 1]
    BY <1>1
  <1>4. /\ t[j].events \subseteq T
        /\ \A k \in 1 .. j : o[k].kind = "ack" => t[j].events \subseteq o[k].events
    BY <1>1, <1>2, <1>3 DEF Stream
  <1>5. t[j].events \subseteq U
    <2>1. 1 \in 1 .. j
      BY <1>1
    <2>2. QED
      BY <1>1, <1>4, <2>1
  <1>6. \A i \in 1 .. j - 1 : i + 1 \in 1 .. j /\ t[i] = o[i + 1]
    BY <1>1
  <1>7. QED
    BY <1>4, <1>5, <1>6

\* Nothing is wrong with nothing.
LEMMA StreamNone ==
    ASSUME NEW T
    PROVE  Stream(<<>>, T)
  BY EmptySeq DEF Stream

\* Nothing is on its way that is on neither.
LEMMA ConcatElems ==
    ASSUME NEW wr \in Seq(Frames), NEW q \in Seq(Frames)
    PROVE  Elems(wr \o q) \subseteq Elems(wr) \union Elems(q)
  <1> SUFFICES ASSUME NEW i \in 1 .. Len(wr \o q)
               PROVE  (wr \o q)[i] \in Elems(wr) \union Elems(q)
    BY DEF Elems
  <1>1. /\ Len(wr \o q) = Len(wr) + Len(q) /\ Len(wr) \in Nat /\ Len(q) \in Nat
        /\ (wr \o q)[i] = IF i <= Len(wr) THEN wr[i] ELSE q[i - Len(wr)]
    BY ConcatProperties, LenProperties
  <1>2. CASE i <= Len(wr)
    BY <1>1, <1>2 DEF Elems
  <1>3. CASE ~(i <= Len(wr))
    <2>1. i - Len(wr) \in 1 .. Len(q)
      BY <1>1, <1>3
    <2>2. QED
      BY <1>1, <1>3, <2>1 DEF Elems
  <1>4. QED
    BY <1>2, <1>3

-------------------------------------------------------------------------------
(***************************************************************************)
(* The steps of StreamInv, connection by connection: its stream as it was, *)
(* or with one more frame, and nothing forgotten that was asked for.       *)
(***************************************************************************)
Undisturbed(h) ==
    /\ h \in DOMAIN sessions' <=> h \in DOMAIN sessions
    /\ h \in DOMAIN sessions => sessions'[h].subscriptions = sessions[h].subscriptions
    /\ view'[h] = view[h]
    /\ Asked(h) \subseteq Asked(h)'

\* The stream is as it was.
LEMMA StreamStays ==
    ASSUME NEW h, StreamFor(h), Undisturbed(h), Outgoing(h)' = Outgoing(h)
    PROVE  StreamFor(h)'
  <1>1. CASE h \in DOMAIN sessions
    <2>1. /\ sessions[h].subscriptions \subseteq view[h] \union Asked(h)
          /\ Stream(Outgoing(h), view[h] \union sessions[h].subscriptions)
      BY <1>1 DEF StreamFor
    <2>2. sessions'[h].subscriptions \subseteq view'[h] \union Asked(h)'
      BY <1>1, <2>1 DEF Undisturbed
    <2>3. Stream(Outgoing(h)', view'[h] \union sessions'[h].subscriptions)
      BY <1>1, <2>1 DEF Undisturbed
    <2>4. QED
      BY <1>1, <2>2, <2>3 DEF StreamFor, Undisturbed
  <1>2. CASE h \notin DOMAIN sessions
    BY <1>2 DEF StreamFor, Undisturbed
  <1>3. QED
    BY <1>1, <1>2

\* It has one more frame at its end.
LEMMA StreamQueues ==
    ASSUME BInv, NEW h \in Handles, h \in DOMAIN sessions, StreamFor(h), Undisturbed(h),
           NEW f \in Frames, wire'[h] = wire[h], queue'[h] = Append(queue[h], f),
           f.kind = "push" =>
               /\ f.events \subseteq sessions[h].subscriptions
               /\ \A x \in Elems(Outgoing(h)) : x.kind = "ack" => f.events \subseteq x.events
    PROVE  StreamFor(h)'
  <1> DEFINE T == view[h] \union sessions[h].subscriptions
  <1>1. /\ sessions[h].subscriptions \subseteq view[h] \union Asked(h)
        /\ Stream(Outgoing(h), T)
    BY DEF StreamFor
  <1>2. wire[h] \in Seq(Frames) /\ queue[h] \in Seq(Frames)
    BY PartTypes
  <1>3. Outgoing(h) \in Seq(Frames)
    BY <1>2, ConcatProperties DEF Outgoing
  <1>4. Outgoing(h)' = Append(Outgoing(h), f)
    BY <1>2, QueuedLast DEF Outgoing
  <1>5. Stream(Append(Outgoing(h), f), T)
    BY <1>1, <1>3, StreamAppend
  <1>6. sessions'[h].subscriptions \subseteq view'[h] \union Asked(h)'
    BY <1>1 DEF Undisturbed
  <1>7. Stream(Outgoing(h)', view'[h] \union sessions'[h].subscriptions)
    BY <1>4, <1>5 DEF Undisturbed
  <1>8. QED
    BY <1>6, <1>7 DEF StreamFor, Undisturbed

\* What a client asked for depends on what it waits for.
LEMMA AskedKept ==
    ASSUME NEW h, pending[h] \subseteq pending'[h]
    PROVE  Asked(h) \subseteq Asked(h)'
  BY DEF Asked

\* A connection of which the step changes the inbox at most.
LEMMA StreamElsewhere ==
    ASSUME NEW h, StreamFor(h), UNCHANGED <<queue[h], wire[h], view[h]>>,
           pending[h] \subseteq pending'[h],
           h \in DOMAIN sessions' <=> h \in DOMAIN sessions,
           h \in DOMAIN sessions => sessions'[h].subscriptions = sessions[h].subscriptions
    PROVE  StreamFor(h)'
  <1>1. Undisturbed(h)
    BY AskedKept DEF Undisturbed
  <1>2. Outgoing(h)' = Outgoing(h)
    BY DEF Outgoing
  <1>3. QED
    BY <1>1, <1>2, StreamStays

\* A connection starts without subscriptions and frames.
LEMMA StreamConnects ==
    ASSUME IInv, StreamInv, NEW g \in Handles, Connects(g)
    PROVE  StreamInv'
  <1>1. UNCHANGED <<inbox, queue, wire, job, pending, view, sent>>
    BY DEF Connects, bridgeState, ioState, clientState
  <1>2. ASSUME NEW h \in Handles, h \in DOMAIN sessions' <=> h \in DOMAIN sessions,
               h \in DOMAIN sessions => sessions'[h] = sessions[h]
        PROVE  StreamFor(h)'
    BY <1>1, <1>2, StreamElsewhere DEF StreamInv
  <1>3. CASE OnValidate(g)
    <2>1. UNCHANGED sessions
      BY <1>3 DEF OnValidate, registryVars
    <2>2. QED
      BY <1>2, <2>1 DEF StreamInv
  <1>4. CASE OnFail(g)
    <2>1. g \notin DOMAIN sessions
      BY <1>4 DEF OnFail, IInv, SessionsAreOpen
    <2>2. UNCHANGED sessions
      BY <1>4, <2>1 DEF OnFail, DropSession, registryVars
    <2>3. QED
      BY <1>2, <2>2 DEF StreamInv
  <1>5. CASE OnOpen(g)
    <2>1. PICK c \in ClientIds : sessions' = With(sessions, g, Session(c, {}))
      BY <1>5 DEF OnOpen, GenerateClientId
    <2>2. \A h \in Handles : h # g => StreamFor(h)'
      BY <1>2, <2>1 DEF With
    <2>3. g \notin DOMAIN sessions
      BY <1>5 DEF OnOpen, IInv, SessionsAreOpen
    <2>4. Outgoing(g)' = <<>>
      BY <1>1, <2>3 DEF StreamInv, StreamFor, Outgoing
    <2>5. g \in DOMAIN sessions' /\ sessions'[g].subscriptions = {}
      BY <2>1 DEF With, Session
    <2>6. StreamFor(g)'
      BY <2>4, <2>5, StreamNone DEF StreamFor
    <2>7. QED
      BY <2>2, <2>6 DEF StreamInv
  <1>6. QED
    BY <1>3, <1>4, <1>5 DEF Connects

\* One that closes has neither.
LEMMA StreamCloses ==
    ASSUME IInv, IInv', BInv, StreamInv, NEW g \in Handles, Closes(g)
    PROVE  StreamInv'
  <1>1. /\ \A h \in Handles \ {g} : UNCHANGED <<queue[h], wire[h], pending[h], view[h]>>
        /\ queue'[g] = <<>> /\ wire'[g] = <<>>
    BY DEF Closes, BInv, OutInv, RestInv
  <1>2. conn'[g] = "closed"
    BY DEF Closes, OnClose, IInv, TypeOK
  <1>3. \A h \in DOMAIN sessions \ {g} : h \in DOMAIN sessions' /\ sessions'[h] = sessions[h]
    BY DEF Closes, OnClose, DropSession, Without, registryVars
  <1>4. DOMAIN sessions' \subseteq DOMAIN sessions
    BY DEF Closes, OnClose, DropSession, Without, registryVars
  <1>5. \A h \in Handles : h # g => StreamFor(h)'
    BY <1>1, <1>3, <1>4, StreamElsewhere DEF StreamInv
  <1>6. g \notin DOMAIN sessions'
    BY <1>2 DEF IInv, SessionsAreOpen
  <1>7. Outgoing(g)' = <<>>
    BY <1>1 DEF Outgoing
  <1>8. StreamFor(g)'
    BY <1>6, <1>7 DEF StreamFor
  <1>9. QED
    BY <1>5, <1>8 DEF StreamInv

\* Neither a request nor a write that starts changes what will be read.
LEMMA StreamClientSends ==
    ASSUME BInv, StreamInv, NEW g \in Handles, ClientSends(g)
    PROVE  StreamInv'
  <1>1. UNCHANGED <<sessions, queue, wire, view>>
    BY DEF ClientSends, vars, registryVars
  <1>2. \A h \in Handles : pending[h] \subseteq pending'[h]
    BY DEF ClientSends, BInv, RestInv
  <1>3. QED
    BY <1>1, <1>2, StreamElsewhere DEF StreamInv

\* A write takes over what was queued, in its order.
LEMMA StreamStartWrite ==
    ASSUME BInv, StreamInv, NEW g \in Handles, StartWrite(g)
    PROVE  StreamInv'
  <1>1. UNCHANGED <<sessions, pending, view>> /\ wire[g] = <<>>
    BY DEF StartWrite, clientState, vars, registryVars
  <1>2. /\ wire'[g] = queue[g] /\ queue'[g] = <<>>
        /\ \A h \in Handles \ {g} : UNCHANGED <<queue[h], wire[h]>>
    BY DEF StartWrite, BInv, OutInv
  <1>3. queue[g] \in Seq(Frames)
    BY PartTypes
  <1>4. queue[g] \o <<>> = queue[g] /\ <<>> \o queue[g] = queue[g]
    BY <1>3, ConcatEmptySeq
  <1>5. Outgoing(g)' = Outgoing(g)
    BY <1>1, <1>2, <1>4 DEF Outgoing
  <1>6. Undisturbed(g)
    BY <1>1, AskedKept DEF Undisturbed
  <1>7. StreamFor(g)'
    BY <1>5, <1>6, StreamStays DEF StreamInv
  <1>8. QED
    BY <1>1, <1>2, <1>7, StreamElsewhere DEF StreamInv

-------------------------------------------------------------------------------
(***************************************************************************)
(* The client reads.  The answer to its request is the last word on it:    *)
(* from then on it believes what the server has.                           *)
(***************************************************************************)
LEMMA StreamDelivers ==
    ASSUME BInv, ViewInv, ViewInv', StreamInv, NEW g \in Handles, Deliver(g)
    PROVE  StreamInv'
  <1> DEFINE f == Head(wire[g])
             s == sessions[g].subscriptions
  <1>1. /\ UNCHANGED <<sessions, queue>> /\ wire[g] # <<>>
        /\ wire'[g] = Tail(wire[g])
        /\ pending'[g] = Remaining(pending[g], f)
        /\ view'[g] = IF f.kind = "ack" THEN f.events ELSE view[g]
        /\ \A h \in Handles \ {g} : UNCHANGED <<wire[h], pending[h], view[h]>>
    BY DEF Deliver, BInv, OutInv, RestInv, Remaining, vars, registryVars
  <1>2. wire[g] \in Seq(Frames) /\ queue[g] \in Seq(Frames)
    BY PartTypes
  <1>3. /\ Outgoing(g) # <<>> /\ Head(Outgoing(g)) = f
        /\ Outgoing(g)' = Tail(Outgoing(g)) /\ Outgoing(g) \in Seq(Frames)
    BY <1>1, <1>2, WrittenFirst, ConcatProperties DEF Outgoing
  <1>4. g \in DOMAIN sessions
    BY <1>3 DEF StreamInv, StreamFor
  <1>5. /\ s \subseteq view[g] \union Asked(g)
        /\ Stream(Outgoing(g), view[g] \union s)
    BY <1>4 DEF StreamInv, StreamFor
  <1>6. /\ Flow(Requested(g), Replies(g), pending[g], view[g], s, sent)
        /\ Flow(Requested(g)', Replies(g)', pending'[g], view'[g], s, sent')
    BY <1>1, <1>4 DEF ViewInv, ViewFor, GoodFor
  <1>7. f \in Replies(g)
    BY <1>1, <1>2, TailElems DEF Replies
  <1>8. s \subseteq view'[g] \union Asked(g)'
    <2>1. CASE f.kind \in Settling
      <3>1. \A r \in pending'[g] : r.kind \notin Control
        BY <1>1, <1>6, <1>7, <2>1 DEF Flow, Awaited, Remaining
      <3>2. view'[g] = s
        BY <1>6, <3>1 DEF Flow, Believes
      <3>3. QED
        BY <3>2
    <2>2. CASE f.kind \notin Settling
      <3>1. \A r \in pending[g] : r.kind \in Control => r \in pending'[g]
        BY <1>1, <1>6, <1>7, <2>2 DEF Flow, Agree, Remaining
      <3>2. Asked(g) \subseteq Asked(g)'
        BY <3>1 DEF Asked, Control
      <3>3. view'[g] = view[g]
        BY <1>1, <2>2 DEF Settling
      <3>4. QED
        BY <1>5, <3>2, <3>3
    <2>3. QED
      BY <2>1, <2>2
  <1>9. Stream(Tail(Outgoing(g)), view'[g] \union s)
    <2>1. IF f.kind = "ack" THEN f.events \subseteq view'[g] \union s
                            ELSE view[g] \union s \subseteq view'[g] \union s
      BY <1>1
    <2>2. QED
      BY <1>3, <1>5, <2>1, StreamTail
  <1>10. StreamFor(g)'
    BY <1>1, <1>3, <1>4, <1>8, <1>9 DEF StreamFor
  <1>11. QED
    BY <1>1, <1>10, StreamElsewhere DEF StreamInv

\* A frame that is no push goes to g, or nothing is sent to anyone.
LEMMA StreamSends ==
    ASSUME BInv, StreamInv, NEW g \in Handles, g \in DOMAIN sessions,
           UNCHANGED sessions, UNCHANGED wire, UNCHANGED pending, UNCHANGED view,
           NEW f \in Frames, f.kind # "push", Send(g, f)
    PROVE  StreamInv'
  <1>1. /\ queue'[g] = Append(queue[g], f)
        /\ \A h \in Handles \ {g} : UNCHANGED queue[h]
    BY DEF Send, BInv, OutInv
  <1>2. Undisturbed(g)
    BY AskedKept DEF Undisturbed
  <1>3. StreamFor(g)'
    BY <1>1, <1>2, StreamQueues DEF StreamInv
  <1>4. QED
    BY <1>1, <1>3, StreamElsewhere DEF StreamInv

\* Nothing that concerns the streams has happened.
LEMMA StreamUntouched ==
    ASSUME StreamInv,
           UNCHANGED sessions, UNCHANGED queue, UNCHANGED wire, UNCHANGED pending, UNCHANGED view
    PROVE  StreamInv'
  BY StreamElsewhere DEF StreamInv

\* OnMessage sends errors and pongs.
LEMMA StreamOnMessage ==
    ASSUME BInv, StreamInv, NEW g \in Handles, OnMessage(g)
    PROVE  StreamInv'
  <1> DEFINE r == Head(inbox[g])
  <1>1. /\ inbox[g] # <<>>
        /\ UNCHANGED sessions /\ UNCHANGED wire /\ UNCHANGED pending /\ UNCHANGED view
    BY DEF OnMessage, clientState, vars, registryVars
  <1>2. ASSUME NEW f \in Frames, f.kind # "push", g \in DOMAIN sessions, Send(g, f)
        PROVE  StreamInv'
    BY <1>1, <1>2, StreamSends
  <1>3. CASE g \in DOMAIN sessions /\ (Refuse(g, r) \/ Overload(g, r))
    <2>1. Send(g, Frame(NoId, "error", {}))
      BY <1>3 DEF Refuse, Overload
    <2>2. Frame(NoId, "error", {}) \in Frames /\ Frame(NoId, "error", {}).kind # "push"
      BY FrameTypes DEF Frame
    <2>3. QED
      BY <1>2, <1>3, <2>1, <2>2
  <1>4. CASE g \in DOMAIN sessions /\ Pong(g, r)
    <2>1. Send(g, Frame(r.id, "pong", {}))
      BY <1>4 DEF Pong
    <2>2. r.id \in Ids
      BY <1>1, InboxHead, RequestEvents DEF BInv
    <2>3. Frame(r.id, "pong", {}) \in Frames /\ Frame(r.id, "pong", {}).kind # "push"
      BY <2>2, FrameTypes DEF Frame
    <2>4. QED
      BY <1>2, <1>4, <2>1, <2>3
  <1>5. CASE UNCHANGED queue
    BY <1>1, <1>5, StreamUntouched
  <1>6. CASE g \in DOMAIN sessions /\ Dispatch(g, r)
    BY <1>5, <1>6 DEF Dispatch
  <1>7. CASE g \notin DOMAIN sessions
    BY <1>5, <1>7 DEF OnMessage
  <1>8. QED
    BY <1>3, <1>4, <1>6, <1>7 DEF OnMessage

\* A worker sends answers.
LEMMA StreamRoutes ==
    ASSUME IInv, BInv, StreamInv, NEW w \in Workers, Route(w)
    PROVE  StreamInv'
  <1>1. /\ job[w].pc = "answered"
        /\ RouteOutgoing(job[w].client, job[w].frame)
        /\ UNCHANGED sessions /\ UNCHANGED wire /\ UNCHANGED pending /\ UNCHANGED view
    BY DEF Route, clientState, vars, registryVars
  <1>2. CASE UNCHANGED queue
    BY <1>1, <1>2, StreamUntouched
  <1>3. CASE queue' # queue
    <2>1. PICK f : f = job[w].frame
      OBVIOUS
    <2>2. PICK c : c = job[w].client
      OBVIOUS
    <2>3. c # NoClient /\ f \in Answers
      BY <1>1, <2>1, <2>2, JobKinds, BridgeAssumption DEF BInv, JobInv, IInv, TypeOK
    <2>4. c \in DOMAIN clientIdToHdl /\ Send(clientIdToHdl[c], f)
      BY <1>1, <1>3, <2>1, <2>2, <2>3 DEF RouteOutgoing
    <2>5. clientIdToHdl[c] \in DOMAIN sessions /\ clientIdToHdl[c] \in Handles
      BY <2>4 DEF IInv, TypeOK, IdsMirrorSessions
    <2>6. f \in Frames /\ f.kind # "push"
      BY <2>3 DEF Frames, Answers
    <2>7. QED
      BY <1>1, <2>4, <2>5, <2>6, StreamSends
  <1>4. QED
    BY <1>2, <1>3

(***************************************************************************)
(* A push goes to a client whose subscriptions name its event; whatever    *)
(* acknowledgement is on its way to that client lists the event too.       *)
(***************************************************************************)
LEMMA StreamBroadcasts ==
    ASSUME BInv, ViewInv, StreamInv, NEW e \in Events, Broadcast(e)
    PROVE  StreamInv'
  <1>1. PICK f : f = Frame(NoId, "push", {e})
    OBVIOUS
  <1>2. f \in Frames /\ f.events = {e}
    BY <1>1, FrameTypes DEF Frame
  <1>3. UNCHANGED <<sessions, wire, pending, view>>
    BY DEF Broadcast, vars, registryVars, clientState
  <1>4. \A h \in Handles : \/ queue'[h] = queue[h]
                           \/ h \in Recipients(e) /\ queue'[h] = Append(queue[h], f)
    BY <1>1 DEF Broadcast
  <1>5. ASSUME NEW h \in Handles, h \in Recipients(e), queue'[h] = Append(queue[h], f)
        PROVE  StreamFor(h)'
    <2>1. h \in DOMAIN sessions /\ f.events \subseteq sessions[h].subscriptions
      BY <1>2, <1>5 DEF Recipients
    <2>2. \A x \in Replies(h) : x.kind = "ack" => x.events = sessions[h].subscriptions
      BY <2>1 DEF ViewInv, ViewFor, GoodFor, Flow, Believes
    <2>3. Elems(Outgoing(h)) \subseteq Replies(h)
      <3>1. wire[h] \in Seq(Frames) /\ queue[h] \in Seq(Frames)
        BY PartTypes
      <3>2. Elems(Outgoing(h)) \subseteq Elems(wire[h]) \union Elems(queue[h])
        BY <3>1, ConcatElems DEF Outgoing
      <3>3. QED
        BY <3>2 DEF Replies
    <2>4. \A x \in Elems(Outgoing(h)) : x.kind = "ack" => f.events \subseteq x.events
      BY <2>1, <2>2, <2>3
    <2>5. Undisturbed(h)
      BY <1>3, AskedKept DEF Undisturbed
    <2>6. QED
      BY <1>2, <1>3, <1>5, <2>1, <2>4, <2>5, StreamQueues DEF StreamInv
  <1>6. QED
    BY <1>3, <1>4, <1>5, StreamElsewhere DEF StreamInv

(***************************************************************************)
(* A worker processes a subscription request of g: until then the client   *)
(* believes what the server had, and of what is new it has asked.          *)
(***************************************************************************)
LEMMA StreamSubscribes ==
    ASSUME IInv, BInv, ViewInv, StreamInv, NEW w \in Workers, job[w].pc = "started",
           NEW r, r = job[w].request, r.kind \in Control,
           NEW g \in DOMAIN sessions, g \in Handles, w \in Starters(g),
           UNCHANGED queue, UNCHANGED wire, UNCHANGED pending, UNCHANGED view,
           DOMAIN sessions' = DOMAIN sessions,
           \A h \in DOMAIN sessions \ {g} : sessions'[h] = sessions[h],
           NEW S, sessions'[g].subscriptions = S,
           r.kind = "subscribe" => S \subseteq sessions[g].subscriptions \union r.events,
           r.kind # "subscribe" => S \subseteq sessions[g].subscriptions
    PROVE  StreamInv'
  <1>1. r \in Requested(g)
    BY DEF Requested, JobRequests, Starters
  <1>2. r \in pending[g] /\ view[g] = sessions[g].subscriptions
    BY <1>1 DEF ViewInv, ViewFor, GoodFor, Flow, Awaited, Believes
  <1>3. r.kind = "subscribe" => r.events \subseteq Asked(g)
    BY <1>2 DEF Asked
  <1>4. S \subseteq view[g] \union Asked(g)
    BY <1>2, <1>3
  <1>5. Stream(Outgoing(g), view[g])
    BY <1>2 DEF StreamInv, StreamFor
  <1>6. Stream(Outgoing(g), view[g] \union S)
    <2>1. Outgoing(g) \in Seq(Frames)
      BY PartTypes, ConcatProperties DEF Outgoing
    <2>2. QED
      BY <1>5, <2>1, StreamGrows
  <1>7. Outgoing(g)' = Outgoing(g) /\ Asked(g)' = Asked(g)
    BY DEF Outgoing, Asked
  <1>8. StreamFor(g)'
    BY <1>4, <1>6, <1>7 DEF StreamFor
  <1>9. QED
    BY <1>8, StreamElsewhere DEF StreamInv


\* Other requests change no subscriptions.
LEMMA StreamProcesses ==
    ASSUME IInv, BInv, ViewInv, StreamInv, NEW w \in Workers, Process(w)
    PROVE  StreamInv'
  <1>1. job[w].pc = "started" /\ UNCHANGED queue /\ UNCHANGED wire /\ UNCHANGED pending /\ UNCHANGED view
    BY DEF Process, ioState, clientState
  <1>2. PICK r : r = job[w].request
    OBVIOUS
  <1>3. PICK c : c = job[w].client
    OBVIOUS
  <1>4. CASE UNCHANGED sessions
    BY <1>1, <1>4, StreamUntouched
  <1>5. CASE \/ r.kind = "subscribe" /\ Subscribe(c, r.events)
             \/ r.kind = "unsubscribe" /\ Unsubscribe(c, r.events)
    <2>1. Known(c)
      BY <1>5 DEF Subscribe, Unsubscribe
    <2>2. PICK g : g = clientIdToHdl[c]
      OBVIOUS
    <2>3. g \in DOMAIN sessions /\ g \in Handles
      BY <2>1, <2>2 DEF Known, IInv, TypeOK
    <2>4. w \in Starters(g)
      <3>1. Serves(w) /\ Asker(w) = g
        BY <1>1, <1>3, <2>1, <2>2 DEF Serves, Asker, Known
      <3>2. QED
        BY <1>1, <3>1 DEF BInv, JobInv, Starters
    <2>5. PICK S : /\ sessions' = [sessions EXCEPT ![g].subscriptions = S]
                   /\ r.kind = "subscribe" => S = sessions[g].subscriptions \union r.events
                   /\ r.kind # "subscribe" => S \subseteq sessions[g].subscriptions
      <3>1. CASE r.kind = "subscribe" /\ Subscribe(c, r.events)
        BY <2>2, <3>1 DEF Subscribe
      <3>2. CASE r.kind = "unsubscribe" /\ Unsubscribe(c, r.events)
        <4>1. PICK X : sessions' = [sessions EXCEPT ![g].subscriptions = sessions[g].subscriptions \ X]
          BY <2>2, <3>2 DEF Unsubscribe
        <4>2. PICK S : S = sessions[g].subscriptions \ X
          OBVIOUS
        <4>3. /\ sessions' = [sessions EXCEPT ![g].subscriptions = S]
              /\ S \subseteq sessions[g].subscriptions /\ r.kind # "subscribe"
          BY <3>2, <4>1, <4>2
        <4>4. QED
          BY <4>3
      <3>3. QED
        BY <1>5, <3>1, <3>2
    <2>6. /\ DOMAIN sessions' = DOMAIN sessions
          /\ \A h \in DOMAIN sessions \ {g} : sessions'[h] = sessions[h]
      BY <2>5
    <2>7. sessions'[g].subscriptions = S
      BY <2>3, <2>5 DEF IInv, TypeOK
    <2>8. r.kind \in Control
      BY <1>5 DEF Control
    <2>9. QED
      BY <1>1, <1>2, <2>3, <2>4, <2>5, <2>6, <2>7, <2>8, StreamSubscribes
  <1>6. CASE ProcessOther(w)
    BY <1>4, <1>6 DEF ProcessOther, vars, registryVars
  <1>7. CASE ProcessSubscription(w)
    BY <1>2, <1>3, <1>4, <1>5, <1>7 DEF ProcessSubscription, UnknownClient, vars, registryVars
  <1>8. QED
    BY <1>6, <1>7 DEF Process

-------------------------------------------------------------------------------
\* At the start nothing is on its way.
LEMMA StreamStarts == BridgeInit => StreamInv
  BY DEF BridgeInit, Init, EmptyMap, StreamInv, StreamFor, Outgoing

\* No step of any thread or client breaks it.
LEMMA StreamStep ==
    ASSUME Pipelining = FALSE, IInv, BInv, ViewInv, StreamInv, [BridgeNext]_bridgeVars
    PROVE  StreamInv'
  <1>1. IInv' /\ ViewInv'
    BY RegistryStep, StepInvariant, ViewStep DEF BInv
  <1>2. ASSUME NEW h \in Handles, Connection(h) PROVE StreamInv'
    <2>1. CASE ClientSends(h)
      BY <2>1, StreamClientSends
    <2>2. CASE Connects(h)
      BY <2>2, StreamConnects
    <2>3. CASE OnMessage(h)
      BY <2>3, StreamOnMessage
    <2>4. CASE StartWrite(h)
      BY <2>4, StreamStartWrite
    <2>5. CASE Deliver(h)
      BY <1>1, <2>5, StreamDelivers
    <2>6. CASE Closes(h)
      BY <1>1, <2>6, StreamCloses
    <2>7. QED
      BY <1>2, <2>1, <2>2, <2>3, <2>4, <2>5, <2>6 DEF Connection
  <1>3. ASSUME NEW w \in Workers, Process(w) \/ Route(w) PROVE StreamInv'
    BY <1>3, StreamProcesses, StreamRoutes
  <1>4. ASSUME NEW e \in Events, Broadcast(e) PROVE StreamInv'
    BY <1>4, StreamBroadcasts
  <1>5. CASE \/ \E w \in Workers : Throws(w) \/ WorkerEnds(w)
             \/ CallbackFails
             \/ \E e \in Events : CallbackFires(e)
             \/ UNCHANGED bridgeVars
    <2>1. UNCHANGED <<vars, ioState, clientState>>
      BY <1>5 DEF Throws, WorkerEnds, CallbackFails, CallbackFires, bridgeVars, bridgeState
    <2>2. /\ UNCHANGED sessions /\ UNCHANGED queue /\ UNCHANGED wire
          /\ UNCHANGED pending /\ UNCHANGED view
      BY <2>1 DEF vars, registryVars, ioState, clientState
    <2>3. QED
      BY <2>2, StreamUntouched
  <1>6. QED
    BY <1>2, <1>3, <1>4, <1>5, NextIsAllActions DEF AllActions

\* At most one answer to a subscription request is on its way to a client.
LEMMA OneOnTheWay ==
    ASSUME NEW wr \in Seq(Frames), NEW q \in Seq(Frames), Once(wr, Settling), Once(q, Settling),
           Some(q, Settling) => ~Some(wr, Settling)
    PROVE  Once(wr \o q, Settling)
  <1> DEFINE o == wr \o q
  <1>1. /\ Len(o) = Len(wr) + Len(q) /\ Len(wr) \in Nat /\ Len(q) \in Nat
        /\ \A i \in 1 .. Len(o) : o[i] = IF i <= Len(wr) THEN wr[i] ELSE q[i - Len(wr)]
    BY ConcatProperties, LenProperties
  <1>2. ASSUME NEW i \in 1 .. Len(o), o[i].kind \in Settling, i <= Len(wr)
        PROVE  i \in 1 .. Len(wr) /\ wr[i].kind \in Settling
    BY <1>1, <1>2
  <1>3. ASSUME NEW i \in 1 .. Len(o), o[i].kind \in Settling, ~(i <= Len(wr))
        PROVE  i - Len(wr) \in 1 .. Len(q) /\ q[i - Len(wr)].kind \in Settling
    BY <1>1, <1>3
  <1>4. SUFFICES ASSUME NEW i \in 1 .. Len(o), NEW j \in 1 .. Len(o),
                        o[i].kind \in Settling, o[j].kind \in Settling
                 PROVE  i = j
    BY DEF Once
  <1>5. CASE i <= Len(wr) /\ j <= Len(wr)
    BY <1>2, <1>4, <1>5 DEF Once
  <1>6. CASE ~(i <= Len(wr)) /\ ~(j <= Len(wr))
    <2>1. i - Len(wr) = j - Len(wr)
      BY <1>3, <1>4, <1>6 DEF Once
    <2>2. QED
      BY <1>1, <2>1
  <1>7. CASE (i <= Len(wr)) # (j <= Len(wr))
    <2>1. Some(wr, Settling) /\ Some(q, Settling)
      BY <1>2, <1>3, <1>4, <1>7 DEF Some
    <2>2. QED
      BY <2>1
  <1>8. QED
    BY <1>5, <1>6, <1>7

(***************************************************************************)
(* A client that waits for each answer is only sent pushes it can expect   *)
(* at that place in the stream: of an event the last acknowledgement       *)
(* before it lists or, before there is one, that the client believes to    *)
(* have or has asked for.  For any number of clients, workers, callbacks   *)
(* and requests: none follows the answer to an unsubscribe.                *)
(***************************************************************************)
THEOREM WaitingClientsExpectPushes ==
    ASSUME Pipelining = FALSE
    PROVE  BridgeSpec => []PushesAreExpected
  <1>1. BridgeInit => ViewInv /\ StreamInv
    BY ViewStarts, StreamStarts
  <1>2. IInv /\ BInv /\ ViewInv /\ StreamInv /\ [BridgeNext]_bridgeVars => ViewInv' /\ StreamInv'
    BY ViewStep, StreamStep
  <1>3. BInv /\ ViewInv /\ StreamInv => PushesAreExpected
    <2> SUFFICES ASSUME BInv, ViewInv, StreamInv, NEW h \in Handles,
                        NEW i \in DOMAIN Outgoing(h), Outgoing(h)[i].kind = "push"
                 PROVE  Outgoing(h)[i].events \subseteq Expected(h, i) \union Asked(h)
      BY DEF PushesAreExpected
    <2> DEFINE o == Outgoing(h)
               s == sessions[h].subscriptions
               acks == {j \in 1 .. i - 1 : o[j].kind = "ack"}
    <2>1. wire[h] \in Seq(Frames) /\ queue[h] \in Seq(Frames)
      BY PartTypes
    <2>2. o \in Seq(Frames) /\ DOMAIN o = 1 .. Len(o) /\ Len(o) \in Nat
      BY <2>1, ConcatProperties, LenProperties DEF Outgoing
    <2>3. h \in DOMAIN sessions
      <3>1. o # <<>>
        BY <2>2, EmptySeq
      <3>2. QED
        BY <3>1 DEF StreamInv, StreamFor
    <2>4. /\ s \subseteq view[h] \union Asked(h)
          /\ Stream(o, view[h] \union s)
      BY <2>3 DEF StreamInv, StreamFor
    <2>5. /\ o[i].events \subseteq view[h] \union s
          /\ \A j \in acks : o[i].events \subseteq o[j].events
      BY <2>2, <2>4 DEF Stream
    <2>6. CASE acks = {}
      <3>1. Expected(h, i) = view[h]
        BY <2>6 DEF Expected
      <3>2. QED
        BY <2>4, <2>5, <3>1
    <2>7. CASE acks # {}
      <3>1. Once(o, Settling)
        BY <2>1, <2>3, OneOnTheWay DEF ViewInv, ViewFor, GoodFor, OnePlace, Outgoing
      <3>2. PICK a : a \in acks
        BY <2>7
      <3>3. a \in Int /\ \A k \in acks : k <= a
        <4>1. acks \subseteq 1 .. Len(o) /\ acks \subseteq Int
          BY <2>2
        <4>2. \A k \in acks : k = a
          BY <3>1, <3>2, <4>1 DEF Once, Settling
        <4>3. QED
          BY <3>2, <4>1, <4>2
      <3>4. PICK b : b = CHOOSE j \in acks : \A k \in acks : k <= j
        OBVIOUS
      <3>5. b \in acks
        BY <3>2, <3>3, <3>4
      <3>6. Expected(h, i) = o[b].events
        BY <2>7, <3>4 DEF Expected
      <3>7. QED
        BY <2>5, <3>5, <3>6
    <2>8. QED
      BY <2>6, <2>7
  <1>4. QED
    BY <1>1, <1>2, <1>3, BridgeInvariant, PTL DEF BridgeSpec
===============================================================================
