---------------------------- MODULE ClientRegistry ----------------------------
(***************************************************************************)
(* The session registry of WebSocketServer: the three maps guarded by      *)
(* m_clientsMutex, and every handler that reads or writes them.            *)
(*                                                                         *)
(* The websocketpp handlers (OnValidate, OnOpen, OnClose, OnFail) run one  *)
(* after another on the ASIO IO thread; HandleSubscriptionRequest runs on  *)
(* any number of worker threads; the clear at the end of Stop runs on the  *)
(* EuroScope main thread.  Each has one critical section, so each is one   *)
(* atomic action, and Next interleaves them in every order.                *)
(*                                                                         *)
(* The validate and open handlers of one connection are two IO events:     *)
(* websocketpp writes the HTTP response in between, and the handlers of    *)
(* other connections may run meanwhile.                                    *)
(***************************************************************************)
EXTENDS Integers, FiniteSets

CONSTANTS Handles,       \* connection handles (websocketpp::connection_hdl)
          ClientIds,     \* client ids that GenerateClientId may return
          Events,        \* event type names found in subscription requests
          MaxClients,    \* MAX_CLIENTS
          MaxHandshakes  \* bound: connections between validate and open at once

ASSUME LimitsAssumption ==
    /\ MaxClients \in Nat \ {0}
    /\ MaxHandshakes \in Nat \ {0}

VARIABLES conn,               \* what websocketpp has made of each connection
          sessions,           \* m_sessions
          clientIdToHdl,      \* m_clientIdToHdl
          subscriptionCounts, \* m_subscriptionCounts
          issued              \* every client id GenerateClientId has returned

registryVars == <<sessions, clientIdToHdl, subscriptionCounts>>
vars == <<conn, sessions, clientIdToHdl, subscriptionCounts, issued>>

(***************************************************************************)
(* The life of a connection.  "new": nothing said yet.  "handshaking":     *)
(* OnValidate accepted it and the 101 response is being written.           *)
(* "rejected": OnValidate refused it and the error response is being       *)
(* written.  "open": the open handler has run.  "closed": the close or     *)
(* fail handler has run.  A handle names one connection: websocketpp makes *)
(* a new one for every connection and never gives it to another.           *)
(***************************************************************************)
ConnStates == {"new", "handshaking", "rejected", "open", "closed"}
Handshaking == {h \in Handles : conn[h] = "handshaking"}

(***************************************************************************)
(* struct ClientSession.  The constructor leaves handshakeDone true.       *)
(***************************************************************************)
Session(c, E) == [clientId |-> c, handshakeDone |-> TRUE, subscriptions |-> E]

EmptyMap == [x \in {} |-> x]
Without(f, x) == [y \in DOMAIN f \ {x} |-> f[y]]
With(f, x, v) == [y \in DOMAIN f \union {x} |-> IF y = x THEN v ELSE f[y]]

(***************************************************************************)
(* The two loops over an event set that keep the counters: ++ creates a    *)
(* missing entry, -- erases an entry that reaches zero and passes over an  *)
(* event without entry.                                                    *)
(***************************************************************************)
Increment(counts, E) ==
    [e \in DOMAIN counts \union E |->
        (IF e \in DOMAIN counts THEN counts[e] ELSE 0) + (IF e \in E THEN 1 ELSE 0)]

\* Mutant: the loop tests the counter before it decrements it.
Decrement_PostDecrement(counts, E) ==
    [e \in {d \in DOMAIN counts : ~(d \in E /\ counts[d] = 0)} |->
        IF e \in E THEN counts[e] - 1 ELSE counts[e]]

Decrement(counts, E) ==
    [e \in {d \in DOMAIN counts : ~(d \in E /\ counts[d] = 1)} |->
        IF e \in E THEN counts[e] - 1 ELSE counts[e]]

Init == /\ conn = [h \in Handles |-> "new"]
        /\ sessions = EmptyMap
        /\ clientIdToHdl = EmptyMap
        /\ subscriptionCounts = EmptyMap
        /\ issued = {}

-------------------------------------------------------------------------------
(***************************************************************************)
(* OnValidate: refuse the connection when the registry is full.  That at   *)
(* most MaxHandshakes connections are between OnValidate and OnOpen is a   *)
(* bound of the model: the code has no such guard.                         *)
(***************************************************************************)
\* Mutant: the cap is tested with > instead of >=.
OnValidate_OffByOne(h) ==
    /\ conn[h] = "new"
    /\ Cardinality(Handshaking) < MaxHandshakes
    /\ conn' = [conn EXCEPT ![h] = IF Cardinality(DOMAIN sessions) > MaxClients
                                      THEN "rejected" ELSE "handshaking"]
    /\ UNCHANGED <<registryVars, issued>>

OnValidate(h) ==
    /\ conn[h] = "new"
    /\ Cardinality(Handshaking) < MaxHandshakes
    /\ conn' = [conn EXCEPT ![h] = IF Cardinality(DOMAIN sessions) >= MaxClients
                                      THEN "rejected" ELSE "handshaking"]
    /\ UNCHANGED <<registryVars, issued>>

(***************************************************************************)
(* GenerateClientId: a random UUID, so one that was never issued before.   *)
(***************************************************************************)
\* Mutant: ids are only unique among the clients connected now.
GenerateClientId_ReusesIds == ClientIds \ DOMAIN clientIdToHdl

GenerateClientId == ClientIds \ issued

(***************************************************************************)
(* OnOpen: a fresh client id and an empty session for the handle.          *)
(***************************************************************************)
OnOpen(h) ==
    /\ conn[h] = "handshaking"
    /\ conn' = [conn EXCEPT ![h] = "open"]
    /\ \E c \in GenerateClientId :
           /\ issued' = issued \union {c}
           /\ sessions' = With(sessions, h, Session(c, {}))
           /\ clientIdToHdl' = With(clientIdToHdl, c, h)
    /\ UNCHANGED subscriptionCounts

(***************************************************************************)
(* The body OnClose and OnFail share: give back the subscriptions of the   *)
(* session, then erase both entries; nothing when there is no session.     *)
(***************************************************************************)
\* Mutant: the id map keeps its entry.
DropSession_KeepsId(h) ==
    IF h \in DOMAIN sessions
      THEN /\ subscriptionCounts' = Decrement(subscriptionCounts, sessions[h].subscriptions)
           /\ sessions' = Without(sessions, h)
           /\ UNCHANGED clientIdToHdl
      ELSE UNCHANGED registryVars

DropSession(h) ==
    IF h \in DOMAIN sessions
      THEN /\ subscriptionCounts' = Decrement(subscriptionCounts, sessions[h].subscriptions)
           /\ clientIdToHdl' = Without(clientIdToHdl, sessions[h].clientId)
           /\ sessions' = Without(sessions, h)
      ELSE UNCHANGED registryVars

\* Mutant: no close handler is set, only the fail handler.
OnClose_NoHandler(h) ==
    /\ conn[h] = "open"
    /\ conn' = [conn EXCEPT ![h] = "closed"]
    /\ UNCHANGED <<registryVars, issued>>

OnClose(h) ==
    /\ conn[h] = "open"
    /\ conn' = [conn EXCEPT ![h] = "closed"]
    /\ DropSession(h)
    /\ UNCHANGED issued

OnFail(h) ==
    /\ conn[h] \in {"new", "handshaking", "rejected"}
    /\ conn' = [conn EXCEPT ![h] = "closed"]
    /\ DropSession(h)
    /\ UNCHANGED issued

(***************************************************************************)
(* HandleSubscriptionRequest on a worker, for the client id that OnMessage *)
(* wrote into the request; the client may be gone by now, then the request *)
(* is answered "Unknown client" and changes nothing.  An unsubscribe that  *)
(* names no event clears the whole set.                                    *)
(***************************************************************************)
Known(c) == c \in DOMAIN clientIdToHdl /\ clientIdToHdl[c] \in DOMAIN sessions

\* Mutant: every event named is counted, also one the client already has.
Subscribe_CountsAgain(c, E) ==
    /\ Known(c)
    /\ LET h == clientIdToHdl[c]
       IN  /\ sessions' = [sessions EXCEPT ![h].subscriptions = @ \union E]
           /\ subscriptionCounts' = Increment(subscriptionCounts, E)
    /\ UNCHANGED <<conn, clientIdToHdl, issued>>

Subscribe(c, E) ==
    /\ Known(c)
    /\ LET h == clientIdToHdl[c]
           old == sessions[h].subscriptions
       IN  /\ sessions' = [sessions EXCEPT ![h].subscriptions = old \union E]
           /\ subscriptionCounts' = Increment(subscriptionCounts, E \ old)
    /\ UNCHANGED <<conn, clientIdToHdl, issued>>

Unsubscribe(c, E) ==
    /\ Known(c)
    /\ LET h == clientIdToHdl[c]
           old == sessions[h].subscriptions
           gone == IF E = {} THEN old ELSE old \intersect E
       IN  /\ sessions' = [sessions EXCEPT ![h].subscriptions = old \ gone]
           /\ subscriptionCounts' = Decrement(subscriptionCounts, gone)
    /\ UNCHANGED <<conn, clientIdToHdl, issued>>

UnknownClient(c) ==
    /\ ~Known(c)
    /\ UNCHANGED vars

HandleSubscriptionRequest(c) ==
    \/ \E E \in SUBSET Events : Subscribe(c, E) \/ Unsubscribe(c, E)
    \/ UnknownClient(c)

(***************************************************************************)
(* The last block of Stop.  The IO thread is joined and no worker is left, *)
(* but connections may be in any state: the event loop was halted, not     *)
(* drained, and a later Start runs their pending handlers.                 *)
(***************************************************************************)
\* Mutant: the counters survive a stop.
ClearSessions_KeepsCounts ==
    /\ sessions' = EmptyMap
    /\ clientIdToHdl' = EmptyMap
    /\ UNCHANGED <<conn, issued, subscriptionCounts>>

ClearSessions ==
    /\ sessions' = EmptyMap
    /\ clientIdToHdl' = EmptyMap
    /\ subscriptionCounts' = EmptyMap
    /\ UNCHANGED <<conn, issued>>

Next == \/ \E h \in Handles : OnValidate(h) \/ OnOpen(h) \/ OnClose(h) \/ OnFail(h)
        \/ \E c \in issued : HandleSubscriptionRequest(c)
        \/ ClearSessions

Spec == Init /\ [][Next]_vars

(***************************************************************************)
(* The queries made on the registry from other threads.                    *)
(***************************************************************************)
HasSubscribers(e) == e \in DOMAIN subscriptionCounts /\ subscriptionCounts[e] > 0

Recipients(e) == {h \in DOMAIN sessions :
                     sessions[h].handshakeDone /\ e \in sessions[h].subscriptions}

-------------------------------------------------------------------------------
(***************************************************************************)
(* The type invariant.                                                     *)
(***************************************************************************)
TypeOK ==
    /\ conn \in [Handles -> ConnStates]
    /\ issued \subseteq ClientIds
    /\ DOMAIN sessions \subseteq Handles
    /\ IsFiniteSet(DOMAIN sessions)
    /\ sessions \in [DOMAIN sessions -> [clientId : issued, handshakeDone : {TRUE},
                                         subscriptions : SUBSET Events]]
    /\ DOMAIN clientIdToHdl \subseteq issued
    /\ clientIdToHdl \in [DOMAIN clientIdToHdl -> Handles]
    /\ DOMAIN subscriptionCounts \subseteq Events
    /\ subscriptionCounts \in [DOMAIN subscriptionCounts -> Nat \ {0}]

(***************************************************************************)
(* m_sessions and m_clientIdToHdl are the same relation read in the two    *)
(* directions, after any order of opens, closes, failures and clears: a    *)
(* response is routed by the second map to the connection that the first   *)
(* map gave the request's client id to.                                    *)
(***************************************************************************)
IdsMirrorSessions ==
    /\ DOMAIN clientIdToHdl = {sessions[h].clientId : h \in DOMAIN sessions}
    /\ \A h \in DOMAIN sessions : clientIdToHdl[sessions[h].clientId] = h

(***************************************************************************)
(* The counter of an event is the number of sessions subscribed to it, and *)
(* has no entry when there is none: the O(1) answer of HasSubscribers is   *)
(* the answer a walk over the sessions would give, so no callback is       *)
(* skipped that has a subscriber, and no counter leaks when clients leave  *)
(* while subscription requests of theirs are in flight.                    *)
(***************************************************************************)
CountsExact ==
    /\ \A e \in Events : e \in DOMAIN subscriptionCounts <=> Recipients(e) # {}
    /\ \A e \in DOMAIN subscriptionCounts :
           subscriptionCounts[e] = Cardinality(Recipients(e))

(***************************************************************************)
(* Only an open connection has a session: a connection that failed, closed *)
(* or was refused holds no place under the client cap and gets no push.    *)
(***************************************************************************)
SessionsAreOpen == \A h \in DOMAIN sessions : conn[h] = "open"

(***************************************************************************)
(* What the code keeps of the client cap: the registry exceeds MAX_CLIENTS *)
(* by at most the handshakes that overlapped.  With one handshake at a     *)
(* time the cap is exact.                                                  *)
(***************************************************************************)
OvershootBounded ==
    Cardinality(DOMAIN sessions) + Cardinality(Handshaking)
        <= MaxClients - 1 + MaxHandshakes

(***************************************************************************)
(* What Constants.h says of MAX_CLIENTS ("hard cap on concurrent WebSocket *)
(* clients") and the wiki of the server ("New connections beyond the cap   *)
(* are rejected").                                                         *)
(***************************************************************************)
HardClientCap == Cardinality(DOMAIN sessions) <= MaxClients

(***************************************************************************)
(* A client id that has been issued never comes to mean another            *)
(* connection, nor comes back after its session is gone: a response that a *)
(* slow worker routes after its client left reaches nobody, rather than    *)
(* whoever connected since.                                                *)
(***************************************************************************)
IdsNeverReassigned ==
    [][\A c \in issued \intersect DOMAIN clientIdToHdl' :
           c \in DOMAIN clientIdToHdl /\ clientIdToHdl'[c] = clientIdToHdl[c]]_vars

(***************************************************************************)
(* What the maps stand for: the event types of each connected client, and  *)
(* the events HasSubscribers says are wanted.                              *)
(***************************************************************************)
Topics == [c \in DOMAIN clientIdToHdl |-> sessions[clientIdToHdl[c]].subscriptions]
Wanted == {e \in Events : HasSubscribers(e)}

PS == INSTANCE PubSub WITH Clients <- ClientIds, used <- issued,
                           topics <- Topics, wanted <- Wanted

(***************************************************************************)
(* The registry implements the publish/subscribe service: its counters and *)
(* maps always show what PubSub's steps would.                             *)
(***************************************************************************)
ImplementsPubSub == PS!Spec
===============================================================================
