------------------------- MODULE ClientRegistryProofs -------------------------
(***************************************************************************)
(* Proofs about ClientRegistry, for any number of connections, ids and     *)
(* events and any cap.                                                     *)
(***************************************************************************)
EXTENDS ClientRegistry, FiniteSetTheorems, TLAPS

(***************************************************************************)
(* The counter map as a total function of the event.                       *)
(***************************************************************************)
IsCounters(counts) == /\ DOMAIN counts \subseteq Events
                      /\ counts \in [DOMAIN counts -> Nat \ {0}]

CountOf(counts, e) == IF e \in DOMAIN counts THEN counts[e] ELSE 0

CountsByEvent ==
    \A e \in Events : CountOf(subscriptionCounts, e) = Cardinality(Recipients(e))

(***************************************************************************)
(* The inductive invariant.  CountsExact is not inductive alone: giving    *)
(* back the subscriptions of a session is exact only if the session is     *)
(* still counted, which takes the agreement of the two maps, and a new     *)
(* session replaces none because only open connections have one.           *)
(***************************************************************************)
IInv == TypeOK /\ IdsMirrorSessions /\ CountsByEvent /\ SessionsAreOpen

-------------------------------------------------------------------------------
(***************************************************************************)
(* Counting up adds one to every event named, and keeps the map well       *)
(* formed.                                                                 *)
(***************************************************************************)
LEMMA IncrementCounts ==
    ASSUME NEW counts, IsCounters(counts), NEW E \in SUBSET Events
    PROVE  /\ IsCounters(Increment(counts, E))
           /\ \A e \in Events : CountOf(Increment(counts, E), e)
                  = CountOf(counts, e) + (IF e \in E THEN 1 ELSE 0)
  BY DEF IsCounters, CountOf, Increment

(***************************************************************************)
(* Counting down takes one from every event named that has a counter, and  *)
(* leaves no counter at zero.                                              *)
(***************************************************************************)
LEMMA DecrementCounts ==
    ASSUME NEW counts, IsCounters(counts), NEW E \in SUBSET Events
    PROVE  /\ IsCounters(Decrement(counts, E))
           /\ \A e \in Events : CountOf(Decrement(counts, E), e)
                  = IF e \in E /\ CountOf(counts, e) > 0
                      THEN CountOf(counts, e) - 1 ELSE CountOf(counts, e)
  BY DEF IsCounters, CountOf, Decrement

(***************************************************************************)
(* The recipients of an event are finitely many: they are sessions.        *)
(***************************************************************************)
LEMMA RecipientsFinite ==
    ASSUME TypeOK, NEW e
    PROVE  /\ IsFiniteSet(Recipients(e))
           /\ Cardinality(Recipients(e)) \in Nat
           /\ Cardinality(Recipients(e)) = 0 <=> Recipients(e) = {}
  <1>1. IsFiniteSet(DOMAIN sessions) /\ Recipients(e) \in SUBSET DOMAIN sessions
    BY DEF TypeOK, Recipients
  <1>2. IsFiniteSet(Recipients(e))
    BY <1>1, FS_Subset, Zenon
  <1>3. QED
    BY <1>2, FS_CardinalityType, FS_EmptySet

(***************************************************************************)
(* The two ways of saying that the counters are exact.                     *)
(***************************************************************************)
LEMMA CountsByEventIsExact ==
    ASSUME TypeOK, CountsByEvent
    PROVE  CountsExact
  <1>1. \A e \in Events : /\ Cardinality(Recipients(e)) \in Nat
                          /\ Cardinality(Recipients(e)) = 0 <=> Recipients(e) = {}
    BY RecipientsFinite
  <1>2. \A e \in DOMAIN subscriptionCounts : e \in Events /\ subscriptionCounts[e] \in Nat \ {0}
    BY DEF TypeOK
  <1>3. QED
    BY <1>1, <1>2 DEF CountsByEvent, CountOf, CountsExact

-------------------------------------------------------------------------------
\* The empty registry satisfies the invariant.
LEMMA InitInvariant == Init => IInv
  <1> SUFFICES ASSUME Init PROVE IInv
    OBVIOUS
  <1>1. DOMAIN sessions = {} /\ DOMAIN clientIdToHdl = {} /\ DOMAIN subscriptionCounts = {}
    BY DEF Init, EmptyMap
  <1>2. TypeOK
    BY <1>1, FS_EmptySet DEF Init, TypeOK, ConnStates
  <1>3. \A e : Recipients(e) = {}
    BY <1>1 DEF Recipients
  <1>4. CountsByEvent
    BY <1>1, <1>3, FS_EmptySet DEF CountsByEvent, CountOf
  <1>5. QED
    BY <1>1, <1>2, <1>4 DEF IInv, IdsMirrorSessions, SessionsAreOpen

(***************************************************************************)
(* A step that leaves the three maps and the issued ids alone, and closes  *)
(* no connection that has a session.                                       *)
(***************************************************************************)
LEMMA RegistryUntouched ==
    ASSUME IInv, UNCHANGED <<registryVars, issued>>,
           conn' \in [Handles -> ConnStates],
           \A h \in DOMAIN sessions : conn'[h] = "open"
    PROVE  IInv'
  <1> USE DEF registryVars
  <1>1. TypeOK'
    BY DEF IInv, TypeOK
  <1>2. \A e : Recipients(e)' = Recipients(e)
    BY DEF Recipients
  <1>3. CountsByEvent'
    BY <1>2 DEF IInv, CountsByEvent
  <1>4. QED
    BY <1>1, <1>3 DEF IInv, IdsMirrorSessions, SessionsAreOpen

\* OnOpen adds a session and its id to both maps.
LEMMA OnOpenInvariant ==
    ASSUME IInv, NEW h \in Handles, OnOpen(h)
    PROVE  IInv'
  <1>1. PICK c \in ClientIds \ issued :
            /\ issued' = issued \union {c}
            /\ sessions' = With(sessions, h, Session(c, {}))
            /\ clientIdToHdl' = With(clientIdToHdl, c, h)
    BY DEF OnOpen, GenerateClientId
  <1>2. h \notin DOMAIN sessions
    BY DEF IInv, SessionsAreOpen, OnOpen, GenerateClientId
  <1>3. c \notin DOMAIN clientIdToHdl /\ \A g \in DOMAIN sessions : sessions[g].clientId # c
    BY DEF IInv, TypeOK
  <1>4. /\ DOMAIN sessions' = DOMAIN sessions \union {h}
        /\ sessions'[h] = Session(c, {})
        /\ \A g \in DOMAIN sessions : sessions'[g] = sessions[g]
    BY <1>1, <1>2 DEF With
  <1>5. /\ DOMAIN clientIdToHdl' = DOMAIN clientIdToHdl \union {c}
        /\ clientIdToHdl'[c] = h
        /\ \A d \in DOMAIN clientIdToHdl : clientIdToHdl'[d] = clientIdToHdl[d]
    BY <1>1, <1>3 DEF With
  <1>6. TypeOK'
    <2>1. conn' \in [Handles -> ConnStates]
      BY DEF IInv, TypeOK, OnOpen, GenerateClientId, ConnStates
    <2>2. IsFiniteSet(DOMAIN sessions')
      BY <1>4, FS_AddElement DEF IInv, TypeOK
    <2>3. /\ sessions' = [g \in DOMAIN sessions' |-> sessions'[g]]
          /\ clientIdToHdl' = [d \in DOMAIN clientIdToHdl' |-> clientIdToHdl'[d]]
      BY <1>1 DEF With
    <2>4. \A g \in DOMAIN sessions' :
              sessions'[g] \in [clientId : issued', handshakeDone : {TRUE},
                                subscriptions : SUBSET Events]
      <3> SUFFICES ASSUME NEW g \in DOMAIN sessions'
                   PROVE  sessions'[g] \in [clientId : issued', handshakeDone : {TRUE},
                                            subscriptions : SUBSET Events]
        OBVIOUS
      <3>1. CASE g = h
        <4>1. sessions'[g] = [clientId |-> c, handshakeDone |-> TRUE, subscriptions |-> {}]
          BY <1>4, <3>1 DEF Session
        <4>2. c \in issued' /\ TRUE \in {TRUE} /\ {} \in SUBSET Events
          BY <1>1
        <4>3. QED
          BY <4>1, <4>2
      <3>2. CASE g \in DOMAIN sessions
        <4>1. sessions[g] \in [clientId : issued, handshakeDone : {TRUE},
                               subscriptions : SUBSET Events]
          BY <3>2 DEF IInv, TypeOK
        <4>2. QED
          BY <1>1, <1>4, <3>2, <4>1
      <3>3. QED
        BY <1>4, <3>1, <3>2
    <2>5. \A d \in DOMAIN clientIdToHdl' : clientIdToHdl'[d] \in Handles
      BY <1>5 DEF IInv, TypeOK
    <2>6. issued' \subseteq ClientIds /\ DOMAIN clientIdToHdl' \subseteq issued'
          /\ DOMAIN sessions' \subseteq Handles
      BY <1>1, <1>4, <1>5 DEF IInv, TypeOK
    <2>7. UNCHANGED subscriptionCounts
      BY DEF OnOpen, GenerateClientId
    <2>8. QED
      BY <2>1, <2>2, <2>3, <2>4, <2>5, <2>6, <2>7 DEF IInv, TypeOK
  <1>7. IdsMirrorSessions'
    BY <1>2, <1>3, <1>4, <1>5 DEF IInv, IdsMirrorSessions, Session
  <1>8. CountsByEvent'
    <2>1. \A e : Recipients(e)' = Recipients(e)
      BY <1>2, <1>4 DEF Recipients, Session
    <2>2. QED
      BY <2>1 DEF IInv, CountsByEvent, OnOpen, GenerateClientId
  <1>9. SessionsAreOpen'
    BY <1>4 DEF IInv, SessionsAreOpen, OnOpen, GenerateClientId, TypeOK
  <1>10. QED
    BY <1>6, <1>7, <1>8, <1>9 DEF IInv

\* OnClose and OnFail give back what the session held.
LEMMA DropSessionInvariant ==
    ASSUME IInv, NEW h \in Handles, DropSession(h), UNCHANGED issued,
           conn' = [conn EXCEPT ![h] = "closed"]
    PROVE  IInv'
  <1>0. conn' \in [Handles -> ConnStates] /\ \A g \in Handles \ {h} : conn'[g] = conn[g]
    BY DEF IInv, TypeOK, ConnStates
  <1>1. CASE h \notin DOMAIN sessions
    <2>1. UNCHANGED registryVars
      BY <1>1 DEF DropSession
    <2>2. \A g \in DOMAIN sessions : conn'[g] = "open"
      BY <1>0, <1>1 DEF IInv, TypeOK, SessionsAreOpen
    <2>3. QED
      BY <1>0, <2>1, <2>2, RegistryUntouched
  <1>2. CASE h \in DOMAIN sessions
    <2> DEFINE c == sessions[h].clientId
               E == sessions[h].subscriptions
    <2>1. /\ subscriptionCounts' = Decrement(subscriptionCounts, E)
          /\ clientIdToHdl' = Without(clientIdToHdl, c)
          /\ sessions' = Without(sessions, h)
      BY <1>2 DEF DropSession
    <2>2. c \in issued /\ E \in SUBSET Events /\ sessions[h].handshakeDone = TRUE
      BY <1>2 DEF IInv, TypeOK
    <2>3. /\ DOMAIN sessions' = DOMAIN sessions \ {h}
          /\ \A g \in DOMAIN sessions' : sessions'[g] = sessions[g]
      BY <2>1 DEF Without
    <2>4. /\ DOMAIN clientIdToHdl' = DOMAIN clientIdToHdl \ {c}
          /\ \A d \in DOMAIN clientIdToHdl' : clientIdToHdl'[d] = clientIdToHdl[d]
      BY <2>1 DEF Without
    <2>5. IsCounters(subscriptionCounts)
      BY DEF IInv, TypeOK, IsCounters
    <2>6. /\ IsCounters(subscriptionCounts')
          /\ \A e \in Events : CountOf(subscriptionCounts', e)
                 = IF e \in E /\ CountOf(subscriptionCounts, e) > 0
                     THEN CountOf(subscriptionCounts, e) - 1
                     ELSE CountOf(subscriptionCounts, e)
      BY <2>1, <2>2, <2>5, DecrementCounts
    <2>7. TypeOK'
      <3>1. IsFiniteSet(DOMAIN sessions')
        BY <2>3, FS_RemoveElement DEF IInv, TypeOK
      <3>2. sessions' \in [DOMAIN sessions' -> [clientId : issued', handshakeDone : {TRUE},
                                                subscriptions : SUBSET Events]]
        BY <2>1, <2>3 DEF IInv, TypeOK, Without
      <3>3. clientIdToHdl' \in [DOMAIN clientIdToHdl' -> Handles]
        BY <2>1, <2>4 DEF IInv, TypeOK, Without
      <3>4. QED
        BY <1>0, <2>3, <2>4, <2>6, <3>1, <3>2, <3>3 DEF IInv, TypeOK, IsCounters
    <2>8. IdsMirrorSessions'
      BY <1>2, <2>3, <2>4 DEF IInv, IdsMirrorSessions
    <2>9. CountsByEvent'
      <3> SUFFICES ASSUME NEW e \in Events
                   PROVE  CountOf(subscriptionCounts', e) = Cardinality(Recipients(e)')
        BY DEF CountsByEvent
      <3>1. Recipients(e)' = Recipients(e) \ {h}
        BY <2>3 DEF Recipients
      <3>2. h \in Recipients(e) <=> e \in E
        BY <1>2, <2>2 DEF Recipients
      <3>3. IsFiniteSet(Recipients(e)) /\ Cardinality(Recipients(e)) \in Nat
            /\ (Cardinality(Recipients(e)) = 0 <=> Recipients(e) = {})
        BY RecipientsFinite DEF IInv
      <3>4. Cardinality(Recipients(e)') = IF e \in E THEN Cardinality(Recipients(e)) - 1
                                                     ELSE Cardinality(Recipients(e))
        BY <3>1, <3>2, <3>3, FS_RemoveElement
      <3>5. CountOf(subscriptionCounts, e) = Cardinality(Recipients(e))
        BY DEF IInv, CountsByEvent
      <3>6. e \in E => Cardinality(Recipients(e)) > 0
        BY <3>2, <3>3
      <3>7. QED
        BY <2>6, <3>3, <3>4, <3>5, <3>6
    <2>10. SessionsAreOpen'
      BY <1>0, <2>3 DEF IInv, TypeOK, SessionsAreOpen
    <2>11. QED
      BY <2>7, <2>8, <2>9, <2>10 DEF IInv
  <1>3. QED
    BY <1>1, <1>2

(***************************************************************************)
(* A step that changes the subscriptions of one session and nothing else   *)
(* but the counters.                                                       *)
(***************************************************************************)
LEMMA ResubscribeInvariant ==
    ASSUME IInv, NEW h \in DOMAIN sessions, NEW E \in SUBSET Events,
           sessions' = [sessions EXCEPT ![h].subscriptions = E],
           UNCHANGED <<conn, clientIdToHdl, issued>>,
           IsCounters(subscriptionCounts'),
           \A e \in Events :
               CountOf(subscriptionCounts', e) = CountOf(subscriptionCounts, e)
                   + (IF e \in E THEN 1 ELSE 0)
                   - (IF e \in sessions[h].subscriptions THEN 1 ELSE 0)
    PROVE  IInv'
  <1>1. sessions[h] \in [clientId : issued, handshakeDone : {TRUE}, subscriptions : SUBSET Events]
    BY DEF IInv, TypeOK
  <1>2. /\ DOMAIN sessions' = DOMAIN sessions
        /\ sessions' = [g \in DOMAIN sessions |-> sessions'[g]]
        /\ \A g \in DOMAIN sessions \ {h} : sessions'[g] = sessions[g]
        /\ sessions'[h] = [sessions[h] EXCEPT !.subscriptions = E]
    BY DEF IInv, TypeOK
  <1>3. /\ sessions'[h].clientId = sessions[h].clientId
        /\ sessions'[h].handshakeDone = TRUE
        /\ sessions'[h].subscriptions = E
        /\ sessions'[h] \in [clientId : issued, handshakeDone : {TRUE},
                             subscriptions : SUBSET Events]
    BY <1>1, <1>2
  <1>4. TypeOK'
    <2>1. \A g \in DOMAIN sessions : sessions'[g] \in
              [clientId : issued, handshakeDone : {TRUE}, subscriptions : SUBSET Events]
      BY <1>2, <1>3 DEF IInv, TypeOK
    <2>2. sessions' \in [DOMAIN sessions' -> [clientId : issued', handshakeDone : {TRUE},
                                              subscriptions : SUBSET Events]]
      BY <1>2, <2>1
    <2>3. QED
      BY <1>2, <2>2 DEF IInv, TypeOK, IsCounters
  <1>5. \A g \in DOMAIN sessions : sessions'[g].clientId = sessions[g].clientId
    BY <1>2, <1>3
  <1>6. IdsMirrorSessions'
    BY <1>2, <1>5 DEF IInv, IdsMirrorSessions
  <1>7. CountsByEvent'
    <2> SUFFICES ASSUME NEW e \in Events
                 PROVE  CountOf(subscriptionCounts', e) = Cardinality(Recipients(e)')
      BY DEF CountsByEvent
    <2>1. Recipients(e)' = IF e \in E THEN Recipients(e) \union {h} ELSE Recipients(e) \ {h}
      BY <1>2, <1>3 DEF Recipients
    <2>2. h \in Recipients(e) <=> e \in sessions[h].subscriptions
      BY <1>1 DEF Recipients
    <2>3. IsFiniteSet(Recipients(e)) /\ Cardinality(Recipients(e)) \in Nat
      BY RecipientsFinite DEF IInv
    <2>4. Cardinality(Recipients(e)') = Cardinality(Recipients(e))
              + (IF e \in E THEN 1 ELSE 0) - (IF h \in Recipients(e) THEN 1 ELSE 0)
      <3>1. Cardinality(Recipients(e) \union {h}) =
                IF h \in Recipients(e) THEN Cardinality(Recipients(e))
                                       ELSE Cardinality(Recipients(e)) + 1
        BY <2>3, FS_AddElement, Zenon
      <3>2. Cardinality(Recipients(e) \ {h}) =
                IF h \in Recipients(e) THEN Cardinality(Recipients(e)) - 1
                                       ELSE Cardinality(Recipients(e))
        BY <2>3, FS_RemoveElement, Zenon
      <3>3. CASE e \in E
        <4>1. Recipients(e)' = Recipients(e) \union {h}
          BY <2>1, <3>3
        <4>2. QED
          BY <2>3, <3>1, <3>3, <4>1
      <3>4. CASE e \notin E
        <4>1. Recipients(e)' = Recipients(e) \ {h}
          BY <2>1, <3>4
        <4>2. QED
          BY <2>3, <3>2, <3>4, <4>1
      <3>5. QED
        BY <3>3, <3>4
    <2>5. CountOf(subscriptionCounts, e) = Cardinality(Recipients(e))
      BY DEF IInv, CountsByEvent
    <2>6. QED
      BY <2>2, <2>4, <2>5
  <1>8. SessionsAreOpen'
    BY <1>2 DEF IInv, SessionsAreOpen
  <1>9. QED
    BY <1>4, <1>6, <1>7, <1>8 DEF IInv

\* Only events that are new in the session are counted.
LEMMA SubscribeInvariant ==
    ASSUME IInv, NEW c \in issued, NEW E \in SUBSET Events, Subscribe(c, E)
    PROVE  IInv'
  <1> DEFINE h == clientIdToHdl[c]
             old == sessions[h].subscriptions
  <1>1. h \in DOMAIN sessions
    BY DEF Subscribe, Known
  <1>2. old \in SUBSET Events /\ IsCounters(subscriptionCounts)
    BY <1>1 DEF IInv, TypeOK, IsCounters
  <1>3. /\ sessions' = [sessions EXCEPT ![h].subscriptions = old \union E]
        /\ subscriptionCounts' = Increment(subscriptionCounts, E \ old)
        /\ UNCHANGED <<conn, clientIdToHdl, issued>>
    BY DEF Subscribe
  <1>4. /\ IsCounters(subscriptionCounts')
        /\ \A e \in Events : CountOf(subscriptionCounts', e)
               = CountOf(subscriptionCounts, e) + (IF e \in E \ old THEN 1 ELSE 0)
    BY <1>2, <1>3, IncrementCounts
  <1>5. \A e \in Events : CountOf(subscriptionCounts, e) \in Nat
    BY <1>2 DEF IsCounters, CountOf
  <1>6. \A e \in Events :
            CountOf(subscriptionCounts', e) = CountOf(subscriptionCounts, e)
                + (IF e \in old \union E THEN 1 ELSE 0) - (IF e \in old THEN 1 ELSE 0)
    BY <1>4, <1>5
  <1> HIDE DEF h, old
  <1>7. old \union E \in SUBSET Events
    BY <1>2
  <1>8. QED
    BY <1>1, <1>3, <1>4, <1>6, <1>7, ResubscribeInvariant DEF old

\* Only events that were in the session are given back.
LEMMA UnsubscribeInvariant ==
    ASSUME IInv, NEW c \in issued, NEW E \in SUBSET Events, Unsubscribe(c, E)
    PROVE  IInv'
  <1> DEFINE h == clientIdToHdl[c]
             old == sessions[h].subscriptions
             gone == IF E = {} THEN old ELSE old \intersect E
  <1>1. h \in DOMAIN sessions
    BY DEF Unsubscribe, Known
  <1>2. old \in SUBSET Events /\ gone \in SUBSET old /\ IsCounters(subscriptionCounts)
    BY <1>1 DEF IInv, TypeOK, IsCounters
  <1>3. /\ sessions' = [sessions EXCEPT ![h].subscriptions = old \ gone]
        /\ subscriptionCounts' = Decrement(subscriptionCounts, gone)
        /\ UNCHANGED <<conn, clientIdToHdl, issued>>
    BY DEF Unsubscribe
  <1> HIDE DEF gone
  <1>4. /\ IsCounters(subscriptionCounts')
        /\ \A e \in Events : CountOf(subscriptionCounts', e)
               = IF e \in gone /\ CountOf(subscriptionCounts, e) > 0
                   THEN CountOf(subscriptionCounts, e) - 1 ELSE CountOf(subscriptionCounts, e)
    BY <1>2, <1>3, DecrementCounts
  <1>5. \A e \in Events : CountOf(subscriptionCounts, e) \in Nat
    BY <1>2 DEF IsCounters, CountOf
  <1>6. \A e \in old : CountOf(subscriptionCounts, e) > 0
    <2> SUFFICES ASSUME NEW e \in old
                 PROVE  CountOf(subscriptionCounts, e) > 0
      OBVIOUS
    <2>1. h \in Recipients(e)
      BY <1>1 DEF IInv, TypeOK, Recipients
    <2>2. Cardinality(Recipients(e)) \in Nat \ {0}
      BY <2>1, RecipientsFinite DEF IInv
    <2>3. QED
      BY <1>2, <2>2 DEF IInv, CountsByEvent
  <1>7. \A e \in Events :
            CountOf(subscriptionCounts', e) = CountOf(subscriptionCounts, e)
                + (IF e \in old \ gone THEN 1 ELSE 0) - (IF e \in old THEN 1 ELSE 0)
    BY <1>2, <1>4, <1>5, <1>6
  <1> HIDE DEF h, old
  <1>8. old \ gone \in SUBSET Events
    BY <1>2
  <1>9. QED
    BY <1>1, <1>3, <1>4, <1>7, <1>8, ResubscribeInvariant DEF old

\* Stop clears the three maps together.
LEMMA ClearSessionsInvariant ==
    ASSUME IInv, ClearSessions
    PROVE  IInv'
  <1>1. DOMAIN sessions' = {} /\ DOMAIN clientIdToHdl' = {} /\ DOMAIN subscriptionCounts' = {}
    BY DEF ClearSessions, EmptyMap
  <1>2. TypeOK'
    BY <1>1, FS_EmptySet DEF IInv, TypeOK, ClearSessions, EmptyMap
  <1>3. \A e : Recipients(e)' = {}
    BY <1>1 DEF Recipients
  <1>4. CountsByEvent'
    BY <1>1, <1>3, FS_EmptySet DEF CountsByEvent, CountOf
  <1>5. QED
    BY <1>1, <1>2, <1>4 DEF IInv, IdsMirrorSessions, SessionsAreOpen

(***************************************************************************)
(* Every step keeps the invariant: one step per action.                    *)
(***************************************************************************)
LEMMA StepInvariant == IInv /\ [Next]_vars => IInv'
  <1> SUFFICES ASSUME IInv, [Next]_vars PROVE IInv'
    OBVIOUS
  <1>1. ASSUME NEW h \in Handles, OnValidate(h) PROVE IInv'
    <2>1. conn' \in [Handles -> ConnStates] /\ \A g \in Handles \ {h} : conn'[g] = conn[g]
      BY <1>1 DEF OnValidate, IInv, TypeOK, ConnStates
    <2>2. h \notin DOMAIN sessions
      BY <1>1 DEF OnValidate, IInv, SessionsAreOpen
    <2>3. \A g \in DOMAIN sessions : conn'[g] = "open"
      BY <2>1, <2>2 DEF IInv, TypeOK, SessionsAreOpen
    <2>4. QED
      BY <1>1, <2>1, <2>3, RegistryUntouched DEF OnValidate
  <1>2. ASSUME NEW h \in Handles, OnOpen(h) PROVE IInv'
    BY <1>2, OnOpenInvariant
  <1>3. ASSUME NEW h \in Handles, OnClose(h) PROVE IInv'
    BY <1>3, DropSessionInvariant DEF OnClose
  <1>4. ASSUME NEW h \in Handles, OnFail(h) PROVE IInv'
    BY <1>4, DropSessionInvariant DEF OnFail
  <1>5. ASSUME NEW c \in issued, NEW E \in SUBSET Events, Subscribe(c, E) PROVE IInv'
    BY <1>5, SubscribeInvariant
  <1>6. ASSUME NEW c \in issued, NEW E \in SUBSET Events, Unsubscribe(c, E) PROVE IInv'
    BY <1>6, UnsubscribeInvariant
  <1>7. CASE ClearSessions
    BY <1>7, ClearSessionsInvariant
  <1>8. CASE UNCHANGED vars
    <2>1. conn' \in [Handles -> ConnStates] /\ \A h \in DOMAIN sessions : conn'[h] = "open"
      BY <1>8 DEF vars, IInv, TypeOK, SessionsAreOpen
    <2>2. UNCHANGED <<registryVars, issued>>
      BY <1>8 DEF vars, registryVars
    <2>3. QED
      BY <2>1, <2>2, RegistryUntouched
  <1>9. QED
    BY <1>1, <1>2, <1>3, <1>4, <1>5, <1>6, <1>7, <1>8
       DEF Next, HandleSubscriptionRequest, UnknownClient

(***************************************************************************)
(* The registry keeps its inductive invariant.                             *)
(***************************************************************************)
THEOREM RegistryInvariant == Spec => []IInv
  <1>1. Init => IInv
    BY InitInvariant
  <1>2. IInv /\ [Next]_vars => IInv'
    BY StepInvariant
  <1>3. QED
    BY <1>1, <1>2, PTL DEF Spec

(***************************************************************************)
(* Type correctness.                                                       *)
(***************************************************************************)
THEOREM TypeCorrect == Spec => []TypeOK
  <1>1. IInv => TypeOK
    BY DEF IInv
  <1>2. QED
    BY <1>1, RegistryInvariant, PTL

(***************************************************************************)
(* The two maps of the registry always agree, for any number of clients.   *)
(***************************************************************************)
THEOREM MapsAgree == Spec => []IdsMirrorSessions
  <1>1. IInv => IdsMirrorSessions
    BY DEF IInv
  <1>2. QED
    BY <1>1, RegistryInvariant, PTL

(***************************************************************************)
(* The subscription counters are exact, for any number of clients, events  *)
(* and requests: HasSubscribers never skips a callback wrongly.            *)
(***************************************************************************)
THEOREM CountersExact == Spec => []CountsExact
  <1>1. IInv => CountsExact
    BY CountsByEventIsExact DEF IInv
  <1>2. QED
    BY <1>1, RegistryInvariant, PTL

(***************************************************************************)
(* Only open connections have sessions.                                    *)
(***************************************************************************)
THEOREM OnlyOpenHaveSessions == Spec => []SessionsAreOpen
  <1>1. IInv => SessionsAreOpen
    BY DEF IInv
  <1>2. QED
    BY <1>1, RegistryInvariant, PTL

-------------------------------------------------------------------------------
(***************************************************************************)
(* The client cap.  Validating takes a place among the handshakes, opening *)
(* turns that place into a session, so their sum only grows in OnValidate, *)
(* which has just seen fewer sessions than the cap.                        *)
(***************************************************************************)
CapInv == /\ IsFiniteSet(Handshaking)
          /\ Cardinality(Handshaking) <= MaxHandshakes
          /\ OvershootBounded

\* Validating, opening and closing keep the bound on the overshoot.
LEMMA CapStep == TypeOK /\ SessionsAreOpen /\ CapInv /\ [Next]_vars => CapInv'
  <1> SUFFICES ASSUME TypeOK, SessionsAreOpen, CapInv, [Next]_vars PROVE CapInv'
    OBVIOUS
  <1> DEFINE S == Cardinality(DOMAIN sessions)
             H == Cardinality(Handshaking)
  <1>1. S \in Nat /\ H \in Nat /\ S + H <= MaxClients - 1 + MaxHandshakes /\ H <= MaxHandshakes
        /\ IsFiniteSet(Handshaking) /\ IsFiniteSet(DOMAIN sessions)
    BY FS_CardinalityType DEF TypeOK, CapInv, OvershootBounded
  <1>2. MaxClients \in Nat \ {0} /\ MaxHandshakes \in Nat \ {0}
    BY LimitsAssumption
  <1>3. SUFFICES /\ IsFiniteSet(Handshaking') /\ IsFiniteSet(DOMAIN sessions')
                 /\ Cardinality(Handshaking') <= MaxHandshakes
                 /\ Cardinality(DOMAIN sessions') + Cardinality(Handshaking')
                        <= MaxClients - 1 + MaxHandshakes
    BY DEF CapInv, OvershootBounded
  <1> HIDE DEF S, H
  <1>4. ASSUME NEW h \in Handles, OnValidate(h)
        PROVE  /\ IsFiniteSet(Handshaking') /\ IsFiniteSet(DOMAIN sessions')
               /\ Cardinality(Handshaking') <= MaxHandshakes
               /\ Cardinality(DOMAIN sessions') + Cardinality(Handshaking')
                      <= MaxClients - 1 + MaxHandshakes
    <2>1. sessions' = sessions /\ H < MaxHandshakes /\ h \notin Handshaking
      BY <1>4 DEF OnValidate, registryVars, Handshaking, H
    <2>2. CASE S >= MaxClients
      <3>1. Handshaking' = Handshaking
        BY <1>4, <2>2 DEF OnValidate, Handshaking, TypeOK, S
      <3>2. QED
        BY <1>1, <2>1, <3>1 DEF S, H
    <2>3. CASE S < MaxClients
      <3>1. conn' = [conn EXCEPT ![h] = "handshaking"]
        <4>1. ~(Cardinality(DOMAIN sessions) >= MaxClients)
          BY <1>1, <1>2, <2>3 DEF S
        <4>2. QED
          BY <1>4, <4>1, Zenon DEF OnValidate
      <3>2. Handshaking' = Handshaking \union {h}
        BY <3>1 DEF Handshaking, TypeOK
      <3>3. IsFiniteSet(Handshaking') /\ Cardinality(Handshaking') = H + 1
        BY <1>1, <2>1, <3>2, FS_AddElement DEF H
      <3>4. QED
        BY <1>1, <1>2, <2>1, <2>3, <3>3 DEF S
    <2>4. QED
      BY <1>1, <1>2, <2>2, <2>3
  <1>5. ASSUME NEW h \in Handles, OnOpen(h)
        PROVE  /\ IsFiniteSet(Handshaking') /\ IsFiniteSet(DOMAIN sessions')
               /\ Cardinality(Handshaking') <= MaxHandshakes
               /\ Cardinality(DOMAIN sessions') + Cardinality(Handshaking')
                      <= MaxClients - 1 + MaxHandshakes
    <2>1. h \in Handshaking /\ h \notin DOMAIN sessions
      BY <1>5 DEF OnOpen, GenerateClientId, Handshaking, SessionsAreOpen
    <2>2. Handshaking' = Handshaking \ {h}
      BY <1>5 DEF OnOpen, GenerateClientId, Handshaking, TypeOK
    <2>3. DOMAIN sessions' = DOMAIN sessions \union {h}
      BY <1>5 DEF OnOpen, GenerateClientId, With
    <2>4. IsFiniteSet(Handshaking') /\ Cardinality(Handshaking') = H - 1
      BY <1>1, <2>1, <2>2, FS_RemoveElement DEF H
    <2>5. IsFiniteSet(DOMAIN sessions') /\ Cardinality(DOMAIN sessions') = S + 1
      BY <1>1, <2>1, <2>3, FS_AddElement DEF S
    <2>6. QED
      BY <1>1, <1>2, <2>4, <2>5
  <1>6. ASSUME Handshaking' \in SUBSET Handshaking, DOMAIN sessions' \in SUBSET DOMAIN sessions
        PROVE  /\ IsFiniteSet(Handshaking') /\ IsFiniteSet(DOMAIN sessions')
               /\ Cardinality(Handshaking') <= MaxHandshakes
               /\ Cardinality(DOMAIN sessions') + Cardinality(Handshaking')
                      <= MaxClients - 1 + MaxHandshakes
    <2>1. IsFiniteSet(Handshaking') /\ Cardinality(Handshaking') <= H
      BY <1>1, <1>6, FS_Subset DEF H
    <2>2. IsFiniteSet(DOMAIN sessions') /\ Cardinality(DOMAIN sessions') <= S
      BY <1>1, <1>6, FS_Subset DEF S
    <2>3. Cardinality(Handshaking') \in Nat /\ Cardinality(DOMAIN sessions') \in Nat
      BY <2>1, <2>2, FS_CardinalityType
    <2>4. QED
      BY <1>1, <1>2, <2>1, <2>2, <2>3
  <1>7. ASSUME NEW h \in Handles, OnClose(h) \/ OnFail(h)
        PROVE  Handshaking' \in SUBSET Handshaking /\ DOMAIN sessions' \in SUBSET DOMAIN sessions
    <2>1. Handshaking' \in SUBSET Handshaking
      BY <1>7 DEF OnClose, OnFail, Handshaking, TypeOK
    <2>2. DOMAIN sessions' \in SUBSET DOMAIN sessions
      BY <1>7 DEF OnClose, OnFail, DropSession, Without, registryVars
    <2>3. QED
      BY <2>1, <2>2
  <1>8. ASSUME NEW c \in issued, HandleSubscriptionRequest(c)
        PROVE  Handshaking' \in SUBSET Handshaking /\ DOMAIN sessions' \in SUBSET DOMAIN sessions
    BY <1>8 DEF HandleSubscriptionRequest, Subscribe, Unsubscribe, UnknownClient, vars,
                Handshaking, TypeOK
  <1>9. ASSUME ClearSessions \/ UNCHANGED vars
        PROVE  Handshaking' \in SUBSET Handshaking /\ DOMAIN sessions' \in SUBSET DOMAIN sessions
    BY <1>9 DEF ClearSessions, EmptyMap, vars, Handshaking
  <1>10. QED
    BY <1>4, <1>5, <1>6, <1>7, <1>8, <1>9 DEF Next

(***************************************************************************)
(* The client cap is exceeded by at most the handshakes that overlap.      *)
(***************************************************************************)
THEOREM CapOvershoot == Spec => []OvershootBounded
  <1>1. Init => CapInv
    <2> SUFFICES ASSUME Init PROVE CapInv
      OBVIOUS
    <2>1. Handshaking = {} /\ DOMAIN sessions = {}
      BY DEF Init, Handshaking, EmptyMap
    <2>2. QED
      BY <2>1, FS_EmptySet, LimitsAssumption DEF CapInv, OvershootBounded
  <1>2. CapInv => OvershootBounded
    BY DEF CapInv
  <1>3. QED
    BY <1>1, <1>2, CapStep, TypeCorrect, OnlyOpenHaveSessions, PTL DEF Spec

-------------------------------------------------------------------------------
(***************************************************************************)
(* What a step does to the ids: none that was issued is entered or         *)
(* changed in the map, and none is forgotten.                              *)
(***************************************************************************)
KeepsIds == \A c \in issued \intersect DOMAIN clientIdToHdl' :
                c \in DOMAIN clientIdToHdl /\ clientIdToHdl'[c] = clientIdToHdl[c]

\* No step re-issues an id or makes it name another connection.
LEMMA IdsKept == [Next]_vars => KeepsIds /\ issued \subseteq issued'
  <1> SUFFICES ASSUME [Next]_vars PROVE KeepsIds /\ issued \subseteq issued'
    OBVIOUS
  <1>1. ASSUME NEW h \in Handles, OnOpen(h) PROVE KeepsIds /\ issued \subseteq issued'
    BY <1>1 DEF OnOpen, GenerateClientId, With, KeepsIds
  <1>2. ASSUME NEW h \in Handles, OnClose(h) \/ OnFail(h)
        PROVE  KeepsIds /\ issued \subseteq issued'
    BY <1>2 DEF OnClose, OnFail, DropSession, Without, registryVars, KeepsIds
  <1>3. ASSUME UNCHANGED <<clientIdToHdl, issued>> PROVE KeepsIds /\ issued \subseteq issued'
    BY <1>3 DEF KeepsIds
  <1>4. ASSUME NEW h \in Handles, OnValidate(h) PROVE UNCHANGED <<clientIdToHdl, issued>>
    BY <1>4 DEF OnValidate, registryVars
  <1>5. ASSUME NEW c \in issued, HandleSubscriptionRequest(c)
        PROVE  UNCHANGED <<clientIdToHdl, issued>>
    BY <1>5 DEF HandleSubscriptionRequest, Subscribe, Unsubscribe, UnknownClient, vars
  <1>6. CASE ClearSessions
    BY <1>6 DEF ClearSessions, EmptyMap, KeepsIds
  <1>7. QED
    BY <1>1, <1>2, <1>3, <1>4, <1>5, <1>6 DEF Next, vars

(***************************************************************************)
(* An id that was issued never comes to name another connection.           *)
(***************************************************************************)
THEOREM NeverReassigned == Spec => IdsNeverReassigned
  <1>1. [Next]_vars => [KeepsIds]_vars
    BY IdsKept
  <1>2. QED
    BY <1>1, PTL DEF Spec, IdsNeverReassigned, KeepsIds

-------------------------------------------------------------------------------
(***************************************************************************)
(* The refinement.  The exactness of the counters makes "wanted" follow    *)
(* from "topics", which is all that PubSub's Become asks for.              *)
(***************************************************************************)
LEMMA WantedIsWantedByTopics == IInv => Wanted = PS!WantedBy(Topics)
  <1> SUFFICES ASSUME IInv PROVE Wanted = PS!WantedBy(Topics)
    OBVIOUS
  <1>1. \A e \in Events : HasSubscribers(e) <=> Recipients(e) # {}
    <2>1. CountsExact
      BY CountsByEventIsExact DEF IInv
    <2>2. \A e \in DOMAIN subscriptionCounts : subscriptionCounts[e] > 0
      BY DEF IInv, TypeOK
    <2>3. QED
      BY <2>1, <2>2 DEF CountsExact, HasSubscribers
  <1>2. \A c \in DOMAIN clientIdToHdl :
            clientIdToHdl[c] \in DOMAIN sessions
    BY DEF IInv, IdsMirrorSessions
  <1>3. \A e \in Events : Recipients(e) # {} <=> \E c \in DOMAIN Topics : e \in Topics[c]
    <2> SUFFICES ASSUME NEW e \in Events
                 PROVE  Recipients(e) # {} <=> \E c \in DOMAIN Topics : e \in Topics[c]
      OBVIOUS
    <2>1. ASSUME NEW h \in Recipients(e)
          PROVE  \E c \in DOMAIN Topics : e \in Topics[c]
      <3>1. h \in DOMAIN sessions /\ e \in sessions[h].subscriptions
        BY DEF Recipients
      <3>2. sessions[h].clientId \in DOMAIN Topics
            /\ Topics[sessions[h].clientId] = sessions[h].subscriptions
        BY <3>1 DEF IInv, IdsMirrorSessions, Topics
      <3>3. QED
        BY <3>1, <3>2
    <2>2. ASSUME NEW c \in DOMAIN Topics, e \in Topics[c]
          PROVE  clientIdToHdl[c] \in Recipients(e)
      <3>1. c \in DOMAIN clientIdToHdl /\ clientIdToHdl[c] \in DOMAIN sessions
        BY <1>2 DEF Topics
      <3>2. sessions[clientIdToHdl[c]].handshakeDone = TRUE
        BY <3>1 DEF IInv, TypeOK
      <3>3. QED
        BY <2>2, <3>1, <3>2 DEF Topics, Recipients
    <2>3. QED
      BY <2>1, <2>2
  <1>4. QED
    BY <1>1, <1>3 DEF Wanted, PS!WantedBy

\* The empty registry is the empty service.
LEMMA RefinementInit == Init => PS!Init
  <1> SUFFICES ASSUME Init PROVE PS!Init
    OBVIOUS
  <1>1. DOMAIN clientIdToHdl = {} /\ DOMAIN subscriptionCounts = {} /\ issued = {}
    BY DEF Init, EmptyMap
  <1>2. Topics = [c \in {} |-> {}]
    BY <1>1 DEF Topics
  <1>3. Wanted = {}
    BY <1>1 DEF Wanted, HasSubscribers
  <1>4. QED
    BY <1>1, <1>2, <1>3 DEF PS!Init

(***************************************************************************)
(* Opening a connection is Connect, losing it is Disconnect, and a         *)
(* subscription request is the abstract one; the rest stutters.            *)
(***************************************************************************)
LEMMA RefinementStep == IInv /\ IInv' /\ [Next]_vars => [PS!Next]_(PS!vars)
  <1> SUFFICES ASSUME IInv, IInv', [Next]_vars
               PROVE  PS!Next \/ UNCHANGED <<issued, Topics, Wanted>>
    BY DEF PS!vars
  <1>1. Wanted' = PS!WantedBy(Topics')
    <2>1. (Wanted = PS!WantedBy(Topics))'
      BY WantedIsWantedByTopics, PTL
    <2>2. QED
      BY <2>1 DEF PS!WantedBy
  <1>2. \A t : Topics' = t => PS!Become(t)
    BY <1>1 DEF PS!Become
  <1>3. \A c \in DOMAIN clientIdToHdl : c \in ClientIds
    BY DEF IInv, TypeOK
  <1>4. ASSUME NEW h \in Handles, OnOpen(h) PROVE PS!Next
    <2>1. PICK c \in ClientIds \ issued :
              /\ issued' = issued \union {c}
              /\ sessions' = With(sessions, h, Session(c, {}))
              /\ clientIdToHdl' = With(clientIdToHdl, c, h)
      BY <1>4 DEF OnOpen, GenerateClientId
    <2>2. c \notin DOMAIN clientIdToHdl /\ h \notin DOMAIN sessions
      BY <1>4 DEF IInv, TypeOK, SessionsAreOpen, OnOpen, GenerateClientId
    <2>3. \A d \in DOMAIN clientIdToHdl : clientIdToHdl[d] \in DOMAIN sessions
      BY DEF IInv, IdsMirrorSessions
    <2>4. Topics' = [d \in DOMAIN Topics \union {c} |-> IF d = c THEN {} ELSE Topics[d]]
      BY <2>1, <2>2, <2>3 DEF Topics, With, Session
    <2>5. PS!Connect(c)
      BY <1>2, <2>1, <2>4 DEF PS!Connect
    <2>6. QED
      BY <2>5 DEF PS!Next
  <1>5. ASSUME NEW h \in Handles, DropSession(h), UNCHANGED issued
        PROVE  PS!Next \/ UNCHANGED <<issued, Topics, Wanted>>
    <2>1. CASE h \notin DOMAIN sessions
      BY <1>5, <2>1 DEF DropSession, registryVars, Topics, Wanted, HasSubscribers
    <2>2. CASE h \in DOMAIN sessions
      <3> DEFINE c == sessions[h].clientId
      <3>1. c \in DOMAIN clientIdToHdl /\ clientIdToHdl[c] = h
        BY <2>2 DEF IInv, IdsMirrorSessions
      <3>2. \A d \in DOMAIN clientIdToHdl \ {c} :
                clientIdToHdl[d] \in DOMAIN sessions /\ clientIdToHdl[d] # h
        BY <3>1 DEF IInv, IdsMirrorSessions
      <3>3. clientIdToHdl' = Without(clientIdToHdl, c) /\ sessions' = Without(sessions, h)
        BY <1>5, <2>2 DEF DropSession
      <3>4. Topics' = [d \in DOMAIN Topics \ {c} |-> Topics[d]]
        BY <3>2, <3>3 DEF Topics, Without
      <3>5. PS!Disconnect(c)
        <4>1. c \in DOMAIN Topics
          BY <3>1 DEF Topics
        <4>2. QED
          BY <1>2, <1>5, <3>4, <4>1 DEF PS!Disconnect
      <3>6. QED
        BY <1>3, <3>1, <3>5 DEF PS!Next
    <2>3. QED
      BY <2>1, <2>2
  <1>6. ASSUME NEW c \in issued, NEW E \in SUBSET Events, NEW F, Known(c),
               sessions' = [sessions EXCEPT ![clientIdToHdl[c]].subscriptions = F],
               UNCHANGED <<clientIdToHdl, issued>>
        PROVE  c \in DOMAIN Topics /\ Topics' = [Topics EXCEPT ![c] = F]
    <2>1. c \in DOMAIN clientIdToHdl /\ clientIdToHdl[c] \in DOMAIN sessions
      BY <1>6 DEF Known
    <2>2. \A d \in DOMAIN clientIdToHdl \ {c} :
              clientIdToHdl[d] \in DOMAIN sessions /\ clientIdToHdl[d] # clientIdToHdl[c]
      BY <2>1 DEF IInv, IdsMirrorSessions
    <2>3. /\ sessions'[clientIdToHdl[c]].subscriptions = F
          /\ \A g \in DOMAIN sessions \ {clientIdToHdl[c]} : sessions'[g] = sessions[g]
      <3>1. sessions[clientIdToHdl[c]] \in [clientId : issued, handshakeDone : {TRUE},
                                            subscriptions : SUBSET Events]
        BY <2>1 DEF IInv, TypeOK
      <3>2. QED
        BY <1>6, <2>1, <3>1
    <2>4. DOMAIN Topics' = DOMAIN Topics /\ c \in DOMAIN Topics
          /\ DOMAIN Topics = DOMAIN clientIdToHdl
      BY <1>6, <2>1 DEF Topics
    <2>5. \A d \in DOMAIN Topics : Topics'[d] = IF d = c THEN F ELSE Topics[d]
      <3>1. Topics'[c] = F
        BY <1>6, <2>1, <2>3 DEF Topics
      <3>2. \A d \in DOMAIN clientIdToHdl \ {c} : Topics'[d] = Topics[d]
        BY <1>6, <2>2, <2>3 DEF Topics
      <3>3. QED
        BY <2>4, <3>1, <3>2
    <2>6. /\ Topics' = [d \in DOMAIN Topics' |-> Topics'[d]]
          /\ Topics = [d \in DOMAIN Topics |-> Topics[d]]
      BY DEF Topics
    <2>7. QED
      BY <2>4, <2>5, <2>6
  <1>7. ASSUME NEW c \in issued, NEW E \in SUBSET Events, Subscribe(c, E) PROVE PS!Next
    <2>1. Known(c) /\ UNCHANGED <<clientIdToHdl, issued>> /\ c \in DOMAIN clientIdToHdl
      BY <1>7 DEF Subscribe, Known
    <2>2. c \in DOMAIN Topics
          /\ Topics' = [Topics EXCEPT ![c] = sessions[clientIdToHdl[c]].subscriptions \union E]
      BY <1>6, <1>7, <2>1 DEF Subscribe
    <2>3. Topics[c] = sessions[clientIdToHdl[c]].subscriptions
      BY <2>1 DEF Topics
    <2>4. Topics' = [Topics EXCEPT ![c] = @ \union E]
      BY <2>2, <2>3
    <2>5. PS!Subscribe(c, E)
      BY <1>2, <2>1, <2>2, <2>4 DEF PS!Subscribe
    <2>6. QED
      BY <1>3, <2>1, <2>5 DEF PS!Next
  <1>8. ASSUME NEW c \in issued, NEW E \in SUBSET Events, Unsubscribe(c, E) PROVE PS!Next
    <2> DEFINE old == sessions[clientIdToHdl[c]].subscriptions
               left == old \ (IF E = {} THEN old ELSE old \intersect E)
    <2>1. Known(c) /\ UNCHANGED <<clientIdToHdl, issued>> /\ c \in DOMAIN clientIdToHdl
      BY <1>8 DEF Unsubscribe, Known
    <2>2. sessions' = [sessions EXCEPT ![clientIdToHdl[c]].subscriptions = left]
      BY <1>8 DEF Unsubscribe
    <2>3. c \in DOMAIN Topics /\ Topics' = [Topics EXCEPT ![c] = left]
      BY <1>6, <2>1, <2>2
    <2>4. Topics[c] = old
      BY <2>1 DEF Topics
    <2>5. Topics' = [Topics EXCEPT ![c] = IF E = {} THEN {} ELSE @ \ E]
      BY <2>3, <2>4
    <2>6. PS!Unsubscribe(c, E)
      BY <1>2, <2>1, <2>3, <2>5 DEF PS!Unsubscribe
    <2>7. QED
      BY <1>3, <2>1, <2>6 DEF PS!Next
  <1>9. CASE ClearSessions
    <2>1. Topics' = [c \in {} |-> {}] /\ issued' = issued
      BY <1>9 DEF ClearSessions, EmptyMap, Topics
    <2>2. QED
      BY <1>2, <2>1 DEF PS!Next, PS!DisconnectAll
  <1>10. ASSUME UNCHANGED <<registryVars, issued>>
         PROVE  UNCHANGED <<issued, Topics, Wanted>>
    BY <1>10 DEF registryVars, Topics, Wanted, HasSubscribers
  <1>11. QED
    BY <1>4, <1>5, <1>7, <1>8, <1>9, <1>10
       DEF Next, OnValidate, OnClose, OnFail, HandleSubscriptionRequest, UnknownClient,
           vars, registryVars

(***************************************************************************)
(* The registry implements the publish/subscribe service.                  *)
(***************************************************************************)
THEOREM RegistryImplementsPubSub == Spec => ImplementsPubSub
  <1>1. QED
    BY RefinementInit, RefinementStep, RegistryInvariant, PTL
       DEF Spec, ImplementsPubSub, PS!Spec
===============================================================================
