--------------------------- MODULE TestClientProofs ---------------------------
(***************************************************************************)
(* Proofs about TestClient, for any number of tables, connections,         *)
(* requests and places for pending ones: the status line is right, tables  *)
(* are not mixed, and answers are ignored for two reasons only.            *)
(***************************************************************************)
EXTENDS TestClient, FiniteSetTheorems, TLAPS

(***************************************************************************)
(* Services are used one after the other: those to come have no loop, are  *)
(* not cancelled and not being disconnected, and neither is the one that   *)
(* is connecting.                                                          *)
(***************************************************************************)
LinkInv ==
    /\ \A s \in 0 .. MaxConnects : s = 0 \/ s > svc => loop[s] = "none"
    /\ cancelled \subseteq 0 .. svc
    /\ disconnecting <= svc
    /\ connecting => svc # 0 /\ loop[svc] = "none" /\ svc \notin cancelled /\ disconnecting # svc

(***************************************************************************)
(* A request on the wire is known by its id, and what is known of the id   *)
(* in the client agrees with the table it was sent for; if it was sent for *)
(* one, the id is about to be tracked, is pending or was evicted.          *)
(***************************************************************************)
WireInv ==
    /\ \A r \in wire : r.id <= issued
    /\ \A r, q \in wire : r.id = q.id => r = q
    /\ \A r \in wire : r.id \in DOMAIN pending => pending[r.id] = r.table
    /\ \A r \in wire, t \in Tables : sending[t] = r.id => r.table = t
    /\ \A r \in wire : r.table # Untracked =>
         sending[r.table] = r.id \/ r.id \in DOMAIN pending \/ r.id \in evicted
    /\ DOMAIN pending \subseteq tracked

IInv == TypeOK /\ LinkInv /\ WireInv /\ StatusTellsTheTruth /\ TablesNotMixed

------------------------------------------------------------------------------
\* An open connection is a service, and it is received from.
LEMMA OpenIsService == IInv /\ IsOpen => svc \in Services /\ loop[svc] = "receiving"
  BY TestClientAssumption DEF IInv, IsOpen, TypeOK, LinkInv, StatusTellsTheTruth, Services

LEMMA InitIInv == Init => IInv
  <1> SUFFICES ASSUME Init PROVE IInv
    OBVIOUS
  <1>1. DOMAIN pending = {}
    BY DEF Init
  <1>2. Cardinality({}) = 0
    BY FS_EmptySet
  <1>3. TypeOK
    BY <1>1, <1>2, TestClientAssumption DEF Init, TypeOK
  <1>4. LinkInv /\ WireInv /\ StatusTellsTheTruth /\ TablesNotMixed
    BY <1>1, TestClientAssumption DEF Init, LinkInv, WireInv, StatusTellsTheTruth, TablesNotMixed
  <1>5. QED
    BY <1>3, <1>4 DEF IInv

(***************************************************************************)
(* What TrackRequest does: the id becomes pending for its table, nothing   *)
(* else is changed but for an id that is evicted, and the cap holds.       *)
(***************************************************************************)
LEMMA TrackStep ==
    ASSUME TypeOK, NEW id, NEW t, TrackRequest(id, t)
    PROVE  /\ id \in DOMAIN pending' /\ pending'[id] = t
           /\ \A i \in DOMAIN pending' : i # id => i \in DOMAIN pending /\ pending'[i] = pending[i]
           /\ DOMAIN pending \subseteq DOMAIN pending' \cup evicted'
           /\ evicted \subseteq evicted' /\ evicted' \subseteq evicted \cup DOMAIN pending
           /\ tracked' = tracked \cup {id}
           /\ Cardinality(DOMAIN pending') <= MaxPendingRequests
  <1>1. IsFiniteSet(DOMAIN pending)
    <2>1. issued \in Nat /\ DOMAIN pending \subseteq 1 .. issued
      BY DEF TypeOK
    <2>2. IsFiniteSet(1 .. issued)
      BY <2>1, FS_Interval
    <2>3. QED
      BY <2>1, <2>2, FS_Subset
  <1>2. Cardinality(DOMAIN pending) \in Nat
    BY <1>1, FS_CardinalityType
  <1>3. CASE Cardinality(DOMAIN pending) >= MaxPendingRequests
    <2>1. PICK old \in DOMAIN pending :
            /\ pending' = Tracking(id, t, DOMAIN pending \ {old})
            /\ evicted' = evicted \cup {old}
      BY <1>3 DEF TrackRequest
    <2>2. pending' = [x \in (DOMAIN pending \ {old}) \cup {id} |-> IF x = id THEN t ELSE pending[x]]
      BY <2>1 DEF Tracking
    <2>3. DOMAIN pending' = (DOMAIN pending \ {old}) \cup {id}
      BY <2>2
    <2>4. Cardinality(DOMAIN pending') <= MaxPendingRequests
      <3>1. /\ IsFiniteSet(DOMAIN pending \ {old})
            /\ Cardinality(DOMAIN pending \ {old}) = Cardinality(DOMAIN pending) - 1
        BY <1>1, <2>1, FS_RemoveElement
      <3>2. Cardinality((DOMAIN pending \ {old}) \cup {id}) <= Cardinality(DOMAIN pending)
        BY <1>2, <3>1, FS_AddElement
      <3>3. Cardinality(DOMAIN pending) <= MaxPendingRequests
        BY DEF TypeOK
      <3>4. Cardinality((DOMAIN pending \ {old}) \cup {id}) \in Nat
        BY <3>1, FS_AddElement, FS_CardinalityType
      <3>5. QED
        BY <1>2, <2>3, <3>2, <3>3, <3>4, TestClientAssumption
    <2>5. QED
      BY <2>1, <2>2, <2>3, <2>4 DEF TrackRequest
  <1>4. CASE ~(Cardinality(DOMAIN pending) >= MaxPendingRequests)
    <2>1. /\ pending' = [x \in DOMAIN pending \cup {id} |-> IF x = id THEN t ELSE pending[x]]
          /\ evicted' = evicted
      BY <1>4 DEF TrackRequest, Tracking
    <2>2. DOMAIN pending' = DOMAIN pending \cup {id}
      BY <2>1
    <2>3. Cardinality(DOMAIN pending \cup {id}) <= Cardinality(DOMAIN pending) + 1
      BY <1>1, <1>2, FS_AddElement
    <2>4. Cardinality(DOMAIN pending \cup {id}) \in Nat
      BY <1>1, FS_AddElement, FS_CardinalityType
    <2>5. Cardinality(DOMAIN pending') <= MaxPendingRequests
      BY <1>2, <1>4, <2>2, <2>3, <2>4, TestClientAssumption
    <2>6. QED
      BY <2>1, <2>2, <2>5 DEF TrackRequest
  <1>5. QED
    BY <1>3, <1>4

------------------------------------------------------------------------------
(***************************************************************************)
(* The connection: steps of the link leave tables and pending ids alone.   *)
(***************************************************************************)
LEMMA LinkStep ==
    ASSUME IInv, \/ Connect \/ ConnectSucceeds \/ ConnectFails \/ Disconnect \/ DisconnectEnds
                 \/ \E s \in Services : LoopEnds(s)
    PROVE  LinkInv' /\ StatusTellsTheTruth'
  <1> USE TestClientAssumption
  <1> USE DEF IInv, TypeOK, LinkInv, StatusTellsTheTruth, Services
  <1>1. CASE Connect
    BY <1>1 DEF Connect
  <1>2. CASE ConnectSucceeds
    BY <1>2 DEF ConnectSucceeds
  <1>3. CASE ConnectFails
    BY <1>3 DEF ConnectFails
  <1>4. CASE Disconnect
    BY <1>4 DEF Disconnect
  <1>5. CASE DisconnectEnds
    BY <1>5 DEF DisconnectEnds
  <1>6. ASSUME NEW s \in Services, LoopEnds(s) PROVE LinkInv' /\ StatusTellsTheTruth'
    BY <1>6 DEF LoopEnds
  <1>7. QED
    BY <1>1, <1>2, <1>3, <1>4, <1>5, <1>6

\* Everything else leaves the link alone.
LEMMA LinkUnchanged ==
    ASSUME IInv, UNCHANGED link
    PROVE  LinkInv' /\ StatusTellsTheTruth'
  BY DEF IInv, link, LinkInv, StatusTellsTheTruth

(***************************************************************************)
(* A request is sent: its id is new, so that nothing is known of it yet,   *)
(* but for the table that awaits its send.                                 *)
(***************************************************************************)
LEMMA Sending ==
    ASSUME IInv, NEW t, issued' = issued + 1, issued < MaxRequests, svc \in Services,
           Put(Request(svc, issued', t)),
           \/ t = Untracked /\ UNCHANGED sending
           \/ t \in Tables /\ sending' = [sending EXCEPT ![t] = issued'],
           UNCHANGED <<pending, tables, history>>,
           t \in Tables => sending[t] = 0
    PROVE  /\ WireInv' /\ TablesNotMixed'
           /\ issued' \in 0 .. MaxRequests /\ sending' \in [Tables -> 0 .. issued']
           /\ wire' \subseteq [svc : Services, id : Ids, table : Tables \cup {Untracked}]
  <1> DEFINE new == Request(svc, issued', t)
  <1>1. issued \in Nat /\ issued' = issued + 1 /\ issued' \in Ids /\ MaxRequests \in Nat
    BY TestClientAssumption DEF IInv, TypeOK, Ids
  <1>2. /\ new.id = issued' /\ new.table = t
        /\ new \in [svc : Services, id : Ids, table : Tables \cup {Untracked}]
    BY <1>1 DEF Request
  <1>3. wire' \subseteq wire \cup {new}
    BY DEF Put
  <1>4. /\ \A r \in wire : r.id <= issued /\ r.id \in Nat
        /\ DOMAIN pending \subseteq 1 .. issued /\ UNCHANGED <<pending, evicted, tracked, tables>>
    BY <1>1 DEF IInv, TypeOK, WireInv, Ids, history
  <1>5. /\ sending' \in [Tables -> 0 .. issued']
        /\ \A u \in Tables : sending[u] \in 0 .. issued
        /\ \A u \in Tables : sending'[u] = IF u = t THEN issued' ELSE sending[u]
    BY <1>1, TestClientAssumption DEF IInv, TypeOK, Untracked
  <1>6. new.id \notin DOMAIN pending /\ \A r \in wire : r.id # new.id
    BY <1>1, <1>2, <1>4
  <1>7. ASSUME NEW r \in wire'
        PROVE  /\ r.id <= issued'
               /\ r.id \in DOMAIN pending' => pending'[r.id] = r.table
               /\ \A u \in Tables : sending'[u] = r.id => r.table = u
               /\ r.table # Untracked =>
                    sending'[r.table] = r.id \/ r.id \in DOMAIN pending' \/ r.id \in evicted'
    <2>1. CASE r = new
      <3>1. \A u \in Tables : sending'[u] = r.id => r.table = u
        BY <1>1, <1>2, <1>5, <2>1
      <3>2. r.table # Untracked => sending'[r.table] = r.id
        BY <1>2, <1>5, <2>1
      <3>3. QED
        BY <1>1, <1>2, <1>4, <1>6, <2>1, <3>1, <3>2
    <2>2. CASE r \in wire
      <3>1. r.table # Untracked => r.table \in Tables
        BY <2>2 DEF IInv, TypeOK
      <3>2. r.table = t /\ t # Untracked => sending[t] = 0 /\ r.id # 0
        BY <2>2, <3>1 DEF IInv, TypeOK, Ids
      <3>3. \A u \in Tables : sending'[u] = r.id => sending[u] = r.id
        BY <1>1, <1>4, <1>5, <2>2
      <3>4. QED
        BY <1>1, <1>4, <1>5, <2>2, <3>1, <3>2, <3>3 DEF IInv, WireInv
    <2>3. QED
      BY <1>3, <2>1, <2>2
  <1>8. \A r, q \in wire' : r.id = q.id => r = q
    BY <1>3, <1>6 DEF IInv, WireInv
  <1>9. DOMAIN pending' \subseteq tracked' /\ TablesNotMixed'
    BY <1>4 DEF IInv, WireInv, TablesNotMixed
  <1>10. QED
    BY <1>1, <1>2, <1>3, <1>5, <1>7, <1>8, <1>9 DEF WireInv, IInv, TypeOK, Ids

\* The id moves from the table that awaits its send to the pending ones.
LEMMA GetEndsStep ==
    ASSUME IInv, NEW t \in Tables, GetEnds(t)
    PROVE  TypeOK' /\ WireInv' /\ TablesNotMixed'
  <1> DEFINE id == sending[t]
  <1>1. /\ id \in 1 .. issued /\ issued \in Nat /\ issued \in 0 .. MaxRequests
        /\ TypeOK /\ TrackRequest(id, t)
        /\ sending' = [sending EXCEPT ![t] = 0] /\ sending \in [Tables -> 0 .. issued]
        /\ UNCHANGED <<link, issued, wire, tables, ignored>>
    BY TestClientAssumption DEF IInv, TypeOK, GetEnds
  <1>2. /\ id \in DOMAIN pending' /\ pending'[id] = t
        /\ \A i \in DOMAIN pending' : i # id => i \in DOMAIN pending /\ pending'[i] = pending[i]
        /\ DOMAIN pending \subseteq DOMAIN pending' \cup evicted'
        /\ evicted \subseteq evicted' /\ evicted' \subseteq evicted \cup DOMAIN pending
        /\ tracked' = tracked \cup {id}
        /\ Cardinality(DOMAIN pending') <= MaxPendingRequests
    BY <1>1, TrackStep
  <1>3. TypeOK'
    <2>1. tracked' \subseteq Ids /\ evicted' \subseteq tracked'
      <3>1. id \in Ids
        BY <1>1, TestClientAssumption DEF Ids
      <3>2. tracked \subseteq Ids /\ evicted \subseteq tracked /\ DOMAIN pending \subseteq tracked
        BY DEF IInv, TypeOK, WireInv
      <3> HIDE DEF id
      <3>3. QED
        BY <1>2, <3>1, <3>2
    <2>2. DOMAIN pending' \subseteq 1 .. issued /\ \A i \in DOMAIN pending' : pending'[i] \in Tables
      BY <1>1, <1>2 DEF TypeOK
    <2>3. QED
      BY <1>1, <1>2, <2>1, <2>2 DEF TypeOK, link
  <1>4. WireInv'
    <2>1. \A r \in wire : r.id \in DOMAIN pending' => pending'[r.id] = r.table
      BY <1>1, <1>2 DEF IInv, WireInv
    <2>2. \A r \in wire, u \in Tables : sending'[u] = r.id => r.table = u
      BY <1>1 DEF IInv, WireInv, TypeOK, Ids
    <2>3. ASSUME NEW r \in wire, r.table # Untracked
          PROVE  sending'[r.table] = r.id \/ r.id \in DOMAIN pending' \/ r.id \in evicted'
      <3>1. r.table \in Tables
        BY <2>3 DEF IInv, TypeOK
      <3>2. CASE r.table = t
        BY <1>1, <1>2, <2>3, <3>2 DEF IInv, WireInv
      <3>3. CASE r.table # t
        BY <1>1, <1>2, <2>3, <3>1, <3>3 DEF IInv, WireInv
      <3>4. QED
        BY <3>2, <3>3
    <2>4. QED
      BY <1>1, <1>2, <2>1, <2>2, <2>3 DEF IInv, WireInv
  <1>5. QED
    BY <1>1, <1>3, <1>4 DEF IInv, TablesNotMixed

\* Without a connection an id is tracked that no request on the wire has.
LEMMA GetUnsentStep ==
    ASSUME IInv, NEW t \in Tables, GetUnsent(t)
    PROVE  TypeOK' /\ WireInv' /\ TablesNotMixed'
  <1> DEFINE id == issued'
  <1>1. /\ issued \in Nat /\ id = issued + 1 /\ id \in 1 .. MaxRequests
        /\ id \in 0 .. MaxRequests
        /\ TypeOK /\ TrackRequest(id, t)
        /\ UNCHANGED <<link, sending, wire, tables, ignored>>
    BY TestClientAssumption DEF IInv, TypeOK, GetUnsent
  <1>2. /\ id \in DOMAIN pending' /\ pending'[id] = t
        /\ \A i \in DOMAIN pending' : i # id => i \in DOMAIN pending /\ pending'[i] = pending[i]
        /\ DOMAIN pending \subseteq DOMAIN pending' \cup evicted'
        /\ evicted \subseteq evicted' /\ evicted' \subseteq evicted \cup DOMAIN pending
        /\ tracked' = tracked \cup {id}
        /\ Cardinality(DOMAIN pending') <= MaxPendingRequests
    <2> HIDE DEF id
    <2>1. QED
      BY <1>1, TrackStep
  <1>3. TypeOK'
    <2>1. tracked' \subseteq Ids /\ evicted' \subseteq tracked'
      BY <1>1, <1>2 DEF IInv, TypeOK, WireInv, Ids
    <2>2. DOMAIN pending' \subseteq 1 .. id /\ \A i \in DOMAIN pending' : pending'[i] \in Tables
      BY <1>1, <1>2 DEF TypeOK
    <2>3. sending' \in [Tables -> 0 .. id]
      BY <1>1 DEF TypeOK
    <2>4. QED
      BY <1>1, <1>2, <2>1, <2>2, <2>3 DEF TypeOK, link
  <1>4. WireInv'
    <2>1. \A r \in wire : r.id <= issued /\ r.id # id /\ r.id <= id
      BY <1>1 DEF IInv, TypeOK, WireInv, Ids
    <2>2. QED
      BY <1>1, <1>2, <2>1 DEF IInv, WireInv
  <1>5. QED
    BY <1>1, <1>3, <1>4 DEF IInv, TablesNotMixed

(***************************************************************************)
(* An answer whose id is pending goes to the table of its request, and no  *)
(* other request on the wire has that id.                                  *)
(***************************************************************************)
LEMMA AnsweredStep ==
    ASSUME IInv, NEW r \in wire, Answered(r)
    PROVE  TypeOK' /\ WireInv' /\ TablesNotMixed'
  <1>1. /\ wire' = wire \ {r} /\ UNCHANGED <<link, issued, sending, tracked, evicted>>
        /\ r.id \in Ids /\ r.table \in Tables \cup {Untracked}
    BY DEF IInv, TypeOK, Answered
  <1>2. CASE r.id \in DOMAIN pending
    <2>1. /\ pending' = [i \in DOMAIN pending \ {r.id} |-> pending[i]]
          /\ tables' = tables \/ tables' = [tables EXCEPT ![pending[r.id]] = {r.table}]
          /\ UNCHANGED ignored
      BY <1>2 DEF Answered, Restrict
    <2>2. pending[r.id] = r.table /\ r.table \in Tables
      BY <1>2 DEF IInv, TypeOK, WireInv
    <2>3. /\ DOMAIN pending' = DOMAIN pending \ {r.id}
          /\ \A i \in DOMAIN pending' : pending'[i] = pending[i]
      BY <2>1
    <2>4. Cardinality(DOMAIN pending') <= MaxPendingRequests
      <3>1. issued \in Nat /\ DOMAIN pending \subseteq 1 .. issued
        BY DEF IInv, TypeOK
      <3>2. IsFiniteSet(1 .. issued)
        BY <3>1, FS_Interval
      <3>3. IsFiniteSet(DOMAIN pending)
        BY <3>1, <3>2, FS_Subset
      <3>4. /\ Cardinality(DOMAIN pending \ {r.id}) <= Cardinality(DOMAIN pending)
            /\ IsFiniteSet(DOMAIN pending \ {r.id})
        BY <3>3, FS_Subset
      <3>5. /\ Cardinality(DOMAIN pending \ {r.id}) \in Nat
            /\ Cardinality(DOMAIN pending) \in Nat
        BY <3>3, <3>4, FS_CardinalityType
      <3>6. QED
        BY <2>3, <3>4, <3>5, TestClientAssumption DEF IInv, TypeOK
    <2>5. tables' \in [Tables -> SUBSET (Tables \cup {Untracked})] /\ TablesNotMixed'
      <3>1. CASE tables' = tables
        BY <3>1 DEF IInv, TypeOK, TablesNotMixed
      <3>2. CASE tables' = [tables EXCEPT ![r.table] = {r.table}]
        <4>1. tables \in [Tables -> SUBSET (Tables \cup {Untracked})]
          BY DEF IInv, TypeOK
        <4>2. \A t \in Tables : tables'[t] = IF t = r.table THEN {r.table} ELSE tables[t]
          BY <3>2, <4>1
        <4>3. tables' \in [Tables -> SUBSET (Tables \cup {Untracked})]
          BY <2>2, <3>2, <4>1
        <4>4. QED
          BY <4>2, <4>3 DEF IInv, TablesNotMixed
      <3>3. QED
        BY <2>1, <2>2, <3>1, <3>2
    <2>6. TypeOK'
      BY <1>1, <2>1, <2>3, <2>4, <2>5 DEF IInv, TypeOK, link
    <2>7. WireInv'
      BY <1>1, <2>3 DEF IInv, WireInv
    <2>8. QED
      BY <2>5, <2>6, <2>7
  <1>3. CASE r.id \notin DOMAIN pending
    <2>1. ignored' = ignored \cup {r.id} /\ UNCHANGED <<pending, tables>>
      BY <1>3 DEF Answered
    <2>2. QED
      BY <1>1, <2>1 DEF IInv, TypeOK, WireInv, TablesNotMixed, link
  <1>4. QED
    BY <1>2, <1>3

\* The steps of the link but ConnectSucceeds leave the requests alone.
LEMMA RequestsUnchanged ==
    ASSUME IInv, UNCHANGED <<requests, pending, tables, history>>
    PROVE  WireInv' /\ TablesNotMixed'
  BY DEF IInv, WireInv, TablesNotMixed, requests, history

------------------------------------------------------------------------------
LEMMA StepIInv == IInv /\ [Next]_vars => IInv'
  <1> SUFFICES ASSUME IInv, [Next]_vars PROVE IInv'
    OBVIOUS
  <1>1. CASE Connect \/ ConnectFails \/ Disconnect \/ DisconnectEnds
             \/ \E s \in Services : LoopEnds(s)
    <2>1. LinkInv' /\ StatusTellsTheTruth'
      BY <1>1, LinkStep
    <2>2. UNCHANGED <<requests, pending, tables, history>>
      BY <1>1 DEF Connect, ConnectFails, Disconnect, DisconnectEnds, LoopEnds
    <2>3. TypeOK'
      <3>1. /\ svc' \in 0 .. MaxConnects /\ connecting' \in BOOLEAN
            /\ disconnecting' \in 0 .. MaxConnects /\ cancelled' \subseteq 0 .. MaxConnects
            /\ isConnected' \in BOOLEAN
            /\ loop' \in [0 .. MaxConnects -> {"none", "receiving", "ended"}]
        <4> USE TestClientAssumption DEF IInv, TypeOK
        <4>1. CASE Connect
          BY <4>1 DEF Connect
        <4>2. CASE ConnectFails
          BY <4>2 DEF ConnectFails
        <4>3. CASE Disconnect
          BY <4>3 DEF Disconnect
        <4>4. CASE DisconnectEnds
          BY <4>4 DEF DisconnectEnds
        <4>5. CASE \E s \in Services : LoopEnds(s)
          BY <4>5 DEF LoopEnds
        <4>6. QED
          BY <1>1, <4>1, <4>2, <4>3, <4>4, <4>5
      <3>2. QED
        BY <2>2, <3>1 DEF IInv, TypeOK, requests, history
    <2>4. QED
      BY <2>1, <2>2, <2>3, RequestsUnchanged DEF IInv
  <1>2. CASE ConnectSucceeds
    <2>1. LinkInv' /\ StatusTellsTheTruth'
      BY <1>2, LinkStep
    <2>2. svc \in Services /\ Untracked \notin Tables
      BY <1>2, TestClientAssumption
      DEF ConnectSucceeds, IInv, TypeOK, LinkInv, Services, Untracked
    <2>3. /\ WireInv' /\ TablesNotMixed'
          /\ issued' \in 0 .. MaxRequests /\ sending' \in [Tables -> 0 .. issued']
          /\ wire' \subseteq [svc : Services, id : Ids, table : Tables \cup {Untracked}]
      BY <1>2, <2>2, Sending DEF ConnectSucceeds
    <2>4. TypeOK'
      <3>1. DOMAIN pending' \subseteq 1 .. issued'
        BY <1>2 DEF IInv, TypeOK, ConnectSucceeds
      <3>2. QED
        BY <1>2, <2>3, <3>1 DEF IInv, TypeOK, ConnectSucceeds, history
    <2>5. QED
      BY <2>1, <2>3, <2>4 DEF IInv
  <1>3. ASSUME SendCustom \/ \E t \in Tables : GetBegins(t)
        PROVE  IInv'
    <2>1. UNCHANGED <<link, pending, tables, history>> /\ IsOpen /\ issued' = issued + 1
      BY <1>3 DEF SendCustom, GetBegins
    <2>2. LinkInv' /\ StatusTellsTheTruth'
      BY <2>1, LinkUnchanged
    <2>3. svc \in Services /\ Untracked \notin Tables
      BY <2>1, OpenIsService, TestClientAssumption DEF Untracked
    <2>4. /\ WireInv' /\ TablesNotMixed'
          /\ issued' \in 0 .. MaxRequests /\ sending' \in [Tables -> 0 .. issued']
          /\ wire' \subseteq [svc : Services, id : Ids, table : Tables \cup {Untracked}]
      <3>1. CASE SendCustom
        BY <2>3, <3>1, Sending DEF SendCustom
      <3>2. ASSUME NEW t \in Tables, GetBegins(t)
            PROVE  /\ WireInv' /\ TablesNotMixed'
                   /\ issued' \in 0 .. MaxRequests /\ sending' \in [Tables -> 0 .. issued']
                   /\ wire' \subseteq [svc : Services, id : Ids, table : Tables \cup {Untracked}]
        BY <2>3, <3>2, Sending DEF GetBegins
      <3>3. QED
        BY <1>3, <3>1, <3>2
    <2>5. TypeOK'
      <3>1. DOMAIN pending' \subseteq 1 .. issued'
        BY <2>1 DEF IInv, TypeOK
      <3>2. QED
        BY <2>1, <2>4, <3>1 DEF IInv, TypeOK, link, history
    <2>6. QED
      BY <2>2, <2>4, <2>5 DEF IInv
  <1>4. ASSUME NEW t \in Tables, GetUnsent(t) PROVE IInv'
    BY <1>4, GetUnsentStep, LinkUnchanged DEF IInv, GetUnsent
  <1>5. ASSUME NEW t \in Tables, GetEnds(t) PROVE IInv'
    BY <1>5, GetEndsStep, LinkUnchanged DEF IInv, GetEnds
  <1>6. ASSUME NEW r \in wire, Answered(r) PROVE IInv'
    BY <1>6, AnsweredStep, LinkUnchanged DEF IInv, Answered
  <1>7. ASSUME NEW r \in wire, ServerDrops(r) \/ Refused(r) PROVE IInv'
    <2>1. wire' \subseteq wire /\ UNCHANGED <<link, issued, sending, pending, tables, history>>
      BY <1>7 DEF ServerDrops, Refused
    <2>2. TypeOK' /\ WireInv' /\ TablesNotMixed'
      BY <2>1 DEF IInv, TypeOK, WireInv, TablesNotMixed, link, history
    <2>3. QED
      BY <2>1, <2>2, LinkUnchanged DEF IInv
  <1>8. ASSUME NEW t \in Tables, Pushed(t) PROVE IInv'
    <2>1. /\ tables' = [tables EXCEPT ![t] = @ \cup {t}]
          /\ UNCHANGED <<link, requests, pending, history>>
      BY <1>8 DEF Pushed
    <2>2. TypeOK' /\ WireInv' /\ TablesNotMixed'
      BY <2>1 DEF IInv, TypeOK, WireInv, TablesNotMixed, link, requests, history
    <2>3. QED
      BY <2>1, <2>2, LinkUnchanged DEF IInv
  <1>9. CASE UNCHANGED vars
    <2>1. UNCHANGED <<link, requests, pending, tables, history>>
      BY <1>9 DEF vars
    <2>2. TypeOK'
      BY <2>1 DEF IInv, TypeOK, link, requests, history
    <2>3. QED
      BY <2>1, <2>2, LinkUnchanged, RequestsUnchanged DEF IInv
  <1>10. QED
    BY <1>1, <1>2, <1>3, <1>4, <1>5, <1>6, <1>7, <1>8, <1>9 DEF Next, User, Continues, Network

LEMMA Invariance == Spec => []IInv
  <1>1. QED
    BY InitIInv, StepIInv, PTL DEF Spec

\* Type invariant: pending ids are issued ones, and stay within their cap.
THEOREM TypeCorrect == Spec => []TypeOK
  <1>1. IInv => TypeOK
    BY DEF IInv
  <1>2. QED
    BY <1>1, Invariance, PTL

(***************************************************************************)
(* The status line says "Connected" exactly while the current connection   *)
(* is received from, whatever earlier services still do.                   *)
(***************************************************************************)
THEOREM StatusIsTrue == Spec => []StatusTellsTheTruth
  <1>1. IInv => StatusTellsTheTruth
    BY DEF IInv
  <1>2. QED
    BY <1>1, Invariance, PTL

\* No table ever shows the rows of another, in any order of answers.
THEOREM NoTableMixed == Spec => []TablesNotMixed
  <1>1. IInv => TablesNotMixed
    BY DEF IInv
  <1>2. QED
    BY <1>1, Invariance, PTL

(***************************************************************************)
(* The answer to a Get button is ignored only if it is early or its id was *)
(* evicted.                                                                *)
(***************************************************************************)
THEOREM NeverIgnoredWithoutReason == Spec => IgnoredForAReason
  <1> DEFINE Reason == \A r \in wire : r.id \in ignored' \ ignored =>
                         \/ r.table = Untracked
                         \/ sending[r.table] = r.id
                         \/ r.id \in evicted
  <1>1. ASSUME IInv, Next PROVE Reason
    <2>1. ASSUME NEW q \in wire, Answered(q) PROVE Reason
      <3>1. CASE q.id \in DOMAIN pending
        BY <2>1, <3>1 DEF Answered
      <3>2. CASE q.id \notin DOMAIN pending
        <4>1. ignored' = ignored \cup {q.id}
          BY <2>1, <3>2 DEF Answered
        <4>2. \A r \in wire : r.id \in ignored' \ ignored => r = q
          BY <1>1, <4>1 DEF IInv, WireInv
        <4>3. QED
          BY <1>1, <3>2, <4>2 DEF IInv, WireInv
      <3>3. QED
        BY <3>1, <3>2
    <2>2. CASE ~(\E q \in wire : Answered(q))
      <3>1. UNCHANGED ignored
        BY <1>1, <2>2
        DEF Next, User, Continues, Network, history, Connect, Disconnect, SendCustom, GetBegins,
            GetUnsent, ConnectSucceeds, ConnectFails, DisconnectEnds, LoopEnds, GetEnds,
            ServerDrops, Refused, Pushed
      <3>2. QED
        BY <3>1
    <2>3. QED
      BY <2>1, <2>2
  <1>2. IInv /\ [Next]_vars => [Reason]_vars
    BY <1>1
  <1>3. QED
    BY <1>2, Invariance, PTL DEF Spec, IgnoredForAReason
===============================================================================
