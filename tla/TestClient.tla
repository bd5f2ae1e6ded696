----------------------------- MODULE TestClient -----------------------------
(***************************************************************************)
(* The WPF test client (src/tests/EuroScopeDataBridge.TestProject): the    *)
(* view model with its table of pending requests, and the WebSocket        *)
(* services it goes through, one per click on Connect.  All of it runs on  *)
(* the UI thread, so that a step is what happens between two awaits: the   *)
(* user, the network and the continuations come in any order.              *)
(*                                                                         *)
(* A service is known by its number, svc is the current one; a request id  *)
(* is the number of its request.  The rows of a table are reduced to what  *)
(* they are rows of.  The server is external: it answers in any order      *)
(* (every request has a worker of its own) or not at all (error frames     *)
(* carry no id).                                                           *)
(***************************************************************************)
EXTENDS Naturals, FiniteSets, Functions

CONSTANTS
    Tables,               \* flightplans, radar_targets, controllers
    MaxPendingRequests,
    MaxConnects,          \* bound: clicks on Connect
    MaxRequests           \* bound: requests sent

ASSUME TestClientAssumption ==
    /\ MaxPendingRequests \in Nat \ {0}
    /\ MaxConnects \in Nat
    /\ MaxRequests \in Nat
    /\ "none" \notin Tables

VARIABLES
    svc,            \* the service in _wsService
    connecting,     \* whether ConnectAsync is running
    disconnecting,  \* the service whose DisconnectAsync is running, or 0
    loop,           \* per service, its receive loop
    cancelled,      \* the services whose token is cancelled
    isConnected,    \* what the status line says
    issued,         \* the last request id
    sending,        \* per table, the request whose send is awaited, or 0
    wire,           \* requests the server has not answered
    pending,        \* _pendingRequestTypes: request id to table
    tables,         \* per table, what its rows are
    tracked,        \* history: ids that were ever pending
    evicted,        \* history: ids TrackRequest removed
    ignored         \* history: ids whose response was ignored

link == <<svc, connecting, disconnecting, loop, cancelled, isConnected>>
requests == <<issued, sending, wire>>
history == <<tracked, evicted, ignored>>
vars == <<link, requests, pending, tables, history>>

Services == 1 .. MaxConnects
Ids == 1 .. MaxRequests
Untracked == "none"   \* the "table" of a request that is not tracked
Request(s, id, t) == [svc |-> s, id |-> id, table |-> t]

Init ==
    /\ svc = 0
    /\ connecting = FALSE
    /\ disconnecting = 0
    /\ loop = [s \in 0 .. MaxConnects |-> "none"]
    /\ cancelled = {}
    /\ isConnected = FALSE
    /\ issued = 0
    /\ sending = [t \in Tables |-> 0]
    /\ wire = {}
    /\ pending = [id \in {} |-> Untracked]
    /\ tables = [t \in Tables |-> {}]
    /\ tracked = {} /\ evicted = {} /\ ignored = {}

\* WebSocketState.Open: CloseAsync ends it at once, the loop's end for good.
IsOpen == isConnected /\ disconnecting # svc

\* Frames may be lost with the connection.
Put(r) == wire' \in {wire, wire \cup {r}}

------------------------------------------------------------------------------
(***************************************************************************)
(* The button is enabled while the status says "Disconnected" and the      *)
(* command is not running.  The old service is detached, then disposed.    *)
(***************************************************************************)
Connect ==
    /\ ~isConnected /\ ~connecting
    /\ svc < MaxConnects
    /\ svc' = svc + 1
    /\ cancelled' = cancelled \cup {svc}
    /\ connecting' = TRUE
    /\ UNCHANGED <<disconnecting, loop, isConnected, requests, pending, tables, history>>

(***************************************************************************)
(* OnConnectionChanged(true) begins the subscribe request, whose answer is *)
(* not tracked, and the receive loop starts: one step.                     *)
(***************************************************************************)
ConnectSucceeds ==
    /\ connecting
    /\ issued < MaxRequests
    /\ connecting' = FALSE
    /\ isConnected' = TRUE
    /\ loop' = [loop EXCEPT ![svc] = "receiving"]
    /\ issued' = issued + 1
    /\ Put(Request(svc, issued', Untracked))
    /\ UNCHANGED <<svc, disconnecting, cancelled, sending, pending, tables, history>>

ConnectFails ==
    /\ connecting
    /\ connecting' = FALSE
    /\ isConnected' = FALSE
    /\ UNCHANGED <<svc, disconnecting, loop, cancelled, requests, pending, tables, history>>

Disconnect ==
    /\ isConnected /\ disconnecting = 0
    /\ disconnecting' = svc
    /\ UNCHANGED <<svc, connecting, loop, cancelled, isConnected, requests, pending, tables, history>>

(***************************************************************************)
(* The finally block.  If the user has connected anew meanwhile, the old   *)
(* service has no handlers left (and its token is disposed: Cancel throws  *)
(* out of the command).                                                    *)
(***************************************************************************)
DisconnectEnds ==
    /\ disconnecting # 0
    /\ disconnecting' = 0
    /\ cancelled' = cancelled \cup {disconnecting}
    /\ isConnected' = (isConnected /\ disconnecting # svc)
    /\ UNCHANGED <<svc, connecting, loop, requests, pending, tables, history>>

\* Mutant: the handlers of the old service are never detached.
LoopEnds_Attached(s) ==
    /\ loop[s] = "receiving"
    /\ loop' = [loop EXCEPT ![s] = "ended"]
    /\ isConnected' = FALSE
    /\ UNCHANGED <<svc, connecting, disconnecting, cancelled, requests, pending, tables, history>>

\* The server closes, the connection fails, or the token is cancelled.
LoopEnds(s) ==
    /\ loop[s] = "receiving"
    /\ loop' = [loop EXCEPT ![s] = "ended"]
    /\ isConnected' = (isConnected /\ s # svc)
    /\ UNCHANGED <<svc, connecting, disconnecting, cancelled, requests, pending, tables, history>>

------------------------------------------------------------------------------
\* The pending requests S and a new one.
Tracking(id, t, S) == [i \in S \cup {id} |-> IF i = id THEN t ELSE pending[i]]

\* Mutant: the map may grow to one more than the cap.
TrackRequest_OffByOne(id, t) ==
    /\ tracked' = tracked \cup {id}
    /\ IF Cardinality(DOMAIN pending) > MaxPendingRequests
         THEN \E old \in DOMAIN pending :
                /\ pending' = Tracking(id, t, DOMAIN pending \ {old})
                /\ evicted' = evicted \cup {old}
         ELSE pending' = Tracking(id, t, DOMAIN pending) /\ UNCHANGED evicted

(***************************************************************************)
(* At the cap the first key of the dictionary goes: any, since a           *)
(* Dictionary promises no order (freed slots are used again).              *)
(***************************************************************************)
TrackRequest(id, t) ==
    /\ tracked' = tracked \cup {id}
    /\ IF Cardinality(DOMAIN pending) >= MaxPendingRequests
         THEN \E old \in DOMAIN pending :
                /\ pending' = Tracking(id, t, DOMAIN pending \ {old})
                /\ evicted' = evicted \cup {old}
         ELSE pending' = Tracking(id, t, DOMAIN pending) /\ UNCHANGED evicted

(***************************************************************************)
(* A Get button: always enabled but while its own command runs.  Without a *)
(* connection SendAsync returns at once, and the id is tracked even so.    *)
(***************************************************************************)
GetBegins(t) ==
    /\ IsOpen
    /\ sending[t] = 0
    /\ issued < MaxRequests
    /\ issued' = issued + 1
    /\ sending' = [sending EXCEPT ![t] = issued']
    /\ Put(Request(svc, issued', t))
    /\ UNCHANGED <<link, pending, tables, history>>

GetUnsent(t) ==
    /\ ~IsOpen
    /\ sending[t] = 0
    /\ issued < MaxRequests
    /\ issued' = issued + 1
    /\ TrackRequest(issued', t)
    /\ UNCHANGED <<link, sending, wire, tables, ignored>>

\* The await on the send is over: only now is the id tracked.
GetEnds(t) ==
    /\ sending[t] # 0
    /\ sending' = [sending EXCEPT ![t] = 0]
    /\ TrackRequest(sending[t], t)
    /\ UNCHANGED <<link, issued, wire, tables, ignored>>

SendCustom ==
    /\ IsOpen
    /\ issued < MaxRequests
    /\ issued' = issued + 1
    /\ Put(Request(svc, issued', Untracked))
    /\ UNCHANGED <<link, sending, pending, tables, history>>

------------------------------------------------------------------------------
\* Messages of a service reach the view model while it is the current one.
Hears(s) == s = svc /\ loop[s] = "receiving"

ServerDrops(r) ==
    /\ r \in wire
    /\ wire' = wire \ {r}
    /\ UNCHANGED <<link, issued, sending, pending, tables, history>>

\* An answer without a result, such as an error, leaves its id pending.
Refused(r) ==
    /\ r \in wire /\ Hears(r.svc)
    /\ wire' = wire \ {r}
    /\ UNCHANGED <<link, issued, sending, pending, tables, history>>

\* Mutant: one pending request per table, forgotten with its answer.
Answered_ForgetsTable(r) ==
    /\ r \in wire /\ Hears(r.svc)
    /\ wire' = wire \ {r}
    /\ IF r.id \in DOMAIN pending
         THEN /\ pending' = Restrict(pending, {id \in DOMAIN pending : pending[id] # pending[r.id]})
              /\ tables' \in {tables, [tables EXCEPT ![pending[r.id]] = {r.table}]}
              /\ UNCHANGED ignored
         ELSE ignored' = ignored \cup {r.id} /\ UNCHANGED <<pending, tables>>
    /\ UNCHANGED <<link, issued, sending, tracked, evicted>>

\* Mutant: the result goes to the table of any request that is pending.
Answered_IgnoresId(r) ==
    /\ r \in wire /\ Hears(r.svc)
    /\ wire' = wire \ {r}
    /\ IF DOMAIN pending # {}
         THEN \E id \in DOMAIN pending :
                /\ pending' = Restrict(pending, DOMAIN pending \ {id})
                /\ tables' \in {tables, [tables EXCEPT ![pending[id]] = {r.table}]}
                /\ UNCHANGED ignored
         ELSE ignored' = ignored \cup {r.id} /\ UNCHANGED <<pending, tables>>
    /\ UNCHANGED <<link, issued, sending, tracked, evicted>>

\* An empty list leaves the table as it is.
Answered(r) ==
    /\ r \in wire /\ Hears(r.svc)
    /\ wire' = wire \ {r}
    /\ IF r.id \in DOMAIN pending
         THEN /\ pending' = Restrict(pending, DOMAIN pending \ {r.id})
              /\ tables' \in {tables, [tables EXCEPT ![pending[r.id]] = {r.table}]}
              /\ UNCHANGED ignored
         ELSE ignored' = ignored \cup {r.id} /\ UNCHANGED <<pending, tables>>
    /\ UNCHANGED <<link, issued, sending, tracked, evicted>>

\* A pushed update adds a row to its table, or replaces one.
Pushed(t) ==
    /\ Hears(svc)
    /\ tables' = [tables EXCEPT ![t] = @ \cup {t}]
    /\ UNCHANGED <<link, requests, pending, history>>

User == Connect \/ Disconnect \/ SendCustom \/ \E t \in Tables : GetBegins(t) \/ GetUnsent(t)
Continues ==
    \/ ConnectSucceeds \/ ConnectFails \/ DisconnectEnds
    \/ \E s \in Services : LoopEnds(s)
    \/ \E t \in Tables : GetEnds(t)
Network ==
    \/ \E r \in wire : ServerDrops(r) \/ Refused(r) \/ Answered(r)
    \/ \E t \in Tables : Pushed(t)

Next == User \/ Continues \/ Network
Spec == Init /\ [][Next]_vars

------------------------------------------------------------------------------
(***************************************************************************)
(* Type invariant: a pending id has been issued and is tracked for one     *)
(* table; an unresponsive server cannot grow the map past its cap.         *)
(***************************************************************************)
TypeOK ==
    /\ svc \in 0 .. MaxConnects
    /\ connecting \in BOOLEAN
    /\ disconnecting \in 0 .. MaxConnects
    /\ loop \in [0 .. MaxConnects -> {"none", "receiving", "ended"}]
    /\ cancelled \subseteq 0 .. MaxConnects
    /\ isConnected \in BOOLEAN
    /\ issued \in 0 .. MaxRequests
    /\ sending \in [Tables -> 0 .. issued]
    /\ wire \subseteq [svc : Services, id : Ids, table : Tables \cup {Untracked}]
    /\ DOMAIN pending \subseteq 1 .. issued
    /\ \A id \in DOMAIN pending : pending[id] \in Tables
    /\ Cardinality(DOMAIN pending) <= MaxPendingRequests
    /\ tables \in [Tables -> SUBSET (Tables \cup {Untracked})]
    /\ tracked \subseteq Ids /\ evicted \subseteq tracked /\ ignored \subseteq Ids

(***************************************************************************)
(* The status line is about the current connection, whatever the loops and *)
(* the disconnects of earlier services still do: it says "Connected" just  *)
(* as long as that connection is received from.                            *)
(***************************************************************************)
StatusTellsTheTruth == isConnected <=> loop[svc] = "receiving" /\ svc \notin cancelled

(***************************************************************************)
(* A table shows rows of its own kind only, in whatever order requests are *)
(* sent, tracked, evicted and answered over whichever connections.         *)
(***************************************************************************)
TablesNotMixed == \A t \in Tables : tables[t] \subseteq {t}

(***************************************************************************)
(* The answer to a Get button is shown, unless it came before the send was *)
(* reported as done, so that its id was not yet tracked (and will now stay *)
(* pending), or after its id had to make room.                             *)
(***************************************************************************)
IgnoredForAReason ==
    [][\A r \in wire : r.id \in ignored' \ ignored =>
         \/ r.table = Untracked
         \/ sending[r.table] = r.id
         \/ r.id \in evicted]_vars
==============================================================================
