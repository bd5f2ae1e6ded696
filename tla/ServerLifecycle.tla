---------------------------- MODULE ServerLifecycle ---------------------------
(***************************************************************************)
(* The threads of WebSocketServer and how they begin and end.              *)
(*                                                                         *)
(*   main    the EuroScope main thread: calls Start and Stop, and deletes  *)
(*           the plugin (Stop from ~DataBridgePlugin, Stop again from      *)
(*           ~WebSocketServer, then the members and the DLL are gone);     *)
(*   io      the ASIO thread of the current run: runs the handlers, of     *)
(*           which OnMessage spawns workers;                               *)
(*   workers detached threads, one for each request in progress, known to  *)
(*           Stop only through the counter m_activeWorkers.                *)
(*                                                                         *)
(* Stop is several steps, and the wait for the workers is three: reading   *)
(* the counter, deciding to block, and being blocked.  The registry maps   *)
(* are ClientRegistry's subject; here they are the set of sessions.        *)
(***************************************************************************)
EXTENDS Integers, FiniteSets

CONSTANTS Clients,                \* connections that may open
          Workers,                \* bound: worker threads alive at once
          MaxConcurrentRequests,  \* MAX_CONCURRENT_REQUESTS
          RunningAtConstruction,  \* values the uninitialised m_running may have
          IoMayFail,              \* whether run() may throw, or return by itself
          ThreadsMayFail,         \* whether std::thread may throw
          PortMayBeTaken          \* whether listen() may fail to bind

ASSUME LifecycleAssumption ==
    /\ IsFiniteSet(Workers)
    /\ MaxConcurrentRequests \in Nat \ {0}
    /\ RunningAtConstruction \in SUBSET BOOLEAN
    /\ {IoMayFail, ThreadsMayFail, PortMayBeTaken} \subseteq BOOLEAN

VARIABLES mainPc,         \* where the main thread is
          caller,         \* who called the Stop in progress
          m_running,
          m_ioThread,     \* whether m_ioThread is joinable
          ioPc,           \* where the IO thread is
          transport,      \* state of websocketpp's asio endpoint
          halted,         \* whether the io_service was told to stop
          worker,         \* where each worker thread is
          m_activeWorkers,
          sessions,       \* connections with an entry in m_sessions
          lostWakeup      \* a notify fell between main's test and its blocking

vars == <<mainPc, caller, m_running, m_ioThread, ioPc, transport, halted, worker,
          m_activeWorkers, sessions, lostWakeup>>

mainVars == <<mainPc, caller, lostWakeup>>
ioVars   == <<ioPc, m_ioThread, transport, halted>>
workVars == <<worker, m_activeWorkers>>

StopPcs == {"stop_listening", "close", "halt", "join", "check", "deciding", "blocked", "clear"}
CrashPcs == {"terminate", "null io_service"}
Running == {w \in Workers : worker[w] = "running"}

Init == /\ mainPc = "idle"
        /\ caller = "none"
        /\ m_running \in RunningAtConstruction
        /\ m_ioThread = FALSE
        /\ ioPc = "none"
        /\ transport = "uninitialized"
        /\ halted = FALSE
        /\ worker = [w \in Workers |-> "none"]
        /\ m_activeWorkers = 0
        /\ sessions = {}
        /\ lostWakeup = FALSE

-------------------------------------------------------------------------------
(***************************************************************************)
(* Start.  It refuses when m_running is set.  Otherwise init_asio (first   *)
(* time) or reset, listen and start_accept, any of which may throw; an     *)
(* exception leaves the transport as far as it got.  listen demands the    *)
(* READY state, so it always throws on an endpoint still LISTENING.        *)
(***************************************************************************)
StartRefused ==
    /\ mainPc = "idle"
    /\ m_running
    /\ UNCHANGED vars

StartFails ==
    /\ mainPc = "idle"
    /\ ~m_running
    /\ halted' = FALSE
    /\ \/ transport = "listening" /\ UNCHANGED transport      \* invalid_state
       \/ transport # "listening" /\ PortMayBeTaken /\ transport' = "ready"
       \/ transport # "listening" /\ IoMayFail /\ transport' = "listening"  \* start_accept
    /\ UNCHANGED <<mainVars, m_running, m_ioThread, ioPc, workVars, sessions>>

(***************************************************************************)
(* Assigning the new thread to a joinable m_ioThread is std::terminate.    *)
(***************************************************************************)
StartSucceeds ==
    /\ mainPc = "idle"
    /\ ~m_running
    /\ transport # "listening"
    /\ transport' = "listening"
    /\ halted' = FALSE
    /\ m_running' = TRUE
    /\ IF m_ioThread
         THEN mainPc' = "terminate" /\ UNCHANGED <<m_ioThread, ioPc>>
         ELSE m_ioThread' = TRUE /\ ioPc' = "running" /\ UNCHANGED mainPc
    /\ UNCHANGED <<caller, lostWakeup, workVars, sessions>>

(***************************************************************************)
(* std::thread may throw, with m_running already set.  Nothing catches it  *)
(* before it leaves the plugin's constructor, which destroys the server it *)
(* had made: ~WebSocketServer calls Stop, on an endpoint that listens and  *)
(* an IO thread that never was.                                            *)
(***************************************************************************)
StartThrows ==
    /\ mainPc = "idle"
    /\ ~m_running
    /\ ThreadsMayFail
    /\ transport # "listening"
    /\ transport' = "listening"
    /\ halted' = FALSE
    /\ m_running' = FALSE
    /\ mainPc' = "stop_listening"
    /\ caller' = "~WebSocketServer"
    /\ lostWakeup' = FALSE
    /\ UNCHANGED <<m_ioThread, ioPc, workVars, sessions>>

-------------------------------------------------------------------------------
(***************************************************************************)
(* Stop.  When m_running is set: clear it, stop listening, close every     *)
(* session, halt the io_service.  In any case: join the IO thread if it is *)
(* joinable, wait for the workers, clear the maps.                         *)
(***************************************************************************)
EnterStop(who) ==
    /\ caller' = who
    /\ lostWakeup' = FALSE
    /\ m_running' = FALSE
    /\ mainPc' = IF m_running THEN "stop_listening" ELSE "join"
    /\ UNCHANGED <<ioVars, workVars, sessions>>

CallStop == mainPc = "idle" /\ EnterStop("owner")
Unload   == mainPc = "idle" /\ EnterStop("~DataBridgePlugin")

StopListening ==
    /\ mainPc = "stop_listening"
    /\ transport' = IF transport = "listening" THEN "ready" ELSE transport
    /\ mainPc' = "close"
    /\ UNCHANGED <<caller, lostWakeup, m_running, ioPc, m_ioThread, halted, workVars, sessions>>

(***************************************************************************)
(* The closing handshakes are only begun here: the sessions go when the IO *)
(* thread completes them, or with ClearMaps.                               *)
(***************************************************************************)
CloseSessions ==
    /\ mainPc = "close"
    /\ mainPc' = "halt"
    /\ UNCHANGED <<caller, lostWakeup, m_running, ioVars, workVars, sessions>>

Halt ==
    /\ mainPc = "halt"
    /\ IF transport = "uninitialized"
         THEN mainPc' = "null io_service" /\ UNCHANGED halted
         ELSE mainPc' = "join" /\ halted' = TRUE
    /\ UNCHANGED <<caller, lostWakeup, m_running, ioPc, m_ioThread, transport, workVars, sessions>>

Join ==
    /\ mainPc = "join"
    /\ m_ioThread => ioPc = "done"
    /\ m_ioThread' = FALSE
    /\ mainPc' = "check"
    /\ UNCHANGED <<caller, lostWakeup, m_running, ioPc, transport, halted, workVars, sessions>>

\* Mutant: Stop does not wait for the workers.
CheckWorkers_NoWait ==
    /\ mainPc = "check"
    /\ mainPc' = "clear"
    /\ UNCHANGED <<caller, lostWakeup, m_running, ioVars, workVars, sessions>>

(***************************************************************************)
(* m_workersCv.wait: the predicate is read with m_workersMutex held, and   *)
(* blocking releases it; the workers never take that mutex, so they may    *)
(* move between the two.                                                   *)
(***************************************************************************)
CheckWorkers ==
    /\ mainPc = "check"
    /\ mainPc' = IF m_activeWorkers = 0 THEN "clear" ELSE "deciding"
    /\ UNCHANGED <<caller, lostWakeup, m_running, ioVars, workVars, sessions>>

Block ==
    /\ mainPc = "deciding"
    /\ mainPc' = "blocked"
    /\ UNCHANGED <<caller, lostWakeup, m_running, ioVars, workVars, sessions>>

(***************************************************************************)
(* The end of Stop, and what its caller does next.  Destroying a joinable  *)
(* m_ioThread would be std::terminate.                                     *)
(***************************************************************************)
ClearMaps ==
    /\ mainPc = "clear"
    /\ sessions' = {}
    /\ CASE caller = "owner" ->
               /\ mainPc' = "idle" /\ caller' = "none"
               /\ UNCHANGED <<m_running, lostWakeup>>
         [] caller = "~DataBridgePlugin" ->
               /\ caller' = "~WebSocketServer" /\ lostWakeup' = FALSE
               /\ m_running' = FALSE
               /\ mainPc' = IF m_running THEN "stop_listening" ELSE "join"
         [] OTHER ->
               /\ mainPc' = IF m_ioThread THEN "terminate" ELSE "destroyed"
               /\ caller' = "none"
               /\ UNCHANGED <<m_running, lostWakeup>>
    /\ UNCHANGED <<ioVars, workVars>>

-------------------------------------------------------------------------------
(***************************************************************************)
(* The IO thread.  Handlers run one after another, and none once the       *)
(* io_service is halted.  An exception of a handler leaves run().          *)
(***************************************************************************)
HandlersRun == ioPc = "running" /\ ~halted

OnOpen(c) ==
    /\ HandlersRun
    /\ sessions' = sessions \union {c}
    /\ UNCHANGED <<mainVars, m_running, ioVars, workVars>>

OnClose(c) ==
    /\ HandlersRun
    /\ c \in sessions
    /\ sessions' = sessions \ {c}
    /\ UNCHANGED <<mainVars, m_running, ioVars, workVars>>

\* Mutant: the test of the cap counts one too many.
OnMessage_OffByOne(c, w) ==
    /\ HandlersRun
    /\ c \in sessions
    /\ m_activeWorkers <= MaxConcurrentRequests
    /\ worker[w] = "none"
    /\ m_activeWorkers' = m_activeWorkers + 1
    /\ worker' = [worker EXCEPT ![w] = "running"]
    /\ UNCHANGED <<mainVars, m_running, ioVars, sessions>>

\* Mutant: nobody raises the counter.
OnMessage_Uncounted(c, w) ==
    /\ HandlersRun
    /\ c \in sessions
    /\ m_activeWorkers < MaxConcurrentRequests
    /\ worker[w] = "none"
    /\ worker' = [worker EXCEPT ![w] = "running"]
    /\ UNCHANGED <<mainVars, m_running, ioVars, m_activeWorkers, sessions>>

(***************************************************************************)
(* A request of a registered client below the cap: count it, then create   *)
(* the thread.  At the cap the client gets an error and nothing changes.   *)
(***************************************************************************)
OnMessage(c, w) ==
    /\ HandlersRun
    /\ c \in sessions
    /\ m_activeWorkers < MaxConcurrentRequests
    /\ worker[w] = "none"
    /\ m_activeWorkers' = m_activeWorkers + 1
    /\ worker' = [worker EXCEPT ![w] = "running"]
    /\ UNCHANGED <<mainVars, m_running, ioVars, sessions>>

OnMessageThreadFails(c) ==
    /\ ThreadsMayFail
    /\ HandlersRun
    /\ c \in sessions
    /\ m_activeWorkers < MaxConcurrentRequests
    /\ m_activeWorkers' = m_activeWorkers + 1
    /\ ioPc' = "throwing"
    /\ UNCHANGED <<mainVars, m_running, m_ioThread, transport, halted, worker, sessions>>

IoThrows ==
    /\ IoMayFail
    /\ HandlersRun
    /\ ioPc' = "throwing"
    /\ UNCHANGED <<mainVars, m_running, m_ioThread, transport, halted, workVars, sessions>>

\* Mutant: the handler of the exception also stops listening.
IoCatches_StopsListening ==
    /\ ioPc = "throwing"
    /\ ioPc' = "leaving"
    /\ m_running' = FALSE
    /\ transport' = "ready"
    /\ UNCHANGED <<mainVars, m_ioThread, halted, workVars, sessions>>

IoCatches ==
    /\ ioPc = "throwing"
    /\ ioPc' = "leaving"
    /\ m_running' = FALSE
    /\ UNCHANGED <<mainVars, m_ioThread, transport, halted, workVars, sessions>>

(***************************************************************************)
(* run() returns when halted, when nothing is left to wait for after the   *)
(* listening has stopped, or when the accept loop broke off.               *)
(***************************************************************************)
RunReturns ==
    /\ ioPc = "running"
    /\ halted \/ (sessions = {} /\ (transport # "listening" \/ IoMayFail))
    /\ ioPc' = "leaving"
    /\ UNCHANGED <<mainVars, m_running, m_ioThread, transport, halted, workVars, sessions>>

\* Mutant: m_running is only cleared by the exception handlers.
IoExits_KeepsRunning ==
    /\ ioPc = "leaving"
    /\ ioPc' = "done"
    /\ UNCHANGED <<mainVars, m_running, m_ioThread, transport, halted, workVars, sessions>>

IoExits ==
    /\ ioPc = "leaving"
    /\ ioPc' = "done"
    /\ m_running' = FALSE
    /\ UNCHANGED <<mainVars, m_ioThread, transport, halted, workVars, sessions>>

-------------------------------------------------------------------------------
(***************************************************************************)
(* A worker: the request is processed, then the counter goes down, then    *)
(* the condition variable is notified; no lock is taken.                   *)
(***************************************************************************)
\* Mutant: the counter goes down in the catch block and again at the end.
WorkerCountsDown_Twice(w) ==
    /\ worker[w] = "running"
    /\ worker' = [worker EXCEPT ![w] = "notifying"]
    /\ m_activeWorkers' \in {m_activeWorkers - 1, m_activeWorkers - 2}
    /\ UNCHANGED <<mainVars, m_running, ioVars, sessions>>

WorkerCountsDown(w) ==
    /\ worker[w] = "running"
    /\ worker' = [worker EXCEPT ![w] = "notifying"]
    /\ m_activeWorkers' = m_activeWorkers - 1
    /\ UNCHANGED <<mainVars, m_running, ioVars, sessions>>

\* Mutant: the worker ends without a notify.
WorkerNotifies_Forgets(w) ==
    /\ worker[w] = "notifying"
    /\ worker' = [worker EXCEPT ![w] = "none"]
    /\ UNCHANGED <<mainVars, m_running, ioVars, m_activeWorkers, sessions>>

\* The worker's last step touches m_workersCV.  In "destroyed" that object is
\* gone and the step uses freed memory: no state of mainPc stands for it, so
\* it is not among what NeverCrashes rules out; NoWorkerOutlives speaks of it.
WorkerNotifies(w) ==
    /\ worker[w] = "notifying"
    /\ worker' = [worker EXCEPT ![w] = "none"]
    /\ mainPc' = IF mainPc = "blocked" THEN "check" ELSE mainPc
    /\ lostWakeup' = (lostWakeup \/ mainPc = "deciding")
    /\ UNCHANGED <<caller, m_running, ioVars, m_activeWorkers, sessions>>

-------------------------------------------------------------------------------
StopStep == \/ StopListening \/ CloseSessions \/ Halt \/ Join
            \/ CheckWorkers \/ Block \/ ClearMaps

Main == \/ StartRefused \/ StartFails \/ StartSucceeds \/ StartThrows
        \/ CallStop \/ Unload \/ StopStep

IoEnds == IoCatches \/ RunReturns \/ IoExits

Io == \/ \E c \in Clients :
             \/ OnOpen(c) \/ OnClose(c) \/ OnMessageThreadFails(c)
             \/ \E w \in Workers : OnMessage(c, w)
      \/ IoThrows \/ IoEnds

Worker(w) == WorkerCountsDown(w) \/ WorkerNotifies(w)

Next == Main \/ Io \/ \E w \in Workers : Worker(w)

Spec == Init /\ [][Next]_vars

(***************************************************************************)
(* The main thread inside Stop, the IO thread on its way out and every     *)
(* worker are scheduled, and requests end.  Nobody has to call Start or    *)
(* Stop, connect, or send anything; no spurious wakeup is counted on.      *)
(***************************************************************************)
Fairness == /\ WF_vars(StopStep)
            /\ WF_vars(IoEnds)
            /\ \A w \in Workers : WF_vars(Worker(w))

FairSpec == Spec /\ Fairness

-------------------------------------------------------------------------------
(***************************************************************************)
(* The type invariant.                                                     *)
(***************************************************************************)
TypeOK ==
    /\ mainPc \in {"idle", "destroyed"} \union StopPcs \union CrashPcs
    /\ caller \in {"none", "owner", "~DataBridgePlugin", "~WebSocketServer"}
    /\ m_running \in BOOLEAN
    /\ m_ioThread \in BOOLEAN
    /\ ioPc \in {"none", "running", "throwing", "leaving", "done"}
    /\ transport \in {"uninitialized", "ready", "listening"}
    /\ halted \in BOOLEAN
    /\ worker \in [Workers -> {"none", "running", "notifying"}]
    /\ m_activeWorkers \in Nat
    /\ sessions \subseteq Clients
    /\ lostWakeup \in BOOLEAN

(***************************************************************************)
(* Never more than MAX_CONCURRENT_REQUESTS requests are in progress.  The  *)
(* IO thread tests the cap and then raises the counter; it alone raises    *)
(* it, so the two can be one step, while the workers lower it.             *)
(***************************************************************************)
WorkerCap == Cardinality(Running) <= MaxConcurrentRequests

(***************************************************************************)
(* The counter is the number of requests in progress: it is what the cap   *)
(* and the wait of Stop go by.  ("Per-request worker tracking: workers are *)
(* detached threads that decrement m_activeWorkers on exit".)              *)
(***************************************************************************)
ActiveWorkersExact == m_activeWorkers = Cardinality(Running)

(***************************************************************************)
(* Whatever fails, every request in progress is counted: Stop never finds  *)
(* the counter at zero too early.                                          *)
(***************************************************************************)
EveryWorkerCounted == Cardinality(Running) <= m_activeWorkers

(***************************************************************************)
(* When Stop clears the maps, and as long as the server is gone, neither   *)
(* the IO thread nor a request runs: nothing reads the maps, the plugin or *)
(* the SDK behind the back of the unload.                                  *)
(***************************************************************************)
Quiescent ==
    mainPc \in {"clear", "destroyed"} => Running = {} /\ ioPc \in {"none", "done"}

(***************************************************************************)
(* No order of Start, Stop, unload and failures of the event loop reaches  *)
(* std::terminate on m_ioThread or the null io_service, given that         *)
(* m_running starts out false.  After the event loop died, only the        *)
(* failure of listen keeps a second Start from assigning to the joinable   *)
(* thread.                                                                 *)
(***************************************************************************)
NeverCrashes == mainPc \notin CrashPcs

(***************************************************************************)
(* Outside Stop m_running tells whether the event loop is alive; it is     *)
(* stale only while the dying IO thread is on its way to clear it.         *)
(***************************************************************************)
RunningIsTruthful ==
    mainPc = "idle" => /\ ioPc = "running" => m_running
                       /\ ioPc \in {"none", "done"} => ~m_running

(***************************************************************************)
(* Stop ends, unless a worker's notify fell into the gap between Stop's    *)
(* test and its blocking, or a request was counted that no thread runs:    *)
(* those are the only ways it can hang, also after the event loop died.    *)
(***************************************************************************)
CountLeaked == m_activeWorkers > Cardinality(Running)
StopEndsUnlessWakeupLost ==
    (mainPc \in StopPcs) ~> (mainPc \in {"idle", "destroyed"} \/ lostWakeup \/ CountLeaked)

(***************************************************************************)
(* "Stop the server and join all threads": Stop returns.                   *)
(***************************************************************************)
StopReturns == (mainPc \in StopPcs) ~> (mainPc \in {"idle", "destroyed"})

(***************************************************************************)
(* "Stop() waits for the count to reach zero before tearing down so no     *)
(* worker outlives the DLL": no worker has code of the DLL left to run.    *)
(***************************************************************************)
NoWorkerOutlives == mainPc = "destroyed" => \A w \in Workers : worker[w] = "none"

(***************************************************************************)
(* "Reuse after Stop(): the transport stays in READY state": after a Stop  *)
(* that followed a successful Start, Start can listen again.               *)
(***************************************************************************)
ReadyAfterStop ==
    mainPc = "idle" /\ ~m_ioThread /\ ioPc = "done" => transport = "ready"
===============================================================================
