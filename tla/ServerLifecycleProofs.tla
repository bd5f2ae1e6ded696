------------------------ MODULE ServerLifecycleProofs -------------------------
(***************************************************************************)
(* Proofs about ServerLifecycle, for any number of connections, worker     *)
(* threads and any worker cap, and whatever may fail.                      *)
(***************************************************************************)
EXTENDS ServerLifecycle, FiniteSetTheorems, TLAPS

AllActions ==
    \/ Main
    \/ \E c \in Clients : OnOpen(c) \/ OnClose(c) \/ OnMessageThreadFails(c)
    \/ \E c \in Clients, w \in Workers : OnMessage(c, w)
    \/ IoThrows \/ IoEnds
    \/ \E w \in Workers : WorkerCountsDown(w) \/ WorkerNotifies(w)

(***************************************************************************)
(* The counter is never below the requests in progress and never above the *)
(* cap.  A thread that could not be created stays counted, so equality     *)
(* holds only when std::thread does not throw.                             *)
(***************************************************************************)
CountInv ==
    /\ m_activeWorkers \in 0 .. MaxConcurrentRequests
    /\ Cardinality(Running) <= m_activeWorkers
    /\ ~ThreadsMayFail => ActiveWorkersExact

(***************************************************************************)
(* An IO thread that is alive is joinable, and joined before Stop looks at *)
(* the workers; with no IO thread the counter cannot rise again.           *)
(***************************************************************************)
JoinInv ==
    /\ ~m_ioThread => ioPc \in {"none", "done"}
    /\ mainPc \in {"check", "deciding", "blocked", "clear", "destroyed"} => ~m_ioThread
    /\ mainPc \in {"clear", "destroyed"} => m_activeWorkers = 0

IInv == TypeOK /\ CountInv /\ JoinInv

-------------------------------------------------------------------------------
\* The next-state relation, with every thread's steps as separate cases.
LEMMA NextIsAllActions == Next => AllActions
  BY DEF Next, AllActions, Io, Worker

\* There are finitely many requests in progress.
LEMMA RunningFinite ==
    ASSUME TypeOK
    PROVE  IsFiniteSet(Running) /\ Cardinality(Running) \in Nat
  BY FS_Subset, FS_CardinalityType, LifecycleAssumption DEF Running

\* Every step keeps the types; the counter needs CountInv.
LEMMA TypeStep == TypeOK /\ CountInv /\ [Next]_vars => TypeOK'
  <1> SUFFICES ASSUME TypeOK, CountInv, [Next]_vars PROVE TypeOK'
    OBVIOUS
  <1> USE DEF TypeOK, mainVars, ioVars, workVars
  <1>1. CASE StartRefused \/ StartFails \/ StartSucceeds \/ StartThrows
    BY <1>1 DEF StartRefused, StartFails, StartSucceeds, StartThrows, vars, StopPcs, CrashPcs
  <1>2. CASE CallStop \/ Unload
    BY <1>2 DEF CallStop, Unload, EnterStop, StopPcs
  <1>3. CASE StopListening \/ CloseSessions \/ Halt \/ Join \/ CheckWorkers \/ Block
    <2>1. CASE StopListening
      BY <2>1 DEF StopListening, StopPcs
    <2>2. CASE CloseSessions \/ Block
      BY <2>2 DEF CloseSessions, Block, StopPcs
    <2>3. CASE Halt
      BY <2>3 DEF Halt, StopPcs, CrashPcs
    <2>4. CASE Join
      BY <2>4 DEF Join, StopPcs
    <2>5. CASE CheckWorkers
      BY <2>5 DEF CheckWorkers, StopPcs
    <2>6. QED
      BY <1>3, <2>1, <2>2, <2>3, <2>4, <2>5
  <1>4. CASE ClearMaps
    BY <1>4 DEF ClearMaps, StopPcs, CrashPcs
  <1>5. ASSUME NEW c \in Clients, OnOpen(c) \/ OnClose(c) \/ OnMessageThreadFails(c)
        PROVE  TypeOK'
    BY <1>5 DEF OnOpen, OnClose, OnMessageThreadFails
  <1>6. ASSUME NEW c \in Clients, NEW w \in Workers, OnMessage(c, w)
        PROVE  TypeOK'
    <2>1. worker' \in [Workers -> {"none", "running", "notifying"}] /\ m_activeWorkers' \in Nat
      BY <1>6 DEF OnMessage
    <2>2. UNCHANGED <<mainVars, m_running, ioVars, sessions>>
      BY <1>6 DEF OnMessage
    <2>3. QED
      BY <2>1, <2>2
  <1>7. CASE IoThrows \/ IoEnds
    BY <1>7 DEF IoThrows, IoEnds, IoCatches, RunReturns, IoExits
  <1>8. ASSUME NEW w \in Workers, WorkerCountsDown(w)
        PROVE  TypeOK'
    <2>1. w \in Running
      BY <1>8 DEF WorkerCountsDown, Running
    <2>2. Cardinality(Running) # 0 /\ Cardinality(Running) \in Nat
      BY <2>1, RunningFinite, FS_EmptySet
    <2>3. m_activeWorkers \in Nat \ {0}
      BY <2>2 DEF CountInv
    <2>4. worker' \in [Workers -> {"none", "running", "notifying"}] /\ m_activeWorkers' \in Nat
      BY <1>8, <2>3 DEF WorkerCountsDown
    <2>5. UNCHANGED <<mainVars, m_running, ioVars, sessions>>
      BY <1>8 DEF WorkerCountsDown
    <2>6. QED
      BY <2>4, <2>5
  <1>9. ASSUME NEW w \in Workers, WorkerNotifies(w)
        PROVE  TypeOK'
    BY <1>9 DEF WorkerNotifies, StopPcs
  <1>10. CASE UNCHANGED vars
    BY <1>10 DEF vars
  <1>11. QED
    BY <1>1, <1>2, <1>3, <1>4, <1>5, <1>6, <1>7, <1>8, <1>9, <1>10, NextIsAllActions
       DEF AllActions, Main, StopStep

\* Every step keeps the bounds on the worker counter.
LEMMA CountStep == TypeOK /\ CountInv /\ [Next]_vars => CountInv'
  <1> SUFFICES ASSUME TypeOK, CountInv, [Next]_vars PROVE CountInv'
    OBVIOUS
  <1> USE DEF mainVars, ioVars, workVars
  <1>1. IsFiniteSet(Running) /\ Cardinality(Running) \in Nat /\ MaxConcurrentRequests \in Nat
        /\ m_activeWorkers \in 0 .. MaxConcurrentRequests
        /\ Cardinality(Running) <= m_activeWorkers
        /\ (~ThreadsMayFail => m_activeWorkers = Cardinality(Running))
    BY RunningFinite, LifecycleAssumption DEF CountInv, ActiveWorkersExact
  <1>2. ASSUME UNCHANGED workVars PROVE CountInv'
    <2>1. Running' = Running
      BY <1>2 DEF Running
    <2>2. QED
      BY <1>2, <2>1 DEF CountInv, ActiveWorkersExact
  <1>3. ASSUME NEW c \in Clients, NEW w \in Workers, OnMessage(c, w) PROVE CountInv'
    <2>1. Running' = Running \union {w} /\ w \notin Running
      BY <1>3 DEF OnMessage, Running, TypeOK
    <2>2. Cardinality(Running') = Cardinality(Running) + 1
      BY <1>1, <2>1, FS_AddElement
    <2>3. m_activeWorkers' = m_activeWorkers + 1 /\ m_activeWorkers < MaxConcurrentRequests
      BY <1>3 DEF OnMessage
    <2>4. QED
      BY <1>1, <2>2, <2>3 DEF CountInv, ActiveWorkersExact
  <1>4. ASSUME NEW c \in Clients, OnMessageThreadFails(c) PROVE CountInv'
    <2>1. Running' = Running
      BY <1>4 DEF OnMessageThreadFails, Running
    <2>2. QED
      BY <1>1, <1>4, <2>1 DEF OnMessageThreadFails, CountInv, ActiveWorkersExact
  <1>5. ASSUME NEW w \in Workers, WorkerCountsDown(w) PROVE CountInv'
    <2>1. Running' = Running \ {w} /\ w \in Running
      BY <1>5 DEF WorkerCountsDown, Running, TypeOK
    <2>2. Cardinality(Running') = Cardinality(Running) - 1 /\ Cardinality(Running') \in Nat
      BY <1>1, <2>1, FS_RemoveElement, FS_CardinalityType
    <2>3. m_activeWorkers' = m_activeWorkers - 1
      BY <1>5 DEF WorkerCountsDown
    <2>4. QED
      BY <1>1, <2>2, <2>3 DEF CountInv, ActiveWorkersExact
  <1>6. ASSUME NEW w \in Workers, WorkerNotifies(w) PROVE CountInv'
    <2>1. Running' = Running /\ UNCHANGED m_activeWorkers
      BY <1>6 DEF WorkerNotifies, Running, TypeOK
    <2>2. QED
      BY <2>1 DEF CountInv, ActiveWorkersExact
  <1>7. CASE Main
    <2>1. UNCHANGED workVars
      BY <1>7 DEF Main, StartRefused, StartFails, StartSucceeds, StartThrows, CallStop, Unload,
                  EnterStop, StopStep, StopListening, CloseSessions, Halt, Join, CheckWorkers, Block,
                  ClearMaps, vars
    <2>2. QED
      BY <1>2, <2>1
  <1>8. ASSUME NEW c \in Clients, OnOpen(c) \/ OnClose(c) PROVE CountInv'
    BY <1>2, <1>8 DEF OnOpen, OnClose
  <1>9. CASE IoThrows \/ IoEnds
    BY <1>2, <1>9 DEF IoThrows, IoEnds, IoCatches, RunReturns, IoExits
  <1>10. CASE UNCHANGED vars
    BY <1>2, <1>10 DEF vars
  <1>11. QED
    BY <1>3, <1>4, <1>5, <1>6, <1>7, <1>8, <1>9, <1>10, NextIsAllActions DEF AllActions

(***************************************************************************)
(* A worker can only count down what CountInv says is there, and once the  *)
(* counter is zero with the IO thread joined nothing raises it.            *)
(***************************************************************************)
LEMMA JoinStep == TypeOK /\ CountInv /\ JoinInv /\ [Next]_vars => JoinInv'
  <1> SUFFICES ASSUME TypeOK, CountInv, JoinInv, [Next]_vars PROVE JoinInv'
    OBVIOUS
  <1> USE DEF JoinInv, mainVars, ioVars, workVars, HandlersRun
  <1>1. CASE StartRefused \/ StartFails \/ StartSucceeds \/ StartThrows
    BY <1>1 DEF StartRefused, StartFails, StartSucceeds, StartThrows, vars
  <1>2. CASE CallStop \/ Unload
    BY <1>2 DEF CallStop, Unload, EnterStop
  <1>3. CASE StopListening \/ CloseSessions \/ Halt \/ Join
    BY <1>3 DEF StopListening, CloseSessions, Halt, Join
  <1>4. CASE CheckWorkers \/ Block
    BY <1>4 DEF CheckWorkers, Block
  <1>5. CASE ClearMaps
    BY <1>5 DEF ClearMaps
  <1>6. ASSUME NEW c \in Clients, OnOpen(c) \/ OnClose(c) \/ OnMessageThreadFails(c)
        PROVE  JoinInv'
    BY <1>6 DEF OnOpen, OnClose, OnMessageThreadFails
  <1>7. ASSUME NEW c \in Clients, NEW w \in Workers, OnMessage(c, w) PROVE JoinInv'
    BY <1>7 DEF OnMessage
  <1>8. CASE IoThrows \/ IoEnds
    BY <1>8 DEF IoThrows, IoEnds, IoCatches, RunReturns, IoExits
  <1>9. ASSUME NEW w \in Workers, WorkerCountsDown(w) PROVE JoinInv'
    <2>1. w \in Running
      BY <1>9 DEF WorkerCountsDown, Running
    <2>2. Cardinality(Running) # 0
      BY <2>1, RunningFinite, FS_EmptySet
    <2>3. m_activeWorkers # 0
      BY <2>2, RunningFinite DEF CountInv, TypeOK
    <2>4. QED
      BY <1>9, <2>3 DEF WorkerCountsDown
  <1>10. ASSUME NEW w \in Workers, WorkerNotifies(w) PROVE JoinInv'
    BY <1>10 DEF WorkerNotifies
  <1>11. CASE UNCHANGED vars
    BY <1>11 DEF vars
  <1>12. QED
    BY <1>1, <1>2, <1>3, <1>4, <1>5, <1>6, <1>7, <1>8, <1>9, <1>10, <1>11, NextIsAllActions
       DEF AllActions, Main, StopStep

(***************************************************************************)
(* The three parts together are inductive.                                 *)
(***************************************************************************)
THEOREM LifecycleInvariant == Spec => []IInv
  <1>1. Init => IInv
    <2> SUFFICES ASSUME Init PROVE IInv
      OBVIOUS
    <2>1. TypeOK
      BY LifecycleAssumption DEF Init, TypeOK
    <2>2. CountInv
      <3>1. Running = {}
        BY DEF Init, Running
      <3>2. QED
        BY <3>1, FS_EmptySet, LifecycleAssumption DEF Init, CountInv, ActiveWorkersExact
    <2>3. QED
      BY <2>1, <2>2 DEF Init, IInv, JoinInv
  <1>2. IInv /\ [Next]_vars => IInv'
    BY TypeStep, CountStep, JoinStep DEF IInv
  <1>3. QED
    BY <1>1, <1>2, PTL DEF Spec

(***************************************************************************)
(* Type correctness: in particular the worker counter is never negative.   *)
(***************************************************************************)
THEOREM TypeCorrect == Spec => []TypeOK
  <1>1. IInv => TypeOK
    BY DEF IInv
  <1>2. QED
    BY <1>1, LifecycleInvariant, PTL

(***************************************************************************)
(* The cap on concurrent requests holds, even when thread creation fails.  *)
(***************************************************************************)
THEOREM CapOnWorkers == Spec => []WorkerCap
  <1>1. IInv => WorkerCap
    <2> SUFFICES ASSUME IInv PROVE WorkerCap
      OBVIOUS
    <2>1. Cardinality(Running) \in Nat /\ MaxConcurrentRequests \in Nat
      BY RunningFinite, LifecycleAssumption DEF IInv
    <2>2. QED
      BY <2>1 DEF IInv, CountInv, WorkerCap
  <1>2. QED
    BY <1>1, LifecycleInvariant, PTL

(***************************************************************************)
(* If std::thread does not throw, the counter is exact.                    *)
(***************************************************************************)
THEOREM CounterExact == ASSUME ~ThreadsMayFail PROVE Spec => []ActiveWorkersExact
  <1>1. IInv => ActiveWorkersExact
    BY DEF IInv, CountInv
  <1>2. QED
    BY <1>1, LifecycleInvariant, PTL

(***************************************************************************)
(* When Stop clears the maps and after the server is destroyed no request  *)
(* is in progress and the IO thread is gone.                               *)
(***************************************************************************)
THEOREM StopIsQuiescent == Spec => []Quiescent
  <1>1. IInv => Quiescent
    <2> SUFFICES ASSUME IInv, mainPc \in {"clear", "destroyed"}
                 PROVE  Running = {} /\ ioPc \in {"none", "done"}
      BY DEF Quiescent
    <2>1. m_activeWorkers = 0 /\ ~m_ioThread
      BY DEF IInv, JoinInv
    <2>2. IsFiniteSet(Running) /\ Cardinality(Running) = 0
      BY <2>1, RunningFinite DEF IInv, CountInv
    <2>3. QED
      BY <2>1, <2>2, FS_EmptySet DEF IInv, JoinInv
  <1>2. QED
    BY <1>1, LifecycleInvariant, PTL

(***************************************************************************)
(* Every request in progress is counted, also when thread creation fails:  *)
(* the wait of Stop cannot end while a worker processes a request.         *)
(***************************************************************************)
THEOREM AllCounted == Spec => []EveryWorkerCounted
  <1>1. IInv => EveryWorkerCounted
    BY DEF IInv, CountInv, EveryWorkerCounted
  <1>2. QED
    BY <1>1, LifecycleInvariant, PTL

-------------------------------------------------------------------------------
(***************************************************************************)
(* Why nothing terminates the process: m_running is set only while a       *)
(* joinable thread goes with it and nobody is inside Stop; a joinable      *)
(* thread that Stop has not begun to end comes with a LISTENING endpoint,  *)
(* on which Start fails before it would assign to the thread.              *)
(***************************************************************************)
ThreadInv ==
    /\ m_running => m_ioThread /\ mainPc = "idle"
    /\ m_ioThread /\ mainPc = "idle" => transport = "listening"
    /\ mainPc \in {"stop_listening", "close", "halt"} => transport # "uninitialized"
    /\ mainPc \in {"clear", "destroyed"} => ~m_ioThread
    /\ mainPc \notin CrashPcs

\* Every step keeps the relation of IO thread and endpoint.
LEMMA ThreadStep == IInv /\ ThreadInv /\ [Next]_vars => ThreadInv'
  <1> SUFFICES ASSUME IInv, ThreadInv, [Next]_vars PROVE ThreadInv'
    OBVIOUS
  <1> USE DEF mainVars, ioVars, workVars
  <1>1. m_running \in BOOLEAN /\ m_ioThread \in BOOLEAN
    BY DEF IInv, TypeOK
  <1>2. CASE StartSucceeds
    <2>1. ~m_ioThread /\ mainPc = "idle"
      BY <1>2 DEF StartSucceeds, ThreadInv
    <2>2. m_running' = TRUE /\ m_ioThread' = TRUE /\ mainPc' = "idle" /\ transport' = "listening"
      BY <1>2, <2>1 DEF StartSucceeds
    <2>3. QED
      BY <2>2 DEF ThreadInv, CrashPcs
  <1>3. CASE StartFails
    <2>1. /\ mainPc = "idle" /\ mainPc' = "idle" /\ m_running' = m_running
          /\ m_running = FALSE /\ m_ioThread' = m_ioThread
      BY <1>1, <1>3 DEF StartFails
    <2>2. transport = "listening" => transport' = "listening"
      BY <1>3 DEF StartFails
    <2>3. QED
      BY <2>1, <2>2 DEF ThreadInv, CrashPcs
  <1>4. CASE CallStop \/ Unload
    <2>1. /\ m_running' = FALSE /\ m_ioThread' = m_ioThread /\ transport' = transport
          /\ mainPc' = IF m_running THEN "stop_listening" ELSE "join"
      BY <1>4 DEF CallStop, Unload, EnterStop
    <2>2. m_running => transport = "listening"
      BY DEF ThreadInv
    <2>3. QED
      BY <2>1, <2>2 DEF ThreadInv, CrashPcs
  <1>5. CASE StopListening \/ CloseSessions \/ Halt \/ Join
    <2>1. /\ mainPc \in {"stop_listening", "close", "halt", "join"}
          /\ mainPc' \in {"close", "halt", "join", "check"}
          /\ mainPc' \in {"close", "halt"} => mainPc \in {"stop_listening", "close"}
          /\ m_running' = m_running
      BY <1>5 DEF StopListening, CloseSessions, Halt, Join, ThreadInv
    <2>2. m_running = FALSE
      BY <1>1, <2>1 DEF ThreadInv
    <2>3. transport # "uninitialized" => transport' # "uninitialized"
      BY <1>5 DEF StopListening, CloseSessions, Halt, Join
    <2>4. QED
      BY <2>1, <2>2, <2>3 DEF ThreadInv, CrashPcs
  <1>6. CASE CheckWorkers \/ Block
    <2>1. /\ mainPc \in {"check", "deciding"} /\ mainPc' \in {"clear", "deciding", "blocked"}
          /\ m_running' = m_running /\ m_ioThread' = m_ioThread
      BY <1>6 DEF CheckWorkers, Block
    <2>2. m_running = FALSE /\ m_ioThread = FALSE
      BY <1>1, <2>1 DEF ThreadInv, IInv, JoinInv
    <2>3. QED
      BY <2>1, <2>2 DEF ThreadInv, CrashPcs
  <1>7. CASE ClearMaps
    <2>1. mainPc = "clear" /\ m_running = FALSE /\ m_ioThread = FALSE
      BY <1>1, <1>7 DEF ClearMaps, ThreadInv
    <2>2. /\ m_running' = FALSE /\ m_ioThread' = FALSE
          /\ mainPc' \in {"idle", "join", "destroyed"}
      BY <1>7, <2>1 DEF ClearMaps
    <2>3. QED
      BY <2>2 DEF ThreadInv, CrashPcs
  <1>8. ASSUME UNCHANGED <<mainPc, m_ioThread, transport>>, m_running' \in {m_running, FALSE}
        PROVE  ThreadInv'
    <2>1. CASE m_running' = FALSE
      BY <1>8, <2>1 DEF ThreadInv, CrashPcs
    <2>2. CASE m_running' = m_running
      BY <1>8, <2>2 DEF ThreadInv, CrashPcs
    <2>3. QED
      BY <1>8, <2>1, <2>2
  <1>9. ASSUME NEW c \in Clients, OnOpen(c) \/ OnClose(c) \/ OnMessageThreadFails(c)
        PROVE  ThreadInv'
    BY <1>8, <1>9 DEF OnOpen, OnClose, OnMessageThreadFails
  <1>10. ASSUME NEW c \in Clients, NEW w \in Workers, OnMessage(c, w) PROVE ThreadInv'
    BY <1>8, <1>10 DEF OnMessage
  <1>11. CASE IoThrows \/ IoEnds
    BY <1>8, <1>11 DEF IoThrows, IoEnds, IoCatches, RunReturns, IoExits
  <1>12. ASSUME NEW w \in Workers, WorkerCountsDown(w) PROVE ThreadInv'
    BY <1>8, <1>12 DEF WorkerCountsDown
  <1>13. ASSUME NEW w \in Workers, WorkerNotifies(w) PROVE ThreadInv'
    <2>1. UNCHANGED <<m_running, m_ioThread, transport>>
      BY <1>13 DEF WorkerNotifies
    <2>2. mainPc' = mainPc \/ (mainPc = "blocked" /\ mainPc' = "check")
      BY <1>13 DEF WorkerNotifies
    <2>3. QED
      BY <1>1, <2>1, <2>2 DEF ThreadInv, CrashPcs
  <1>14. CASE UNCHANGED vars \/ StartRefused
    BY <1>8, <1>14 DEF vars, StartRefused
  <1>15. CASE StartThrows
    BY <1>15 DEF StartThrows, ThreadInv, CrashPcs
  <1>16. QED
    BY <1>2, <1>3, <1>4, <1>5, <1>6, <1>7, <1>9, <1>10, <1>11, <1>12, <1>13, <1>14, <1>15,
       NextIsAllActions DEF AllActions, Main, StopStep

(***************************************************************************)
(* If m_running starts out false, no order of starts, stops, unload and    *)
(* failures reaches std::terminate or the null io_service.                 *)
(***************************************************************************)
THEOREM NoCrash == ASSUME RunningAtConstruction = {FALSE} PROVE Spec => []NeverCrashes
  <1>1. Init => ThreadInv
    BY DEF Init, ThreadInv, CrashPcs
  <1>2. ThreadInv => NeverCrashes
    BY DEF ThreadInv, NeverCrashes
  <1>3. QED
    BY <1>1, <1>2, ThreadStep, LifecycleInvariant, PTL DEF Spec

(***************************************************************************)
(* m_running follows the IO thread: set with it, cleared before the thread *)
(* is done, and clear after every Stop, which has joined the thread.       *)
(***************************************************************************)
LEMMA TruthStep == IInv /\ ThreadInv /\ RunningIsTruthful /\ [Next]_vars => RunningIsTruthful'
  <1> SUFFICES ASSUME IInv, ThreadInv, RunningIsTruthful, [Next]_vars PROVE RunningIsTruthful'
    OBVIOUS
  <1> USE DEF mainVars, ioVars, workVars
  <1>1. m_running \in BOOLEAN /\ m_ioThread \in BOOLEAN
    BY DEF IInv, TypeOK
  <1>2. ASSUME UNCHANGED <<mainPc, m_running, ioPc>> PROVE RunningIsTruthful'
    BY <1>2 DEF RunningIsTruthful
  <1>3. CASE StartSucceeds
    <2>1. m_running' = TRUE /\ mainPc' = "idle" => ioPc' = "running"
      BY <1>3 DEF StartSucceeds
    <2>2. m_running' = TRUE
      BY <1>3 DEF StartSucceeds
    <2>3. QED
      BY <2>1, <2>2 DEF RunningIsTruthful
  <1>4. CASE ClearMaps
    <2>1. mainPc = "clear" /\ m_running = FALSE /\ m_ioThread = FALSE
      BY <1>1, <1>4 DEF ClearMaps, ThreadInv
    <2>2. ioPc \in {"none", "done"}
      BY <2>1 DEF IInv, JoinInv
    <2>3. m_running' = FALSE /\ ioPc' = ioPc
      BY <1>4, <2>1 DEF ClearMaps
    <2>4. QED
      BY <2>2, <2>3 DEF RunningIsTruthful
  <1>5. CASE StartThrows \/ CallStop \/ Unload \/ StopListening \/ CloseSessions \/ Halt
                \/ Join \/ CheckWorkers \/ Block
    <2>1. mainPc' # "idle"
      BY <1>5 DEF StartThrows, CallStop, Unload, EnterStop, StopListening, CloseSessions,
                  Halt, Join, CheckWorkers, Block
    <2>2. QED
      BY <2>1 DEF RunningIsTruthful
  <1>6. CASE IoThrows \/ RunReturns
    <2>1. ioPc' \in {"throwing", "leaving"}
      BY <1>6 DEF IoThrows, RunReturns
    <2>2. QED
      BY <2>1 DEF RunningIsTruthful
  <1>7. CASE IoCatches \/ IoExits
    <2>1. ioPc' \in {"leaving", "done"} /\ m_running' = FALSE
      BY <1>7 DEF IoCatches, IoExits
    <2>2. QED
      BY <2>1 DEF RunningIsTruthful
  <1>8. ASSUME NEW c \in Clients, OnOpen(c) \/ OnClose(c) PROVE RunningIsTruthful'
    BY <1>2, <1>8 DEF OnOpen, OnClose
  <1>9. ASSUME NEW c \in Clients, OnMessageThreadFails(c) PROVE RunningIsTruthful'
    <2>1. ioPc' = "throwing"
      BY <1>9 DEF OnMessageThreadFails
    <2>2. QED
      BY <2>1 DEF RunningIsTruthful
  <1>10. ASSUME NEW c \in Clients, NEW w \in Workers, OnMessage(c, w)
         PROVE  RunningIsTruthful'
    BY <1>2, <1>10 DEF OnMessage
  <1>11. ASSUME NEW w \in Workers, WorkerCountsDown(w) PROVE RunningIsTruthful'
    BY <1>2, <1>11 DEF WorkerCountsDown
  <1>12. ASSUME NEW w \in Workers, WorkerNotifies(w) PROVE RunningIsTruthful'
    <2>1. UNCHANGED <<m_running, ioPc>>
      BY <1>12 DEF WorkerNotifies
    <2>2. mainPc' = "idle" => mainPc = "idle"
      BY <1>12 DEF WorkerNotifies
    <2>3. QED
      BY <2>1, <2>2 DEF RunningIsTruthful
  <1>13. CASE StartFails \/ StartRefused \/ UNCHANGED vars
    BY <1>2, <1>13 DEF StartFails, StartRefused, vars
  <1>14. QED
    BY <1>3, <1>4, <1>5, <1>6, <1>7, <1>8, <1>9, <1>10, <1>11, <1>12, <1>13,
       NextIsAllActions DEF AllActions, Main, StopStep, IoEnds

\* If m_running starts out false, it always tells whether the IO thread is
\* alive, so Start refuses and Stop closes the endpoint when they should.
THEOREM RunningTells == ASSUME RunningAtConstruction = {FALSE} PROVE Spec => []RunningIsTruthful
  <1>1. Init => ThreadInv /\ RunningIsTruthful
    BY DEF Init, ThreadInv, CrashPcs, RunningIsTruthful
  <1>2. QED
    BY <1>1, ThreadStep, TruthStep, LifecycleInvariant, PTL DEF Spec
-------------------------------------------------------------------------------
(***************************************************************************)
(* An IO thread that still runs is one that m_running stands for, or one   *)
(* that the Stop in progress halts before it joins it.                     *)
(***************************************************************************)
LoopInv ==
    ioPc = "running" =>
      \/ mainPc = "idle" /\ m_running
      \/ mainPc \in {"stop_listening", "close", "halt"} \union CrashPcs
      \/ mainPc = "join" /\ halted

(***************************************************************************)
(* From its test of the counter on, Stop has a notify to come: of a worker *)
(* that is counted, or of one that has just lowered the counter; else the  *)
(* notify was lost.                                                        *)
(***************************************************************************)
WakeInv ==
    mainPc \in {"deciding", "blocked"} =>
      lostWakeup \/ m_activeWorkers > 0 \/ \E w \in Workers : worker[w] = "notifying"

(***************************************************************************)
(* The two places where Stop waits.  The IO thread it joins is on its way  *)
(* out, or was told to go; a worker will notify it, unless the counter or  *)
(* the notify went wrong before.                                           *)
(***************************************************************************)
WaitsForSomeone ==
    /\ mainPc = "join" /\ m_ioThread => ioPc # "running" \/ halted
    /\ mainPc = "blocked" => lostWakeup \/ CountLeaked \/ \E w \in Workers : worker[w] # "none"

\* Every step keeps LoopInv; JoinInv says that there is no IO thread past the join.
LEMMA LoopStep == IInv /\ LoopInv /\ [Next]_vars => LoopInv'
  <1> SUFFICES ASSUME IInv, LoopInv, [Next]_vars, ioPc' = "running"
               PROVE  \/ mainPc' = "idle" /\ m_running'
                      \/ mainPc' \in {"stop_listening", "close", "halt"} \union CrashPcs
                      \/ mainPc' = "join" /\ halted'
    BY DEF LoopInv
  <1> USE DEF mainVars, ioVars, workVars
  <1>1. /\ m_running \in BOOLEAN /\ m_ioThread \in BOOLEAN /\ halted \in BOOLEAN
        /\ ~m_ioThread => ioPc \in {"none", "done"}
        /\ mainPc \in {"check", "deciding", "blocked", "clear"} => ~m_ioThread
    BY DEF IInv, TypeOK, JoinInv
  <1>2. CASE StartFails \/ StartRefused \/ UNCHANGED vars
    BY <1>1, <1>2 DEF StartFails, StartRefused, vars, LoopInv, CrashPcs
  <1>3. CASE StartSucceeds \/ StartThrows
    BY <1>3 DEF StartSucceeds, StartThrows, CrashPcs
  <1>4. CASE CallStop \/ Unload
    BY <1>1, <1>4 DEF CallStop, Unload, EnterStop, LoopInv, CrashPcs
  <1>5. CASE StopListening \/ CloseSessions
    BY <1>5 DEF StopListening, CloseSessions
  <1>6. CASE Halt
    BY <1>6 DEF Halt, CrashPcs
  <1>7. CASE Join \/ CheckWorkers \/ Block \/ ClearMaps
    BY <1>1, <1>7 DEF Join, CheckWorkers, Block, ClearMaps
  <1>8. CASE IoThrows \/ IoEnds
    BY <1>8 DEF IoThrows, IoEnds, IoCatches, RunReturns, IoExits
  <1>9. ASSUME NEW c \in Clients, OnOpen(c) \/ OnClose(c)
        PROVE  UNCHANGED <<mainPc, m_running, ioPc, halted>>
    BY <1>9 DEF OnOpen, OnClose
  <1>10. ASSUME NEW c \in Clients PROVE ~OnMessageThreadFails(c)
    BY DEF OnMessageThreadFails
  <1>11. ASSUME NEW c \in Clients, NEW w \in Workers, OnMessage(c, w)
         PROVE  UNCHANGED <<mainPc, m_running, ioPc, halted>>
    BY <1>11 DEF OnMessage
  <1>12. ASSUME NEW w \in Workers, WorkerCountsDown(w)
         PROVE  UNCHANGED <<mainPc, m_running, ioPc, halted>>
    BY <1>12 DEF WorkerCountsDown
  <1>13. ASSUME NEW w \in Workers, WorkerNotifies(w)
         PROVE  UNCHANGED <<m_running, ioPc, halted>> /\ (mainPc # "blocked" => mainPc' = mainPc)
    BY <1>13 DEF WorkerNotifies
  <1>14. ASSUME UNCHANGED <<m_running, ioPc, halted>>, mainPc # "blocked" => mainPc' = mainPc
         PROVE  \/ mainPc' = "idle" /\ m_running'
                \/ mainPc' \in {"stop_listening", "close", "halt"} \union CrashPcs
                \/ mainPc' = "join" /\ halted'
    BY <1>1, <1>14 DEF LoopInv, CrashPcs
  <1>15. QED
    BY <1>2, <1>3, <1>4, <1>5, <1>6, <1>7, <1>8, <1>9, <1>10, <1>11, <1>12, <1>13, <1>14,
       NextIsAllActions DEF AllActions, Main, StopStep

(***************************************************************************)
(* Every step keeps WakeInv.  A worker that lowers the counter is the one  *)
(* to notify; a notify either wakes Stop or is recorded as lost.           *)
(***************************************************************************)
LEMMA WakeStep == IInv /\ WakeInv /\ [Next]_vars => WakeInv'
  <1> SUFFICES ASSUME IInv, WakeInv, [Next]_vars, mainPc' \in {"deciding", "blocked"}
               PROVE  WakeInv'
    BY DEF WakeInv
  <1> USE DEF mainVars, ioVars, workVars
  <1>1. /\ m_activeWorkers \in Nat /\ lostWakeup \in BOOLEAN
        /\ worker \in [Workers -> {"none", "running", "notifying"}]
    BY DEF IInv, TypeOK
  <1>2. ASSUME UNCHANGED <<mainPc, lostWakeup, m_activeWorkers, worker>> PROVE WakeInv'
    BY <1>2 DEF WakeInv
  <1>3. ASSUME \/ StartFails \/ StartSucceeds \/ StartThrows \/ CallStop \/ Unload
               \/ StopListening \/ CloseSessions \/ Halt \/ Join \/ ClearMaps
        PROVE  mainPc' \notin {"deciding", "blocked"} \/ UNCHANGED <<mainVars, workVars>>
    BY <1>3 DEF StartFails, StartSucceeds, StartThrows, CallStop, Unload, EnterStop,
                StopListening, CloseSessions, Halt, Join, ClearMaps
  <1>4. CASE CheckWorkers
    <2>1. m_activeWorkers # 0 /\ m_activeWorkers' = m_activeWorkers
      BY <1>4 DEF CheckWorkers
    <2>2. m_activeWorkers' > 0
      BY <1>1, <2>1
    <2>3. QED
      BY <2>2 DEF WakeInv
  <1>5. CASE Block
    BY <1>5 DEF Block, WakeInv
  <1>6. CASE StartRefused \/ IoThrows \/ IoEnds \/ UNCHANGED vars
    BY <1>2, <1>6 DEF StartRefused, IoThrows, IoEnds, IoCatches, RunReturns, IoExits, vars
  <1>7. ASSUME NEW c \in Clients, OnOpen(c) \/ OnClose(c) PROVE WakeInv'
    BY <1>2, <1>7 DEF OnOpen, OnClose
  <1>8. ASSUME m_activeWorkers' = m_activeWorkers + 1 PROVE WakeInv'
    BY <1>1, <1>8 DEF WakeInv
  <1>9. ASSUME NEW c \in Clients, OnMessageThreadFails(c) PROVE WakeInv'
    BY <1>8, <1>9 DEF OnMessageThreadFails
  <1>10. ASSUME NEW c \in Clients, NEW w \in Workers, OnMessage(c, w) PROVE WakeInv'
    BY <1>8, <1>10 DEF OnMessage
  <1>11. ASSUME NEW w \in Workers, WorkerCountsDown(w) PROVE WakeInv'
    <2>1. worker'[w] = "notifying"
      BY <1>1, <1>11 DEF WorkerCountsDown
    <2>2. QED
      BY <2>1 DEF WakeInv
  <1>12. ASSUME NEW w \in Workers, WorkerNotifies(w) PROVE WakeInv'
    <2>1. mainPc = "deciding" /\ lostWakeup'
      BY <1>12 DEF WorkerNotifies
    <2>2. QED
      BY <2>1 DEF WakeInv
  <1>13. QED
    BY <1>2, <1>3, <1>4, <1>5, <1>6, <1>7, <1>9, <1>10, <1>11, <1>12,
       NextIsAllActions DEF AllActions, Main, StopStep

(***************************************************************************)
(* Whenever Stop waits, in join or in the condition variable, there is a   *)
(* thread that goes on and ends the wait; the exceptions are a lost notify *)
(* and a counted request without a thread.  This holds whatever m_running  *)
(* was at construction.                                                    *)
(***************************************************************************)
THEOREM StopWaitsForSomeone == Spec => []WaitsForSomeone
  <1>1. Init => LoopInv /\ WakeInv
    BY DEF Init, LoopInv, WakeInv
  <1>2. IInv /\ LoopInv /\ WakeInv => WaitsForSomeone
    <2> SUFFICES ASSUME IInv, LoopInv, WakeInv PROVE WaitsForSomeone
      OBVIOUS
    <2>1. ASSUME mainPc = "join", ioPc = "running" PROVE halted
      BY <2>1 DEF LoopInv, CrashPcs
    <2>2. ASSUME mainPc = "blocked", ~lostWakeup, ~CountLeaked
          PROVE  \E w \in Workers : worker[w] # "none"
      <3>1. CASE m_activeWorkers > 0
        <4>1. Cardinality(Running) # 0
          BY <2>2, <3>1, RunningFinite DEF CountLeaked, IInv, TypeOK, CountInv
        <4>2. Running # {}
          BY <4>1, FS_EmptySet
        <4>3. QED
          BY <4>2 DEF Running
      <3>2. QED
        BY <2>2, <3>1 DEF WakeInv
    <2>3. QED
      BY <2>1, <2>2 DEF WaitsForSomeone
  <1>3. QED
    BY <1>1, <1>2, LoopStep, WakeStep, LifecycleInvariant, PTL DEF Spec
===============================================================================
