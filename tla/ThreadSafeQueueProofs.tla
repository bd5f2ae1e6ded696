------------------------ MODULE ThreadSafeQueueProofs ------------------------
(***************************************************************************)
(* Proofs about ThreadSafeQueue, for any number of threads and messages    *)
(* and any limits: first in first out without loss, and why one notify     *)
(* after the mutex is released is enough.                                  *)
(***************************************************************************)
EXTENDS ThreadSafeQueue, FiniteSetTheorems, SequenceTheorems, TLAPS

AllActions ==
    \E t \in Threads :
        \/ Push(t) \/ PushNotifies(t)
        \/ \E maxSize \in Limits : PushWithLimit(t, maxSize)
        \/ TryPop(t) \/ PopBlocking(t) \/ Wakes(t) \/ WakesSpuriously(t)
        \/ Drain(t) \/ DrainEnds(t)

\* The latest messages, in their order.
Latest(q, p) == \A i \in 1 .. Len(q) : q[i] = (p - Len(q)) + i

\* What a step does to the queue: nothing, or one of the three operations.
Appends == /\ pushed' = pushed + 1 /\ queue' = Append(queue, pushed')
           /\ UNCHANGED <<taken, dropped>>
DropsAndAppends == /\ queue # <<>> /\ pushed' = pushed + 1
                   /\ queue' = Append(Tail(queue), pushed')
                   /\ dropped' = dropped \cup {Head(queue)} /\ UNCHANGED taken
HandsOut == /\ queue # <<>> /\ queue' = Tail(queue)
            /\ taken' = taken \cup {Head(queue)} /\ UNCHANGED <<pushed, dropped>>
LeavesAlone == UNCHANGED <<queue, pushed, taken, dropped>>

IInv == TypeOK /\ InOrder /\ NoSleeperForgotten

------------------------------------------------------------------------------
\* Every step is one of these, by some thread.
LEMMA NextIsAllActions == Next => AllActions
  BY DEF Next, Step, AllActions

\* A message appended to the latest ones is the latest.
LEMMA Appending ==
    ASSUME NEW p \in Nat, NEW q \in Seq(1 .. p), Latest(q, p)
    PROVE  /\ Append(q, p + 1) \in Seq(1 .. p + 1)
           /\ Len(Append(q, p + 1)) = Len(q) + 1
           /\ Latest(Append(q, p + 1), p + 1)
  <1>1. q \in Seq(1 .. p + 1) /\ p + 1 \in 1 .. p + 1 /\ Len(q) \in Nat
    <2>1. 1 .. p \subseteq 1 .. p + 1
      OBVIOUS
    <2>2. q \in Seq(1 .. p + 1)
      BY <2>1, SeqMonotonic
    <2>3. QED
      BY <2>2, LenProperties
  <1>2. /\ Append(q, p + 1) \in Seq(1 .. p + 1)
        /\ Len(Append(q, p + 1)) = Len(q) + 1
        /\ \A i \in 1 .. Len(q) : Append(q, p + 1)[i] = q[i]
        /\ Append(q, p + 1)[Len(q) + 1] = p + 1
    BY <1>1, AppendProperties
  <1>3. ASSUME NEW i \in 1 .. Len(q) + 1
        PROVE  Append(q, p + 1)[i] = ((p + 1) - (Len(q) + 1)) + i
    BY <1>1, <1>2 DEF Latest
  <1>4. QED
    BY <1>2, <1>3 DEF Latest

\* The front is the oldest message that is left, and the rest stay in order.
LEMMA Taking ==
    ASSUME NEW p \in Nat, NEW q \in Seq(1 .. p), Latest(q, p), q # <<>>
    PROVE  /\ p - Len(q) \in Nat
           /\ Head(q) = (p - Len(q)) + 1
           /\ Tail(q) \in Seq(1 .. p)
           /\ Len(q) \in Nat \ {0}
           /\ Len(Tail(q)) = Len(q) - 1
           /\ Latest(Tail(q), p)
  <1>1. /\ Head(q) \in 1 .. p /\ Tail(q) \in Seq(1 .. p)
        /\ Len(Tail(q)) = Len(q) - 1
        /\ \A i \in 1 .. Len(Tail(q)) : Tail(q)[i] = q[i + 1]
    BY HeadTailProperties
  <1>2. Len(q) \in Nat \ {0}
    BY LenProperties, EmptySeq
  <1>3. Head(q) = q[1] /\ q[1] = (p - Len(q)) + 1
    BY <1>2 DEF Latest
  <1>4. p - Len(q) \in Nat
    BY <1>1, <1>2, <1>3
  <1>5. ASSUME NEW i \in 1 .. Len(Tail(q))
        PROVE  Tail(q)[i] = (p - Len(Tail(q))) + i
    BY <1>1, <1>2 DEF Latest
  <1>6. QED
    BY <1>1, <1>2, <1>3, <1>4, <1>5 DEF Latest

\* What each action does to the queue.
LEMMA QueueSteps ==
    TypeOK /\ [Next]_vars => Appends \/ DropsAndAppends \/ HandsOut \/ LeavesAlone
  <1> SUFFICES ASSUME TypeOK, [Next]_vars
               PROVE  Appends \/ DropsAndAppends \/ HandsOut \/ LeavesAlone
    OBVIOUS
  <1>1. ASSUME NEW t \in Threads, Push(t) PROVE Appends
    BY <1>1 DEF Push, Appends
  <1>2. ASSUME NEW t \in Threads, NEW maxSize \in Limits, PushWithLimit(t, maxSize)
        PROVE  Appends \/ DropsAndAppends
    <2>1. CASE maxSize > 0 /\ Len(queue) >= maxSize
      <3>1. queue # <<>>
        BY <2>1, QueueAssumption, EmptySeq
      <3>2. QED
        BY <1>2, <2>1, <3>1 DEF PushWithLimit, DropsAndAppends
    <2>2. CASE ~(maxSize > 0 /\ Len(queue) >= maxSize)
      BY <1>2, <2>2 DEF PushWithLimit, Appends
    <2>3. QED
      BY <2>1, <2>2
  <1>3. ASSUME NEW t \in Threads, NEW s, Takes(t, s) PROVE HandsOut
    BY <1>3 DEF Takes, HandsOut
  <1>4. ASSUME NEW t \in Threads, Sleeps(t) PROVE LeavesAlone
    BY <1>4 DEF Sleeps, LeavesAlone
  <1>5. ASSUME NEW t \in Threads, TryPop(t) \/ PopBlocking(t) \/ Wakes(t) \/ Drain(t)
        PROVE  HandsOut \/ LeavesAlone
    BY <1>3, <1>4, <1>5 DEF TryPop, PopBlocking, Wakes, Drain
  <1>6. ASSUME NEW t \in Threads, PushNotifies(t) \/ WakesSpuriously(t) \/ DrainEnds(t)
        PROVE  LeavesAlone
    BY <1>6 DEF PushNotifies, WakesSpuriously, DrainEnds, LeavesAlone
  <1>7. CASE UNCHANGED vars
    BY <1>7 DEF vars, LeavesAlone
  <1>8. QED
    BY <1>1, <1>2, <1>5, <1>6, <1>7, NextIsAllActions DEF AllActions

(***************************************************************************)
(* The order is kept by each operation on the queue: an append leaves the  *)
(* number of messages that have gone alone, a pop adds the oldest to it.   *)
(***************************************************************************)
LEMMA OrderStep ==
    TypeOK /\ InOrder /\ [Next]_vars =>
        /\ InOrder'
        /\ pushed' \in Nat /\ queue' \in Seq(1 .. pushed')
        /\ taken' \subseteq 1 .. pushed' /\ dropped' \subseteq 1 .. pushed'
  <1> DEFINE Goal == /\ InOrder'
                     /\ pushed' \in Nat /\ queue' \in Seq(1 .. pushed')
                     /\ taken' \subseteq 1 .. pushed' /\ dropped' \subseteq 1 .. pushed'
  <1> SUFFICES ASSUME TypeOK, InOrder, [Next]_vars PROVE Goal
    OBVIOUS
  <1>1. /\ pushed \in Nat /\ queue \in Seq(1 .. pushed) /\ Latest(queue, pushed)
        /\ taken \subseteq 1 .. pushed /\ dropped \subseteq 1 .. pushed
        /\ taken \cup dropped = 1 .. (pushed - Len(queue)) /\ taken \cap dropped = {}
        /\ Len(queue) \in Nat
    BY LenProperties DEF TypeOK, InOrder, Latest
  <1>2. CASE Appends
    <2>1. /\ queue' \in Seq(1 .. pushed + 1) /\ Len(queue') = Len(queue) + 1
          /\ Latest(queue', pushed + 1) /\ pushed' = pushed + 1
      BY <1>1, <1>2, Appending DEF Appends
    <2>2. pushed' - Len(queue') = pushed - Len(queue)
      BY <1>1, <2>1
    <2>3. taken' = taken /\ dropped' = dropped
      BY <1>2 DEF Appends
    <2>4. taken' \subseteq 1 .. pushed' /\ dropped' \subseteq 1 .. pushed'
      BY <1>1, <2>1, <2>3
    <2>5. InOrder'
      BY <1>1, <2>1, <2>2, <2>3 DEF InOrder, Latest
    <2>6. QED
      BY <1>1, <2>1, <2>4, <2>5
  <1>3. ASSUME queue # <<>>
        PROVE  /\ Head(queue) = (pushed - Len(queue)) + 1 /\ pushed - Len(queue) \in Nat
               /\ Head(queue) \in 1 .. pushed
               /\ Head(queue) \notin taken /\ Head(queue) \notin dropped
               /\ (taken \cup dropped) \cup {Head(queue)} = 1 .. (pushed - Len(queue)) + 1
    <2>1. /\ Head(queue) = (pushed - Len(queue)) + 1 /\ pushed - Len(queue) \in Nat
          /\ Len(queue) \in Nat \ {0}
      BY <1>1, <1>3, Taking
    <2>2. Head(queue) \in 1 .. pushed
      BY <1>1, <2>1
    <2>3. Head(queue) \notin taken \cup dropped
      BY <1>1, <2>1
    <2>4. 1 .. (pushed - Len(queue)) + 1 = (1 .. (pushed - Len(queue))) \cup {(pushed - Len(queue)) + 1}
      BY <2>1
    <2>5. QED
      BY <1>1, <2>1, <2>2, <2>3, <2>4
  <1>4. CASE HandsOut
    <2>1. /\ queue # <<>> /\ queue' = Tail(queue) /\ pushed' = pushed /\ dropped' = dropped
          /\ taken' = taken \cup {Head(queue)}
      BY <1>4 DEF HandsOut
    <2>2. /\ queue' \in Seq(1 .. pushed) /\ Len(queue') = Len(queue) - 1
          /\ Latest(queue', pushed)
      BY <1>1, <2>1, Taking
    <2>3. pushed' - Len(queue') = (pushed - Len(queue)) + 1
      BY <1>1, <2>1, <2>2
    <2>4. /\ taken' \cup dropped' = 1 .. (pushed' - Len(queue')) /\ taken' \cap dropped' = {}
          /\ taken' \subseteq 1 .. pushed' /\ dropped' \subseteq 1 .. pushed'
      <3>1. taken' \cup dropped' = (taken \cup dropped) \cup {Head(queue)}
        BY <2>1
      <3>2. QED
        BY <1>1, <1>3, <2>1, <2>3, <3>1
    <2>5. InOrder'
      BY <2>1, <2>2, <2>4 DEF InOrder, Latest
    <2>6. QED
      BY <1>1, <2>1, <2>2, <2>4, <2>5
  <1>5. CASE DropsAndAppends
    <2>1. /\ queue # <<>> /\ queue' = Append(Tail(queue), pushed + 1) /\ pushed' = pushed + 1
          /\ taken' = taken /\ dropped' = dropped \cup {Head(queue)}
      BY <1>5 DEF DropsAndAppends
    <2>2. /\ Tail(queue) \in Seq(1 .. pushed) /\ Len(Tail(queue)) = Len(queue) - 1
          /\ Latest(Tail(queue), pushed) /\ Len(queue) \in Nat \ {0}
      BY <1>1, <2>1, Taking
    <2>3. /\ queue' \in Seq(1 .. pushed') /\ Len(queue') = Len(Tail(queue)) + 1
          /\ Latest(queue', pushed')
      BY <1>1, <2>1, <2>2, Appending
    <2>4. pushed' - Len(queue') = (pushed - Len(queue)) + 1
      BY <1>1, <2>1, <2>2, <2>3
    <2>5. /\ taken' \cup dropped' = 1 .. (pushed' - Len(queue')) /\ taken' \cap dropped' = {}
          /\ taken' \subseteq 1 .. pushed' /\ dropped' \subseteq 1 .. pushed'
      <3>1. taken' \cup dropped' = (taken \cup dropped) \cup {Head(queue)}
        BY <2>1
      <3>2. taken' \cap dropped' = {}
        BY <1>1, <1>3, <2>1
      <3>3. dropped \cup {Head(queue)} \subseteq 1 .. pushed
        BY <1>1, <1>3, <2>1
      <3>4. 1 .. pushed \subseteq 1 .. pushed'
        BY <1>1, <2>1
      <3>5. QED
        BY <1>1, <1>3, <2>1, <2>4, <3>1, <3>2, <3>3, <3>4
    <2>6. InOrder'
      BY <2>3, <2>5 DEF InOrder, Latest
    <2>7. QED
      BY <1>1, <2>1, <2>3, <2>5, <2>6
  <1>6. CASE LeavesAlone
    BY <1>1, <1>6 DEF LeavesAlone, InOrder, Latest
  <1>7. QED
    BY <1>2, <1>4, <1>5, <1>6, QueueSteps

------------------------------------------------------------------------------
\* There are finitely many threads on their way.
LEMMA OnTheWayFinite == IsFiniteSet(OnTheWay) /\ Cardinality(OnTheWay) \in Nat
  BY FS_Subset, FS_CardinalityType, QueueAssumption DEF OnTheWay

\* A thread that sets out adds one to those on their way, one that arrives
\* takes one away.
LEMMA SetsOut ==
    ASSUME TypeOK, NEW t \in Threads, NEW S, S = OnTheWay \cup {t}, t \notin OnTheWay
    PROVE  Cardinality(S) = Cardinality(OnTheWay) + 1
  BY OnTheWayFinite, FS_AddElement

\* (The other half.)
LEMMA Arrives ==
    ASSUME TypeOK, NEW t \in OnTheWay, NEW S, S = OnTheWay \ {t}
    PROVE  Cardinality(S) = Cardinality(OnTheWay) - 1
  BY OnTheWayFinite, FS_RemoveElement

\* Every step keeps the threads' states.
LEMMA StateStep == TypeOK /\ [Next]_vars => state' \in [Threads -> States]
  <1> SUFFICES ASSUME TypeOK, [Next]_vars PROVE state' \in [Threads -> States]
    OBVIOUS
  <1> USE DEF TypeOK, States
  <1>1. ASSUME NEW t \in Threads, NEW s \in States, state' = [state EXCEPT ![t] = s]
        PROVE  state' \in [Threads -> States]
    BY <1>1
  <1>2. ASSUME NEW t \in Threads, NotifyOne(t) PROVE state' \in [Threads -> States]
    BY <1>2 DEF NotifyOne, Waiting
  <1>3. ASSUME NEW t \in Threads, Push(t) \/ WakesSpuriously(t) \/ DrainEnds(t) \/ Drain(t)
                                  \/ TryPop(t) \/ PopBlocking(t) \/ Wakes(t)
        PROVE  state' \in [Threads -> States]
    BY <1>1, <1>3 DEF Push, WakesSpuriously, DrainEnds, Drain, TryPop, PopBlocking, Wakes,
                      Takes, Sleeps
  <1>4. ASSUME NEW t \in Threads, PushNotifies(t) \/ \E m \in Limits : PushWithLimit(t, m)
        PROVE  state' \in [Threads -> States]
    BY <1>2, <1>4 DEF PushNotifies, PushWithLimit
  <1>5. CASE UNCHANGED vars
    BY <1>5 DEF vars
  <1>6. QED
    BY <1>3, <1>4, <1>5, NextIsAllActions DEF AllActions

(***************************************************************************)
(* A message that is added has a thread set out, be it the pusher itself   *)
(* on its way to notify; a thread that arrives takes a message away, or    *)
(* finds none, and then nothing is left to be forgotten.                   *)
(***************************************************************************)
LEMMA SleeperStep ==
    TypeOK /\ NoSleeperForgotten /\ [Next]_vars => NoSleeperForgotten'
  <1> SUFFICES ASSUME TypeOK, NoSleeperForgotten, [Next]_vars, Waiting' # {}
               PROVE  Len(queue') <= Cardinality(OnTheWay')
    BY DEF NoSleeperForgotten
  <1>1. /\ queue \in Seq(1 .. pushed) /\ Len(queue) \in Nat
        /\ Cardinality(OnTheWay) \in Nat /\ Cardinality(OnTheWay') \in Nat
        /\ state \in [Threads -> States]
    <2>1. IsFiniteSet(OnTheWay')
      BY FS_Subset, QueueAssumption DEF OnTheWay
    <2>2. QED
      BY <2>1, OnTheWayFinite, FS_CardinalityType, LenProperties DEF TypeOK
  <1>2. Waiting # {} => Len(queue) <= Cardinality(OnTheWay)
    BY DEF NoSleeperForgotten
  <1>3. CASE Len(queue') = 0
    BY <1>1, <1>3
  <1>4. ASSUME NEW t \in Threads, Push(t) PROVE Len(queue') <= Cardinality(OnTheWay')
    <2>1. OnTheWay' = OnTheWay \cup {t} /\ t \notin OnTheWay /\ Waiting' = Waiting
      BY <1>1, <1>4 DEF Push, OnTheWay, Waiting
    <2>2. Len(queue') = Len(queue) + 1
      BY <1>1, <1>4 DEF Push
    <2>3. Cardinality(OnTheWay') = Cardinality(OnTheWay) + 1
      BY <2>1, SetsOut
    <2>4. QED
      BY <1>1, <1>2, <2>1, <2>2, <2>3
  <1>5. ASSUME NEW t \in Threads, PushNotifies(t) PROVE Len(queue') <= Cardinality(OnTheWay')
    <2>1. PICK w \in Waiting : state' = [state EXCEPT ![t] = "idle", ![w] = "woken"]
      <3>1. NotifyOne(t)
        BY <1>5 DEF PushNotifies
      <3>2. CASE Waiting = {} /\ state' = [state EXCEPT ![t] = "idle"]
        BY <1>1, <3>2 DEF Waiting
      <3>3. QED
        BY <3>1, <3>2 DEF NotifyOne
    <2>2. w \in Threads /\ state[w] = "waiting" /\ state[t] = "notifying" /\ w # t
      BY <1>5, <2>1 DEF PushNotifies, Waiting
    <2> DEFINE Between == OnTheWay \ {t}
    <2>3. OnTheWay' = Between \cup {w} /\ w \notin Between /\ t \in OnTheWay
      BY <1>1, <2>1, <2>2 DEF OnTheWay
    <2>4. IsFiniteSet(Between) /\ Cardinality(Between) = Cardinality(OnTheWay) - 1
      BY <2>3, OnTheWayFinite, FS_RemoveElement
    <2>5. Cardinality(OnTheWay') = Cardinality(OnTheWay)
      <3>1. Cardinality(Between \cup {w}) = Cardinality(Between) + 1
        BY <2>3, <2>4, FS_AddElement
      <3>2. QED
        BY <1>1, <2>3, <2>4, <3>1
    <2>6. QED
      BY <1>1, <1>2, <1>5, <2>1, <2>5 DEF PushNotifies
  <1>6. ASSUME NEW t \in Threads, NEW m \in Limits, PushWithLimit(t, m)
        PROVE  Len(queue') <= Cardinality(OnTheWay')
    <2>1. PICK w \in Waiting : state' = [state EXCEPT ![t] = "idle", ![w] = "woken"]
      <3>1. NotifyOne(t)
        BY <1>6 DEF PushWithLimit
      <3>2. CASE Waiting = {} /\ state' = [state EXCEPT ![t] = "idle"]
        BY <1>1, <3>2 DEF Waiting
      <3>3. QED
        BY <3>1, <3>2 DEF NotifyOne
    <2>2. w \in Threads /\ state[w] = "waiting" /\ state[t] = "idle" /\ w # t
      BY <1>6, <2>1 DEF PushWithLimit, Waiting
    <2>3. OnTheWay' = OnTheWay \cup {w} /\ w \notin OnTheWay
      BY <1>1, <2>1, <2>2 DEF OnTheWay
    <2>4. Cardinality(OnTheWay') = Cardinality(OnTheWay) + 1
      BY <2>2, <2>3, SetsOut
    <2>5. Len(queue') <= Len(queue) + 1
      <3>1. CASE m > 0 /\ Len(queue) >= m
        <4>1. queue # <<>>
          BY <3>1, QueueAssumption, EmptySeq
        <4>2. Tail(queue) \in Seq(1 .. pushed) /\ Len(Tail(queue)) = Len(queue) - 1
          BY <1>1, <4>1, HeadTailProperties
        <4>3. queue' = Append(Tail(queue), pushed')
          BY <1>6, <3>1 DEF PushWithLimit
        <4>4. QED
          BY <1>1, <4>2, <4>3
      <3>2. CASE ~(m > 0 /\ Len(queue) >= m)
        <4>1. queue' = Append(queue, pushed')
          BY <1>6, <3>2 DEF PushWithLimit
        <4>2. QED
          BY <1>1, <4>1
      <3>3. QED
        BY <3>1, <3>2
    <2>6. QED
      BY <1>1, <1>2, <2>1, <2>4, <2>5
  <1>7. ASSUME NEW t \in Threads, NEW s \in {"idle", "draining"}, Takes(t, s),
               state[t] \in {"idle", "draining", "woken"}
        PROVE  Len(queue') <= Cardinality(OnTheWay')
    <2>1. queue # <<>> /\ queue' = Tail(queue) /\ state' = [state EXCEPT ![t] = s]
      BY <1>7 DEF Takes
    <2>2. Len(queue') = Len(queue) - 1
      BY <1>1, <2>1, HeadTailProperties
    <2>3. Waiting' = Waiting
      BY <1>1, <1>7, <2>1 DEF Waiting
    <2>4. CASE state[t] = "woken"
      <3>1. OnTheWay' = OnTheWay \ {t} /\ t \in OnTheWay
        BY <1>1, <1>7, <2>1, <2>4 DEF OnTheWay
      <3>2. Cardinality(OnTheWay') = Cardinality(OnTheWay) - 1
        BY <3>1, Arrives
      <3>3. QED
        BY <1>1, <1>2, <2>2, <2>3, <3>2
    <2>5. CASE state[t] # "woken"
      <3>1. OnTheWay' = OnTheWay
        BY <1>1, <1>7, <2>1, <2>5 DEF OnTheWay
      <3>2. QED
        BY <1>1, <1>2, <2>2, <2>3, <3>1
    <2>6. QED
      BY <2>4, <2>5
  <1>8. ASSUME NEW t \in Threads, Sleeps(t) PROVE Len(queue') <= Cardinality(OnTheWay')
    <2>1. Len(queue') = 0
      BY <1>8, EmptySeq DEF Sleeps
    <2>2. QED
      BY <1>3, <2>1
  <1>9. ASSUME NEW t \in Threads, TryPop(t) \/ PopBlocking(t) \/ Wakes(t) \/ Drain(t)
        PROVE  Len(queue') <= Cardinality(OnTheWay')
    BY <1>7, <1>8, <1>9 DEF TryPop, PopBlocking, Wakes, Drain
  <1>10. ASSUME NEW t \in Threads, WakesSpuriously(t)
         PROVE  Len(queue') <= Cardinality(OnTheWay')
    <2>1. OnTheWay' = OnTheWay \cup {t} /\ t \notin OnTheWay /\ t \in Waiting
      BY <1>1, <1>10 DEF WakesSpuriously, OnTheWay, Waiting
    <2>2. Cardinality(OnTheWay') = Cardinality(OnTheWay) + 1
      BY <2>1, SetsOut
    <2>3. queue' = queue
      BY <1>10 DEF WakesSpuriously
    <2>4. QED
      BY <1>1, <1>2, <2>1, <2>2, <2>3
  <1>11. ASSUME NEW t \in Threads, DrainEnds(t) PROVE Len(queue') <= Cardinality(OnTheWay')
    <2>1. Len(queue') = 0
      BY <1>11, EmptySeq DEF DrainEnds
    <2>2. QED
      BY <1>3, <2>1
  <1>12. CASE UNCHANGED vars
    <2>1. queue' = queue /\ Waiting' = Waiting /\ OnTheWay' = OnTheWay
      BY <1>12 DEF vars, Waiting, OnTheWay
    <2>2. QED
      BY <1>2, <2>1
  <1>13. QED
    BY <1>4, <1>5, <1>6, <1>9, <1>10, <1>11, <1>12, NextIsAllActions DEF AllActions

------------------------------------------------------------------------------
(***************************************************************************)
(* The three parts together are inductive.                                 *)
(***************************************************************************)
THEOREM QueueInvariant == Spec => []IInv
  <1>1. Init => IInv
    <2> SUFFICES ASSUME Init PROVE IInv
      OBVIOUS
    <2>1. queue = <<>> /\ queue \in Seq(1 .. pushed) /\ Len(queue) = 0 /\ pushed = 0
      BY EmptySeq DEF Init
    <2>2. TypeOK
      BY <2>1 DEF Init, TypeOK, States
    <2>3. InOrder
      BY <2>1 DEF Init, InOrder
    <2>4. Waiting = {}
      BY DEF Init, Waiting
    <2>5. QED
      BY <2>2, <2>3, <2>4 DEF IInv, NoSleeperForgotten
  <1>2. IInv /\ [Next]_vars => IInv'
    BY OrderStep, StateStep, SleeperStep DEF IInv, TypeOK
  <1>3. QED
    BY <1>1, <1>2, PTL DEF Spec

\* Type correctness: what is queued has been pushed (Push, PushWithLimit).
THEOREM TypeCorrect == Spec => []TypeOK
  <1>1. IInv => TypeOK
    BY DEF IInv
  <1>2. QED
    BY <1>1, QueueInvariant, PTL

(***************************************************************************)
(* First in, first out, without loss or repetition, whoever pushes, pops,  *)
(* drains and drops at once.                                               *)
(***************************************************************************)
THEOREM FirstInFirstOut == Spec => []InOrder
  <1>1. IInv => InOrder
    BY DEF IInv
  <1>2. QED
    BY <1>1, QueueInvariant, PTL

(***************************************************************************)
(* While a thread sleeps in PopBlocking, each queued message has a thread  *)
(* on its way to it, though Push notifies without the mutex.               *)
(***************************************************************************)
THEOREM NobodyForgotten == Spec => []NoSleeperForgotten
  <1>1. IInv => NoSleeperForgotten
    BY DEF IInv
  <1>2. QED
    BY <1>1, QueueInvariant, PTL
==============================================================================
