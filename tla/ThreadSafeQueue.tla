--------------------------- MODULE ThreadSafeQueue ---------------------------
(***************************************************************************)
(* ThreadSafeQueue.h: a queue under one mutex, with a condition variable   *)
(* for the threads that block in PopBlocking.  Every method holds the      *)
(* mutex throughout, but for two: Push notifies after it has released it,  *)
(* and Drain runs its callback between two pops without it.                *)
(*                                                                         *)
(* Messages are numbered in the order they are pushed.  Any thread may     *)
(* call any method.  (No code of the repository uses the class any more.)  *)
(***************************************************************************)
EXTENDS Naturals, Sequences, FiniteSets

CONSTANTS
    Threads,
    Limits,       \* the values of maxSize that callers pass, 0 for none
    MaxPushes     \* bound: messages pushed

ASSUME QueueAssumption ==
    /\ IsFiniteSet(Threads)
    /\ Limits \subseteq Nat
    /\ MaxPushes \in Nat

VARIABLES
    queue,      \* m_queue
    state,      \* per thread, where it is
    pushed,     \* how many messages have been pushed
    taken,      \* history: the messages handed out
    dropped     \* history: the messages PushWithLimit has dropped

vars == <<queue, state, pushed, taken, dropped>>

(***************************************************************************)
(* notifying: in Push, with the mutex released and notify_one to come.     *)
(* waiting: asleep in wait.  woken: out of wait, but without the mutex.    *)
(* draining: in a callback of Drain.                                       *)
(***************************************************************************)
States == {"idle", "notifying", "waiting", "woken", "draining"}
Waiting == {t \in Threads : state[t] = "waiting"}

Init ==
    /\ queue = <<>>
    /\ state = [t \in Threads |-> "idle"]
    /\ pushed = 0
    /\ taken = {}
    /\ dropped = {}

------------------------------------------------------------------------------
\* notify_one by t, which goes on to be idle: one of those asleep, if any.
NotifyOne(t) ==
    \/ \E w \in Waiting : state' = [state EXCEPT ![t] = "idle", ![w] = "woken"]
    \/ Waiting = {} /\ state' = [state EXCEPT ![t] = "idle"]

\* Mutant: only the message that ends the emptiness is announced.
Push_FirstOnly(t) ==
    /\ state[t] = "idle"
    /\ pushed < MaxPushes
    /\ pushed' = pushed + 1
    /\ queue' = Append(queue, pushed')
    /\ state' = [state EXCEPT ![t] = IF queue = <<>> THEN "notifying" ELSE "idle"]
    /\ UNCHANGED <<taken, dropped>>

\* Mutant: what is queued is the string that has been moved from.
Push_MovedFrom(t) ==
    /\ state[t] = "idle"
    /\ pushed < MaxPushes
    /\ pushed' = pushed + 1
    /\ queue' = Append(queue, 0)
    /\ state' = [state EXCEPT ![t] = "notifying"]
    /\ UNCHANGED <<taken, dropped>>

Push(t) ==
    /\ state[t] = "idle"
    /\ pushed < MaxPushes
    /\ pushed' = pushed + 1
    /\ queue' = Append(queue, pushed')
    /\ state' = [state EXCEPT ![t] = "notifying"]
    /\ UNCHANGED <<taken, dropped>>

PushNotifies(t) ==
    /\ state[t] = "notifying"
    /\ NotifyOne(t)
    /\ UNCHANGED <<queue, pushed, taken, dropped>>

\* Mutant: the limited push notifies nobody.
PushWithLimit_Silent(t, maxSize) ==
    /\ state[t] = "idle"
    /\ pushed < MaxPushes
    /\ pushed' = pushed + 1
    /\ IF maxSize > 0 /\ Len(queue) >= maxSize
         THEN /\ dropped' = dropped \cup {Head(queue)}
              /\ queue' = Append(Tail(queue), pushed')
         ELSE queue' = Append(queue, pushed') /\ UNCHANGED dropped
    /\ UNCHANGED <<state, taken>>

\* Mutant: at the limit the last message is overwritten.
PushWithLimit_DropsLast(t, maxSize) ==
    /\ state[t] = "idle"
    /\ pushed < MaxPushes
    /\ pushed' = pushed + 1
    /\ IF maxSize > 0 /\ Len(queue) >= maxSize
         THEN /\ dropped' = dropped \cup {queue[Len(queue)]}
              /\ queue' = [queue EXCEPT ![Len(queue)] = pushed']
         ELSE queue' = Append(queue, pushed') /\ UNCHANGED dropped
    /\ NotifyOne(t)
    /\ UNCHANGED taken

\* Drops one message at most, however far the queue is past the limit.
PushWithLimit(t, maxSize) ==
    /\ state[t] = "idle"
    /\ pushed < MaxPushes
    /\ pushed' = pushed + 1
    /\ IF maxSize > 0 /\ Len(queue) >= maxSize
         THEN /\ dropped' = dropped \cup {Head(queue)}
              /\ queue' = Append(Tail(queue), pushed')
         ELSE queue' = Append(queue, pushed') /\ UNCHANGED dropped
    /\ NotifyOne(t)
    /\ UNCHANGED taken

------------------------------------------------------------------------------
\* The front of the queue goes to t, which continues as s.
Takes(t, s) ==
    /\ queue # <<>>
    /\ taken' = taken \cup {Head(queue)}
    /\ queue' = Tail(queue)
    /\ state' = [state EXCEPT ![t] = s]
    /\ UNCHANGED <<pushed, dropped>>

\* (With an empty queue it returns false and changes nothing.)
TryPop(t) == state[t] = "idle" /\ Takes(t, "idle")

\* wait releases the mutex and sleeps in one step.
Sleeps(t) ==
    /\ queue = <<>>
    /\ state' = [state EXCEPT ![t] = "waiting"]
    /\ UNCHANGED <<queue, pushed, taken, dropped>>

PopBlocking(t) == state[t] = "idle" /\ (Takes(t, "idle") \/ Sleeps(t))

\* The predicate is tested again: another thread may have been faster.
Wakes(t) == state[t] = "woken" /\ (Takes(t, "idle") \/ Sleeps(t))

WakesSpuriously(t) ==
    /\ state[t] = "waiting"
    /\ state' = [state EXCEPT ![t] = "woken"]
    /\ UNCHANGED <<queue, pushed, taken, dropped>>

\* What the callback throws is swallowed: the next message is popped.
Drain(t) ==
    /\ state[t] \in {"idle", "draining"}
    /\ Takes(t, "draining")

DrainEnds(t) ==
    /\ state[t] = "draining"
    /\ queue = <<>>
    /\ state' = [state EXCEPT ![t] = "idle"]
    /\ UNCHANGED <<queue, pushed, taken, dropped>>

Step(t) ==
    \/ Push(t) \/ PushNotifies(t) \/ \E maxSize \in Limits : PushWithLimit(t, maxSize)
    \/ TryPop(t) \/ PopBlocking(t) \/ Wakes(t) \/ WakesSpuriously(t)
    \/ Drain(t) \/ DrainEnds(t)

Next == \E t \in Threads : Step(t)
Spec == Init /\ [][Next]_vars

\* Threads that have something to do go on; nobody has to call a method.
Fairness == \A t \in Threads : WF_vars(PushNotifies(t)) /\ WF_vars(Wakes(t))
FairSpec == Spec /\ Fairness

------------------------------------------------------------------------------
(***************************************************************************)
(* Type invariant: the queue holds messages that have been pushed.         *)
(***************************************************************************)
TypeOK ==
    /\ pushed \in Nat
    /\ queue \in Seq(1 .. pushed)
    /\ state \in [Threads -> States]
    /\ taken \subseteq 1 .. pushed
    /\ dropped \subseteq 1 .. pushed

(***************************************************************************)
(* First in, first out, and nothing is lost or handed out twice, whoever   *)
(* pushes, pops, drains and drops at once: the queue holds the latest      *)
(* messages in their order, and each earlier one has either been handed    *)
(* out or been dropped.                                                    *)
(***************************************************************************)
InOrder ==
    /\ \A i \in 1 .. Len(queue) : queue[i] = (pushed - Len(queue)) + i
    /\ taken \cup dropped = 1 .. (pushed - Len(queue))
    /\ taken \cap dropped = {}

(***************************************************************************)
(* While a thread sleeps in PopBlocking, every message in the queue has a  *)
(* thread on its way to it: one that will notify, or one that was woken.   *)
(* (That is why Push may notify after it has released the mutex, and why   *)
(* notify_one is enough.)                                                  *)
(***************************************************************************)
OnTheWay == {t \in Threads : state[t] \in {"notifying", "woken"}}
NoSleeperForgotten == Waiting # {} => Len(queue) <= Cardinality(OnTheWay)

(***************************************************************************)
(* No thread sleeps next to a message for good.                            *)
(***************************************************************************)
SleepersWake == (Waiting # {} /\ queue # <<>>) ~> (Waiting = {} \/ queue = <<>>)
==============================================================================
