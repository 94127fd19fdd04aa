--------------------------- MODULE ThreadSafeQueue ---------------------------
(***************************************************************************)
(* The blocking queue of src/utils.hpp, called by any number of threads.   *)
(*                                                                         *)
(* Every operation holds mutex_ from its first to its last access of the   *)
(* queue, so a critical section is one action.  cond_.wait ends one: it    *)
(* puts the thread to sleep as it releases the mutex, and once the thread  *)
(* is woken, by notify_one or for no reason, it competes for the mutex     *)
(* with every other caller before it looks at the queue again.             *)
(***************************************************************************)
EXTENDS Naturals, Sequences, FiniteSets

CONSTANTS Threads,
          MaxPushed   \* bound: items pushed in a behaviour

ASSUME QueueConstantsOK == IsFiniteSet(Threads) /\ MaxPushed \in Nat

VARIABLES queue,    \* queue_; an item is the number of the push that put it there
          pc,       \* thread -> outside, asleep (in cond_.wait), woken
          pushed,   \* history: how many items were pushed
          popped,   \* history: the items popped, in the order they were
          cleared   \* history: the items that clear threw away

vars == <<queue, pc, pushed, popped, cleared>>

QueueTypeOK ==
    /\ queue \in Seq(Nat)
    /\ pc \in [Threads -> {"outside", "asleep", "woken"}]
    /\ pushed \in Nat
    /\ popped \in Seq(Nat)
    /\ cleared \subseteq Nat

QueueInit ==
    /\ queue = <<>>
    /\ pc = [t \in Threads |-> "outside"]
    /\ pushed = 0
    /\ popped = <<>>
    /\ cleared = {}

Asleep == {t \in Threads : pc[t] = "asleep"}
Woken  == {t \in Threads : pc[t] = "woken"}

\* cond_.notify_one: some thread that sleeps, if one does.
NotifyOne ==
    \/ Asleep = {} /\ UNCHANGED pc
    \/ \E s \in Asleep : pc' = [pc EXCEPT ![s] = "woken"]

\* Wrong: a sleeper is notified only when the queue was empty.
PushNotifiesFirst(t) ==
    /\ pc[t] = "outside" /\ pushed < MaxPushed
    /\ pushed' = pushed + 1
    /\ queue' = Append(queue, pushed + 1)
    /\ IF queue = <<>> THEN NotifyOne ELSE UNCHANGED pc
    /\ UNCHANGED <<popped, cleared>>

Push(t) ==
    /\ pc[t] = "outside" /\ pushed < MaxPushed
    /\ pushed' = pushed + 1
    /\ queue' = Append(queue, pushed + 1)
    /\ NotifyOne
    /\ UNCHANGED <<popped, cleared>>

\* The thread takes the first item and leaves.
Pop(t) ==
    /\ queue # <<>>
    /\ popped' = Append(popped, Head(queue))
    /\ queue' = Tail(queue)
    /\ pc' = [pc EXCEPT ![t] = "outside"]
    /\ UNCHANGED <<pushed, cleared>>

\* On an empty queue try_pop returns false and changes nothing.
TryPop(t) ==
    /\ pc[t] = "outside"
    /\ IF queue = <<>> THEN UNCHANGED vars ELSE Pop(t)

Sleep(t) ==
    /\ queue = <<>>
    /\ pc' = [pc EXCEPT ![t] = "asleep"]
    /\ UNCHANGED <<queue, pushed, popped, cleared>>

\* wait_and_pop up to its return or to its first wait.
WaitAndPop(t) == pc[t] = "outside" /\ (Pop(t) \/ Sleep(t))

\* Wrong: the queue is not tested again after the wait; front() of an empty queue
\* is whatever is there, here an item popped already.
WakeUpWithoutTest(t) ==
    /\ pc[t] = "woken"
    /\ \/ Pop(t)
       \/ /\ queue = <<>> /\ pushed > 0
          /\ popped' = Append(popped, pushed)
          /\ pc' = [pc EXCEPT ![t] = "outside"]
          /\ UNCHANGED <<queue, pushed, cleared>>

\* wait_and_pop after a wait: the loop tests the queue again.
WakeUp(t) == pc[t] = "woken" /\ (Pop(t) \/ Sleep(t))

\* A condition variable may wake a thread that nobody notified.
SpuriousWake(t) ==
    /\ pc[t] = "asleep"
    /\ pc' = [pc EXCEPT ![t] = "woken"]
    /\ UNCHANGED <<queue, pushed, popped, cleared>>

Clear(t) ==
    /\ pc[t] = "outside"
    /\ cleared' = cleared \cup {queue[i] : i \in DOMAIN queue}
    /\ queue' = <<>>
    /\ UNCHANGED <<pc, pushed, popped>>

QueueNext ==
    \E t \in Threads :
        \/ Push(t) \/ TryPop(t) \/ WaitAndPop(t) \/ WakeUp(t)
        \/ SpuriousWake(t) \/ Clear(t)

QueueSpec == QueueInit /\ [][QueueNext]_vars

\* A thread that was woken gets the mutex in the end; nobody has to call anything.
FairQueueSpec == QueueSpec /\ \A t \in Threads : WF_vars(WakeUp(t))

-------------------------------------------------------------------------------

\* No wake-up is lost: while a thread sleeps, there is a woken thread for every item
\* in the queue, although try_pop, clear and callers of wait_and_pop that never
\* slept take items that a thread was woken for.
NoLostWakeup == Asleep # {} => Len(queue) <= Cardinality(Woken)

\* Items leave the queue in the order they entered it, each to one thread or
\* thrown away by clear, none twice and none lost.
Left == pushed - Len(queue)

FirstInFirstOut ==
    /\ Len(queue) <= pushed
    /\ \A i \in 1 .. Len(queue) : queue[i] = Left + i
    /\ \A i, j \in 1 .. Len(popped) : i < j => popped[i] < popped[j]
    /\ \A k \in 1 .. Left : k \in cleared <=> \A i \in 1 .. Len(popped) : popped[i] # k
    /\ \A i \in 1 .. Len(popped) : popped[i] \in 1 .. Left
    /\ cleared \subseteq 1 .. Left

\* Threads do not sleep for ever beside an item: the queue runs empty or they wake.
SleepersAreServed ==
    queue # <<>> /\ Asleep # {} ~> queue = <<>> \/ Asleep = {}
===============================================================================
