------------------------ MODULE ThreadSafeQueueProofs ------------------------
(***************************************************************************)
(* For any finite set of threads: no wake-up is lost, and items leave the  *)
(* queue in the order they entered it, none lost and none twice.           *)
(***************************************************************************)
EXTENDS ThreadSafeQueue, FiniteSetTheorems, TLAPS

-------------------------------------------------------------------------------
(* Types. *)

LEMMA PopType ==
    ASSUME QueueTypeOK, NEW t \in Threads, Pop(t)
    PROVE  QueueTypeOK'
<1>1. Head(queue) \in Nat /\ Tail(queue) \in Seq(Nat)
  BY DEF Pop, QueueTypeOK
<1> QED
  BY <1>1 DEF Pop, QueueTypeOK

LEMMA NextQueueType == QueueTypeOK /\ [QueueNext]_vars => QueueTypeOK'
<1> SUFFICES ASSUME QueueTypeOK, [QueueNext]_vars
             PROVE  QueueTypeOK'
  OBVIOUS
<1>1. CASE UNCHANGED vars
  BY <1>1 DEF vars, QueueTypeOK
<1>2. ASSUME NEW t \in Threads, Push(t)
      PROVE  QueueTypeOK'
  <2>1. Append(queue, pushed + 1) \in Seq(Nat)
    BY DEF QueueTypeOK
  <2>2. pc' \in [Threads -> {"outside", "asleep", "woken"}]
    BY <1>2 DEF Push, NotifyOne, QueueTypeOK
  <2> QED
    BY <1>2, <2>1, <2>2 DEF Push, QueueTypeOK
<1>3. ASSUME NEW t \in Threads, Sleep(t) \/ SpuriousWake(t)
      PROVE  QueueTypeOK'
  BY <1>3 DEF Sleep, SpuriousWake, QueueTypeOK
<1>4. ASSUME NEW t \in Threads, Clear(t)
      PROVE  QueueTypeOK'
  <2>1. \A i \in DOMAIN queue : queue[i] \in Nat
    BY DEF QueueTypeOK
  <2>2. <<>> \in Seq(Nat)
    OBVIOUS
  <2> QED
    BY <1>4, <2>1, <2>2 DEF Clear, QueueTypeOK
<1> QED
  BY <1>1, <1>2, <1>3, <1>4, PopType DEF QueueNext, TryPop, WaitAndPop, WakeUp

\* Every reachable state is well typed.
THEOREM QueueTypeCorrect == QueueSpec => []QueueTypeOK
<1>1. QueueInit => QueueTypeOK
  BY DEF QueueInit, QueueTypeOK
<1> QED
  BY <1>1, NextQueueType, PTL DEF QueueSpec

-------------------------------------------------------------------------------
(* Wake-ups. *)

LEMMA WokenFinite ==
    /\ IsFiniteSet(Woken) /\ Cardinality(Woken) \in Nat
    /\ \A t \in Woken : Cardinality(Woken \ {t}) = Cardinality(Woken) - 1
    /\ \A t \in Threads \ Woken : Cardinality(Woken \cup {t}) = Cardinality(Woken) + 1
<1>1. IsFiniteSet(Woken)
  <2>1. Woken \subseteq Threads
    BY DEF Woken
  <2> QED
    BY <2>1, QueueConstantsOK, FS_Subset
<1>2. Cardinality(Woken) \in Nat
  BY <1>1, FS_CardinalityType
<1>3. \A t \in Woken : Cardinality(Woken \ {t}) = Cardinality(Woken) - 1
  BY <1>1, FS_RemoveElement
<1>4. \A t \in Threads \ Woken : Cardinality(Woken \cup {t}) = Cardinality(Woken) + 1
  BY <1>1, FS_AddElement
<1> QED
  BY <1>1, <1>2, <1>3, <1>4

\* An item leaves with a thread: a thread that was woken for it, or another one.
LEMMA PopKeepsWakeUps ==
    ASSUME QueueTypeOK, NoLostWakeup, NEW t \in Threads, pc[t] # "asleep", Pop(t)
    PROVE  NoLostWakeup'
<1>1. Len(queue') = Len(queue) - 1 /\ Len(queue) \in Nat
  BY DEF Pop, QueueTypeOK
<1>2. Asleep' = Asleep
  BY DEF Pop, Asleep, QueueTypeOK
<1>3. Woken' = Woken \ {t}
  BY DEF Pop, Woken, QueueTypeOK
<1>4. Cardinality(Woken') >= Cardinality(Woken) - 1 /\ Cardinality(Woken) \in Nat
      /\ Cardinality(Woken') \in Nat
  <2>1. CASE t \in Woken
    <3>1. IsFiniteSet(Woken') /\ Cardinality(Woken') = Cardinality(Woken) - 1
      BY <1>3, <2>1, WokenFinite, FS_RemoveElement
    <3> QED
      BY <3>1, WokenFinite, FS_CardinalityType
  <2>2. CASE t \notin Woken
    <3>1. Woken' = Woken
      BY <1>3, <2>2
    <3> QED
      BY <3>1, WokenFinite
  <2> QED
    BY <2>1, <2>2
<1> QED
  BY <1>1, <1>2, <1>4 DEF NoLostWakeup

\* Only an empty queue puts a thread to sleep, so no item is left beside it.
LEMMA SleepKeepsWakeUps ==
    ASSUME QueueTypeOK, NEW t \in Threads, Sleep(t), Cardinality(Woken') \in Nat
    PROVE  NoLostWakeup'
<1>1. Len(queue') = 0
  BY DEF Sleep, QueueTypeOK
<1> QED
  BY <1>1 DEF NoLostWakeup

LEMMA WakeOneCounts ==
    ASSUME QueueTypeOK, NEW s \in Asleep, pc' = [pc EXCEPT ![s] = "woken"]
    PROVE  Cardinality(Woken') = Cardinality(Woken) + 1 /\ Asleep' \subseteq Asleep
<1>1. s \in Threads \ Woken
  BY DEF Asleep, Woken
<1>2. Woken' = Woken \cup {s}
  BY DEF Asleep, Woken, QueueTypeOK
<1>3. Asleep' \subseteq Asleep
  BY DEF Asleep, QueueTypeOK
<1> QED
  BY <1>1, <1>2, <1>3, WokenFinite

LEMMA NextWakeUps ==
    ASSUME QueueTypeOK, QueueTypeOK', NoLostWakeup, [QueueNext]_vars
    PROVE  NoLostWakeup'
<1>0. Cardinality(Woken) \in Nat /\ Cardinality(Woken') \in Nat
      /\ Len(queue) \in Nat /\ Len(queue') \in Nat
  <2>1. IsFiniteSet(Woken')
    <3>1. Woken' \subseteq Threads
      BY DEF Woken
    <3> QED
      BY <3>1, QueueConstantsOK, FS_Subset
  <2> QED
    BY <2>1, WokenFinite, FS_CardinalityType DEF QueueTypeOK
<1>1. CASE UNCHANGED vars
  BY <1>1 DEF vars, NoLostWakeup, Asleep, Woken
<1>2. ASSUME NEW t \in Threads, Push(t)
      PROVE  NoLostWakeup'
  <2>1. Len(queue') = Len(queue) + 1
    BY <1>2 DEF Push, QueueTypeOK
  <2>2. CASE Asleep = {} /\ UNCHANGED pc
    BY <2>2 DEF NoLostWakeup, Asleep
  <2>3. ASSUME NEW s \in Asleep, pc' = [pc EXCEPT ![s] = "woken"]
        PROVE  NoLostWakeup'
    <3>1. Cardinality(Woken') = Cardinality(Woken) + 1
      BY <2>3, WakeOneCounts
    <3>2. Len(queue) <= Cardinality(Woken)
      BY <2>3 DEF NoLostWakeup
    <3> QED
      BY <1>0, <2>1, <3>1, <3>2 DEF NoLostWakeup
  <2> QED
    BY <1>2, <2>2, <2>3 DEF Push, NotifyOne
<1>3. ASSUME NEW t \in Threads, SpuriousWake(t)
      PROVE  NoLostWakeup'
  <2>1. t \in Asleep /\ queue' = queue
    BY <1>3 DEF SpuriousWake, Asleep
  <2>2. Cardinality(Woken') = Cardinality(Woken) + 1 /\ Asleep' \subseteq Asleep
    BY <1>3, <2>1, WakeOneCounts DEF SpuriousWake
  <2> QED
    BY <1>0, <2>1, <2>2 DEF NoLostWakeup
<1>4. ASSUME NEW t \in Threads, Clear(t)
      PROVE  NoLostWakeup'
  <2>1. Len(queue') = 0
    BY <1>4 DEF Clear
  <2> QED
    BY <1>0, <2>1 DEF NoLostWakeup
<1>5. ASSUME NEW t \in Threads, TryPop(t) \/ WaitAndPop(t) \/ WakeUp(t)
      PROVE  NoLostWakeup'
  <2>1. CASE UNCHANGED vars
    BY <1>1, <2>1
  <2>2. CASE Pop(t)
    <3>1. pc[t] # "asleep"
      BY <1>5 DEF TryPop, WaitAndPop, WakeUp
    <3> QED
      BY <2>2, <3>1, PopKeepsWakeUps
  <2>3. CASE Sleep(t)
    BY <1>0, <2>3, SleepKeepsWakeUps
  <2> QED
    BY <1>5, <2>1, <2>2, <2>3 DEF TryPop, WaitAndPop, WakeUp
<1> QED
  BY <1>1, <1>2, <1>3, <1>4, <1>5 DEF QueueNext

\* While a thread sleeps in wait_and_pop, every item in the queue has a thread that
\* was woken for it.
THEOREM WakeUpsKept == QueueSpec => []NoLostWakeup
<1>1. QueueInit => NoLostWakeup
  <2> SUFFICES ASSUME QueueInit PROVE NoLostWakeup
    OBVIOUS
  <2>1. Asleep = {}
    BY DEF QueueInit, Asleep
  <2> QED
    BY <2>1 DEF NoLostWakeup
<1>2. QueueTypeOK /\ QueueTypeOK' /\ NoLostWakeup /\ [QueueNext]_vars => NoLostWakeup'
  BY NextWakeUps
<1> QED
  BY <1>1, <1>2, QueueTypeCorrect, PTL DEF QueueSpec

-------------------------------------------------------------------------------
(* Order. *)

LEMMA NextOrder ==
    ASSUME QueueTypeOK, FirstInFirstOut, [QueueNext]_vars
    PROVE  FirstInFirstOut'
<1> USE DEF QueueTypeOK
<1>0. Len(queue) \in Nat /\ Len(popped) \in Nat /\ Left \in Nat /\ pushed = Left + Len(queue)
  BY DEF FirstInFirstOut, Left
<1>1. CASE UNCHANGED vars
  BY <1>1 DEF vars, FirstInFirstOut, Left
<1>2. ASSUME NEW t \in Threads, Push(t)
      PROVE  FirstInFirstOut'
  <2>1. Len(queue') = Len(queue) + 1 /\ pushed' = pushed + 1 /\ Left' = Left
    BY <1>2 DEF Push, Left
  <2>2. \A i \in 1 .. Len(queue') : queue'[i] = Left + i
    BY <1>2, <2>1 DEF Push, FirstInFirstOut, Left
  <2> QED
    BY <1>2, <2>1, <2>2 DEF Push, FirstInFirstOut
<1>3. ASSUME NEW t \in Threads, Pop(t)
      PROVE  FirstInFirstOut'
  <2>1. /\ Len(queue') = Len(queue) - 1 /\ pushed' = pushed /\ Left' = Left + 1
        /\ Head(queue) = Left + 1 /\ cleared' = cleared
    BY <1>0, <1>3 DEF Pop, Left, FirstInFirstOut
  <2>2. \A i \in 1 .. Len(queue') : queue'[i] = Left' + i
    <3>1. \A i \in 1 .. Len(queue') : queue'[i] = queue[i + 1] /\ i + 1 \in 1 .. Len(queue)
      BY <1>3, <2>1 DEF Pop
    <3> QED
      BY <1>0, <2>1, <3>1 DEF FirstInFirstOut
  <2>3. popped' = Append(popped, Left + 1)
    BY <1>3, <2>1 DEF Pop
  <2>4. Len(popped') = Len(popped) + 1
    BY <1>0, <2>3
  <2>5. \A i \in 1 .. Len(popped) : popped'[i] = popped[i] /\ popped[i] \in 1 .. Left
    BY <1>0, <2>3 DEF FirstInFirstOut
  <2>6. popped'[Len(popped) + 1] = Left + 1
    BY <1>0, <2>3
  <2> HIDE DEF QueueTypeOK
  <2>7. \A i \in 1 .. Len(popped') : popped'[i] \in 1 .. Left'
    BY <1>0, <2>1, <2>4, <2>5, <2>6
  <2>8. \A i, j \in 1 .. Len(popped') : i < j => popped'[i] < popped'[j]
    <3> SUFFICES ASSUME NEW i \in 1 .. Len(popped'), NEW j \in 1 .. Len(popped'), i < j
                 PROVE  popped'[i] < popped'[j]
      OBVIOUS
    <3>1. i \in 1 .. Len(popped)
      BY <1>0, <2>4
    <3>2. CASE j \in 1 .. Len(popped)
      BY <2>5, <3>1, <3>2 DEF FirstInFirstOut
    <3>3. CASE j = Len(popped) + 1
      BY <1>0, <2>5, <2>6, <3>1, <3>3
    <3> QED
      BY <1>0, <2>4, <3>2, <3>3
  <2>9. \A k \in 1 .. Left' :
            k \in cleared' <=> \A i \in 1 .. Len(popped') : popped'[i] # k
    <3> SUFFICES ASSUME NEW k \in 1 .. Left'
                 PROVE  k \in cleared' <=> \A i \in 1 .. Len(popped') : popped'[i] # k
      OBVIOUS
    <3>1. CASE k = Left + 1
      <4>1. k \notin cleared'
        BY <1>0, <2>1, <3>1 DEF FirstInFirstOut
      <4>2. popped'[Len(popped) + 1] = k /\ Len(popped) + 1 \in 1 .. Len(popped')
        BY <1>0, <2>4, <2>6, <3>1
      <4> QED
        BY <4>1, <4>2
    <3>2. CASE k \in 1 .. Left
      <4>1. k \in cleared <=> \A i \in 1 .. Len(popped) : popped[i] # k
        BY <3>2 DEF FirstInFirstOut
      <4>2. k # Left + 1
        BY <1>0, <3>2
      <4>3. \A i \in 1 .. Len(popped') : i \in 1 .. Len(popped) \/ i = Len(popped) + 1
        BY <1>0, <2>4
      <4>4. \A i \in 1 .. Len(popped) : i \in 1 .. Len(popped')
        BY <1>0, <2>4
      <4> QED
        BY <2>1, <2>5, <2>6, <4>1, <4>2, <4>3, <4>4
    <3> QED
      BY <1>0, <2>1, <3>1, <3>2
  <2>10. Len(queue') <= pushed' /\ cleared' \subseteq 1 .. Left'
    BY <1>0, <2>1 DEF FirstInFirstOut
  <2> QED
    BY <2>2, <2>7, <2>8, <2>9, <2>10 DEF FirstInFirstOut
<1>4. ASSUME NEW t \in Threads, Sleep(t) \/ SpuriousWake(t)
      PROVE  FirstInFirstOut'
  BY <1>4 DEF Sleep, SpuriousWake, FirstInFirstOut, Left
<1>5. ASSUME NEW t \in Threads, Clear(t)
      PROVE  FirstInFirstOut'
  <2>1. /\ queue' = <<>> /\ Len(queue') = 0 /\ pushed' = pushed /\ Left' = pushed
        /\ popped' = popped
    BY <1>0, <1>5 DEF Clear, Left
  <2>2. \A k : k \in cleared' <=> k \in cleared \/ k \in Left + 1 .. pushed
    <3>1. \A k : k \in cleared' <=> k \in cleared \/ \E i \in 1 .. Len(queue) : k = queue[i]
      BY <1>5 DEF Clear
    <3>2. \A i \in 1 .. Len(queue) : queue[i] = Left + i
      BY DEF FirstInFirstOut
    <3> HIDE DEF Left, QueueTypeOK
    <3>3. \A k \in Left + 1 .. pushed : \E i \in 1 .. Len(queue) : k = Left + i
      <4> TAKE k \in Left + 1 .. pushed
      <4>1. k - Left \in 1 .. Len(queue) /\ k = Left + (k - Left)
        BY <1>0
      <4> QED
        BY <4>1
    <3>4. \A i \in 1 .. Len(queue) : Left + i \in Left + 1 .. pushed
      BY <1>0
    <3>5. \A k : (\E i \in 1 .. Len(queue) : k = queue[i]) <=> k \in Left + 1 .. pushed
      BY <3>2, <3>3, <3>4
    <3> QED
      BY <3>1, <3>5
  <2>3. \A i \in 1 .. Len(popped) : popped[i] \in 1 .. Left
    BY DEF FirstInFirstOut
  <2> HIDE DEF QueueTypeOK
  <2>4. \A k \in 1 .. Left' :
            k \in cleared' <=> \A i \in 1 .. Len(popped') : popped'[i] # k
    <3> SUFFICES ASSUME NEW k \in 1 .. pushed
                 PROVE  k \in cleared' <=> \A i \in 1 .. Len(popped) : popped[i] # k
      BY <2>1
    <3>1. CASE k \in 1 .. Left
      <4>1. k \in cleared <=> \A i \in 1 .. Len(popped) : popped[i] # k
        BY <3>1 DEF FirstInFirstOut
      <4>2. k \notin Left + 1 .. pushed
        BY <1>0, <3>1
      <4> QED
        BY <2>2, <4>1, <4>2
    <3>2. CASE k \in Left + 1 .. pushed
      <4>1. \A i \in 1 .. Len(popped) : popped[i] # k
        BY <1>0, <2>3, <3>2
      <4> QED
        BY <2>2, <3>2, <4>1
    <3> QED
      BY <1>0, <3>1, <3>2
  <2>5. cleared' \subseteq 1 .. Left'
    <3>1. cleared \subseteq 1 .. Left
      BY DEF FirstInFirstOut
    <3> HIDE DEF Left
    <3>2. \A k \in 1 .. Left : k \in 1 .. pushed
      BY <1>0
    <3>3. \A k \in Left + 1 .. pushed : k \in 1 .. pushed
      BY <1>0
    <3> QED
      BY <2>1, <2>2, <3>1, <3>2, <3>3
  <2>6. \A i \in 1 .. Len(popped') : popped'[i] \in 1 .. Left'
    BY <1>0, <2>1, <2>3
  <2>7. \A i, j \in 1 .. Len(popped') : i < j => popped'[i] < popped'[j]
    BY <2>1 DEF FirstInFirstOut
  <2> QED
    <3>1. Len(queue') <= pushed' /\ \A i \in 1 .. Len(queue') : queue'[i] = Left' + i
      BY <1>0, <2>1
    <3> QED
      BY <2>4, <2>5, <2>6, <2>7, <3>1 DEF FirstInFirstOut
<1> QED
  BY <1>1, <1>2, <1>3, <1>4, <1>5 DEF QueueNext, TryPop, WaitAndPop, WakeUp

\* The queue is first in, first out, and no item is lost or popped twice.
THEOREM QueueOrder == QueueSpec => []FirstInFirstOut
<1>1. QueueInit => FirstInFirstOut
  BY DEF QueueInit, FirstInFirstOut, Left
<1>2. QueueTypeOK /\ FirstInFirstOut /\ [QueueNext]_vars => FirstInFirstOut'
  BY NextOrder
<1> QED
  BY <1>1, <1>2, QueueTypeCorrect, PTL DEF QueueSpec
===============================================================================
