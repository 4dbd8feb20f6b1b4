------------------------- MODULE MessageQueueProofs -------------------------
(***************************************************************************)
(* For every number of threads, of messages and of calls: MessageQueue     *)
(* loses no wakeup and implements FifoQueue.                               *)
(***************************************************************************)
EXTENDS MessageQueue, SequenceTheorems, TLAPS

\* Removing the first element: queue.front and queue.pop.
LEMMA TailFacts ==
    ASSUME NEW S, NEW s \in Seq(S), s # <<>>
    PROVE  /\ Len(s) \in Nat \ {0}
           /\ Head(s) = s[1]
           /\ Head(s) \in S
           /\ Tail(s) \in Seq(S)
           /\ Len(Tail(s)) = Len(s) - 1
           /\ \A i \in 1..Len(Tail(s)) : Tail(s)[i] = s[i + 1]
  OBVIOUS

\* The constructor establishes the invariant.
LEMMA InitInv == Init => QueueInv
  BY ThreadsAssumption
     DEF Init, QueueInv, TypeOK, Locked, InOrder, NoLostWakeup, Threads

\* Every step of a thread in enqueue or dequeue keeps the types.
LEMMA StepType == QueueInv /\ [Next]_vars => TypeOK'
<1> SUFFICES ASSUME TypeOK, [Next]_vars PROVE TypeOK'
  BY DEF QueueInv
<1> USE DEF TypeOK
<1>1. ASSUME NEW t \in Producers, Push(t) PROVE TypeOK'
  <2>1. PICK message \in Messages :
           m_queue' = Append(m_queue, message) /\ enqueued' = Append(enqueued, message)
    BY <1>1 DEF Push
  <2>2. m_queue' \in Seq(Messages) /\ enqueued' \in Seq(Messages)
    BY <2>1, AppendProperties
  <2> QED
    BY <1>1, <2>2 DEF Push, Goto, Acquire, Threads
<1>2. ASSUME NEW t \in Producers, NotifyAll(t) PROVE TypeOK'
  BY <1>2 DEF NotifyAll, Goto, Release, Threads
<1>3. ASSUME NEW t \in Consumers, Dequeue(t) PROVE TypeOK'
  BY <1>3 DEF Dequeue, Goto, Acquire, Threads
<1>4. ASSUME NEW t \in Consumers, Pop(t) PROVE TypeOK'
  <2>1. Head(m_queue) \in Messages /\ Tail(m_queue) \in Seq(Messages)
    BY <1>4, TailFacts DEF Pop
  <2>2. m_queue' \in Seq(Messages) /\ dequeued' \in Seq(Messages)
    BY <1>4, <2>1, AppendProperties DEF Pop
  <2> QED
    BY <1>4, <2>2 DEF Pop, Goto, Release, Threads
<1>5. ASSUME NEW t \in Consumers, WaitFor(t) PROVE TypeOK'
  BY <1>5 DEF WaitFor, Goto, Release, Threads
<1>6. ASSUME NEW t \in Consumers, WakeUp(t) PROVE TypeOK'
  BY <1>6 DEF WakeUp, Threads
<1>7. ASSUME NEW t \in Consumers, Relock(t) \/ RelockTimedOut(t) PROVE TypeOK'
  BY <1>7 DEF Relock, RelockTimedOut, Goto, Acquire, Threads
<1>8. ASSUME NEW t \in Consumers, ReturnTimeout(t) PROVE TypeOK'
  BY <1>8 DEF ReturnTimeout, Goto, Release, Threads
<1>9. CASE UNCHANGED vars
  BY <1>9 DEF vars
<1> QED
  BY <1>1, <1>2, <1>3, <1>4, <1>5, <1>6, <1>7, <1>8, <1>9
     DEF Next, Enqueue, DequeueStep

\* Every step keeps the discipline of m_mutex and m_condvar.
LEMMA StepLocked == QueueInv /\ [Next]_vars => Locked'
<1> SUFFICES ASSUME TypeOK, Locked, [Next]_vars PROVE Locked'
  BY DEF QueueInv
<1> USE ThreadsAssumption DEF TypeOK, Locked, Threads
<1>1. ASSUME NEW t \in Producers, Push(t) PROVE Locked'
  BY <1>1 DEF Push, Goto, Acquire
<1>2. ASSUME NEW t \in Producers, NotifyAll(t) PROVE Locked'
  BY <1>2 DEF NotifyAll, Goto, Release
<1>3. ASSUME NEW t \in Consumers, Dequeue(t) PROVE Locked'
  BY <1>3 DEF Dequeue, Goto, Acquire
<1>4. ASSUME NEW t \in Consumers, Pop(t) PROVE Locked'
  BY <1>4 DEF Pop, Goto, Release
<1>5. ASSUME NEW t \in Consumers, WaitFor(t) PROVE Locked'
  BY <1>5 DEF WaitFor, Goto, Release
<1>6. ASSUME NEW t \in Consumers, WakeUp(t) PROVE Locked'
  BY <1>6 DEF WakeUp
<1>7. ASSUME NEW t \in Consumers, Relock(t) \/ RelockTimedOut(t) PROVE Locked'
  BY <1>7 DEF Relock, RelockTimedOut, Goto, Acquire
<1>8. ASSUME NEW t \in Consumers, ReturnTimeout(t) PROVE Locked'
  BY <1>8 DEF ReturnTimeout, Goto, Release
<1>9. CASE UNCHANGED vars
  BY <1>9 DEF vars
<1> QED
  BY <1>1, <1>2, <1>3, <1>4, <1>5, <1>6, <1>7, <1>8, <1>9
     DEF Next, Enqueue, DequeueStep

\* Only a push and a pop touch the messages, and both keep their order.
LEMMA StepInOrder == QueueInv /\ [Next]_vars => InOrder'
<1> SUFFICES ASSUME TypeOK, InOrder, [Next]_vars PROVE InOrder'
  BY DEF QueueInv
<1>0. Len(m_queue) \in Nat /\ Len(enqueued) \in Nat /\ Len(dequeued) \in Nat
  BY DEF TypeOK
<1>1. ASSUME NEW t \in Producers, Push(t) PROVE InOrder'
  <2>1. PICK message \in Messages :
           m_queue' = Append(m_queue, message) /\ enqueued' = Append(enqueued, message)
    BY <1>1 DEF Push
  <2>2. /\ Len(m_queue') = Len(m_queue) + 1
        /\ Len(enqueued') = Len(enqueued) + 1
        /\ \A i \in 1..Len(m_queue) : m_queue'[i] = m_queue[i]
        /\ \A i \in 1..Len(enqueued) : enqueued'[i] = enqueued[i]
        /\ m_queue'[Len(m_queue) + 1] = message
        /\ enqueued'[Len(enqueued) + 1] = message
    BY <2>1, AppendProperties DEF TypeOK
  <2>3. dequeued' = dequeued
    BY <1>1 DEF Push
  <2>4. Len(enqueued') = Len(dequeued') + Len(m_queue')
    BY <1>0, <2>2, <2>3 DEF InOrder
  <2>5. ASSUME NEW i \in 1..Len(dequeued') PROVE dequeued'[i] = enqueued'[i]
    BY <1>0, <2>2, <2>3, <2>5 DEF InOrder
  <2>6. ASSUME NEW i \in 1..Len(m_queue') PROVE m_queue'[i] = enqueued'[Len(dequeued') + i]
    <3>1. CASE i \in 1..Len(m_queue)
      <4>1. Len(dequeued) + i \in 1..Len(enqueued)
        BY <1>0, <3>1 DEF InOrder
      <4> QED
        BY <3>1, <4>1, <2>2, <2>3 DEF InOrder
    <3>2. CASE i = Len(m_queue) + 1
      <4>1. Len(dequeued) + i = Len(enqueued) + 1
        BY <1>0, <3>2 DEF InOrder
      <4> QED
        BY <3>2, <4>1, <2>2, <2>3
    <3> QED
      BY <1>0, <2>2, <3>1, <3>2
  <2> QED
    BY <2>4, <2>5, <2>6 DEF InOrder
<1>2. ASSUME NEW t \in Consumers, Pop(t) PROVE InOrder'
  <2>1. /\ Len(m_queue) \in Nat \ {0}
        /\ Len(m_queue') = Len(m_queue) - 1
        /\ \A i \in 1..Len(m_queue') : m_queue'[i] = m_queue[i + 1]
        /\ Head(m_queue) = m_queue[1]
        /\ Head(m_queue) \in Messages
    BY <1>2, TailFacts DEF TypeOK, Pop
  <2>2. /\ Len(dequeued') = Len(dequeued) + 1
        /\ \A i \in 1..Len(dequeued) : dequeued'[i] = dequeued[i]
        /\ dequeued'[Len(dequeued) + 1] = m_queue[1]
    BY <1>2, <2>1, AppendProperties DEF TypeOK, Pop
  <2>3. enqueued' = enqueued
    BY <1>2 DEF Pop
  <2>4. Len(enqueued') = Len(dequeued') + Len(m_queue')
    <3>1. Len(enqueued) = Len(dequeued) + Len(m_queue)
      BY DEF InOrder
    <3>2. Len(dequeued') = Len(dequeued) + 1 /\ Len(m_queue') = Len(m_queue) - 1
      BY <2>1, <2>2
    <3> QED
      BY <1>0, <2>3, <3>1, <3>2
  <2>5. ASSUME NEW i \in 1..Len(dequeued') PROVE dequeued'[i] = enqueued'[i]
    <3>1. CASE i \in 1..Len(dequeued)
      BY <3>1, <2>2, <2>3 DEF InOrder
    <3>2. CASE i = Len(dequeued) + 1
      <4>1. m_queue[1] = enqueued[Len(dequeued) + 1]
        BY <2>1 DEF InOrder
      <4> QED
        BY <3>2, <4>1, <2>2, <2>3
    <3> QED
      BY <1>0, <2>2, <2>5, <3>1, <3>2
  <2>6. ASSUME NEW i \in 1..Len(m_queue') PROVE m_queue'[i] = enqueued'[Len(dequeued') + i]
    <3>1. i + 1 \in 1..Len(m_queue) /\ Len(dequeued') + i = Len(dequeued) + (i + 1)
      BY <1>0, <2>1, <2>2
    <3> QED
      BY <3>1, <2>1, <2>3 DEF InOrder
  <2> QED
    BY <2>4, <2>5, <2>6 DEF InOrder
<1>3. CASE UNCHANGED <<m_queue, enqueued, dequeued>>
  BY <1>3 DEF InOrder
<1> QED
  BY <1>1, <1>2, <1>3 DEF Next, Enqueue, DequeueStep, NotifyAll, Dequeue, WaitFor, WakeUp,
                          Relock, RelockTimedOut, ReturnTimeout, vars

\* Every step keeps the waiters from sleeping beside a queued message.
LEMMA StepNoLostWakeup == QueueInv /\ [Next]_vars => NoLostWakeup'
<1> SUFFICES ASSUME TypeOK, NoLostWakeup, Locked, [Next]_vars PROVE NoLostWakeup'
  BY DEF QueueInv
<1> USE ThreadsAssumption DEF NoLostWakeup, Threads
<1>1. ASSUME NEW t \in Producers, Push(t) PROVE NoLostWakeup'
  BY <1>1 DEF Push, Goto, TypeOK
<1>2. ASSUME NEW t \in Producers, NotifyAll(t) PROVE NoLostWakeup'
  BY <1>2 DEF NotifyAll
<1>3. ASSUME NEW t \in Consumers, Dequeue(t) PROVE NoLostWakeup'
  BY <1>3 DEF Dequeue, Goto, TypeOK
<1>4. ASSUME NEW t \in Consumers, Pop(t) PROVE NoLostWakeup'
  BY <1>4 DEF Pop, Goto, TypeOK
<1>5. ASSUME NEW t \in Consumers, WaitFor(t) PROVE NoLostWakeup'
  BY <1>5 DEF WaitFor
<1>6. ASSUME NEW t \in Consumers, WakeUp(t) PROVE NoLostWakeup'
  BY <1>6 DEF WakeUp
<1>7. ASSUME NEW t \in Consumers, Relock(t) \/ RelockTimedOut(t) PROVE NoLostWakeup'
  BY <1>7 DEF Relock, RelockTimedOut, Goto, TypeOK
<1>8. ASSUME NEW t \in Consumers, ReturnTimeout(t) PROVE NoLostWakeup'
  BY <1>8 DEF ReturnTimeout, Goto, TypeOK
<1>9. CASE UNCHANGED vars
  BY <1>9 DEF vars
<1> QED
  BY <1>1, <1>2, <1>3, <1>4, <1>5, <1>6, <1>7, <1>8, <1>9
     DEF Next, Enqueue, DequeueStep

\* The threads of MessageQueue never leave the invariant.
THEOREM QueueInvariant == Spec => []QueueInv
<1>1. QueueInv /\ [Next]_vars => QueueInv'
  BY StepType, StepLocked, StepInOrder, StepNoLostWakeup DEF QueueInv
<1> QED
  BY InitInv, <1>1, PTL DEF Spec

\* No wakeup is lost between the test in dequeue and its wait.
THEOREM NeverLosesWakeup == Spec => []NoLostWakeup
<1>1. QueueInv => NoLostWakeup
  BY DEF QueueInv
<1> QED
  BY QueueInvariant, <1>1, PTL

\* enqueue and dequeue implement the steps of a FIFO queue.
THEOREM ImplementsFifoSteps == Spec => Fifo!Spec
<1>1. Init => Fifo!Init
  BY DEF Init, Fifo!Init
<1>2. QueueInv /\ [Next]_vars => [Fifo!Next]_(Fifo!vars)
  <2> SUFFICES ASSUME QueueInv, [Next]_vars PROVE [Fifo!Next]_(Fifo!vars)
    OBVIOUS
  <2>1. ASSUME NEW t \in Producers, Push(t) PROVE Fifo!Put
    BY <2>1 DEF Push, Fifo!Put
  <2>2. ASSUME NEW t \in Consumers, Pop(t) PROVE Fifo!Get
    <3>1. Len(m_queue) \in Nat \ {0} /\ Head(m_queue) = m_queue[1]
      BY <2>2, TailFacts DEF QueueInv, TypeOK, Pop
    <3>2. Len(dequeued) \in Nat
      BY DEF QueueInv, TypeOK
    <3>3. Len(dequeued) < Len(enqueued) /\ Head(m_queue) = enqueued[Len(dequeued) + 1]
      BY <3>1, <3>2 DEF QueueInv, InOrder
    <3> QED
      BY <2>2, <3>3 DEF Pop, Fifo!Get
  <2>3. CASE UNCHANGED <<m_queue, enqueued, dequeued>>
    BY <2>3 DEF Fifo!vars
  <2> QED
    BY <2>1, <2>2, <2>3
       DEF Next, Enqueue, DequeueStep, NotifyAll, Dequeue, WaitFor, WakeUp, Relock,
           RelockTimedOut, ReturnTimeout, vars, Fifo!Next, Fifo!vars
<1> QED
  BY QueueInvariant, <1>1, <1>2, PTL DEF Spec, Fifo!Spec
=============================================================================
