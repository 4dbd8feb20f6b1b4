---------------------------- MODULE MessageQueue ----------------------------
(***************************************************************************)
(* Class MessageQueue (message_queue.cpp): a std::queue behind a mutex and *)
(* a condition variable.  The main thread enqueues what the browsers post, *)
(* a connection's thread dequeues it with a wait of at most 100 ms.  The   *)
(* class itself serves any number of threads on either side.               *)
(*                                                                         *)
(* std::condition_variable is modelled as the C++ standard describes it:   *)
(* wait_for releases the mutex and joins the waiters in one step; a waiter *)
(* may leave by a notification, at the timeout or spuriously; it then has  *)
(* to get the mutex back, and whether wait_for reports a timeout depends   *)
(* on the clock at that moment and not on why the thread woke up.          *)
(***************************************************************************)
EXTENDS Naturals, Sequences

CONSTANTS Producers,     \* threads that call enqueue
          Consumers,     \* threads that call dequeue
          NoThread,
          Messages,
          MaxEnqueued    \* bound: calls of enqueue

Threads == Producers \cup Consumers

ASSUME ThreadsAssumption ==
    /\ Producers \cap Consumers = {}
    /\ NoThread \notin Threads
    /\ MaxEnqueued \in Nat

VARIABLES m_queue,
          m_mutex,     \* its holder
          m_condvar,   \* the threads that wait on it and were not woken yet
          pc,
          enqueued,    \* every message pushed, in order
          dequeued     \* every message popped, in order

vars == <<m_queue, m_mutex, m_condvar, pc, enqueued, dequeued>>

TypeOK ==
    /\ m_queue \in Seq(Messages)
    /\ m_mutex \in Threads \cup {NoThread}
    /\ m_condvar \subseteq Consumers
    /\ pc \in [Threads -> {"idle", "notify", "test", "waiting", "timedOut"}]
    /\ enqueued \in Seq(Messages)
    /\ dequeued \in Seq(Messages)

Init ==
    /\ m_queue = <<>>
    /\ m_mutex = NoThread
    /\ m_condvar = {}
    /\ pc = [t \in Threads |-> "idle"]
    /\ enqueued = <<>>
    /\ dequeued = <<>>

Acquire(t) ==
    /\ m_mutex = NoThread
    /\ m_mutex' = t

Release == m_mutex' = NoThread

Goto(t, from, to) ==
    /\ pc[t] = from
    /\ pc' = [pc EXCEPT ![t] = to]

-----------------------------------------------------------------------------
\* enqueue, up to the push.
Push(t) ==
    /\ Len(enqueued) < MaxEnqueued
    /\ Goto(t, "idle", "notify")
    /\ Acquire(t)
    /\ \E message \in Messages :
          /\ m_queue' = Append(m_queue, message)
          /\ enqueued' = Append(enqueued, message)
    /\ UNCHANGED <<m_condvar, dequeued>>

\* Mutant: notify_one.
NotifyOne(t) ==
    /\ Goto(t, "notify", "idle")
    /\ IF m_condvar = {} THEN UNCHANGED m_condvar
       ELSE \E c \in m_condvar : m_condvar' = m_condvar \ {c}
    /\ Release
    /\ UNCHANGED <<m_queue, enqueued, dequeued>>

\* notify_all, and enqueue returns.
NotifyAll(t) ==
    /\ Goto(t, "notify", "idle")
    /\ m_condvar' = {}
    /\ Release
    /\ UNCHANGED <<m_queue, enqueued, dequeued>>

-----------------------------------------------------------------------------
\* dequeue is called and gets the mutex.
Dequeue(t) ==
    /\ Goto(t, "idle", "test")
    /\ Acquire(t)
    /\ UNCHANGED <<m_queue, m_condvar, enqueued, dequeued>>

\* Mutant: the front is read and stays in the queue.
PopReading(t) ==
    /\ m_queue # <<>>
    /\ Goto(t, "test", "idle")
    /\ dequeued' = Append(dequeued, Head(m_queue))
    /\ Release
    /\ UNCHANGED <<m_queue, m_condvar, enqueued>>

\* The queue is not empty: the front is popped, and dequeue returns 0.
Pop(t) ==
    /\ m_queue # <<>>
    /\ Goto(t, "test", "idle")
    /\ dequeued' = Append(dequeued, Head(m_queue))
    /\ m_queue' = Tail(m_queue)
    /\ Release
    /\ UNCHANGED <<m_condvar, enqueued>>

WaitFor(t) ==
    /\ m_queue = <<>>
    /\ Goto(t, "test", "waiting")
    /\ m_condvar' = m_condvar \cup {t}
    /\ Release
    /\ UNCHANGED <<m_queue, enqueued, dequeued>>

\* The 100 ms are over, or the wakeup is spurious.
WakeUp(t) ==
    /\ t \in m_condvar
    /\ m_condvar' = m_condvar \ {t}
    /\ UNCHANGED <<m_queue, m_mutex, pc, enqueued, dequeued>>

\* wait_for has the mutex again and returns no_timeout: the loop tests again.
Relock(t) ==
    /\ t \notin m_condvar
    /\ Goto(t, "waiting", "test")
    /\ Acquire(t)
    /\ UNCHANGED <<m_queue, m_condvar, enqueued, dequeued>>

\* wait_for has the mutex again and returns timeout.
RelockTimedOut(t) ==
    /\ t \notin m_condvar
    /\ Goto(t, "waiting", "timedOut")
    /\ Acquire(t)
    /\ UNCHANGED <<m_queue, m_condvar, enqueued, dequeued>>

\* Mutant: after a timeout the front is popped although nobody gets it.
ReturnTimeoutPopping(t) ==
    /\ Goto(t, "timedOut", "idle")
    /\ m_queue' = IF m_queue = <<>> THEN m_queue ELSE Tail(m_queue)
    /\ Release
    /\ UNCHANGED <<m_condvar, enqueued, dequeued>>

\* dequeue returns -1 without looking at the queue again.
ReturnTimeout(t) ==
    /\ Goto(t, "timedOut", "idle")
    /\ Release
    /\ UNCHANGED <<m_queue, m_condvar, enqueued, dequeued>>

-----------------------------------------------------------------------------
Enqueue(t) == Push(t) \/ NotifyAll(t)

DequeueStep(t) ==
    \/ Dequeue(t)
    \/ Pop(t)
    \/ WaitFor(t)
    \/ WakeUp(t)
    \/ Relock(t)
    \/ RelockTimedOut(t)
    \/ ReturnTimeout(t)

Next ==
    \/ \E t \in Producers : Enqueue(t)
    \/ \E t \in Consumers : DequeueStep(t)

Spec == Init /\ [][Next]_vars

(***************************************************************************)
(* Fairness.  Run() calls dequeue in every turn of its loop, a wait ends   *)
(* after 100 ms at the latest, and enqueue has no wait but the lock.  No   *)
(* thread is promised the mutex when others compete for it.                *)
(***************************************************************************)
Fairness ==
    /\ \A t \in Producers : WF_vars(NotifyAll(t))
    /\ \A t \in Consumers : WF_vars(DequeueStep(t))

FairSpec == Spec /\ Fairness

-----------------------------------------------------------------------------
\* No wakeup is lost between the test of the queue in dequeue and the wait:
\* while a message is queued, nobody sleeps on the condition variable, except
\* in the moment between push and notify_all in enqueue.
NoLostWakeup ==
    m_queue # <<>> /\ (\A t \in Producers : pc[t] # "notify") => m_condvar = {}

\* The mutex excludes: its holder, and no other thread, is inside enqueue or
\* dequeue and not in wait_for, where the threads on the condvar are.
Locked ==
    /\ \A t \in Threads : m_mutex = t <=> pc[t] \in {"notify", "test", "timedOut"}
    /\ \A t \in Producers : pc[t] \in {"idle", "notify"}
    /\ \A t \in m_condvar : pc[t] = "waiting"

\* What was pushed is what was popped followed by what is queued.
InOrder ==
    /\ Len(enqueued) = Len(dequeued) + Len(m_queue)
    /\ \A i \in 1..Len(dequeued) : dequeued[i] = enqueued[i]
    /\ \A i \in 1..Len(m_queue) : m_queue[i] = enqueued[Len(dequeued) + i]

\* The invariant the proofs rest on: enqueue and dequeue of message_queue.cpp
\* keep the lock's discipline, lose no wakeup and neither lose, double nor
\* reorder a message, a dequeue that times out while a push happens included.
QueueInv == TypeOK /\ Locked /\ InOrder /\ NoLostWakeup

Fifo == INSTANCE FifoQueue WITH put <- enqueued, got <- dequeued

\* MessageQueue is a FIFO queue: enqueue and dequeue, with the wait and the
\* timeout in between, take effect once and in order, and a queued message
\* is taken as long as somebody calls dequeue again and again.
ImplementsFifo == Fifo!FairSpec
=============================================================================
