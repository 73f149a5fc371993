-------------------------------- MODULE Futex --------------------------------
(***************************************************************************)
(* The Futex class (futex.hpp): wait() and notify() of an OS thread over   *)
(* the two atomics m_work_avalable and m_wait_counter and the kernel's     *)
(* FUTEX_WAIT and FUTEX_WAKE, with the client the class is documented for: *)
(* consumers that wait() when their lock-free queue is empty, producers    *)
(* that enqueue and then notify().                                         *)
(*                                                                         *)
(* Every access to an atomic is an action.  notify() stores 1 with         *)
(* memory_order_release and then loads m_wait_counter; on x86 that store   *)
(* may still be in the store buffer of the core when the load is done.     *)
(* LoadPasses says whether it may (TRUE, as the code is compiled), or the  *)
(* load waits until the store is visible (FALSE: sequential consistency).  *)
(***************************************************************************)
EXTENDS Naturals, FiniteSets

CONSTANTS
    Consumer,       \* threads that call wait()
    Producer,       \* threads that call notify()
    MaxEnqueue,     \* bound: items enqueued in a behaviour
    LoadPasses      \* may notify() load m_wait_counter before its store is visible?

ASSUME FutexAssumption ==
    /\ IsFiniteSet(Consumer) /\ Consumer # {}
    /\ Consumer \cap Producer = {}
    /\ MaxEnqueue \in Nat
    /\ LoadPasses \in BOOLEAN

VARIABLES
    m_work_avalable,  \* the futex word, 0 or 1
    m_wait_counter,   \* threads between fetch_add and fetch_sub in wait()
    buffered,         \* producers whose store of 1 is still in a store buffer
    queue,            \* items in the client's queue
    enqueued,         \* items enqueued so far, at most MaxEnqueue
    pc

vars == <<m_work_avalable, m_wait_counter, buffered, queue, enqueued, pc>>

Thread == Consumer \cup Producer

ConsumerPC == {"check", "load", "exchange", "count", "syscall", "asleep", "woken"}
ProducerPC == {"idle", "test", "store", "readCounter", "wakeOne", "wakeAll"}

Goto(t, from, to) == pc[t] = from /\ pc' = [pc EXCEPT ![t] = to]

Init ==
    /\ m_work_avalable = 1
    /\ m_wait_counter = 0
    /\ buffered = {}
    /\ queue = 0
    /\ enqueued = 0
    /\ pc = [t \in Thread |-> IF t \in Consumer THEN "check" ELSE "idle"]

-----------------------------------------------------------------------------
(* The consumer: dequeue, and call wait() if there was nothing.            *)

Dequeue(c) ==
    /\ Goto(c, "check", "check")
    /\ queue > 0
    /\ queue' = queue - 1
    /\ UNCHANGED <<m_work_avalable, m_wait_counter, buffered, enqueued>>

FindEmpty(c) ==
    /\ Goto(c, "check", "load")
    /\ queue = 0
    /\ UNCHANGED <<m_work_avalable, m_wait_counter, buffered, queue, enqueued>>

LoadWork(c) ==
    /\ IF m_work_avalable # 0 THEN Goto(c, "load", "exchange")
                              ELSE Goto(c, "load", "count")
    /\ UNCHANGED <<m_work_avalable, m_wait_counter, buffered, queue, enqueued>>

\* Mutant: the token is taken and its news ignored.
ExchangeWorkIgnored(c) ==
    /\ Goto(c, "exchange", "count")
    /\ m_work_avalable' = 0
    /\ UNCHANGED <<m_wait_counter, buffered, queue, enqueued>>

\* The exchange takes the token of a notify(): the caller looks at its queue again.
ExchangeWork(c) ==
    /\ IF m_work_avalable # 0 THEN Goto(c, "exchange", "check")
                              ELSE Goto(c, "exchange", "count")
    /\ m_work_avalable' = 0
    /\ UNCHANGED <<m_wait_counter, buffered, queue, enqueued>>

CountWaiter(c) ==
    /\ Goto(c, "count", "syscall")
    /\ m_wait_counter' = m_wait_counter + 1
    /\ UNCHANGED <<m_work_avalable, buffered, queue, enqueued>>

\* Mutant: sleep whatever the word is.
FutexWaitBlind(c) ==
    /\ Goto(c, "syscall", "asleep")
    /\ UNCHANGED <<m_work_avalable, m_wait_counter, buffered, queue, enqueued>>

\* FUTEX_WAIT: sleep if the word is still 0, else EAGAIN, in one step of the kernel.
FutexWait(c) ==
    /\ IF m_work_avalable = 0 THEN Goto(c, "syscall", "asleep")
                              ELSE Goto(c, "syscall", "woken")
    /\ UNCHANGED <<m_work_avalable, m_wait_counter, buffered, queue, enqueued>>

\* A signal ends FUTEX_WAIT with EINTR; wait() does not look at the result.
Interrupt(c) ==
    /\ Goto(c, "asleep", "woken")
    /\ UNCHANGED <<m_work_avalable, m_wait_counter, buffered, queue, enqueued>>

\* Mutant: the waiter stays counted.
LeaveWaitCounted(c) ==
    /\ Goto(c, "woken", "check")
    /\ UNCHANGED <<m_work_avalable, m_wait_counter, buffered, queue, enqueued>>

LeaveWait(c) ==
    /\ Goto(c, "woken", "check")
    /\ m_wait_counter' = m_wait_counter - 1
    /\ UNCHANGED <<m_work_avalable, buffered, queue, enqueued>>

-----------------------------------------------------------------------------
(* The producer: enqueue, then notify(count).                              *)

\* The compare-and-swap that enqueues is a locked instruction: it waits for
\* this core's earlier store.
Enqueue(p) ==
    /\ enqueued < MaxEnqueue
    /\ p \notin buffered
    /\ Goto(p, "idle", "test")
    /\ queue' = queue + 1
    /\ enqueued' = enqueued + 1
    /\ UNCHANGED <<m_work_avalable, m_wait_counter, buffered>>

\* A core reads its own store of 1 out of its store buffer.
TestWork(p) ==
    /\ IF m_work_avalable = 0 /\ p \notin buffered THEN Goto(p, "test", "store")
                                                  ELSE Goto(p, "test", "readCounter")
    /\ UNCHANGED <<m_work_avalable, m_wait_counter, buffered, queue, enqueued>>

StoreWork(p) ==
    /\ Goto(p, "store", "readCounter")
    /\ buffered' = buffered \cup {p}
    /\ UNCHANGED <<m_work_avalable, m_wait_counter, queue, enqueued>>

Drain(p) ==
    /\ p \in buffered
    /\ buffered' = buffered \ {p}
    /\ m_work_avalable' = 1
    /\ UNCHANGED <<m_wait_counter, queue, enqueued, pc>>

ReadCounter(p) ==
    /\ LoadPasses \/ p \notin buffered
    /\ IF m_wait_counter > 0
       THEN \E wake \in {"wakeOne", "wakeAll"} : Goto(p, "readCounter", wake)
       ELSE Goto(p, "readCounter", "idle")
    /\ UNCHANGED <<m_work_avalable, m_wait_counter, buffered, queue, enqueued>>

Asleep == {c \in Consumer : pc[c] = "asleep"}

\* Mutant: FUTEX_WAKE is asked to wake no thread.
FutexWakeZero(p) ==
    /\ \E wake \in {"wakeOne", "wakeAll"} : Goto(p, wake, "idle")
    /\ UNCHANGED <<m_work_avalable, m_wait_counter, buffered, queue, enqueued>>

\* FUTEX_WAKE wakes one sleeper if there is one (notify) or all (notify_all);
\* the kernel orders it after the caller's stores.
FutexWake(p) ==
    /\ pc[p] \in {"wakeOne", "wakeAll"}
    /\ p \notin buffered
    /\ \E woken \in SUBSET Asleep :
         /\ pc[p] = "wakeAll" => woken = Asleep
         /\ pc[p] = "wakeOne" => IF Asleep = {} THEN woken = {}
                                                ELSE \E c \in Asleep : woken = {c}
         /\ pc' = [t \in Thread |-> IF t = p THEN "idle"
                                    ELSE IF t \in woken THEN "woken" ELSE pc[t]]
    /\ UNCHANGED <<m_work_avalable, m_wait_counter, buffered, queue, enqueued>>

-----------------------------------------------------------------------------
ConsumerStep(c) ==
    \/ Dequeue(c) \/ FindEmpty(c)
    \/ LoadWork(c) \/ ExchangeWork(c) \/ CountWaiter(c) \/ FutexWait(c) \/ LeaveWait(c)

NotifyStep(p) ==
    TestWork(p) \/ StoreWork(p) \/ Drain(p) \/ ReadCounter(p) \/ FutexWake(p)

Next ==
    \/ \E c \in Consumer : ConsumerStep(c) \/ Interrupt(c)
    \/ \E p \in Producer : Enqueue(p) \/ NotifyStep(p)

Spec == Init /\ [][Next]_vars

\* The kernel runs every thread that can run, and a store buffer drains.
\* Nothing makes a producer enqueue and nothing interrupts a sleeper.
FairSpec ==
    /\ Spec
    /\ \A c \in Consumer : WF_vars(ConsumerStep(c))
    /\ \A p \in Producer : WF_vars(NotifyStep(p))

-----------------------------------------------------------------------------
(* Properties.                                                             *)

\* The consumers counted by m_wait_counter.
Counted == {c \in Consumer : pc[c] \in {"syscall", "asleep", "woken"}}

\* Type invariant; the counter is the number of threads inside the window
\* between fetch_add and fetch_sub of wait(), so it never wraps below zero.
TypeOK ==
    /\ m_work_avalable \in {0, 1}
    /\ m_wait_counter \in Nat
    /\ m_wait_counter = Cardinality(Counted)
    /\ buffered \in SUBSET Producer
    /\ queue \in Nat
    /\ enqueued \in Nat
    /\ pc \in [Thread -> ConsumerPC \cup ProducerPC]
    /\ \A c \in Consumer : pc[c] \in ConsumerPC
    /\ \A p \in Producer : pc[p] \in ProducerPC

\* Producers inside notify(), or whose store is not visible yet.
Notifying == {p \in Producer : pc[p] # "idle"} \cup buffered

\* "if some other thread will notify() at same time, current thread will not go
\* to sleep or it will wake up immediately (or some other thread waiting on this
\* Futex will wake up)" (futex.hpp:97): once every notify() has returned, the
\* consumers are not all asleep while the queue holds an item.
NoLostWakeup ==
    queue > 0 /\ Notifying = {} => Asleep # Consumer

\* A consumer that has seen an empty queue and takes no token on its way to sleep.
Committed == {c \in Consumer : pc[c] \in {"load", "exchange", "count", "syscall", "asleep"}}

\* When no consumer is going to look at the queue again and an item is there, the word
\* is 1 or a producer is about to make it 1, whether or not loads pass stores: what
\* TSO loses is the wake-up, never the token (futex.hpp:128-130).
TokenPending ==
    queue > 0 /\ Committed = Consumer =>
        m_work_avalable = 1 \/ \E p \in Producer : pc[p] \in {"test", "store"} \/ p \in buffered

\* Strengthening of NoLostWakeup: and if all of them already sleep, a producer has
\* not reached FUTEX_WAKE yet.
WakeupPending ==
    /\ TokenPending
    /\ queue > 0 /\ Asleep = Consumer => \E p \in Producer : pc[p] # "idle"

\* Every enqueued item is taken in the end: no notify() is lost for ever.
EventuallyDrained == <>[](queue = 0)
=============================================================================
