------------------------------ MODULE BgShutdown ------------------------------
(***************************************************************************)
(* The end of BgRunner (bg_runner.cpp, bg_thread.cpp): main() destroys it  *)
(* when the client's other threads have ended.                             *)
(* Scheduler gives BgRunner one BgThread, whose futex is that of Futex.tla *)
(* with its store buffers; here it is woken by clients that enqueue, and   *)
(* by the destructor.                                                      *)
(***************************************************************************)
EXTENDS Naturals, FiniteSets

CONSTANTS
    BgThread,       \* the thread of BgRunner
    main,           \* the thread that destroys it
    Client,         \* common threads that enqueue tasks, main among them
    MaxEnqueue,     \* bound: tasks enqueued in a behaviour
    LoadPasses      \* may a load pass a store that is in the store buffer?

ASSUME ShutdownAssumption ==
    /\ BgThread \notin Client
    /\ main \in Client
    /\ MaxEnqueue \in Nat
    /\ LoadPasses \in BOOLEAN

VARIABLES
    m_work_avalable, m_wait_counter, buffered,  \* m_task_avalable_futex, as in Futex
    queue, enqueued,                            \* tasks in the running queue
    m_sleep_count,
    m_stop_requested,
    stop_buffered,      \* is the store of m_stop_requested still in main's store buffer?
    m_thread_stopped,
    stage,              \* of main(): "runs", "stopping", "joining", "destroyed"
    pc

bgVars == <<m_sleep_count, m_thread_stopped>>
stopVars == <<m_stop_requested, stop_buffered>>
futexVars == <<m_work_avalable, m_wait_counter, buffered>>
queueVars == <<queue, enqueued>>
vars == <<futexVars, queueVars, bgVars, stopVars, stage, pc>>

m_task_avalable_futex == INSTANCE Futex WITH Consumer <- {BgThread}, Producer <- Client

Goto(t, from, to) == pc[t] = from /\ pc' = [pc EXCEPT ![t] = to]

Init ==
    /\ m_work_avalable = 1 /\ m_wait_counter = 0 /\ buffered = {}
    /\ queue = 0 /\ enqueued = 0
    /\ m_sleep_count = 0
    /\ m_stop_requested = FALSE /\ stop_buffered = FALSE
    /\ m_thread_stopped = FALSE
    /\ stage = "runs"
    /\ pc = [t \in Client \cup {BgThread} |-> IF t = BgThread THEN "schedule" ELSE "idle"]

-----------------------------------------------------------------------------
(* BgThread::thread_function                                               *)

\* It may find more tasks, but as it is the only BgThread its notify() finds nobody asleep.
RunTask ==
    /\ Goto(BgThread, "schedule", "schedule")
    /\ queue > 0
    /\ queue' = queue - 1
    /\ UNCHANGED <<futexVars, enqueued, bgVars, stopVars, stage>>

\* schedule() comes back to the native task when the queue is empty.
ScheduleReturns ==
    /\ Goto(BgThread, "schedule", "check_stop")
    /\ queue = 0
    /\ UNCHANGED <<futexVars, queueVars, bgVars, stopVars, stage>>

\* is_stop_requested(), before the wait and after it.
CheckStop ==
    /\ \/ Goto(BgThread, "check_stop", IF m_stop_requested THEN "returned" ELSE "wait")
       \/ Goto(BgThread, "check_again", IF m_stop_requested THEN "returned" ELSE "schedule")
    /\ UNCHANGED <<futexVars, queueVars, bgVars, stopVars, stage>>

\* BgThread::wait: counted while it is in Futex::wait, which goes from "load" to "check".
CountSleep ==
    /\ Goto(BgThread, "wait", "load")
    /\ m_sleep_count' = m_sleep_count + 1
    /\ UNCHANGED <<futexVars, queueVars, m_thread_stopped, stopVars, stage>>

FutexWaits ==
    /\ \/ m_task_avalable_futex!LoadWork(BgThread)
       \/ m_task_avalable_futex!ExchangeWork(BgThread)
       \/ m_task_avalable_futex!CountWaiter(BgThread)
       \/ m_task_avalable_futex!FutexWait(BgThread)
       \/ m_task_avalable_futex!LeaveWait(BgThread)
    /\ UNCHANGED <<bgVars, stopVars, stage>>

FutexInterrupted ==
    /\ m_task_avalable_futex!Interrupt(BgThread)
    /\ UNCHANGED <<bgVars, stopVars, stage>>

CountAwake ==
    /\ Goto(BgThread, "check", "check_again")
    /\ m_sleep_count' = m_sleep_count - 1
    /\ UNCHANGED <<futexVars, queueVars, m_thread_stopped, stopVars, stage>>

\* The destructor of AtomicReturnBoolGuard: the last touch of the BgThread.
ReturnGuard ==
    /\ Goto(BgThread, "returned", "ends")
    /\ m_thread_stopped' = TRUE
    /\ UNCHANGED <<futexVars, queueVars, m_sleep_count, stopVars, stage>>

OsThreadEnds ==
    /\ Goto(BgThread, "ends", "ended")
    /\ UNCHANGED <<futexVars, queueVars, bgVars, stopVars, stage>>

BgStep ==
    \/ RunTask \/ ScheduleReturns \/ CheckStop \/ CountSleep \/ FutexWaits
    \/ CountAwake \/ ReturnGuard \/ OsThreadEnds

-----------------------------------------------------------------------------
(* The clients: Scheduler::enqueue_unbound_task and BgRunner::notify       *)

EnqueueTask(p) ==
    /\ Goto(p, "idle", "notify")
    /\ stage = "runs" /\ enqueued < MaxEnqueue /\ p \notin buffered
    /\ queue' = queue + 1
    /\ enqueued' = enqueued + 1
    /\ UNCHANGED <<futexVars, bgVars, stopVars, stage>>

\* BgRunner::notify looks at m_sleep_count, then BgThread::wake_up.
ReadSleepCount(p) ==
    /\ Goto(p, "notify", IF m_sleep_count > 0 THEN "test" ELSE "idle")
    /\ UNCHANGED <<futexVars, queueVars, bgVars, stopVars, stage>>

\* Futex::notify_all
NotifyAll(p) ==
    /\ \/ m_task_avalable_futex!TestWork(p)
       \/ m_task_avalable_futex!StoreWork(p)
       \/ m_task_avalable_futex!ReadCounter(p) /\ pc'[p] # "wakeOne"
       \/ m_task_avalable_futex!FutexWake(p) /\ (p = main => ~stop_buffered)
    /\ UNCHANGED <<bgVars, stopVars, stage>>

\* A core drains its store buffer in order: m_stop_requested is stored first.
DrainWord(p) ==
    /\ m_task_avalable_futex!Drain(p) /\ (p = main => ~stop_buffered)
    /\ UNCHANGED <<bgVars, stopVars, stage>>

DrainStop ==
    /\ stop_buffered
    /\ m_stop_requested' = TRUE
    /\ stop_buffered' = FALSE
    /\ UNCHANGED <<futexVars, queueVars, bgVars, stage, pc>>

Drain(p) == DrainWord(p) \/ (p = main /\ DrainStop)

\* A common thread runs a task of the queue on its own way through schedule().  If the list
\* that it took had more tasks it calls notify().
HelpOut(p) ==
    /\ Goto(p, "idle", "idle") \/ (queue > 1 /\ Goto(p, "idle", "notify"))
    /\ stage = "runs" /\ queue > 0 /\ p \notin buffered
    /\ queue' = queue - 1
    /\ UNCHANGED <<futexVars, enqueued, bgVars, stopVars, stage>>

ClientEnds(p) ==
    /\ Goto(p, "idle", "ended")
    /\ p # main /\ p \notin buffered
    /\ UNCHANGED <<futexVars, queueVars, bgVars, stopVars, stage>>

-----------------------------------------------------------------------------
(* ~BgRunner and ~BgThread, in main()                                      *)

\* request_stop(), which ~BgRunner calls and stop_thread() again; then wake_up().
RequestStop ==
    /\ Goto(main, "idle", "test")
    /\ stage = "runs" /\ \A p \in Client \ {main} : pc[p] = "ended"
    /\ stage' = "stopping"
    /\ \/ m_stop_requested' = TRUE /\ UNCHANGED stop_buffered
       \/ LoadPasses /\ stop_buffered' = TRUE /\ UNCHANGED m_stop_requested
    /\ UNCHANGED <<futexVars, queueVars, bgVars>>

\* Mutant: ensure_thread_stopped() only sleeps.
SleepAgain ==
    /\ Goto(main, "idle", "idle")
    /\ stage = "stopping" /\ ~m_thread_stopped
    /\ UNCHANGED <<futexVars, queueVars, bgVars, stopVars, stage>>

\* ensure_thread_stopped(): sleep and wake_up() until the thread has stopped ...
WakeUpAgain ==
    /\ Goto(main, "idle", "test")
    /\ stage = "stopping" /\ ~m_thread_stopped
    /\ UNCHANGED <<futexVars, queueVars, bgVars, stopVars, stage>>

ThreadStopped ==
    /\ Goto(main, "idle", "idle")
    /\ stage = "stopping" /\ m_thread_stopped
    /\ stage' = "joining"
    /\ UNCHANGED <<futexVars, queueVars, bgVars, stopVars>>

\* ... and join it.
Join ==
    /\ stage = "joining" /\ pc[BgThread] = "ended"
    /\ stage' = "destroyed"
    /\ UNCHANGED <<futexVars, queueVars, bgVars, stopVars, pc>>

StopStep == WakeUpAgain \/ ThreadStopped \/ Join

-----------------------------------------------------------------------------
ClientStep(p) == EnqueueTask(p) \/ HelpOut(p) \/ ClientEnds(p)
Notifies(p) == ReadSleepCount(p) \/ NotifyAll(p)

Exit == stage = "destroyed" /\ UNCHANGED vars

Next ==
    \/ BgStep \/ FutexInterrupted
    \/ \E p \in Client : ClientStep(p) \/ Notifies(p) \/ Drain(p)
    \/ RequestStop \/ StopStep \/ Exit

Spec == Init /\ [][Next]_vars

\* The kernel runs every thread that can run, and a store buffer drains.
\* A client need not enqueue, help or end, nor main() come to its end.
FairSpec ==
    /\ Spec
    /\ WF_vars(BgStep) /\ WF_vars(StopStep)
    /\ \A p \in Client : WF_vars(Notifies(p)) /\ WF_vars(Drain(p))

-----------------------------------------------------------------------------
\* The BgThread in wait(), and in the counted part of Futex::wait.
InFutexWait == pc[BgThread] \in {"syscall", "asleep", "woken"}
InWait == InFutexWait \/ pc[BgThread] \in {"load", "exchange", "count", "check"}

BgPC == {"schedule", "check_stop", "wait", "load", "exchange", "count", "syscall", "asleep",
         "woken", "check", "check_again", "returned", "ends", "ended"}
ClientPC == {"idle", "notify", "test", "store", "readCounter", "wakeAll", "ended"}

\* Type invariant; both counters say where the thread is, whatever wakes it, so a
\* wake_up() that comes when it sleeps goes all the way to FUTEX_WAKE.
TypeOK ==
    /\ m_work_avalable \in {0, 1}
    /\ m_wait_counter = IF InFutexWait THEN 1 ELSE 0
    /\ m_sleep_count = IF InWait THEN 1 ELSE 0
    /\ buffered \in SUBSET Client
    /\ queue \in Nat /\ enqueued \in Nat
    /\ m_stop_requested \in BOOLEAN /\ stop_buffered \in BOOLEAN
    /\ m_thread_stopped \in BOOLEAN
    /\ m_thread_stopped <=> pc[BgThread] \in {"ends", "ended"}
    /\ stage \in {"runs", "stopping", "joining", "destroyed"}
    /\ pc \in [Client \cup {BgThread} -> BgPC \cup ClientPC]
    /\ pc[BgThread] \in BgPC
    /\ \A p \in Client : pc[p] \in ClientPC

\* "destructor stops OS thread, return when it's stopped" (bg_thread.hpp:48): it
\* does return, wherever the thread is when m_stop_requested is stored, and though
\* a store buffer may lose the first wake_up().
StopReturns == stage = "stopping" ~> stage = "destroyed"

\* A wake_up() that starts when the thread sleeps wakes it, whatever the store buffers
\* do: repeating it, as ensure_thread_stopped() does (bg_thread.cpp:52), makes up
\* for a lost one.
NotifyWakesSleepers ==
    \A p \in Client : (pc[BgThread] = "asleep" /\ pc[p] = "test") ~> pc[BgThread] # "asleep"

-----------------------------------------------------------------------------
(* The token that Runtime and Scheduler have for a futex                   *)

\* In wait() it has yet to find out whether it sleeps until FUTEX_WAIT has compared.
Waiter ==
    IF pc[BgThread] \in {"load", "exchange", "count", "syscall"} THEN "in"
    ELSE IF pc[BgThread] \in {"asleep", "woken"} THEN pc[BgThread] ELSE "out"

\* The threads in Futex::notify, and those that have not made the word 1 yet or found it so.
Calling == {p \in Client : pc[p] \in {"test", "store", "readCounter", "wakeAll"}}
Due == {p \in Client : pc[p] \in {"test", "store"}} \cup buffered

Token == INSTANCE WakeToken WITH
    Notifier <- Client,
    Delayed <- LoadPasses,
    work <- m_work_avalable = 1,
    waiter <- Waiter,
    calling <- Calling,
    due <- Due

\* wait() sleeps only if there is no token when it does, and loses none; notify() leaves
\* one and does not return while the thread sleeps: "current thread will not go to sleep
\* or it will wake up immediately" (futex.hpp:98).  It takes the compare of FUTEX_WAIT,
\* the count before it and the FUTEX_WAKE after it.  With LoadPasses the token may come
\* when notify() has returned and the thread has gone to sleep since, as in FutexTSO.
ImplementsToken == Token!Spec
=============================================================================
