------------------------------ MODULE Alterstack ------------------------------
(***************************************************************************)
(* The whole of alterstack at work: clients that create, destroy, join and *)
(* yield Tasks (task.cpp) and wait on Awaitables, the life of a Task in    *)
(* _run_wrapper, and the background threads (bg_thread.cpp), over the      *)
(* Scheduler and Awaitable modules.                                        *)
(***************************************************************************)
EXTENDS Awaitable, FiniteSets

-----------------------------------------------------------------------------
(* The client: each step of its program offers a set of operations.        *)

\* Do an operation of the program: go to a control point.
Call(th, c, do, on, label) ==
    /\ Goto(th, c, "user", label)
    /\ ip[c] <= Len(Program[c])
    /\ [do |-> do, on |-> on] \in Program[c][ip[c]]
    /\ ip' = [ip EXCEPT ![c] = @ + 1]

Yield(th, c) ==
    /\ Call(th, c, "yield", Null, GetNext(th, c))
    /\ back' = [back EXCEPT ![c] = "user"]
    /\ UNCHANGED <<shared, aw, jumpVars, walkVars>>

\* Task::Task makes a context and switches to it; the creator stays Running.
NewTask(th, c, t) ==
    /\ Call(th, c, "new", t, "switch_to")
    /\ life[t] = "unborn"
    /\ life' = [life EXCEPT ![t] = "alive"]
    /\ m_context' = [m_context EXCEPT ![t] = "saved"]
    /\ next_task' = [next_task EXCEPT ![c] = t]
    /\ back' = [back EXCEPT ![c] = "user"]
    /\ UNCHANGED <<m_state, m_next, awVars, queueVars, threadVars, aw, prev_task, walkVars>>

\* Task::~Task releases the joined tasks, then yields until the task has left
\* its stack.  A client destroys a Task once.
DeleteTask(th, c, t) ==
    /\ Call(th, c, "delete", t, "release")
    /\ life[t] = "alive"
    /\ life' = [life EXCEPT ![t] = "destructing"]
    /\ aw' = [aw EXCEPT ![c] = t]
    /\ back' = [back EXCEPT ![c] = "destructor"]
    /\ UNCHANGED <<taskVars, awVars, queueVars, threadVars, jumpVars, walkVars>>

DestructorYield(th, c) ==
    /\ Goto(th, c, "destructor", GetNext(th, c))
    /\ m_state[aw[c]] # "Finished" \/ m_context[aw[c]] = "null"
    /\ UNCHANGED <<shared, locals>>

\* Mutant: ~Task does not look at m_context.
DestructorReturnEarly(th, c) ==
    /\ Goto(th, c, "destructor", "user")
    /\ m_state[aw[c]] = "Finished"
    /\ life' = [life EXCEPT ![aw[c]] = "destroyed"]
    /\ UNCHANGED <<taskVars, awVars, queueVars, threadVars, locals>>

\* Mutant: ~Task does not wait for the end of the task.
DestructorReturnAtOnce(th, c) ==
    /\ Goto(th, c, "destructor", "user")
    /\ life' = [life EXCEPT ![aw[c]] = "destroyed"]
    /\ UNCHANGED <<taskVars, awVars, queueVars, threadVars, locals>>

DestructorReturn(th, c) ==
    /\ Goto(th, c, "destructor", "user")
    /\ m_state[aw[c]] = "Finished" /\ m_context[aw[c]] # "null"
    /\ life' = [life EXCEPT ![aw[c]] = "destroyed"]
    /\ UNCHANGED <<taskVars, awVars, queueVars, threadVars, locals>>

\* TaskBase::join; a client joins an object it has constructed and not destroyed.
Join(th, c, t) ==
    /\ Call(th, c, "join", t, IF m_state[t] = "Finished" THEN "user" ELSE "wait")
    /\ life[t] = "alive"
    /\ aw' = [aw EXCEPT ![c] = t]
    /\ back' = [back EXCEPT ![c] = "user"]
    /\ UNCHANGED <<shared, jumpVars, walkVars>>

Wait(th, c, a) ==
    /\ Call(th, c, "wait", a, "wait")
    /\ aw' = [aw EXCEPT ![c] = a]
    /\ back' = [back EXCEPT ![c] = "user"]
    /\ UNCHANGED <<shared, jumpVars, walkVars>>

CallRelease(th, c, a) ==
    /\ Call(th, c, "release", a, "release")
    /\ aw' = [aw EXCEPT ![c] = a]
    /\ back' = [back EXCEPT ![c] = "user"]
    /\ UNCHANGED <<shared, jumpVars, walkVars>>

\* Mutant: ~Awaitable never waits.
WaitsNever(a) == FALSE

WaitsInDestructor(a) == ~is_finished[a] /\ head[a] # Null

\* Awaitable::~Awaitable, which a client calls once, waits if tasks do.
DeleteAwaitable(th, c, a) ==
    /\ Call(th, c, "delete", a, IF WaitsInDestructor(a) THEN "wait" ELSE "destroy")
    /\ life[a] = "alive"
    /\ life' = [life EXCEPT ![a] = "destructing"]
    /\ aw' = [aw EXCEPT ![c] = a]
    /\ back' = [back EXCEPT ![c] = "destroy"]
    /\ UNCHANGED <<taskVars, awVars, queueVars, threadVars, jumpVars, walkVars>>

AwaitableDestroyed(th, c) ==
    /\ Goto(th, c, "destroy", "user")
    /\ life' = [life EXCEPT ![aw[c]] = "destroyed"]
    /\ UNCHANGED <<taskVars, awVars, queueVars, threadVars, locals>>

-----------------------------------------------------------------------------
(* The ends of a stack                                                     *)

AtEnd(c) == pc[c] = "user" /\ ip[c] > Len(Program[c])

\* The end of main() or of a thread function, and ~BoundTask: nobody can join it.
ThreadReturns(th, c) ==
    /\ c \in CommonThread /\ AtEnd(c)
    /\ Goto(th, c, "user", "done")
    /\ m_state' = [m_state EXCEPT ![c] = "Finished"]
    /\ UNCHANGED <<m_context, m_next, awVars, queueVars, threadVars, life, locals>>

\* _run_wrapper: after m_runnable() release the tasks that joined this one ...
RunnableReturns(th, c) ==
    /\ c \in Task /\ AtEnd(c)
    /\ Goto(th, c, "user", "release")
    /\ aw' = [aw EXCEPT ![c] = c]
    /\ back' = [back EXCEPT ![c] = "finish"]
    /\ UNCHANGED <<shared, ip, jumpVars, walkVars>>

\* ... mark it Finished and leave its stack for ever.
Finish(th, c) ==
    /\ Goto(th, c, "finish", GetNext(th, c))
    /\ m_state' = [m_state EXCEPT ![c] = "Finished"]
    /\ back' = [back EXCEPT ![c] = "unreachable"]
    /\ UNCHANGED <<m_context, m_next, awVars, queueVars, threadVars, life,
                   ip, aw, jumpVars, walkVars>>

\* __builtin_unreachable() after it: anything may follow.
Unreachable(th, c) ==
    /\ At(th, c, "unreachable")
    /\ fault' = "unreachable"
    /\ UNCHANGED <<taskVars, awVars, pool, batch, threadVars, life, pc, locals>>

ClientStep(th, c) ==
    \/ Yield(th, c)
    \/ \E t \in Task : NewTask(th, c, t) \/ DeleteTask(th, c, t) \/ Join(th, c, t)
    \/ \E a \in Awaitable : Wait(th, c, a) \/ CallRelease(th, c, a) \/ DeleteAwaitable(th, c, a)
    \/ DestructorYield(th, c) \/ DestructorReturn(th, c) \/ AwaitableDestroyed(th, c)
    \/ ThreadReturns(th, c) \/ RunnableReturns(th, c) \/ Finish(th, c) \/ Unreachable(th, c)

-----------------------------------------------------------------------------
(* BgThread::thread_function, on the native stack of its thread            *)

BgSchedule(th, c) ==
    /\ \E from \in {"bg_loop", "bg_woken"} : Goto(th, c, from, GetNext(th, c))
    /\ back' = [back EXCEPT ![c] = "bg_wait"]
    /\ UNCHANGED <<shared, ip, aw, jumpVars, walkVars>>

\* BgThread::wait counts the thread in m_sleep_count, then waits on its futex.
BgWait(th, c) ==
    /\ Goto(th, c, "bg_wait", "bg_futex")
    /\ UNCHANGED <<shared, locals>>

\* As NativeFutexWait.
BgFutexWait(th, c) ==
    /\ \/ ~work[th] /\ Goto(th, c, "bg_futex", "bg_asleep")
       \/ Goto(th, c, "bg_futex", "bg_woken")
    /\ work' = [work EXCEPT ![th] = FALSE]
    /\ UNCHANGED <<taskVars, awVars, queueVars, current, life, locals>>

BgStep(th, c) == BgSchedule(th, c) \/ BgWait(th, c) \/ BgFutexWait(th, c)

-----------------------------------------------------------------------------
Step(th, c) ==
    \/ ClientStep(th, c) \/ AwaitableStep(th, c)
    \/ ScheduleStep(th, c) \/ WakeStep(th, c) \/ BgStep(th, c)

\* A thread goes on with the stack it executes.
ThreadStep(th) == \E c \in TaskBase : Step(th, c)

\* The process may stop once the client's threads have returned, or at a fault.
Exit ==
    /\ fault # "none" \/ \A th \in CommonThread : pc[th] = "done"
    /\ UNCHANGED vars

Next == (\E th \in TaskRunner : ThreadStep(th)) \/ Exit

Spec == Init /\ [][Next]_vars

\* The kernel runs every thread that can run.
FairSpec == Spec /\ \A th \in TaskRunner : WF_vars(ThreadStep(th))

-----------------------------------------------------------------------------
(* Properties                                                              *)

PC == {"user", "done", "wait", "insert", "waited", "release", "destructor", "destroy",
       "finish", "unreachable",
       "from_native", "from_queue", "store_tail", "no_task",
       "check_running", "check_waiting", "native_futex", "asleep",
       "switch_to", "post_jump", "save_prev", "check_prev",
       "walk", "wake", "walk_delayed", "spin",
       "notify_walk", "notify_delayed", "notify_switch", "notify_back",
       "bg_loop", "bg_wait", "bg_futex", "bg_asleep", "bg_woken"}

\* Where a function called by a stack may return to.
Back == {"user", "waited", "destructor", "destroy", "finish", "unreachable", "bg_wait"}

\* Type invariant.  Its weight is on put_item() and jump_fcontext(): whatever the
\* switch of stacks and the walk of the lists leave in their locals, they never
\* hand over a null pointer.
TypeOK ==
    /\ m_state \in [TaskBase -> {"Running", "Waiting", "Finished"}]
    /\ m_context \in [TaskBase -> {"null", "saved", "fake"}]
    /\ m_next \in [TaskBase -> TaskBase \cup {Null}]
    /\ head \in [Waitable -> TaskBase \cup {Null}]
    /\ is_finished \in [Waitable -> BOOLEAN]
    /\ pool \in SUBSET TaskBase
    /\ batch \in [TaskRunner -> SUBSET TaskBase]
    /\ current \in [TaskRunner -> TaskBase]
    /\ work \in [TaskRunner -> BOOLEAN]
    /\ life \in [Waitable -> {"unborn", "alive", "destructing", "destroyed"}]
    /\ pc \in [TaskBase -> PC]
    /\ ip \in [TaskBase -> Nat]
    /\ back \in [TaskBase -> Back]
    /\ aw \in [TaskBase -> Waitable \cup {Null}]
    /\ next_task \in [TaskBase -> TaskBase \cup {Null}]
    /\ prev_task \in [TaskBase -> TaskBase \cup {Null}]
    /\ task_list \in [TaskBase -> TaskBase \cup {Null}]
    /\ null_context_tasks \in [TaskBase -> TaskBase \cup {Null}]
    /\ wakee \in [TaskBase -> TaskBase \cup {Null}]
    /\ fault \in {"none", "queued_twice", "bad_jump", "unreachable"}

\* The tasks of the intrusive list that starts at t.
Intrusive == INSTANCE IntrusiveList WITH Item <- TaskBase
ListFrom(t) == Intrusive!ItemsFrom(m_next, t)

\* t is in the list of an awaitable that release() has not emptied yet.
Listed(t) == \E a \in Waitable : ~is_finished[a] /\ t \in ListFrom(head[a])

\* The stacks whose release() has taken t off a list and not let it go yet.
Holders(t) ==
    {c \in TaskBase :
        \/ pc[c] \in {"wake", "spin"} /\ wakee[c] = t
        \/ /\ pc[c] \in {"walk", "wake", "walk_delayed", "spin",
                         "notify_walk", "notify_delayed"}
           /\ t \in ListFrom(task_list[c]) \cup ListFrom(null_context_tasks[c])}

\* The stacks about to jump to t, and those that came from t and will enqueue it.
Jumpers(t) == {c \in TaskBase : /\ pc[c] \in {"switch_to", "notify_switch"}
                               /\ next_task[c] = t}
Savers(t) == {c \in TaskBase : /\ pc[c] \in {"post_jump", "save_prev", "check_prev"}
                              /\ prev_task[c] = t /\ m_state[t] = "Running"}

\* Everyone who runs t or will hand it over to be run.
Owners(t) ==
    {<<"runs", th>> : th \in {th \in TaskRunner : current[th] = t}}
    \cup {<<"batch", th>> : th \in {th \in TaskRunner : t \in batch[th]}}
    \cup {<<"queue", q>> : q \in {q \in {pool} : t \in q}}
    \cup {<<"jump", c>> : c \in Jumpers(t)}
    \cup {<<"save", c>> : c \in Savers(t)}
    \cup {<<"release", c>> : c \in Holders(t)}

\* No task enters the list of an awaitable behind release(), which empties it once
\* and for all: the compare-and-swap of wait() sees the list and is_finished at once
\* (awaitable.cpp:60).
NoWaiterLeftBehind == \A a \in Waitable : is_finished[a] => head[a] = Null

\* A Task that can run is in one place: on a thread, in the queue, or in the hands
\* of one function that will put it there ("task must NOT be in any queue",
\* scheduler.cpp:265).  Two owners would run one stack on two threads.
OneOwner == \A t \in Task : Cardinality(Owners(t)) <= 1

\* No Task is forgotten: until it is Finished it has an owner, or it is in the
\* list of an awaitable whose release() will find it, whatever the order in which
\* wait(), release(), post_jump_fcontext() and get_item() interleave.
NoLostTask ==
    \A t \in Task :
        life[t] \in {"alive", "destructing"} /\ m_state[t] # "Finished"
            => Owners(t) # {} \/ Listed(t)

\* The running queue holds only unbound tasks that have left their stack: "it MUST
\* not be inserted in running queue because some other thread can try to switch
\* to it" (scheduler.cpp:213) before its m_context is saved.
QueuedIsSaved ==
    \A t \in TaskBase : InQueue(t) =>
        t \in Task /\ m_context[t] = "saved" /\ m_state[t] = "Running" /\ ~Executing(t)

\* "This line is unreachable, because current context will never scheduled"
\* (task.cpp:127): nobody switches to a task that _run_wrapper has Finished.
NeverResumed == \A t \in Task : pc[t] # "unreachable"

\* When ~Task returns and the stack is unmapped, no thread runs on that stack and
\* nobody is going to: "m_context == nullptr when some thread running this context"
\* (task.hpp:81), which ~Task waits for (task.cpp:59).
DestroyedIsLeft == \A t \in Task : life[t] = "destroyed" => Owners(t) = {}

\* Stack c is in a wait() or a release() that has still to access the word of a.
Using(c, a) == aw[c] = a /\ pc[c] \in {"wait", "insert", "release"}

\* "Destructor ~Awaitable() will call wait() if *this still active and have nonempty
\* wait queue" (awaitable.hpp:43): so no wait() or release() is at work on the word of
\* an awaitable that is gone, and none is in its list.  For a Task it is the order of
\* release() and Finished in _run_wrapper that sees to it.
DestroyedUntouched ==
    \A a \in Waitable : life[a] = "destroyed" =>
        head[a] = Null /\ \A c \in TaskBase : ~Using(c, a)

\* "Returns when Awaitable::release() will be called" (awaitable.hpp:63): wait()
\* never returns before, though schedule() may come back for other reasons.
WaitReturnsReleased == \A t \in TaskBase : pc[t] = "waited" => is_finished[aw[t]]

\* "Only bound Common current_task will get here" (scheduler.cpp:69): an unbound
\* task that cannot go on always finds something to switch to, so no stack but the
\* native one of a common thread sleeps on native_futex.
OnlyCommonSleeps ==
    \A c \in TaskBase :
        pc[c] \in {"check_waiting", "native_futex", "asleep"} => c \in CommonThread

\* Whoever waits can still be woken: a task that wait() has made Waiting, and a
\* thread asleep on its native_futex, are in the list of an awaitable that is not
\* released, or in the hands of a release() that has not come to them yet.
WaiterHasWaker ==
    \A t \in TaskBase :
        (m_state[t] = "Waiting" /\ pc[t] # "insert") \/ pc[t] = "asleep"
            => Listed(t) \/ Holders(t) # {}

\* release() waits for the context of a task (scheduler.cpp:300) only while a thread
\* is on the stack of that task, or has left it and is about to save the context:
\* "first thread still did not switch context" (scheduler.cpp:211).
Saves(th, t) ==
    \/ current[th] = t
    \/ pc[current[th]] \in {"post_jump", "save_prev"} /\ prev_task[current[th]] = t
SpinHasSaver ==
    \A c \in TaskBase :
        pc[c] = "spin" /\ m_context[wakee[c]] = "null"
            => \E th \in TaskRunner : Saves(th, wakee[c])

\* The native_futex that BoundTask::notify uses (task.cpp:87) is that of a thread that
\* has not ended: the thread may be off as soon as it is Running, before it is notified
\* (scheduler.cpp:280), but not before it has destroyed the tasks it has created.
NotifiesAlive ==
    \A c \in TaskBase : pc[c] = "wake" /\ wakee[c] \in CommonThread => pc[wakee[c]] # "done"

\* "notify BgRunner, that there is more Task s in RunningQueue.  If some BgThread is
\* sleeping, one will be woked up" (bg_runner.cpp:66): a task never stays in the
\* queue with all threads blocked while the client still waits for something.
Blocked(th) == current[th] = th /\ pc[th] \in {"asleep", "bg_asleep", "done"}
NoStall ==
    pool # {} /\ (\E th \in CommonThread : pc[th] # "done")
        => \E th \in TaskRunner : ~Blocked(th)

\* The task has left its stack, and the thread that it was on is done with it.
HasLeft(t) ==
    /\ m_context[t] = "saved" /\ ~Executing(t)
    /\ \A c \in TaskBase :
         pc[c] \in {"post_jump", "save_prev", "check_prev"} => prev_task[c] # t

\* No release() takes a task that has not left its stack, or overtakes a task in wait();
\* no native task that waits is resumed for want of another; no task is enqueued for
\* what is read from the memory of a destroyed one.
Orderly ==
    \A th \in TaskRunner, c \in TaskBase :
        /\ Release(th, c) => \A t \in ListFrom(head[aw[c]]) \cap Task : HasLeft(t)
        /\ UndoWait(th, c) => c \notin Task
        /\ FallBack(th, c) => m_state[th] = "Running"
        /\ EnqueuePrev(th, c) => m_state[prev_task[c]] = "Running"

\* Programs whose tasks "settle" before they are released (task_wait.cpp) meet none of the
\* four races, whatever the order of their steps.
AlwaysOrderly == [][Orderly]_vars

\* Where a stack is in release(), from its call to the last notify().
InRelease == {"release", "walk", "wake", "walk_delayed", "spin", "notify_walk", "notify_delayed"}

\* A destructor may begin: no call uses the object, but for the one release() that
\* ~Awaitable waits for, and the release() of a Task by its own _run_wrapper.
MayDestroy(a) ==
    \A d, e \in TaskBase :
        Using(d, a) /\ Using(e, a) =>
            \/ a \in Task /\ d = a
            \/ a \in Awaitable /\ d = e /\ pc[d] = "release" /\ WaitsInDestructor(a)

\* A release() may be called: the object lives, or its destructor waits for this call.
MayRelease(a) ==
    \/ life[a] = "alive"
    \/ /\ life[a] = "destructing" /\ WaitsInDestructor(a)
       /\ \A d \in TaskBase : Using(d, a) => pc[d] # "release"

\* What the clients owe: no call on an object that may be gone, no destructor under a
\* call, and no end of a thread under a release() that may still notify it.
Careful ==
    \A th \in TaskRunner, c \in TaskBase :
        /\ \A a \in Awaitable :
             /\ Wait(th, c, a) => life[a] = "alive"
             /\ CallRelease(th, c, a) => MayRelease(a)
             /\ DeleteAwaitable(th, c, a) => MayDestroy(a)
        /\ \A t \in Task : DeleteTask(th, c, t) => MayDestroy(t)
        /\ ThreadReturns(th, c) =>
             \A d \in TaskBase : \/ d \in Task /\ life[d] \in {"unborn", "destroyed"}
                                \/ pc[d] \notin InRelease

\* The programs keep to it by the order of their calls.
AlwaysCareful == [][Careful]_vars

\* Every step is one that the clients can rely on, or one they cannot see: a task is
\* resumed until its end and never on two threads (scheduler.cpp:213, task.cpp:127),
\* wait() lasts until release() (awaitable.hpp:63), a task that is Finished has
\* released those that joined it (task.cpp:123), and a destructor returns when the
\* object is out of use (task.cpp:57, awaitable.cpp:30).
InWait(t) ==
    /\ back[t] \in {"waited", "destroy"}
    /\ pc[t] \notin {"user", "done", "wait", "insert", "waited", "destroy"}

Promise == INSTANCE Coroutines WITH
    Thread <- TaskRunner,
    runs <- current,
    waits <- [t \in TaskBase |-> IF InWait(t) THEN aw[t] ELSE Null],
    released <- {a \in Waitable : is_finished[a]},
    finished <- {t \in Task : m_state[t] = "Finished"},
    destroyed <- {a \in Waitable : life[a] = "destroyed"}

ImplementsCoroutines == Promise!Spec

\* Every common thread comes to the end of its program: no wait(), join() or
\* ~Task in it hangs, under any schedule that runs every thread that can run.
Completed == <>(\A th \in CommonThread : pc[th] = "done")
=============================================================================
