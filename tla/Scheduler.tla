------------------------------ MODULE Scheduler ------------------------------
(***************************************************************************)
(* Scheduler (scheduler.cpp): schedule() and its switch of stacks, the     *)
(* enqueueing of released tasks, and BgRunner::notify.  One action is one  *)
(* access to memory that another thread can see, with the private work     *)
(* around it.  Here c is the stack that thread th executes.                *)
(***************************************************************************)
EXTENDS Runtime

\* Where schedule() begins on thread th: get_next_task() asks the native task
\* first when an unbound task runs on a common thread, else the running queue.
GetNext(th, c) ==
    IF c \in Task /\ th \in CommonThread THEN "from_native" ELSE "from_queue"

-----------------------------------------------------------------------------
(* get_next_task                                                           *)

get_running_from_native(th, c) ==
    /\ Goto(th, c, "from_native", "switch_to")
    /\ m_state[th] = "Running"
    /\ next_task' = [next_task EXCEPT ![c] = th]
    /\ UNCHANGED <<shared, callVars, prev_task, walkVars>>

NativeNotRunning(th, c) ==
    /\ Goto(th, c, "from_native", "from_queue")
    /\ m_state[th] # "Running"
    /\ UNCHANGED <<shared, locals>>

\* Mutant: a load in place of exchange( nullptr ).
TakeTaskLoads(th, c) ==
    /\ Goto(th, c, "from_queue", "switch_to")
    /\ \E t \in pool : next_task' = [next_task EXCEPT ![c] = t]
    /\ UNCHANGED <<shared, callVars, prev_task, walkVars>>

\* get_item() finds a single task: have_more stays false.
TakeTask(th, c) ==
    /\ Goto(th, c, "from_queue", "switch_to")
    /\ \E t \in pool : /\ pool' = pool \ {t}
                       /\ next_task' = [next_task EXCEPT ![c] = t]
    /\ UNCHANGED <<taskVars, awVars, batch, fault, threadVars, life,
                   callVars, prev_task, walkVars>>

\* get_item() takes a list out of a slot or a stack and sets have_more ...
TakeList(th, c) ==
    /\ Goto(th, c, "from_queue", "store_tail")
    /\ \E list \in SUBSET pool :
         /\ \E t, u \in list : t # u
         /\ pool' = pool \ list
         /\ batch' = [batch EXCEPT ![th] = list]
    /\ UNCHANGED <<taskVars, awVars, fault, threadVars, life, locals>>

\* Mutant: the task at the bound of store_tail()'s loop is not stored.
StoreTailDrops(th, c) ==
    /\ Goto(th, c, "store_tail", "store_tail")
    /\ \E t \in batch[th] : batch[th] # {t} /\ batch' = [batch EXCEPT ![th] = @ \ {t}]
    /\ UNCHANGED <<taskVars, awVars, pool, fault, threadVars, life, locals>>

\* ... puts its tail back, a task at a time ...
StoreTail(th, c) ==
    /\ Goto(th, c, "store_tail", "store_tail")
    /\ \E t \in batch[th] :
         /\ batch[th] # {t}
         /\ pool' = pool \cup {t}
         /\ batch' = [batch EXCEPT ![th] = @ \ {t}]
    /\ UNCHANGED <<taskVars, awVars, fault, threadVars, life, locals>>

\* ... and returns the first: get_running_from_queue() calls bg_runner_.notify().
KeepFirst(th, c) ==
    /\ Goto(th, c, "store_tail", "notify_switch")
    /\ \E t \in batch[th] :
         /\ batch[th] = {t}
         /\ next_task' = [next_task EXCEPT ![c] = t]
    /\ batch' = [batch EXCEPT ![th] = {}]
    /\ UNCHANGED <<taskVars, awVars, pool, fault, threadVars, life,
                   callVars, prev_task, walkVars>>

QueueEmpty(th, c) ==
    /\ Goto(th, c, "from_queue", "no_task")
    /\ pool = {} \/ RacyEmpty
    /\ UNCHANGED <<shared, locals>>

\* Mutant: only a Waiting task falls back on the native one.
FallsBackWaiting(c) == c \in Task /\ m_state[c] = "Waiting"

FallsBack(c) == c \in Task /\ m_state[c] # "Running"

\* Nothing to run: an unbound task that cannot go on falls back on the native one.
FallBack(th, c) ==
    /\ Goto(th, c, "no_task", "switch_to")
    /\ FallsBack(c)
    /\ next_task' = [next_task EXCEPT ![c] = th]
    /\ UNCHANGED <<shared, callVars, prev_task, walkVars>>

NoNextTask(th, c) ==
    /\ Goto(th, c, "no_task", "check_running")
    /\ ~FallsBack(c)
    /\ UNCHANGED <<shared, locals>>

-----------------------------------------------------------------------------
(* do_schedule                                                             *)

\* schedule() returns false when the caller may go on.
CheckRunning(th, c) ==
    /\ Goto(th, c, "check_running",
            IF m_state[c] = "Running" THEN back[c] ELSE "check_waiting")
    /\ UNCHANGED <<shared, locals>>

CheckWaiting(th, c) ==
    /\ Goto(th, c, "check_waiting",
            IF m_state[c] = "Waiting" THEN "native_futex" ELSE GetNext(th, c))
    /\ UNCHANGED <<shared, locals>>

\* Futex::wait: take the token and look again, or sleep until notify().  A sleep that ends
\* early (a signal, or a FUTEX_WAKE that is late) is one that has not begun.
NativeFutexWait(th, c) ==
    /\ \/ ~work[th] /\ Goto(th, c, "native_futex", "asleep")
       \/ Goto(th, c, "native_futex", GetNext(th, c))
    /\ work' = [work EXCEPT ![th] = FALSE]
    /\ UNCHANGED <<taskVars, awVars, queueVars, current, life, locals>>

-----------------------------------------------------------------------------
(* switch_to and post_jump_fcontext                                        *)

\* jump_fcontext needs a saved stack that no thread is on.
CanJump(t) == m_context[t] = "saved" /\ ~Executing(t)

switch_to(th, c) ==
    LET new == next_task[c] IN
    /\ Goto(th, c, "switch_to", "post_jump")
    /\ CanJump(new)
    /\ current' = [current EXCEPT ![th] = new]
    /\ prev_task' = [prev_task EXCEPT ![new] = c]
    /\ next_task' = [next_task EXCEPT ![c] = Null]
    /\ UNCHANGED <<taskVars, awVars, queueVars, work, life, callVars, walkVars>>

BadJump(th, c) ==
    /\ At(th, c, "switch_to")
    /\ ~CanJump(next_task[c])
    /\ fault' = "bad_jump"
    /\ UNCHANGED <<taskVars, awVars, pool, batch, threadVars, life, pc, locals>>

\* On the stack that was switched to: mark it as running ...
PostJump(th, c) ==
    /\ Goto(th, c, "post_jump", "save_prev")
    /\ m_context' = [m_context EXCEPT ![c] = "null"]
    /\ UNCHANGED <<m_state, m_next, awVars, queueVars, threadVars, life, locals>>

\* Mutant: the context of a task that waits is not saved.
SavePrevRunning(th, c) ==
    /\ Goto(th, c, "save_prev", "check_prev")
    /\ m_context' = [m_context EXCEPT ![prev_task[c]] =
                        IF m_state[prev_task[c]] = "Waiting" THEN @ ELSE "saved"]
    /\ UNCHANGED <<m_state, m_next, awVars, queueVars, threadVars, life, locals>>

\* ... publish the context of the task that was left ...
SavePrevContext(th, c) ==
    /\ Goto(th, c, "save_prev", "check_prev")
    /\ m_context' = [m_context EXCEPT ![prev_task[c]] = "saved"]
    /\ UNCHANGED <<m_state, m_next, awVars, queueVars, threadVars, life, locals>>

\* ... and read its m_state, which by now may be memory of a destroyed Task.
StateRead(t) ==
    IF StorageReused /\ t \in Task /\ life[t] = "destroyed"
    THEN {"Running", "Waiting", "Finished"} ELSE {m_state[t]}

\* Mutants: m_state is not asked; an unbound task is never enqueued.
GoesOnAlways(prev, state) == ~is_thread_bound(prev)
GoesOnNever(prev, state) == is_thread_bound(prev) /\ state = "Running"

GoesOn(prev, state) == ~is_thread_bound(prev) /\ state = "Running"

\* A task that can go on is enqueued; schedule() returns on this stack.
EnqueuePrev(th, c) ==
    LET prev == prev_task[c] IN
    /\ Goto(th, c, "check_prev", "notify_back")
    /\ \E state \in StateRead(prev) : GoesOn(prev, state)
    /\ put_item(prev)
    /\ prev_task' = [prev_task EXCEPT ![c] = Null]
    /\ UNCHANGED <<taskVars, awVars, threadVars, life, callVars, next_task, walkVars>>

LeavePrev(th, c) ==
    LET prev == prev_task[c] IN
    /\ Goto(th, c, "check_prev", back[c])
    /\ \E state \in StateRead(prev) : ~GoesOn(prev, state)
    /\ prev_task' = [prev_task EXCEPT ![c] = Null]
    /\ UNCHANGED <<shared, callVars, next_task, walkVars>>

-----------------------------------------------------------------------------
(* add_waiting_list_to_running                                             *)

\* Take the first task off the list and make it Running.
WalkList(th, c) ==
    LET t == task_list[c] IN
    /\ Goto(th, c, "walk", "wake")
    /\ t # Null
    /\ task_list' = [task_list EXCEPT ![c] = m_next[t]]
    /\ wakee' = [wakee EXCEPT ![c] = t]
    /\ m_next' = [m_next EXCEPT ![t] = Null]
    /\ m_state' = [m_state EXCEPT ![t] = "Running"]
    /\ UNCHANGED <<m_context, awVars, queueVars, threadVars, life,
                   callVars, jumpVars, null_context_tasks>>

WalkListEnd(th, c) ==
    /\ Goto(th, c, "walk", "walk_delayed")
    /\ task_list[c] = Null
    /\ UNCHANGED <<shared, locals>>

\* Mutant: notify() wakes a sleeper and leaves no token.
WakeBoundNoToken(th, c) ==
    LET t == wakee[c] IN
    /\ At(th, c, "wake") /\ is_thread_bound(t)
    /\ pc' = [x \in TaskBase |-> IF x = c THEN "walk"
                                 ELSE IF x = t /\ pc[x] = "asleep" THEN GetNext(t, x)
                                 ELSE pc[x]]
    /\ UNCHANGED <<shared, locals>>

\* BoundTask::notify: Futex::notify on the native_futex of its thread.
WakeBound(th, c) ==
    LET t == wakee[c] IN
    /\ At(th, c, "wake") /\ is_thread_bound(t)
    /\ work' = [work EXCEPT ![t] = TRUE]
    /\ pc' = [x \in TaskBase |-> IF x = c THEN "walk"
                                 ELSE IF x = t /\ pc[x] = "asleep" THEN GetNext(t, x)
                                 ELSE pc[x]]
    /\ UNCHANGED <<taskVars, awVars, queueVars, current, life, locals>>

\* Any task that has left its stack is enqueued ...
WakeUnbound(th, c) ==
    LET t == wakee[c] IN
    /\ Goto(th, c, "wake", "notify_walk")
    /\ ~is_thread_bound(t) /\ m_context[t] # "null"
    /\ put_item(t)
    /\ UNCHANGED <<taskVars, awVars, threadVars, life, locals>>

\* ... and one that has not is set aside.
DelayUnbound(th, c) ==
    LET t == wakee[c] IN
    /\ Goto(th, c, "wake", "walk")
    /\ ~is_thread_bound(t) /\ m_context[t] = "null"
    /\ m_next' = [m_next EXCEPT ![t] = null_context_tasks[c]]
    /\ null_context_tasks' = [null_context_tasks EXCEPT ![c] = t]
    /\ UNCHANGED <<m_state, m_context, awVars, queueVars, threadVars, life,
                   callVars, jumpVars, task_list, wakee>>

WalkDelayed(th, c) ==
    LET t == null_context_tasks[c] IN
    /\ Goto(th, c, "walk_delayed", "spin")
    /\ t # Null
    /\ null_context_tasks' = [null_context_tasks EXCEPT ![c] = m_next[t]]
    /\ wakee' = [wakee EXCEPT ![c] = t]
    /\ m_next' = [m_next EXCEPT ![t] = Null]
    /\ UNCHANGED <<m_state, m_context, awVars, queueVars, threadVars, life,
                   callVars, jumpVars, task_list>>

WalkDelayedEnd(th, c) ==
    /\ Goto(th, c, "walk_delayed", back[c])
    /\ null_context_tasks[c] = Null
    /\ UNCHANGED <<shared, locals>>

\* Mutant: the pointer that has moved on is enqueued.
EnqueueDelayedNext(th, c) ==
    /\ Goto(th, c, "spin", "notify_delayed")
    /\ m_context[wakee[c]] # "null"
    /\ put_item(null_context_tasks[c])
    /\ UNCHANGED <<taskVars, awVars, threadVars, life, locals>>

\* wait_while_context_is_null, then enqueue_unbound_task
EnqueueDelayed(th, c) ==
    /\ Goto(th, c, "spin", "notify_delayed")
    /\ m_context[wakee[c]] # "null"
    /\ put_item(wakee[c])
    /\ UNCHANGED <<taskVars, awVars, threadVars, life, locals>>

-----------------------------------------------------------------------------
(* BgRunner::notify                                                        *)

\* The threads between the two updates of m_sleep_count (BgThread::wait).
Sleeping == {b \in BgThread : pc[b] \in {"bg_futex", "bg_asleep", "bg_woken"}}

\* The calls of notify(), and where each goes on.  Here m_sleep_count and the wake-ups
\* are one step; the work of a BgThread is that of its m_task_avalable_futex.
Notify(c) == [notify_walk |-> "walk", notify_delayed |-> "walk_delayed",
              notify_switch |-> "switch_to", notify_back |-> back[c]]

\* m_sleep_count is zero: nobody is woken.
NotifyNobody(th, c) ==
    /\ \E call \in DOMAIN Notify(c) : Goto(th, c, call, Notify(c)[call])
    /\ Sleeping = {}
    /\ UNCHANGED <<shared, locals>>

\* BgThread::wake_up, on every background thread.
NotifyAll(th, c) ==
    /\ \E call \in DOMAIN Notify(c) : At(th, c, call)
    /\ Sleeping # {}
    /\ work' = [x \in TaskRunner |-> x \in BgThread \/ work[x]]
    /\ pc' = [x \in TaskBase |->
                IF x = c THEN Notify(c)[pc[c]]
                ELSE IF x \in BgThread /\ pc[x] = "bg_asleep" THEN "bg_woken" ELSE pc[x]]
    /\ UNCHANGED <<taskVars, awVars, queueVars, current, life, locals>>

-----------------------------------------------------------------------------
ScheduleStep(th, c) ==
    \/ get_running_from_native(th, c) \/ NativeNotRunning(th, c)
    \/ TakeTask(th, c) \/ TakeList(th, c) \/ StoreTail(th, c) \/ KeepFirst(th, c)
    \/ QueueEmpty(th, c) \/ FallBack(th, c) \/ NoNextTask(th, c)
    \/ CheckRunning(th, c) \/ CheckWaiting(th, c) \/ NativeFutexWait(th, c)
    \/ switch_to(th, c) \/ BadJump(th, c)
    \/ PostJump(th, c) \/ SavePrevContext(th, c) \/ EnqueuePrev(th, c) \/ LeavePrev(th, c)

WakeStep(th, c) ==
    \/ WalkList(th, c) \/ WalkListEnd(th, c)
    \/ WakeBound(th, c) \/ WakeUnbound(th, c) \/ DelayUnbound(th, c)
    \/ WalkDelayed(th, c) \/ WalkDelayedEnd(th, c) \/ EnqueueDelayed(th, c)
    \/ NotifyNobody(th, c) \/ NotifyAll(th, c)
=============================================================================
