-------------------------- MODULE AlterstackOwnership --------------------------
(***************************************************************************)
(* Who has a task, for every set of threads, tasks and awaitables and      *)
(* every Program, in the behaviours whose steps are Orderly: each task is  *)
(* on a thread, in the queue, in the hands of one function, or in a list.  *)
(* From this the promise of Coroutines follows.                            *)
(***************************************************************************)
EXTENDS AlterstackProofs, FiniteSetTheorems

USE RuntimeAssumption
    DEF TaskBase, TaskRunner, Waitable, At, Move, Goto, taskVars, awVars, queueVars,
        threadVars, shared, callVars, jumpVars, walkVars, locals

Lists == INSTANCE IntrusiveListProofs WITH Item <- TaskBase

OrderlySpec == Spec /\ [][Orderly]_vars

-----------------------------------------------------------------------------
(* The inductive invariant                                                 *)

\* On a stack that was just switched to; about to switch; in schedule(), or left there.
OnWay == {"post_jump", "save_prev", "check_prev"}
Switching == {"switch_to", "notify_switch"}
Scheduling == {"from_native", "from_queue", "store_tail", "notify_switch", "switch_to",
               "no_task", "check_running", "check_waiting", "native_futex", "asleep",
               "post_jump"}

\* The function that stack c is in has task t and will hand it over.
InHands(c, t) ==
    \/ pc[c] = "store_tail" /\ \E th \in TaskRunner : current[th] = c /\ t \in batch[th]
    \/ pc[c] \in Switching /\ next_task[c] = t
    \/ pc[c] = "wake" /\ wakee[c] = t
    \/ pc[c] \in OnWay /\ prev_task[c] = t

\* A task that some function is going to switch to or to enqueue.
Ready(t) == t \in pool \/ \E c \in TaskBase : pc[c] \notin OnWay /\ InHands(c, t)

\* A local holds a task only while it is used; nobody is set aside by a release().
Tidy ==
    /\ pool \subseteq Task
    /\ \A th \in TaskRunner :
         /\ batch[th] \subseteq Task
         /\ pc[current[th]] # "store_tail" => batch[th] = {}
         /\ current[th] \in TaskRunner => current[th] = th
    /\ \A c \in TaskBase :
         /\ prev_task[c] # Null => Executing(c) /\ pc[c] \in OnWay
         /\ task_list[c] # Null => pc[c] \in {"walk", "wake", "notify_walk"}
         /\ null_context_tasks[c] = Null
         /\ pc[c] \notin {"spin", "notify_delayed"}

\* A thread jumps to no native stack but its own, and only to a task that is Running.
JumpsToRunning ==
    \A th \in TaskRunner :
        /\ pc[current[th]] \in Switching /\ next_task[current[th]] \in TaskRunner
             => next_task[current[th]] = th /\ m_state[th] = "Running"
        /\ pc[current[th]] \in OnWay => m_state[current[th]] = "Running"

\* A task is in the queue, on a thread or in one pair of hands.
OneHand ==
    \A t \in Task :
        /\ \A c, d \in TaskBase : InHands(c, t) /\ InHands(d, t) => c = d
        /\ \A c \in TaskBase : InHands(c, t) => t \notin pool /\ ~Executing(t)
        /\ t \in pool => ~Executing(t)

\* It can be resumed by whoever has it.
ReadyRuns ==
    /\ \A t \in Task : Ready(t) => m_state[t] = "Running" /\ m_context[t] = "saved" /\ Born(t)
    /\ \A c \in TaskBase : pc[c] = "check_prev" /\ prev_task[c] \in Task
                             => m_context[prev_task[c]] = "saved"

\* What the state of a task says about where its stack is.
States ==
    \A t \in TaskBase :
        /\ m_state[t] = "Waiting" => pc[t] \in Scheduling \cup {"insert"}
        /\ pc[t] = "insert" => m_state[t] = "Waiting"
        /\ m_state[t] = "Finished" => pc[t] \in Scheduling \cup {"done"}
        /\ back[t] = "unreachable" => m_state[t] = "Finished"
        /\ pc[t] # "unreachable"
        /\ ~Born(t) => m_state[t] = "Running"
        /\ pc[t] = "waited" => back[t] = "waited"
        /\ back[t] = "waited" =>
             aw[t] \in Waitable /\ (m_state[t] = "Waiting" \/ is_finished[aw[t]])
        /\ pc[t] = "destroy" \/ back[t] = "destroy" => aw[t] \in Awaitable

\* The wait lists, and those that a release() has taken, are chains that have nothing
\* in common, of tasks that wait; those in a release() have left their stacks.
WaitLists ==
    /\ \A a \in Waitable : Lists!Chain(m_next, head[a])
    /\ \A c \in TaskBase : Lists!Chain(m_next, task_list[c])
    /\ \A a, b \in Waitable : \A t \in ListFrom(head[a]) \cap ListFrom(head[b]) : a = b
    /\ \A c, d \in TaskBase : \A t \in ListFrom(task_list[c]) \cap ListFrom(task_list[d]) : c = d
    /\ \A a \in Waitable, c \in TaskBase : ListFrom(head[a]) \cap ListFrom(task_list[c]) = {}

Waiters ==
    /\ \A a \in Waitable : \A t \in ListFrom(head[a]) :
         m_state[t] = "Waiting" /\ pc[t] # "insert" /\ aw[t] = a
    /\ \A c \in TaskBase : \A t \in ListFrom(task_list[c]) :
         /\ m_state[t] = "Waiting" /\ pc[t] # "insert"
         /\ aw[t] \in Waitable /\ is_finished[aw[t]]
         /\ t \in Task => HasLeft(t)

\* Who can run is run or had by somebody; who waits is in a list.
Kept ==
    \A t \in TaskBase :
        /\ t \in Task /\ Born(t) /\ m_state[t] = "Running"
             => Executing(t) \/ t \in pool \/ \E c \in TaskBase : InHands(c, t)
        /\ m_state[t] = "Waiting" /\ pc[t] # "insert"
             => \/ \E a \in Waitable : t \in ListFrom(head[a])
                \/ \E c \in TaskBase : t \in ListFrom(task_list[c])
        /\ pc[t] \in {"native_futex", "asleep"} /\ m_state[t] # "Waiting"
             => \/ pc[t] = "native_futex" /\ work[t]
                \/ \E c \in TaskBase : pc[c] = "wake" /\ wakee[c] = t

\* The context of a task is null from its first step on a stack until it is saved.
Contexts ==
    \A t \in Task :
        /\ Executing(t) /\ pc[t] # "post_jump" => m_context[t] = "null"
        /\ \A c \in TaskBase : pc[c] \in {"post_jump", "save_prev"} /\ prev_task[c] = t
                                 => m_context[t] = "null"
        /\ life[t] = "destroyed" => m_state[t] = "Finished" /\ ~Executing(t)

Owned ==
    /\ HandOver /\ NoWaiterLeftBehind
    /\ Tidy /\ JumpsToRunning /\ OneHand /\ ReadyRuns /\ States /\ WaitLists /\ Waiters
    /\ Kept /\ Contexts

-----------------------------------------------------------------------------
(* What a step leaves alone                                                *)

\* The locals of other stacks.
LEMMA OthersKeepLocals ==
  ASSUME HandOver, NEW th \in TaskRunner, NEW c \in TaskBase, Step(th, c),
         NEW d \in TaskBase \ {c}
  PROVE  /\ next_task'[d] = next_task[d] /\ wakee'[d] = wakee[d]
         /\ task_list'[d] = task_list[d] /\ null_context_tasks'[d] = null_context_tasks[d]
         /\ aw'[d] = aw[d] /\ back'[d] = back[d]
<1>0. /\ DOMAIN next_task = TaskBase /\ DOMAIN wakee = TaskBase
      /\ DOMAIN task_list = TaskBase /\ DOMAIN null_context_tasks = TaskBase
      /\ DOMAIN aw = TaskBase /\ DOMAIN back = TaskBase
  BY DEF HandOver, Inv, TypeOK
<1>1. CASE ClientStep(th, c)
  BY <1>0, <1>1 DEF ClientStep, Call, Yield, NewTask, DeleteTask, Join, Wait, CallRelease,
       DeleteAwaitable, AwaitableDestroyed, DestructorYield, DestructorReturn,
       ThreadReturns, RunnableReturns, Finish, Unreachable
<1>2. CASE AwaitableStep(th, c)
  BY <1>0, <1>2 DEF AwaitableStep, NoWait, EnterWait, UndoWait, InsertInWaitlist, WaitReturns,
       Release, ReleaseAgain
<1>3. CASE ScheduleStep(th, c)
  BY <1>0, <1>3 DEF ScheduleStep, get_running_from_native, NativeNotRunning, TakeTask, TakeList,
       StoreTail, KeepFirst, QueueEmpty, FallBack, NoNextTask, CheckRunning, CheckWaiting,
       NativeFutexWait, switch_to, BadJump, PostJump, SavePrevContext, EnqueuePrev, LeavePrev
<1>4. CASE WakeStep(th, c)
  BY <1>0, <1>4 DEF WakeStep, WalkList, WalkListEnd, WakeBound, WakeUnbound, DelayUnbound,
       WalkDelayed, WalkDelayedEnd, EnqueueDelayed, NotifyNobody, NotifyAll
<1>5. CASE BgStep(th, c)
  BY <1>0, <1>5 DEF BgStep, BgSchedule, BgWait, BgFutexWait
<1> QED BY <1>1, <1>2, <1>3, <1>4, <1>5 DEF Step

\* Their prev_task, but for the one that switch_to() gives to the stack it enters.
LEMMA OthersKeepPrev ==
  ASSUME HandOver, NEW th \in TaskRunner, NEW c \in TaskBase, Step(th, c), ~switch_to(th, c),
         NEW d \in TaskBase \ {c}
  PROVE  prev_task'[d] = prev_task[d]
<1>1. CASE PostJump(th, c) \/ SavePrevContext(th, c)
  BY <1>1 DEF PostJump, SavePrevContext
<1> QED BY <1>1, OthersKeepContext

\* What the other threads have taken out of the queue.
LEMMA OthersKeepBatch ==
  ASSUME HandOver, NEW th \in TaskRunner, NEW c \in TaskBase, Step(th, c),
         NEW h \in TaskRunner \ {th}
  PROVE  batch'[h] = batch[h]
<1> USE DEF HandOver, Inv, TypeOK
<1>1. CASE ClientStep(th, c)
  BY <1>1 DEF ClientStep, Call, Yield, NewTask, DeleteTask, Join, Wait, CallRelease,
       DeleteAwaitable, AwaitableDestroyed, DestructorYield, DestructorReturn,
       ThreadReturns, RunnableReturns, Finish, Unreachable
<1>2. CASE AwaitableStep(th, c)
  BY <1>2 DEF AwaitableStep, NoWait, EnterWait, UndoWait, InsertInWaitlist, WaitReturns,
       Release, ReleaseAgain
<1>3. CASE ScheduleStep(th, c)
  BY <1>3 DEF ScheduleStep, get_running_from_native, NativeNotRunning, TakeTask, TakeList,
       StoreTail, KeepFirst, QueueEmpty, FallBack, NoNextTask, CheckRunning, CheckWaiting,
       NativeFutexWait, switch_to, BadJump, PostJump, SavePrevContext, EnqueuePrev, LeavePrev,
       put_item
<1>4. CASE WakeStep(th, c)
  BY <1>4 DEF WakeStep, WalkList, WalkListEnd, WakeBound, WakeUnbound, DelayUnbound,
       WalkDelayed, WalkDelayedEnd, EnqueueDelayed, NotifyNobody, NotifyAll, put_item
<1>5. CASE BgStep(th, c)
  BY <1>5 DEF BgStep, BgSchedule, BgWait, BgFutexWait
<1> QED BY <1>1, <1>2, <1>3, <1>4, <1>5 DEF Step

\* The states of others, but for the task that a release() makes Running.
LEMMA OthersKeepState ==
  ASSUME HandOver, NEW th \in TaskRunner, NEW c \in TaskBase, Step(th, c), ~WalkList(th, c),
         NEW d \in TaskBase \ {c}
  PROVE  m_state'[d] = m_state[d]
<1> USE DEF HandOver, Inv, TypeOK
<1>1. CASE ClientStep(th, c)
  BY <1>1 DEF ClientStep, Call, Yield, NewTask, DeleteTask, Join, Wait, CallRelease,
       DeleteAwaitable, AwaitableDestroyed, DestructorYield, DestructorReturn,
       ThreadReturns, RunnableReturns, Finish, Unreachable
<1>2. CASE AwaitableStep(th, c)
  BY <1>2 DEF AwaitableStep, NoWait, EnterWait, UndoWait, InsertInWaitlist, WaitReturns,
       Release, ReleaseAgain
<1>3. CASE ScheduleStep(th, c)
  BY <1>3 DEF ScheduleStep, get_running_from_native, NativeNotRunning, TakeTask, TakeList,
       StoreTail, KeepFirst, QueueEmpty, FallBack, NoNextTask, CheckRunning, CheckWaiting,
       NativeFutexWait, switch_to, BadJump, PostJump, SavePrevContext, EnqueuePrev, LeavePrev
<1>4. CASE WakeStep(th, c)
  BY <1>4 DEF WakeStep, WalkListEnd, WakeBound, WakeUnbound, DelayUnbound,
       WalkDelayed, WalkDelayedEnd, EnqueueDelayed, NotifyNobody, NotifyAll
<1>5. CASE BgStep(th, c)
  BY <1>5 DEF BgStep, BgSchedule, BgWait, BgFutexWait
<1> QED BY <1>1, <1>2, <1>3, <1>4, <1>5 DEF Step

\* A stack that is not on the way of this step has what it had.
LEMMA OthersKeepHands ==
  ASSUME HandOver, NEW th \in TaskRunner, NEW c \in TaskBase, Step(th, c),
         NEW d \in TaskBase \ {c}, switch_to(th, c) => d # next_task[c]
  PROVE  \A t : InHands(d, t)' <=> InHands(d, t)
<1>1. /\ \/ pc'[d] = pc[d]
         \/ pc[d] \in {"asleep", "bg_asleep"} /\ pc'[d] \in {"from_queue", "bg_woken"}
      /\ current[th] = c
  BY OthersStay
<1>2. next_task'[d] = next_task[d] /\ wakee'[d] = wakee[d]
  BY OthersKeepLocals
<1>3. prev_task'[d] = prev_task[d]
  BY OthersKeepPrev, SwitchMoves
<1>4. \A h \in TaskRunner : current'[h] = d <=> current[h] = d
  BY <1>1, OthersKeepStack, SwitchMoves
<1>5. \A h \in TaskRunner : current[h] = d => batch'[h] = batch[h]
  BY <1>1, OthersKeepBatch
<1>6. CASE pc'[d] = pc[d]
  BY <1>2, <1>3, <1>4, <1>5, <1>6 DEF InHands
<1>7. CASE pc[d] \in {"asleep", "bg_asleep"} /\ pc'[d] \in {"from_queue", "bg_woken"}
  BY <1>7 DEF InHands, OnWay, Switching
<1> QED BY <1>1, <1>6, <1>7

-----------------------------------------------------------------------------
(* Kinds of steps                                                          *)

\* The control points at which the function of a stack has a task or a list, or where
\* it is in the midst of a wait().
Busy == OnWay \cup Switching \cup
    {"store_tail", "walk", "wake", "notify_walk", "notify_back", "spin", "notify_delayed",
     "insert"}

\* A step that moves only its own stack, between control points where it has no task.
Plain(th, c) ==
    /\ UNCHANGED <<m_state, m_context, m_next, head, is_finished, pool, batch, current,
                   next_task, prev_task, task_list, null_context_tasks, wakee>>
    /\ pc[c] \notin Busy \cup {"done", "asleep", "bg_asleep"} /\ pc'[c] \notin Busy
    /\ pc[c] \in Scheduling =>
         pc'[c] \in Scheduling \/ (m_state[c] = "Running" /\ pc'[c] = back[c])
    /\ pc[c] \in Scheduling \cup {"walk_delayed"} => aw'[c] = aw[c] /\ back'[c] = back[c]
    /\ back'[c] \in {"unreachable", "waited"} => aw'[c] = aw[c] /\ back'[c] = back[c]
    /\ pc'[c] \in {"unreachable", "waited"} => back[c] = pc'[c] /\ back'[c] = pc'[c]
    /\ pc'[c] # "done"
    /\ pc'[c] = "destroy" \/ back'[c] = "destroy" => aw'[c] \in Awaitable
    /\ pc'[c] = "native_futex" => m_state[c] = "Waiting"
    /\ pc'[c] = "asleep" => pc[c] = "native_futex" /\ ~work[th]
    /\ \A h \in TaskRunner \ {th} : work'[h] = work[h]
    /\ \A t \in Task : /\ Born(t)' <=> Born(t)
                       /\ life'[t] = "destroyed" =>
                            \/ life[t] = "destroyed"
                            \/ m_state[t] = "Finished" /\ m_context[t] # "null"

\* What is left undone by a release() that finds only tasks that have left their stacks.
LEMMA NobodyDelayed ==
  ASSUME Owned, NEW th \in TaskRunner, NEW c \in TaskBase
  PROVE  ~DelayUnbound(th, c) /\ ~WalkDelayed(th, c) /\ ~EnqueueDelayed(th, c)
<1>1. ASSUME DelayUnbound(th, c) PROVE FALSE
  <2>1. wakee[c] \in Task /\ pc[c] = "wake" /\ m_context[wakee[c]] = "null"
    BY <1>1 DEF DelayUnbound, is_thread_bound, Owned, HandOver, Inv, LocalsSet
  <2>2. Ready(wakee[c])
    BY <2>1 DEF Ready, InHands, OnWay
  <2> QED BY <2>1, <2>2 DEF Owned, ReadyRuns
<1> QED BY <1>1 DEF Owned, Tidy, WalkDelayed, EnqueueDelayed

\* A task that is not in schedule() or in wait() is Running.
LEMMA RunningOutside ==
  ASSUME Owned, NEW c \in TaskBase, pc[c] \notin Scheduling \cup {"insert", "done"}
  PROVE  m_state[c] = "Running" /\ back[c] # "unreachable"
<1>1. m_state[c] \in {"Running", "Waiting", "Finished"}
  BY DEF Owned, HandOver, Inv, TypeOK
<1> QED BY <1>1 DEF Owned, States

\* The other steps.
Special(th, c) ==
    \/ \E t \in Task : NewTask(th, c, t)
    \/ ThreadReturns(th, c) \/ Finish(th, c)
    \/ EnterWait(th, c) \/ UndoWait(th, c) \/ InsertInWaitlist(th, c) \/ Release(th, c)
    \/ get_running_from_native(th, c) \/ FallBack(th, c)
    \/ TakeTask(th, c) \/ TakeList(th, c) \/ StoreTail(th, c) \/ KeepFirst(th, c)
    \/ switch_to(th, c) \/ BadJump(th, c)
    \/ PostJump(th, c) \/ SavePrevContext(th, c) \/ EnqueuePrev(th, c) \/ LeavePrev(th, c)
    \/ WalkList(th, c) \/ WalkListEnd(th, c) \/ WakeBound(th, c) \/ WakeUnbound(th, c)
    \/ NotifyNobody(th, c) \/ NotifyAll(th, c)

\* Every step is of one of the two kinds.
LEMMA PlainOrSpecial ==
  ASSUME Owned, NEW th \in TaskRunner, NEW c \in TaskBase, Step(th, c)
  PROVE  Plain(th, c) \/ Special(th, c)
<1>0. TypeOK /\ back[c] \in Back /\ current[th] = c
  BY OthersStay DEF Owned, HandOver, Inv, TypeOK
<1> USE <1>0
<1>1. pc[c] \notin Scheduling \cup {"insert", "done"}
        => m_state[c] = "Running" /\ back[c] # "unreachable"
  BY RunningOutside
<1>2. /\ pc[c] = "native_futex" => c = th
      /\ pc[c] = "destroy" \/ back[c] = "destroy" => aw[c] \in Awaitable
      /\ Born(aw[c])
  BY DEF Owned, HandOver, Inv, TaskChecks, Tidy, BornOnly, States
<1> USE <1>1 DEF TypeOK, Plain, Born, Busy, OnWay, Switching, Scheduling, Back
<1>3. CASE Yield(th, c)
  BY <1>3, <1>2 DEF Yield, Call, GetNext, AtEnd
<1>4. ASSUME NEW t \in Task, DeleteTask(th, c, t) PROVE Plain(th, c)
  BY <1>4 DEF DeleteTask, Call, GetNext
<1>5. CASE DestructorYield(th, c)
  BY <1>5, <1>2 DEF DestructorYield, Call, GetNext, AtEnd
<1>6. CASE DestructorReturn(th, c)
  BY <1>6, <1>2 DEF DestructorReturn, Call, GetNext, AtEnd
<1>7. ASSUME NEW t \in Task, Join(th, c, t) PROVE Plain(th, c)
  BY <1>7 DEF Join, Call, GetNext
<1>8. ASSUME NEW a \in Awaitable, Wait(th, c, a) PROVE Plain(th, c)
  BY <1>8 DEF Wait, Call, GetNext
<1>9. ASSUME NEW a \in Awaitable, CallRelease(th, c, a) PROVE Plain(th, c)
  BY <1>9 DEF CallRelease, Call, GetNext
<1>10. ASSUME NEW a \in Awaitable, DeleteAwaitable(th, c, a) PROVE Plain(th, c)
  BY <1>10 DEF DeleteAwaitable, WaitsInDestructor, Call, GetNext
<1>11. CASE AwaitableDestroyed(th, c)
  BY <1>11, <1>2 DEF AwaitableDestroyed, Call, GetNext, AtEnd
<1>12. CASE RunnableReturns(th, c)
  BY <1>12, <1>2 DEF RunnableReturns, Call, GetNext, AtEnd
<1>13. CASE NoWait(th, c)
  BY <1>13, <1>2 DEF NoWait, Call, GetNext, AtEnd
<1>14. CASE WaitReturns(th, c)
  BY <1>14, <1>2 DEF WaitReturns, Call, GetNext, AtEnd
<1>15. CASE ReleaseAgain(th, c)
  BY <1>15, <1>2 DEF ReleaseAgain, Call, GetNext, AtEnd
<1>16. CASE WalkDelayedEnd(th, c)
  BY <1>16, <1>2 DEF WalkDelayedEnd, Call, GetNext, AtEnd
<1>17. CASE NativeNotRunning(th, c)
  BY <1>17, <1>2 DEF NativeNotRunning, Call, GetNext, AtEnd
<1>18. CASE QueueEmpty(th, c)
  BY <1>18, <1>2 DEF QueueEmpty, Call, GetNext, AtEnd
<1>19. CASE NoNextTask(th, c)
  BY <1>19, <1>2 DEF NoNextTask, Call, GetNext, AtEnd
<1>20. CASE CheckRunning(th, c)
  BY <1>20, <1>2 DEF CheckRunning, Call, GetNext, AtEnd
<1>21. CASE CheckWaiting(th, c)
  BY <1>21, <1>2 DEF CheckWaiting, Call, GetNext, AtEnd
<1>22. CASE NativeFutexWait(th, c)
  BY <1>22, <1>2 DEF NativeFutexWait, Call, GetNext, AtEnd
<1>23. CASE BgSchedule(th, c)
  BY <1>23, <1>2 DEF BgSchedule, Call, GetNext, AtEnd
<1>24. CASE BgWait(th, c)
  BY <1>24, <1>2 DEF BgWait, Call, GetNext, AtEnd
<1>25. CASE BgFutexWait(th, c)
  BY <1>25, <1>2 DEF BgFutexWait, Call, GetNext, AtEnd
<1> HIDE DEF Plain, TypeOK, Born
<1>26. ~Unreachable(th, c)
  BY DEF Unreachable, Owned, States
<1>27. CASE ClientStep(th, c)
  BY <1>27, <1>3, <1>4, <1>5, <1>6, <1>7, <1>8, <1>9, <1>10, <1>11, <1>12, <1>26
       DEF ClientStep, Special
<1>28. CASE AwaitableStep(th, c)
  BY <1>28, <1>13, <1>14, <1>15 DEF AwaitableStep, Special
<1>29. CASE ScheduleStep(th, c)
  BY <1>29, <1>17, <1>18, <1>19, <1>20, <1>21, <1>22 DEF ScheduleStep, Special
<1>30. CASE WakeStep(th, c)
  BY <1>30, <1>16, NobodyDelayed DEF WakeStep, Special
<1>31. CASE BgStep(th, c)
  BY <1>31, <1>23, <1>24, <1>25 DEF BgStep
<1> QED BY <1>27, <1>28, <1>29, <1>30, <1>31 DEF Step

-----------------------------------------------------------------------------
(* One pair of hands                                                       *)

\* What the stack c that thread th executes has in its hands.
Mine(th, c, t) ==
    \/ pc[c] = "store_tail" /\ t \in batch[th]
    \/ pc[c] \in Switching /\ next_task[c] = t
    \/ pc[c] = "wake" /\ wakee[c] = t
    \/ pc[c] \in OnWay /\ prev_task[c] = t

\* It is what InHands says of that stack, before and after a step that does not switch.
LEMMA MineInHands ==
  ASSUME Owned, NEW th \in TaskRunner, NEW c \in TaskBase, current[th] = c
  PROVE  \A t : /\ InHands(c, t) <=> Mine(th, c, t)
                /\ UNCHANGED current => (InHands(c, t)' <=> Mine(th, c, t)')
BY DEF InHands, Mine, Owned, HandOver, Inv, StacksApart

\* On nobody's way.
Free(t) == ~Executing(t) /\ t \notin pool /\ \A d \in TaskBase : ~InHands(d, t)

\* A task that release() has taken off a list is free until it is made Running.
LEMMA WaitersFree ==
  ASSUME Owned, NEW c \in TaskBase, NEW t \in Task, t \in ListFrom(task_list[c])
  PROVE  Free(t)
<1>1. m_state[t] = "Waiting" /\ HasLeft(t)
  BY DEF Owned, Waiters
<1>2. ~Ready(t)
  BY <1>1 DEF Owned, ReadyRuns
<1>3. ASSUME NEW d \in TaskBase, InHands(d, t) PROVE FALSE
  <2>1. pc[d] \in OnWay
    BY <1>2, <1>3 DEF Ready
  <2>2. prev_task[d] = t
    BY <1>3, <2>1 DEF InHands, OnWay, Switching
  <2> QED BY <1>1, <2>1, <2>2 DEF HasLeft, OnWay
<1> QED BY <1>1, <1>2, <1>3 DEF Free, Ready, HasLeft

\* So is one that Task::Task is about to create.
LEMMA UnbornFree ==
  ASSUME Owned, NEW t \in Task, ~Born(t)
  PROVE  Free(t)
<1>1. ~Ready(t)
  BY DEF Owned, ReadyRuns
<1>2. ~Executing(t) /\ \A d \in TaskBase : prev_task[d] # t
  BY DEF Owned, HandOver, BornOnly, Executing
<1>3. ASSUME NEW d \in TaskBase, InHands(d, t) PROVE FALSE
  <2>1. pc[d] \in OnWay
    BY <1>1, <1>3 DEF Ready
  <2> QED BY <1>2, <1>3, <2>1 DEF InHands, OnWay, Switching
<1> QED BY <1>1, <1>2, <1>3 DEF Free, Ready

\* A step that only moves tasks between the queue and its hands, or takes free ones.
LEMMA HandsMove ==
  ASSUME Owned, NEW th \in TaskRunner, NEW c \in TaskBase, Step(th, c), ~switch_to(th, c),
         \A t \in Task :
            /\ ~(t \in pool' /\ InHands(c, t)')
            /\ t \in pool' \/ InHands(c, t)' => t \in pool \/ InHands(c, t) \/ Free(t)
  PROVE  OneHand'
<1>1. UNCHANGED current
  BY OthersKeepStack DEF Owned
<1>2. \A d \in TaskBase \ {c} : \A t \in Task : InHands(d, t)' <=> InHands(d, t)
  BY OthersKeepHands DEF Owned
<1> SUFFICES ASSUME NEW t \in Task
             PROVE  /\ \A d, e \in TaskBase : InHands(d, t)' /\ InHands(e, t)' => d = e
                    /\ \A d \in TaskBase : InHands(d, t)' => t \notin pool' /\ ~Executing(t)
                    /\ t \in pool' => ~Executing(t)
  BY <1>1 DEF OneHand, Executing
<1>3. /\ \A d, e \in TaskBase : InHands(d, t) /\ InHands(e, t) => d = e
      /\ \A d \in TaskBase : InHands(d, t) => t \notin pool /\ ~Executing(t)
      /\ t \in pool => ~Executing(t)
  BY DEF Owned, OneHand
<1> HIDE DEF InHands
<1>4. t \in pool' \/ InHands(c, t)' => \A d \in TaskBase \ {c} : ~InHands(d, t)
  BY <1>3 DEF Free
<1>5. t \in pool' \/ InHands(c, t)' => ~Executing(t)
  BY <1>3 DEF Free
<1> QED BY <1>2, <1>3, <1>4, <1>5

\* How a step moves the tasks of its own hands: between these and the queue, or it takes a
\* free one and can let it run; what it drops cannot go on.
Moves(th, c, t) ==
    /\ ~(t \in pool' /\ Mine(th, c, t)')
    /\ t \in pool' \/ Mine(th, c, t)' =>
         \/ t \in pool \/ Mine(th, c, t)
         \/ ~Born(t)
         \/ t \in ListFrom(task_list[c])
    /\ t \in pool \/ Mine(th, c, t) =>
         t \in pool' \/ Mine(th, c, t)' \/ m_state[t] # "Running"
    /\ t \in pool' \/ (pc'[c] \notin OnWay /\ Mine(th, c, t)') =>
         \/ t \in pool
         \/ pc[c] \notin OnWay /\ Mine(th, c, t)
         \/ m_state'[t] = "Running" /\ m_context'[t] = "saved" /\ Born(t)'

\* So does every step but the switch.
LEMMA StepMovesTasks ==
  ASSUME Owned, NEW th \in TaskRunner, NEW c \in TaskBase, Step(th, c), ~switch_to(th, c),
         Orderly, NEW t \in Task
  PROVE  Moves(th, c, t)
<1>0. TypeOK /\ back[c] \in Back /\ current[th] = c
  BY OthersStay DEF Owned, HandOver, Inv, TypeOK
<1>1. Mine(th, c, t) => t \notin pool /\ t # c
  BY <1>0, MineInHands DEF Owned, OneHand, Executing
<1>2. Born(c) /\ Born(prev_task[c]) /\ Born(task_list[c])
  BY <1>0 DEF Owned, HandOver, BornOnly
<1> USE <1>0, <1>1 DEF Moves, Mine, TypeOK, Busy, OnWay, Switching, Back
<1>3. CASE Plain(th, c)
  BY <1>3 DEF Plain
<1>4. ASSUME NEW u \in Task, NewTask(th, c, u) PROVE Moves(th, c, t)
  <2>1. pc[c] = "user" /\ pc'[c] = "switch_to" /\ next_task'[c] = u /\ UNCHANGED pool
    BY <1>4 DEF NewTask, Call
  <2>2. m_state'[u] = "Running" /\ m_context'[u] = "saved" /\ Born(u)' /\ ~Born(u)
    BY <1>4 DEF NewTask, Born, Owned, States
  <2>3. u \notin pool
    BY <2>2, UnbornFree DEF Free
  <2> QED BY <2>1, <2>2, <2>3
<1>5. CASE ThreadReturns(th, c)
  BY <1>5 DEF ThreadReturns
<1>6. CASE Finish(th, c)
  BY <1>6 DEF Finish, GetNext
<1>7. CASE EnterWait(th, c)
  BY <1>7 DEF EnterWait
<1>8. CASE UndoWait(th, c)
  BY <1>8 DEF UndoWait
<1>9. CASE InsertInWaitlist(th, c)
  BY <1>9 DEF InsertInWaitlist, GetNext
<1>10. CASE Release(th, c)
  BY <1>10 DEF Release
<1>11. CASE get_running_from_native(th, c)
  BY <1>11 DEF get_running_from_native
<1>12. CASE FallBack(th, c)
  BY <1>12 DEF FallBack
<1>13. CASE TakeTask(th, c)
  BY <1>13 DEF TakeTask
<1>14. CASE TakeList(th, c)
  BY <1>14 DEF TakeList
<1>15. CASE StoreTail(th, c)
  BY <1>15 DEF StoreTail
<1>16. CASE KeepFirst(th, c)
  BY <1>16 DEF KeepFirst
<1>17. CASE BadJump(th, c)
  BY <1>17 DEF BadJump
<1>18. CASE PostJump(th, c)
  BY <1>18 DEF PostJump
<1>19. CASE SavePrevContext(th, c)
  BY <1>19 DEF SavePrevContext
<1>20. CASE EnqueuePrev(th, c)
  <2>1. pc[c] = "check_prev" /\ pc'[c] = "notify_back" /\ pool' = pool \cup {prev_task[c]}
    BY <1>20 DEF EnqueuePrev, put_item
  <2>2. m_state[prev_task[c]] = "Running"
    BY <1>20 DEF Orderly
  <2>3. prev_task[c] = t => m_context[t] = "saved"
    BY <2>1 DEF Owned, ReadyRuns
  <2>4. UNCHANGED <<m_state, m_context, life>>
    BY <1>20 DEF EnqueuePrev
  <2> QED BY <1>2, <2>1, <2>2, <2>3, <2>4 DEF Born
<1>21. CASE LeavePrev(th, c)
  <2>1. pc[c] = "check_prev" /\ pc'[c] = back[c] /\ UNCHANGED pool
    BY <1>21 DEF LeavePrev
  <2>2. prev_task[c] = t => m_state[t] # "Running"
    BY <1>21 DEF LeavePrev, StateRead, GoesOn, is_thread_bound, Owned, Contexts
  <2> QED BY <2>1, <2>2
<1>22. CASE WalkList(th, c)
  <2>1. /\ pc[c] = "walk" /\ pc'[c] = "wake"
        /\ wakee'[c] = task_list[c] /\ task_list[c] \in TaskBase
        /\ UNCHANGED <<pool, m_context, life>> /\ m_state'[task_list[c]] = "Running"
    BY <1>22 DEF WalkList
  <2>2. task_list[c] \in ListFrom(task_list[c])
    BY <2>1, Lists!FirstInItems DEF ListFrom, Intrusive!ItemsFrom, Lists!ItemsFrom
  <2>3. task_list[c] = t => m_context[t] = "saved"
    BY <2>2 DEF Owned, Waiters, HasLeft
  <2>4. task_list[c] = t => t \notin pool
    BY <2>2, WaitersFree DEF Free
  <2> QED BY <1>2, <2>1, <2>2, <2>3, <2>4 DEF Born
<1>23. CASE WalkListEnd(th, c)
  BY <1>23 DEF WalkListEnd
<1>24. CASE WakeBound(th, c)
  BY <1>24 DEF WakeBound, is_thread_bound
<1>25. CASE WakeUnbound(th, c)
  BY <1>25 DEF WakeUnbound, put_item
<1>26. CASE NotifyNobody(th, c) \/ NotifyAll(th, c)
  <2>1. PICK call \in DOMAIN Notify(c) : pc[c] = call /\ pc'[c] = Notify(c)[call]
    BY <1>26 DEF NotifyNobody, NotifyAll
  <2>2. UNCHANGED <<pool, batch, next_task, prev_task, wakee>>
    BY <1>26 DEF NotifyNobody, NotifyAll
  <2>3. \/ pc[c] = "notify_switch" /\ pc'[c] = "switch_to"
        \/ pc[c] \in NotifyCalls \ {"notify_switch"} /\ pc'[c] \in {"walk", "walk_delayed"} \cup Back
    BY <2>1, NotifyReturns DEF NotifyCalls
  <2> QED BY <2>2, <2>3 DEF NotifyCalls
<1> HIDE DEF Moves
<1> QED BY <1>3, <1>4, <1>5, <1>6, <1>7, <1>8, <1>9, <1>10, <1>11, <1>12, <1>13, <1>14,
             <1>15, <1>16, <1>17, <1>18, <1>19, <1>20, <1>21, <1>22, <1>23, <1>24, <1>25,
             <1>26, PlainOrSpecial DEF Special

\* The steps keep every task in one pair of hands.
LEMMA StepKeepsOneHand ==
  ASSUME Owned, NEW th \in TaskRunner, NEW c \in TaskBase, Step(th, c), ~switch_to(th, c),
         Orderly
  PROVE  OneHand'
<1>1. current[th] = c /\ UNCHANGED current
  BY OthersStay, OthersKeepStack DEF Owned
<1>2. \A t \in Task : /\ InHands(c, t) <=> Mine(th, c, t)
                      /\ InHands(c, t)' <=> Mine(th, c, t)'
  BY <1>1, MineInHands
<1>3. \A t \in Task : Moves(th, c, t)
  BY StepMovesTasks
<1>4. \A t \in Task : t \in ListFrom(task_list[c]) \/ ~Born(t) => Free(t)
  BY WaitersFree, UnbornFree
<1> HIDE DEF InHands
<1> QED BY <1>2, <1>3, <1>4, HandsMove DEF Moves

\* Where the stacks are when jump_fcontext has switched thread th from c to new.
Switched(th, c, new) ==
    /\ new \in TaskBase \ {c} /\ ~Executing(new) /\ Executing(c) /\ current[th] = c
    /\ pc[c] = "switch_to" /\ pc[new] = "post_jump" /\ InHands(c, new)
    /\ \A x \in TaskBase : pc'[x] = IF x = c THEN "post_jump" ELSE pc[x]
    /\ current'[th] = new /\ \A h \in TaskRunner \ {th} : current'[h] = current[h]
    /\ \A x \in TaskBase : prev_task'[x] = IF x = new THEN c ELSE prev_task[x]
    /\ \A x \in TaskBase : next_task'[x] = IF x = c THEN Null ELSE next_task[x]
    /\ \A t : Executing(t)' <=> (Executing(t) /\ t # c) \/ t = new
    /\ \A t : InHands(new, t)' <=> t = c
    /\ \A t \in TaskBase : ~InHands(c, t)'
    /\ \A d \in TaskBase \ {c, new} : \A t : InHands(d, t)' <=> InHands(d, t)
    /\ UNCHANGED <<pool, batch, m_state, m_context, m_next, head, is_finished, work, life,
                   back, aw, task_list, null_context_tasks, wakee>>

\* It has switched them so.
LEMMA AfterSwitch ==
  ASSUME Owned, NEW th \in TaskRunner, NEW c \in TaskBase, Step(th, c), switch_to(th, c),
         NEW new, new = next_task[c]
  PROVE  Switched(th, c, new)
<1>1. TypeOK /\ new \in TaskBase
  BY DEF Owned, HandOver, Inv, LocalsSet, switch_to
<1>2. /\ current[th] = c /\ pc[c] = "switch_to" /\ Executing(c)
      /\ ~Executing(new) /\ new # c
  BY DEF switch_to, CanJump, Executing
<1>3. pc[new] = "post_jump"
  BY <1>1, <1>2 DEF Owned, HandOver, LeftAtJump
<1>4. /\ \A x \in TaskBase : pc'[x] = IF x = c THEN "post_jump" ELSE pc[x]
      /\ current'[th] = new /\ \A h \in TaskRunner \ {th} : current'[h] = current[h]
      /\ \A x \in TaskBase : prev_task'[x] = IF x = new THEN c ELSE prev_task[x]
      /\ \A x \in TaskBase : next_task'[x] = IF x = c THEN Null ELSE next_task[x]
      /\ UNCHANGED <<pool, batch, m_state, m_context, m_next, head, is_finished, work, life,
                     back, aw, task_list, null_context_tasks, wakee>>
  BY <1>1 DEF TypeOK, switch_to
<1>5. \A h \in TaskRunner : current[h] = c => h = th
  BY <1>2 DEF Owned, HandOver, Inv, StacksApart
<1>6. \A t : Executing(t)' <=> (Executing(t) /\ t # c) \/ t = new
  BY <1>2, <1>4, <1>5 DEF Executing
<1>7. \A t : InHands(new, t)' <=> t = c
  BY <1>1, <1>2, <1>3, <1>4 DEF InHands, OnWay, Switching
<1>8. \A t \in TaskBase : ~InHands(c, t)'
  BY <1>1, <1>2, <1>4 DEF InHands, OnWay, Switching, Owned, Tidy
<1>9. \A d \in TaskBase \ {c, new} : \A t : InHands(d, t)' <=> InHands(d, t)
  BY <1>2, OthersKeepHands DEF Owned
<1>10. InHands(c, new)
  BY <1>2 DEF InHands, Switching
<1> QED BY <1>1, <1>2, <1>3, <1>4, <1>6, <1>7, <1>8, <1>9, <1>10 DEF Switched

\* The task that is left is in the hands of the one that is switched to.
LEMMA SwitchKeepsOneHand ==
  ASSUME Owned, NEW th \in TaskRunner, NEW c \in TaskBase, Step(th, c), switch_to(th, c)
  PROVE  OneHand'
<1> PICK new : new = next_task[c]
  OBVIOUS
<1>1. /\ new \in TaskBase \ {c} /\ Executing(c) /\ InHands(c, new)
      /\ \A t : Executing(t)' <=> (Executing(t) /\ t # c) \/ t = new
      /\ \A t : InHands(new, t)' <=> t = c
      /\ \A t \in TaskBase : ~InHands(c, t)'
      /\ \A d \in TaskBase \ {c, new} : \A t : InHands(d, t)' <=> InHands(d, t)
      /\ UNCHANGED pool
  <2>1. Switched(th, c, new)
    BY AfterSwitch
  <2> QED BY <2>1 DEF Switched
<1> SUFFICES ASSUME NEW t \in Task
             PROVE  /\ \A d, e \in TaskBase : InHands(d, t)' /\ InHands(e, t)' => d = e
                    /\ \A d \in TaskBase : InHands(d, t)' => t \notin pool' /\ ~Executing(t)'
                    /\ t \in pool' => ~Executing(t)'
  BY DEF OneHand
<1>2. /\ \A d, e \in TaskBase : InHands(d, t) /\ InHands(e, t) => d = e
      /\ \A d \in TaskBase : InHands(d, t) => t \notin pool /\ ~Executing(t)
      /\ t \in pool => ~Executing(t)
  BY DEF Owned, OneHand
<1> HIDE DEF InHands, Executing
<1>0. ASSUME NEW d \in TaskBase, InHands(d, t)'
      PROVE  (d = new /\ t = c) \/ (d # c /\ d # new /\ InHands(d, t))
  <2>1. d # c
    BY <1>0, <1>1
  <2>2. CASE d = new
    BY <1>0, <1>1, <2>2
  <2>3. CASE d # new
    <3>1. d \in TaskBase \ {c, new}
      BY <2>1, <2>3
    <3> QED BY <1>0, <1>1, <2>1, <2>3, <3>1
  <2> QED BY <2>2, <2>3
<1>3. CASE t = c
  <2>1. \A d \in TaskBase : InHands(d, t)' => d = new
    BY <1>0, <1>1, <1>2, <1>3
  <2> QED BY <1>1, <1>2, <1>3, <2>1
<1>4. CASE t = new
  <2>1. \A d \in TaskBase : ~InHands(d, t)'
    BY <1>0, <1>1, <1>2, <1>4
  <2> QED BY <1>1, <1>2, <1>4, <2>1
<1>5. CASE t # c /\ t # new
  <2>1. \A d \in TaskBase : InHands(d, t)' => InHands(d, t)
    BY <1>0, <1>5
  <2> QED BY <1>1, <1>2, <1>5, <2>1
<1> QED BY <1>3, <1>4, <1>5

\* Which step leads where.
Arrives(th, c) ==
    /\ pc'[c] = "post_jump" => switch_to(th, c)
    /\ pc'[c] = "save_prev" => PostJump(th, c)
    /\ pc'[c] = "check_prev" => SavePrevContext(th, c)
    /\ pc'[c] = "store_tail" => TakeList(th, c) \/ StoreTail(th, c)
    /\ pc'[c] = "wake" => WalkList(th, c)
    /\ pc'[c] = "insert" => EnterWait(th, c)
    /\ pc'[c] = "done" => ThreadReturns(th, c)
    /\ pc'[c] \in {"native_futex", "asleep"} => Plain(th, c)
    /\ pc'[c] \notin {"spin", "notify_delayed"}

\* Every step does so.
LEMMA StepArrives ==
  ASSUME Owned, NEW th \in TaskRunner, NEW c \in TaskBase, Step(th, c)
  PROVE  Arrives(th, c)
<1>0. TypeOK /\ back[c] \in Back
  BY DEF Owned, HandOver, Inv, TypeOK
<1> USE <1>0 DEF Arrives, TypeOK, Back
<1>1. CASE Plain(th, c)
  BY <1>1 DEF Plain, Busy, OnWay
<1>2. ASSUME NEW t \in Task, NewTask(th, c, t) PROVE Arrives(th, c)
  BY <1>2 DEF NewTask, Call
<1>3. CASE ThreadReturns(th, c)
  BY <1>3 DEF ThreadReturns
<1>4. CASE Finish(th, c)
  BY <1>4 DEF Finish, GetNext
<1>5. CASE EnterWait(th, c)
  BY <1>5 DEF EnterWait
<1>6. CASE UndoWait(th, c)
  BY <1>6 DEF UndoWait
<1>7. CASE InsertInWaitlist(th, c)
  BY <1>7 DEF InsertInWaitlist, GetNext
<1>8. CASE Release(th, c)
  BY <1>8 DEF Release
<1>9. CASE get_running_from_native(th, c)
  BY <1>9 DEF get_running_from_native
<1>10. CASE FallBack(th, c)
  BY <1>10 DEF FallBack
<1>11. CASE TakeTask(th, c)
  BY <1>11 DEF TakeTask
<1>12. CASE TakeList(th, c)
  BY <1>12 DEF TakeList
<1>13. CASE StoreTail(th, c)
  BY <1>13 DEF StoreTail
<1>14. CASE KeepFirst(th, c)
  BY <1>14 DEF KeepFirst
<1>15. CASE BadJump(th, c)
  BY <1>15 DEF BadJump
<1>16. CASE switch_to(th, c)
  BY <1>16 DEF switch_to
<1>17. CASE PostJump(th, c)
  BY <1>17 DEF PostJump
<1>18. CASE SavePrevContext(th, c)
  BY <1>18 DEF SavePrevContext
<1>19. CASE EnqueuePrev(th, c)
  BY <1>19 DEF EnqueuePrev
<1>20. CASE LeavePrev(th, c)
  BY <1>20 DEF LeavePrev
<1>21. CASE WalkList(th, c)
  BY <1>21 DEF WalkList
<1>22. CASE WalkListEnd(th, c)
  BY <1>22 DEF WalkListEnd
<1>23. CASE WakeBound(th, c)
  BY <1>23 DEF WakeBound
<1>24. CASE WakeUnbound(th, c)
  BY <1>24 DEF WakeUnbound
<1>25. CASE NotifyNobody(th, c) \/ NotifyAll(th, c)
  <2>1. PICK call \in DOMAIN Notify(c) : pc[c] = call /\ pc'[c] = Notify(c)[call]
    BY <1>25 DEF NotifyNobody, NotifyAll
  <2>2. pc'[c] \in {"walk", "walk_delayed", "switch_to"} \cup Back
    BY <2>1, NotifyReturns DEF NotifyCalls
  <2> QED BY <2>2
<1> HIDE DEF Arrives
<1> QED BY <1>1, <1>2, <1>3, <1>4, <1>5, <1>6, <1>7, <1>8, <1>9, <1>10, <1>11, <1>12, <1>13,
             <1>14, <1>15, <1>16, <1>17, <1>18, <1>19, <1>20, <1>21, <1>22, <1>23, <1>24,
             <1>25, PlainOrSpecial DEF Special

\* The context of a task that is on no stack stays saved.
LEMMA SavedStays ==
  ASSUME Owned, NEW th \in TaskRunner, NEW c \in TaskBase, Step(th, c),
         NEW t \in TaskBase \ {c}, m_context[t] = "saved"
  PROVE  m_context'[t] = "saved"
<1>1. HandOver /\ TypeOK
  BY DEF Owned, HandOver, Inv
<1>2. CASE switch_to(th, c)
  BY <1>2 DEF switch_to
<1>3. CASE PostJump(th, c) \/ SavePrevContext(th, c)
  BY <1>1, <1>3 DEF PostJump, SavePrevContext, TypeOK
<1>4. ASSUME NEW u \in Task, NewTask(th, c, u) PROVE m_context'[t] = "saved"
  BY <1>1, <1>4 DEF NewTask, TypeOK
<1> QED BY <1>1, <1>2, <1>3, <1>4, OthersKeepContext

\* What can be resumed by whoever has it can still be.
LEMMA ReadyStays ==
  ASSUME Owned, NEW th \in TaskRunner, NEW c \in TaskBase, Step(th, c),
         NEW t \in Task, Ready(t)
  PROVE  m_state'[t] = "Running" /\ m_context'[t] = "saved" /\ Born(t)'
<1>1. HandOver /\ TypeOK
  BY DEF Owned, HandOver, Inv
<1>2. m_state[t] = "Running" /\ m_context[t] = "saved" /\ Born(t)
  BY DEF Owned, ReadyRuns
<1>3. t # c
  BY <1>1, OthersStay DEF Ready, Owned, OneHand, Executing
<1>4. m_state'[t] = "Running"
  <2>1. CASE WalkList(th, c)
    BY <1>1, <1>2, <2>1 DEF WalkList, TypeOK
  <2> QED BY <1>1, <1>2, <1>3, <2>1, OthersKeepState
<1>5. Born(t)'
  <2>1. ASSUME NEW u \in Task, NewTask(th, c, u) PROVE Born(t)'
    BY <1>1, <1>2, <2>1 DEF NewTask, Born, TypeOK
  <2> QED BY <1>1, <1>2, <2>1, BornByNewTask
<1> QED BY <1>2, <1>3, <1>4, <1>5, SavedStays

\* The tasks that are ready after a step are those that were, or what its stack lets run.
LEMMA StepKeepsReady ==
  ASSUME Owned, NEW th \in TaskRunner, NEW c \in TaskBase, Step(th, c), Orderly
  PROVE  ReadyRuns'
<1>1. HandOver /\ TypeOK /\ current[th] = c
  BY OthersStay DEF Owned, HandOver, Inv
<1>2. ASSUME NEW t \in Task, Ready(t)'
      PROVE  m_state'[t] = "Running" /\ m_context'[t] = "saved" /\ Born(t)'
  <2>1. ASSUME NEW d \in TaskBase \ {c}, pc'[d] \notin OnWay, InHands(d, t)',
               switch_to(th, c) => d # next_task[c]
        PROVE  Ready(t)
    <3>1. InHands(d, t)
      BY <1>1, <2>1, OthersKeepHands
    <3>2. pc[d] \notin OnWay
      BY <1>1, <2>1, OthersStay DEF OnWay
    <3> QED BY <3>1, <3>2 DEF Ready
  <2>2. CASE switch_to(th, c)
    <3> PICK new : new = next_task[c]
      OBVIOUS
    <3>1. Switched(th, c, new)
      BY <2>2, AfterSwitch
    <3>2. ASSUME NEW d \in TaskBase, pc'[d] \notin OnWay, InHands(d, t)' PROVE Ready(t)
      <4>1. d # c /\ d # new
        BY <3>1, <3>2 DEF Switched, OnWay
      <4> QED BY <2>1, <3>2, <4>1
    <3>3. Ready(t)
      <4>1. t \in pool' => t \in pool
        BY <3>1 DEF Switched
      <4> QED BY <1>2, <3>2, <4>1 DEF Ready
    <3> QED BY <3>3, ReadyStays
  <2>3. CASE ~switch_to(th, c)
    <3>1. Moves(th, c, t)
      BY <2>3, StepMovesTasks
    <3>2. /\ InHands(c, t) <=> Mine(th, c, t)
          /\ InHands(c, t)' <=> Mine(th, c, t)'
      BY <1>1, <2>3, MineInHands, OthersKeepStack
    <3>3. Ready(t) \/ (m_state'[t] = "Running" /\ m_context'[t] = "saved" /\ Born(t)')
      <4>1. CASE t \in pool' \/ (pc'[c] \notin OnWay /\ Mine(th, c, t)')
        BY <3>1, <3>2, <4>1 DEF Moves, Ready
      <4>2. ASSUME NEW d \in TaskBase \ {c}, pc'[d] \notin OnWay, InHands(d, t)'
            PROVE  Ready(t)
        BY <2>1, <2>3, <4>2
      <4> QED BY <1>2, <3>2, <4>1, <4>2 DEF Ready
    <3> QED BY <3>3, ReadyStays
  <2> QED BY <2>2, <2>3
<1>3. ASSUME NEW d \in TaskBase, pc'[d] = "check_prev", prev_task'[d] \in Task
      PROVE  m_context'[prev_task'[d]] = "saved"
  <2>1. CASE d = c
    <3>1. SavePrevContext(th, c)
      BY <1>3, <2>1, StepArrives DEF Arrives
    <3> QED BY <1>1, <2>1, <1>3, <3>1 DEF SavePrevContext, TypeOK
  <2>2. CASE d # c
    <3>1. pc[d] = "check_prev"
      BY <1>1, <1>3, <2>2, OthersStay
    <3>2. prev_task'[d] = prev_task[d]
      <4>1. CASE switch_to(th, c)
        <5> PICK new : new = next_task[c]
          OBVIOUS
        <5>1. Switched(th, c, new)
          BY <4>1, AfterSwitch
        <5> QED BY <3>1, <5>1 DEF Switched
      <4> QED BY <1>1, <2>2, <4>1, OthersKeepPrev
    <3>3. m_context[prev_task[d]] = "saved"
      BY <1>3, <3>1, <3>2 DEF Owned, ReadyRuns
    <3>4. InHands(d, prev_task[d])
      BY <3>1 DEF InHands, OnWay
    <3>5. prev_task[d] # c
      BY <1>1, <1>3, <3>2, <3>4 DEF Owned, OneHand, Executing
    <3> QED BY <1>3, <3>2, <3>3, <3>5, SavedStays
  <2> QED BY <2>1, <2>2
<1> QED BY <1>2, <1>3 DEF ReadyRuns

-----------------------------------------------------------------------------
(* The locals                                                              *)

\* What BgRunner::notify() leaves alone, and where it returns to.
NotifyMoves(th, c) ==
    /\ UNCHANGED <<m_state, m_context, m_next, head, is_finished, pool, batch, current, life,
                   back, aw, next_task, prev_task, task_list, null_context_tasks, wakee>>
    /\ \/ pc[c] = "notify_walk" /\ pc'[c] = "walk"
       \/ pc[c] = "notify_switch" /\ pc'[c] = "switch_to"
       \/ pc[c] = "notify_back" /\ pc'[c] = back[c]
    /\ \A h \in TaskRunner : work'[h] = (h \in BgThread \/ work[h]) \/ work'[h] = work[h]

\* It returns so from each of its calls.
LEMMA NotifyStep ==
  ASSUME Owned, NEW th \in TaskRunner, NEW c \in TaskBase,
         NotifyNobody(th, c) \/ NotifyAll(th, c)
  PROVE  NotifyMoves(th, c)
<1>1. pc \in [TaskBase -> PC] /\ pc[c] # "notify_delayed"
  BY DEF Owned, HandOver, Inv, TypeOK, Tidy
<1>2. PICK call \in {"notify_walk", "notify_delayed", "notify_switch", "notify_back"} :
         pc[c] = call /\ pc'[c] = Notify(c)[call]
  <2>1. DOMAIN Notify(c) = {"notify_walk", "notify_delayed", "notify_switch", "notify_back"}
    BY DEF Notify
  <2>2. PICK call \in DOMAIN Notify(c) : pc[c] = call /\ pc'[c] = Notify(c)[call]
    BY <1>1 DEF NotifyNobody, NotifyAll
  <2> QED BY <2>1, <2>2
<1>3. \/ pc[c] = "notify_walk" /\ pc'[c] = "walk"
      \/ pc[c] = "notify_switch" /\ pc'[c] = "switch_to"
      \/ pc[c] = "notify_back" /\ pc'[c] = back[c]
  BY <1>1, <1>2 DEF Notify
<1> QED BY <1>3 DEF NotifyMoves, NotifyNobody, NotifyAll

\* What Tidy says of the thread that makes a step.
TidyAt(th, c) ==
    /\ pool \subseteq Task /\ batch[th] \subseteq Task
    /\ pc[c] # "store_tail" => batch[th] = {}
    /\ prev_task[c] # Null => pc[c] \in OnWay
    /\ task_list[c] # Null => pc[c] \in {"walk", "wake", "notify_walk"}
    /\ null_context_tasks[c] = Null

\* It holds again after the step.
LEMMA StepTidies ==
  ASSUME Owned, NEW th \in TaskRunner, NEW c \in TaskBase, Step(th, c)
  PROVE  TidyAt(th, c)'
<1>1. TypeOK /\ current[th] = c
  BY OthersStay DEF Owned, HandOver, Inv, TypeOK
<1>2. TidyAt(th, c)
  BY <1>1 DEF Owned, Tidy, TidyAt
<1>3. pc[c] \in OnWay => prev_task[c] \in TaskBase
  BY <1>1 DEF Owned, HandOver, Inv, StacksApart, OnWay
<1>4. pc[c] = "wake" => wakee[c] \in TaskBase
  BY DEF Owned, HandOver, Inv, LocalsSet
<1> USE <1>1, <1>2, <1>3, <1>4 DEF TidyAt, TypeOK, OnWay
<1>5. CASE Plain(th, c)
  BY <1>5 DEF Plain, Busy
<1>6. ASSUME NEW t \in Task, NewTask(th, c, t) PROVE TidyAt(th, c)'
  BY <1>6 DEF NewTask, Call
<1>7. CASE ThreadReturns(th, c)
  BY <1>7 DEF ThreadReturns
<1>8. CASE Finish(th, c)
  BY <1>8 DEF Finish, GetNext
<1>9. CASE EnterWait(th, c)
  BY <1>9 DEF EnterWait
<1>10. CASE UndoWait(th, c)
  BY <1>10 DEF UndoWait
<1>11. CASE InsertInWaitlist(th, c)
  BY <1>11 DEF InsertInWaitlist, GetNext
<1>12. CASE Release(th, c)
  BY <1>12 DEF Release
<1>13. CASE get_running_from_native(th, c)
  BY <1>13 DEF get_running_from_native
<1>14. CASE FallBack(th, c)
  BY <1>14 DEF FallBack
<1>15. CASE TakeTask(th, c)
  BY <1>15 DEF TakeTask
<1>16. CASE TakeList(th, c)
  BY <1>16 DEF TakeList
<1>17. CASE StoreTail(th, c)
  BY <1>17 DEF StoreTail
<1>18. CASE KeepFirst(th, c)
  BY <1>18 DEF KeepFirst
<1>19. CASE BadJump(th, c)
  BY <1>19 DEF BadJump
<1>20. CASE switch_to(th, c)
  BY <1>20 DEF switch_to
<1>21. CASE PostJump(th, c)
  BY <1>21 DEF PostJump
<1>22. CASE SavePrevContext(th, c)
  BY <1>22 DEF SavePrevContext
<1>23. CASE EnqueuePrev(th, c)
  <2>1. prev_task[c] \in Task
    BY <1>23 DEF EnqueuePrev, GoesOn, is_thread_bound
  <2> QED BY <1>23, <2>1 DEF EnqueuePrev, put_item
<1>24. CASE LeavePrev(th, c)
  BY <1>24 DEF LeavePrev
<1>25. CASE WalkList(th, c)
  BY <1>25 DEF WalkList
<1>26. CASE WalkListEnd(th, c)
  BY <1>26 DEF WalkListEnd
<1>27. CASE WakeBound(th, c)
  BY <1>27 DEF WakeBound, is_thread_bound
<1>28. CASE WakeUnbound(th, c)
  BY <1>28 DEF WakeUnbound, put_item, is_thread_bound
<1>29. CASE NotifyNobody(th, c) \/ NotifyAll(th, c)
  <2>1. NotifyMoves(th, c)
    BY <1>29, NotifyStep
  <2> QED BY <2>1 DEF NotifyMoves
<1> HIDE DEF TidyAt
<1> QED BY <1>5, <1>6, <1>7, <1>8, <1>9, <1>10, <1>11, <1>12, <1>13, <1>14, <1>15, <1>16,
             <1>17, <1>18, <1>19, <1>20, <1>21, <1>22, <1>23, <1>24, <1>25, <1>26, <1>27,
             <1>28, <1>29, PlainOrSpecial DEF Special

\* The others have what they had, in the same place.
LEMMA StepKeepsTidy ==
  ASSUME Owned, NEW th \in TaskRunner, NEW c \in TaskBase, Step(th, c)
  PROVE  Tidy'
<1>1. HandOver /\ Tidy /\ current[th] = c
  BY OthersStay DEF Owned
<1>2. TidyAt(th, c)' /\ Arrives(th, c)
  BY StepTidies, StepArrives
<1>3. \A d \in TaskBase \ {c} :
        /\ pc'[d] # pc[d] => /\ pc[d] \in {"asleep", "bg_asleep"}
                            /\ pc'[d] \in {"from_queue", "bg_woken"}
        /\ task_list'[d] = task_list[d] /\ null_context_tasks'[d] = null_context_tasks[d]
  BY <1>1, OthersStay, OthersKeepLocals
<1>4. \A h \in TaskRunner \ {th} : batch'[h] = batch[h] /\ current[h] # c
  BY <1>1, OthersKeepBatch DEF HandOver, Inv, StacksApart
<1>5. ASSUME NEW d \in TaskBase
      PROVE  /\ task_list'[d] # Null => pc'[d] \in {"walk", "wake", "notify_walk"}
             /\ null_context_tasks'[d] = Null
             /\ pc'[d] \notin {"spin", "notify_delayed"}
  BY <1>1, <1>2, <1>3 DEF Tidy, TidyAt, Arrives
<1>6. CASE switch_to(th, c)
  <2> PICK new : new = next_task[c]
    OBVIOUS
  <2>1. Switched(th, c, new)
    BY <1>6, AfterSwitch
  <2>2. new \in TaskRunner => new = th
    BY <1>1, <2>1 DEF Switched, Owned, JumpsToRunning, Switching
  <2>3. ASSUME NEW d \in TaskBase, prev_task'[d] # Null PROVE Executing(d)' /\ pc'[d] \in OnWay
    BY <1>1, <2>1, <2>3 DEF Switched, Tidy, OnWay
  <2>4. ASSUME NEW h \in TaskRunner
        PROVE  /\ batch'[h] \subseteq Task
               /\ pc'[current'[h]] # "store_tail" => batch'[h] = {}
               /\ current'[h] \in TaskRunner => current'[h] = h
    <3>1. CASE h = th
      BY <1>1, <2>1, <2>2, <3>1 DEF Switched, Tidy
    <3>2. CASE h # th
      <4>1. current'[h] = current[h] /\ current[h] \in TaskBase \ {c}
        BY <1>1, <1>4, <2>1, <3>2 DEF Switched, HandOver, Inv, TypeOK
      <4> QED BY <1>1, <2>1, <4>1 DEF Switched, Tidy
    <3> QED BY <3>1, <3>2
  <2> QED BY <1>2, <1>5, <2>3, <2>4 DEF Tidy, TidyAt
<1>7. CASE ~switch_to(th, c)
  <2>1. UNCHANGED current /\ \A d \in TaskBase \ {c} : prev_task'[d] = prev_task[d]
    BY <1>1, <1>7, OthersKeepStack, OthersKeepPrev
  <2>2. ASSUME NEW d \in TaskBase, prev_task'[d] # Null PROVE Executing(d)' /\ pc'[d] \in OnWay
    BY <1>1, <1>2, <1>3, <2>1, <2>2 DEF Tidy, TidyAt, Executing, OnWay
  <2>3. ASSUME NEW h \in TaskRunner
        PROVE  /\ batch'[h] \subseteq Task
               /\ pc'[current'[h]] # "store_tail" => batch'[h] = {}
               /\ current'[h] \in TaskRunner => current'[h] = h
    <3>1. CASE h = th
      BY <1>1, <1>2, <2>1, <3>1 DEF Tidy, TidyAt
    <3>2. CASE h # th
      <4>1. current'[h] = current[h] /\ current[h] \in TaskBase \ {c}
        BY <1>1, <1>4, <2>1, <3>2 DEF HandOver, Inv, TypeOK
      <4> QED BY <1>1, <1>3, <1>4, <3>2, <4>1 DEF Tidy
    <3> QED BY <3>1, <3>2
  <2> QED BY <1>2, <1>5, <2>2, <2>3 DEF Tidy, TidyAt
<1> QED BY <1>6, <1>7

\* A thread jumps to its own native stack, and to a task only when that can run.
LEMMA StepKeepsJumps ==
  ASSUME Owned, NEW th \in TaskRunner, NEW c \in TaskBase, Step(th, c), Orderly
  PROVE  JumpsToRunning'
<1>1. HandOver /\ TypeOK /\ JumpsToRunning /\ Tidy /\ current[th] = c
  BY OthersStay DEF Owned, HandOver, Inv
<1> DEFINE JumpsAt(h, d) ==
             /\ pc[d] \in Switching /\ next_task[d] \in TaskRunner
                  => next_task[d] = h /\ m_state[h] = "Running"
             /\ pc[d] \in OnWay => m_state[d] = "Running"
<1>2. ASSUME NEW h \in TaskRunner \ {th} PROVE JumpsAt(h, current[h])'
  <2> PICK d : d = current[h]
    OBVIOUS
  <2>1. d \in TaskBase \ {c} /\ h # c /\ current'[h] = d
    <3>1. d \in TaskBase \ {c} /\ h # c
      BY <1>1 DEF HandOver, Inv, TypeOK, StacksApart, Tidy
    <3>2. CASE switch_to(th, c)
      <4>1. Switched(th, c, next_task[c])
        BY <3>2, AfterSwitch
      <4> QED BY <3>1, <4>1 DEF Switched
    <3> QED BY <1>1, <3>1, <3>2, OthersKeepStack
  <2>2. JumpsAt(h, d)
    BY <1>1, <2>1 DEF JumpsToRunning
  <2>3. /\ pc'[d] = pc[d] \/ pc'[d] \in {"from_queue", "bg_woken"}
        /\ next_task'[d] = next_task[d]
    BY <1>1, <2>1, OthersStay, OthersKeepLocals
  <2>4. ASSUME NEW x \in TaskBase \ {c} PROVE m_state'[x] \in {m_state[x], "Running"}
    <3>1. CASE WalkList(th, c)
      BY <1>1, <3>1 DEF WalkList, TypeOK
    <3> QED BY <1>1, <3>1, OthersKeepState
  <2>5. m_state'[d] \in {m_state[d], "Running"} /\ m_state'[h] \in {m_state[h], "Running"}
    BY <2>1, <2>4
  <2> QED BY <2>1, <2>2, <2>3, <2>5 DEF OnWay, Switching
<1>3. CASE switch_to(th, c)
  <2> PICK new : new = next_task[c]
    OBVIOUS
  <2>1. Switched(th, c, new)
    BY <1>3, AfterSwitch
  <2>2. new \in TaskRunner => m_state[new] = "Running"
    BY <1>1, <2>1 DEF Switched, JumpsToRunning, Switching
  <2>3. new \in Task => m_state[new] = "Running"
    <3>1. new \in Task => Ready(new)
      BY <2>1 DEF Ready, Switched, OnWay
    <3> QED BY <3>1 DEF Owned, ReadyRuns
  <2>4. JumpsAt(th, current[th])'
    BY <2>1, <2>2, <2>3 DEF Switched, OnWay, Switching
  <2> QED BY <1>2, <2>4 DEF JumpsToRunning
<1>4. CASE ~switch_to(th, c)
  <2>1. UNCHANGED current
    BY <1>1, <1>4, OthersKeepStack
  <2>2. JumpsAt(th, c)
    BY <1>1 DEF JumpsToRunning
  <2>3. batch[th] \subseteq Task /\ pool \subseteq Task
    BY <1>1 DEF Tidy
  <2> SUFFICES JumpsAt(th, c)'
    BY <1>1, <1>2, <2>1 DEF JumpsToRunning
  <2> USE <1>1, <2>2, <2>3 DEF TypeOK, OnWay, Switching, Back
  <2>4. CASE Plain(th, c)
    BY <2>4 DEF Plain, Busy
  <2>5. ASSUME NEW t \in Task, NewTask(th, c, t) PROVE JumpsAt(th, c)'
    BY <2>5 DEF NewTask, Call
  <2>6. CASE ThreadReturns(th, c)
    BY <2>6 DEF ThreadReturns
  <2>7. CASE Finish(th, c)
    BY <2>7 DEF Finish, GetNext
  <2>8. CASE EnterWait(th, c)
    BY <2>8 DEF EnterWait
  <2>9. CASE UndoWait(th, c)
    BY <2>9 DEF UndoWait
  <2>10. CASE InsertInWaitlist(th, c)
    BY <2>10 DEF InsertInWaitlist, GetNext
  <2>11. CASE Release(th, c)
    BY <2>11 DEF Release
  <2>12. CASE get_running_from_native(th, c)
    BY <2>12 DEF get_running_from_native
  <2>13. CASE FallBack(th, c)
    <3>1. m_state[th] = "Running"
      BY <2>13 DEF Orderly
    <3> QED BY <2>13, <3>1 DEF FallBack
  <2>14. CASE TakeTask(th, c)
    BY <2>14 DEF TakeTask
  <2>15. CASE TakeList(th, c)
    BY <2>15 DEF TakeList
  <2>16. CASE StoreTail(th, c)
    BY <2>16 DEF StoreTail
  <2>17. CASE KeepFirst(th, c)
    BY <2>17 DEF KeepFirst
  <2>18. CASE BadJump(th, c)
    BY <2>18 DEF BadJump
  <2>19. CASE PostJump(th, c)
    BY <2>19 DEF PostJump
  <2>20. CASE SavePrevContext(th, c)
    BY <2>20 DEF SavePrevContext
  <2>21. CASE EnqueuePrev(th, c)
    BY <2>21 DEF EnqueuePrev, put_item
  <2>22. CASE LeavePrev(th, c)
    BY <2>22 DEF LeavePrev
  <2>23. CASE WalkList(th, c)
    BY <2>23 DEF WalkList
  <2>24. CASE WalkListEnd(th, c)
    BY <2>24 DEF WalkListEnd
  <2>25. CASE WakeBound(th, c)
    BY <2>25 DEF WakeBound, is_thread_bound
  <2>26. CASE WakeUnbound(th, c)
    BY <2>26 DEF WakeUnbound, put_item
  <2>27. CASE NotifyNobody(th, c) \/ NotifyAll(th, c)
    <3>1. NotifyMoves(th, c)
      BY <2>27, NotifyStep
    <3> QED BY <3>1 DEF NotifyMoves
  <2> HIDE DEF JumpsAt
  <2> QED BY <1>4, <2>4, <2>5, <2>6, <2>7, <2>8, <2>9, <2>10, <2>11, <2>12, <2>13, <2>14,
               <2>15, <2>16, <2>17, <2>18, <2>19, <2>20, <2>21, <2>22, <2>23, <2>24, <2>25,
               <2>26, <2>27, PlainOrSpecial DEF Special
<1> QED BY <1>3, <1>4

\* What States says of t.
StateOf(t) ==
    /\ m_state[t] = "Waiting" => pc[t] \in Scheduling \cup {"insert"}
    /\ pc[t] = "insert" => m_state[t] = "Waiting"
    /\ m_state[t] = "Finished" => pc[t] \in Scheduling \cup {"done"}
    /\ back[t] = "unreachable" => m_state[t] = "Finished"
    /\ pc[t] # "unreachable"
    /\ pc[t] = "waited" => back[t] = "waited"
    /\ back[t] = "waited" =>
         aw[t] \in Waitable /\ (m_state[t] = "Waiting" \/ is_finished[aw[t]])
    /\ pc[t] = "destroy" \/ back[t] = "destroy" => aw[t] \in Awaitable

\* Of the stack that makes the step.
LEMMA StepStates ==
  ASSUME Owned, NEW th \in TaskRunner, NEW c \in TaskBase, Step(th, c)
  PROVE  StateOf(c)'
<1>1. /\ TypeOK /\ current[th] = c /\ StateOf(c)
      /\ pc[c] \in OnWay => m_state[c] = "Running"
  BY OthersStay DEF Owned, HandOver, Inv, JumpsToRunning, States, StateOf
<1>2. pc[c] \notin Scheduling \cup {"insert", "done"}
        => m_state[c] = "Running" /\ back[c] # "unreachable"
  BY RunningOutside
<1>3. pc[c] \in {"wait", "insert", "release"} => aw[c] \in Waitable
  BY DEF Owned, HandOver, Inv, LocalsSet
<1> USE <1>1, <1>2, <1>3 DEF StateOf, TypeOK, OnWay, Scheduling, Back
<1>4. CASE Plain(th, c)
  BY <1>4 DEF Plain, Busy, Switching
<1>5. ASSUME NEW t \in Task, NewTask(th, c, t) PROVE StateOf(c)'
  BY <1>5 DEF NewTask, Call
<1>6. CASE ThreadReturns(th, c)
  BY <1>6 DEF ThreadReturns
<1>7. CASE Finish(th, c)
  BY <1>7 DEF Finish, GetNext
<1>8. CASE EnterWait(th, c)
  BY <1>8 DEF EnterWait
<1>9. CASE UndoWait(th, c)
  BY <1>9 DEF UndoWait
<1>10. CASE InsertInWaitlist(th, c)
  BY <1>10 DEF InsertInWaitlist, GetNext, AfterWait
<1>11. CASE Release(th, c)
  BY <1>11 DEF Release
<1>12. CASE get_running_from_native(th, c)
  BY <1>12 DEF get_running_from_native
<1>13. CASE FallBack(th, c)
  BY <1>13 DEF FallBack
<1>14. CASE TakeTask(th, c)
  BY <1>14 DEF TakeTask
<1>15. CASE TakeList(th, c)
  BY <1>15 DEF TakeList
<1>16. CASE StoreTail(th, c)
  BY <1>16 DEF StoreTail
<1>17. CASE KeepFirst(th, c)
  BY <1>17 DEF KeepFirst
<1>18. CASE BadJump(th, c)
  BY <1>18 DEF BadJump
<1>19. CASE switch_to(th, c)
  BY <1>19 DEF switch_to
<1>20. CASE PostJump(th, c)
  BY <1>20 DEF PostJump
<1>21. CASE SavePrevContext(th, c)
  BY <1>21 DEF SavePrevContext
<1>22. CASE EnqueuePrev(th, c)
  BY <1>22 DEF EnqueuePrev, put_item
<1>23. CASE LeavePrev(th, c)
  BY <1>23 DEF LeavePrev
<1>24. CASE WalkList(th, c)
  <2>1. pc[c] = "walk" /\ task_list[c] \in TaskBase /\ task_list[c] \in ListFrom(task_list[c])
    BY <1>24, Lists!FirstInItems DEF WalkList, ListFrom, Intrusive!ItemsFrom, Lists!ItemsFrom
  <2>2. m_state[task_list[c]] = "Waiting"
    BY <2>1 DEF Owned, Waiters
  <2> QED BY <1>24, <2>1, <2>2 DEF WalkList
<1>25. CASE WalkListEnd(th, c)
  BY <1>25 DEF WalkListEnd
<1>26. CASE WakeBound(th, c)
  BY <1>26 DEF WakeBound, is_thread_bound
<1>27. CASE WakeUnbound(th, c)
  BY <1>27 DEF WakeUnbound, put_item
<1>28. CASE NotifyNobody(th, c) \/ NotifyAll(th, c)
  <2>1. NotifyMoves(th, c)
    BY <1>28, NotifyStep
  <2> QED BY <2>1 DEF NotifyMoves
<1> HIDE DEF StateOf
<1> QED BY <1>4, <1>5, <1>6, <1>7, <1>8, <1>9, <1>10, <1>11, <1>12, <1>13, <1>14, <1>15,
             <1>16, <1>17, <1>18, <1>19, <1>20, <1>21, <1>22, <1>23, <1>24, <1>25, <1>26,
             <1>27, <1>28, PlainOrSpecial DEF Special

\* Of every task.
LEMMA StepKeepsStates ==
  ASSUME Owned, NEW th \in TaskRunner, NEW c \in TaskBase, Step(th, c)
  PROVE  States'
<1>1. HandOver /\ TypeOK /\ current[th] = c
  BY OthersStay DEF Owned, HandOver, Inv
<1>2. ASSUME NEW a \in Waitable, is_finished[a] PROVE is_finished'[a]
  <2>1. CASE Release(th, c)
    BY <1>1, <1>2, <2>1 DEF Release, TypeOK
  <2> QED BY <1>2, <2>1, OnlyWaitAndRelease DEF InsertInWaitlist
<1>3. ASSUME NEW t \in TaskBase \ {c} PROVE StateOf(t)'
  <2>1. StateOf(t)
    BY DEF Owned, States, StateOf
  <2>2. /\ \/ pc'[t] = pc[t]
           \/ pc[t] = "asleep" /\ pc'[t] = "from_queue"
           \/ pc[t] = "bg_asleep" /\ pc'[t] = "bg_woken"
        /\ aw'[t] = aw[t] /\ back'[t] = back[t]
    BY <1>1, OthersStay, OthersKeepLocals
  <2>3. aw[t] \in Waitable /\ is_finished[aw[t]] => is_finished'[aw'[t]]
    BY <1>2, <2>2
  <2>4. CASE m_state'[t] = m_state[t]
    BY <2>1, <2>2, <2>3, <2>4 DEF StateOf, Scheduling
  <2>5. CASE m_state'[t] # m_state[t]
    <3>1. WalkList(th, c)
      BY <1>1, <2>5, OthersKeepState
    <3>2. t = task_list[c] /\ m_state'[t] = "Running" /\ pc'[t] = pc[t]
      BY <1>1, <2>5, <3>1 DEF WalkList, TypeOK
    <3>3. t \in ListFrom(task_list[c])
      BY <1>1, <3>2, Lists!FirstInItems DEF ListFrom, Intrusive!ItemsFrom, Lists!ItemsFrom
    <3>4. m_state[t] = "Waiting" /\ pc[t] # "insert" /\ aw[t] \in Waitable /\ is_finished[aw[t]]
      BY <3>3 DEF Owned, Waiters
    <3> QED BY <2>1, <2>2, <2>3, <3>2, <3>4 DEF StateOf, Scheduling
  <2> QED BY <2>4, <2>5
<1>4. ASSUME NEW t \in TaskBase, ~Born(t)' PROVE m_state'[t] = "Running"
  <2>1. ~Born(t)
    <3>1. ASSUME NEW u \in Task, NewTask(th, c, u) PROVE ~Born(t)
      BY <1>1, <1>4, <3>1 DEF NewTask, Born, TypeOK
    <3> QED BY <1>1, <1>4, <3>1, BornByNewTask
  <2>2. t # c /\ m_state[t] = "Running"
    BY <1>1, <2>1 DEF Owned, States, HandOver, BornOnly
  <2>3. CASE WalkList(th, c)
    BY <1>1, <2>2, <2>3 DEF WalkList, TypeOK
  <2> QED BY <1>1, <2>2, <2>3, OthersKeepState
<1>5. \A t \in TaskBase : StateOf(t)'
  BY <1>3, StepStates
<1> QED BY <1>4, <1>5 DEF States, StateOf

-----------------------------------------------------------------------------
(* The wait lists                                                          *)

\* What the lemmas about intrusive lists say of the lists of tasks.
LEMMA ListItems ==
  /\ \A x : ListFrom(x) = Lists!ItemsFrom(m_next, x)
  /\ \A x : ListFrom(x)' = Lists!ItemsFrom(m_next', x)
BY DEF ListFrom, Intrusive!ItemsFrom, Intrusive!Closed, Lists!ItemsFrom, Lists!Closed

\* Three steps change the lists.
LEMMA StepLinks ==
  ASSUME Owned, NEW th \in TaskRunner, NEW c \in TaskBase, Step(th, c)
  PROVE  \/ UNCHANGED <<m_next, head, task_list>>
         \/ InsertInWaitlist(th, c) \/ Release(th, c) \/ WalkList(th, c)
<1>1. CASE Plain(th, c)
  BY <1>1 DEF Plain
<1>2. CASE Special(th, c)
  BY <1>2 DEF Special, NewTask, ThreadReturns, Finish, EnterWait, UndoWait,
       get_running_from_native, FallBack, TakeTask, TakeList, StoreTail, KeepFirst,
       switch_to, BadJump, PostJump, SavePrevContext, EnqueuePrev, LeavePrev,
       WalkListEnd, WakeBound, WakeUnbound, NotifyNobody, NotifyAll
<1> QED BY <1>1, <1>2, PlainOrSpecial

\* A link that is in no list changes none of them.
LEMMA ListUntouched ==
  ASSUME TypeOK, NEW z \in TaskBase, NEW v \in TaskBase \cup {Null}, NEW x,
         m_next' = [m_next EXCEPT ![z] = v], z \notin ListFrom(x)
  PROVE  /\ ListFrom(x)' = ListFrom(x)
         /\ Lists!Chain(m_next, x) => Lists!Chain(m_next', x)
<1>1. m_next \in Lists!Link /\ m_next' \in Lists!Link
  BY DEF TypeOK, Lists!Link
<1>2. \A y \in Lists!ItemsFrom(m_next, x) : m_next'[y] = m_next[y]
  BY ListItems, Lists!ItemsAreItems DEF TypeOK
<1> QED BY <1>1, <1>2, ListItems, Lists!SameLinks

\* A task in wait() is in no list yet.
LEMMA InsertsNew ==
  ASSUME Owned, NEW th \in TaskRunner, NEW c \in TaskBase, InsertInWaitlist(th, c)
  PROVE  /\ aw[c] \in Waitable /\ ~is_finished[aw[c]]
         /\ \A b \in Waitable : c \notin ListFrom(head[b])
         /\ \A d \in TaskBase : c \notin ListFrom(task_list[d])
<1>1. pc[c] = "insert" /\ ~is_finished[aw[c]]
  BY DEF InsertInWaitlist
<1> QED BY <1>1 DEF Owned, HandOver, Inv, LocalsSet, Waiters

\* It is put before the list of its awaitable.
LEMMA InsertLinks ==
  ASSUME Owned, NEW th \in TaskRunner, NEW c \in TaskBase, InsertInWaitlist(th, c)
  PROVE  /\ \A b \in Waitable :
              /\ ListFrom(head[b])' = IF b = aw[c] THEN {c} \cup ListFrom(head[b])
                                                  ELSE ListFrom(head[b])
              /\ Lists!Chain(m_next, head[b])'
         /\ \A d \in TaskBase :
              /\ ListFrom(task_list[d])' = ListFrom(task_list[d])
              /\ Lists!Chain(m_next, task_list[d])'
<1> PICK a : a = aw[c]
  OBVIOUS
<1>1. /\ TypeOK /\ WaitLists /\ a \in Waitable
      /\ \A b \in Waitable : c \notin ListFrom(head[b])
      /\ \A d \in TaskBase : c \notin ListFrom(task_list[d])
  BY InsertsNew DEF Owned, HandOver, Inv
<1>2. /\ m_next' = [m_next EXCEPT ![c] = head[a]] /\ head[a] \in TaskBase \cup {Null}
      /\ head'[a] = c /\ \A b \in Waitable \ {a} : head'[b] = head[b]
      /\ UNCHANGED task_list
  BY <1>1 DEF InsertInWaitlist, TypeOK
<1>3. \A b \in Waitable :
        /\ Lists!ItemsFrom(m_next', head[b]) = Lists!ItemsFrom(m_next, head[b])
        /\ Lists!Chain(m_next', head[b])
  BY <1>1, <1>2, ListUntouched, ListItems DEF WaitLists
<1>4. \A d \in TaskBase :
        /\ Lists!ItemsFrom(m_next', task_list[d]) = Lists!ItemsFrom(m_next, task_list[d])
        /\ Lists!Chain(m_next', task_list[d])
  BY <1>1, <1>2, ListUntouched, ListItems DEF WaitLists
<1>5. /\ Lists!ItemsFrom(m_next', c) = {c} \cup Lists!ItemsFrom(m_next, head[a])
      /\ Lists!Chain(m_next', c)
  <2>1. m_next' \in Lists!Link /\ m_next'[c] = head[a]
    BY <1>1, <1>2 DEF TypeOK, Lists!Link
  <2>2. c \notin Lists!ItemsFrom(m_next', m_next'[c])
    BY <1>1, <1>3, <2>1, ListItems
  <2>3. Lists!Chain(m_next', m_next'[c])
    BY <1>1, <1>3, <2>1
  <2> QED BY <1>1, <1>3, <2>1, <2>2, <2>3, Lists!PutFirst
<1>6. \A b \in Waitable :
        /\ Lists!ItemsFrom(m_next', head'[b]) =
              IF b = a THEN {c} \cup Lists!ItemsFrom(m_next, head[b])
                                                 ELSE Lists!ItemsFrom(m_next, head[b])
        /\ Lists!Chain(m_next', head'[b])
  BY <1>1, <1>2, <1>3, <1>5
<1> QED BY <1>2, <1>4, <1>6, ListItems

\* A release() moves the list to its own stack.
LEMMA ReleaseLinks ==
  ASSUME Owned, NEW th \in TaskRunner, NEW c \in TaskBase, Release(th, c)
  PROVE  /\ aw[c] \in Waitable
         /\ \A b \in Waitable :
              /\ ListFrom(head[b])' = IF b = aw[c] THEN {} ELSE ListFrom(head[b])
              /\ Lists!Chain(m_next, head[b])'
         /\ ListFrom(task_list[c]) = {}
         /\ \A d \in TaskBase :
              /\ ListFrom(task_list[d])' = IF d = c THEN ListFrom(head[aw[c]])
                                                   ELSE ListFrom(task_list[d])
              /\ Lists!Chain(m_next, task_list[d])'
<1> PICK a : a = aw[c]
  OBVIOUS
<1>1. TypeOK /\ WaitLists /\ a \in Waitable /\ pc[c] = "release" /\ task_list[c] = Null
  BY DEF Owned, HandOver, Inv, LocalsSet, Release, Tidy
<1>2. /\ UNCHANGED m_next /\ m_next \in Lists!Link
      /\ head'[a] = Null /\ \A b \in Waitable \ {a} : head'[b] = head[b]
      /\ task_list'[c] = head[a] /\ \A d \in TaskBase \ {c} : task_list'[d] = task_list[d]
  BY <1>1 DEF Release, TypeOK, Lists!Link
<1>3. Lists!ItemsFrom(m_next, Null) = {} /\ Lists!Chain(m_next, Null)
  BY <1>2, Lists!NullHasNoItems DEF Lists!Chain
<1>4. \A b \in Waitable :
        /\ Lists!ItemsFrom(m_next', head'[b]) =
              IF b = a THEN {} ELSE Lists!ItemsFrom(m_next, head[b])
        /\ Lists!Chain(m_next', head'[b])
  BY <1>1, <1>2, <1>3 DEF WaitLists
<1>5. \A d \in TaskBase :
        /\ Lists!ItemsFrom(m_next', task_list'[d]) =
              IF d = c THEN Lists!ItemsFrom(m_next, head[a])
              ELSE Lists!ItemsFrom(m_next, task_list[d])
        /\ Lists!Chain(m_next', task_list'[d])
  BY <1>1, <1>2 DEF WaitLists
<1> QED BY <1>1, <1>3, <1>4, <1>5, ListItems

\* A task that is made Running is taken off.
LEMMA WalkLinks ==
  ASSUME Owned, NEW th \in TaskRunner, NEW c \in TaskBase, WalkList(th, c)
  PROVE  /\ task_list[c] \in ListFrom(task_list[c])
         /\ \A b \in Waitable :
              /\ ListFrom(head[b])' = ListFrom(head[b])
              /\ Lists!Chain(m_next, head[b])'
         /\ \A d \in TaskBase :
              /\ ListFrom(task_list[d])' = IF d = c THEN ListFrom(task_list[d]) \ {task_list[c]}
                                                   ELSE ListFrom(task_list[d])
              /\ Lists!Chain(m_next, task_list[d])'
<1> PICK t : t = task_list[c]
  OBVIOUS
<1>1. TypeOK /\ WaitLists /\ t \in TaskBase
  BY DEF Owned, HandOver, Inv, WalkList, TypeOK
<1>2. /\ m_next' = [m_next EXCEPT ![t] = Null] /\ m_next \in Lists!Link
      /\ UNCHANGED head /\ m_next[t] \in TaskBase \cup {Null}
      /\ task_list'[c] = m_next[t] /\ \A d \in TaskBase \ {c} : task_list'[d] = task_list[d]
  BY <1>1 DEF WalkList, TypeOK, Lists!Link
<1>3. /\ Lists!ItemsFrom(m_next, t) = {t} \cup Lists!ItemsFrom(m_next, m_next[t])
      /\ t \notin Lists!ItemsFrom(m_next, m_next[t]) /\ Lists!Chain(m_next, m_next[t])
  <2>1. Lists!Chain(m_next, t)
    BY <1>1 DEF WaitLists
  <2> QED BY <1>1, <1>2, <2>1, Lists!FirstAndRest, Lists!TakeFirst
<1>4. t \in ListFrom(t)
  BY <1>3, ListItems
<1>5. \A b \in Waitable : /\ Lists!ItemsFrom(m_next', head[b]) = Lists!ItemsFrom(m_next, head[b])
                          /\ Lists!Chain(m_next', head[b])
  <2>1. \A b \in Waitable : t \notin ListFrom(head[b])
    BY <1>1, <1>4 DEF WaitLists
  <2> QED BY <1>1, <1>2, <2>1, ListUntouched, ListItems DEF WaitLists
<1>6. \A d \in TaskBase \ {c} :
        /\ Lists!ItemsFrom(m_next', task_list[d]) = Lists!ItemsFrom(m_next, task_list[d])
        /\ Lists!Chain(m_next', task_list[d])
  <2>1. \A d \in TaskBase \ {c} : t \notin ListFrom(task_list[d])
    BY <1>1, <1>4 DEF WaitLists
  <2> QED BY <1>1, <1>2, <2>1, ListUntouched, ListItems DEF WaitLists
<1>7. /\ Lists!ItemsFrom(m_next', m_next[t]) = Lists!ItemsFrom(m_next, t) \ {t}
      /\ Lists!Chain(m_next', m_next[t])
  <2>1. t \notin ListFrom(m_next[t])
    BY <1>3, ListItems
  <2>2. /\ Lists!ItemsFrom(m_next', m_next[t]) = Lists!ItemsFrom(m_next, m_next[t])
        /\ Lists!Chain(m_next', m_next[t])
    BY <1>1, <1>2, <1>3, <2>1, ListUntouched, ListItems
  <2> QED BY <1>3, <2>2
<1>8. \A d \in TaskBase :
        /\ Lists!ItemsFrom(m_next', task_list'[d]) =
             IF d = c THEN Lists!ItemsFrom(m_next, task_list[d]) \ {t}
             ELSE Lists!ItemsFrom(m_next, task_list[d])
        /\ Lists!Chain(m_next', task_list'[d])
  BY <1>1, <1>2, <1>6, <1>7
<1>9. \A b \in Waitable : /\ Lists!ItemsFrom(m_next', head'[b]) = Lists!ItemsFrom(m_next, head[b])
                          /\ Lists!Chain(m_next', head'[b])
  BY <1>2, <1>5
<1> QED BY <1>4, <1>8, <1>9, ListItems

\* The lists stay chains that have nothing in common.
LEMMA StepKeepsLists ==
  ASSUME Owned, NEW th \in TaskRunner, NEW c \in TaskBase, Step(th, c)
  PROVE  WaitLists'
<1>1. WaitLists
  BY DEF Owned
<1>2. CASE UNCHANGED <<m_next, head, task_list>>
  BY <1>1, <1>2, ListItems DEF WaitLists
<1>3. CASE InsertInWaitlist(th, c)
  <2>1. aw[c] \in Waitable
    BY <1>3, InsertsNew
  <2>5. /\ \A b \in Waitable : ListFrom(head[b])' = IF b = aw[c] THEN {c} \cup ListFrom(head[b])
                                                               ELSE ListFrom(head[b])
        /\ \A d \in TaskBase : ListFrom(task_list[d])' = ListFrom(task_list[d])
    BY <1>3, InsertLinks
  <2>6. /\ \A b \in Waitable : Lists!Chain(m_next, head[b])'
        /\ \A d \in TaskBase : Lists!Chain(m_next, task_list[d])'
    BY <1>3, InsertLinks
  <2>7. /\ \A b \in Waitable : c \notin ListFrom(head[b])
        /\ \A d \in TaskBase : c \notin ListFrom(task_list[d])
    BY <1>3, InsertsNew
  <2>8. ASSUME NEW a \in Waitable, NEW b \in Waitable, NEW t, t \in ListFrom(head[a])',
               t \in ListFrom(head[b])'
        PROVE  a = b
    <3>1. ASSUME NEW x \in Waitable, t \in ListFrom(head[x])'
          PROVE  t \in ListFrom(head[x]) \/ (t = c /\ x = aw[c])
      BY <2>5, <3>1 DEF ListFrom
    <3>2. /\ t \in ListFrom(head[a]) \/ (t = c /\ a = aw[c])
          /\ t \in ListFrom(head[b]) \/ (t = c /\ b = aw[c])
      BY <2>8, <3>1
    <3> QED BY <1>1, <2>7, <3>2 DEF WaitLists
  <2>9. ASSUME NEW d \in TaskBase, NEW e \in TaskBase, NEW t, t \in ListFrom(task_list[d])',
               t \in ListFrom(task_list[e])'
        PROVE  d = e
    BY <1>1, <2>5, <2>9 DEF WaitLists, ListFrom
  <2>10. ASSUME NEW a \in Waitable, NEW d \in TaskBase, NEW t, t \in ListFrom(head[a])',
               t \in ListFrom(task_list[d])'
         PROVE  FALSE
    <3>1. t \in ListFrom(head[a]) \/ t = c
      BY <2>5, <2>10 DEF ListFrom
    <3>2. t \in ListFrom(task_list[d])
      BY <2>5, <2>10 DEF ListFrom
    <3> QED BY <1>1, <2>7, <3>1, <3>2 DEF WaitLists
  <2> QED BY <2>6, <2>8, <2>9, <2>10 DEF WaitLists, ListFrom
<1>4. CASE Release(th, c)
  <2>5. /\ aw[c] \in Waitable /\ ListFrom(task_list[c]) = {}
        /\ \A b \in Waitable : ListFrom(head[b])' = IF b = aw[c] THEN {} ELSE ListFrom(head[b])
        /\ \A d \in TaskBase : ListFrom(task_list[d])' = IF d = c THEN ListFrom(head[aw[c]])
                                                                ELSE ListFrom(task_list[d])
    BY <1>4, ReleaseLinks
  <2>6. /\ \A b \in Waitable : Lists!Chain(m_next, head[b])'
        /\ \A d \in TaskBase : Lists!Chain(m_next, task_list[d])'
    BY <1>4, ReleaseLinks
  <2> QED BY <1>1, <2>5, <2>6 DEF WaitLists, ListFrom
<1>5. CASE WalkList(th, c)
  <2>5. /\ \A b \in Waitable : ListFrom(head[b])' = ListFrom(head[b])
        /\ \A d \in TaskBase :
             ListFrom(task_list[d])' =
               IF d = c THEN ListFrom(task_list[d]) \ {task_list[c]} ELSE ListFrom(task_list[d])
    BY <1>5, WalkLinks
  <2>6. /\ \A b \in Waitable : Lists!Chain(m_next, head[b])'
        /\ \A d \in TaskBase : Lists!Chain(m_next, task_list[d])'
    BY <1>5, WalkLinks
  <2> QED BY <1>1, <2>5, <2>6 DEF WaitLists, ListFrom
<1> QED BY <1>2, <1>3, <1>4, <1>5, StepLinks

\* Who waits in a list does so until a release() takes it.
Waits(t) == m_state[t] = "Waiting" /\ pc[t] # "insert"

\* The stack that makes the step may be one that schedule() has not left yet.
LEMMA SchedulerWaits ==
  ASSUME Owned, NEW th \in TaskRunner, NEW c \in TaskBase, Step(th, c), Waits(c)
  PROVE  m_state'[c] = "Waiting" /\ aw'[c] = aw[c]
<1>1. TypeOK /\ pc[c] \in Scheduling
  BY DEF Owned, HandOver, Inv, States, Waits
<1>2. pc[c] # "post_jump"
  BY OthersStay DEF Owned, JumpsToRunning, Waits, OnWay
<1> USE <1>1, <1>2 DEF TypeOK, Scheduling, Waits
<1>3. CASE Plain(th, c)
  BY <1>3 DEF Plain
<1>4. ASSUME NEW t \in Task, NewTask(th, c, t) PROVE m_state'[c] = "Waiting" /\ aw'[c] = aw[c]
  BY <1>4 DEF NewTask, Call
<1>5. CASE ThreadReturns(th, c)
  BY <1>5 DEF ThreadReturns
<1>6. CASE Finish(th, c)
  BY <1>6 DEF Finish, GetNext
<1>7. CASE EnterWait(th, c)
  BY <1>7 DEF EnterWait
<1>8. CASE UndoWait(th, c)
  BY <1>8 DEF UndoWait
<1>9. CASE InsertInWaitlist(th, c)
  BY <1>9 DEF InsertInWaitlist, GetNext
<1>10. CASE Release(th, c)
  BY <1>10 DEF Release
<1>11. CASE get_running_from_native(th, c)
  BY <1>11 DEF get_running_from_native
<1>12. CASE FallBack(th, c)
  BY <1>12 DEF FallBack
<1>13. CASE TakeTask(th, c)
  BY <1>13 DEF TakeTask
<1>14. CASE TakeList(th, c)
  BY <1>14 DEF TakeList
<1>15. CASE StoreTail(th, c)
  BY <1>15 DEF StoreTail
<1>16. CASE KeepFirst(th, c)
  BY <1>16 DEF KeepFirst
<1>17. CASE BadJump(th, c)
  BY <1>17 DEF BadJump
<1>18. CASE switch_to(th, c)
  BY <1>18 DEF switch_to
<1>19. CASE PostJump(th, c)
  BY <1>19 DEF PostJump
<1>20. CASE SavePrevContext(th, c)
  BY <1>20 DEF SavePrevContext
<1>21. CASE EnqueuePrev(th, c)
  BY <1>21 DEF EnqueuePrev, put_item
<1>22. CASE LeavePrev(th, c)
  BY <1>22 DEF LeavePrev
<1>23. CASE WalkList(th, c)
  BY <1>23 DEF WalkList
<1>24. CASE WalkListEnd(th, c)
  BY <1>24 DEF WalkListEnd
<1>25. CASE WakeBound(th, c)
  BY <1>25 DEF WakeBound, is_thread_bound
<1>26. CASE WakeUnbound(th, c)
  BY <1>26 DEF WakeUnbound, put_item
<1>27. CASE NotifyNobody(th, c) \/ NotifyAll(th, c)
  <2>1. NotifyMoves(th, c)
    BY <1>27, NotifyStep
  <2> QED BY <2>1 DEF NotifyMoves
<1> QED BY <1>3, <1>4, <1>5, <1>6, <1>7, <1>8, <1>9, <1>10, <1>11, <1>12, <1>13, <1>14,
             <1>15, <1>16, <1>17, <1>18, <1>19, <1>20, <1>21, <1>22, <1>23, <1>24, <1>25,
             <1>26, <1>27, PlainOrSpecial DEF Special

\* Nobody else touches it.
LEMMA WaiterStays ==
  ASSUME Owned, NEW th \in TaskRunner, NEW c \in TaskBase, Step(th, c),
         NEW t \in TaskBase, Waits(t), ~(WalkList(th, c) /\ t = task_list[c])
  PROVE  Waits(t)' /\ aw'[t] = aw[t]
<1>1. HandOver /\ TypeOK
  BY DEF Owned, HandOver, Inv
<1>2. CASE t = c
  <2>1. pc'[c] # "insert"
    <3>1. EnterWait(th, c) => pc[c] = "wait"
      BY DEF EnterWait
    <3> QED BY <1>2, <3>1, StepArrives DEF Arrives, Waits, Owned, States, Scheduling
  <2> QED BY <1>2, <2>1, SchedulerWaits DEF Waits
<1>3. CASE t # c
  <2>1. pc'[t] # "insert" /\ aw'[t] = aw[t]
    BY <1>1, <1>3, OthersStay, OthersKeepLocals DEF Waits
  <2>2. m_state'[t] = m_state[t]
    <3>1. CASE WalkList(th, c)
      BY <1>1, <3>1 DEF WalkList, TypeOK
    <3> QED BY <1>1, <1>3, <3>1, OthersKeepState
  <2> QED BY <2>1, <2>2 DEF Waits
<1> QED BY <1>2, <1>3

\* A task that has left its stack and waits is not resumed.
LEMMA LeftStays ==
  ASSUME Owned, NEW th \in TaskRunner, NEW c \in TaskBase, Step(th, c),
         NEW t \in Task, Waits(t), HasLeft(t)
  PROVE  HasLeft(t)'
<1>1. HandOver /\ current[th] = c /\ t # c
  BY OthersStay DEF Owned, HasLeft, Executing
<1>2. m_context'[t] = "saved"
  BY <1>1, SavedStays DEF HasLeft
<1>3. \A d \in TaskBase : pc[d] \in OnWay => prev_task[d] # t
  BY DEF HasLeft, OnWay
<1>4. CASE switch_to(th, c)
  <2> PICK new : new = next_task[c]
    OBVIOUS
  <2>1. Switched(th, c, new)
    BY <1>4, AfterSwitch
  <2>2. t # new
    <3>1. ~Ready(t)
      BY DEF Owned, ReadyRuns, Waits
    <3>2. new \in Task => Ready(new)
      BY <2>1 DEF Ready, Switched, OnWay
    <3> QED BY <3>1, <3>2
  <2>3. \A d \in TaskBase : prev_task'[d] = t => prev_task[d] = t
    BY <1>1, <2>1 DEF Switched
  <2>4. \A d \in TaskBase : prev_task[d] # t
    BY <1>3 DEF Owned, Tidy
  <2> QED BY <1>2, <2>1, <2>2, <2>3, <2>4 DEF Switched, HasLeft
<1>5. CASE ~switch_to(th, c)
  <2>1. UNCHANGED current
    BY <1>1, <1>5, OthersKeepStack
  <2>2. ASSUME NEW d \in TaskBase, pc'[d] \in OnWay PROVE prev_task'[d] # t
    <3>1. CASE d = c
      <4>1. PostJump(th, c) \/ SavePrevContext(th, c) => prev_task'[c] # t
        BY <1>3 DEF PostJump, SavePrevContext, OnWay
      <4> QED BY <1>5, <2>2, <3>1, <4>1, StepArrives DEF Arrives, OnWay
    <3>2. CASE d # c
      <4>1. prev_task'[d] = prev_task[d]
        BY <1>1, <1>5, <3>2, OthersKeepPrev
      <4>2. pc[d] \in OnWay
        BY <1>1, <2>2, <3>2, OthersStay DEF OnWay
      <4> QED BY <1>3, <4>1, <4>2
    <3> QED BY <3>1, <3>2
  <2> QED BY <1>2, <2>1, <2>2 DEF HasLeft, Executing, OnWay
<1> QED BY <1>4, <1>5

\* Once released an awaitable stays so.
LEMMA ReleasedStays ==
  ASSUME Owned, NEW th \in TaskRunner, NEW c \in TaskBase, Step(th, c),
         NEW a \in Waitable, is_finished[a]
  PROVE  is_finished'[a]
<1>1. CASE Release(th, c)
  BY <1>1 DEF Release, Owned, HandOver, Inv, TypeOK
<1> QED BY <1>1, OnlyWaitAndRelease DEF InsertInWaitlist

\* The tasks in the lists wait, for the awaitable whose list it is.
LEMMA StepKeepsWaiters ==
  ASSUME Owned, NEW th \in TaskRunner, NEW c \in TaskBase, Step(th, c), Orderly
  PROVE  Waiters'
<1>1. TypeOK /\ Waiters /\ WaitLists
  BY DEF Owned, HandOver, Inv
<1> DEFINE Listed1(a, t) == Waits(t) /\ aw[t] = a
           Taken(t) == /\ Waits(t) /\ aw[t] \in Waitable /\ is_finished[aw[t]]
                       /\ t \in Task => HasLeft(t)
<1>2. ASSUME NEW a \in Waitable, NEW t \in ListFrom(head[a])
      PROVE  t \in TaskBase /\ Listed1(a, t)
  BY <1>1, ListItems, Lists!ItemsAreItems DEF Waiters, Waits
<1>3. ASSUME NEW d \in TaskBase, NEW t \in ListFrom(task_list[d])
      PROVE  t \in TaskBase /\ Taken(t)
  BY <1>1, ListItems, Lists!ItemsAreItems DEF Waiters, Waits
<1>4. ASSUME NEW a \in Waitable, NEW t \in ListFrom(head[a]) PROVE Listed1(a, t)'
  <2>1. ~(WalkList(th, c) /\ t = task_list[c])
    <3>1. WalkList(th, c) => task_list[c] \in ListFrom(task_list[c])
      BY WalkLinks
    <3>2. ListFrom(head[a]) \cap ListFrom(task_list[c]) = {}
      BY <1>1 DEF WaitLists
    <3> QED BY <3>1, <3>2
  <2> QED BY <1>2, <2>1, WaiterStays
<1>5. ASSUME NEW d \in TaskBase, NEW t \in ListFrom(task_list[d]),
             ~(WalkList(th, c) /\ t = task_list[c])
      PROVE  Taken(t)'
  BY <1>3, <1>5, WaiterStays, LeftStays, ReleasedStays
<1> HIDE DEF Listed1, Taken
<1> SUFFICES /\ \A a \in Waitable : \A t \in ListFrom(head[a])' : Listed1(a, t)'
             /\ \A d \in TaskBase : \A t \in ListFrom(task_list[d])' : Taken(t)'
  BY DEF Waiters, Listed1, Taken, Waits
<1>6. CASE UNCHANGED <<m_next, head, task_list>>
  <2>1. /\ \A a : ListFrom(head[a])' = ListFrom(head[a])
        /\ \A d : ListFrom(task_list[d])' = ListFrom(task_list[d])
    BY <1>6, ListItems
  <2>2. ~WalkList(th, c)
    <3>1. WalkList(th, c) => /\ task_list[c] \in TaskBase
                             /\ task_list' = [task_list EXCEPT ![c] = m_next[task_list[c]]]
                             /\ m_next' = [m_next EXCEPT ![task_list[c]] = Null]
      BY <1>1 DEF WalkList, TypeOK
    <3>2. WalkList(th, c) => m_next[task_list[c]] = Null /\ task_list[c] = Null
      BY <1>1, <1>6, <3>1 DEF TypeOK
    <3> QED BY <3>1, <3>2
  <2> QED BY <1>4, <1>5, <2>1, <2>2
<1>7. CASE InsertInWaitlist(th, c)
  <2>2. ~WalkList(th, c)
    BY <1>1, <1>7 DEF InsertInWaitlist, WalkList
  <2>5. /\ \A b \in Waitable : ListFrom(head[b])' = IF b = aw[c] THEN {c} \cup ListFrom(head[b])
                                                               ELSE ListFrom(head[b])
        /\ \A d \in TaskBase : ListFrom(task_list[d])' = ListFrom(task_list[d])
    BY <1>7, InsertLinks
  <2>6. ASSUME NEW a \in Waitable, NEW t, t \in ListFrom(head[a])' PROVE Listed1(a, t)'
    <3>1. t \in ListFrom(head[a]) \/ (t = c /\ a = aw[c])
      BY <2>5, <2>6 DEF ListFrom
    <3>2. CASE t = c /\ a = aw[c]
      BY <1>1, <1>7, <3>2 DEF InsertInWaitlist, Owned, States, GetNext, TypeOK, Listed1, Waits
    <3> QED BY <1>4, <3>1, <3>2
  <2>7. ASSUME NEW d \in TaskBase, NEW t, t \in ListFrom(task_list[d])' PROVE Taken(t)'
    <3>1. t \in ListFrom(task_list[d])
      BY <2>5, <2>7 DEF ListFrom
    <3> QED BY <1>5, <2>2, <3>1
  <2> QED BY <2>6, <2>7
<1>8. CASE Release(th, c)
  <2>1. ~WalkList(th, c)
    BY <1>8 DEF Release, WalkList
  <2>2. ASSUME NEW t \in ListFrom(head[aw[c]]) PROVE Taken(t)'
    <3>1. aw[c] \in Waitable
      BY <1>8, ReleaseLinks
    <3>2. t \in TaskBase /\ Waits(t) /\ Waits(t)' /\ aw[t] = aw[c] /\ aw'[t] = aw[c]
      BY <1>2, <1>4, <3>1 DEF Listed1
    <3>3. is_finished'[aw[c]]
      BY <1>1, <1>8, <3>1 DEF Release, TypeOK
    <3>4. t \in Task => HasLeft(t)
      BY <1>8 DEF Orderly
    <3>5. t \in Task => HasLeft(t)'
      BY <3>2, <3>4, LeftStays
    <3> QED BY <3>1, <3>2, <3>3, <3>5 DEF Taken
  <2>5. /\ aw[c] \in Waitable /\ ListFrom(task_list[c]) = {}
        /\ \A b \in Waitable : ListFrom(head[b])' = IF b = aw[c] THEN {} ELSE ListFrom(head[b])
        /\ \A d \in TaskBase : ListFrom(task_list[d])' = IF d = c THEN ListFrom(head[aw[c]])
                                                                ELSE ListFrom(task_list[d])
    BY <1>8, ReleaseLinks
  <2> QED BY <1>4, <1>5, <2>1, <2>2, <2>5 DEF ListFrom
<1>9. CASE WalkList(th, c)
  <2>1. /\ \A a \in Waitable : ListFrom(head[a])' = ListFrom(head[a])
        /\ \A d \in TaskBase :
             ListFrom(task_list[d])' =
               IF d = c THEN ListFrom(task_list[d]) \ {task_list[c]} ELSE ListFrom(task_list[d])
        /\ task_list[c] \in ListFrom(task_list[c])
    BY <1>9, WalkLinks
  <2>2. \A d \in TaskBase : \A t \in ListFrom(task_list[d])' :
        t \in ListFrom(task_list[d]) /\ t # task_list[c]
    <3>1. \A d \in TaskBase \ {c} : task_list[c] \notin ListFrom(task_list[d])
      BY <1>1, <2>1 DEF WaitLists
    <3> QED BY <2>1, <3>1
  <2>3. ASSUME NEW d \in TaskBase, NEW t \in ListFrom(task_list[d])' PROVE Taken(t)'
    <3>1. t \in ListFrom(task_list[d]) /\ t # task_list[c]
      BY <2>2
    <3> QED BY <1>5, <3>1
  <2>4. ASSUME NEW a \in Waitable, NEW t \in ListFrom(head[a])' PROVE Listed1(a, t)'
    BY <1>4, <2>1
  <2> QED BY <2>3, <2>4
<1> QED BY <1>6, <1>7, <1>8, <1>9, StepLinks

-----------------------------------------------------------------------------
(* Nobody is lost                                                          *)

\* Somebody runs t or will hand it over to be run.
Kept1(t) == Executing(t) \/ t \in pool \/ \E d \in TaskBase : InHands(d, t)

\* A task that can run stays in somebody's hands, whatever moves it.
LEMMA KeptInHands ==
  ASSUME Owned, NEW th \in TaskRunner, NEW c \in TaskBase, Step(th, c), Orderly,
         NEW t \in Task, m_state[t] = "Running", Kept1(t)
  PROVE  Kept1(t)'
<1>1. HandOver /\ current[th] = c
  BY OthersStay DEF Owned
<1>2. CASE switch_to(th, c)
  <2> PICK new : new = next_task[c]
    OBVIOUS
  <2>1. Switched(th, c, new)
    BY <1>2, AfterSwitch
  <2>2. CASE t = c
    BY <2>1, <2>2 DEF Switched, Kept1
  <2>3. CASE t = new \/ Executing(t)
    BY <2>1, <2>2, <2>3 DEF Switched, Kept1
  <2>4. CASE t \in pool
    BY <2>1, <2>4 DEF Switched, Kept1
  <2>5. ASSUME NEW d \in TaskBase, InHands(d, t), t # new PROVE Kept1(t)'
    <3>1. d # c
      BY <2>1, <2>5 DEF Switched, InHands, Switching, OnWay
    <3>2. d # new
      BY <2>1, <2>5 DEF Switched, InHands, Switching, OnWay, Owned, Tidy
    <3>3. InHands(d, t)'
      BY <2>1, <2>5, <3>1, <3>2 DEF Switched
    <3> QED BY <3>3 DEF Kept1
  <2> QED BY <2>3, <2>4, <2>5 DEF Kept1
<1>3. CASE ~switch_to(th, c)
  <2>1. UNCHANGED current
    BY <1>1, <1>3, OthersKeepStack
  <2>2. CASE Executing(t)
    BY <2>1, <2>2 DEF Executing, Kept1
  <2>3. CASE t \in pool \/ InHands(c, t)
    <3>1. /\ InHands(c, t) <=> Mine(th, c, t)
          /\ InHands(c, t)' <=> Mine(th, c, t)'
      BY <1>1, <2>1, MineInHands
    <3>2. t \in pool' \/ Mine(th, c, t)'
      BY <1>3, <2>3, <3>1, StepMovesTasks DEF Moves
    <3> QED BY <3>1, <3>2 DEF Kept1
  <2>4. ASSUME NEW d \in TaskBase \ {c}, InHands(d, t) PROVE Kept1(t)'
    <3>1. InHands(d, t)'
      BY <1>1, <1>3, <2>4, OthersKeepHands
    <3> QED BY <3>1 DEF Kept1
  <2> QED BY <2>2, <2>3, <2>4 DEF Kept1
<1> QED BY <1>2, <1>3

\* Task::Task switches to the task that it creates.
LEMMA NewIsKept ==
  ASSUME Owned, NEW th \in TaskRunner, NEW c \in TaskBase, NEW t \in Task, NewTask(th, c, t)
  PROVE  Kept1(t)'
<1>1. pc'[c] = "switch_to" /\ next_task'[c] = t
  BY DEF NewTask, Call, Owned, HandOver, Inv, TypeOK
<1>2. InHands(c, t)'
  BY <1>1 DEF InHands, Switching
<1> QED BY <1>2 DEF Kept1

\* What release() does to the task that it takes off its list.
LEMMA WalkTakes ==
  ASSUME Owned, NEW th \in TaskRunner, NEW c \in TaskBase, WalkList(th, c)
  PROVE  /\ task_list[c] \in TaskBase /\ task_list[c] # c /\ Waits(task_list[c])
         /\ m_state' = [m_state EXCEPT ![task_list[c]] = "Running"]
         /\ pc'[c] = "wake" /\ wakee'[c] = task_list[c]
         /\ \A t : t = task_list[c] => InHands(c, t)'
<1> PICK t : t = task_list[c]
  OBVIOUS
<1>1. t \in TaskBase /\ Waits(t) /\ pc[c] = "walk"
  <2>1. task_list[c] \in ListFrom(task_list[c])
    BY WalkLinks
  <2> QED BY <2>1 DEF Owned, Waiters, Waits, WalkList, HandOver, Inv, TypeOK
<1>2. t # c
  BY <1>1, RunningOutside DEF Scheduling, Waits
<1>3. m_state' = [m_state EXCEPT ![t] = "Running"] /\ pc'[c] = "wake" /\ wakee'[c] = t
  BY DEF WalkList, Owned, HandOver, Inv, TypeOK
<1>4. InHands(c, t)'
  BY <1>3 DEF InHands
<1> QED BY <1>1, <1>2, <1>3, <1>4

\* A Task that can run is kept, and so is one that a step lets run.
LEMMA StepKeepsRunning ==
  ASSUME Owned, NEW th \in TaskRunner, NEW c \in TaskBase, Step(th, c), Orderly,
         NEW t \in Task, Born(t)', m_state'[t] = "Running"
  PROVE  Kept1(t)'
<1>1. HandOver /\ TypeOK
  BY DEF Owned, HandOver, Inv
<1>2. CASE Born(t) /\ m_state[t] = "Running"
  <2>1. Kept1(t)
    BY <1>2 DEF Owned, Kept, Kept1
  <2> QED BY <1>2, <2>1, KeptInHands
<1>3. CASE ~Born(t)
  <2>1. PICK u \in Task : NewTask(th, c, u)
    BY <1>1, <1>3, BornByNewTask
  <2>2. u = t
    BY <1>1, <1>3, <2>1 DEF NewTask, Born, TypeOK
  <2> QED BY <2>1, <2>2, NewIsKept
<1>4. CASE m_state[t] # "Running"
  <2>1. CASE t = c
    <3>1. Executing(c)
      BY <1>1, OthersStay DEF Executing
    <3>2. CASE switch_to(th, c)
      <4>1. Switched(th, c, next_task[c])
        BY <3>2, AfterSwitch
      <4>2. m_state' = m_state
        BY <3>2 DEF switch_to
      <4> QED BY <1>4, <4>2
    <3>3. CASE ~switch_to(th, c)
      <4>1. UNCHANGED current
        BY <1>1, <3>3, OthersKeepStack
      <4> QED BY <2>1, <3>1, <4>1 DEF Executing, Kept1
    <3> QED BY <3>2, <3>3
  <2>2. CASE t # c
    <3>1. WalkList(th, c)
      BY <1>1, <1>4, <2>2, OthersKeepState
    <3>2. t = task_list[c]
      BY <1>1, <1>4, <3>1, WalkTakes DEF TypeOK
    <3>3. InHands(c, t)'
      BY <3>1, <3>2, WalkTakes
    <3> QED BY <3>3 DEF Kept1
  <2> QED BY <2>1, <2>2
<1> QED BY <1>2, <1>3, <1>4

\* It is in the list of an awaitable, or in that of a release().
InLists(t) == \/ \E a \in Waitable : t \in ListFrom(head[a])
              \/ \E d \in TaskBase : t \in ListFrom(task_list[d])

\* Only the compare-and-swap of wait() makes a task one that waits in a list.
LEMMA BeginsToWait ==
  ASSUME Owned, NEW th \in TaskRunner, NEW c \in TaskBase, Step(th, c), ~Waits(c), Waits(c)'
  PROVE  InsertInWaitlist(th, c)
<1>1. TypeOK
  BY DEF Owned, HandOver, Inv
<1>2. m_state[c] = "Waiting" => pc[c] = "insert"
  BY DEF Waits
<1> USE <1>1, <1>2 DEF TypeOK, Waits
<1>3. CASE Plain(th, c)
  BY <1>3 DEF Plain, Busy
<1>4. ASSUME NEW t \in Task, NewTask(th, c, t) PROVE InsertInWaitlist(th, c)
  BY <1>4 DEF NewTask, Call
<1>5. CASE ThreadReturns(th, c)
  BY <1>5 DEF ThreadReturns
<1>6. CASE Finish(th, c)
  BY <1>6 DEF Finish, GetNext
<1>7. CASE EnterWait(th, c)
  BY <1>7 DEF EnterWait
<1>8. CASE UndoWait(th, c)
  BY <1>8 DEF UndoWait
<1>9. CASE Release(th, c)
  BY <1>9 DEF Release
<1>10. CASE get_running_from_native(th, c)
  BY <1>10 DEF get_running_from_native
<1>11. CASE FallBack(th, c)
  BY <1>11 DEF FallBack
<1>12. CASE TakeTask(th, c)
  BY <1>12 DEF TakeTask
<1>13. CASE TakeList(th, c)
  BY <1>13 DEF TakeList
<1>14. CASE StoreTail(th, c)
  BY <1>14 DEF StoreTail
<1>15. CASE KeepFirst(th, c)
  BY <1>15 DEF KeepFirst
<1>16. CASE BadJump(th, c)
  BY <1>16 DEF BadJump
<1>17. CASE switch_to(th, c)
  BY <1>17 DEF switch_to
<1>18. CASE PostJump(th, c)
  BY <1>18 DEF PostJump
<1>19. CASE SavePrevContext(th, c)
  BY <1>19 DEF SavePrevContext
<1>20. CASE EnqueuePrev(th, c)
  BY <1>20 DEF EnqueuePrev, put_item
<1>21. CASE LeavePrev(th, c)
  BY <1>21 DEF LeavePrev
<1>22. CASE WalkList(th, c)
  <2>1. pc[c] = "walk" /\ (m_state'[c] = m_state[c] \/ m_state'[c] = "Running")
    BY <1>22, WalkTakes DEF WalkList
  <2> QED BY <2>1
<1>23. CASE WalkListEnd(th, c)
  BY <1>23 DEF WalkListEnd
<1>24. CASE WakeBound(th, c)
  BY <1>24 DEF WakeBound, is_thread_bound
<1>25. CASE WakeUnbound(th, c)
  BY <1>25 DEF WakeUnbound, put_item
<1>26. CASE NotifyNobody(th, c) \/ NotifyAll(th, c)
  <2>1. NotifyMoves(th, c)
    BY <1>26, NotifyStep
  <2> QED BY <2>1 DEF NotifyMoves
<1> QED BY <1>3, <1>4, <1>5, <1>6, <1>7, <1>8, <1>9, <1>10, <1>11, <1>12, <1>13, <1>14,
             <1>15, <1>16, <1>17, <1>18, <1>19, <1>20, <1>21, <1>22, <1>23, <1>24, <1>25,
             <1>26, PlainOrSpecial DEF Special

\* Who waits in a list is found there until it is made Running.
LEMMA StepKeepsListed ==
  ASSUME Owned, NEW th \in TaskRunner, NEW c \in TaskBase, Step(th, c),
         NEW t \in TaskBase, Waits(t)'
  PROVE  InLists(t)'
<1>1. HandOver /\ TypeOK
  BY DEF Owned, HandOver, Inv
<1>2. CASE Waits(t)
  <2>1. InLists(t)
    BY <1>2 DEF Owned, Kept, InLists, Waits
  <2>2. CASE UNCHANGED <<m_next, head, task_list>>
    BY <2>1, <2>2 DEF InLists, ListFrom
  <2>3. CASE InsertInWaitlist(th, c)
    <3>1. /\ \A b \in Waitable :
               t \in ListFrom(head[b]) => t \in ListFrom(head[b])'
          /\ \A d \in TaskBase : t \in ListFrom(task_list[d]) => t \in ListFrom(task_list[d])'
      BY <2>3, InsertLinks DEF ListFrom
    <3> QED BY <2>1, <3>1 DEF InLists, ListFrom
  <2>4. CASE Release(th, c)
    <3>1. /\ \A b \in Waitable :
               t \in ListFrom(head[b]) => t \in ListFrom(head[b])' \/ t \in ListFrom(task_list[c])'
          /\ \A d \in TaskBase : t \in ListFrom(task_list[d]) => t \in ListFrom(task_list[d])'
      BY <2>4, ReleaseLinks DEF ListFrom
    <3> QED BY <2>1, <3>1 DEF InLists, ListFrom
  <2>5. CASE WalkList(th, c)
    <3>1. t # task_list[c]
      <4>1. m_state'[t] # "Running"
        BY DEF Waits
      <4> QED BY <1>1, <2>5, <4>1, WalkTakes DEF TypeOK
    <3>2. /\ \A b \in Waitable : t \in ListFrom(head[b]) => t \in ListFrom(head[b])'
          /\ \A d \in TaskBase : t \in ListFrom(task_list[d]) => t \in ListFrom(task_list[d])'
      <4>1. \A b \in Waitable : ListFrom(head[b])' = ListFrom(head[b])
        BY <2>5, WalkLinks
      <4>2. ASSUME NEW d \in TaskBase,
      t \in ListFrom(task_list[d]) PROVE t \in ListFrom(task_list[d])'
        <5>1. ListFrom(task_list[d])' = IF d = c THEN ListFrom(task_list[d]) \ {task_list[c]}
                                         ELSE ListFrom(task_list[d])
          BY <2>5, WalkLinks DEF ListFrom
        <5> QED BY <3>1, <4>2, <5>1
      <4> QED BY <4>1, <4>2 DEF ListFrom
    <3> QED BY <2>1, <3>2 DEF InLists, ListFrom
  <2> QED BY <2>2, <2>3, <2>4, <2>5, StepLinks
<1>3. CASE ~Waits(t) /\ t = c
  <2>1. InsertInWaitlist(th, c)
    BY <1>3, BeginsToWait
  <2>2. aw[c] \in Waitable
    BY <2>1, InsertsNew
  <2>3. \A b \in Waitable : b = aw[c] => c \in ListFrom(head[b])'
    BY <2>1, InsertLinks DEF ListFrom
  <2> QED BY <1>3, <2>2, <2>3 DEF InLists, ListFrom
<1>4. CASE ~Waits(t) /\ t # c
  <2>1. m_state'[t] \in {m_state[t], "Running"}
    <3>1. CASE WalkList(th, c)
      BY <1>1, <3>1, WalkTakes DEF TypeOK
    <3> QED BY <1>1, <1>4, <3>1, OthersKeepState
  <2>2. pc[t] = "insert" => pc'[t] = "insert"
    BY <1>1, <1>4, OthersStay
  <2> QED BY <1>4, <2>1, <2>2 DEF Waits
<1> QED BY <1>2, <1>3, <1>4

\* The stack t sleeps in Futex::wait, or is about to, though it can run.
Sleeps(t) == pc[t] \in {"native_futex", "asleep"} /\ m_state[t] # "Waiting"

\* It has a token, or a release() is about to leave one.
Woken(t) == \/ pc[t] = "native_futex" /\ work[t]
            \/ \E d \in TaskBase : pc[d] = "wake" /\ wakee[d] = t

\* The work of a futex is taken by its own thread.
LEMMA WorkStays ==
  ASSUME Owned, NEW th \in TaskRunner, NEW c \in TaskBase, Step(th, c),
         NEW h \in TaskRunner \ {th}, work[h]
  PROVE  work'[h]
<1>1. TypeOK
  BY DEF Owned, HandOver, Inv
<1>2. CASE Plain(th, c)
  BY <1>2 DEF Plain
<1>3. CASE WakeBound(th, c)
  BY <1>1, <1>3 DEF WakeBound, is_thread_bound, TypeOK
<1>4. CASE NotifyNobody(th, c) \/ NotifyAll(th, c)
  BY <1>4 DEF NotifyNobody, NotifyAll
<1>5. CASE Special(th, c)
  BY <1>3, <1>4, <1>5 DEF Special, NewTask, ThreadReturns, Finish, EnterWait, UndoWait,
       InsertInWaitlist, Release, get_running_from_native, FallBack,
       TakeTask, TakeList, StoreTail, KeepFirst, switch_to, BadJump,
       PostJump, SavePrevContext, EnqueuePrev, LeavePrev, WalkList, WalkListEnd, WakeUnbound
<1> QED BY <1>2, <1>5, PlainOrSpecial

\* A release() that has a native task wakes it.
LEMMA WakesBound ==
  ASSUME Owned, NEW th \in TaskRunner, NEW c \in TaskBase, Step(th, c),
         pc[c] = "wake", wakee[c] \in TaskRunner
  PROVE  WakeBound(th, c)
<1>1. TypeOK
  BY DEF Owned, HandOver, Inv
<1> USE <1>1 DEF TypeOK
<1>2. CASE Plain(th, c)
  BY <1>2 DEF Plain, Busy
<1>3. ASSUME NEW t \in Task, NewTask(th, c, t) PROVE WakeBound(th, c)
  BY <1>3 DEF NewTask, Call
<1>4. CASE ThreadReturns(th, c)
  BY <1>4 DEF ThreadReturns
<1>5. CASE Finish(th, c)
  BY <1>5 DEF Finish, GetNext
<1>6. CASE EnterWait(th, c)
  BY <1>6 DEF EnterWait
<1>7. CASE UndoWait(th, c)
  BY <1>7 DEF UndoWait
<1>8. CASE InsertInWaitlist(th, c)
  BY <1>8 DEF InsertInWaitlist, GetNext
<1>9. CASE Release(th, c)
  BY <1>9 DEF Release
<1>10. CASE get_running_from_native(th, c)
  BY <1>10 DEF get_running_from_native
<1>11. CASE FallBack(th, c)
  BY <1>11 DEF FallBack
<1>12. CASE TakeTask(th, c)
  BY <1>12 DEF TakeTask
<1>13. CASE TakeList(th, c)
  BY <1>13 DEF TakeList
<1>14. CASE StoreTail(th, c)
  BY <1>14 DEF StoreTail
<1>15. CASE KeepFirst(th, c)
  BY <1>15 DEF KeepFirst
<1>16. CASE BadJump(th, c)
  BY <1>16 DEF BadJump
<1>17. CASE switch_to(th, c)
  BY <1>17 DEF switch_to
<1>18. CASE PostJump(th, c)
  BY <1>18 DEF PostJump
<1>19. CASE SavePrevContext(th, c)
  BY <1>19 DEF SavePrevContext
<1>20. CASE EnqueuePrev(th, c)
  BY <1>20 DEF EnqueuePrev, put_item
<1>21. CASE LeavePrev(th, c)
  BY <1>21 DEF LeavePrev
<1>22. CASE WalkList(th, c)
  BY <1>22 DEF WalkList
<1>23. CASE WalkListEnd(th, c)
  BY <1>23 DEF WalkListEnd
<1>24. CASE WakeUnbound(th, c)
  BY <1>24 DEF WakeUnbound, is_thread_bound
<1>25. CASE NotifyNobody(th, c) \/ NotifyAll(th, c)
  <2>1. NotifyMoves(th, c)
    BY <1>25, NotifyStep
  <2> QED BY <2>1 DEF NotifyMoves
<1> QED BY <1>2, <1>3, <1>4, <1>5, <1>6, <1>7, <1>8, <1>9, <1>10, <1>11, <1>12, <1>13, <1>14,
             <1>15, <1>16, <1>17, <1>18, <1>19, <1>20, <1>21, <1>22, <1>23, <1>24, <1>25,
             PlainOrSpecial DEF Special

\* Nobody sleeps on when it can run.
LEMMA StepKeepsWoken ==
  ASSUME Owned, NEW th \in TaskRunner, NEW c \in TaskBase, Step(th, c),
         NEW t \in TaskBase, Sleeps(t)'
  PROVE  Woken(t)'
<1>1. HandOver /\ TypeOK /\ current[th] = c
  BY OthersStay DEF Owned, HandOver, Inv
<1>2. ASSUME NEW d \in TaskBase \ {c}, pc[d] = "wake", wakee[d] = t PROVE Woken(t)'
  <2>1. pc'[d] = "wake" /\ wakee'[d] = t
    BY <1>1, <1>2, OthersStay, OthersKeepLocals
  <2> QED BY <2>1 DEF Woken
<1>3. CASE t = c
  <2>1. Plain(th, c)
    BY <1>3, StepArrives DEF Arrives, Sleeps
  <2>2. m_state[c] # "Waiting" /\ pc[c] = "native_futex" /\ ~work[th]
    BY <1>3, <2>1 DEF Plain, Sleeps
  <2>3. c = th
    BY <1>1, <2>2 DEF Owned, HandOver, Inv, TaskChecks, Tidy
  <2>4. PICK d \in TaskBase : pc[d] = "wake" /\ wakee[d] = c
    BY <2>2, <2>3 DEF Owned, Kept
  <2> QED BY <1>2, <1>3, <2>2, <2>4
<1>4. CASE t # c
  <2>1. pc'[t] = pc[t]
    BY <1>1, <1>4, OthersStay DEF Sleeps
  <2>2. t \in TaskRunner \ {th}
    <3>1. t \in TaskRunner
      BY <2>1 DEF Owned, HandOver, Inv, TaskChecks, Sleeps
    <3>2. PICK h \in TaskRunner : current[h] = t
      BY <1>1, <2>1 DEF HandOver, LeftAtJump, Executing, Sleeps
    <3> QED BY <1>1, <1>4, <3>1, <3>2 DEF Owned, Tidy
  <2>3. CASE m_state[t] # "Waiting"
    <3>1. Woken(t)
      BY <2>1, <2>3 DEF Owned, Kept, Sleeps, Woken
    <3>2. CASE pc[t] = "native_futex" /\ work[t]
      BY <2>1, <2>2, <3>2, WorkStays DEF Woken
    <3>3. CASE pc[c] = "wake" /\ wakee[c] = t
      <4>1. WakeBound(th, c)
        BY <2>2, <3>3, WakesBound
      <4>2. work'[t] /\ pc'[t] # "asleep"
        BY <1>1, <1>4, <2>2, <3>3, <4>1 DEF WakeBound, TypeOK, GetNext
      <4> QED BY <4>2 DEF Woken, Sleeps
    <3> QED BY <1>2, <3>1, <3>2, <3>3 DEF Woken
  <2>4. CASE m_state[t] = "Waiting"
    <3>1. WalkList(th, c)
      BY <1>1, <1>4, <2>4, OthersKeepState DEF Sleeps
    <3>2. t = task_list[c]
      BY <1>1, <2>4, <3>1, WalkTakes DEF TypeOK, Sleeps
    <3>3. pc'[c] = "wake" /\ wakee'[c] = t
      BY <3>1, <3>2, WalkTakes
    <3> QED BY <3>3 DEF Woken
  <2> QED BY <2>3, <2>4
<1> QED BY <1>3, <1>4

\* The three together.
LEMMA StepKeepsKept ==
  ASSUME Owned, NEW th \in TaskRunner, NEW c \in TaskBase, Step(th, c), Orderly
  PROVE  Kept'
<1>1. \A t \in Task : Born(t)' /\ m_state'[t] = "Running" => Kept1(t)'
  BY StepKeepsRunning
<1>2. \A t \in TaskBase : Waits(t)' => InLists(t)'
  BY StepKeepsListed
<1>3. \A t \in TaskBase : Sleeps(t)' => Woken(t)'
  BY StepKeepsWoken
<1> QED BY <1>1, <1>2, <1>3 DEF Kept, Kept1, Waits, InLists, Sleeps, Woken

-----------------------------------------------------------------------------
(* The contexts, and the destroyed tasks                                   *)

\* Task::Task and post_jump_fcontext save contexts, and nobody else, when no Task takes
\* back its wait().
LEMMA NullStays ==
  ASSUME Owned, NEW th \in TaskRunner, NEW c \in TaskBase, Step(th, c), Orderly,
         NEW t \in Task, m_context[t] = "null",
         ~NewTask(th, c, t), ~(SavePrevContext(th, c) /\ t = prev_task[c])
  PROVE  m_context'[t] = "null"
<1>1. TypeOK
  BY DEF Owned, HandOver, Inv
<1>2. CASE Plain(th, c)
  BY <1>2 DEF Plain
<1>3. ASSUME NEW u \in Task, NewTask(th, c, u) PROVE m_context'[t] = "null"
  BY <1>1, <1>3 DEF NewTask, TypeOK
<1>4. CASE UndoWait(th, c)
  <2>1. c # t
    BY <1>4 DEF Orderly
  <2> QED BY <1>1, <1>4, <2>1 DEF UndoWait, TypeOK
<1>5. CASE EnterWait(th, c) \/ PostJump(th, c) \/ SavePrevContext(th, c)
  BY <1>1, <1>5 DEF EnterWait, PostJump, SavePrevContext, TypeOK
<1>6. CASE Special(th, c)
  BY <1>3, <1>4, <1>5, <1>6 DEF Special, ThreadReturns, Finish,
       InsertInWaitlist, Release, get_running_from_native, FallBack,
       TakeTask, TakeList, StoreTail, KeepFirst, switch_to, BadJump,
       EnqueuePrev, LeavePrev, WalkList, WalkListEnd, WakeBound, WakeUnbound,
       NotifyNobody, NotifyAll
<1> QED BY <1>2, <1>6, PlainOrSpecial

\* A task that a thread executes has no context to jump to.
LEMMA StepKeepsExecuting ==
  ASSUME Owned, NEW th \in TaskRunner, NEW c \in TaskBase, Step(th, c), Orderly,
         NEW t \in Task, Executing(t)', pc'[t] # "post_jump"
  PROVE  m_context'[t] = "null"
<1>1. HandOver /\ TypeOK /\ Contexts /\ current[th] = c
  BY OthersStay DEF Owned, HandOver, Inv
<1>2. Executing(t)
  <2>1. CASE switch_to(th, c)
    <3> PICK new : new = next_task[c]
      OBVIOUS
    <3>1. Switched(th, c, new)
      BY <2>1, AfterSwitch
    <3> QED BY <3>1 DEF Switched
  <2> QED BY <1>1, <2>1, OthersKeepStack DEF Executing
<1>3. Born(t)
  BY <1>1, <1>2 DEF HandOver, BornOnly, Executing
<1>4. CASE pc[t] = "post_jump"
  <2>1. t = c
    BY <1>1, <1>4, OthersStay
  <2>2. PostJump(th, c) \/ pc'[c] = "post_jump"
    <3>1. Plain(th, c) => pc[c] # "post_jump"
      BY DEF Plain, Busy, OnWay
    <3>2. Special(th, c) => PostJump(th, c) \/ pc[c] # "post_jump"
      <4>1. NotifyNobody(th, c) \/ NotifyAll(th, c) => pc[c] # "post_jump"
        BY NotifyStep DEF NotifyMoves
      <4> QED BY <4>1 DEF Special, NewTask, Call, ThreadReturns, Finish, EnterWait, UndoWait,
       InsertInWaitlist, Release, get_running_from_native, FallBack,
       TakeTask, TakeList, StoreTail, KeepFirst, switch_to, BadJump,
       SavePrevContext, EnqueuePrev, LeavePrev, WalkList, WalkListEnd, WakeBound, WakeUnbound
    <3> QED BY <1>4, <2>1, <3>1, <3>2, PlainOrSpecial
  <2> QED BY <1>1, <2>1, <2>2 DEF PostJump, TypeOK
<1>5. CASE pc[t] # "post_jump"
  <2>1. m_context[t] = "null"
    BY <1>1, <1>2, <1>5 DEF Contexts
  <2>2. ~NewTask(th, c, t)
    BY <1>3 DEF NewTask, Born
  <2>3. ~(SavePrevContext(th, c) /\ t = prev_task[c])
    <3>1. SavePrevContext(th, c) => InHands(c, prev_task[c])
      BY DEF SavePrevContext, InHands, OnWay
    <3> QED BY <1>2, <3>1 DEF Owned, OneHand
  <2> QED BY <2>1, <2>2, <2>3, NullStays
<1> QED BY <1>4, <1>5

\* Nor has one whose context is about to be saved.
LEMMA StepKeepsUnsaved ==
  ASSUME Owned, NEW th \in TaskRunner, NEW c \in TaskBase, Step(th, c), Orderly,
         NEW d \in TaskBase, NEW t \in Task,
         pc'[d] \in {"post_jump", "save_prev"}, prev_task'[d] = t
  PROVE  m_context'[t] = "null"
<1>1. HandOver /\ TypeOK /\ Contexts /\ current[th] = c
  BY OthersStay DEF Owned, HandOver, Inv
<1>2. ASSUME pc[d] \in {"post_jump", "save_prev"}, prev_task[d] = t,
             ~(SavePrevContext(th, c) /\ d = c)
      PROVE  m_context'[t] = "null"
  <2>1. m_context[t] = "null"
    BY <1>1, <1>2 DEF Contexts
  <2>2. ~NewTask(th, c, t)
    BY <1>1, <1>2 DEF NewTask, HandOver, BornOnly, Born
  <2>3. ~(SavePrevContext(th, c) /\ t = prev_task[c])
    <3>1. SavePrevContext(th, c) => InHands(c, prev_task[c])
      BY DEF SavePrevContext, InHands, OnWay
    <3>2. InHands(d, t)
      BY <1>2 DEF InHands, OnWay
    <3> QED BY <1>2, <3>1, <3>2 DEF Owned, OneHand
  <2> QED BY <2>1, <2>2, <2>3, NullStays
<1>3. CASE switch_to(th, c)
  <2> PICK new : new = next_task[c]
    OBVIOUS
  <2>1. Switched(th, c, new)
    BY <1>3, AfterSwitch
  <2>2. d # c
    BY <2>1 DEF Switched, Owned, Tidy, OnWay
  <2>3. CASE d = new
    <3>1. t = c
      BY <2>1, <2>3 DEF Switched
    <3>2. m_context[c] = "null" /\ m_context' = m_context
      BY <1>1, <2>1, <3>1 DEF Switched, Contexts
    <3> QED BY <3>1, <3>2
  <2>4. CASE d # new
    <3>1. pc[d] \in {"post_jump", "save_prev"} /\ prev_task[d] = t
      BY <2>1, <2>2, <2>4 DEF Switched
    <3> QED BY <1>2, <2>2, <3>1
  <2> QED BY <2>3, <2>4
<1>4. CASE ~switch_to(th, c)
  <2>1. CASE d = c
    <3>1. PostJump(th, c)
      BY <1>4, <2>1, StepArrives DEF Arrives
    <3>2. pc[c] = "post_jump" /\ prev_task[c] = t
      BY <2>1, <3>1 DEF PostJump
    <3>3. ~SavePrevContext(th, c)
      BY <3>2 DEF SavePrevContext
    <3> QED BY <1>2, <2>1, <3>2, <3>3
  <2>2. CASE d # c
    <3>1. prev_task[d] = t
      BY <1>1, <1>4, <2>2, OthersKeepPrev
    <3>2. pc[d] \in {"post_jump", "save_prev"}
      BY <1>1, <2>2, OthersStay
    <3> QED BY <1>2, <2>2, <3>1, <3>2
  <2> QED BY <2>1, <2>2
<1> QED BY <1>3, <1>4

\* ~Task returns when the task has left its stack for ever.
LEMMA StepKeepsDestroyed ==
  ASSUME Owned, NEW th \in TaskRunner, NEW c \in TaskBase, Step(th, c), Orderly,
         NEW t \in Task, life'[t] = "destroyed"
  PROVE  m_state'[t] = "Finished" /\ ~Executing(t)'
<1>1. HandOver /\ TypeOK /\ Contexts /\ current[th] = c
  BY OthersStay DEF Owned, HandOver, Inv
<1>2. m_state[t] = "Finished" /\ ~Executing(t)
  <2>1. CASE life[t] = "destroyed"
    BY <1>1, <2>1 DEF Contexts
  <2>2. CASE m_state[t] = "Finished" /\ m_context[t] # "null"
    <3>1. ASSUME Executing(t) PROVE FALSE
      <4>1. pc[t] = "post_jump"
        BY <1>1, <2>2, <3>1 DEF Contexts
      <4> QED BY <2>2, <3>1, <4>1 DEF Owned, JumpsToRunning, Executing, OnWay
    <3> QED BY <2>2, <3>1
  <2>3. CASE Plain(th, c)
    BY <2>1, <2>2, <2>3 DEF Plain
  <2>4. ASSUME NEW u \in Task, NewTask(th, c, u) PROVE life[t] = "destroyed"
    BY <1>1, <2>4 DEF NewTask, TypeOK
  <2>5. CASE Special(th, c)
    BY <2>1, <2>4, <2>5 DEF Special, ThreadReturns, Finish, EnterWait, UndoWait,
       InsertInWaitlist, Release, get_running_from_native, FallBack,
       TakeTask, TakeList, StoreTail, KeepFirst, switch_to, BadJump, PostJump, SavePrevContext,
       EnqueuePrev, LeavePrev, WalkList, WalkListEnd, WakeBound, WakeUnbound,
       NotifyNobody, NotifyAll
  <2> QED BY <2>3, <2>5, PlainOrSpecial
<1>3. ~Executing(t)'
  <2>1. CASE switch_to(th, c)
    <3> PICK new : new = next_task[c]
      OBVIOUS
    <3>1. Switched(th, c, new)
      BY <2>1, AfterSwitch
    <3>2. t # new
      <4>1. new \in Task => Ready(new)
        BY <3>1 DEF Ready, Switched, OnWay
      <4> QED BY <1>2, <4>1 DEF Owned, ReadyRuns
    <3> QED BY <1>2, <3>1, <3>2 DEF Switched
  <2> QED BY <1>1, <1>2, <2>1, OthersKeepStack DEF Executing
<1>4. m_state'[t] = "Finished"
  <2>1. t # c
    BY <1>1, <1>2 DEF Executing
  <2>2. CASE WalkList(th, c)
    BY <1>1, <1>2, <2>2, WalkTakes DEF TypeOK, Waits
  <2> QED BY <1>1, <1>2, <2>1, <2>2, OthersKeepState
<1> QED BY <1>3, <1>4

\* The three together.
LEMMA StepKeepsContexts ==
  ASSUME Owned, NEW th \in TaskRunner, NEW c \in TaskBase, Step(th, c), Orderly
  PROVE  Contexts'
<1>1. ASSUME NEW t \in Task PROVE Executing(t)' /\ pc'[t] # "post_jump" => m_context'[t] = "null"
  BY StepKeepsExecuting
<1>2. ASSUME NEW t \in Task, NEW d \in TaskBase
      PROVE  pc'[d] \in {"post_jump", "save_prev"} /\ prev_task'[d] = t => m_context'[t] = "null"
  BY StepKeepsUnsaved
<1>3. ASSUME NEW t \in Task
      PROVE  life'[t] = "destroyed" => m_state'[t] = "Finished" /\ ~Executing(t)'
  BY StepKeepsDestroyed
<1> QED BY <1>1, <1>2, <1>3 DEF Contexts

-----------------------------------------------------------------------------
(* The invariant                                                           *)

\* At first every thread is on its native stack and nobody has anything.
LEMMA OwnedInit == Init => Owned
<1> SUFFICES ASSUME Init PROVE Owned
  OBVIOUS
<1>1. HandOver
  BY HandOverInit
<1>2. \A t : ListFrom(Null) = {}
  <2>1. m_next \in Lists!Link
    BY DEF Init, Lists!Link
  <2> QED BY <2>1, Lists!NullHasNoItems, ListItems
<1>3. Lists!Chain(m_next, Null)
  BY <1>2, ListItems DEF Lists!Chain
<1>4. \A c \in TaskBase, t \in TaskBase : ~InHands(c, t)
  BY DEF Init, InHands, OnWay, Switching
<1>5. NoWaiterLeftBehind /\ Tidy /\ JumpsToRunning /\ States
  BY DEF Init, NoWaiterLeftBehind, Tidy, JumpsToRunning, States, OnWay, Switching, Scheduling
<1>6. \A t \in Task : ~Executing(t) /\ ~Born(t)
  BY DEF Init, Executing, Born
<1>7. \A t \in TaskBase : /\ pool = {} /\ prev_task[t] = Null /\ task_list[t] = Null
                          /\ m_state[t] = "Running"
                          /\ pc[t] \in {"bg_loop", "post_jump", "user"}
  BY DEF Init
<1>8. \A a \in Waitable : head[a] = Null
  BY DEF Init
<1>9. OneHand /\ ReadyRuns
  BY <1>4, <1>7 DEF Init, OneHand, ReadyRuns, Ready
<1>10. WaitLists /\ Waiters
  BY <1>2, <1>3, <1>7, <1>8 DEF WaitLists, Waiters
<1>11. Kept
  BY <1>6, <1>7 DEF Kept
<1>12. Contexts
  BY <1>6, <1>7 DEF Contexts, Init
<1> QED BY <1>1, <1>5, <1>9, <1>10, <1>11, <1>12 DEF Owned

\* Every orderly step keeps the whole of it.
LEMMA OwnedStep == Owned /\ [Next]_vars /\ [Orderly]_vars => Owned'
<1> SUFFICES ASSUME Owned, [Next]_vars, [Orderly]_vars PROVE Owned'
  OBVIOUS
<1>1. HandOver' /\ NoWaiterLeftBehind'
  BY HandOverStep, ReleasedStaysEmpty DEF Owned, HandOver, Inv
<1>2. ASSUME NEW th \in TaskRunner, NEW c \in TaskBase, Step(th, c), Orderly
      PROVE  Owned'
  <2>1. OneHand'
    BY <1>2, StepKeepsOneHand, SwitchKeepsOneHand
  <2> QED BY <1>1, <1>2, <2>1, StepKeepsTidy, StepKeepsJumps, StepKeepsReady, StepKeepsStates,
            StepKeepsLists, StepKeepsWaiters, StepKeepsKept, StepKeepsContexts DEF Owned
<1>3. ASSUME UNCHANGED vars PROVE Owned'
  <2>1. UNCHANGED <<m_state, m_context, m_next, head, is_finished, pool, batch, current, work,
                    life, pc, back, aw, next_task, prev_task, task_list, null_context_tasks,
                    wakee>>
    BY <1>3 DEF vars
  <2>2. Tidy' /\ JumpsToRunning' /\ OneHand' /\ ReadyRuns' /\ States'
    BY <2>1 DEF Owned, Tidy, JumpsToRunning, OneHand, ReadyRuns, States, Executing, InHands,
         Ready, Born
  <2>3. WaitLists' /\ Waiters'
    BY <2>1 DEF Owned, WaitLists, Waiters, ListFrom, HasLeft, Executing
  <2>4. Kept' /\ Contexts'
    BY <2>1 DEF Owned, Kept, Contexts, Executing, InHands, ListFrom, Born
  <2> QED BY <1>1, <2>2, <2>3, <2>4 DEF Owned
<1>4. CASE UNCHANGED vars
  BY <1>3, <1>4
<1>5. CASE Next /\ Orderly /\ ~UNCHANGED vars
  BY <1>2, <1>5 DEF Next, ThreadStep, Exit
<1> QED BY <1>4, <1>5

\* So it holds at every moment of an orderly behaviour.
LEMMA AlwaysOwned == OrderlySpec => []Owned
BY OwnedInit, OwnedStep, PTL DEF OrderlySpec, Spec

-----------------------------------------------------------------------------
(* What it says of the properties                                          *)

\* A list without a first task has none.
LEMMA EmptyList ==
  ASSUME Owned
  PROVE  ListFrom(Null) = {}
<1>1. m_next \in Lists!Link
  BY DEF Owned, HandOver, Inv, TypeOK, Lists!Link
<1> QED BY <1>1, Lists!NullHasNoItems, ListItems

\* Who is in a list that a release() holds is on nobody's way.
LEMMA HeldIsFree ==
  ASSUME Owned, NEW t \in Task, NEW c \in TaskBase, t \in ListFrom(task_list[c])
  PROVE  Free(t)
<1>1. m_state[t] = "Waiting" /\ HasLeft(t)
  BY DEF Owned, Waiters
<1>2. ~Ready(t)
  BY <1>1 DEF Owned, ReadyRuns
<1> QED BY <1>1, <1>2 DEF HasLeft, Free, Ready, OnWay, InHands, Switching

\* The owners of t: a thread, the queue, the function that has t in its hands, or the
\* release() that has it in its list.
Runs(t, o) == \E th \in TaskRunner : current[th] = t /\ o = <<"runs", th>>
Queued(t, o) == t \in pool /\ o = <<"queue", pool>>
Handed(t, o) ==
    \E c \in TaskBase :
        /\ InHands(c, t)
        /\ pc[c] = "store_tail" => \E th \in TaskRunner : current[th] = c /\ o = <<"batch", th>>
        /\ pc[c] \in Switching => o = <<"jump", c>>
        /\ pc[c] = "wake" => o = <<"release", c>>
        /\ pc[c] \in OnWay => o = <<"save", c>>
Held(t, o) == \E c \in TaskBase : t \in ListFrom(task_list[c]) /\ o = <<"release", c>>

\* There are no others.
LEMMA OwnerKinds ==
  ASSUME Owned, NEW t \in Task, NEW o \in Owners(t)
  PROVE  Runs(t, o) \/ Queued(t, o) \/ Handed(t, o) \/ Held(t, o)
<1>1. CASE \E th \in TaskRunner : current[th] = t /\ o = <<"runs", th>>
  BY <1>1 DEF Runs
<1>2. CASE t \in pool /\ o = <<"queue", pool>>
  BY <1>2 DEF Queued
<1>3. ASSUME NEW th \in TaskRunner, t \in batch[th], o = <<"batch", th>>
      PROVE  Handed(t, o)
  <2>1. current[th] \in TaskBase /\ pc[current[th]] = "store_tail"
    BY <1>3 DEF Owned, HandOver, Inv, TypeOK, Tidy
  <2>2. InHands(current[th], t)
    BY <1>3, <2>1 DEF InHands
  <2> QED BY <1>3, <2>1, <2>2 DEF Handed, Switching, OnWay
<1>4. ASSUME NEW c \in Jumpers(t), o = <<"jump", c>> PROVE Handed(t, o)
  BY <1>4 DEF Jumpers, Handed, InHands, Switching, OnWay
<1>5. ASSUME NEW c \in Savers(t), o = <<"save", c>> PROVE Handed(t, o)
  BY <1>5 DEF Savers, Handed, InHands, Switching, OnWay
<1>6. ASSUME NEW c \in Holders(t), o = <<"release", c>> PROVE Handed(t, o) \/ Held(t, o)
  <2>1. c \in TaskBase /\ null_context_tasks[c] = Null /\ pc[c] # "spin"
    BY DEF Holders, Owned, Tidy
  <2>2. CASE pc[c] = "wake" /\ wakee[c] = t
    BY <1>6, <2>1, <2>2 DEF Handed, InHands, Switching, OnWay
  <2>3. CASE t \in ListFrom(task_list[c])
    BY <1>6, <2>1, <2>3 DEF Held
  <2> QED BY <2>1, <2>2, <2>3, EmptyList DEF Holders
<1>7. \/ \E th \in TaskRunner : current[th] = t /\ o = <<"runs", th>>
      \/ \E th \in TaskRunner : t \in batch[th] /\ o = <<"batch", th>>
      \/ t \in pool /\ o = <<"queue", pool>>
      \/ \E c \in Jumpers(t) : o = <<"jump", c>>
      \/ \E c \in Savers(t) : o = <<"save", c>>
      \/ \E c \in Holders(t) : o = <<"release", c>>
  BY DEF Owners
<1> QED BY <1>1, <1>2, <1>3, <1>4, <1>5, <1>6, <1>7

\* Two owners of one task are the same.
LEMMA OneOfThem ==
  ASSUME Owned, NEW t \in Task, NEW o \in Owners(t), NEW p \in Owners(t)
  PROVE  o = p
<1>1. CASE \E c \in TaskBase : t \in ListFrom(task_list[c])
  <2>1. Free(t)
    BY <1>1, HeldIsFree
  <2>2. ~Runs(t, o) /\ ~Queued(t, o) /\ ~Handed(t, o)
    BY <2>1 DEF Free, Executing, Runs, Queued, Handed
  <2>3. ~Runs(t, p) /\ ~Queued(t, p) /\ ~Handed(t, p)
    BY <2>1 DEF Free, Executing, Runs, Queued, Handed
  <2>4. PICK c \in TaskBase : t \in ListFrom(task_list[c]) /\ o = <<"release", c>>
    BY <2>2, OwnerKinds DEF Held
  <2>5. PICK d \in TaskBase : t \in ListFrom(task_list[d]) /\ p = <<"release", d>>
    BY <2>3, OwnerKinds DEF Held
  <2> QED BY <2>4, <2>5 DEF Owned, WaitLists
<1>2. CASE ~\E c \in TaskBase : t \in ListFrom(task_list[c])
  <2>1. ~Held(t, o) /\ ~Held(t, p)
    BY <1>2 DEF Held
  <2>2. CASE Executing(t)
    <3>1. Runs(t, o) /\ Runs(t, p)
      BY <2>1, <2>2, OwnerKinds DEF Owned, OneHand, Queued, Handed
    <3> QED BY <3>1 DEF Runs, Owned, HandOver, Inv, StacksApart
  <2>3. CASE ~Executing(t) /\ t \in pool
    <3>1. Queued(t, o) /\ Queued(t, p)
      BY <2>1, <2>3, OwnerKinds DEF Owned, OneHand, Runs, Executing, Handed
    <3> QED BY <3>1 DEF Queued
  <2>4. CASE ~Executing(t) /\ t \notin pool
    <3>1. Handed(t, o) /\ Handed(t, p)
      BY <2>1, <2>4, OwnerKinds DEF Runs, Executing, Queued
    <3>2. PICK c \in TaskBase :
            /\ InHands(c, t)
            /\ pc[c] = "store_tail" =>
                 \E th \in TaskRunner : current[th] = c /\ o = <<"batch", th>>
            /\ pc[c] \in Switching => o = <<"jump", c>>
            /\ pc[c] = "wake" => o = <<"release", c>>
            /\ pc[c] \in OnWay => o = <<"save", c>>
      BY <3>1 DEF Handed
    <3>3. PICK d \in TaskBase :
            /\ InHands(d, t)
            /\ pc[d] = "store_tail" =>
                 \E th \in TaskRunner : current[th] = d /\ p = <<"batch", th>>
            /\ pc[d] \in Switching => p = <<"jump", d>>
            /\ pc[d] = "wake" => p = <<"release", d>>
            /\ pc[d] \in OnWay => p = <<"save", d>>
      BY <3>1 DEF Handed
    <3>4. c = d
      BY <3>2, <3>3 DEF Owned, OneHand
    <3>5. pc[c] = "store_tail" \/ pc[c] \in Switching \/ pc[c] = "wake" \/ pc[c] \in OnWay
      BY <3>2 DEF InHands
    <3> QED BY <3>2, <3>3, <3>4, <3>5 DEF Owned, HandOver, Inv, StacksApart
  <2> QED BY <2>2, <2>3, <2>4
<1> QED BY <1>1, <1>2

\* A task that waits is in the list of an awaitable that is not released, or in that of
\* a release() that has not come to it yet.
LEMMA WaitsAreFound ==
  ASSUME Owned, NEW t \in TaskBase, Waits(t)
  PROVE  Listed(t) \/ Holders(t) # {}
<1>1. ASSUME NEW a \in Waitable, t \in ListFrom(head[a]) PROVE Listed(t)
  <2>1. ~is_finished[a]
    BY <1>1, EmptyList DEF Owned, NoWaiterLeftBehind
  <2> QED BY <1>1, <2>1 DEF Listed
<1>2. ASSUME NEW c \in TaskBase, t \in ListFrom(task_list[c]) PROVE c \in Holders(t)
  <2>1. pc[c] \in {"walk", "wake", "notify_walk"}
    BY <1>2, EmptyList DEF Owned, Tidy
  <2> QED BY <1>2, <2>1 DEF Holders
<1> QED BY <1>1, <1>2 DEF Owned, Kept, Waits

-----------------------------------------------------------------------------
(* The theorems                                                            *)

\* A Task is on one thread, or in the queue, or in the hands of one function: two
\* threads never come to run one stack (scheduler.cpp:265).
THEOREM TaskHasOneOwner == OrderlySpec => []OneOwner
<1>1. ASSUME Owned, NEW t \in Task PROVE Cardinality(Owners(t)) <= 1
  <2>1. Owners(t) = {} \/ \E o \in Owners(t) : Owners(t) = {o}
    BY <1>1, OneOfThem
  <2>2. Cardinality(Owners(t)) \in {0, 1}
    BY <2>1, FS_EmptySet, FS_Singleton
  <2> QED BY <2>2
<1>2. Owned => OneOwner
  BY <1>1 DEF OneOwner
<1> QED BY <1>2, AlwaysOwned, PTL

\* No Task is forgotten: one that is not Finished is run, or will be by somebody, or
\* waits in a list that a release() will find.
THEOREM NoTaskIsLost == OrderlySpec => []NoLostTask
<1>1. ASSUME Owned, NEW t \in Task, life[t] \in {"alive", "destructing"},
             m_state[t] # "Finished"
      PROVE  Owners(t) # {} \/ Listed(t)
  <2>1. \/ m_state[t] = "Running"
        \/ Waits(t)
        \/ pc[t] = "insert" /\ m_state[t] = "Waiting"
    BY <1>1 DEF Owned, HandOver, Inv, TypeOK, Waits
  <2>2. Born(t)
    BY <1>1 DEF Born
  <2>3. CASE Executing(t)
    <3>1. PICK th \in TaskRunner : current[th] = t
      BY <2>3 DEF Executing
    <3>2. <<"runs", th>> \in Owners(t)
      BY <3>1 DEF Owners
    <3> QED BY <3>2
  <2>4. CASE t \in pool
    <3>1. <<"queue", pool>> \in Owners(t)
      BY <2>4 DEF Owners
    <3> QED BY <3>1
  <2>5. ASSUME m_state[t] = "Running", NEW c \in TaskBase, InHands(c, t) PROVE Owners(t) # {}
    <3>1. CASE pc[c] = "store_tail"
      <4>1. PICK th \in TaskRunner : t \in batch[th]
        BY <3>1, <2>5 DEF InHands, Switching, OnWay
      <4>2. <<"batch", th>> \in Owners(t)
        BY <4>1 DEF Owners
      <4> QED BY <4>2
    <3>2. CASE pc[c] \in Switching
      <4>1. c \in Jumpers(t)
        BY <3>2, <2>5 DEF InHands, Jumpers, Switching, OnWay
      <4>2. <<"jump", c>> \in Owners(t)
        BY <4>1 DEF Owners
      <4> QED BY <4>2
    <3>3. CASE pc[c] \in OnWay
      <4>1. c \in Savers(t)
        BY <3>3, <2>5 DEF InHands, Savers, Switching, OnWay
      <4>2. <<"save", c>> \in Owners(t)
        BY <4>1 DEF Owners
      <4> QED BY <4>2
    <3>4. CASE pc[c] = "wake"
      <4>1. c \in Holders(t)
        BY <3>4, <2>5 DEF InHands, Holders, Switching, OnWay
      <4>2. <<"release", c>> \in Owners(t)
        BY <4>1 DEF Owners
      <4> QED BY <4>2
    <3> QED BY <2>5, <3>1, <3>2, <3>3, <3>4 DEF InHands
  <2>6. CASE m_state[t] = "Running"
    BY <2>2, <2>3, <2>4, <2>5, <2>6, <1>1 DEF Owned, Kept
  <2>7. CASE Waits(t)
    <3>1. ASSUME NEW c \in Holders(t) PROVE <<"release", c>> \in Owners(t)
      BY <3>1 DEF Owners
    <3> QED BY <2>7, <3>1, <1>1, WaitsAreFound
  <2>8. CASE pc[t] = "insert"
    BY <2>3, <2>8, <2>2, <1>1 DEF Owned, HandOver, LeftAtJump
  <2> QED BY <2>1, <2>6, <2>7, <2>8
<1>2. Owned => NoLostTask
  BY <1>1 DEF NoLostTask
<1> QED BY <1>2, AlwaysOwned, PTL

\* Whoever waits, or sleeps on its native_futex, can still be woken.
THEOREM WaiterCanBeWoken == OrderlySpec => []WaiterHasWaker
<1>1. ASSUME Owned, NEW t \in TaskBase, pc[t] = "asleep", m_state[t] # "Waiting"
      PROVE  Holders(t) # {}
  BY <1>1 DEF Owned, Kept, Holders
<1>2. Owned => WaiterHasWaker
  BY <1>1, WaitsAreFound DEF WaiterHasWaker, Waits
<1> QED BY <1>2, AlwaysOwned, PTL

\* get_item() finds only tasks that have left their stacks and can run (scheduler.cpp:213).
THEOREM QueueHoldsSaved == OrderlySpec => []QueuedIsSaved
<1>1. ASSUME Owned, NEW t \in TaskBase, InQueue(t)
      PROVE  t \in Task /\ m_context[t] = "saved" /\ m_state[t] = "Running" /\ ~Executing(t)
  <2>1. t \in Task
    BY <1>1 DEF InQueue, Owned, Tidy
  <2>2. CASE t \in pool
    BY <2>1, <2>2, <1>1 DEF Owned, OneHand, ReadyRuns, Ready
  <2>3. ASSUME NEW th \in TaskRunner, t \in batch[th]
        PROVE  Ready(t) /\ ~Executing(t)
    <3>1. current[th] \in TaskBase /\ pc[current[th]] = "store_tail"
      BY <1>1, <2>3 DEF Owned, HandOver, Inv, TypeOK, Tidy
    <3>2. InHands(current[th], t) /\ pc[current[th]] \notin OnWay
      BY <2>3, <3>1 DEF InHands, OnWay
    <3> QED BY <1>1, <2>1, <3>1, <3>2 DEF Ready, Owned, OneHand
  <2> QED BY <1>1, <2>1, <2>2, <2>3 DEF InQueue, Owned, ReadyRuns
<1>2. Owned => QueuedIsSaved
  BY <1>1 DEF QueuedIsSaved
<1> QED BY <1>2, AlwaysOwned, PTL

\* When ~Task returns nobody is on the stack that it unmaps, or about to switch to it.
THEOREM DestroyedStackIsLeft == OrderlySpec => []DestroyedIsLeft
<1>1. ASSUME Owned, NEW t \in Task, life[t] = "destroyed", NEW o \in Owners(t)
      PROVE  FALSE
  <2>1. m_state[t] = "Finished" /\ ~Executing(t)
    BY <1>1 DEF Owned, Contexts
  <2>2. ~Ready(t)
    BY <1>1, <2>1 DEF Owned, ReadyRuns
  <2>3. \A c \in TaskBase : t \notin ListFrom(task_list[c])
    BY <1>1, <2>1 DEF Owned, Waiters
  <2>4. ~Runs(t, o) /\ ~Queued(t, o) /\ ~Held(t, o)
    BY <2>1, <2>2, <2>3 DEF Runs, Executing, Queued, Ready, Held
  <2>5. PICK c \in TaskBase : InHands(c, t) /\ (pc[c] \in OnWay => o = <<"save", c>>)
    BY <1>1, <2>4, OwnerKinds DEF Handed
  <2>6. o = <<"save", c>>
    BY <2>2, <2>5 DEF Ready
  <2>7. c \in Savers(t)
    BY <1>1, <2>6 DEF Owners
  <2> QED BY <2>1, <2>7 DEF Savers
<1>2. Owned => DestroyedIsLeft
  BY <1>1 DEF DestroyedIsLeft
<1> QED BY <1>2, AlwaysOwned, PTL

\* Nobody switches to a task that _run_wrapper has Finished (task.cpp:127).
THEOREM FinishedIsNeverResumed == OrderlySpec => []NeverResumed
<1>1. Owned => NeverResumed
  BY DEF Owned, States, NeverResumed
<1> QED BY <1>1, AlwaysOwned, PTL

\* wait() returns only when its awaitable has been released (awaitable.hpp:63).
THEOREM WaitEndsWithRelease == OrderlySpec => []WaitReturnsReleased
<1>1. ASSUME Owned, NEW t \in TaskBase, pc[t] = "waited" PROVE is_finished[aw[t]]
  <2>1. back[t] = "waited" /\ m_state[t] # "Waiting"
    BY <1>1 DEF Owned, States, Scheduling
  <2> QED BY <1>1, <2>1 DEF Owned, States
<1>2. Owned => WaitReturnsReleased
  BY <1>1 DEF WaitReturnsReleased
<1> QED BY <1>2, AlwaysOwned, PTL

-----------------------------------------------------------------------------
(* The promise of Coroutines                                               *)

\* Where a stack is that no wait() has in schedule().
Outside == {"user", "done", "wait", "insert", "waited", "destroy"}

\* What the functions that a stack is in have come to: one in wait() is Waiting until its
\* awaitable is released, _run_wrapper has released the task before it says Finished.
CallsOf(t) ==
    /\ back[t] \in {"waited", "destroy"}
         => pc[t] \in Scheduling \cup OnWay \cup {"notify_back"} \cup Outside
    /\ InWait(t) => aw[t] \in Waitable /\ (m_state[t] = "Waiting" \/ is_finished[aw[t]])
    /\ pc[t] = "finish" => back[t] = "finish"
    /\ back[t] = "finish" => t \in Task /\ aw[t] = t /\ (pc[t] = "release" \/ is_finished[t])
    /\ pc[t] = "destructor" => back[t] = "destructor"
    /\ back[t] = "destructor" => aw[t] \in Task
    /\ t \in Task /\ m_state[t] = "Finished" => is_finished[t]

Calls == \A t \in TaskBase : CallsOf(t)

\* A step begins a wait with the compare-and-swap, and ends one where schedule() returns.
OwnWait(th, c) ==
    \/ (InWait(c)' <=> InWait(c)) /\ (InWait(c) => aw'[c] = aw[c])
    \/ InsertInWaitlist(th, c) /\ ~InWait(c) /\ InWait(c)' /\ aw'[c] = aw[c]
    \/ /\ pc[c] \in OnWay \cup {"notify_back", "check_running"}
       /\ InWait(c) /\ ~InWait(c)' /\ is_finished[aw[c]]

\* The stack that makes the step keeps to them, and begins and ends its wait so.
LEMMA OwnCalls ==
  ASSUME Owned, NEW th \in TaskRunner, NEW c \in TaskBase, CallsOf(c), Step(th, c)
  PROVE  CallsOf(c)' /\ OwnWait(th, c)
<1>1. /\ TypeOK /\ back[c] \in Back /\ current[th] = c
      /\ c \in TaskRunner => c = th
      /\ pc[c] \in {"wait", "insert", "release"} => aw[c] \in Waitable
  BY OthersStay DEF Owned, HandOver, Inv, TypeOK, LocalsSet, Tidy
<1>2. pc[c] \notin Scheduling \cup {"insert", "done"} => m_state[c] = "Running"
  BY RunningOutside
<1>3. pc[c] = "insert" => m_state[c] = "Waiting"
  BY DEF Owned, States
<1>4. pc[c] \in OnWay => m_state[c] = "Running"
  BY <1>1 DEF Owned, JumpsToRunning
<1>5. back[c] = "unreachable" => m_state[c] = "Finished"
  BY DEF Owned, States
<1> USE <1>1, <1>2, <1>3, <1>4, <1>5
    DEF TypeOK, CallsOf, OwnWait, InWait, Scheduling, OnWay, Outside, Back, GetNext
<1>6. ASSUME NEW t \in Task, NewTask(th, c, t)
      PROVE  CallsOf(c)' /\ OwnWait(th, c)
  BY <1>6 DEF NewTask, Call
<1>7. ASSUME NEW t \in Task, DeleteTask(th, c, t)
      PROVE  CallsOf(c)' /\ OwnWait(th, c)
  BY <1>7 DEF DeleteTask, Call
<1>8. ASSUME NEW t \in Task, Join(th, c, t)
      PROVE  CallsOf(c)' /\ OwnWait(th, c)
  BY <1>8 DEF Join, Call
<1>9. ASSUME NEW a \in Awaitable, Wait(th, c, a)
      PROVE  CallsOf(c)' /\ OwnWait(th, c)
  BY <1>9 DEF Wait, Call
<1>10. ASSUME NEW a \in Awaitable, CallRelease(th, c, a)
      PROVE  CallsOf(c)' /\ OwnWait(th, c)
  BY <1>10 DEF CallRelease, Call
<1>11. ASSUME NEW a \in Awaitable, DeleteAwaitable(th, c, a)
      PROVE  CallsOf(c)' /\ OwnWait(th, c)
  BY <1>11 DEF DeleteAwaitable, Call
<1>12. CASE Yield(th, c)
  BY <1>12 DEF Yield, Call
<1>13. CASE AwaitableDestroyed(th, c)
  BY <1>13 DEF AwaitableDestroyed
<1>14. CASE DestructorYield(th, c)
  BY <1>14 DEF DestructorYield
<1>15. CASE DestructorReturn(th, c)
  BY <1>15 DEF DestructorReturn
<1>16. CASE ThreadReturns(th, c)
  BY <1>16 DEF ThreadReturns, AtEnd
<1>17. CASE RunnableReturns(th, c)
  BY <1>17 DEF RunnableReturns, AtEnd
<1>18. CASE Finish(th, c)
  BY <1>18 DEF Finish
<1>19. CASE Unreachable(th, c)
  BY <1>19 DEF Unreachable
<1>20. CASE NoWait(th, c)
  BY <1>20 DEF NoWait
<1>21. CASE EnterWait(th, c)
  BY <1>21 DEF EnterWait
<1>22. CASE UndoWait(th, c)
  BY <1>22 DEF UndoWait
<1>23. CASE InsertInWaitlist(th, c)
  BY <1>23 DEF InsertInWaitlist, AfterWait
<1>24. CASE WaitReturns(th, c)
  BY <1>24 DEF WaitReturns
<1>25. CASE Release(th, c)
  BY <1>25 DEF Release
<1>26. CASE ReleaseAgain(th, c)
  BY <1>26 DEF ReleaseAgain
<1>27. CASE get_running_from_native(th, c)
  BY <1>27 DEF get_running_from_native
<1>28. CASE NativeNotRunning(th, c)
  BY <1>28 DEF NativeNotRunning
<1>29. CASE TakeTask(th, c)
  BY <1>29 DEF TakeTask
<1>30. CASE TakeList(th, c)
  BY <1>30 DEF TakeList
<1>31. CASE StoreTail(th, c)
  BY <1>31 DEF StoreTail
<1>32. CASE KeepFirst(th, c)
  BY <1>32 DEF KeepFirst
<1>33. CASE QueueEmpty(th, c)
  BY <1>33 DEF QueueEmpty
<1>34. CASE FallBack(th, c)
  BY <1>34 DEF FallBack
<1>35. CASE NoNextTask(th, c)
  BY <1>35 DEF NoNextTask
<1>36. CASE CheckRunning(th, c)
  BY <1>36 DEF CheckRunning
<1>37. CASE CheckWaiting(th, c)
  BY <1>37 DEF CheckWaiting
<1>38. CASE NativeFutexWait(th, c)
  BY <1>38 DEF NativeFutexWait
<1>39. CASE switch_to(th, c)
  BY <1>39 DEF switch_to
<1>40. CASE BadJump(th, c)
  BY <1>40 DEF BadJump
<1>41. CASE PostJump(th, c)
  BY <1>41 DEF PostJump
<1>42. CASE SavePrevContext(th, c)
  BY <1>42 DEF SavePrevContext
<1>43. CASE EnqueuePrev(th, c)
  BY <1>43 DEF EnqueuePrev
<1>44. CASE LeavePrev(th, c)
  BY <1>44 DEF LeavePrev
<1>45. CASE WalkList(th, c)
  BY <1>45 DEF WalkList
<1>46. CASE WalkListEnd(th, c)
  BY <1>46 DEF WalkListEnd
<1>47. CASE WakeBound(th, c)
  BY <1>47 DEF WakeBound
<1>48. CASE WakeUnbound(th, c)
  BY <1>48 DEF WakeUnbound
<1>49. CASE WalkDelayedEnd(th, c)
  BY <1>49 DEF WalkDelayedEnd
<1>50. CASE BgSchedule(th, c)
  BY <1>50 DEF BgSchedule
<1>51. CASE BgWait(th, c)
  BY <1>51 DEF BgWait
<1>52. CASE BgFutexWait(th, c)
  BY <1>52 DEF BgFutexWait
<1>53. CASE NotifyNobody(th, c) \/ NotifyAll(th, c)
  <2>1. NotifyMoves(th, c)
    BY <1>53, NotifyStep
  <2> QED BY <2>1 DEF NotifyMoves
<1>54. CASE ClientStep(th, c)
  BY <1>54, <1>6, <1>7, <1>8, <1>9, <1>10, <1>11, <1>12, <1>13, <1>14, <1>15, <1>16, <1>17,
       <1>18, <1>19 DEF ClientStep
<1>55. CASE AwaitableStep(th, c)
  BY <1>55, <1>20, <1>21, <1>22, <1>23, <1>24, <1>25, <1>26 DEF AwaitableStep
<1>56. CASE ScheduleStep(th, c)
  BY <1>56, <1>27, <1>28, <1>29, <1>30, <1>31, <1>32, <1>33, <1>34, <1>35, <1>36, <1>37,
       <1>38, <1>39, <1>40, <1>41, <1>42, <1>43, <1>44 DEF ScheduleStep
<1>57. CASE WakeStep(th, c)
  BY <1>57, <1>45, <1>46, <1>47, <1>48, <1>49, <1>53, NobodyDelayed DEF WakeStep
<1>58. CASE BgStep(th, c)
  BY <1>58, <1>50, <1>51, <1>52 DEF BgStep
<1> QED BY <1>54, <1>55, <1>56, <1>57, <1>58 DEF Step

\* The others are where they were.
LEMMA OthersCalls ==
  ASSUME Owned, NEW th \in TaskRunner, NEW c \in TaskBase, Step(th, c),
         NEW t \in TaskBase \ {c}, CallsOf(t)
  PROVE  CallsOf(t)' /\ (InWait(t)' <=> InWait(t)) /\ aw'[t] = aw[t]
<1>1. \/ pc'[t] = pc[t]
      \/ pc[t] = "asleep" /\ pc'[t] = "from_queue"
      \/ pc[t] = "bg_asleep" /\ pc'[t] = "bg_woken"
  BY OthersStay DEF Owned
<1>2. aw'[t] = aw[t] /\ back'[t] = back[t]
  BY OthersKeepLocals DEF Owned
<1>3. InWait(t)' <=> InWait(t)
  BY <1>1, <1>2 DEF InWait
<1>4. /\ aw[t] \in Waitable /\ is_finished[aw[t]] => is_finished'[aw'[t]]
      /\ t \in Task /\ is_finished[t] => is_finished'[t]
  BY <1>2, ReleasedStays
<1>5. InWait(t) => aw[t] \in Waitable
  BY DEF CallsOf
<1>6. InWait(t) => m_state'[t] = m_state[t] \/ is_finished'[aw'[t]]
  <2>1. CASE m_state'[t] # m_state[t]
    <3>1. WalkList(th, c)
      BY <2>1, OthersKeepState DEF Owned
    <3>2. task_list[c] \in TaskBase /\ m_state' = [m_state EXCEPT ![task_list[c]] = "Running"]
      BY <3>1, WalkTakes
    <3>3. t = task_list[c]
      BY <2>1, <3>2 DEF Owned, HandOver, Inv, TypeOK
    <3>4. t \in ListFrom(task_list[c])
      BY <3>1, <3>3, WalkLinks
    <3>5. aw[t] \in Waitable /\ is_finished[aw[t]]
      BY <3>4 DEF Owned, Waiters
    <3> QED BY <3>5, <1>4
  <2> QED BY <2>1
<1>7. m_state'[t] # m_state[t] => m_state'[t] = "Running"
  <2>1. CASE WalkList(th, c)
    <3>1. task_list[c] \in TaskBase /\ m_state' = [m_state EXCEPT ![task_list[c]] = "Running"]
      BY <2>1, WalkTakes
    <3> QED BY <3>1 DEF Owned, HandOver, Inv, TypeOK
  <2> QED BY <2>1, OthersKeepState DEF Owned
<1>8. /\ (back[t] \in {"waited", "destroy"}
            => pc[t] \in Scheduling \cup OnWay \cup {"notify_back"} \cup Outside)'
      /\ (pc[t] = "finish" => back[t] = "finish")'
      /\ (pc[t] = "destructor" => back[t] = "destructor")'
      /\ (back[t] = "destructor" => aw[t] \in Task)'
  BY <1>1, <1>2 DEF CallsOf, Scheduling, OnWay, Outside
<1>9. (InWait(t) => aw[t] \in Waitable /\ (m_state[t] = "Waiting" \/ is_finished[aw[t]]))'
  BY <1>2, <1>3, <1>4, <1>5, <1>6 DEF CallsOf
<1>10. (back[t] = "finish" => t \in Task /\ aw[t] = t /\ (pc[t] = "release" \/ is_finished[t]))'
  BY <1>1, <1>2, <1>4 DEF CallsOf
<1>11. (t \in Task /\ m_state[t] = "Finished" => is_finished[t])'
  BY <1>4, <1>7 DEF CallsOf
<1> QED BY <1>2, <1>3, <1>8, <1>9, <1>10, <1>11 DEF CallsOf

\* What the promise is about.
WaitsNow == [t \in TaskBase |-> IF InWait(t) THEN aw[t] ELSE Null]
ReleasedNow == {a \in Waitable : is_finished[a]}
FinishedNow == {t \in Task : m_state[t] = "Finished"}
DestroyedNow == {a \in Waitable : life[a] = "destroyed"}

\* A task comes to its end in _run_wrapper only.
LEMMA OnlyFinish ==
  ASSUME Owned, NEW th \in TaskRunner, NEW c \in TaskBase, Step(th, c)
  PROVE  UNCHANGED FinishedNow \/ Finish(th, c)
<1>1. TypeOK /\ (pc[c] = "insert" => m_state[c] = "Waiting")
  BY DEF Owned, HandOver, Inv, States
<1>2. pc[c] \notin Scheduling \cup {"insert", "done"} => m_state[c] = "Running"
  BY RunningOutside
<1>3. ASSUME UNCHANGED m_state PROVE UNCHANGED FinishedNow
  BY <1>3 DEF FinishedNow
<1>4. ASSUME NEW x \in TaskBase, NEW s \in {"Running", "Waiting"}, m_state[x] # "Finished",
             m_state' = [m_state EXCEPT ![x] = s]
      PROVE  UNCHANGED FinishedNow
  BY <1>1, <1>4 DEF FinishedNow, TypeOK
<1>5. CASE Plain(th, c)
  BY <1>3, <1>5 DEF Plain
<1>6. CASE ThreadReturns(th, c)
  BY <1>1, <1>6 DEF ThreadReturns, FinishedNow, TypeOK
<1>7. CASE EnterWait(th, c) \/ UndoWait(th, c)
  BY <1>1, <1>2, <1>4, <1>7 DEF EnterWait, UndoWait, Scheduling
<1>8. CASE WalkList(th, c)
  <2>1. /\ task_list[c] \in TaskBase /\ m_state[task_list[c]] = "Waiting"
        /\ m_state' = [m_state EXCEPT ![task_list[c]] = "Running"]
    BY <1>8, WalkTakes DEF Waits
  <2> QED BY <1>4, <2>1
<1>9. CASE Special(th, c)
  BY <1>3, <1>6, <1>7, <1>8, <1>9 DEF Special, NewTask,
       InsertInWaitlist, Release, get_running_from_native, FallBack,
       TakeTask, TakeList, StoreTail, KeepFirst, switch_to, BadJump, PostJump, SavePrevContext,
       EnqueuePrev, LeavePrev, WalkListEnd, WakeBound, WakeUnbound, NotifyNobody, NotifyAll
<1> QED BY <1>5, <1>9, PlainOrSpecial

\* Objects are destroyed where their destructors return.
LEMMA OnlyDestructors ==
  ASSUME Owned, NEW th \in TaskRunner, NEW c \in TaskBase, Step(th, c)
  PROVE  UNCHANGED DestroyedNow \/ DestructorReturn(th, c) \/ AwaitableDestroyed(th, c)
<1>1. TypeOK
  BY DEF Owned, HandOver, Inv
<1>2. ASSUME UNCHANGED life PROVE UNCHANGED DestroyedNow
  BY <1>2 DEF DestroyedNow
<1>3. ASSUME NEW x \in Waitable, NEW s \in {"alive", "destructing"}, life[x] # "destroyed",
             life' = [life EXCEPT ![x] = s]
      PROVE  UNCHANGED DestroyedNow
  BY <1>1, <1>3 DEF DestroyedNow, TypeOK
<1>4. ASSUME NEW t \in Task, NewTask(th, c, t) \/ DeleteTask(th, c, t)
      PROVE  UNCHANGED DestroyedNow
  BY <1>3, <1>4 DEF NewTask, DeleteTask
<1>5. ASSUME NEW a \in Awaitable, DeleteAwaitable(th, c, a) PROVE UNCHANGED DestroyedNow
  BY <1>3, <1>5 DEF DeleteAwaitable
<1>6. CASE ClientStep(th, c)
  BY <1>2, <1>4, <1>5, <1>6 DEF ClientStep, Yield, Join, Wait, CallRelease,
       DestructorYield, ThreadReturns, RunnableReturns, Finish, Unreachable
<1>7. CASE AwaitableStep(th, c)
  BY <1>2, <1>7 DEF AwaitableStep, NoWait, EnterWait, UndoWait, InsertInWaitlist, WaitReturns,
       Release, ReleaseAgain
<1>8. CASE ScheduleStep(th, c)
  BY <1>2, <1>8 DEF ScheduleStep, get_running_from_native, NativeNotRunning, TakeTask,
       TakeList, StoreTail, KeepFirst, QueueEmpty, FallBack, NoNextTask, CheckRunning,
       CheckWaiting, NativeFutexWait, switch_to, BadJump, PostJump, SavePrevContext,
       EnqueuePrev, LeavePrev
<1>9. CASE WakeStep(th, c)
  BY <1>2, <1>9 DEF WakeStep, WalkList, WalkListEnd, WakeBound, WakeUnbound, DelayUnbound,
       WalkDelayed, WalkDelayedEnd, EnqueueDelayed, NotifyNobody, NotifyAll
<1>10. CASE BgStep(th, c)
  BY <1>2, <1>10 DEF BgStep, BgSchedule, BgWait, BgFutexWait
<1> QED BY <1>6, <1>7, <1>8, <1>9, <1>10 DEF Step

\* Each of the four parts has its own step.
LEMMA OneOfThePromise ==
  ASSUME Owned, NEW th \in TaskRunner, NEW c \in TaskBase, Step(th, c)
  PROVE  /\ UNCHANGED current \/ switch_to(th, c)
         /\ UNCHANGED ReleasedNow \/ Release(th, c)
         /\ UNCHANGED FinishedNow \/ Finish(th, c)
         /\ \/ UNCHANGED DestroyedNow
            \/ DestructorReturn(th, c) \/ AwaitableDestroyed(th, c)
<1>1. UNCHANGED is_finished \/ Release(th, c)
  BY OnlyWaitAndRelease DEF InsertInWaitlist
<1> QED BY <1>1, OthersKeepStack, OnlyFinish, OnlyDestructors DEF ReleasedNow, Owned

\* No wait begins or ends but on the stack that makes the step.
LEMMA WaitsMove ==
  ASSUME Owned, Calls, NEW th \in TaskRunner, NEW c \in TaskBase, Step(th, c)
  PROVE  /\ Calls'
         /\ \/ UNCHANGED WaitsNow
            \/ /\ InsertInWaitlist(th, c) /\ WaitsNow[c] = Null
               /\ WaitsNow' = [WaitsNow EXCEPT ![c] = aw[c]]
            \/ /\ pc[c] \in OnWay \cup {"notify_back", "check_running"}
               /\ WaitsNow[c] \in ReleasedNow
               /\ WaitsNow' = [WaitsNow EXCEPT ![c] = Null]
<1>1. CallsOf(c) /\ CallsOf(c)' /\ OwnWait(th, c)
  BY OwnCalls DEF Calls
<1>2. \A t \in TaskBase \ {c} : CallsOf(t)' /\ (InWait(t)' <=> InWait(t)) /\ aw'[t] = aw[t]
  BY OthersCalls DEF Calls
<1>3. Calls'
  BY <1>1, <1>2 DEF Calls
<1>4. CASE (InWait(c)' <=> InWait(c)) /\ (InWait(c) => aw'[c] = aw[c])
  BY <1>2, <1>3, <1>4 DEF WaitsNow
<1>5. CASE InsertInWaitlist(th, c) /\ ~InWait(c) /\ InWait(c)' /\ aw'[c] = aw[c]
  BY <1>2, <1>3, <1>5 DEF WaitsNow
<1>6. CASE /\ pc[c] \in OnWay \cup {"notify_back", "check_running"}
           /\ InWait(c) /\ ~InWait(c)' /\ is_finished[aw[c]]
  <2>1. WaitsNow[c] \in ReleasedNow
    BY <1>1, <1>6 DEF WaitsNow, ReleasedNow, CallsOf
  <2>2. WaitsNow' = [WaitsNow EXCEPT ![c] = Null]
    BY <1>2, <1>6 DEF WaitsNow
  <2> QED BY <1>3, <1>6, <2>1, <2>2
<1> QED BY <1>1, <1>3, <1>4, <1>5, <1>6 DEF OwnWait

\* The switch of a thread is the Switch of the promise.
LEMMA SwitchIsPromised ==
  ASSUME Owned, Calls, NEW th \in TaskRunner, NEW c \in TaskBase, Step(th, c), switch_to(th, c)
  PROVE  Promise!Next
<1> PICK new : new = next_task[c]
  OBVIOUS
<1>2. TypeOK /\ new \in TaskBase /\ ~Executing(new) /\ current[th] = c /\ pc[c] = "switch_to"
  BY SwitchMoves DEF switch_to, Owned, HandOver, Inv
<1>3. new \in Task \cup {th}
  BY <1>2 DEF Owned, JumpsToRunning, Switching
<1>4. new \notin FinishedNow \cup DestroyedNow
  <2>1. CASE new \in Task
    <3>1. InHands(c, new)
      BY <1>2 DEF InHands, Switching
    <3>2. Ready(new)
      BY <1>2, <3>1 DEF Ready, OnWay
    <3> QED BY <2>1, <3>2 DEF FinishedNow, DestroyedNow, Owned, ReadyRuns, Contexts
  <2> QED BY <1>3, <2>1 DEF FinishedNow, DestroyedNow
<1>5. current' = [current EXCEPT ![th] = new]
  BY DEF switch_to
<1>6. UNCHANGED <<WaitsNow, ReleasedNow, FinishedNow, DestroyedNow>>
  <2>1. UNCHANGED WaitsNow
    BY <1>2, WaitsMove DEF OnWay, InsertInWaitlist
  <2> QED BY <2>1 DEF switch_to, ReleasedNow, FinishedNow, DestroyedNow
<1>7. Promise!Switch(th, new)
  BY <1>2, <1>4, <1>5, <1>6 DEF Promise!Switch, Promise!Executing, Executing,
       WaitsNow, ReleasedNow, FinishedNow, DestroyedNow
<1> QED BY <1>3, <1>7 DEF Promise!Next

\* The compare-and-swap of wait() is the Wait of the promise.
LEMMA WaitIsPromised ==
  ASSUME Owned, Calls, DestroyedUntouched, NEW th \in TaskRunner, NEW c \in TaskBase,
         Step(th, c), InsertInWaitlist(th, c)
  PROVE  Promise!Next
<1>1. aw[c] \in Waitable /\ current[th] = c /\ pc[c] = "insert"
  BY InsertsNew DEF InsertInWaitlist
<1>2. aw[c] \notin DestroyedNow
  BY <1>1 DEF DestroyedUntouched, Using, DestroyedNow
<1>3. \/ UNCHANGED WaitsNow
      \/ WaitsNow[c] = Null /\ WaitsNow' = [WaitsNow EXCEPT ![c] = aw[c]]
  BY <1>1, WaitsMove DEF OnWay
<1>4. ~InWait(c) /\ InWait(c)' /\ aw'[c] = aw[c]
  <2>1. TypeOK
    BY DEF Owned, HandOver, Inv
  <2> QED BY <1>1, <2>1 DEF TypeOK, InWait, InsertInWaitlist, AfterWait, GetNext
<1>5. WaitsNow[c] = Null /\ WaitsNow'[c] = aw[c] /\ aw[c] # Null
  BY <1>1, <1>4 DEF WaitsNow
<1>6. WaitsNow' = [WaitsNow EXCEPT ![c] = aw[c]]
  BY <1>3, <1>5
<1>7. UNCHANGED <<current, ReleasedNow, FinishedNow, DestroyedNow>>
  BY DEF InsertInWaitlist, ReleasedNow, FinishedNow, DestroyedNow
<1> PICK a : a = aw[c]
  OBVIOUS
<1>8. Promise!Wait(c, a)
  BY <1>1, <1>2, <1>5, <1>6, <1>7 DEF Promise!Wait, Promise!Executing,
       WaitsNow, ReleasedNow, FinishedNow, DestroyedNow
<1> QED BY <1>1, <1>8 DEF Promise!Next

\* schedule() returns to wait() after the release: the Return of the promise.
LEMMA ReturnIsPromised ==
  ASSUME Owned, NEW th \in TaskRunner, NEW c \in TaskBase, Step(th, c),
         pc[c] \in OnWay \cup {"notify_back", "check_running"},
         WaitsNow[c] \in ReleasedNow, WaitsNow' = [WaitsNow EXCEPT ![c] = Null]
  PROVE  Promise!Next
<1>1. current[th] = c
  BY OthersStay DEF Owned
<1>2. UNCHANGED <<current, ReleasedNow, FinishedNow, DestroyedNow>>
  BY OneOfThePromise DEF OnWay, switch_to, Release, Finish, DestructorReturn, AwaitableDestroyed
<1>3. Promise!Return(c)
  BY <1>1, <1>2 DEF Promise!Return, Promise!Executing,
       WaitsNow, ReleasedNow, FinishedNow, DestroyedNow
<1> QED BY <1>3 DEF Promise!Next

\* The exchange of release() is the Release of the promise.
LEMMA ReleaseIsPromised ==
  ASSUME Owned, Calls, DestroyedUntouched, NEW th \in TaskRunner, NEW c \in TaskBase,
         Step(th, c), Release(th, c)
  PROVE  Promise!Next
<1>1. TypeOK /\ aw[c] \in Waitable /\ pc[c] = "release" /\ ~is_finished[aw[c]]
  BY ReleaseLinks DEF Release, Owned, HandOver, Inv
<1>2. aw[c] \notin ReleasedNow \cup DestroyedNow
  BY <1>1 DEF DestroyedUntouched, Using, ReleasedNow, DestroyedNow
<1>3. ReleasedNow' = ReleasedNow \cup {aw[c]}
  BY <1>1 DEF Release, ReleasedNow, TypeOK
<1>4. UNCHANGED <<current, WaitsNow, FinishedNow, DestroyedNow>>
  <2>1. UNCHANGED WaitsNow
    BY <1>1, WaitsMove DEF OnWay, InsertInWaitlist
  <2> QED BY <2>1 DEF Release, FinishedNow, DestroyedNow
<1> PICK a : a = aw[c]
  OBVIOUS
<1>5. Promise!Release(a)
  BY <1>2, <1>3, <1>4 DEF Promise!Release, WaitsNow, ReleasedNow, FinishedNow, DestroyedNow
<1> QED BY <1>1, <1>5 DEF Promise!Next

\* The end of _run_wrapper is the Finish of the promise: the task has released its waiters.
LEMMA FinishIsPromised ==
  ASSUME Owned, Calls, NEW th \in TaskRunner, NEW c \in TaskBase, Step(th, c), Finish(th, c)
  PROVE  Promise!Next
<1>1. TypeOK /\ current[th] = c /\ pc[c] = "finish"
  BY DEF Finish, Owned, HandOver, Inv
<1>2. c \in Task /\ back[c] = "finish" /\ is_finished[c]
  BY <1>1 DEF Calls, CallsOf
<1>3. WaitsNow[c] = Null /\ c \in ReleasedNow
  BY <1>2 DEF WaitsNow, ReleasedNow, InWait
<1>4. FinishedNow' = FinishedNow \cup {c}
  BY <1>1, <1>2 DEF Finish, FinishedNow, TypeOK
<1>5. UNCHANGED <<current, WaitsNow, ReleasedNow, DestroyedNow>>
  <2>1. UNCHANGED WaitsNow
    BY <1>1, WaitsMove DEF OnWay, InsertInWaitlist
  <2> QED BY <2>1 DEF Finish, ReleasedNow, DestroyedNow
<1>6. Promise!Finish(c)
  BY <1>1, <1>3, <1>4, <1>5 DEF Promise!Finish, Promise!Executing,
       WaitsNow, ReleasedNow, FinishedNow, DestroyedNow
<1> QED BY <1>2, <1>6 DEF Promise!Next

\* Nobody is left in the wait of an awaitable that is destroyed before its release.
LEMMA NobodyWaitsForGone ==
  ASSUME Owned, Calls, DestroyedUntouched', NEW a \in Waitable, life'[a] = "destroyed",
         UNCHANGED head, ~is_finished[a], NEW t \in TaskBase
  PROVE  WaitsNow[t] # a
<1> SUFFICES ASSUME WaitsNow[t] = a PROVE FALSE
  OBVIOUS
<1>1. InWait(t) /\ aw[t] = a
  BY DEF WaitsNow
<1>2. Waits(t)
  BY <1>1 DEF Calls, CallsOf, Waits, InWait
<1>3. CASE \E b \in Waitable : t \in ListFrom(head[b])
  <2>1. t \in ListFrom(head[a])
    BY <1>1, <1>3 DEF Owned, Waiters
  <2>2. head[a] = Null
    BY DEF DestroyedUntouched
  <2> QED BY <2>1, <2>2, EmptyList
<1>4. CASE \E d \in TaskBase : t \in ListFrom(task_list[d])
  BY <1>1, <1>4 DEF Owned, Waiters
<1> QED BY <1>2, <1>3, <1>4 DEF Owned, Kept, Waits

\* The return of a destructor is the Destroy of the promise.
LEMMA DestroyIsPromised ==
  ASSUME Owned, Calls, DestroyedUntouched', Orderly,
         NEW th \in TaskRunner, NEW c \in TaskBase, Step(th, c),
         DestructorReturn(th, c) \/ AwaitableDestroyed(th, c)
  PROVE  Promise!Next \/ UNCHANGED Promise!vars
<1> PICK a : a = aw[c]
  OBVIOUS
<1>1. TypeOK /\ pc[c] \in {"destructor", "destroy"}
  BY DEF DestructorReturn, AwaitableDestroyed, Owned, HandOver, Inv
<1>2. /\ life' = [life EXCEPT ![a] = "destroyed"]
      /\ UNCHANGED <<current, head, is_finished, m_state>>
  BY DEF DestructorReturn, AwaitableDestroyed
<1>3. a \in Waitable
  BY DEF Calls, CallsOf, DestructorReturn, AwaitableDestroyed, Owned, States
<1>4. UNCHANGED <<current, WaitsNow, ReleasedNow, FinishedNow>>
  <2>1. UNCHANGED WaitsNow
    BY <1>1, WaitsMove DEF OnWay, InsertInWaitlist
  <2> QED BY <1>2, <2>1 DEF ReleasedNow, FinishedNow
<1>5. DestroyedNow' = DestroyedNow \cup {a}
  BY <1>1, <1>2, <1>3 DEF DestroyedNow, TypeOK
<1>6. CASE a \in DestroyedNow
  <2>1. UNCHANGED DestroyedNow
    BY <1>5, <1>6
  <2> QED BY <1>4, <2>1 DEF Promise!vars, WaitsNow, ReleasedNow, FinishedNow, DestroyedNow
<1>7. CASE a \notin DestroyedNow
  <2>1. life'[a] = "destroyed"
    BY <1>1, <1>2, <1>3 DEF TypeOK
  <2>2. a \in Task => a \in FinishedNow /\ a \in ReleasedNow /\ ~Executing(a)
    <3>1. CASE a \in Task
      <4>1. m_state[a] = "Finished" /\ ~Executing(a)
        BY <1>2, <2>1, <3>1, StepKeepsDestroyed DEF Executing
      <4> QED BY <3>1, <4>1 DEF FinishedNow, ReleasedNow, Calls, CallsOf
    <3> QED BY <3>1
  <2>3. a \in ReleasedNow \/ \A t \in TaskBase : WaitsNow[t] # a
    BY <1>2, <1>3, <2>1, NobodyWaitsForGone DEF ReleasedNow
  <2>4. Promise!Destroy(a)
    BY <1>4, <1>5, <1>7, <2>2, <2>3 DEF Promise!Destroy, Promise!Executing, Executing,
         WaitsNow, ReleasedNow, FinishedNow, DestroyedNow
  <2> QED BY <1>3, <2>4 DEF Promise!Next
<1> QED BY <1>6, <1>7

\* Every orderly step is one of the promise, or one that the clients cannot see.
LEMMA StepIsPromised ==
  ASSUME Owned, Calls, DestroyedUntouched, DestroyedUntouched', [Next]_vars, [Orderly]_vars
  PROVE  Calls' /\ [Promise!Next]_(Promise!vars)
<1>1. ASSUME NEW th \in TaskRunner, NEW c \in TaskBase, Step(th, c), Orderly
      PROVE  Calls' /\ (Promise!Next \/ UNCHANGED Promise!vars)
  <2>1. Calls'
    BY <1>1, WaitsMove
  <2>2. CASE switch_to(th, c)
    BY <1>1, <2>1, <2>2, SwitchIsPromised
  <2>3. CASE InsertInWaitlist(th, c)
    BY <1>1, <2>1, <2>3, WaitIsPromised
  <2>4. CASE Release(th, c)
    BY <1>1, <2>1, <2>4, ReleaseIsPromised
  <2>5. CASE Finish(th, c)
    BY <1>1, <2>1, <2>5, FinishIsPromised
  <2>6. CASE DestructorReturn(th, c) \/ AwaitableDestroyed(th, c)
    BY <1>1, <2>1, <2>6, DestroyIsPromised
  <2>7. CASE /\ pc[c] \in OnWay \cup {"notify_back", "check_running"}
             /\ WaitsNow[c] \in ReleasedNow
             /\ WaitsNow' = [WaitsNow EXCEPT ![c] = Null]
    BY <1>1, <2>1, <2>7, ReturnIsPromised
  <2>8. CASE UNCHANGED <<current, WaitsNow, ReleasedNow, FinishedNow, DestroyedNow>>
    BY <2>1, <2>8 DEF Promise!vars, WaitsNow, ReleasedNow, FinishedNow, DestroyedNow
  <2> QED BY <1>1, <2>1, <2>2, <2>3, <2>4, <2>5, <2>6, <2>7, <2>8, WaitsMove, OneOfThePromise
<1>2. CASE UNCHANGED vars
  <2>1. UNCHANGED <<current, m_state, is_finished, life, pc, back, aw>>
    BY <1>2 DEF vars
  <2>2. UNCHANGED <<WaitsNow, ReleasedNow, FinishedNow, DestroyedNow>>
    BY <2>1 DEF WaitsNow, ReleasedNow, FinishedNow, DestroyedNow, InWait
  <2>3. Calls'
    BY <2>1 DEF Calls, CallsOf, InWait
  <2> QED BY <2>1, <2>2, <2>3 DEF Promise!vars, WaitsNow, ReleasedNow, FinishedNow, DestroyedNow
<1> QED BY <1>1, <1>2 DEF Next, ThreadStep, Exit

\* At first nobody waits, and nothing is released, finished or destroyed.
LEMMA PromiseInit == Init => Calls /\ Promise!Init
<1> SUFFICES ASSUME Init PROVE Calls /\ Promise!Init
  OBVIOUS
<1>1. \A t \in TaskBase : /\ back[t] = "user" /\ m_state[t] = "Running"
                          /\ pc[t] \in {"bg_loop", "post_jump", "user"}
  BY DEF Init
<1>2. Calls
  BY <1>1 DEF Calls, CallsOf, InWait
<1>3. /\ current = [th \in TaskRunner |-> th] /\ WaitsNow = [t \in TaskBase |-> Null]
      /\ ReleasedNow = {} /\ FinishedNow = {} /\ DestroyedNow = {}
  BY <1>1 DEF Init, WaitsNow, ReleasedNow, FinishedNow, DestroyedNow, InWait
<1> QED BY <1>2, <1>3 DEF Promise!Init, WaitsNow, ReleasedNow, FinishedNow, DestroyedNow

\* alterstack keeps the promise of Coroutines in every orderly behaviour in which the
\* clients touch no destroyed object: a stack runs on one thread and never after its end
\* (scheduler.cpp:213, task.cpp:127), wait() lasts until release() (awaitable.hpp:63),
\* and a destructor returns when the object is out of use (task.cpp:57, awaitable.cpp:30).
THEOREM KeepsThePromise == OrderlySpec /\ []DestroyedUntouched => ImplementsCoroutines
<1>1. Owned /\ Calls /\ DestroyedUntouched /\ DestroyedUntouched' /\ [Next]_vars /\ [Orderly]_vars
      => Calls' /\ [Promise!Next]_(Promise!vars)
  BY StepIsPromised
<1>2. OrderlySpec => []Owned
  BY AlwaysOwned
<1> QED BY <1>1, <1>2, PromiseInit, PTL
       DEF OrderlySpec, Spec, ImplementsCoroutines, Promise!Spec

\* What follows for the memory of the clients is proved of Coroutines once and for all.
Safety == INSTANCE CoroutinesProofs WITH
    Thread <- TaskRunner,
    runs <- current,
    waits <- [t \in TaskBase |-> IF InWait(t) THEN aw[t] ELSE Null],
    released <- {a \in Waitable : is_finished[a]},
    finished <- {t \in Task : m_state[t] = "Finished"},
    destroyed <- {a \in Waitable : life[a] = "destroyed"}

\* So the clients of such a behaviour never run a stack on two threads, nor one that ~Task
\* has freed (task.cpp:57), nor wait for an Awaitable that is gone (awaitable.cpp:30).
THEOREM ClientsAreSafe ==
    OrderlySpec /\ []DestroyedUntouched => []Safety!ObjectsOutliveUse
<1>1. Null \notin Awaitable \cup Task
  OBVIOUS
<1>2. Safety!Spec => []Safety!ObjectsOutliveUse
  BY <1>1, Safety!PromiseIsSafe
<1>3. Promise!Init => Safety!Init
  BY DEF Promise!Init, Safety!Init
<1>4. [Promise!Next]_(Promise!vars) => [Safety!Next]_(Safety!vars)
  BY DEF Promise!Next, Safety!Next, Promise!vars, Safety!vars,
       Promise!Executing, Safety!Executing, Promise!Switch, Safety!Switch,
       Promise!Wait, Safety!Wait, Promise!Return, Safety!Return,
       Promise!Release, Safety!Release, Promise!Finish, Safety!Finish,
       Promise!Destroy, Safety!Destroy
<1>5. ImplementsCoroutines => Safety!Spec
  BY <1>3, <1>4, PTL DEF ImplementsCoroutines, Promise!Spec, Safety!Spec
<1> QED BY <1>2, <1>5, KeepsThePromise, PTL

-----------------------------------------------------------------------------
(* What careful clients may rely on                                        *)

CarefulSpec == OrderlySpec /\ [][Careful]_vars

\* Stack c is in the destructor of a.
Deleting(c, a) ==
    aw[c] = a /\ back[c] \in {"destructor", "destroy"} /\ pc[c] \notin {"user", "done"}

\* One destructor at most destroys an object.
Destructors ==
    \A a \in Waitable, c, d \in TaskBase :
        /\ Deleting(c, a) => life[a] = "destructing"
        /\ Deleting(c, a) /\ Deleting(d, a) => c = d

\* A call that may still access an object under its destructor is one that the
\* destructor itself waits for.
Users ==
    \A a \in Waitable, c \in TaskBase :
        life[a] = "destructing" /\ Using(c, a) =>
            \/ Deleting(c, a)
            \/ a \in Task /\ c = a
            \/ /\ a \in Awaitable /\ pc[c] = "release" /\ ~is_finished[a]
               /\ \A d \in TaskBase : Using(d, a) /\ pc[d] = "release" => d = c

\* What a destructor has come to: ~Task has released the task before it yields, and at
\* its end ~Awaitable finds no list and no call.
EndOf(c) ==
    /\ back[c] = "destructor" /\ pc[c] \notin {"user", "done", "release"} => is_finished[aw[c]]
    /\ pc[c] = "destroy" =>
         /\ back[c] = "destroy" /\ head[aw[c]] = Null
         /\ \A d \in TaskBase : ~Using(d, aw[c])

Ends == \A c \in TaskBase : EndOf(c)

InUse == DestroyedUntouched /\ Destructors /\ Users /\ Ends

\* The stacks that do not make the step use and destroy what they did.
LEMMA OthersUse ==
  ASSUME Owned, NEW th \in TaskRunner, NEW c \in TaskBase, Step(th, c),
         NEW d \in TaskBase \ {c}
  PROVE  /\ aw'[d] = aw[d] /\ back'[d] = back[d]
         /\ \A a : (Using(d, a)' <=> Using(d, a)) /\ (Deleting(d, a)' <=> Deleting(d, a))
         /\ \A p \in {"user", "done", "release", "destroy"} : pc'[d] = p <=> pc[d] = p
<1>1. aw'[d] = aw[d] /\ back'[d] = back[d]
  BY OthersKeepLocals DEF Owned
<1>2. \/ pc'[d] = pc[d]
      \/ pc[d] \in {"asleep", "bg_asleep"} /\ pc'[d] \in {"from_queue", "bg_woken"}
  BY OthersStay DEF Owned
<1> QED BY <1>1, <1>2 DEF Using, Deleting

\* A step that leaves the words of awaitables alone and begins or ends no destructor: it
\* may go on in a call, begin one on what lives, or be the end of a task that is there.
Calm(c) ==
    /\ UNCHANGED <<head, is_finished>>
    /\ \A a \in Waitable :
         /\ life'[a] = life[a] \/ (life[a] = "unborn" /\ life'[a] = "alive")
         /\ Using(c, a)' =>
              \/ Using(c, a) /\ (pc'[c] = "release" <=> pc[c] = "release")
              \/ life[a] = "alive"
              \/ a \in Task /\ a = c /\ life[a] # "destroyed"
         /\ Deleting(c, a)' => Deleting(c, a)
         /\ Deleting(c, a) /\ Using(c, a)' => Deleting(c, a)'
    /\ back'[c] = "destructor" /\ pc'[c] \notin {"user", "done", "release"}
         => is_finished[aw'[c]]
    /\ pc'[c] = "destroy" =>
         Deleting(c, aw[c])' /\ back'[c] = "destroy" /\ is_finished[aw'[c]]

\* Such a step keeps the invariant.
LEMMA CalmKeepsUse ==
  ASSUME Owned, InUse, NEW th \in TaskRunner, NEW c \in TaskBase, Step(th, c), Calm(c),
         States', NoWaiterLeftBehind
  PROVE  InUse'
<1>1. \A d \in TaskBase \ {c} :
        /\ aw'[d] = aw[d] /\ back'[d] = back[d]
        /\ \A a : (Using(d, a)' <=> Using(d, a)) /\ (Deleting(d, a)' <=> Deleting(d, a))
        /\ \A p \in {"user", "done", "release", "destroy"} : pc'[d] = p <=> pc[d] = p
  BY OthersUse
<1>2. /\ UNCHANGED <<head, is_finished>>
      /\ \A a \in Waitable :
           /\ life'[a] = "destroyed" => life[a] = "destroyed"
           /\ life'[a] = "destructing" <=> life[a] = "destructing"
  BY DEF Calm
<1>3. DestroyedUntouched'
  <2>1. ASSUME NEW a \in Waitable, life'[a] = "destroyed", NEW d \in TaskBase
        PROVE  head'[a] = Null /\ ~Using(d, a)'
    <3>1. life[a] = "destroyed" /\ head[a] = Null /\ ~Using(d, a)
      BY <1>2, <2>1 DEF InUse, DestroyedUntouched
    <3> QED BY <1>1, <1>2, <3>1 DEF Calm
  <2> QED BY <2>1 DEF DestroyedUntouched
<1>4. Destructors'
  <2>1. \A a \in Waitable, d \in TaskBase : Deleting(d, a)' => Deleting(d, a)
    BY <1>1 DEF Calm
  <2> QED BY <1>2, <2>1 DEF InUse, Destructors
<1>5. Users'
  <2>1. SUFFICES ASSUME NEW a \in Waitable, NEW d \in TaskBase,
                        life'[a] = "destructing", Using(d, a)',
                        ~Deleting(d, a)', ~(a \in Task /\ d = a)
                 PROVE  /\ a \in Awaitable /\ pc'[d] = "release" /\ ~is_finished'[a]
                        /\ \A e \in TaskBase : Using(e, a)' /\ pc'[e] = "release" => e = d
    BY DEF Users
  <2>2. life[a] = "destructing"
    BY <1>2, <2>1
  <2>3. \A e \in TaskBase : Using(e, a)' /\ ~(a \in Task /\ e = a) =>
          Using(e, a) /\ (pc'[e] = "release" <=> pc[e] = "release")
    BY <1>1, <2>2 DEF Calm
  <2>4. Using(d, a) /\ ~Deleting(d, a)
    BY <1>1, <2>1, <2>3 DEF Calm
  <2>5. /\ a \in Awaitable /\ pc[d] = "release" /\ ~is_finished[a]
        /\ \A e \in TaskBase : Using(e, a) /\ pc[e] = "release" => e = d
    BY <2>1, <2>2, <2>4 DEF InUse, Users
  <2>6. pc'[d] = "release"
    BY <2>1, <2>3, <2>5
  <2> QED BY <1>2, <2>3, <2>5, <2>6
<1>6. Ends'
  <2>1. ASSUME NEW d \in TaskBase \ {c} PROVE EndOf(d)'
    <3>1. EndOf(d)
      BY DEF InUse, Ends
    <3>2. (back[d] = "destructor" /\ pc[d] \notin {"user", "done", "release"}
             => is_finished[aw[d]])'
      BY <1>1, <1>2, <3>1 DEF EndOf
    <3>3. ASSUME pc'[d] = "destroy"
          PROVE  /\ back'[d] = "destroy" /\ head'[aw'[d]] = Null
                 /\ \A e \in TaskBase : ~Using(e, aw[d])'
      <4> PICK a : a = aw[d]
        OBVIOUS
      <4>1. /\ pc[d] = "destroy" /\ back[d] = "destroy" /\ head[a] = Null
            /\ \A e \in TaskBase : ~Using(e, a)
        BY <1>1, <3>1, <3>3 DEF EndOf
      <4>2. a \in Awaitable /\ Deleting(d, a)
        BY <4>1 DEF Owned, States, Deleting
      <4>3. life[a] = "destructing"
        BY <4>2 DEF InUse, Destructors
      <4>4. \A e \in TaskBase : ~Using(e, a)'
        BY <1>1, <4>1, <4>2, <4>3 DEF Calm
      <4>5. aw'[d] = a /\ back'[d] = back[d]
        BY <1>1
      <4>6. \A e \in TaskBase : ~Using(e, aw[d])'
        BY <4>4, <4>5 DEF Using
      <4> QED BY <1>2, <4>1, <4>5, <4>6
    <3> QED BY <3>2, <3>3 DEF EndOf
  <2>2. EndOf(c)'
    <3>1. ASSUME pc'[c] = "destroy"
          PROVE  /\ back'[c] = "destroy" /\ head'[aw'[c]] = Null
                 /\ \A e \in TaskBase : ~Using(e, aw[c])'
      <4> PICK a : a = aw'[c]
        OBVIOUS
      <4>1. Deleting(c, a)' /\ back'[c] = "destroy" /\ is_finished[a] /\ a \in Awaitable
        BY <3>1 DEF Calm, States, Deleting
      <4>2. head'[a] = Null
        BY <1>2, <4>1 DEF NoWaiterLeftBehind
      <4>3. life'[a] = "destructing"
        BY <1>4, <4>1 DEF Destructors
      <4>4. ASSUME NEW e \in TaskBase, Using(e, a)' PROVE FALSE
        <5>1. e # c
          BY <3>1, <4>4 DEF Using
        <5>2. Deleting(e, a)'
          BY <1>2, <1>5, <4>1, <4>3, <4>4 DEF Users
        <5> QED BY <1>4, <4>1, <5>1, <5>2 DEF Destructors
      <4>5. \A e \in TaskBase : ~Using(e, aw[c])'
        BY <4>4 DEF Using
      <4> QED BY <4>1, <4>2, <4>5
    <3> QED BY <1>2, <3>1 DEF Calm, EndOf
  <2> QED BY <2>1, <2>2 DEF Ends
<1> QED BY <1>3, <1>4, <1>5, <1>6 DEF InUse

\* Where a stack is in schedule(), in post_jump_fcontext() or under the notify() of either,
\* or in the walk of release(), and comes back from.
Inner == Scheduling \cup OnWay \cup (InRelease \ {"release"}) \cup {"notify_back"}

\* There it goes on, until it is back where it was called.
LEMMA InnerSteps ==
  ASSUME Owned, NEW th \in TaskRunner, NEW c \in TaskBase, Step(th, c),
         ScheduleStep(th, c) \/ WakeStep(th, c)
  PROVE  /\ UNCHANGED <<life, aw, back>>
         /\ pc[c] \in Inner /\ pc'[c] \in Inner \cup {back[c]}
<1>0. TypeOK
  BY DEF Owned, HandOver, Inv
<1> USE <1>0 DEF TypeOK, Inner, Scheduling, OnWay, InRelease
<1>1. CASE ScheduleStep(th, c)
  BY <1>1 DEF ScheduleStep, get_running_from_native, NativeNotRunning, TakeTask, TakeList,
       StoreTail, KeepFirst, QueueEmpty, FallBack, NoNextTask, CheckRunning, CheckWaiting,
       NativeFutexWait, switch_to, BadJump, PostJump, SavePrevContext, EnqueuePrev, LeavePrev,
       GetNext
<1>2. CASE NotifyNobody(th, c) \/ NotifyAll(th, c)
  <2>1. NotifyMoves(th, c)
    BY <1>2, NotifyStep
  <2>2. UNCHANGED <<life, aw, back>>
    BY <1>2 DEF NotifyNobody, NotifyAll
  <2> QED BY <2>1, <2>2 DEF NotifyMoves
<1>3. CASE WakeStep(th, c)
  BY <1>2, <1>3, NobodyDelayed DEF WakeStep, WalkList, WalkListEnd, WakeBound, WakeUnbound,
       WalkDelayedEnd, is_thread_bound
<1> QED BY <1>1, <1>3

\* schedule(), the switch of stacks and the walk of release() are calm: they use no
\* awaitable, and come back to ~Awaitable only when it has been released.
LEMMA InnerCalm ==
  ASSUME Owned, Calls, InUse, NEW th \in TaskRunner, NEW c \in TaskBase, Step(th, c),
         ScheduleStep(th, c) \/ WakeStep(th, c)
  PROVE  Calm(c)
<1>1. /\ UNCHANGED <<life, aw, back>>
      /\ pc[c] \in Inner /\ pc'[c] \in Inner \cup {back[c]} /\ back[c] \in Back
  BY InnerSteps DEF Owned, HandOver, Inv, TypeOK
<1>2. pc[c] \notin {"user", "done", "wait", "insert", "release", "destructor", "destroy", "waited"}
  BY <1>1 DEF Inner, Scheduling, OnWay, InRelease
<1>3. pc'[c] \notin {"wait", "insert", "release"}
  BY <1>1 DEF Inner, Scheduling, OnWay, InRelease, Back
<1>4. UNCHANGED <<head, is_finished>>
  BY <1>2, OnlyWaitAndRelease DEF InsertInWaitlist, Release
<1>5. \A a \in Waitable : ~Using(c, a)' /\ (Deleting(c, a)' => Deleting(c, a))
  BY <1>1, <1>2, <1>3 DEF Using, Deleting
<1>6. back[c] = "destructor" => is_finished[aw[c]]
  BY <1>2 DEF InUse, Ends, EndOf
<1>7. ASSUME pc'[c] = "destroy"
      PROVE  Deleting(c, aw[c])' /\ back'[c] = "destroy" /\ is_finished[aw'[c]]
  <2>1. back[c] = "destroy"
    BY <1>1, <1>7 DEF Inner, Scheduling, OnWay, InRelease
  <2>2. InWait(c) /\ ~InWait(c)'
    BY <1>1, <1>2, <1>7, <2>1 DEF InWait
  <2>3. is_finished[aw[c]]
    BY <2>2, OwnCalls DEF OwnWait, Calls
  <2> QED BY <1>1, <1>7, <2>1, <2>3 DEF Deleting
<1> QED BY <1>1, <1>4, <1>5, <1>6, <1>7 DEF Calm

\* So are the steps of wait() and release() that do not write the word.
LEMMA AwaitableCalm ==
  ASSUME Owned, Calls, InUse, NEW th \in TaskRunner, NEW c \in TaskBase, Step(th, c),
         AwaitableStep(th, c), ~InsertInWaitlist(th, c), ~Release(th, c)
  PROVE  Calm(c)
<1>0. TypeOK /\ back[c] \in Back /\ EndOf(c)
  BY DEF Owned, HandOver, Inv, TypeOK, InUse, Ends
<1> USE <1>0 DEF TypeOK, Back, Calm, Using, Deleting, EndOf
<1>1. CASE NoWait(th, c)
  BY <1>1 DEF NoWait
<1>2. CASE EnterWait(th, c)
  BY <1>2 DEF EnterWait
<1>3. CASE UndoWait(th, c)
  BY <1>3 DEF UndoWait
<1>4. CASE WaitReturns(th, c)
  BY <1>4 DEF WaitReturns
<1>5. CASE ReleaseAgain(th, c)
  BY <1>5 DEF ReleaseAgain
<1> QED BY <1>1, <1>2, <1>3, <1>4, <1>5 DEF AwaitableStep

\* And what the clients, _run_wrapper and the background threads do, but for the begin
\* and the end of a destructor and a release() that a destructor waits for.
LEMMA ClientCalm ==
  ASSUME Owned, Calls, InUse, Careful, NEW th \in TaskRunner, NEW c \in TaskBase, Step(th, c),
         ClientStep(th, c) \/ BgStep(th, c),
         ~DestructorReturn(th, c), ~AwaitableDestroyed(th, c),
         \A t \in Task : ~DeleteTask(th, c, t),
         \A a \in Awaitable :
           ~DeleteAwaitable(th, c, a) /\ (CallRelease(th, c, a) => life[a] = "alive")
  PROVE  Calm(c)
<1>0. /\ TypeOK /\ back[c] \in Back /\ EndOf(c)
      /\ pc[c] = "destructor" => back[c] = "destructor"
      /\ c \in Task => life[c] # "destroyed"
  BY OthersStay
     DEF Owned, HandOver, Inv, TypeOK, InUse, Ends, Calls, CallsOf, Contexts, Executing
<1> USE <1>0 DEF TypeOK, Back, Calm, Using, Deleting, EndOf, GetNext
<1>1. CASE Yield(th, c)
  BY <1>1 DEF Yield, Call
<1>2. ASSUME NEW t \in Task, NewTask(th, c, t) PROVE Calm(c)
  BY <1>2 DEF NewTask, Call
<1>3. ASSUME NEW t \in Task, Join(th, c, t) PROVE Calm(c)
  BY <1>3 DEF Join, Call
<1>4. ASSUME NEW a \in Awaitable, Wait(th, c, a) PROVE Calm(c)
  <2>1. life[a] = "alive"
    BY <1>4 DEF Careful
  <2> QED BY <1>4, <2>1 DEF Wait, Call
<1>5. ASSUME NEW a \in Awaitable, CallRelease(th, c, a) PROVE Calm(c)
  BY <1>5 DEF CallRelease, Call
<1>6. CASE DestructorYield(th, c)
  BY <1>6 DEF DestructorYield
<1>7. CASE ThreadReturns(th, c)
  BY <1>7 DEF ThreadReturns, AtEnd
<1>8. CASE RunnableReturns(th, c)
  BY <1>8 DEF RunnableReturns, AtEnd
<1>9. CASE Finish(th, c)
  BY <1>9 DEF Finish
<1>10. CASE Unreachable(th, c)
  BY <1>10 DEF Unreachable
<1>11. CASE BgStep(th, c)
  BY <1>11 DEF BgStep, BgSchedule, BgWait, BgFutexWait
<1> HIDE DEF Calm
<1> QED BY <1>1, <1>2, <1>3, <1>4, <1>5, <1>6, <1>7, <1>8, <1>9, <1>10, <1>11 DEF ClientStep

\* What the other stacks use and destroy, as OthersUse says it of each.
Others(c) ==
    \A d \in TaskBase \ {c} :
        /\ aw'[d] = aw[d] /\ back'[d] = back[d]
        /\ \A a : (Using(d, a)' <=> Using(d, a)) /\ (Deleting(d, a)' <=> Deleting(d, a))
        /\ \A p \in {"user", "done", "release", "destroy"} : pc'[d] = p <=> pc[d] = p

\* A stack that did not make the step comes to its end as before, if nobody has begun to
\* use what it destroys, whose list has no more tasks and which stays released.
LEMMA OthersEnd ==
  ASSUME Owned, InUse, NEW th \in TaskRunner, NEW c \in TaskBase, Others(c),
         NEW d \in TaskBase \ {c},
         back[d] = "destructor" => aw[d] \in Task,
         \A a \in Task : is_finished[a] => is_finished'[a],
         \A a \in Awaitable : Deleting(d, a) /\ pc[d] = "destroy" =>
           head'[a] = Null /\ ~Using(c, a)'
  PROVE  EndOf(d)'
<1> PICK a : a = aw[d]
  OBVIOUS
<1>1. EndOf(d)
  BY DEF InUse, Ends
<1>2. aw'[d] = a /\ back'[d] = back[d]
  BY DEF Others
<1>3. back'[d] = "destructor" /\ pc'[d] \notin {"user", "done", "release"} => is_finished'[a]
  BY <1>1, <1>2 DEF EndOf, Others
<1>4. ASSUME pc'[d] = "destroy"
      PROVE  back'[d] = "destroy" /\ head'[a] = Null /\ \A e \in TaskBase : ~Using(e, a)'
  <2>1. pc[d] = "destroy"
    BY <1>4 DEF Others
  <2>2. back[d] = "destroy" /\ \A e \in TaskBase : ~Using(e, a)
    BY <1>1, <2>1 DEF EndOf
  <2>3. a \in Awaitable /\ Deleting(d, a)
    BY <2>1, <2>2 DEF Owned, States, Deleting
  <2>4. head'[a] = Null /\ ~Using(c, a)'
    BY <2>1, <2>3
  <2> QED BY <1>2, <2>2, <2>4 DEF Others
<1>5. pc'[d] = "destroy" => \A e \in TaskBase : ~Using(e, aw[d])'
  BY <1>2, <1>4 DEF Using
<1> QED BY <1>2, <1>3, <1>4, <1>5 DEF EndOf

\* release() is called for a destructor that waits for it.
LEMMA ReleaseOfDestructing ==
  ASSUME Owned, Calls, InUse, Careful, NEW th \in TaskRunner, NEW c \in TaskBase, Step(th, c),
         NEW a \in Awaitable, CallRelease(th, c, a), life[a] # "alive"
  PROVE  InUse'
<1>1. Others(c) /\ TypeOK
  BY OthersUse DEF Others, Owned, HandOver, Inv
<1>2. /\ life[a] = "destructing" /\ ~is_finished[a] /\ head[a] # Null
      /\ \A d \in TaskBase : Using(d, a) => pc[d] # "release"
  BY DEF Careful, MayRelease, WaitsInDestructor
<1>3. /\ UNCHANGED <<life, head, is_finished>>
      /\ pc'[c] = "release" /\ aw'[c] = a /\ back'[c] = "user"
  BY <1>1 DEF CallRelease, Call, TypeOK
<1>4. \A x : (Using(c, x)' <=> x = a) /\ ~Deleting(c, x)'
  BY <1>3 DEF Using, Deleting
<1>5. DestroyedUntouched' /\ Destructors'
  BY <1>1, <1>2, <1>3, <1>4 DEF InUse, DestroyedUntouched, Destructors, Others
<1>6. Users'
  <2>1. SUFFICES ASSUME NEW x \in Waitable, NEW d \in TaskBase,
                        life'[x] = "destructing", Using(d, x)',
                        ~Deleting(d, x)', ~(x \in Task /\ d = x)
                 PROVE  /\ x \in Awaitable /\ pc'[d] = "release" /\ ~is_finished'[x]
                        /\ \A e \in TaskBase : Using(e, x)' /\ pc'[e] = "release" => e = d
    BY DEF Users
  <2>2. CASE d = c
    <3>1. x = a
      BY <1>4, <2>1, <2>2
    <3>2. ASSUME NEW e \in TaskBase, Using(e, a)', pc'[e] = "release", e # c PROVE FALSE
      BY <1>1, <1>2, <3>2 DEF Others
    <3> QED BY <1>2, <1>3, <2>2, <3>1, <3>2
  <2>3. CASE d # c
    <3>1. /\ x \in Awaitable /\ pc[d] = "release" /\ ~is_finished[x] /\ Using(d, x)
          /\ \A e \in TaskBase : Using(e, x) /\ pc[e] = "release" => e = d
      BY <1>1, <1>3, <2>1, <2>3 DEF InUse, Users, Others
    <3>2. ~Using(c, x)'
      BY <1>2, <1>4, <3>1
    <3> QED BY <1>1, <1>3, <2>3, <3>1, <3>2 DEF Others
  <2> QED BY <2>2, <2>3
<1>7. Ends'
  <2>1. ASSUME NEW d \in TaskBase \ {c} PROVE EndOf(d)'
    <3>1. \A x \in Awaitable : Deleting(d, x) /\ pc[d] = "destroy" =>
            head'[x] = Null /\ ~Using(c, x)'
      BY <1>2, <1>3, <1>4 DEF InUse, Ends, EndOf, Deleting
    <3> QED BY <1>1, <1>3, <3>1, OthersEnd DEF Calls, CallsOf
  <2>2. EndOf(c)'
    BY <1>3 DEF EndOf
  <2> QED BY <2>1, <2>2 DEF Ends
<1> QED BY <1>5, <1>6, <1>7 DEF InUse

\* ~Task begins: nobody else is in a call on the task but _run_wrapper.
LEMMA TaskDestructorBegins ==
  ASSUME Owned, Calls, InUse, Careful, NEW th \in TaskRunner, NEW c \in TaskBase, Step(th, c),
         NEW t \in Task, DeleteTask(th, c, t)
  PROVE  InUse'
<1>1. Others(c) /\ TypeOK
  BY OthersUse DEF Others, Owned, HandOver, Inv
<1>2. life[t] = "alive" /\ \A d \in TaskBase : Using(d, t) => d = t
  BY DEF DeleteTask, Careful, MayDestroy
<1>3. /\ UNCHANGED <<head, is_finished>> /\ life' = [life EXCEPT ![t] = "destructing"]
      /\ pc'[c] = "release" /\ aw'[c] = t /\ back'[c] = "destructor"
  BY <1>1 DEF DeleteTask, Call, TypeOK
<1>4. \A x : (Using(c, x)' <=> x = t) /\ (Deleting(c, x)' <=> x = t)
  BY <1>3 DEF Using, Deleting
<1>5. \A x \in Waitable : life'[x] = IF x = t THEN "destructing" ELSE life[x]
  BY <1>1, <1>3 DEF TypeOK
<1>6. DestroyedUntouched' /\ Destructors'
  <2>1. DestroyedUntouched'
    BY <1>1, <1>3, <1>4, <1>5 DEF InUse, DestroyedUntouched, Others
  <2>2. \A d \in TaskBase : ~Deleting(d, t)
    BY <1>2 DEF InUse, Destructors
  <2>3. Destructors'
    BY <1>1, <1>4, <1>5, <2>2 DEF InUse, Destructors, Others
  <2> QED BY <2>1, <2>3
<1>7. Users'
  <2>1. SUFFICES ASSUME NEW x \in Waitable, NEW d \in TaskBase,
                        life'[x] = "destructing", Using(d, x)',
                        ~Deleting(d, x)', ~(x \in Task /\ d = x)
                 PROVE  /\ x \in Awaitable /\ pc'[d] = "release" /\ ~is_finished'[x]
                        /\ \A e \in TaskBase : Using(e, x)' /\ pc'[e] = "release" => e = d
    BY DEF Users
  <2>2. x # t /\ d # c
    BY <1>1, <1>2, <1>4, <2>1 DEF Others
  <2>3. /\ x \in Awaitable /\ pc[d] = "release" /\ ~is_finished[x] /\ Using(d, x)
        /\ \A e \in TaskBase : Using(e, x) /\ pc[e] = "release" => e = d
    BY <1>1, <1>5, <2>1, <2>2 DEF InUse, Users, Others
  <2> QED BY <1>1, <1>3, <1>4, <2>2, <2>3 DEF Others
<1>8. Ends'
  <2>1. ASSUME NEW d \in TaskBase \ {c} PROVE EndOf(d)'
    <3>1. \A x \in Awaitable : Deleting(d, x) /\ pc[d] = "destroy" =>
            head'[x] = Null /\ ~Using(c, x)'
      BY <1>3, <1>4 DEF InUse, Ends, EndOf, Deleting
    <3> QED BY <1>1, <1>3, <3>1, OthersEnd DEF Calls, CallsOf
  <2>2. EndOf(c)'
    BY <1>3 DEF EndOf
  <2> QED BY <2>1, <2>2 DEF Ends
<1> QED BY <1>6, <1>7, <1>8 DEF InUse

\* ~Awaitable begins: nobody is in a call on it but one release(), which it waits for.
LEMMA AwaitableDestructorBegins ==
  ASSUME Owned, Calls, InUse, Careful, NEW th \in TaskRunner, NEW c \in TaskBase, Step(th, c),
         NEW a \in Awaitable, DeleteAwaitable(th, c, a)
  PROVE  InUse'
<1>1. Others(c) /\ TypeOK
  BY OthersUse DEF Others, Owned, HandOver, Inv
<1>2. /\ life[a] = "alive"
      /\ \A d, e \in TaskBase : Using(d, a) /\ Using(e, a) =>
           d = e /\ pc[d] = "release" /\ WaitsInDestructor(a)
  BY DEF DeleteAwaitable, Careful, MayDestroy
<1>3. /\ UNCHANGED <<head, is_finished>> /\ life' = [life EXCEPT ![a] = "destructing"]
      /\ pc'[c] = IF WaitsInDestructor(a) THEN "wait" ELSE "destroy"
      /\ aw'[c] = a /\ back'[c] = "destroy"
  BY <1>1 DEF DeleteAwaitable, Call, TypeOK
<1>4. \A x : (Using(c, x)' => x = a) /\ (Deleting(c, x)' <=> x = a)
  BY <1>3 DEF Using, Deleting
<1>5. \A x \in Waitable : life'[x] = IF x = a THEN "destructing" ELSE life[x]
  BY <1>1, <1>3 DEF TypeOK
<1>6. \A d \in TaskBase : ~Deleting(d, a)
  BY <1>2 DEF InUse, Destructors
<1>7. DestroyedUntouched' /\ Destructors'
  <2>1. DestroyedUntouched'
    BY <1>1, <1>3, <1>4, <1>5 DEF InUse, DestroyedUntouched, Others
  <2>2. Destructors'
    BY <1>1, <1>4, <1>5, <1>6 DEF InUse, Destructors, Others
  <2> QED BY <2>1, <2>2
<1>8. Users'
  <2>1. SUFFICES ASSUME NEW x \in Waitable, NEW d \in TaskBase,
                        life'[x] = "destructing", Using(d, x)',
                        ~Deleting(d, x)', ~(x \in Task /\ d = x)
                 PROVE  /\ x \in Awaitable /\ pc'[d] = "release" /\ ~is_finished'[x]
                        /\ \A e \in TaskBase : Using(e, x)' /\ pc'[e] = "release" => e = d
    BY DEF Users
  <2>2. d # c /\ Using(d, x) /\ pc'[c] # "release"
    BY <1>1, <1>3, <1>4, <2>1 DEF Others
  <2>3. CASE x = a
    <3>1. pc[d] = "release" /\ ~is_finished[a] /\ \A e \in TaskBase : Using(e, a) => e = d
      BY <1>2, <2>2, <2>3 DEF WaitsInDestructor
    <3> QED BY <1>1, <1>3, <2>2, <2>3, <3>1 DEF Others
  <2>4. CASE x # a
    <3>1. /\ x \in Awaitable /\ pc[d] = "release" /\ ~is_finished[x]
          /\ \A e \in TaskBase : Using(e, x) /\ pc[e] = "release" => e = d
      BY <1>1, <1>5, <2>1, <2>2, <2>4 DEF InUse, Users, Others
    <3> QED BY <1>1, <1>3, <2>2, <3>1 DEF Others
  <2> QED BY <2>3, <2>4
<1>9. Ends'
  <2>1. ASSUME NEW d \in TaskBase \ {c} PROVE EndOf(d)'
    <3>1. \A x \in Awaitable : Deleting(d, x) /\ pc[d] = "destroy" =>
            head'[x] = Null /\ ~Using(c, x)'
      BY <1>3, <1>4, <1>6 DEF InUse, Ends, EndOf, Deleting
    <3> QED BY <1>1, <1>3, <3>1, OthersEnd DEF Calls, CallsOf
  <2>2. ASSUME pc'[c] = "destroy" PROVE head'[a] = Null /\ \A e \in TaskBase : ~Using(e, a)'
    <3>1. ~WaitsInDestructor(a)
      BY <1>3, <2>2
    <3>2. head[a] = Null
      BY <3>1 DEF WaitsInDestructor, Owned, NoWaiterLeftBehind
    <3>3. ~Using(c, a)'
      BY <2>2 DEF Using
    <3> QED BY <1>1, <1>2, <1>3, <3>1, <3>2, <3>3 DEF Others
  <2>3. pc'[c] = "destroy" => \A e \in TaskBase : ~Using(e, aw[c])'
    BY <1>3, <2>2 DEF Using
  <2>4. EndOf(c)'
    BY <1>3, <2>2, <2>3 DEF EndOf
  <2> QED BY <2>1, <2>4 DEF Ends
<1> QED BY <1>7, <1>8, <1>9 DEF InUse

\* A destructor returns: nobody is left in a call on the object, nor in its list.
LEMMA DestructorEnds ==
  ASSUME Owned, Calls, InUse, NEW th \in TaskRunner, NEW c \in TaskBase, Step(th, c),
         DestructorReturn(th, c) \/ AwaitableDestroyed(th, c)
  PROVE  InUse'
<1> PICK a : a = aw[c]
  OBVIOUS
<1>1. Others(c) /\ TypeOK /\ EndOf(c)
  BY OthersUse DEF Others, Owned, HandOver, Inv, InUse, Ends
<1>2. /\ UNCHANGED <<head, is_finished>> /\ life' = [life EXCEPT ![a] = "destroyed"]
      /\ pc'[c] = "user" /\ pc[c] \in {"destructor", "destroy"}
  BY <1>1 DEF DestructorReturn, AwaitableDestroyed, TypeOK
<1>3. a \in Waitable /\ Deleting(c, a)
  BY <1>1, <1>2 DEF Calls, CallsOf, Owned, States, EndOf, Deleting
<1>4. \A x : ~Using(c, x)' /\ ~Deleting(c, x)'
  BY <1>2 DEF Using, Deleting
<1>5. \A x \in Waitable : life'[x] = IF x = a THEN "destroyed" ELSE life[x]
  BY <1>1, <1>2, <1>3 DEF TypeOK
<1>6. life[a] = "destructing" /\ \A d \in TaskBase : Deleting(d, a) => d = c
  BY <1>3 DEF InUse, Destructors
<1>7. head[a] = Null /\ \A d \in TaskBase \ {c} : ~Using(d, a)
  <2>1. CASE AwaitableDestroyed(th, c)
    BY <1>1, <2>1 DEF EndOf, AwaitableDestroyed, Using
  <2>2. CASE DestructorReturn(th, c)
    <3>1. back[c] = "destructor" /\ pc[c] = "destructor" /\ m_state[a] = "Finished"
      BY <2>2 DEF DestructorReturn, Calls, CallsOf
    <3>2. a \in Task /\ is_finished[a]
      BY <1>1, <3>1 DEF EndOf, Calls, CallsOf
    <3>3. ~Using(a, a)
      BY <3>1, <3>2 DEF Using, Owned, States, Scheduling
    <3>4. ASSUME NEW d \in TaskBase \ {c}, Using(d, a) PROVE FALSE
      BY <1>6, <3>2, <3>3, <3>4 DEF InUse, Users
    <3>5. head[a] = Null
      BY <3>2 DEF Owned, NoWaiterLeftBehind
    <3> QED BY <3>4, <3>5
  <2> QED BY <2>1, <2>2
<1>8. DestroyedUntouched'
  BY <1>1, <1>2, <1>4, <1>5, <1>7 DEF InUse, DestroyedUntouched, Others
<1>9. Destructors'
  BY <1>1, <1>4, <1>5, <1>6 DEF InUse, Destructors, Others
<1>10. Users'
  BY <1>1, <1>2, <1>4, <1>5 DEF InUse, Users, Others
<1>11. Ends'
  <2>1. ASSUME NEW d \in TaskBase \ {c} PROVE EndOf(d)'
    <3>1. \A x \in Awaitable : Deleting(d, x) /\ pc[d] = "destroy" =>
            head'[x] = Null /\ ~Using(c, x)'
      BY <1>2, <1>4 DEF InUse, Ends, EndOf, Deleting
    <3> QED BY <1>1, <1>2, <3>1, OthersEnd DEF Calls, CallsOf
  <2>2. EndOf(c)'
    BY <1>2 DEF EndOf
  <2> QED BY <2>1, <2>2 DEF Ends
<1> QED BY <1>8, <1>9, <1>10, <1>11 DEF InUse

\* The compare-and-swap of wait() puts a task on no list but that of an object in use.
LEMMA InsertKeepsUse ==
  ASSUME Owned, Calls, InUse, NEW th \in TaskRunner, NEW c \in TaskBase, Step(th, c),
         InsertInWaitlist(th, c)
  PROVE  InUse'
<1> PICK a : a = aw[c]
  OBVIOUS
<1>1. Others(c) /\ TypeOK /\ EndOf(c) /\ a \in Waitable
  BY OthersUse
     DEF Others, Owned, HandOver, Inv, InUse, Ends, LocalsSet, InsertInWaitlist
<1>2. /\ UNCHANGED <<life, is_finished, aw>> /\ head' = [head EXCEPT ![a] = c]
      /\ pc[c] = "insert" /\ pc'[c] \in {"from_native", "from_queue"}
      /\ back'[c] = IF back[c] = "destroy" THEN "destroy" ELSE "waited"
  BY <1>1 DEF InsertInWaitlist, GetNext, AfterWait, TypeOK
<1>3. Using(c, a) /\ \A x : ~Using(c, x)' /\ (Deleting(c, x)' => Deleting(c, x))
  BY <1>2 DEF Using, Deleting
<1>4. \A x \in Waitable : head'[x] = IF x = a THEN c ELSE head[x]
  BY <1>1, <1>2 DEF TypeOK
<1>5. DestroyedUntouched'
  <2>1. life[a] # "destroyed"
    BY <1>1, <1>3 DEF InUse, DestroyedUntouched
  <2> QED BY <1>1, <1>2, <1>3, <1>4, <2>1 DEF InUse, DestroyedUntouched, Others
<1>6. Destructors'
  BY <1>1, <1>2, <1>3 DEF InUse, Destructors, Others
<1>7. Users'
  <2>1. SUFFICES ASSUME NEW x \in Waitable, NEW d \in TaskBase,
                        life'[x] = "destructing", Using(d, x)',
                        ~Deleting(d, x)', ~(x \in Task /\ d = x)
                 PROVE  /\ x \in Awaitable /\ pc'[d] = "release" /\ ~is_finished'[x]
                        /\ \A e \in TaskBase : Using(e, x)' /\ pc'[e] = "release" => e = d
    BY DEF Users
  <2>2. d # c
    BY <1>3, <2>1
  <2>3. /\ x \in Awaitable /\ pc[d] = "release" /\ ~is_finished[x]
        /\ \A e \in TaskBase : Using(e, x) /\ pc[e] = "release" => e = d
    BY <1>1, <1>2, <2>1, <2>2 DEF InUse, Users, Others
  <2> QED BY <1>1, <1>2, <1>3, <2>2, <2>3 DEF Others
<1>8. Ends'
  <2>1. ASSUME NEW d \in TaskBase \ {c} PROVE EndOf(d)'
    <3>1. ASSUME NEW x \in Awaitable, Deleting(d, x), pc[d] = "destroy"
          PROVE  head'[x] = Null /\ ~Using(c, x)'
      <4>1. head[x] = Null /\ ~Using(c, x)
        BY <3>1 DEF InUse, Ends, EndOf, Deleting
      <4> QED BY <1>3, <1>4, <4>1
    <3> QED BY <1>1, <1>2, <3>1, OthersEnd DEF Calls, CallsOf
  <2>2. EndOf(c)'
    BY <1>2 DEF EndOf
  <2> QED BY <2>1, <2>2 DEF Ends
<1> QED BY <1>5, <1>6, <1>7, <1>8 DEF InUse

\* The exchange of release() empties a list; a second release() under a destructor there
\* is not.
LEMMA ReleaseKeepsUse ==
  ASSUME Owned, Calls, InUse, NEW th \in TaskRunner, NEW c \in TaskBase, Step(th, c),
         Release(th, c)
  PROVE  InUse'
<1> PICK a : a = aw[c]
  OBVIOUS
<1>1. Others(c) /\ TypeOK /\ EndOf(c) /\ a \in Waitable
  BY OthersUse DEF Others, Owned, HandOver, Inv, InUse, Ends, LocalsSet, Release
<1>2. /\ UNCHANGED <<life, aw, back>> /\ head' = [head EXCEPT ![a] = Null]
      /\ is_finished' = [is_finished EXCEPT ![a] = TRUE]
      /\ pc[c] = "release" /\ pc'[c] = "walk"
  BY <1>1 DEF Release, TypeOK
<1>3. Using(c, a) /\ \A x : ~Using(c, x)' /\ (Deleting(c, x)' => Deleting(c, x))
  BY <1>2 DEF Using, Deleting
<1>4. \A x \in Waitable : /\ head'[x] = IF x = a THEN Null ELSE head[x]
                          /\ is_finished'[x] <=> x = a \/ is_finished[x]
  BY <1>1, <1>2 DEF TypeOK
<1>5. DestroyedUntouched'
  BY <1>1, <1>2, <1>3, <1>4 DEF InUse, DestroyedUntouched, Others
<1>6. Destructors'
  BY <1>1, <1>2, <1>3 DEF InUse, Destructors, Others
<1>7. Users'
  <2>1. SUFFICES ASSUME NEW x \in Waitable, NEW d \in TaskBase,
                        life'[x] = "destructing", Using(d, x)',
                        ~Deleting(d, x)', ~(x \in Task /\ d = x)
                 PROVE  /\ x \in Awaitable /\ pc'[d] = "release" /\ ~is_finished'[x]
                        /\ \A e \in TaskBase : Using(e, x)' /\ pc'[e] = "release" => e = d
    BY DEF Users
  <2>2. d # c
    BY <1>3, <2>1
  <2>3. /\ x \in Awaitable /\ pc[d] = "release" /\ ~is_finished[x]
        /\ \A e \in TaskBase : Using(e, x) /\ pc[e] = "release" => e = d
    BY <1>1, <1>2, <2>1, <2>2 DEF InUse, Users, Others
  <2>4. x # a
    BY <1>2, <1>3, <2>2, <2>3
  <2> QED BY <1>1, <1>3, <1>4, <2>2, <2>3, <2>4 DEF Others
<1>8. Ends'
  <2>1. ASSUME NEW d \in TaskBase \ {c} PROVE EndOf(d)'
    <3>1. \A x \in Awaitable : Deleting(d, x) /\ pc[d] = "destroy" =>
            head'[x] = Null /\ ~Using(c, x)'
      BY <1>3, <1>4 DEF InUse, Ends, EndOf, Deleting
    <3> QED BY <1>1, <1>4, <3>1, OthersEnd DEF Calls, CallsOf
  <2>2. EndOf(c)'
    BY <1>1, <1>2, <1>4 DEF EndOf
  <2> QED BY <2>1, <2>2 DEF Ends
<1> QED BY <1>5, <1>6, <1>7, <1>8 DEF InUse

\* Every step that the clients may take keeps the objects in use alive.
LEMMA StepKeepsUse ==
  ASSUME Owned, Calls, InUse, [Next]_vars, [Orderly]_vars, [Careful]_vars
  PROVE  Calls' /\ InUse'
<1>1. ASSUME NEW th \in TaskRunner, NEW c \in TaskBase, Step(th, c), Careful, States'
      PROVE  Calls' /\ InUse'
  <2>1. Calls'
    BY <1>1, WaitsMove
  <2>2. CASE Calm(c)
    BY <1>1, <2>1, <2>2, CalmKeepsUse DEF Owned
  <2>3. ASSUME NEW t \in Task, DeleteTask(th, c, t) PROVE InUse'
    BY <1>1, <2>3, TaskDestructorBegins
  <2>4. ASSUME NEW a \in Awaitable, DeleteAwaitable(th, c, a) PROVE InUse'
    BY <1>1, <2>4, AwaitableDestructorBegins
  <2>5. ASSUME NEW a \in Awaitable, CallRelease(th, c, a), life[a] # "alive" PROVE InUse'
    BY <1>1, <2>5, ReleaseOfDestructing
  <2>6. CASE DestructorReturn(th, c) \/ AwaitableDestroyed(th, c)
    BY <1>1, <2>1, <2>6, DestructorEnds
  <2>7. CASE InsertInWaitlist(th, c)
    BY <1>1, <2>1, <2>7, InsertKeepsUse
  <2>8. CASE Release(th, c)
    BY <1>1, <2>1, <2>8, ReleaseKeepsUse
  <2>9. CASE ScheduleStep(th, c) \/ WakeStep(th, c)
    BY <1>1, <2>1, <2>2, <2>9, InnerCalm
  <2>10. CASE AwaitableStep(th, c)
    BY <1>1, <2>1, <2>2, <2>7, <2>8, <2>10, AwaitableCalm
  <2>11. CASE ClientStep(th, c) \/ BgStep(th, c)
    BY <1>1, <2>1, <2>2, <2>3, <2>4, <2>5, <2>6, <2>11, ClientCalm
  <2> QED BY <1>1, <2>1, <2>9, <2>10, <2>11 DEF Step
<1>2. CASE UNCHANGED vars
  <2>1. UNCHANGED <<head, is_finished, m_state, life, pc, back, aw>>
    BY <1>2 DEF vars
  <2>2. Calls'
    BY <2>1 DEF Calls, CallsOf, InWait
  <2>3. DestroyedUntouched' /\ Destructors' /\ Users' /\ Ends'
    BY <2>1 DEF InUse, DestroyedUntouched, Destructors, Users, Ends, EndOf, Using, Deleting
  <2> QED BY <2>2, <2>3 DEF InUse
<1>3. States'
  BY OwnedStep DEF Owned
<1> QED BY <1>1, <1>2, <1>3 DEF Next, ThreadStep, Exit

\* At first nobody is in a call, and nothing is destroyed.
LEMMA InUseInit == Init => InUse
<1> SUFFICES ASSUME Init PROVE InUse
  OBVIOUS
<1>1. \A t \in TaskBase : back[t] = "user" /\ pc[t] \in {"bg_loop", "post_jump", "user"}
  BY DEF Init
<1>2. \A a \in Waitable : life[a] \in {"unborn", "alive"}
  BY DEF Init
<1> QED BY <1>1, <1>2
        DEF InUse, DestroyedUntouched, Destructors, Users, Ends, EndOf, Using, Deleting

\* Nobody uses an object that a destructor has destroyed, if only the clients call wait()
\* and release() on what lives and destroy what no call uses (awaitable.hpp:43): for
\* ~Task it is the order of release() and Finished in _run_wrapper that sees to it
\* (task.cpp:123), for ~Awaitable its wait() (awaitable.cpp:30).
THEOREM NoUseAfterDestructor == CarefulSpec => []DestroyedUntouched
<1>1. Owned /\ Calls /\ InUse /\ [Next]_vars /\ [Orderly]_vars /\ [Careful]_vars
        => Calls' /\ InUse'
  BY StepKeepsUse
<1>2. Init => Calls /\ InUse
  BY PromiseInit, InUseInit
<1>3. InUse => DestroyedUntouched
  BY DEF InUse
<1> QED BY <1>1, <1>2, <1>3, AlwaysOwned, PTL DEF CarefulSpec, OrderlySpec, Spec

\* A step of careful clients ends no thread that a release() is going to notify: the tasks
\* that are destroyed have come to their end, and so out of their release().
LEMMA StepKeepsNotified ==
  ASSUME Owned, NotifiesAlive, [Next]_vars, [Careful]_vars
  PROVE  NotifiesAlive'
<1>1. ASSUME NEW th \in TaskRunner, NEW c \in TaskBase, Step(th, c), Careful,
             NEW d \in TaskBase, pc'[d] = "wake", NEW x \in CommonThread, wakee'[d] = x,
             pc'[x] = "done"
      PROVE  FALSE
  <2>1. \A y \in TaskBase \ {c} :
          \/ pc'[y] = pc[y]
          \/ pc[y] \in {"asleep", "bg_asleep"} /\ pc'[y] \in {"from_queue", "bg_woken"}
    BY <1>1, OthersStay DEF Owned
  <2>2. CASE d = c
    <3>1. WalkList(th, c)
      BY <1>1, <2>2, StepArrives DEF Arrives
    <3>2. x # c /\ Waits(x)
      BY <1>1, <2>2, <3>1, WalkTakes
    <3>3. pc[x] # "done"
      BY <3>2 DEF Waits, Owned, States, Scheduling
    <3> QED BY <1>1, <2>1, <3>2, <3>3
  <2>3. CASE d # c
    <3>1. pc[d] = "wake" /\ wakee[d] = x
      <4>1. wakee'[d] = wakee[d]
        BY <1>1, <2>3, OthersKeepLocals DEF Owned
      <4>2. pc'[d] = pc[d]
        BY <1>1, <2>1, <2>3
      <4> QED BY <1>1, <4>1, <4>2
    <3>2. pc[x] # "done"
      BY <3>1 DEF NotifiesAlive
    <3>3. x = c
      BY <1>1, <2>1, <3>2
    <3>4. ThreadReturns(th, c)
      BY <1>1, <3>3, StepArrives DEF Arrives
    <3>5. d \in Task /\ life[d] \in {"unborn", "destroyed"}
      BY <1>1, <3>1, <3>4 DEF Careful, InRelease
    <3>6. Executing(d)
      BY <3>1 DEF Owned, HandOver, LeftAtJump
    <3>7. Born(d)
      BY <3>6 DEF Executing, Owned, HandOver, BornOnly
    <3> QED BY <3>5, <3>6, <3>7 DEF Born, Owned, Contexts
  <2> QED BY <2>2, <2>3
<1>2. CASE UNCHANGED vars
  BY <1>2 DEF vars, NotifiesAlive
<1>3. CASE ~UNCHANGED vars
  <2>1. PICK th \in TaskRunner, c \in TaskBase : Step(th, c)
    BY <1>3 DEF Next, ThreadStep, Exit
  <2> QED BY <1>1, <1>3, <2>1 DEF NotifiesAlive
<1> QED BY <1>2, <1>3

\* The native_futex that release() notifies is that of a thread that has not ended
\* (scheduler.cpp:280, task.cpp:87), if no thread ends before the tasks that may release
\* what it waited for are destroyed, and under no release() of another thread.
THEOREM NotifiedThreadIsAlive == CarefulSpec => []NotifiesAlive
<1>1. Init => NotifiesAlive
  BY DEF Init, NotifiesAlive
<1>2. Owned /\ NotifiesAlive /\ [Next]_vars /\ [Careful]_vars => NotifiesAlive'
  BY StepKeepsNotified
<1> QED BY <1>1, <1>2, AlwaysOwned, PTL DEF CarefulSpec, OrderlySpec, Spec

\* So the promise of Coroutines, and what follows from it for the memory of the clients,
\* rests on the calls that the clients make and on the order of the four races alone.
THEOREM CarefulClientsAreSafe ==
    CarefulSpec => ImplementsCoroutines /\ []Safety!ObjectsOutliveUse
BY NoUseAfterDestructor, KeepsThePromise, ClientsAreSafe, PTL DEF CarefulSpec
=============================================================================
