--------------------------- MODULE AlterstackProofs ---------------------------
(***************************************************************************)
(* Proofs about Alterstack for every set of threads, tasks and awaitables  *)
(* and every Program of the clients.                                       *)
(***************************************************************************)
EXTENDS Alterstack, TLAPS

USE RuntimeAssumption
    DEF TaskBase, TaskRunner, Waitable, At, Move, Goto, taskVars, awVars, queueVars,
        threadVars, shared, callVars, jumpVars, walkVars, locals

-----------------------------------------------------------------------------
(* The inductive invariant                                                 *)

\* The local pointers that a control point dereferences are not null.
LocalsSet ==
    \A c \in TaskBase :
        /\ pc[c] \in {"wait", "insert", "release"} => aw[c] \in Waitable
        /\ pc[c] \in {"switch_to", "notify_switch"} => next_task[c] \in TaskBase
        /\ pc[c] \in {"wake", "spin"} => wakee[c] \in TaskBase

\* Two threads never execute one stack; a stack that a thread has just switched to
\* knows the one that was left.  (A stack that waits to be resumed does not.)
StacksApart ==
    /\ \A t1, t2 \in TaskRunner : current[t1] = current[t2] => t1 = t2
    /\ \A th \in TaskRunner :
         pc[current[th]] \in {"post_jump", "save_prev", "check_prev"}
             => prev_task[current[th]] \in TaskBase

\* The native stack of a background thread is always Running: it only schedules.
NativeBg ==
    \A b \in BgThread :
        /\ m_state[b] = "Running"
        /\ pc[b] \in {"bg_loop", "bg_wait", "bg_futex", "bg_asleep", "bg_woken",
                      "from_queue", "store_tail", "no_task", "check_running", "switch_to",
                      "post_jump", "save_prev", "check_prev", "notify_switch", "notify_back"}
        /\ pc[b] = "bg_loop" \/ back[b] = "bg_wait"

\* An unbound task comes to do_schedule()'s checks only when it can go on.
TaskChecks ==
    \A t \in Task :
        /\ pc[t] = "check_running" => m_state[t] = "Running"
        /\ pc[t] \notin {"check_waiting", "native_futex", "asleep"}

Inv == TypeOK /\ LocalsSet /\ StacksApart /\ NativeBg /\ TaskChecks

-----------------------------------------------------------------------------
(* Every step keeps it                                                     *)

\* The calls of BgRunner::notify(), and where each returns to.
NotifyCalls == {"notify_walk", "notify_delayed", "notify_switch", "notify_back"}

\* Where notify() returns to, call by call.
LEMMA NotifyReturns ==
  ASSUME NEW c, NEW call \in DOMAIN Notify(c)
  PROVE  /\ call \in NotifyCalls
         /\ call \in {"notify_walk", "notify_delayed"}
               => Notify(c)[call] \in {"walk", "walk_delayed"}
         /\ call = "notify_switch" => Notify(c)[call] = "switch_to"
         /\ call = "notify_back" => Notify(c)[call] = back[c]
BY DEF Notify, NotifyCalls

\* Where stack c goes on after its call: a control point that needs no local, or the
\* switch for which KeepFirst has set next_task.
ReturnsTo(c, to) ==
    /\ to \in {"walk", "walk_delayed", "switch_to"} \cup Back
    /\ to = "switch_to" => next_task[c] \in TaskBase
    /\ c \in BgThread => to \in {"switch_to", "bg_wait"} /\ back[c] = "bg_wait"

\* The stack that called notify() goes on where it has what it needs.
LEMMA NotifyGoesOn ==
  ASSUME Inv, NEW c \in TaskBase, NEW call \in DOMAIN Notify(c), pc[c] = call
  PROVE  Notify(c)[call] \in PC /\ ReturnsTo(c, Notify(c)[call])
<1>1. back[c] \in Back
  BY DEF Inv, TypeOK
<1>2. call = "notify_switch" => next_task[c] \in TaskBase
  BY DEF Inv, LocalsSet
<1>3. c \in BgThread => back[c] = "bg_wait" /\ call \in {"notify_switch", "notify_back"}
  BY NotifyReturns DEF Inv, NativeBg, NotifyCalls
<1> QED BY <1>1, <1>2, <1>3, NotifyReturns DEF ReturnsTo, NotifyCalls, Back, PC

\* A step of a client, and of _run_wrapper, keeps the invariant.
LEMMA ClientKeepsInv ==
  ASSUME Inv, NEW th \in TaskRunner, NEW c \in TaskBase, ClientStep(th, c)
  PROVE  Inv'
<1>1. CASE Yield(th, c)
  BY <1>1 DEF Yield, Call, GetNext, Inv, TypeOK, PC, Back, LocalsSet, StacksApart, NativeBg,
       TaskChecks
<1>2. ASSUME NEW t \in Task, NewTask(th, c, t) PROVE Inv'
  BY <1>2 DEF NewTask, Call, Inv, TypeOK, PC, Back, LocalsSet, StacksApart, NativeBg,
       TaskChecks
<1>3. ASSUME NEW t \in Task, DeleteTask(th, c, t) PROVE Inv'
  BY <1>3 DEF DeleteTask, Call, Inv, TypeOK, PC, Back, LocalsSet, StacksApart, NativeBg,
       TaskChecks
<1>4. ASSUME NEW t \in Task, Join(th, c, t) PROVE Inv'
  BY <1>4 DEF Join, Call, Inv, TypeOK, PC, Back, LocalsSet, StacksApart, NativeBg,
       TaskChecks
<1>5. ASSUME NEW a \in Awaitable, Wait(th, c, a) PROVE Inv'
  BY <1>5 DEF Wait, Call, Inv, TypeOK, PC, Back, LocalsSet, StacksApart, NativeBg,
       TaskChecks
<1>6. ASSUME NEW a \in Awaitable, CallRelease(th, c, a) PROVE Inv'
  BY <1>6 DEF CallRelease, Call, Inv, TypeOK, PC, Back, LocalsSet, StacksApart, NativeBg,
       TaskChecks
<1>7. CASE DestructorYield(th, c)
  BY <1>7 DEF DestructorYield, GetNext, Inv, TypeOK, PC, LocalsSet, StacksApart, NativeBg,
       TaskChecks
<1>8. CASE DestructorReturn(th, c)
  BY <1>8 DEF DestructorReturn, Inv, TypeOK, PC, LocalsSet, StacksApart, NativeBg,
       TaskChecks
<1>9. CASE ThreadReturns(th, c)
  BY <1>9 DEF ThreadReturns, Inv, TypeOK, PC, LocalsSet, StacksApart, NativeBg, TaskChecks
<1>10. CASE RunnableReturns(th, c)
  BY <1>10 DEF RunnableReturns, Inv, TypeOK, PC, Back, LocalsSet, StacksApart, NativeBg,
       TaskChecks
<1>11. CASE Finish(th, c)
  BY <1>11 DEF Finish, GetNext, Inv, TypeOK, PC, Back, LocalsSet, StacksApart, NativeBg,
       TaskChecks
<1>12. CASE Unreachable(th, c)
  BY <1>12 DEF Unreachable, Inv, TypeOK, PC, LocalsSet, StacksApart, NativeBg, TaskChecks
<1>13. ASSUME NEW a \in Awaitable, DeleteAwaitable(th, c, a) PROVE Inv'
  BY <1>13 DEF DeleteAwaitable, Call, Inv, TypeOK, PC, Back, LocalsSet, StacksApart, NativeBg,
       TaskChecks
<1>14. CASE AwaitableDestroyed(th, c)
  BY <1>14 DEF AwaitableDestroyed, Inv, TypeOK, PC, LocalsSet, StacksApart, NativeBg,
       TaskChecks
<1> QED BY <1>1, <1>2, <1>3, <1>4, <1>5, <1>6, <1>7, <1>8, <1>9, <1>10, <1>11, <1>12,
           <1>13, <1>14 DEF ClientStep

\* A step of wait() or release() keeps it: UndoWait makes a task Running again, and
\* the list that Release takes holds tasks only.
LEMMA AwaitableKeepsInv ==
  ASSUME Inv, NEW th \in TaskRunner, NEW c \in TaskBase, AwaitableStep(th, c)
  PROVE  Inv'
<1>1. CASE NoWait(th, c)
  BY <1>1 DEF NoWait, Inv, TypeOK, PC, Back, LocalsSet, StacksApart, NativeBg,
       TaskChecks
<1>2. CASE EnterWait(th, c)
  BY <1>2 DEF EnterWait, Inv, TypeOK, PC, LocalsSet, StacksApart, NativeBg, TaskChecks
<1>3. CASE UndoWait(th, c)
  BY <1>3 DEF UndoWait, Inv, TypeOK, PC, Back, LocalsSet, StacksApart, NativeBg,
       TaskChecks
<1>4. CASE InsertInWaitlist(th, c)
  BY <1>4 DEF InsertInWaitlist, AfterWait, GetNext, Inv, TypeOK, PC, Back, LocalsSet,
       StacksApart,
       NativeBg, TaskChecks
<1>5. CASE WaitReturns(th, c)
  BY <1>5 DEF WaitReturns, Inv, TypeOK, PC, LocalsSet, StacksApart, NativeBg, TaskChecks
<1>6. CASE Release(th, c)
  BY <1>6 DEF Release, Inv, TypeOK, PC, LocalsSet, StacksApart, NativeBg, TaskChecks
<1>7. CASE ReleaseAgain(th, c)
  BY <1>7 DEF ReleaseAgain, Inv, TypeOK, PC, Back, LocalsSet, StacksApart, NativeBg,
       TaskChecks
<1> QED BY <1>1, <1>2, <1>3, <1>4, <1>5, <1>6, <1>7 DEF AwaitableStep

\* A step of schedule() keeps it: FallBack and NoNextTask part the tasks that
\* TaskChecks tells apart, and switch_to() gives prev_task to the stack it enters.
LEMMA ScheduleKeepsInv ==
  ASSUME Inv, NEW th \in TaskRunner, NEW c \in TaskBase, ScheduleStep(th, c)
  PROVE  Inv'
<1>1. CASE get_running_from_native(th, c)
  BY <1>1 DEF get_running_from_native, Inv, TypeOK, PC, LocalsSet, StacksApart, NativeBg,
       TaskChecks
<1>2. CASE NativeNotRunning(th, c)
  BY <1>2 DEF NativeNotRunning, Inv, TypeOK, PC, LocalsSet, StacksApart, NativeBg,
       TaskChecks
<1>3. CASE TakeTask(th, c)
  BY <1>3 DEF TakeTask, Inv, TypeOK, PC, LocalsSet, StacksApart, NativeBg, TaskChecks
<1>4. CASE TakeList(th, c)
  BY <1>4 DEF TakeList, Inv, TypeOK, PC, LocalsSet, StacksApart, NativeBg, TaskChecks
<1>5. CASE StoreTail(th, c)
  BY <1>5 DEF StoreTail, Inv, TypeOK, PC, LocalsSet, StacksApart, NativeBg, TaskChecks
<1>6. CASE KeepFirst(th, c)
  BY <1>6 DEF KeepFirst, Inv, TypeOK, PC, LocalsSet, StacksApart, NativeBg, TaskChecks
<1>7. CASE QueueEmpty(th, c)
  BY <1>7 DEF QueueEmpty, Inv, TypeOK, PC, LocalsSet, StacksApart, NativeBg, TaskChecks
<1>8. CASE FallBack(th, c)
  BY <1>8 DEF FallBack, FallsBack, Inv, TypeOK, PC, LocalsSet, StacksApart, NativeBg,
       TaskChecks
<1>9. CASE NoNextTask(th, c)
  BY <1>9 DEF NoNextTask, FallsBack, Inv, TypeOK, PC, LocalsSet, StacksApart, NativeBg,
       TaskChecks
<1>10. CASE CheckRunning(th, c)
  BY <1>10 DEF CheckRunning, Inv, TypeOK, PC, Back, LocalsSet, StacksApart, NativeBg,
       TaskChecks
<1>11. CASE CheckWaiting(th, c)
  BY <1>11 DEF CheckWaiting, GetNext, Inv, TypeOK, PC, LocalsSet, StacksApart, NativeBg,
       TaskChecks
<1>12. CASE NativeFutexWait(th, c)
  <2>1. /\ \E to \in {"asleep", GetNext(th, c)} : Goto(th, c, "native_futex", to)
        /\ work' = [work EXCEPT ![th] = FALSE]
        /\ UNCHANGED <<taskVars, awVars, queueVars, current, life, locals>>
    BY <1>12 DEF NativeFutexWait
  <2> QED
    BY <2>1 DEF GetNext, Inv, TypeOK, PC, LocalsSet, StacksApart, NativeBg, TaskChecks
<1>13. CASE switch_to(th, c)
  <2>1. next_task[c] \in TaskBase /\ ~Executing(next_task[c])
    BY <1>13 DEF switch_to, CanJump, Inv, LocalsSet
  <2>2. TypeOK'
    BY <1>13, <2>1 DEF switch_to, Inv, TypeOK, PC
  <2>3. LocalsSet'
    BY <1>13 DEF switch_to, Inv, TypeOK, LocalsSet
  <2>4. StacksApart'
    <3>1. \A t \in TaskRunner : current'[t] = IF t = th THEN next_task[c] ELSE current[t]
      BY <1>13 DEF switch_to, Inv, TypeOK
    <3>2. \A t1, t2 \in TaskRunner : current'[t1] = current'[t2] => t1 = t2
      BY <2>1, <3>1 DEF Executing, Inv, StacksApart
    <3>3. prev_task' = [prev_task EXCEPT ![next_task[c]] = c] /\ pc' = [pc EXCEPT ![c] = "post_jump"]
      BY <1>13 DEF switch_to
    <3>4. current[th] = c
      BY <1>13 DEF switch_to
    <3> QED BY <2>1, <3>1, <3>2, <3>3, <3>4 DEF Inv, TypeOK, StacksApart
  <2>5. NativeBg' /\ TaskChecks'
    BY <1>13 DEF switch_to, Inv, TypeOK, NativeBg, TaskChecks
  <2> QED BY <2>2, <2>3, <2>4, <2>5 DEF Inv
<1>14. CASE BadJump(th, c)
  BY <1>14 DEF BadJump, CanJump, Executing, Inv, TypeOK, PC, LocalsSet, StacksApart,
       NativeBg, TaskChecks
<1>15. CASE PostJump(th, c)
  BY <1>15 DEF PostJump, Inv, TypeOK, PC, LocalsSet, StacksApart, NativeBg, TaskChecks
<1>16. CASE SavePrevContext(th, c)
  BY <1>16 DEF SavePrevContext, Inv, TypeOK, PC, LocalsSet, StacksApart, NativeBg,
       TaskChecks
<1>17. CASE EnqueuePrev(th, c)
  BY <1>17 DEF EnqueuePrev, put_item, Inv, TypeOK, PC, LocalsSet, StacksApart, NativeBg,
       TaskChecks
<1>18. CASE LeavePrev(th, c)
  BY <1>18 DEF LeavePrev, Inv, TypeOK, PC, Back, LocalsSet, StacksApart, NativeBg,
       TaskChecks
<1> QED BY <1>1, <1>2, <1>3, <1>4, <1>5, <1>6, <1>7, <1>8, <1>9, <1>10, <1>11, <1>12,
           <1>13, <1>14, <1>15, <1>16, <1>17, <1>18 DEF ScheduleStep

\* A step of add_waiting_list_to_running() or of BgRunner::notify() keeps it.
LEMMA WakeKeepsInv ==
  ASSUME Inv, NEW th \in TaskRunner, NEW c \in TaskBase, WakeStep(th, c)
  PROVE  Inv'
<1>1. CASE WalkList(th, c)
  BY <1>1 DEF WalkList, Inv, TypeOK, PC, LocalsSet, StacksApart, NativeBg, TaskChecks
<1>2. CASE WalkListEnd(th, c)
  BY <1>2 DEF WalkListEnd, Inv, TypeOK, PC, LocalsSet, StacksApart, NativeBg, TaskChecks
<1>3. CASE WakeBound(th, c)
  <2>1. /\ pc[c] = "wake" /\ pc' \in [TaskBase -> PC] /\ pc'[c] = "walk"
        /\ \A x \in TaskBase \ {c} :
              \/ pc'[x] = pc[x]
              \/ pc[x] = "asleep" /\ pc'[x] \in {"from_native", "from_queue"}
    <3>1. \A t, x : GetNext(t, x) \in {"from_native", "from_queue"}
      BY DEF GetNext
    <3>2. {"walk", "from_native", "from_queue"} \subseteq PC /\ pc \in [TaskBase -> PC]
      BY DEF PC, Inv, TypeOK
    <3>3. pc[c] = "wake" /\ pc' = [x \in TaskBase |->
              IF x = c THEN "walk"
              ELSE IF x = wakee[c] /\ pc[x] = "asleep" THEN GetNext(wakee[c], x) ELSE pc[x]]
      BY <1>3 DEF WakeBound
    <3> QED BY <3>1, <3>2, <3>3
  <2>2. /\ UNCHANGED <<taskVars, awVars, queueVars, current, life, locals>>
        /\ work' \in [TaskRunner -> BOOLEAN]
    BY <1>3 DEF WakeBound, Inv, TypeOK
  <2>3. TypeOK' /\ LocalsSet'
    BY <2>1, <2>2 DEF Inv, TypeOK, LocalsSet
  <2>4. StacksApart'
    BY <2>1, <2>2 DEF Inv, TypeOK, StacksApart
  <2>5. NativeBg' /\ TaskChecks'
    BY <2>1, <2>2 DEF Inv, NativeBg, TaskChecks
  <2> QED BY <2>3, <2>4, <2>5 DEF Inv
<1>4. CASE WakeUnbound(th, c)
  BY <1>4 DEF WakeUnbound, put_item, Inv, TypeOK, PC, LocalsSet, StacksApart, NativeBg,
       TaskChecks
<1>5. CASE DelayUnbound(th, c)
  BY <1>5 DEF DelayUnbound, Inv, TypeOK, PC, LocalsSet, StacksApart, NativeBg, TaskChecks
<1>6. CASE WalkDelayed(th, c)
  BY <1>6 DEF WalkDelayed, Inv, TypeOK, PC, LocalsSet, StacksApart, NativeBg, TaskChecks
<1>7. CASE WalkDelayedEnd(th, c)
  BY <1>7 DEF WalkDelayedEnd, Inv, TypeOK, PC, Back, LocalsSet, StacksApart, NativeBg,
       TaskChecks
<1>8. CASE EnqueueDelayed(th, c)
  <2>1. /\ pc[c] = "spin" /\ pc' = [pc EXCEPT ![c] = "notify_delayed"]
        /\ wakee[c] \in TaskBase
        /\ UNCHANGED <<taskVars, awVars, batch, threadVars, life, locals>>
    BY <1>8 DEF EnqueueDelayed, put_item, Inv, LocalsSet
  <2>2. pool' = pool \cup {wakee[c]} /\ fault' \in {fault, "queued_twice"}
    BY <1>8 DEF EnqueueDelayed, put_item
  <2>3. TypeOK'
    BY <2>1, <2>2 DEF Inv, TypeOK, PC
  <2>4. LocalsSet' /\ StacksApart'
    BY <2>1 DEF Inv, TypeOK, LocalsSet, StacksApart
  <2>5. NativeBg' /\ TaskChecks'
    BY <2>1 DEF Inv, TypeOK, NativeBg, TaskChecks
  <2> QED BY <2>3, <2>4, <2>5 DEF Inv
<1>9. CASE NotifyNobody(th, c)
  <2> DEFINE to == Notify(c)[pc[c]]
  <2>1. pc[c] \in DOMAIN Notify(c)
    BY <1>9 DEF NotifyNobody
  <2>2. to \in PC /\ ReturnsTo(c, to)
    BY <2>1, NotifyGoesOn
  <2>3. pc' = [pc EXCEPT ![c] = to]
    BY <1>9 DEF NotifyNobody
  <2> HIDE DEF to
  <2>4. /\ pc' \in [TaskBase -> PC] /\ pc'[c] = to
        /\ \A x \in TaskBase \ {c} : pc'[x] = pc[x]
    BY <2>2, <2>3 DEF Inv, TypeOK, PC
  <2>5. /\ UNCHANGED <<taskVars, awVars, queueVars, current, life, locals>>
        /\ work' \in [TaskRunner -> BOOLEAN]
    BY <1>9 DEF NotifyNobody, Inv, TypeOK
  <2>6. TypeOK' /\ LocalsSet'
    BY <2>2, <2>4, <2>5 DEF Inv, TypeOK, LocalsSet, ReturnsTo, Back
  <2>7. StacksApart'
    BY <2>2, <2>4, <2>5 DEF Inv, TypeOK, StacksApart, ReturnsTo, Back
  <2>8. NativeBg'
    BY <2>2, <2>4, <2>5 DEF Inv, NativeBg, ReturnsTo, Back
  <2>9. TaskChecks'
    BY <2>2, <2>4, <2>5 DEF Inv, TaskChecks, ReturnsTo, Back
  <2> QED BY <2>6, <2>7, <2>8, <2>9 DEF Inv
<1>10. CASE NotifyAll(th, c)
  <2> DEFINE to == Notify(c)[pc[c]]
  <2>1. pc[c] \in DOMAIN Notify(c)
    BY <1>10 DEF NotifyAll
  <2>2. to \in PC /\ ReturnsTo(c, to)
    BY <2>1, NotifyGoesOn
  <2>3. pc' = [x \in TaskBase |->
                IF x = c THEN to
                ELSE IF x \in BgThread /\ pc[x] = "bg_asleep" THEN "bg_woken" ELSE pc[x]]
    BY <1>10 DEF NotifyAll
  <2> HIDE DEF to
  <2>4. /\ pc' \in [TaskBase -> PC] /\ pc'[c] = to
        /\ \A x \in TaskBase \ {c} :
              \/ pc'[x] = pc[x]
              \/ x \in BgThread /\ pc[x] = "bg_asleep" /\ pc'[x] = "bg_woken"
    <3>1. "bg_woken" \in PC /\ pc \in [TaskBase -> PC]
      BY DEF PC, Inv, TypeOK
    <3> QED BY <2>2, <2>3, <3>1
  <2>5. /\ UNCHANGED <<taskVars, awVars, queueVars, current, life, locals>>
        /\ work' \in [TaskRunner -> BOOLEAN]
    BY <1>10 DEF NotifyAll, Inv, TypeOK
  <2>6. TypeOK' /\ LocalsSet'
    BY <2>2, <2>4, <2>5 DEF Inv, TypeOK, LocalsSet, ReturnsTo, Back
  <2>7. StacksApart'
    BY <2>2, <2>4, <2>5 DEF Inv, TypeOK, StacksApart, ReturnsTo, Back
  <2>8. NativeBg'
    BY <2>2, <2>4, <2>5 DEF Inv, NativeBg, ReturnsTo, Back
  <2>9. TaskChecks'
    BY <2>2, <2>4, <2>5 DEF Inv, TaskChecks, ReturnsTo, Back
  <2> QED BY <2>6, <2>7, <2>8, <2>9 DEF Inv
<1> QED BY <1>1, <1>2, <1>3, <1>4, <1>5, <1>6, <1>7, <1>8, <1>9, <1>10 DEF WakeStep

\* A step of BgThread::thread_function keeps it.
LEMMA BgKeepsInv ==
  ASSUME Inv, NEW th \in TaskRunner, NEW c \in TaskBase, BgStep(th, c)
  PROVE  Inv'
<1>1. CASE BgSchedule(th, c)
  BY <1>1 DEF BgSchedule, GetNext, Inv, TypeOK, PC, Back, LocalsSet, StacksApart, NativeBg,
       TaskChecks
<1>2. CASE BgWait(th, c)
  BY <1>2 DEF BgWait, Inv, TypeOK, PC, LocalsSet, StacksApart, NativeBg, TaskChecks
<1>3. CASE BgFutexWait(th, c)
  <2>1. /\ \E to \in {"bg_asleep", "bg_woken"} : Goto(th, c, "bg_futex", to)
        /\ work' = [work EXCEPT ![th] = FALSE]
        /\ UNCHANGED <<taskVars, awVars, queueVars, current, life, locals>>
    BY <1>3 DEF BgFutexWait
  <2> QED
    BY <2>1 DEF Inv, TypeOK, PC, LocalsSet, StacksApart, NativeBg, TaskChecks
<1> QED BY <1>1, <1>2, <1>3 DEF BgStep

\* The invariant holds at first.
LEMMA InvInit == Init => Inv
<1> SUFFICES ASSUME Init PROVE Inv
  OBVIOUS
<1>1. TypeOK
  BY DEF Init, TypeOK, PC, Back
<1>2. LocalsSet /\ StacksApart
  BY DEF Init, LocalsSet, StacksApart
<1>3. NativeBg /\ TaskChecks
  BY DEF Init, NativeBg, TaskChecks
<1> QED BY <1>1, <1>2, <1>3 DEF Inv

\* Every step of every thread keeps the invariant.
LEMMA InvStep == Inv /\ [Next]_vars => Inv'
<1> SUFFICES ASSUME Inv, [Next]_vars PROVE Inv'
  OBVIOUS
<1>1. ASSUME NEW th \in TaskRunner, ThreadStep(th) PROVE Inv'
  <2>1. PICK c \in TaskBase : Step(th, c)
    BY <1>1 DEF ThreadStep
  <2> QED
    BY <2>1, ClientKeepsInv, AwaitableKeepsInv, ScheduleKeepsInv, WakeKeepsInv, BgKeepsInv
    DEF Step
<1>2. CASE UNCHANGED vars
  BY <1>2 DEF vars, Inv, TypeOK, LocalsSet, StacksApart, NativeBg, TaskChecks
<1> QED BY <1>1, <1>2 DEF Next, Exit

\* So it always holds.
LEMMA Invariance == Spec => []Inv
BY InvInit, InvStep, PTL DEF Spec

-----------------------------------------------------------------------------
(* Who touches the word of an Awaitable                                    *)

\* Only InsertInWaitlist and Release write the word of an awaitable.
LEMMA OnlyWaitAndRelease ==
  ASSUME NEW th \in TaskRunner, NEW c \in TaskBase, Step(th, c)
  PROVE  UNCHANGED awVars \/ InsertInWaitlist(th, c) \/ Release(th, c)
<1>1. CASE ClientStep(th, c)
  BY <1>1 DEF ClientStep, Yield, NewTask, DeleteTask, Join, Wait, CallRelease,
       DeleteAwaitable, AwaitableDestroyed, DestructorYield, DestructorReturn,
       ThreadReturns, RunnableReturns, Finish, Unreachable
<1>2. CASE AwaitableStep(th, c)
  BY <1>2 DEF AwaitableStep, NoWait, EnterWait, UndoWait, WaitReturns, ReleaseAgain
<1>3. CASE ScheduleStep(th, c)
  BY <1>3 DEF ScheduleStep, get_running_from_native, NativeNotRunning, TakeTask, TakeList,
       StoreTail, KeepFirst, QueueEmpty, FallBack, NoNextTask, CheckRunning, CheckWaiting,
       NativeFutexWait, switch_to, BadJump, PostJump, SavePrevContext, EnqueuePrev, LeavePrev
<1>4. CASE WakeStep(th, c)
  BY <1>4 DEF WakeStep, WalkList, WalkListEnd, WakeBound, WakeUnbound, DelayUnbound,
       WalkDelayed, WalkDelayedEnd, EnqueueDelayed, NotifyNobody, NotifyAll
<1>5. CASE BgStep(th, c)
  BY <1>5 DEF BgStep, BgSchedule, BgWait, BgFutexWait
<1> QED BY <1>1, <1>2, <1>3, <1>4, <1>5 DEF Step

\* The compare-and-swap of wait() refuses an awaitable that is released.
LEMMA ReleasedStaysEmpty ==
  ASSUME TypeOK, NoWaiterLeftBehind, [Next]_vars
  PROVE  NoWaiterLeftBehind'
<1>1. ASSUME NEW th \in TaskRunner, NEW c \in TaskBase, Step(th, c)
      PROVE  NoWaiterLeftBehind'
  <2>1. CASE UNCHANGED awVars
    BY <2>1 DEF NoWaiterLeftBehind
  <2>2. CASE InsertInWaitlist(th, c)
    BY <2>2 DEF InsertInWaitlist, TypeOK, NoWaiterLeftBehind
  <2>3. CASE Release(th, c)
    BY <2>3 DEF Release, TypeOK, NoWaiterLeftBehind
  <2> QED BY <1>1, <2>1, <2>2, <2>3, OnlyWaitAndRelease
<1>2. CASE UNCHANGED vars
  BY <1>2 DEF vars, NoWaiterLeftBehind
<1> QED BY <1>1, <1>2 DEF Next, Exit, ThreadStep

-----------------------------------------------------------------------------
(* Who saves the context that release() waits for                          *)

\* An unbound task is born with its stack; native tasks, and what is no task, always are.
Born(t) == t \in Task => life[t] # "unborn"

\* A stack that no thread executes was left in jump_fcontext.
LeftAtJump == \A t \in TaskBase : Executing(t) \/ pc[t] = "post_jump"

\* No pointer of the runtime leads to a task that is not born, whose m_context is null.
BornOnly ==
    /\ \A th \in TaskRunner : Born(current[th])
    /\ \A a \in Waitable : Born(head[a])
    /\ \A t \in TaskBase :
         /\ ~Born(t) => m_context[t] = "null"
         /\ Born(m_next[t]) /\ Born(aw[t]) /\ Born(prev_task[t])
         /\ Born(wakee[t]) /\ Born(task_list[t]) /\ Born(null_context_tasks[t])

\* A task whose m_context is null is executed, or the thread that left it will save it.
ContextHeld ==
    \A t \in TaskBase :
        Born(t) /\ m_context[t] = "null" => \E th \in TaskRunner : Saves(th, t)

HandOver == Inv /\ LeftAtJump /\ BornOnly /\ ContextHeld

\* Nobody is born but by Task::Task, and nobody is unborn again.
LEMMA BornByNewTask ==
  ASSUME HandOver, NEW th \in TaskRunner, NEW c \in TaskBase, Step(th, c)
  PROVE  \/ \A t : Born(t)' <=> Born(t)
         \/ \E t \in Task : NewTask(th, c, t)
<1> USE DEF Born
<1>1. CASE UNCHANGED life
  BY <1>1
<1>2. ASSUME NEW t \in Task, DeleteTask(th, c, t) PROVE \A u : Born(u)' <=> Born(u)
  BY <1>2 DEF DeleteTask, HandOver, Inv, TypeOK
<1>3. ASSUME NEW a \in Awaitable, DeleteAwaitable(th, c, a) PROVE \A u : Born(u)' <=> Born(u)
  BY <1>3 DEF DeleteAwaitable, HandOver, Inv, TypeOK
<1>4. CASE DestructorReturn(th, c) \/ AwaitableDestroyed(th, c)
  <2>1. life' = [life EXCEPT ![aw[c]] = "destroyed"] /\ Born(aw[c])
    BY <1>4 DEF DestructorReturn, AwaitableDestroyed, HandOver, BornOnly
  <2> QED BY <2>1 DEF HandOver, Inv, TypeOK
<1>5. CASE ClientStep(th, c)
  BY <1>1, <1>2, <1>3, <1>4, <1>5 DEF ClientStep, Yield, Join, Wait, CallRelease,
       DestructorYield, ThreadReturns, RunnableReturns, Finish, Unreachable
<1>6. CASE AwaitableStep(th, c)
  BY <1>1, <1>6 DEF AwaitableStep, NoWait, EnterWait, UndoWait, InsertInWaitlist, WaitReturns,
       Release, ReleaseAgain
<1>7. CASE ScheduleStep(th, c)
  BY <1>1, <1>7 DEF ScheduleStep, get_running_from_native, NativeNotRunning, TakeTask,
       TakeList,
       StoreTail, KeepFirst, QueueEmpty, FallBack, NoNextTask, CheckRunning, CheckWaiting,
       NativeFutexWait, switch_to, BadJump, PostJump, SavePrevContext, EnqueuePrev, LeavePrev
<1>8. CASE WakeStep(th, c)
  BY <1>1, <1>8 DEF WakeStep, WalkList, WalkListEnd, WakeBound, WakeUnbound, DelayUnbound,
       WalkDelayed, WalkDelayedEnd, EnqueueDelayed, NotifyNobody, NotifyAll
<1>9. CASE BgStep(th, c)
  BY <1>1, <1>9 DEF BgStep, BgSchedule, BgWait, BgFutexWait
<1> QED BY <1>5, <1>6, <1>7, <1>8, <1>9 DEF Step

\* A step moves the stack it is on, and may wake a stack that sleeps on its own thread.
LEMMA OthersStay ==
  ASSUME HandOver, NEW th \in TaskRunner, NEW c \in TaskBase, Step(th, c)
  PROVE  /\ fault = "none" /\ current[th] = c
         /\ \A x \in TaskBase \ {c} :
              \/ pc'[x] = pc[x]
              \/ pc[x] = "asleep" /\ pc'[x] = "from_queue"
              \/ pc[x] = "bg_asleep" /\ pc'[x] = "bg_woken"
<1> DEFINE Stay == /\ fault = "none" /\ current[th] = c
                   /\ \A x \in TaskBase \ {c} :
                        \/ pc'[x] = pc[x]
                        \/ pc[x] = "asleep" /\ pc'[x] = "from_queue"
                        \/ pc[x] = "bg_asleep" /\ pc'[x] = "bg_woken"
<1>1. ASSUME NEW to, pc' = [pc EXCEPT ![c] = to], fault = "none", current[th] = c PROVE Stay
  BY <1>1 DEF HandOver, Inv, TypeOK
<1>2. CASE ClientStep(th, c)
  BY <1>1, <1>2 DEF ClientStep, Call, Yield, NewTask, DeleteTask, Join, Wait, CallRelease,
       DeleteAwaitable, AwaitableDestroyed, DestructorYield, DestructorReturn,
       ThreadReturns, RunnableReturns, Finish, Unreachable
<1>3. CASE AwaitableStep(th, c)
  BY <1>1, <1>3 DEF AwaitableStep, NoWait, EnterWait, UndoWait, InsertInWaitlist, WaitReturns,
       Release, ReleaseAgain
<1>4. CASE ScheduleStep(th, c)
  BY <1>1, <1>4 DEF ScheduleStep, get_running_from_native, NativeNotRunning, TakeTask,
       TakeList,
       StoreTail, KeepFirst, QueueEmpty, FallBack, NoNextTask, CheckRunning, CheckWaiting,
       NativeFutexWait, switch_to, BadJump, PostJump, SavePrevContext, EnqueuePrev, LeavePrev
<1>5. CASE WakeBound(th, c)
  BY <1>5 DEF WakeBound, GetNext, is_thread_bound
<1>6. CASE NotifyAll(th, c)
  BY <1>6 DEF NotifyAll
<1>7. CASE WakeStep(th, c)
  BY <1>1, <1>5, <1>6, <1>7 DEF WakeStep, WalkList, WalkListEnd, WakeUnbound, DelayUnbound,
       WalkDelayed, WalkDelayedEnd, EnqueueDelayed, NotifyNobody
<1>8. CASE BgStep(th, c)
  BY <1>1, <1>8 DEF BgStep, BgSchedule, BgWait, BgFutexWait
<1> QED BY <1>2, <1>3, <1>4, <1>7, <1>8 DEF Step

\* Only switch_to() moves a thread to another stack.
LEMMA OthersKeepStack ==
  ASSUME HandOver, NEW th \in TaskRunner, NEW c \in TaskBase, Step(th, c)
  PROVE  UNCHANGED current \/ switch_to(th, c)
<1>1. CASE ClientStep(th, c)
  BY <1>1 DEF ClientStep, Yield, NewTask, DeleteTask, Join, Wait, CallRelease,
       DeleteAwaitable, AwaitableDestroyed, DestructorYield, DestructorReturn,
       ThreadReturns, RunnableReturns, Finish, Unreachable
<1>2. CASE AwaitableStep(th, c)
  BY <1>2 DEF AwaitableStep, NoWait, EnterWait, UndoWait, InsertInWaitlist, WaitReturns,
       Release, ReleaseAgain
<1>3. CASE ScheduleStep(th, c)
  BY <1>3 DEF ScheduleStep, get_running_from_native, NativeNotRunning, TakeTask, TakeList,
       StoreTail, KeepFirst, QueueEmpty, FallBack, NoNextTask, CheckRunning, CheckWaiting,
       NativeFutexWait, BadJump, PostJump, SavePrevContext, EnqueuePrev, LeavePrev
<1>4. CASE WakeStep(th, c)
  BY <1>4 DEF WakeStep, WalkList, WalkListEnd, WakeBound, WakeUnbound, DelayUnbound,
       WalkDelayed, WalkDelayedEnd, EnqueueDelayed, NotifyNobody, NotifyAll
<1>5. CASE BgStep(th, c)
  BY <1>5 DEF BgStep, BgSchedule, BgWait, BgFutexWait
<1> QED BY <1>1, <1>2, <1>3, <1>4, <1>5 DEF Step

\* The threads that switch_to() leaves where they are, and the one it moves.
LEMMA SwitchMoves ==
  ASSUME HandOver, NEW th \in TaskRunner, NEW c \in TaskBase, switch_to(th, c)
  PROVE  /\ next_task[c] \in TaskBase /\ ~Executing(next_task[c]) /\ c # next_task[c]
         /\ m_context[next_task[c]] = "saved"
         /\ \A t \in TaskRunner : current'[t] = IF t = th THEN next_task[c] ELSE current[t]
         /\ \A x \in TaskBase : pc'[x] = IF x = c THEN "post_jump" ELSE pc[x]
         /\ \A x \in TaskBase : prev_task'[x] = IF x = next_task[c] THEN c ELSE prev_task[x]
<1>1. next_task[c] \in TaskBase /\ ~Executing(next_task[c])
  BY DEF switch_to, CanJump, HandOver, Inv, LocalsSet
<1>2. c # next_task[c]
  BY <1>1 DEF switch_to, Executing
<1> QED BY <1>1, <1>2 DEF switch_to, CanJump, HandOver, Inv, TypeOK

\* The stack that is left stays in jump_fcontext; the others wait there already.
LEMMA StepKeepsLeft ==
  ASSUME HandOver, NEW th \in TaskRunner, NEW c \in TaskBase, Step(th, c)
  PROVE  LeftAtJump'
<1>1. CASE UNCHANGED current
  BY <1>1, OthersStay DEF HandOver, LeftAtJump, Executing
<1>2. CASE switch_to(th, c)
  <2>1. ASSUME NEW t \in TaskBase, t # c, Executing(t) PROVE Executing(t)'
    <3>1. PICK h \in TaskRunner : current[h] = t
      BY <2>1 DEF Executing
    <3>2. current'[h] = t
      BY <1>2, <2>1, <3>1, SwitchMoves DEF switch_to
    <3> QED BY <3>2 DEF Executing
  <2> QED BY <1>2, <2>1, SwitchMoves DEF HandOver, LeftAtJump
<1> QED BY <1>1, <1>2, OthersKeepStack

\* A step other than those of the switch: the context of its own stack may become
\* null, and nobody else's.
LEMMA HeldOnStack ==
  ASSUME HandOver, NEW th \in TaskRunner, NEW c \in TaskBase, Step(th, c),
         UNCHANGED current, pc[c] \notin {"post_jump", "save_prev"},
         \A x \in TaskBase \ {c} : prev_task'[x] = prev_task[x],
         \A t \in TaskBase : Born(t)' /\ m_context'[t] = "null"
             => t = c \/ (Born(t) /\ m_context[t] = "null")
  PROVE  ContextHeld'
<1> SUFFICES ASSUME NEW t \in TaskBase, Born(t)', m_context'[t] = "null"
             PROVE  \E h \in TaskRunner : Saves(h, t)'
  BY DEF ContextHeld
<1>1. CASE t = c
  BY <1>1, OthersStay DEF Saves
<1>2. CASE t # c
  <2>1. PICK h \in TaskRunner : Saves(h, t)
    BY <1>2 DEF HandOver, ContextHeld
  <2>2. CASE h = th
    BY <1>2, <2>1, <2>2, OthersStay DEF Saves
  <2>3. CASE h # th
    <3>1. current[h] \in TaskBase \ {c}
      BY <2>3, OthersStay DEF HandOver, Inv, TypeOK, StacksApart
    <3> QED BY <2>1, <3>1, OthersStay DEF Saves
  <2> QED BY <2>2, <2>3
<1> QED BY <1>1, <1>2

\* The thread that is on the stack of c takes its context along in prev_task.
LEMMA SwitchHolds ==
  ASSUME HandOver, NEW th \in TaskRunner, NEW c \in TaskBase, switch_to(th, c)
  PROVE  ContextHeld'
<1> DEFINE new == next_task[c]
<1>0. /\ UNCHANGED <<m_context, life>> /\ pc[c] = "switch_to" /\ current[th] = c
  BY DEF switch_to
<1>1. /\ new \in TaskBase /\ ~Executing(new) /\ c # new
      /\ \A t \in TaskRunner : current'[t] = IF t = th THEN new ELSE current[t]
      /\ \A x \in TaskBase : pc'[x] = IF x = c THEN "post_jump" ELSE pc[x]
      /\ \A x \in TaskBase : prev_task'[x] = IF x = new THEN c ELSE prev_task[x]
  BY SwitchMoves
<1> HIDE DEF new
<1>2. pc'[new] = "post_jump" /\ prev_task'[new] = c /\ current'[th] = new
  BY <1>1 DEF HandOver, LeftAtJump
<1> SUFFICES ASSUME NEW t \in TaskBase, Born(t)', m_context'[t] = "null"
             PROVE  \E h \in TaskRunner : Saves(h, t)'
  BY DEF ContextHeld
<1>3. PICK h \in TaskRunner : Saves(h, t)
  BY <1>0 DEF Born, HandOver, ContextHeld
<1>4. CASE h = th
  <2>1. t = c
    BY <1>0, <1>3, <1>4 DEF Saves
  <2> QED BY <1>2, <2>1 DEF Saves
<1>5. CASE h # th
  <2>1. current[h] \in TaskBase \ {c, new}
    BY <1>0, <1>1, <1>5 DEF HandOver, Inv, TypeOK, StacksApart, Executing
  <2>2. /\ current'[h] = current[h]
        /\ pc'[current[h]] = pc[current[h]] /\ prev_task'[current[h]] = prev_task[current[h]]
    BY <1>1, <1>5, <2>1
  <2> QED BY <1>3, <2>2 DEF Saves
<1> QED BY <1>4, <1>5

\* post_jump_fcontext makes the context of its own stack null, then saves the other.
LEMMA PostJumpHolds ==
  ASSUME HandOver, NEW th \in TaskRunner, NEW c \in TaskBase,
         PostJump(th, c) \/ SavePrevContext(th, c)
  PROVE  ContextHeld'
<1>1. /\ UNCHANGED <<life, current, prev_task>> /\ current[th] = c
      /\ \A x \in TaskBase \ {c} : pc'[x] = pc[x]
  BY DEF PostJump, SavePrevContext, HandOver, Inv, TypeOK
<1> SUFFICES ASSUME NEW t \in TaskBase, Born(t)', m_context'[t] = "null"
             PROVE  \E h \in TaskRunner : Saves(h, t)'
  BY DEF ContextHeld
<1>2. CASE t = c
  BY <1>1, <1>2 DEF Saves
<1>3. CASE t # c
  <2>1. m_context[t] = "null"
    BY <1>3 DEF PostJump, SavePrevContext, HandOver, Inv, TypeOK
  <2>2. PICK h \in TaskRunner : Saves(h, t)
    BY <1>1, <2>1 DEF Born, HandOver, ContextHeld
  <2>3. CASE h # th
    <3>1. current[h] \in TaskBase \ {c}
      BY <1>1, <2>3 DEF HandOver, Inv, TypeOK, StacksApart
    <3> QED BY <1>1, <2>2, <3>1 DEF Saves
  <2>4. CASE h = th /\ PostJump(th, c)
    <3>1. pc'[c] = "save_prev"
      BY <2>4 DEF PostJump, HandOver, Inv, TypeOK
    <3> QED BY <1>1, <1>3, <2>2, <2>4, <3>1 DEF Saves
  <2>5. CASE h = th /\ SavePrevContext(th, c)
    <3>1. prev_task[c] = t
      BY <1>1, <1>3, <2>2, <2>5 DEF Saves
    <3> QED BY <2>5, <3>1 DEF SavePrevContext, HandOver, Inv, TypeOK
  <2> QED BY <2>3, <2>4, <2>5
<1> QED BY <1>2, <1>3

\* The contexts and the prev_task's that the other steps leave alone.
LEMMA OthersKeepContext ==
  ASSUME HandOver, NEW th \in TaskRunner, NEW c \in TaskBase, Step(th, c),
         ~switch_to(th, c), ~PostJump(th, c), ~SavePrevContext(th, c)
  PROVE  /\ pc[c] \notin {"post_jump", "save_prev"}
         /\ \A x \in TaskBase \ {c} : prev_task'[x] = prev_task[x]
         /\ prev_task'[c] \in {prev_task[c], Null}
         /\ \/ \A x \in TaskBase \ {c} : m_context'[x] = m_context[x]
            \/ \E t \in Task : NewTask(th, c, t)
<1>1. CASE /\ UNCHANGED <<prev_task, m_context>>
           /\ pc[c] \notin {"post_jump", "save_prev"}
  BY <1>1
<1>2. ASSUME NEW t \in Task, NewTask(th, c, t) PROVE UNCHANGED prev_task /\ pc[c] = "user"
  BY <1>2 DEF NewTask, Call
<1>3. CASE ClientStep(th, c)
  BY <1>1, <1>2, <1>3 DEF ClientStep, Call, Yield, DeleteTask, Join, Wait, CallRelease,
       DeleteAwaitable, AwaitableDestroyed, DestructorYield, DestructorReturn,
       ThreadReturns, RunnableReturns, Finish, Unreachable
<1>4. CASE EnterWait(th, c) \/ UndoWait(th, c)
  BY <1>4 DEF EnterWait, UndoWait, HandOver, Inv, TypeOK
<1>5. CASE AwaitableStep(th, c)
  BY <1>1, <1>4, <1>5 DEF AwaitableStep, NoWait, InsertInWaitlist, WaitReturns,
       Release, ReleaseAgain
<1>6. CASE EnqueuePrev(th, c) \/ LeavePrev(th, c)
  <2>1. prev_task' = [prev_task EXCEPT ![c] = Null] /\ UNCHANGED m_context /\ pc[c] = "check_prev"
    BY <1>6 DEF EnqueuePrev, LeavePrev
  <2> QED BY <2>1 DEF HandOver, Inv, TypeOK
<1>7. CASE ScheduleStep(th, c)
  BY <1>1, <1>6, <1>7 DEF ScheduleStep, get_running_from_native, NativeNotRunning,
       TakeTask, TakeList,
       StoreTail, KeepFirst, QueueEmpty, FallBack, NoNextTask, CheckRunning, CheckWaiting,
       NativeFutexWait, BadJump
<1>8. CASE NotifyNobody(th, c) \/ NotifyAll(th, c)
  <2>1. pc[c] \in NotifyCalls /\ UNCHANGED <<prev_task, m_context>>
    BY <1>8, NotifyReturns DEF NotifyNobody, NotifyAll
  <2> QED BY <2>1 DEF NotifyCalls
<1>9. CASE WakeStep(th, c)
  BY <1>1, <1>8, <1>9 DEF WakeStep, WalkList, WalkListEnd, WakeBound, WakeUnbound,
       DelayUnbound,
       WalkDelayed, WalkDelayedEnd, EnqueueDelayed
<1>10. CASE BgStep(th, c)
  BY <1>1, <1>10 DEF BgStep, BgSchedule, BgWait, BgFutexWait
<1> QED BY <1>3, <1>5, <1>7, <1>9, <1>10 DEF Step

\* Every step keeps the context of a task in somebody's hands.
LEMMA StepKeepsHeld ==
  ASSUME HandOver, NEW th \in TaskRunner, NEW c \in TaskBase, Step(th, c)
  PROVE  ContextHeld'
<1>1. CASE switch_to(th, c)
  BY <1>1, SwitchHolds
<1>2. CASE PostJump(th, c) \/ SavePrevContext(th, c)
  BY <1>2, PostJumpHolds
<1>3. CASE ~switch_to(th, c) /\ ~PostJump(th, c) /\ ~SavePrevContext(th, c)
  <2>1. /\ pc[c] \notin {"post_jump", "save_prev"} /\ UNCHANGED current
        /\ \A x \in TaskBase \ {c} : prev_task'[x] = prev_task[x]
    BY <1>3, OthersKeepContext, OthersKeepStack
  <2>2. ASSUME NEW t \in TaskBase \ {c}, Born(t)', m_context'[t] = "null"
        PROVE  Born(t) /\ m_context[t] = "null"
    <3>1. CASE /\ \A u : Born(u)' <=> Born(u)
               /\ \A x \in TaskBase \ {c} : m_context'[x] = m_context[x]
      BY <2>2, <3>1
    <3>2. ASSUME NEW u \in Task, NewTask(th, c, u) PROVE Born(t) /\ m_context[t] = "null"
      BY <2>2, <3>2 DEF NewTask, Born, HandOver, Inv, TypeOK
    <3> QED BY <1>3, <3>1, <3>2, BornByNewTask, OthersKeepContext
  <2> QED BY <2>1, <2>2, HeldOnStack
<1> QED BY <1>1, <1>2, <1>3

\* The pointers of the wait lists, and the locals that hold them.
links == <<m_next, head, aw, wakee, task_list, null_context_tasks>>

\* The pointers that a step writes are copies of pointers it reads, or lead to its stack.
LEMMA LinksStayBorn ==
  ASSUME HandOver, NEW th \in TaskRunner, NEW c \in TaskBase, Step(th, c)
  PROVE  /\ \A a \in Waitable : Born(head'[a])
         /\ \A t \in TaskBase :
              /\ Born(m_next'[t]) /\ Born(aw'[t])
              /\ Born(wakee'[t]) /\ Born(task_list'[t]) /\ Born(null_context_tasks'[t])
<1> DEFINE Goal == /\ \A a \in Waitable : Born(head'[a])
                   /\ \A t \in TaskBase :
                        /\ Born(m_next'[t]) /\ Born(aw'[t])
                        /\ Born(wakee'[t]) /\ Born(task_list'[t]) /\ Born(null_context_tasks'[t])
<1>1. Born(c) /\ Born(Null) /\ \A a \in Awaitable : Born(a)
  <2>1. Born(c)
    BY OthersStay DEF HandOver, BornOnly
  <2> QED BY <2>1 DEF Born
<1>2. /\ \A a \in Waitable : Born(head[a])
      /\ \A t \in TaskBase :
           /\ Born(m_next[t]) /\ Born(aw[t])
           /\ Born(wakee[t]) /\ Born(task_list[t]) /\ Born(null_context_tasks[t])
  BY DEF HandOver, BornOnly
<1>3. TypeOK
  BY DEF HandOver, Inv
<1>4. CASE UNCHANGED links
  BY <1>2, <1>4 DEF links
<1>5. ASSUME NEW t, Born(t), aw' = [aw EXCEPT ![c] = t],
             UNCHANGED <<m_next, head, wakee, task_list, null_context_tasks>>
      PROVE  Goal
  BY <1>2, <1>3, <1>5 DEF TypeOK
<1>6. ASSUME NEW t \in Task, DeleteTask(th, c, t) \/ Join(th, c, t) PROVE Goal
  <2>1. Born(t)
    BY <1>6 DEF DeleteTask, Join, Born
  <2> QED BY <1>5, <1>6, <2>1 DEF DeleteTask, Join
<1>7. ASSUME NEW a \in Awaitable,
             Wait(th, c, a) \/ CallRelease(th, c, a) \/ DeleteAwaitable(th, c, a)
      PROVE  Goal
  BY <1>1, <1>5, <1>7 DEF Wait, CallRelease, DeleteAwaitable
<1>8. CASE ClientStep(th, c)
  BY <1>1, <1>4, <1>5, <1>6, <1>7, <1>8 DEF ClientStep, Yield, NewTask, AwaitableDestroyed,
       DestructorYield,
       DestructorReturn, ThreadReturns, RunnableReturns, Finish, Unreachable, links
<1>9. CASE InsertInWaitlist(th, c)
  <2>1. aw[c] \in Waitable
    BY <1>9 DEF InsertInWaitlist, HandOver, Inv, LocalsSet
  <2> QED BY <1>1, <1>2, <1>3, <1>9, <2>1 DEF InsertInWaitlist, TypeOK
<1>10. CASE Release(th, c)
  <2>1. aw[c] \in Waitable
    BY <1>10 DEF Release, HandOver, Inv, LocalsSet
  <2> QED BY <1>1, <1>2, <1>3, <1>10, <2>1 DEF Release, TypeOK
<1>11. CASE AwaitableStep(th, c)
  BY <1>4, <1>9, <1>10, <1>11 DEF AwaitableStep, NoWait, EnterWait, UndoWait, WaitReturns,
       ReleaseAgain, links
<1>12. CASE ScheduleStep(th, c)
  BY <1>4, <1>12 DEF ScheduleStep, get_running_from_native, NativeNotRunning, TakeTask,
       TakeList,
       StoreTail, KeepFirst, QueueEmpty, FallBack, NoNextTask, CheckRunning, CheckWaiting,
       NativeFutexWait, switch_to, BadJump, PostJump, SavePrevContext, EnqueuePrev,
       LeavePrev, links
<1>13. CASE WalkList(th, c) \/ WalkDelayed(th, c)
  <2>1. ASSUME NEW t \in TaskBase, Born(t), m_next' = [m_next EXCEPT ![t] = Null],
               wakee' = [wakee EXCEPT ![c] = t], UNCHANGED <<head, aw>>,
               \/ /\ task_list' = [task_list EXCEPT ![c] = m_next[t]]
                  /\ UNCHANGED null_context_tasks
               \/ /\ null_context_tasks' = [null_context_tasks EXCEPT ![c] = m_next[t]]
                  /\ UNCHANGED task_list
        PROVE  Goal
    BY <1>1, <1>2, <1>3, <2>1 DEF TypeOK
  <2>2. CASE WalkList(th, c)
    <3>1. task_list[c] \in TaskBase /\ Born(task_list[c])
      BY <1>2, <1>3, <2>2 DEF WalkList, TypeOK
    <3> QED BY <2>1, <2>2, <3>1 DEF WalkList
  <2>3. CASE WalkDelayed(th, c)
    <3>1. null_context_tasks[c] \in TaskBase /\ Born(null_context_tasks[c])
      BY <1>2, <1>3, <2>3 DEF WalkDelayed, TypeOK
    <3> QED BY <2>1, <2>3, <3>1 DEF WalkDelayed
  <2> QED BY <1>13, <2>2, <2>3
<1>14. CASE DelayUnbound(th, c)
  BY <1>2, <1>3, <1>14 DEF DelayUnbound, TypeOK
<1>15. CASE WakeStep(th, c)
  BY <1>4, <1>13, <1>14, <1>15 DEF WakeStep, WalkListEnd, WakeBound, WakeUnbound,
       WalkDelayedEnd, EnqueueDelayed, NotifyNobody, NotifyAll, links
<1>16. CASE BgStep(th, c)
  BY <1>4, <1>16 DEF BgStep, BgSchedule, BgWait, BgFutexWait, links
<1> QED BY <1>8, <1>11, <1>12, <1>15, <1>16 DEF Step

\* No step makes a pointer to a task that is not born.
LEMMA StepKeepsBorn ==
  ASSUME HandOver, NEW th \in TaskRunner, NEW c \in TaskBase, Step(th, c)
  PROVE  BornOnly'
<1>1. \A t : Born(t) => Born(t)'
  <2>1. ASSUME NEW u \in Task, NewTask(th, c, u) PROVE \A t : Born(t) => Born(t)'
    BY <2>1 DEF NewTask, Born, HandOver, Inv, TypeOK
  <2> QED BY <2>1, BornByNewTask
<1>2. \A h \in TaskRunner : Born(current[h]) /\ Born(current'[h])
  <2>1. CASE UNCHANGED current
    BY <2>1 DEF HandOver, BornOnly
  <2>2. CASE switch_to(th, c)
    <3>1. Born(next_task[c])
      BY <2>2, SwitchMoves DEF HandOver, BornOnly
    <3> QED BY <2>2, <3>1, SwitchMoves DEF HandOver, BornOnly
  <2> QED BY <2>1, <2>2, OthersKeepStack
<1>3. current[th] = c /\ Born(c) /\ Born(Null)
  BY <1>2, OthersStay DEF Born
<1>4. ASSUME NEW t \in TaskBase PROVE Born(prev_task'[t])
  <2>1. CASE switch_to(th, c)
    <3>1. prev_task'[t] = c \/ prev_task'[t] = prev_task[t]
      BY <2>1, SwitchMoves
    <3> QED BY <1>3, <3>1 DEF HandOver, BornOnly
  <2>2. CASE PostJump(th, c) \/ SavePrevContext(th, c)
    BY <2>2 DEF PostJump, SavePrevContext, HandOver, BornOnly
  <2>3. CASE ~switch_to(th, c) /\ ~PostJump(th, c) /\ ~SavePrevContext(th, c)
    BY <1>3, <2>3, OthersKeepContext DEF HandOver, BornOnly
  <2> QED BY <2>1, <2>2, <2>3
<1>5. ASSUME NEW t \in TaskBase, ~Born(t)' PROVE m_context'[t] = "null"
  <2>1. ~Born(t) /\ t # c /\ m_context[t] = "null"
    BY <1>1, <1>3, <1>5 DEF HandOver, BornOnly
  <2>2. CASE switch_to(th, c)
    BY <2>1, <2>2 DEF switch_to
  <2>3. CASE PostJump(th, c) \/ SavePrevContext(th, c)
    <3>1. t # prev_task[c]
      BY <2>1 DEF HandOver, BornOnly
    <3> QED BY <2>1, <2>3, <3>1 DEF PostJump, SavePrevContext, HandOver, Inv, TypeOK
  <2>4. ASSUME NEW u \in Task, NewTask(th, c, u) PROVE m_context'[t] = "null"
    BY <1>5, <2>1, <2>4 DEF NewTask, Born, HandOver, Inv, TypeOK
  <2> QED BY <2>1, <2>2, <2>3, <2>4, OthersKeepContext
<1> DEFINE Links == /\ \A a \in Waitable : Born(head'[a])
                    /\ \A t \in TaskBase :
                         /\ Born(m_next'[t]) /\ Born(aw'[t])
                         /\ Born(wakee'[t]) /\ Born(task_list'[t])
                         /\ Born(null_context_tasks'[t])
<1>6. Links
  BY LinksStayBorn
<1> HIDE DEF Links
<1>7. \A t : Born(t)' <=> (t \in Task => life'[t] # "unborn")
  BY DEF Born
<1> QED BY <1>1, <1>2, <1>4, <1>5, <1>6, <1>7 DEF BornOnly, Links, Born

\* At first every thread executes its native stack, and nobody else is born.
LEMMA HandOverInit == Init => HandOver
<1> SUFFICES ASSUME Init PROVE HandOver
  OBVIOUS
<1>1. LeftAtJump /\ BornOnly
  BY DEF Init, LeftAtJump, Executing, BornOnly, Born
<1>2. ContextHeld
  BY DEF Init, ContextHeld, Born, Saves
<1> QED BY <1>1, <1>2, InvInit DEF HandOver

\* Every step keeps the whole of it.
LEMMA HandOverStep == HandOver /\ [Next]_vars => HandOver'
<1> SUFFICES ASSUME HandOver, [Next]_vars PROVE HandOver'
  OBVIOUS
<1>1. ASSUME NEW th \in TaskRunner, NEW c \in TaskBase, Step(th, c)
      PROVE  LeftAtJump' /\ BornOnly' /\ ContextHeld'
  BY <1>1, StepKeepsLeft, StepKeepsBorn, StepKeepsHeld
<1>2. ASSUME UNCHANGED vars
      PROVE  LeftAtJump' /\ BornOnly' /\ ContextHeld'
  <2>1. UNCHANGED <<m_context, m_next, head, current, life, pc, aw, prev_task, task_list,
                    null_context_tasks, wakee>>
    BY <1>2 DEF vars
  <2>2. LeftAtJump' /\ BornOnly'
    BY <2>1 DEF HandOver, LeftAtJump, Executing, BornOnly, Born
  <2>3. ContextHeld'
    <3>1. \A t : (Born(t)' <=> Born(t)) /\ \A h : Saves(h, t)' <=> Saves(h, t)
      BY <2>1 DEF Born, Saves
    <3> QED BY <2>1, <3>1 DEF HandOver, ContextHeld
  <2> QED BY <2>2, <2>3
<1> QED BY <1>1, <1>2, InvStep DEF Next, Exit, ThreadStep, HandOver

-----------------------------------------------------------------------------
(* Theorems                                                                *)

\* The memory of the runtime keeps its types whatever the clients do, the orders
\* that end in a fault included: put_item() and jump_fcontext() always get a task.
THEOREM TypeCorrect == Spec => []TypeOK
<1>1. Inv => TypeOK
  BY DEF Inv
<1> QED BY <1>1, Invariance, PTL

\* do_schedule() comes to native_futex.wait() only on the native stack of a common
\* thread, as scheduler.cpp:69 says: no background thread and no unbound task
\* ever sleeps there.
THEOREM OnlyCommonTasksSleep == Spec => []OnlyCommonSleeps
<1>1. Inv => OnlyCommonSleeps
  BY DEF Inv, TypeOK, NativeBg, TaskChecks, OnlyCommonSleeps
<1> QED BY <1>1, Invariance, PTL

\* Once release() has taken the list of an awaitable no task gets into it, however
\* the insertions and releases of the clients interleave.
THEOREM NobodyLeftBehind == Spec => []NoWaiterLeftBehind
<1>1. Init => NoWaiterLeftBehind
  BY DEF Init, NoWaiterLeftBehind
<1>2. TypeOK /\ NoWaiterLeftBehind /\ [Next]_vars => NoWaiterLeftBehind'
  BY ReleasedStaysEmpty
<1> QED BY <1>1, <1>2, TypeCorrect, PTL DEF Spec

\* release() never waits for a context that nobody is going to save: while
\* it spins (scheduler.cpp:300) a thread is on the stack of that task or has just left
\* it, whatever the clients do.
THEOREM SpinIsSaved == Spec => []SpinHasSaver
<1>1. HandOver => SpinHasSaver
  BY DEF HandOver, Inv, LocalsSet, BornOnly, ContextHeld, SpinHasSaver
<1>2. Spec => []HandOver
  BY HandOverInit, HandOverStep, PTL DEF Spec
<1> QED BY <1>1, <1>2, PTL
=============================================================================
