------------------------------- MODULE Runtime -------------------------------
(***************************************************************************)
(* The memory the parts of alterstack share: TaskBase (task.hpp), the word *)
(* of an Awaitable (awaitable.hpp), the running queue, TaskRunner.         *)
(*                                                                         *)
(* A TaskBase is a stack of its own, so the control point pc and the       *)
(* locals belong to the task; thread th executes the stack current[th].    *)
(* A thread stands for its TaskRunner and its BoundTask; a Task stands     *)
(* for its m_awaitable too.                                                *)
(*                                                                         *)
(* The running queue is what ItemPool says and LockFreeQueue implements: a *)
(* set of tasks, and per thread the list that get_item() holds while       *)
(* nobody else sees it.  A Futex is what WakeToken says of it when no      *)
(* token is late: notify() leaves a token and wakes.                       *)
(***************************************************************************)
EXTENDS Naturals, Sequences

CONSTANTS
    CommonThread,   \* main() and std::thread's of the client
    BgThread,       \* threads of BgRunner
    Task,           \* unbound tasks
    Awaitable,      \* Awaitable objects other than the m_awaitable of a Task
    Program,        \* for a common thread or a Task: the operations it may do at each step
    RacyEmpty,      \* may get_item() miss an item that other threads shift?
    StorageReused,  \* may the memory of a destroyed Task be overwritten?
    Null

TaskRunner == CommonThread \cup BgThread
TaskBase == TaskRunner \cup Task
Waitable == Awaitable \cup Task

\* The operations of the API.
Op == [do : {"yield", "new", "delete", "join", "wait", "release"},
       on : Waitable \cup {Null}]

ASSUME RuntimeAssumption ==
    /\ CommonThread \cap BgThread = {}
    /\ TaskRunner \cap Task = {}
    /\ Awaitable \cap TaskBase = {}
    /\ Null \notin TaskBase \cup Awaitable
    /\ Program \in [CommonThread \cup Task -> Seq(SUBSET Op)]
    /\ RacyEmpty \in BOOLEAN
    /\ StorageReused \in BOOLEAN

VARIABLES
    m_state,        \* TaskBase::m_state
    m_context,      \* TaskBase::m_context: "null", "saved", or the "fake" 0x01
    m_next,         \* IntrusiveList::m_next, as the wait lists use it
    head,           \* AwaitableData::head
    is_finished,    \* AwaitableData::is_finished
    pool,           \* tasks in running_queue_ that a get_item() can find
    batch,          \* per thread: tasks taken out by a get_item() under way
    current,        \* per thread: m_current_task, the stack it executes
    work,           \* per thread: m_work_avalable of the futex it sleeps on
    life,           \* per Task and Awaitable: the C++ lifetime of the object
    pc,             \* per stack: control point
    ip, back, aw,                           \* per stack: locals of the client,
    next_task, prev_task,                   \* of schedule() and the switch,
    task_list, null_context_tasks, wakee,   \* of add_waiting_list_to_running()
    fault           \* "none", or how the program has broken

taskVars == <<m_state, m_context, m_next>>
awVars == <<head, is_finished>>
queueVars == <<pool, batch, fault>>
threadVars == <<current, work>>
shared == <<taskVars, awVars, queueVars, threadVars, life>>
callVars == <<ip, back, aw>>
jumpVars == <<next_task, prev_task>>
walkVars == <<task_list, null_context_tasks, wakee>>
locals == <<callVars, jumpVars, walkVars>>
vars == <<shared, pc, locals>>

is_thread_bound(t) == t \in TaskRunner

\* Thread th is at a control point of stack c; nothing follows a fault.
At(th, c, label) == fault = "none" /\ current[th] = c /\ pc[c] = label
Move(c, to) == pc' = [pc EXCEPT ![c] = to]
Goto(th, c, from, to) == At(th, c, from) /\ Move(c, to)

Executing(t) == \E th \in TaskRunner : current[th] = t
InQueue(t) == t \in pool \/ \E th \in TaskRunner : t \in batch[th]

\* LockFreeQueue::put_item.  A task already in it would spoil its lists.
put_item(t) ==
    /\ pool' = pool \cup {t}
    /\ fault' = IF InQueue(t) THEN "queued_twice" ELSE fault
    /\ UNCHANGED batch

Init ==
    /\ m_state = [t \in TaskBase |-> "Running"]
    /\ m_context = [t \in TaskBase |-> "null"]
    /\ m_next = [t \in TaskBase |-> Null]
    /\ head = [a \in Waitable |-> Null]
    /\ is_finished = [a \in Waitable |-> FALSE]
    /\ pool = {}
    /\ batch = [th \in TaskRunner |-> {}]
    /\ current = [th \in TaskRunner |-> th]
    /\ work = [th \in TaskRunner |-> TRUE]
    /\ life = [a \in Waitable |-> IF a \in Task THEN "unborn" ELSE "alive"]
    /\ pc = [t \in TaskBase |-> IF t \in BgThread THEN "bg_loop"
                                ELSE IF t \in Task THEN "post_jump" ELSE "user"]
    /\ ip = [t \in TaskBase |-> 1]
    /\ back = [t \in TaskBase |-> "user"]
    /\ aw = [t \in TaskBase |-> Null]
    /\ next_task = [t \in TaskBase |-> Null]
    /\ prev_task = [t \in TaskBase |-> Null]
    /\ task_list = [t \in TaskBase |-> Null]
    /\ null_context_tasks = [t \in TaskBase |-> Null]
    /\ wakee = [t \in TaskBase |-> Null]
    /\ fault = "none"
=============================================================================
