# alterstack in TLA+

alterstack is a C++ library of stackful coroutines. A client constructs a `Task`
with a function to run; the function runs on a stack of its own, on whatever OS
thread takes it. This directory models the core of the library, checks the models
with TLC on small instances, and proves some of their properties with TLAPS for
every instance. Paths such as `scheduler.cpp` are below `src/src/`, headers below
`src/include/alterstack/`.

## The system

| component | state | operations | talks to |
|---|---|---|---|
| `Task`, `TaskBase` (`task.cpp`, `task.hpp`) | `m_state`, `m_context`, `m_next`, `m_awaitable`, the stack | constructor, destructor, `yield`, `join`, `_run_wrapper` | Scheduler, Awaitable |
| `Awaitable` (`awaitable.cpp`) | a double word {`head`, `is_finished`} changed by compare-and-swap | `wait`, `release`, destructor | Scheduler |
| `Scheduler` (`scheduler.cpp`) | the running queue; the switch of stacks | `schedule`, `run_new_task`, `post_jump_fcontext`, `add_waiting_list_to_running` | everything |
| `TaskRunner`, `BoundTask` (`task_runner.hpp`) | per thread: `m_current_task`, the native task, `native_futex` | `current`, `notify` | Futex |
| `BgThread`, `BgRunner` (`bg_thread.cpp`, `bg_runner.cpp`) | `m_sleep_count`, a futex per thread, stop flags | `thread_function`, `wait`, `notify`, shutdown | Scheduler, Futex |
| `Futex` (`futex.hpp`) | `m_work_avalable`, `m_wait_counter`, the kernel's wait queue | `wait`, `notify`, `notify_all` | kernel |
| `LockFreeQueue` (`lock_free_queue.hpp`) | a `BoundBuffer` and three `LockFreeStack`s | `get_item`, `put_item` | its two parts |
| `BoundBuffer` (`bound_buffer.hpp`) | 4 slots, each the head of an intrusive list; `m_get_position`, `m_put_position` | `get_item`, `put_items_list`, `put_priority_item` | |
| `LockFreeStack` (`lock_free_stack.hpp`) | `m_head` of an intrusive list | `push`, `pop_list` | |
| `Stack`, `Context`, `os_utils`, `passkey`, `spin_lock` | | mmap of a stack, types, thread names; `spin_lock.hpp` has no user | |

A *native* (thread-bound) task is the stack that an OS thread began with; an
*unbound* task is a `Task`. A *common* thread is `main()` or a `std::thread` of the
client; a background thread only schedules. `schedule()` takes the next task (an
unbound task on a common thread asks for the native one first, else the running
queue) and jumps to its context; the code on the stack that was jumped to
(`post_jump_fcontext`) saves the context of the task that was left, and enqueues
it if it is still `Running`. A task that waits makes itself `Waiting`, clears its
`m_context`, puts itself on the list of the awaitable and calls `schedule()`.
`release()` takes the whole list and hands each task over: a native task is
notified on its `native_futex`, an unbound one is enqueued. When an unbound task is
still on its stack (`m_context` null) it is set aside and its context awaited.

What makes this hard: a task is in a wait list *before* it has left its stack; the
context and the state of a task are two words, written by the thread that leaves
the task and read by releasers and by `~Task`; the same intrusive `m_next` serves
wait lists, the releaser's list of delayed tasks and the queue; sleeping and
waking go through two different counters. Correct means: a stack runs on one
thread at a time, no task is forgotten, none is run after its end, none is
destroyed while a thread is on its stack, `wait()` returns when and only when it
should, and no thread sleeps for ever with something to do. The queue is hard for
another reason: a `get_item()` takes whole lists out of slots and puts the rest back
while others do the same, so items are out of sight for a time, and slots change
between the look and the compare-and-swap. Correct means that no item is lost or
given out twice, that one that is alone finds an item if there is one, and that
every item is got in the end. `PROJECT.json` lists
the places where this can go wrong as hazards, each with its line.

## The modules

| module | models | 
|---|---|
| `Futex` | `futex.hpp`, with the client it is documented for. Each access to an atomic is an action; the store of `notify()` is put in a store buffer, and `LoadPasses` says whether its load may be done before that has drained. |
| `FutexProofs` | theorems about `Futex` |
| `WakeToken` | abstract: what a futex promises the one thread that waits on it, with and without late tokens |
| `Runtime` | the memory that the parts share, its initial value, `put_item` |
| `Scheduler` | `scheduler.cpp` and `BgRunner::notify` over `Runtime` |
| `Awaitable` | `awaitable.cpp` over `Scheduler` |
| `Alterstack` | `task.cpp`, `~Awaitable`, `bg_thread.cpp`, the client, the next-state relation, the properties |
| `AlterstackProofs` | theorems about `Alterstack`, for all its behaviours |
| `AlterstackOwnership` | theorems about who has a task, for its orderly behaviours, and that these implement `Coroutines` |
| `MCAlterstack` | client programs for TLC |
| `Coroutines` | abstract: what alterstack promises its clients about stacks, waits and the lifetime of objects |
| `CoroutinesProofs` | what the promise comes to |
| `BgShutdown` | the end of `BgRunner`: `bg_thread.cpp`, `bg_runner.cpp`, `atomic_guard.hpp`, over the actions of `Futex` |
| `BgShutdownProofs` | theorems about `BgShutdown`, that its futex implements `WakeToken`, and what follows |
| `IntrusiveList` | `intrusive_list.hpp`: the items of a list that begins with a given one |
| `IntrusiveListProofs` | what it does to lists to take the first item, to put one in front, to put a list behind another |
| `QueueMemory` | slots, positions, stacks, links, and the locals of the threads |
| `BoundBuffer` | `bound_buffer.hpp` over `QueueMemory` |
| `LockFreeStack` | `lock_free_stack.hpp` over `QueueMemory` |
| `LockFreeQueue` | `lock_free_queue.hpp`: the composition of these, its clients, the properties |
| `LockFreeQueueProofs` | the types of `LockFreeQueue` and the arithmetic of its positions; that it implements `ItemPool`, and what follows |
| `ItemPool` | abstract: what a running queue promises |
| `ItemPoolProofs` | what that promise comes to |
| `MCQueue` | priorities and symmetry for TLC |

`Runtime`, `Scheduler`, `Awaitable` and `Alterstack` extend each other in this order
and are one specification. `LockFreeQueue` extends `BoundBuffer` and `LockFreeStack`,
which share `QueueMemory` (over `IntrusiveList`), and is another. `ItemPool` joins the two: `LockFreeQueue`
implements it, and the running queue of `Runtime` and `Scheduler` has its state and
its steps. `BgShutdown` has an INSTANCE of `Futex`, and one of `WakeToken`, which its futex implements: that
is what joins the futex of `Runtime` to the code of `futex.hpp`. `Alterstack` has one of `Coroutines`,
which its orderly behaviours implement.

### How state and actions correspond to the code

A stack *is* the state of its task: `pc[c]`, and the locals of the functions on
stack `c` (`next_task`, `prev_task`, `task_list`, `null_context_tasks`, and `wakee`
for the `task` of the two loops of `add_waiting_list_to_running`), belong to task
`c`. Thread `th` executes the stack `current[th]`, which is `m_current_task`; every
action has the pair as parameters, `Action(th, c)`, and the guard
`At(th, c, label)`. `back[c]` is where the function that `c` is in returns to. A
control point is named after what happens next there: `from_queue` is the call of
`get_item`, `check_running` the test of line 65 of `scheduler.cpp`, `save_prev` the
store of line 140, `spin` the loop of line 300. One action is one access to memory
that other threads see, with the private computation around it.

* `m_context` is `"null"`, `"saved"` (a context that can be jumped to) or `"fake"`
  (the `0x01` of `awaitable.cpp:72`). A jump to a context that is not saved, or to a
  stack that a thread is on, sets `fault` to `"bad_jump"`; a task put in the queue
  while it is there sets `"queued_twice"` (the intrusive list is spoilt); the code
  after `__builtin_unreachable()` sets `"unreachable"`. Nothing happens after a
  fault: the program is undefined from there on.
* The running queue is what `LockFreeQueue` promises: `pool`, the tasks that a
  `get_item()` can find, and `batch[th]`, the tasks that the `get_item()` of thread
  `th` has taken out and puts back one by one. Order is not promised, so none is
  modelled. With `RacyEmpty` a `get_item()` may also return nothing while `pool` is
  not empty, as its scan of slots does when others move items.
  `ItemPool` has the same two variables and the same steps.
* A futex is abstracted to what `WakeToken` says of it when no token is late: `work[th]` is
  the token, a `wait()` with a token returns at once, `notify()` sets it and wakes the sleeper. A
  sleep may also end early, by a signal or by the FUTEX_WAKE of a `notify()` that comes after its
  token was taken: as nobody sees a thread fall asleep, `NativeFutexWait` and
  `BgFutexWait` go on at once in that case, or when the token comes between the look and
  FUTEX_WAIT (`FindLate`). `Sleep`, `WakeEarly` and `Return` of `WakeToken` are one step there, and
  so are `BeginNotify`, `LeaveToken` and `EndNotify`. The wake-up that `FutexTSO` loses is thus
  outside `Scheduler` and `Alterstack`: `Completed` of `Live` holds of a program whose futexes
  are sequentially consistent.
  `work[th]` stands for `native_futex` of a common thread and for
  `m_task_avalable_futex` of a background one (no other futex of the thread is
  used).
* `m_sleep_count` is the number of background threads between the two updates in
  `BgThread::wait`, that is `Cardinality(Sleeping)`. The test of the count and the
  wake-ups in `BgRunner::notify` are one step.
* The client is a `Program`: for each common thread and task, a sequence of sets of
  operations, one of which is done at each step. The model constructs a `Task`
  once, joins and destroys only objects that are constructed, and destroys each
  once.
* `life[t]` is the C++ lifetime of a `Task` or an `Awaitable`. With `StorageReused`,
  reads of a destroyed object return any state. `~Awaitable` is `DeleteAwaitable`, which
  decides by one load of the double word whether to call `wait()`, and
  `AwaitableDestroyed`; `back[c]` is `"destroy"` in between, so that `wait()`, whose
  actions are those of the client's own calls, returns to the destructor.
  The `m_awaitable` of a `Task` is destroyed with it: when `~Task` has come so far
  its list is empty (`DestroyedUntouched`), so its `~Awaitable` returns at once and is no
  step of its own. `~BoundTask` is part of `ThreadReturns`: its `release()` has no
  effect, because no client can name a native task to join it, and it says `Finished`.
* `ImplementsCoroutines` maps `current` to the stack that a thread `runs`, `m_state`
  `"Finished"`, `is_finished` and `life` to three sets, and `aw[c]` to what `c` `waits` for,
  from the compare-and-swap that puts it on the list to the return of `wait()`. All
  the rest of `Scheduler` (queue, contexts, lists, futexes) is stuttering.
* The race on a plain field that the code has (`m_next` of a task that is on two
  lists) is modelled as the interleaving of its reads and writes.

In `LockFreeQueue` a thread is in one function at a time, so its locals are per
thread; an idle one calls `put_item()` with an item that it holds, or `get_item()`.

* One action is one load, exchange or compare-and-swap of a slot, a position or a
  head. The items of a list that a thread has taken out are its own: their links
  are written with the compare-and-swap that publishes them, which leaves out no
  interleaving. The link of an item that is being put is written with the load that
  it takes its value from.
* A position wraps at `Positions`, `2^32` in the code, which `QueueAssumption` has as
  a multiple of the number of slots; the code's is one.
* `ListOf(x)` is the items of the list that begins with `x`: the least set that has `x` and,
  with each item, the one that its link leads to (`ItemsFrom`). `LastOf` is the walk to
  the end of a list. `Return` is the end of a call.
* `ImplementsPool` maps every list that begins in a slot, in a head or in the
  `old_list` of `store_in_occupied_slot()` to `pool`, and the item that a `get_item()`
  keeps with the rest of its list to `batch`. A list in `old_list` cannot be found
  for two steps, which `ItemPool` allows: it does not promise that an item is found.
* `excused[th]` is a history variable: the `get_item()` of `th` began in an empty
  queue, or some other thread has been in the queue during the call. `FindsIfAlone`
  says that nothing else excuses a `nullptr`.

In `BgShutdown` the client's threads and `main()` enqueue, run tasks or end in any order,
and `stage` is where `main()` is in `~BgRunner`. There is one `BgThread`, the number
that `Scheduler` gives to `BgRunner` (`min_spare`).

* The thread's `Futex::wait` is the actions of `Futex` for the one consumer `BgThread`,
  entered from `CountSleep` and left to `CountAwake`; `wake_up()`, that is `notify_all()`, is
  those for a producer, without the choice of `notify()` at `ReadCounter`.
* `ImplementsToken` maps the word to the token, and the thread to `asleep` exactly while the kernel
  keeps it asleep: up to FUTEX_WAIT it is `in` the call, and the compare there decides. A
  `notify()` is `calling` from its first load to its return, and its token is `due` until it has
  found the word 1 or its store has left the store buffer. That the thread does not
  sleep when a `notify()` returns is a guarantee of every `EndNotify`; that the token is there by
  then is one only without `LoadPasses`, which is the constant `Delayed` of `WakeToken`. With it
  the token may come when the thread has gone to sleep again, and stays there until
  somebody notifies again: that is `FutexTSO`, so the sentence of `futex.hpp:97` is
  not what `ImplementsToken` states with delayed stores. The property fails without the kernel's
  compare, without the FUTEX_WAKE, without `m_wait_counter`, without the store, and when the
  exchange drops the token; with `LoadPasses` it fails too if `Delayed` is `FALSE`.
* `HelpOut` and `RunTask` are a turn of `schedule()`, seen from the queue: a thread that
  takes a list with more tasks calls `notify()`. That of the `BgThread` itself finds nobody asleep.
* The store of `m_stop_requested` may sit in `main()`'s store buffer (`stop_buffered`), in
  front of the store of the futex word: `DrainWord` waits for `DrainStop`.
* `RequestStop` is the first `request_stop()`, from `~BgRunner`, together with the one in
  `stop_thread()` that stores the same value. `WakeUpAgain` is a turn of the loop of
  `ensure_thread_stopped()`, and the first `wake_up()` of `stop_thread()` is the same call
  without the test.

Definitions commented `Mutant:` are changed versions of the action next to them;
`PROJECT.json` pairs each with the property that it breaks. No specification uses
them.

## What is checked

Deadlock is checked in every run. `Exit` lets the process stop where it may: when
the common threads have returned, or at a fault.

| run | instance | shows |
|---|---|---|
| `FutexSC` | 2 workers, 2 producers, 4 items, no load passes a store | `NoLostWakeup`, its strengthening `WakeupPending`, and `EventuallyDrained` under fairness |
| `Shutdown` | 1 background thread, `main()` and 2 other clients, 2 tasks, loads may pass stores | `~BgRunner` returns (`StopReturns`), from any state that the clients have left the thread and its futex in; a `wake_up()` that begins when the thread sleeps wakes it (`NotifyWakesSleepers`); both counters are exact (`TypeOK`); the thread sleeps only for want of a token and not beyond the return of a `wake_up()` (`ImplementsToken`) |
| `Settled` | `main()`, 2 background threads, 2 tasks, 2 awaitables (`task_wait.cpp`, where the waiting tasks have left their stacks before anyone releases them; one awaitable may be destroyed while a task waits) | the refinement of `Coroutines`; a stack has one owner, a task is queued with its context saved and not after its end, `~Task` returns when the stack is left, nobody uses an awaitable after its destructor has returned; all its steps are `Orderly` and its clients `Careful`, which the theorems of `AlterstackOwnership` assume |
| `Race` | `main()` and a second common thread, 1 background thread, 2 tasks, 1 awaitable, release at any time | what holds in spite of the races below: types, no waiter left behind, no lost task, only common threads sleep on `native_futex`, sleepers have wakers, `release()` waits only for a context that a thread has yet to save (`SpinHasSaver`) |
| `Queue` | 2 threads, 2 slots, 2 stacks, 3 items, one of which may be High or Normal | `ImplementsPool`: no item lost, doubled or given to two threads; an item that is got is not linked to anything; every item in the queue is got in the end (`Served`) |
| `QueueSlots` | 2 threads, 3 slots, 4 items, all High | `ImplementsPool` where the rest of a list is spread over slots; a `get_item()` that is alone finds an item (`FindsIfAlone`) |
| `Live` | `main()`, 1 background thread, 2 tasks, 2 awaitables; tasks that wait, a join, destructors | every such program comes to its end (`Completed`), and `BoundTask::notify` finds a thread that has not ended (`NotifiesAlive`); its clients are `Careful`, though not all of its steps are `Orderly` |

The bounds: tasks and awaitables are few because a race here is between one task,
its releaser and the thread that leaves its stack; a second task is needed for a
list of two, for the queue to hold another task, and as a releaser that is itself
a task. Programs are short and `ip` bounds them; nothing else counts. `Futex` and `BgShutdown`
bound the items enqueued (`MaxEnqueue`): with two and three clients, two `notify()` can
be at work on the futex and `main()` can still begin to stop it with a token left, with
the thread asleep, or with it anywhere on its way to sleep. `RacyEmpty` is TRUE in `Settled` and `Race`, and
`StorageReused` in `Race`. `RacyEmpty` is FALSE in `Live`, where a scan that misses an
item for ever would be an artefact (the code misses one only while another thread
moves it), and in the runs of the next section, so that no counterexample depends
on it.

`ImplementsCoroutines` is a question for programs whose steps are all orderly, and `Settled` is the one
with most in it. `AlwaysOrderly` and `AlwaysCareful` check of a program that the theorems apply to it;
they catch no hazard. As `Settled` is orderly, it says nothing about the races at `scheduler.cpp:284`,
`awaitable.cpp:60` and `scheduler.cpp:256`, for which there are `Race` and the runs of the next
section; nor does a thread release an awaitable there between the look and the wait of its
destructor (`awaitable.cpp:33`), which `NoUseAfterDestructor` covers. In `Race` and `Live` the code does not keep the promise, in the ways of the next section: in `Race` a task may
be resumed after its end, and in `Live` the join of the native task may return early
(as in `BoundWait`), which does not keep the program from its end.

`BUFFER_SIZE` is 4 in the code. `store_tail()` goes on to other slots after the first
item only with three slots or more (`TailEnd`, and an `EmptyNoSlot` after some item
has found a place), and `QueueSlots` has three; with two, a list always ends in
`store_in_occupied_slot()`, whose races `Queue` then meets with few items. Nothing in
the functions depends on a greater number, except how often a loop goes round.
`Positions` is the number of slots, so that the wrap happens and a position that
comes back to its old value fools `Moved` as soon as it can. Two stacks are enough for
one to be looked at before the other. Symmetry of items and threads is used only
in `QueueSlots`, which checks no liveness.

Fairness: weak fairness of each thread's step, and in `Futex` of the drain of a
store buffer. The kernel schedules every thread that can run; it does not prefer
one outcome of a race. In `LockFreeQueue` a thread that is idle also goes on to call
the queue, with a `put_item()` or a `get_item()`: that is the loop of `schedule()`. Which
of the two is left open, so a thread that has nothing to put gets. Producers owe no item, and signals that end FUTEX_WAIT need
never come. In `BgShutdown` the background thread, a `wake_up()` that has begun, a store
buffer and the destructors go on; a client owes no task, no end, and `main()` need
not come to its end. `StopReturns` begins where it has.

### Where the code departs from what it says

Each of these runs checks one statement of the repository, and TLC finds a behaviour
of the code against it (the quotations are in `PROJECT.json`).

| run | property | what happens |
|---|---|---|
| `FutexTSO` | `NoLostWakeup` | the store of the token is still in the store buffer when `notify()` reads the counter |
| `RaceResumed` | `NeverResumed` | the releaser and `post_jump_fcontext` both enqueue a task; it is resumed after it has finished |
| `RaceDestroyed` | `DestroyedIsLeft` | `m_context = 0x01` on a running task lets `~Task` free the stack under it |
| `BoundWait` | `WaitReturnsReleased` | the fallback on the native task makes its `wait()` return early |
| `Stall` | `NoStall` | `BgRunner::notify` reads the count before the background thread raises it |

The first is a matter of memory order, the others of ordinary interleavings of at
most three threads. `Settled` and `Live` are the runs in which the races that remain
are harmless; `Race` keeps them and checks what they cannot break.

More races are in the model and have no run of their own; each is listed as a
hazard.

* A task that was released while on its stack goes on there, and may itself wait for
  the releaser: the loop of `scheduler.cpp:300` then lasts until it leaves the stack.
  `SpinHasSaver` is what can be said: somebody is left to save the context.
* Such a task may wait again and link its `m_next` into a second list while the
  releaser's list of delayed tasks still goes through it (`scheduler.cpp:287`).
* `m_state` is read after `m_context` was published (`scheduler.cpp:143`), and `~Task`
  may come in between; with `StorageReused`, as in `Race`, the read gives any state and
  the task may be enqueued after its end.
* A thread may return between its native task being made `Running` and its
  `native_futex` being notified (`scheduler.cpp:280`). `NotifiesAlive` holds in `Live`, where
  `main()` destroys, before it ends, the tasks that release what it joins; it would not
  hold for the threads of `Race`, where one thread releases what another waits for.

`lock_free_queue.hpp:28` promises a queue "without starvation". Normal items are served
only when the buffer is empty, so two threads that put High items again and again
keep them waiting; `PutBefore` in `Served` is the exception for this. `Served` says
that nothing else can starve an item: not the lists that are taken out and put
back, and not the scans that begin again.

## What is proved

The theorems hold for every number of threads, tasks, awaitables, items, slots and
stacks, and those of `AlterstackProofs` and `AlterstackOwnership` for every `Program`. The assumptions are those
that the modules state for their constants (`FutexAssumption`, `RuntimeAssumption`,
`ShutdownAssumption`, `QueueAssumption`, `PriorityAssumption`): sets that are apart, a
program that is a sequence of sets of operations, for `Futex` that the consumers are
finitely many and not none, for the queue that there is a slot and a stack and that
positions wrap at a multiple of the slots.

* `FutexProofs!TypeCorrect`: types, and that `m_wait_counter` is the number of
  threads between its two updates. A lemma each for a thread that enters and
  leaves the window (`CountedIn`, `CountedOut`) turns the counter into a
  cardinality.
* `FutexProofs!NoWakeupLost`: `~LoadPasses /\ Spec => []NoLostWakeup`. The
  property is not inductive: it says nothing until every `notify()` has returned. The
  strengthening `WakeupPending` says who owes the wake-up before that: if all
  consumers are committed to sleep and an item is there, the word is 1 or a
  producer's store of it is to come (`TokenPending`), and a sleeper has a producer that
  will reach FUTEX_WAKE. `SleepersCounted` gives that the producer finds the counter
  above zero.
* `FutexProofs!WakeupIsPending`: that strengthening as a theorem of its own.
* `FutexProofs!TokenIsPending`: its first part holds with `LoadPasses` too. What the
  reordering of `FutexTSO` loses is the wake-up, not the token: the next `notify()` finds the
  sleepers, which is why `ensure_thread_stopped()` comes to its end (`Shutdown`).
* `BgShutdownProofs!ShutdownTypeCorrect`: the actions of `Futex` are expanded for one
  consumer, so both counters are 1 or 0 by the control point of the thread. That
  `m_thread_stopped` is stored at the thread's last use of its `BgThread` is part of it:
  it is why `ensure_thread_stopped()` may take it as the sign that the thread is done
  with the object.
* `BgShutdownProofs!FutexIsToken`: `Spec => ImplementsToken`, with store buffers and without. The
  counter of the type invariant gives that a `notify()` which reads 0 returns to a thread that is
  not asleep, and that one which finds it asleep goes on to FUTEX_WAKE. Two facts more are
  needed: nobody else takes the token between the load and the exchange of `wait()`
  (`OwnToken`), which is true of a futex with one waiter, as all of the library's are; and
  without `LoadPasses` a store in the buffer has its `notify()` still at the load of the counter
  (`StoreFirst`).
* `BgShutdownProofs!NoSleepOnToken`: from that promise alone, without another look at the code, the
  sentence of `futex.hpp:97` when no load passes a store: a thread that sleeps beside
  a token has a `notify()` under way, which wakes it before it returns. The invariant is
  `PromiseInv`: a token is due only from a call that has not returned. That such a call
  goes on is liveness (`NotifyWakesSleepers`).
* `LockFreeQueueProofs!QueueTypeCorrect`: types of the queue need `LocalsSet`, what the
  functions have in their locals at each control point: `item` is not null where its link
  is read or written, a count is below the bound of its loop, and `store_tail()` is
  called with a list or with nothing. One lemma for each of the files.
* `LockFreeQueueProofs!QueueIsPool`: `Spec => ImplementsPool`. What is inductive is
  `Shape`: every list in a slot, in a head or in the hands of a thread is a chain, in which
  no two items lead to the same one and none back to the first; no item is in two lists;
  and an item is in the queue, with the `get_item()` that took it or with the client that
  holds it (`EachItemOnce`), so that a thread that writes a link writes into no list of
  anybody else. It needs to know which locals are in use where (`LocalsUsed`): a list
  that `store_tail()` has half put back is in `stored[th]` and `list[th]`, an old list
  in `old_list[th]`. A lemma of `IntrusiveListProofs` for each of the three things that
  the code does to a list says what becomes of its items. None of them needs an induction:
  the items are the *least* closed set, so a set that is shown to be closed has them all
  (`ItemsLeast`). Then one lemma per action says which step of `ItemPool` it is;
  `StepKeepsShape` and `OthersKeep` say once what the other threads own.
* `LockFreeQueueProofs!QueueKeepsItems`: so `EachItemOnce`, what
  `ItemPoolProofs!PoolKeepsItems` says of the pool, holds of the queue, for every instance.
* `LockFreeQueueProofs!ReturnedIsSingle`: what `get_item()` returns, and what a client
  holds, is linked to nothing. It is part of `Shape`: a put into a slot would bring a tail
  along otherwise.
* `LockFreeQueueProofs!AloneFinds`: `FindsIfAlone`. While a thread is alone in the
  queue, the slots from the get position to the one it looks at are empty, and at
  the stacks all slots are, and all stacks before (`Alone`). That a scan of `BUFFER_SIZE`
  slots from any position comes to every slot is arithmetic of remainders (`EverySlotSeen`
  from `DivMod`), and needs that positions wrap at a multiple of
  `BUFFER_SIZE`.
* `ItemPoolProofs!PoolKeepsItems` and `CoroutinesProofs!PromiseIsSafe`: the two
  abstract specifications say what they are for. They carry over to the
  code's model by `QueueIsPool` and `KeepsThePromise`, as `QueueKeepsItems` and
  `ClientsAreSafe`.
* `AlterstackProofs!TypeCorrect`: types are not inductive here. `put_item(wakee[c])`
  and the jump to `next_task[c]` keep them only because the pointers are set where
  they are used (`LocalsSet`), and `post_jump_fcontext` has a previous task only on a
  stack that a thread has just entered, not on one that waits (`StacksApart`, which
  also says that two threads are never on one stack).
* `AlterstackProofs!OnlyCommonTasksSleep`: "Only bound Common current_task will get
  here" (`scheduler.cpp:69`). It needs that a background thread's native task is
  always `Running` and only schedules (`NativeBg`), and that an unbound task comes to
  the test of line 65 only when it is `Running`, which nobody but the task itself
  can undo (`TaskChecks`).
* `AlterstackProofs!NobodyLeftBehind`: the list of a released awaitable stays empty.
  `OnlyWaitAndRelease` finds the two actions that touch the double word.
* `AlterstackProofs!SpinIsSaved`: `SpinHasSaver`, which looks at one moment of a walk and is
  far from inductive. `ContextHeld` says it of every task at any time: one whose
  `m_context` is null is executed, or the thread that left its stack has not come to the
  store of `scheduler.cpp:140`. `switch_to()` keeps it because the stack it enters waits in
  `jump_fcontext` (`LeftAtJump`), so that the thread goes to `post_jump_fcontext` with the task
  it left in `prev_task`. The one exception is a task that is not constructed, whose
  `m_context` is null and which nobody will save; `BornOnly` says that no pointer leads to one,
  no list, no local and no `aw[c]`, or a destructor could make a task out of it. The
  theorem is for every program: the orders in which a task is resumed twice, or is on
  two lists, included.

* `AlterstackOwnership` is about `OrderlySpec`, that is `Spec /\ [][Orderly]_vars`: the
  behaviours in which none of four races comes about. No `release()` takes a `Task` that has
  not left its stack or overtakes one in `wait()`, no native task that is `Waiting` is resumed
  for want of another, and `post_jump_fcontext` enqueues nothing for what it reads in a
  destroyed object. These are the four ways in which the runs of the findings break the
  properties, so without `Orderly` there is nothing to prove. `AlwaysOrderly` is checked in
  `Settled`: a client that releases its tasks when they have settled (`task_wait.cpp`)
  has only such behaviours, whatever the order of its steps. In them, for every
  program:
  * `TaskHasOneOwner`: `OneOwner`. A Task is run by one thread, or is in the queue, or in the
    hands of one function, or in the list of one `release()`;
  * `NoTaskIsLost`: `NoLostTask`, and `WaiterCanBeWoken`: `WaiterHasWaker`;
  * `QueueHoldsSaved`: `QueuedIsSaved`, and `DestroyedStackIsLeft`: `DestroyedIsLeft`;
  * `FinishedIsNeverResumed` and `WaitEndsWithRelease`: `NeverResumed` and
    `WaitReturnsReleased`, which the findings `RaceResumed` and `BoundWait` refute in
    behaviours that are not orderly;
  * `KeepsThePromise`: `OrderlySpec /\ []DestroyedUntouched => ImplementsCoroutines`, the
    refinement of `Coroutines`, and `ClientsAreSafe`, what it comes to for the memory of the
    clients;
  * `NoUseAfterDestructor`: `CarefulSpec => []DestroyedUntouched`, `NotifiedThreadIsAlive`:
    `CarefulSpec => []NotifiesAlive`, and so `CarefulClientsAreSafe`, the refinement without
    the hypothesis of `KeepsThePromise`.

  `CarefulSpec` is `OrderlySpec /\ [][Careful]_vars`. `Careful` is the client's part, because no
  code keeps a program from a `wait()` on an awaitable that it has destroyed: `wait()` and
  `release()` are called on what lives (or a `release()`, once, on what a destructor waits for), a
  destructor is called when no call is at work on the object (but the `release()` that
  `~Awaitable` is to wait for, or that of the task by its own `_run_wrapper`), and a thread
  ends when no `release()` is under way but those of tasks that are destroyed, or not
  constructed. It speaks of the moments of these calls only; what happens between a call and
  its last access, and when a destructor returns, is the code's. `AlwaysCareful` is checked in
  `Settled`, where tasks wait and a destructor waits for a `release()`, and in `Live`, where
  `main()` sleeps on its `native_futex` as well and not every behaviour is orderly.

  They share one inductive invariant, `Owned`, because none of its parts is inductive
  without the others. A task has one owner (`OneHand`) because what `get_item()` finds,
  what `next_task` or `wakee` names and what a releaser enqueues was in one place
  before; `InHands` says in which local a function has a task at which control point,
  and `Tidy` that it is nowhere else. Whoever has a task can jump to it because it is
  `Running` and its context is saved (`ReadyRuns`), which needs that a task on a stack, and
  one that was just left, has none (`Contexts`). A releaser finds a task in a list only
  where it waits (`Waiters`), the lists are chains apart (`WaitLists`: here the lemmas of
  `IntrusiveListProofs` serve again, for the wait lists and for the lists that `release()` has
  taken), and a task that waits is in one, or has been made `Running` and is in the hands
  of a releaser (`Kept`). `States` says where a stack can be in each `m_state`; it is what makes
  the last line of `_run_wrapper` unreachable. `JumpsToRunning` is the switch to the
  native task of a thread. A lemma says of each part that a step keeps it: `Plain` sums up
  the steps that move only their own stack, `Moves` what a step does with a task that it
  has, `AfterSwitch` what `jump_fcontext` does. In the invariant nobody is set aside by a
  releaser: `null_context_tasks` is empty and the loop of `scheduler.cpp:300` is not entered.

  For the refinement `Calls` adds what the functions that a stack is in have come to: a stack
  in `wait()` is `Waiting` or its awaitable is released, and a task that is `Finished` has
  released those that joined it. `OneOfThePromise` and `WaitsMove` say which action can change
  which of the five variables of `Coroutines`, and a lemma each that this action is the step
  of that name: `switch_to` is a `Switch` because what a thread jumps to can run
  (`ReadyRuns`, `JumpsToRunning`), the compare-and-swap of `wait()` a `Wait`, the end of
  `schedule()` in it a `Return`, and the return of a destructor a `Destroy`, because whoever
  waits for an awaitable that is not released is in its list (`Kept`, `Waiters`), which
  the hypothesis says is empty then. Nothing else is seen by the clients.

  For careful clients `InUse` is inductive. `DestroyedUntouched` is not: it says nothing of
  an object before its destructor has returned. `InUse` says who may be at work on the word of
  an object whose destructor has been called: that destructor (there is one, `Destructors`), the
  one `release()` that it waits for, and for a task its own `release()`, which comes before
  `Finished` and so before `~Task` returns (`TaskDestructorBegins`, `task.cpp:123`).
  `~Awaitable` goes past its `wait()` only when the word is released and, by
  `NoWaiterLeftBehind`, its list is empty (`AwaitableDestructorBegins`, `DestructorEnds`). `Calm`
  sums up the steps that neither begin nor end a destructor nor change a word. `NotifiesAlive`
  is inductive with `Owned`: the task whose `release()` names a thread has run, so it is
  constructed, and one that is destroyed is on no thread (`Contexts`) and so in no
  `release()`; a thread that ends leaves nobody behind who would notify it.

The invariant of each module is shown to hold initially and to be kept by every step: one
lemma per group of actions, one step per action.

Model-checked only:

* Liveness (`EventuallyDrained`, `StopReturns`, `NotifyWakesSleepers`, `Completed`,
  `Served`): TLAPS has no fairness here.
* `AlwaysOrderly` and `AlwaysCareful`, which say of a program that its behaviours are those of
  `CarefulSpec`: they hold for the program of `Settled`, the second for that of `Live` too, and
  neither for every one. That `NoLostTask` and `WaiterHasWaker` survive the races that `Orderly` excludes is what
  `Race` checks of its program, and that `NotifiesAlive` does what `Live` checks.

Every invariant of a passing run is also stated by a theorem, with these hypotheses where they
are needed.

## What is not modelled

* The queue during the shutdown is a number of tasks: what `BgShutdown` asks does not
  depend on which. Tasks that are left in the queue when `~BgRunner` begins are run by
  the thread or stay.
* Priorities of tasks in `Runtime`: they choose a place in the queue, whose order that
  model leaves open. `set_priority()` assigns the field that the next `put_item()` reads;
  `LockFreeQueue` chooses a priority at each put.
* `BgRunner::notify_all()`, `AtomicGuard` and the result of `push()` have no user.
* An exception that leaves `m_runnable`: the process exits.
* `m_runner_type` of a common thread is not assigned; it is thread-local storage, so
  it is zero, which is `CommonThread`.
* Memory order, apart from the store and load of `Futex::notify`: the interleavings
  are those of sequential consistency.
* `Stack`, `os_utils`, `passkey`, `context`, `spin_lock`: no behaviour of their own.

## Plan

1. Done: `Futex`, then `Runtime` to `Alterstack`, with their proofs. They come first
   because every task passes through them, and most hazards are there.
2. Done: `LockFreeStack`, `BoundBuffer` and `LockFreeQueue`, with `ItemPool` as their
   abstract specification.
3. Done: `BgShutdown`, over the actions of `Futex`, with the proof of its types.
4. Done: `~Awaitable`, `~BoundTask`.
5. Done: `Coroutines`, which `Alterstack` implements for programs that settle.
6. A property for the relinking of `scheduler.cpp:287`: the shape of wait lists and of the
   releaser's list for programs whose tasks wait once. Orderly behaviours do not
   come to it (`Tidy`, `WaitLists`).
7. Done: proofs that `LockFreeQueue` implements `ItemPool` for any number of threads, slots
   and items, and of `SpinHasSaver` for every program.
8. Done: ownership and the wait lists in orderly behaviours (`AlterstackOwnership`).
9. Done: orderly behaviours implement `Coroutines` when the client uses no object that it
   has destroyed (`KeepsThePromise`).
10. Done: what clients owe for `DestroyedUntouched` and `NotifiesAlive` (`Careful`), and the
   proof that it is enough.
11. Done: the token that `Runtime` has for a futex, implemented by `futex.hpp` (`WakeToken`), and
   what that comes to when no token is late (`NoSleepOnToken`).
12. Proofs: hypotheses on a `Program`, in place of its behaviours, from which `Orderly` follows.
