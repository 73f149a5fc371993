------------------------------ MODULE Coroutines ------------------------------
(***************************************************************************)
(* What alterstack promises its clients (task.hpp, awaitable.hpp): stacks  *)
(* that threads execute one at a time, waits that last until a release,    *)
(* and objects that live as long as they are in use.  How a thread finds   *)
(* the next stack is not part of it.                                       *)
(***************************************************************************)
CONSTANTS
    Thread,         \* a thread is its native stack too
    Task,           \* unbound tasks, each an awaitable too
    Awaitable,
    Null

VARIABLES
    runs,           \* per thread: the stack it executes
    waits,          \* per stack: what it waits for, or Null
    released,       \* awaitables that were released
    finished,       \* tasks that have come to their end
    destroyed       \* tasks and awaitables that are gone

vars == <<runs, waits, released, finished, destroyed>>

Executing(t) == \E th \in Thread : runs[th] = t

Init ==
    /\ runs = [th \in Thread |-> th]
    /\ waits = [t \in Thread \cup Task |-> Null]
    /\ released = {} /\ finished = {} /\ destroyed = {}

\* A thread goes on with another stack: its own, or a task that has not ended.
Switch(th, t) ==
    /\ ~Executing(t) /\ t \notin finished \cup destroyed
    /\ runs' = [runs EXCEPT ![th] = t]
    /\ UNCHANGED <<waits, released, finished, destroyed>>

Wait(t, a) ==
    /\ Executing(t) /\ waits[t] = Null /\ a \notin destroyed
    /\ waits' = [waits EXCEPT ![t] = a]
    /\ UNCHANGED <<runs, released, finished, destroyed>>

Return(t) ==
    /\ Executing(t) /\ waits[t] \in released
    /\ waits' = [waits EXCEPT ![t] = Null]
    /\ UNCHANGED <<runs, released, finished, destroyed>>

Release(a) ==
    /\ a \notin released \cup destroyed
    /\ released' = released \cup {a}
    /\ UNCHANGED <<runs, waits, finished, destroyed>>

\* A task that has ended has released those that joined it.
Finish(t) ==
    /\ Executing(t) /\ waits[t] = Null /\ t \in released
    /\ finished' = finished \cup {t}
    /\ UNCHANGED <<runs, waits, released, destroyed>>

\* A task is destroyed after its end, an awaitable when nobody waits for a release.
Destroy(a) ==
    /\ a \notin destroyed
    /\ a \in Task => a \in finished /\ ~Executing(a)
    /\ a \in released \/ \A t \in DOMAIN waits : waits[t] # a
    /\ destroyed' = destroyed \cup {a}
    /\ UNCHANGED <<runs, waits, released, finished>>

Next ==
    \/ \E th \in Thread : \E t \in Task \cup {th} : Switch(th, t)
    \/ \E t \in Thread \cup Task : Return(t) \/ \E a \in Awaitable \cup Task : Wait(t, a)
    \/ \E a \in Awaitable \cup Task : Release(a) \/ Destroy(a)
    \/ \E t \in Task : Finish(t)

Spec == Init /\ [][Next]_vars

-----------------------------------------------------------------------------
TypeOK ==
    /\ runs \in [Thread -> Thread \cup Task]
    /\ waits \in [Thread \cup Task -> Awaitable \cup Task \cup {Null}]
    /\ released \in SUBSET (Awaitable \cup Task)
    /\ finished \in SUBSET Task
    /\ destroyed \in SUBSET (Awaitable \cup Task)

\* What the promise comes to for the memory of a client: a stack is on one thread, a
\* destroyed task has ended, released its waiters and left its stack for ever, and
\* nobody waits for a destroyed object that was never released.
ObjectsOutliveUse ==
    /\ \A t1, t2 \in Thread : runs[t1] = runs[t2] => t1 = t2
    /\ finished \subseteq released
    /\ \A t \in destroyed \cap Task : t \in finished /\ ~Executing(t)
    /\ \A t \in Thread \cup Task : waits[t] \in destroyed => waits[t] \in released
===============================================================================
