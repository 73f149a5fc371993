------------------------------ MODULE Awaitable ------------------------------
(***************************************************************************)
(* Awaitable (awaitable.cpp): wait() and release() on the double word      *)
(* {head, is_finished} that a compare-and-swap updates.                    *)
(***************************************************************************)
EXTENDS Scheduler

\* Where a stack goes on after schedule() in wait(): ~Awaitable calls wait() too.
AfterWait(caller) == IF caller = "destroy" THEN "destroy" ELSE "waited"

\* The first look at is_finished.
NoWait(th, c) ==
    /\ Goto(th, c, "wait", back[c])
    /\ is_finished[aw[c]]
    /\ UNCHANGED <<shared, locals>>

\* Mutant: the task does not make itself Waiting.
EnterWaitRunning(th, c) ==
    /\ Goto(th, c, "wait", "insert")
    /\ ~is_finished[aw[c]]
    /\ m_context' = [m_context EXCEPT ![c] = "null"]
    /\ UNCHANGED <<m_state, m_next, awVars, queueVars, threadVars, life, locals>>

\* The task announces itself Waiting.
EnterWait(th, c) ==
    /\ Goto(th, c, "wait", "insert")
    /\ ~is_finished[aw[c]]
    /\ m_state' = [m_state EXCEPT ![c] = "Waiting"]
    /\ m_context' = [m_context EXCEPT ![c] = "null"]
    /\ UNCHANGED <<m_next, awVars, queueVars, threadVars, life, locals>>

\* The compare-and-swap fails for good when release() came first.
UndoWait(th, c) ==
    /\ Goto(th, c, "insert", back[c])
    /\ is_finished[aw[c]]
    /\ m_state' = [m_state EXCEPT ![c] = "Running"]
    /\ m_context' = [m_context EXCEPT ![c] = "fake"]
    /\ UNCHANGED <<m_next, awVars, queueVars, threadVars, life, locals>>

\* Mutant: the compare-and-swap looks at the list only.
InsertLate(th, c) ==
    LET a == aw[c] IN
    /\ Goto(th, c, "insert", GetNext(th, c))
    /\ m_next' = [m_next EXCEPT ![c] = head[a]]
    /\ head' = [head EXCEPT ![a] = c]
    /\ back' = [back EXCEPT ![c] = AfterWait(@)]
    /\ UNCHANGED <<m_state, m_context, is_finished, queueVars, threadVars, life,
                   ip, aw, jumpVars, walkVars>>

\* The compare-and-swap that puts the task on the list; wait() calls schedule().
InsertInWaitlist(th, c) ==
    LET a == aw[c] IN
    /\ Goto(th, c, "insert", GetNext(th, c))
    /\ ~is_finished[a]
    /\ m_next' = [m_next EXCEPT ![c] = head[a]]
    /\ head' = [head EXCEPT ![a] = c]
    /\ back' = [back EXCEPT ![c] = AfterWait(@)]
    /\ UNCHANGED <<m_state, m_context, is_finished, queueVars, threadVars, life,
                   ip, aw, jumpVars, walkVars>>

\* schedule() is back: wait() returns without another look at is_finished.
WaitReturns(th, c) ==
    /\ Goto(th, c, "waited", "user")
    /\ UNCHANGED <<shared, locals>>

\* release(): take the whole list, once, and walk it.
Release(th, c) ==
    LET a == aw[c] IN
    /\ Goto(th, c, "release", "walk")
    /\ ~is_finished[a]
    /\ task_list' = [task_list EXCEPT ![c] = head[a]]
    /\ head' = [head EXCEPT ![a] = Null]
    /\ is_finished' = [is_finished EXCEPT ![a] = TRUE]
    /\ UNCHANGED <<taskVars, queueVars, threadVars, life,
                   callVars, jumpVars, null_context_tasks, wakee>>

ReleaseAgain(th, c) ==
    /\ Goto(th, c, "release", back[c])
    /\ is_finished[aw[c]]
    /\ UNCHANGED <<shared, locals>>

AwaitableStep(th, c) ==
    \/ NoWait(th, c) \/ EnterWait(th, c) \/ UndoWait(th, c)
    \/ InsertInWaitlist(th, c) \/ WaitReturns(th, c)
    \/ Release(th, c) \/ ReleaseAgain(th, c)
=============================================================================
