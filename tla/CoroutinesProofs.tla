--------------------------- MODULE CoroutinesProofs ---------------------------
(***************************************************************************)
(* What follows from Coroutines for any number of threads and objects.     *)
(***************************************************************************)
EXTENDS Coroutines, TLAPS

\* Every step keeps the types.
LEMMA TypeOKStep == TypeOK /\ [Next]_vars => TypeOK'
BY DEF TypeOK, Next, vars, Switch, Wait, Return, Release, Finish, Destroy

\* Every step keeps the objects in use alive.  Switch and Destroy meet in their
\* guards: neither finds an executed task.
LEMMA OutliveStep ==
    ASSUME Null \notin Awaitable \cup Task, TypeOK, ObjectsOutliveUse, [Next]_vars
    PROVE  ObjectsOutliveUse'
<1> USE DEF TypeOK, ObjectsOutliveUse, Executing
<1>1. ASSUME NEW th \in Thread, NEW t \in Task \cup {th}, Switch(th, t)
      PROVE  ObjectsOutliveUse'
    <2>1. \A u \in Thread : runs'[u] = IF u = th THEN t ELSE runs[u]
        BY <1>1 DEF Switch
    <2> QED BY <1>1, <2>1 DEF Switch
<1>2. ASSUME NEW t \in Thread \cup Task, NEW a \in Awaitable \cup Task, Wait(t, a)
      PROVE  ObjectsOutliveUse'
    BY <1>2 DEF Wait
<1>3. ASSUME NEW t \in Thread \cup Task, Return(t) PROVE ObjectsOutliveUse'
    BY <1>3 DEF Return
<1>4. ASSUME NEW a \in Awaitable \cup Task, Release(a) PROVE ObjectsOutliveUse'
    BY <1>4 DEF Release
<1>5. ASSUME NEW t \in Task, Finish(t) PROVE ObjectsOutliveUse'
    BY <1>5 DEF Finish
<1>6. ASSUME NEW a \in Awaitable \cup Task, Destroy(a) PROVE ObjectsOutliveUse'
    BY <1>6 DEF Destroy
<1>7. CASE UNCHANGED vars
    BY <1>7 DEF vars
<1> QED
    BY <1>1, <1>2, <1>3, <1>4, <1>5, <1>6, <1>7 DEF Next

\* A client of Coroutines, and so one of alterstack in the orders for which it
\* implements Coroutines, never runs a stack twice, nor on memory that was freed by
\* ~Task (task.cpp:57), nor waits on an Awaitable that is gone (awaitable.cpp:30).
THEOREM PromiseIsSafe ==
    ASSUME Null \notin Awaitable \cup Task
    PROVE  Spec => []ObjectsOutliveUse
<1>1. Init => TypeOK /\ ObjectsOutliveUse
    BY DEF Init, TypeOK, ObjectsOutliveUse
<1>2. TypeOK /\ ObjectsOutliveUse /\ [Next]_vars => (TypeOK /\ ObjectsOutliveUse)'
    BY TypeOKStep, OutliveStep
<1> QED
    BY <1>1, <1>2, PTL DEF Spec
===============================================================================
