--------------------------- MODULE BgShutdownProofs ---------------------------
(***************************************************************************)
(* The type invariant of BgShutdown, and that the futex of its thread      *)
(* keeps the promise of WakeToken, for any number of clients and of tasks: *)
(* with and without store buffers.                                         *)
(***************************************************************************)
EXTENDS BgShutdown, TLAPS

USE ShutdownAssumption
    DEF Goto, futexVars, queueVars, bgVars, stopVars,
        TypeOK, InWait, InFutexWait, BgPC, ClientPC, m_task_avalable_futex!Goto

\* A step of the BgThread keeps the type invariant.
LEMMA BgKeepsTypes ==
    ASSUME TypeOK, BgStep \/ FutexInterrupted
    PROVE  TypeOK'
<1>1. CASE RunTask
    BY <1>1 DEF RunTask
<1>2. CASE ScheduleReturns
    BY <1>2 DEF ScheduleReturns
<1>3. CASE CheckStop
    BY <1>3 DEF CheckStop
<1>4. CASE CountSleep
    BY <1>4 DEF CountSleep
<1>5. CASE FutexWaits
    <2>1. CASE m_task_avalable_futex!LoadWork(BgThread)
        BY <1>5, <2>1 DEF FutexWaits, m_task_avalable_futex!LoadWork
    <2>2. CASE m_task_avalable_futex!ExchangeWork(BgThread)
        BY <1>5, <2>2 DEF FutexWaits, m_task_avalable_futex!ExchangeWork
    <2>3. CASE m_task_avalable_futex!CountWaiter(BgThread)
        BY <1>5, <2>3 DEF FutexWaits, m_task_avalable_futex!CountWaiter
    <2>4. CASE m_task_avalable_futex!FutexWait(BgThread)
        BY <1>5, <2>4 DEF FutexWaits, m_task_avalable_futex!FutexWait
    <2>5. CASE m_task_avalable_futex!LeaveWait(BgThread)
        BY <1>5, <2>5 DEF FutexWaits, m_task_avalable_futex!LeaveWait
    <2> QED BY <1>5, <2>1, <2>2, <2>3, <2>4, <2>5 DEF FutexWaits
<1>6. CASE FutexInterrupted
    BY <1>6 DEF FutexInterrupted, m_task_avalable_futex!Interrupt
<1>7. CASE CountAwake
    BY <1>7 DEF CountAwake
<1>8. CASE ReturnGuard
    BY <1>8 DEF ReturnGuard
<1>9. CASE OsThreadEnds
    BY <1>9 DEF OsThreadEnds
<1> QED
    BY <1>1, <1>2, <1>3, <1>4, <1>5, <1>6, <1>7, <1>8, <1>9 DEF BgStep

\* A step of a client keeps it: FUTEX_WAKE moves the BgThread only from its sleep.
LEMMA ClientKeepsTypes ==
    ASSUME TypeOK, NEW p \in Client, ClientStep(p) \/ Notifies(p) \/ Drain(p)
    PROVE  TypeOK'
<1>1. CASE EnqueueTask(p)
    BY <1>1 DEF EnqueueTask
<1>2. CASE HelpOut(p)
    BY <1>2 DEF HelpOut
<1>3. CASE ClientEnds(p)
    BY <1>3 DEF ClientEnds
<1>4. CASE ReadSleepCount(p)
    BY <1>4 DEF ReadSleepCount
<1>5. CASE NotifyAll(p)
    <2>1. CASE m_task_avalable_futex!TestWork(p)
        BY <1>5, <2>1 DEF NotifyAll, m_task_avalable_futex!TestWork
    <2>2. CASE m_task_avalable_futex!StoreWork(p)
        BY <1>5, <2>2 DEF NotifyAll, m_task_avalable_futex!StoreWork
    <2>3. CASE m_task_avalable_futex!ReadCounter(p) /\ pc'[p] # "wakeOne"
        BY <1>5, <2>3 DEF NotifyAll, m_task_avalable_futex!ReadCounter
    <2>4. CASE m_task_avalable_futex!FutexWake(p)
        <3>1. PICK woken \in SUBSET m_task_avalable_futex!Asleep :
                pc' = [t \in Client \cup {BgThread} |->
                         IF t = p THEN "idle" ELSE IF t \in woken THEN "woken" ELSE pc[t]]
            BY <2>4 DEF m_task_avalable_futex!FutexWake, m_task_avalable_futex!Thread
        <3>2. \A t \in woken : t = BgThread /\ pc[t] = "asleep"
            BY <3>1 DEF m_task_avalable_futex!Asleep
        <3>3. \A q \in Client : pc'[q] = IF q = p THEN "idle" ELSE pc[q]
            <4>1. \A q \in Client : q \notin woken
                BY <3>2
            <4> QED
                BY <3>1, <4>1
        <3>4. pc'[BgThread] = IF BgThread \in woken THEN "woken" ELSE pc[BgThread]
            BY <3>1
        <3>5. BgThread \in woken => pc[BgThread] = "asleep"
            BY <3>2
        <3>6. UNCHANGED <<futexVars, queueVars, bgVars, stopVars, stage>>
            BY <1>5, <2>4 DEF NotifyAll, m_task_avalable_futex!FutexWake
        <3> QED
            BY <3>1, <3>3, <3>4, <3>5, <3>6
    <2> QED BY <1>5, <2>1, <2>2, <2>3, <2>4 DEF NotifyAll
<1>6. CASE Drain(p)
    <2>1. CASE DrainWord(p)
        BY <2>1 DEF DrainWord, m_task_avalable_futex!Drain
    <2>2. CASE DrainStop
        BY <2>2 DEF DrainStop
    <2> QED BY <1>6, <2>1, <2>2 DEF Drain
<1> QED
    BY <1>1, <1>2, <1>3, <1>4, <1>5, <1>6 DEF ClientStep, Notifies

\* A step of the destructors keeps it.
LEMMA StopKeepsTypes ==
    ASSUME TypeOK, RequestStop \/ StopStep
    PROVE  TypeOK'
<1>1. CASE RequestStop
    BY <1>1 DEF RequestStop
<1>2. CASE WakeUpAgain
    BY <1>2 DEF WakeUpAgain
<1>3. CASE ThreadStopped
    BY <1>3 DEF ThreadStopped
<1>4. CASE Join
    BY <1>4 DEF Join
<1> QED
    BY <1>1, <1>2, <1>3, <1>4 DEF StopStep

\* m_wait_counter and m_sleep_count follow the BgThread exactly, and m_thread_stopped
\* says that it has left thread_function() (bg_thread.cpp:35), for every number of
\* clients: so a sleeping thread is never missed by notify() or wake_up().
THEOREM ShutdownTypeCorrect == Spec => []TypeOK
<1>1. Init => TypeOK
    <2> SUFFICES ASSUME Init PROVE TypeOK
        OBVIOUS
    <2>1. pc = [t \in Client \cup {BgThread} |-> IF t = BgThread THEN "schedule" ELSE "idle"]
        BY DEF Init
    <2>2. pc[BgThread] = "schedule" /\ \A p \in Client : pc[p] = "idle"
        BY <2>1
    <2>3. ~InWait /\ ~InFutexWait /\ pc[BgThread] \notin {"ends", "ended"}
        BY <2>2
    <2>4. pc \in [Client \cup {BgThread} -> BgPC \cup ClientPC]
        BY <2>1
    <2> QED
        BY <2>2, <2>3, <2>4 DEF Init
<1>2. TypeOK /\ [Next]_vars => TypeOK'
    <2>1. TypeOK /\ UNCHANGED vars => TypeOK'
        BY DEF vars
    <2> QED
        BY <2>1, BgKeepsTypes, ClientKeepsTypes, StopKeepsTypes DEF Next, Exit
<1> QED
    BY <1>1, <1>2, PTL DEF Spec

-----------------------------------------------------------------------------
(* The futex of the BgThread is a token                                    *)

\* Nobody else takes the token between the look at it and the exchange.
OwnToken == pc[BgThread] = "exchange" => m_work_avalable = 1

\* A store waits in the buffer behind notify() only if loads pass it.
StoreFirst == ~LoadPasses => \A p \in buffered : pc[p] = "readCounter"

TokenInv == OwnToken /\ StoreFirst

\* One step of WakeToken, or none that it sees.
TokenStep == Token!Next \/ UNCHANGED <<m_work_avalable = 1, Waiter, Calling, Due>>

\* Where the token sees that a BgThread is, and a client.
Place(at) ==
    IF at \in {"load", "exchange", "count", "syscall"} THEN "in"
    ELSE IF at \in {"asleep", "woken"} THEN at ELSE "out"
Calls(at) == at \in {"test", "store", "readCounter", "wakeAll"}
Owes(at) == at \in {"test", "store"}

\* The steps that leave alone what the token is mapped from.
LEMMA TokenUnmoved ==
    ASSUME TypeOK, TokenInv, UNCHANGED <<m_work_avalable, buffered>>,
           Place(pc'[BgThread]) = Place(pc[BgThread]),
           pc'[BgThread] = "exchange" => pc[BgThread] = "exchange",
           \A p \in Client : /\ Calls(pc'[p]) <=> Calls(pc[p])
                             /\ Owes(pc'[p]) <=> Owes(pc[p])
                             /\ p \in buffered /\ pc[p] = "readCounter" => pc'[p] = pc[p]
    PROVE  TokenInv' /\ UNCHANGED <<m_work_avalable = 1, Waiter, Calling, Due>>
<1>1. Waiter' = Waiter
    BY DEF Waiter, Place
<1>2. Calling' = Calling /\ Due' = Due
    BY DEF Calling, Due, Calls, Owes
<1>3. TokenInv'
    BY DEF TokenInv, OwnToken, StoreFirst
<1> QED BY <1>1, <1>2, <1>3

\* A client that moves leaves the BgThread and the other clients where they are.
LEMMA OthersStay ==
    ASSUME TypeOK, NEW p \in Client, NEW label, pc' = [pc EXCEPT ![p] = label]
    PROVE  /\ pc'[BgThread] = pc[BgThread] /\ pc'[p] = label
           /\ \A q \in Client \ {p} : pc'[q] = pc[q]
OBVIOUS

\* Futex::wait: the exchange takes the token, and FUTEX_WAIT is what decides whether the
\* thread sleeps.
LEMMA WaitsForToken ==
    ASSUME TypeOK, TokenInv, FutexWaits \/ FutexInterrupted
    PROVE  TokenInv' /\ TokenStep
<1>1. UNCHANGED buffered /\ \A p \in Client : pc'[p] = pc[p]
    BY DEF FutexWaits, FutexInterrupted, m_task_avalable_futex!LoadWork,
       m_task_avalable_futex!ExchangeWork, m_task_avalable_futex!CountWaiter,
       m_task_avalable_futex!FutexWait, m_task_avalable_futex!LeaveWait,
       m_task_avalable_futex!Interrupt
<1>2. UNCHANGED <<Calling, Due>> /\ StoreFirst'
    BY <1>1 DEF Calling, Due, TokenInv, StoreFirst
<1> USE <1>2 DEF TokenInv, OwnToken, TokenStep, Token!Next, Token!Move, Waiter
<1>3. CASE m_task_avalable_futex!LoadWork(BgThread)
    BY <1>3 DEF m_task_avalable_futex!LoadWork
<1>4. CASE m_task_avalable_futex!ExchangeWork(BgThread)
    BY <1>4 DEF m_task_avalable_futex!ExchangeWork, Token!Take
<1>5. CASE m_task_avalable_futex!CountWaiter(BgThread)
    BY <1>5 DEF m_task_avalable_futex!CountWaiter
<1>6. CASE m_task_avalable_futex!FutexWait(BgThread)
    <2>1. CASE m_work_avalable = 0
        BY <1>6, <2>1 DEF m_task_avalable_futex!FutexWait, Token!Sleep
    <2>2. CASE m_work_avalable = 1
        BY <1>6, <2>2 DEF m_task_avalable_futex!FutexWait, Token!FindLate
    <2> QED BY <2>1, <2>2
<1>7. CASE m_task_avalable_futex!LeaveWait(BgThread)
    BY <1>7 DEF m_task_avalable_futex!LeaveWait, Token!Return
<1>8. CASE m_task_avalable_futex!Interrupt(BgThread)
    BY <1>8 DEF m_task_avalable_futex!Interrupt, Token!WakeEarly
<1> QED
    BY <1>3, <1>4, <1>5, <1>6, <1>7, <1>8 DEF FutexWaits, FutexInterrupted

\* A store that becomes visible leaves the token.
LEMMA DrainLeavesToken ==
    ASSUME TypeOK, TokenInv, NEW p \in Client, DrainWord(p)
    PROVE  TokenInv' /\ TokenStep
<1>1. p \in buffered /\ buffered' = buffered \ {p} /\ m_work_avalable' = 1 /\ pc' = pc
    BY DEF DrainWord, m_task_avalable_futex!Drain
<1>2. TokenInv'
    BY <1>1 DEF TokenInv, OwnToken, StoreFirst
<1>3. UNCHANGED <<Waiter, Calling>>
    BY <1>1 DEF Waiter, Calling
<1>4. (m_work_avalable = 1)' = TRUE
    BY <1>1
<1>5. p \in Due
    BY <1>1 DEF Due
<1>6. Due' = Due \ {p} \/ (LoadPasses /\ UNCHANGED Due)
    <2>1. CASE Owes(pc[p])
        <3>1. LoadPasses
            BY <1>1, <2>1 DEF TokenInv, StoreFirst, Owes
        <3>2. UNCHANGED Due
            BY <1>1, <2>1 DEF Due, Owes
        <3> QED BY <3>1, <3>2
    <2>2. CASE ~Owes(pc[p])
        <3>1. Due' = Due \ {p}
            BY <1>1, <2>2 DEF Due, Owes
        <3> QED BY <3>1
    <2> QED BY <2>1, <2>2
<1>7. Token!LeaveToken(p)
    BY <1>3, <1>4, <1>5, <1>6 DEF Token!LeaveToken
<1> QED
    BY <1>2, <1>7 DEF TokenStep, Token!Next

\* So does the look that finds the word 1 already.
LEMMA TestLeavesToken ==
    ASSUME TypeOK, TokenInv, NEW p \in Client, m_task_avalable_futex!TestWork(p)
    PROVE  TokenInv' /\ TokenStep
<1>1. /\ UNCHANGED <<m_work_avalable, buffered>> /\ pc[p] = "test"
      /\ pc' = [pc EXCEPT ![p] =
                   IF m_work_avalable = 0 /\ p \notin buffered THEN "store" ELSE "readCounter"]
    BY DEF m_task_avalable_futex!TestWork
<1>2. /\ pc'[BgThread] = pc[BgThread] /\ \A q \in Client \ {p} : pc'[q] = pc[q]
      /\ pc'[p] = IF m_work_avalable = 0 /\ p \notin buffered THEN "store" ELSE "readCounter"
    BY <1>1, OthersStay
<1>3. UNCHANGED <<Waiter, Calling>>
    <2>1. Waiter' = Waiter
        BY <1>2 DEF Waiter
    <2>2. Calling' = Calling
        BY <1>1, <1>2 DEF Calling
    <2> QED BY <2>1, <2>2
<1>4. TokenInv'
    BY <1>1, <1>2 DEF TokenInv, OwnToken, StoreFirst
<1>5. CASE m_work_avalable = 0 \/ p \in buffered
    <2>1. Due' = Due
        BY <1>1, <1>2, <1>5 DEF Due
    <2> QED BY <1>1, <1>3, <1>4, <2>1 DEF TokenStep
<1>6. CASE m_work_avalable # 0 /\ p \notin buffered
    <2>1. p \in Due /\ Due' = Due \ {p}
        BY <1>1, <1>2, <1>6 DEF Due
    <2>2. (m_work_avalable = 1)' = TRUE
        BY <1>1, <1>6
    <2>3. Token!LeaveToken(p)
        BY <1>3, <2>1, <2>2 DEF Token!LeaveToken
    <2> QED BY <1>4, <2>3 DEF TokenStep, Token!Next
<1> QED BY <1>5, <1>6

\* A notify() that returns owes nothing, or its store is in the buffer.
LEMMA EndsNotify ==
    ASSUME TypeOK, TokenInv, NEW p \in Client, pc[p] \in {"readCounter", "wakeAll"},
           LoadPasses \/ p \notin buffered, UNCHANGED <<m_work_avalable, buffered>>,
           pc'[p] = "idle", \A q \in Client \ {p} : pc'[q] = pc[q],
           \/ pc'[BgThread] = pc[BgThread] /\ pc[BgThread] # "asleep"
           \/ pc'[BgThread] = "woken" /\ pc[BgThread] = "asleep"
    PROVE  TokenInv' /\ TokenStep
<1>1. TokenInv'
    BY DEF TokenInv, OwnToken, StoreFirst
<1>2. p \in Calling /\ Calling' = Calling \ {p}
    BY DEF Calling
<1>3. UNCHANGED Due /\ (p \in Due => LoadPasses)
    BY DEF Due
<1>4. Waiter' = IF Waiter = "asleep" THEN "woken" ELSE Waiter
    BY DEF Waiter
<1>5. Token!EndNotify(p)
    BY <1>2, <1>3, <1>4 DEF Token!EndNotify
<1> QED
    BY <1>1, <1>5 DEF TokenStep, Token!Next

\* It finds the thread counted if it sleeps, and then wakes it.
LEMMA NotifiesToken ==
    ASSUME TypeOK, TokenInv, NEW p \in Client, NotifyAll(p)
    PROVE  TokenInv' /\ TokenStep
<1>1. CASE m_task_avalable_futex!StoreWork(p)
    <2>1. /\ UNCHANGED m_work_avalable /\ buffered' = buffered \cup {p} /\ pc[p] = "store"
          /\ pc' = [pc EXCEPT ![p] = "readCounter"]
        BY <1>1 DEF m_task_avalable_futex!StoreWork
    <2>2. /\ pc'[BgThread] = pc[BgThread] /\ \A q \in Client \ {p} : pc'[q] = pc[q]
          /\ pc'[p] = "readCounter"
        BY <2>1, OthersStay
    <2>3. Waiter' = Waiter /\ TokenInv'
        BY <2>1, <2>2 DEF Waiter, TokenInv, OwnToken, StoreFirst
    <2>4. Due' = Due
        BY <2>1, <2>2 DEF Due
    <2>5. Calling' = Calling
        BY <2>1, <2>2 DEF Calling
    <2> QED BY <2>1, <2>3, <2>4, <2>5 DEF TokenStep
<1>2. CASE m_task_avalable_futex!ReadCounter(p) /\ pc'[p] # "wakeOne"
    <2>1. /\ UNCHANGED <<m_work_avalable, buffered>> /\ pc[p] = "readCounter"
          /\ LoadPasses \/ p \notin buffered
          /\ pc' = [pc EXCEPT ![p] = pc'[p]]
          /\ pc'[p] = IF m_wait_counter > 0 THEN "wakeAll" ELSE "idle"
        BY <1>2 DEF m_task_avalable_futex!ReadCounter
    <2>2. pc'[BgThread] = pc[BgThread] /\ \A q \in Client \ {p} : pc'[q] = pc[q]
        BY <2>1, OthersStay
    <2>3. CASE m_wait_counter > 0
        <3>1. pc'[p] = "wakeAll"
            BY <2>1, <2>3
        <3>2. Waiter' = Waiter
            BY <2>2 DEF Waiter
        <3>3. Calling' = Calling
            BY <2>1, <2>2, <3>1 DEF Calling
        <3>4. Due' = Due
            BY <2>1, <2>2, <3>1 DEF Due
        <3>5. TokenInv'
            BY <2>1, <2>2 DEF TokenInv, OwnToken, StoreFirst
        <3> QED BY <2>1, <3>2, <3>3, <3>4, <3>5 DEF TokenStep
    <2>4. CASE ~(m_wait_counter > 0)
        BY <2>1, <2>2, <2>4, EndsNotify
    <2> QED BY <2>3, <2>4
<1>3. CASE m_task_avalable_futex!FutexWake(p)
    <2>1. PICK woken \in SUBSET m_task_avalable_futex!Asleep :
            /\ pc[p] = "wakeAll" => woken = m_task_avalable_futex!Asleep
            /\ pc' = [t \in Client \cup {BgThread} |->
                       IF t = p THEN "idle" ELSE IF t \in woken THEN "woken" ELSE pc[t]]
        BY <1>3 DEF m_task_avalable_futex!FutexWake, m_task_avalable_futex!Thread
    <2>2. /\ UNCHANGED <<m_work_avalable, buffered>> /\ pc[p] = "wakeAll" /\ p \notin buffered
        BY <1>3 DEF m_task_avalable_futex!FutexWake
    <2>3. \A t \in Client \cup {BgThread} :
            t \in woken <=> t = BgThread /\ pc[BgThread] = "asleep"
        BY <2>1, <2>2 DEF m_task_avalable_futex!Asleep
    <2>4. pc'[p] = "idle" /\ \A q \in Client \ {p} : pc'[q] = pc[q]
        <3>1. \A q \in Client : q \notin woken
            BY <2>3
        <3> QED BY <2>1, <3>1
    <2>5. pc'[BgThread] = IF pc[BgThread] = "asleep" THEN "woken" ELSE pc[BgThread]
        BY <2>1, <2>3
    <2> QED
        BY <2>2, <2>4, <2>5, EndsNotify
<1> QED
    BY <1>1, <1>2, <1>3, TestLeavesToken DEF NotifyAll

\* wake_up() begins where it is called: by notify() of BgRunner and by the destructors.
LEMMA CallsBegin ==
    ASSUME TypeOK, TokenInv, NEW p \in Client, pc[p] \in {"idle", "notify"},
           pc' = [pc EXCEPT ![p] = "test"], UNCHANGED <<m_work_avalable, buffered>>
    PROVE  TokenInv' /\ TokenStep
<1>1. /\ pc'[BgThread] = pc[BgThread] /\ \A q \in Client \ {p} : pc'[q] = pc[q]
      /\ pc'[p] = "test"
    BY OthersStay
<1>2. p \notin Calling /\ Calling' = Calling \cup {p}
    BY <1>1 DEF Calling
<1>3. Due' = Due \cup {p}
    BY <1>1 DEF Due
<1>4. Waiter' = Waiter /\ TokenInv'
    BY <1>1 DEF Waiter, TokenInv, OwnToken, StoreFirst
<1>5. Token!BeginNotify(p)
    BY <1>2, <1>3, <1>4 DEF Token!BeginNotify
<1> QED
    BY <1>4, <1>5 DEF TokenStep, Token!Next

\* Every step of the shutdown is one of WakeToken, or none that it sees.
LEMMA StepKeepsToken ==
    ASSUME TypeOK, TokenInv, [Next]_vars
    PROVE  TokenInv' /\ TokenStep
<1> USE DEF TokenStep
<1>1. CASE BgStep \/ FutexInterrupted
    <2>1. CASE RunTask \/ ScheduleReturns \/ CheckStop \/ CountAwake \/ ReturnGuard
                 \/ OsThreadEnds
        <3>1. /\ UNCHANGED <<m_work_avalable, buffered>>
              /\ Place(pc'[BgThread]) = Place(pc[BgThread]) /\ pc'[BgThread] # "exchange"
              /\ \A p \in Client : pc'[p] = pc[p]
            BY <2>1 DEF RunTask, ScheduleReturns, CheckStop, CountAwake, ReturnGuard,
               OsThreadEnds, Place
        <3> QED BY <3>1, TokenUnmoved
    <2>2. CASE CountSleep
        <3>1. /\ UNCHANGED <<m_work_avalable, buffered>>
              /\ pc[BgThread] = "wait" /\ pc'[BgThread] = "load"
              /\ \A p \in Client : pc'[p] = pc[p]
            BY <2>2 DEF CountSleep
        <3>2. TokenInv' /\ UNCHANGED <<Calling, Due>>
            BY <3>1 DEF TokenInv, OwnToken, StoreFirst, Calling, Due
        <3>3. Token!Call
            BY <3>1, <3>2 DEF Token!Call, Token!Move, Waiter
        <3> QED BY <3>2, <3>3 DEF Token!Next
    <2> QED BY <1>1, <2>1, <2>2, WaitsForToken DEF BgStep
<1>2. ASSUME NEW p \in Client, ClientStep(p) PROVE TokenInv' /\ TokenStep
    <2>1. /\ UNCHANGED <<m_work_avalable, buffered>> /\ pc'[BgThread] = pc[BgThread]
          /\ \A q \in Client \ {p} : pc'[q] = pc[q]
          /\ pc[p] = "idle" /\ pc'[p] \in {"idle", "notify", "ended"}
        BY <1>2 DEF ClientStep, EnqueueTask, HelpOut, ClientEnds
    <2>2. \A q \in Client : /\ Calls(pc'[q]) <=> Calls(pc[q])
                            /\ Owes(pc'[q]) <=> Owes(pc[q])
        BY <2>1 DEF Calls, Owes
    <2> QED BY <2>1, <2>2, TokenUnmoved
<1>3. ASSUME NEW p \in Client, ReadSleepCount(p) PROVE TokenInv' /\ TokenStep
    <2>1. UNCHANGED <<m_work_avalable, buffered>> /\ pc[p] = "notify"
        BY <1>3 DEF ReadSleepCount
    <2>2. CASE pc' = [pc EXCEPT ![p] = "test"]
        BY <2>1, <2>2, CallsBegin
    <2>3. CASE pc' = [pc EXCEPT ![p] = "idle"]
        <3>1. /\ pc'[BgThread] = pc[BgThread] /\ pc'[p] = "idle"
              /\ \A q \in Client \ {p} : pc'[q] = pc[q]
            BY <2>3, OthersStay
        <3>2. \A q \in Client : /\ Calls(pc'[q]) <=> Calls(pc[q])
                                /\ Owes(pc'[q]) <=> Owes(pc[q])
            BY <2>1, <3>1 DEF Calls, Owes
        <3> QED BY <2>1, <3>1, <3>2, TokenUnmoved
    <2> QED BY <1>3, <2>2, <2>3 DEF ReadSleepCount
<1>4. CASE RequestStop \/ WakeUpAgain
    <2>1. /\ UNCHANGED <<m_work_avalable, buffered>>
          /\ pc[main] = "idle" /\ pc' = [pc EXCEPT ![main] = "test"]
        BY <1>4 DEF RequestStop, WakeUpAgain
    <2> QED BY <2>1, CallsBegin
<1>5. CASE ThreadStopped \/ Join \/ DrainStop \/ Exit \/ UNCHANGED vars
    <2>1. UNCHANGED <<m_work_avalable, buffered>> /\ \A t \in Client \cup {BgThread} : pc'[t] = pc[t]
        BY <1>5 DEF ThreadStopped, Join, DrainStop, Exit, vars
    <2> QED BY <2>1, TokenUnmoved
<1> QED
    BY <1>1, <1>2, <1>3, <1>4, <1>5, NotifiesToken, DrainLeavesToken
    DEF Next, Notifies, Drain, StopStep

\* The futex of the BgThread keeps the promise of WakeToken (futex.hpp:96), for any number
\* of clients: it sleeps only if the word is 0 when FUTEX_WAIT compares, the exchange takes
\* a token with the news of it, and no notify() returns while the thread sleeps, as it is
\* counted before it does.  When no load passes a store, nor before its token is there.
THEOREM FutexIsToken == Spec => ImplementsToken
<1>1. Init => TokenInv /\ Token!Init
    <2> SUFFICES ASSUME Init PROVE TokenInv /\ Token!Init
        OBVIOUS
    <2>1. pc = [t \in Client \cup {BgThread} |-> IF t = BgThread THEN "schedule" ELSE "idle"]
        BY DEF Init
    <2>2. pc[BgThread] = "schedule" /\ \A p \in Client : pc[p] = "idle"
        BY <2>1
    <2>3. m_work_avalable = 1 /\ buffered = {}
        BY DEF Init
    <2>4. Waiter = "out" /\ Calling = {} /\ Due = {}
        BY <2>2, <2>3 DEF Waiter, Calling, Due
    <2> QED BY <2>2, <2>3, <2>4 DEF TokenInv, OwnToken, StoreFirst, Token!Init
<1>2. TypeOK /\ TokenInv /\ [Next]_vars => TokenInv' /\ [Token!Next]_(Token!vars)
    BY StepKeepsToken DEF TokenStep, Token!vars
<1> QED
    BY <1>1, <1>2, ShutdownTypeCorrect, PTL DEF Spec, ImplementsToken, Token!Spec

-----------------------------------------------------------------------------
(* What the promise comes to when no load passes a store                   *)

\* Without delay a token is due only from a notify() that has not returned.
PromiseInv == ~LoadPasses => Due \subseteq Calling /\ Token!SleeperHasCaller

\* A token comes while its notify() is under way, and the thread does not sleep on.
LEMMA PromiseKept == PromiseInv /\ [Token!Next]_(Token!vars) => PromiseInv'
<1> SUFFICES ASSUME ~LoadPasses, Due \subseteq Calling, Token!SleeperHasCaller,
                    [Token!Next]_(Token!vars)
             PROVE  Due' \subseteq Calling' /\ Token!SleeperHasCaller'
    BY DEF PromiseInv
<1> USE DEF Token!SleeperHasCaller, Token!Move
<1>1. CASE Token!Call \/ Token!Take \/ Token!Sleep \/ Token!FindLate \/ Token!WakeEarly
             \/ Token!Return
    BY <1>1 DEF Token!Call, Token!Take, Token!Sleep, Token!FindLate, Token!WakeEarly, Token!Return
<1>2. ASSUME NEW p \in Client, Token!BeginNotify(p)
      PROVE  Due' \subseteq Calling' /\ Token!SleeperHasCaller'
    BY <1>2 DEF Token!BeginNotify
<1>3. ASSUME NEW p \in Client, Token!LeaveToken(p)
      PROVE  Due' \subseteq Calling' /\ Token!SleeperHasCaller'
    BY <1>3 DEF Token!LeaveToken
<1>4. ASSUME NEW p \in Client, Token!EndNotify(p)
      PROVE  Due' \subseteq Calling' /\ Token!SleeperHasCaller'
    BY <1>4 DEF Token!EndNotify
<1>5. CASE UNCHANGED Token!vars
    BY <1>5 DEF Token!vars
<1> QED
    BY <1>1, <1>2, <1>3, <1>4, <1>5 DEF Token!Next

\* "if some other thread will notify() at same time, current thread will not go to sleep or
\* it will wake up immediately" (futex.hpp:97), when no load passes a store: while the
\* BgThread sleeps and the word is 1, a client is in a notify() that does not return
\* before it has woken it.  It follows from the promise alone.
THEOREM NoSleepOnToken ==
    ~LoadPasses /\ Spec => [](pc[BgThread] = "asleep" /\ m_work_avalable = 1 => Calling # {})
<1>1. SUFFICES ASSUME ~LoadPasses
               PROVE  Spec => [](pc[BgThread] = "asleep" /\ m_work_avalable = 1 => Calling # {})
    OBVIOUS
<1>2. Token!Init => PromiseInv
    BY DEF Token!Init, PromiseInv, Token!SleeperHasCaller
<1>3. PromiseInv => (pc[BgThread] = "asleep" /\ m_work_avalable = 1 => Calling # {})
    BY <1>1 DEF PromiseInv, Token!SleeperHasCaller, Waiter
<1> QED
    BY <1>2, <1>3, PromiseKept, FutexIsToken, PTL DEF ImplementsToken, Token!Spec
=============================================================================
