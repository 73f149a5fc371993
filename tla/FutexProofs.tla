---------------------------- MODULE FutexProofs ----------------------------
(***************************************************************************)
(* Proofs about Futex for any number of consumers and producers and any    *)
(* bound on the items: the type invariant; that the token of a notify() is *)
(* never lost; and, when no load passes a store, that no wake-up is.       *)
(***************************************************************************)
EXTENDS Futex, FiniteSetTheorems, TLAPS

USE FutexAssumption DEF Thread

\* There are finitely many threads to count.
LEMMA CountedIsFinite == IsFiniteSet(Counted)
BY FS_Subset DEF Counted

\* A consumer that comes into the counted part of wait() is one more there.
LEMMA CountedIn ==
    ASSUME TypeOK, NEW c \in Consumer, pc[c] = "count", pc' = [pc EXCEPT ![c] = "syscall"]
    PROVE  Cardinality(Counted') = Cardinality(Counted) + 1
<1>1. c \notin Counted /\ Counted' = Counted \cup {c}
    BY DEF TypeOK, Counted
<1> QED
    BY <1>1, CountedIsFinite, FS_AddElement

\* A consumer that leaves it is one less.
LEMMA CountedOut ==
    ASSUME TypeOK, NEW c \in Consumer, pc[c] = "woken", pc' = [pc EXCEPT ![c] = "check"]
    PROVE  Cardinality(Counted') = Cardinality(Counted) - 1 /\ Cardinality(Counted) > 0
<1>1. c \in Counted /\ Counted' = Counted \ {c}
    BY DEF TypeOK, Counted
<1>2. Cardinality(Counted) \in Nat /\ Cardinality(Counted) # 0
    BY <1>1, CountedIsFinite, FS_CardinalityType, FS_EmptySet
<1>3. Cardinality(Counted \ {c}) = Cardinality(Counted) - 1
    BY <1>1, CountedIsFinite, FS_RemoveElement
<1>4. Cardinality(Counted) > 0
    BY <1>2
<1> QED
    BY <1>1, <1>3, <1>4

-----------------------------------------------------------------------------
\* At first nobody is counted.
LEMMA TypeOKInit == Init => TypeOK
<1> SUFFICES ASSUME Init PROVE TypeOK
    OBVIOUS
<1>1. Counted = {}
    BY DEF Init, Counted
<1> QED
    BY <1>1, FS_EmptySet DEF Init, TypeOK, ConsumerPC, ProducerPC

\* A step that changes m_wait_counter changes the counted consumers with it.
LEMMA TypeOKStep == TypeOK /\ [Next]_vars => TypeOK'
<1> SUFFICES ASSUME TypeOK, [Next]_vars PROVE TypeOK'
    OBVIOUS
<1> USE DEF TypeOK, ConsumerPC, ProducerPC, Goto
<1>1. ASSUME NEW c \in Consumer, Dequeue(c) PROVE TypeOK'
    <2>1. Counted' = Counted
        BY <1>1 DEF Dequeue, Counted
    <2> QED
        BY <1>1, <2>1 DEF Dequeue
<1>2. ASSUME NEW c \in Consumer, FindEmpty(c) PROVE TypeOK'
    <2>1. Counted' = Counted
        BY <1>2 DEF FindEmpty, Counted
    <2> QED
        BY <1>2, <2>1 DEF FindEmpty
<1>3. ASSUME NEW c \in Consumer, LoadWork(c) PROVE TypeOK'
    <2>1. Counted' = Counted
        BY <1>3 DEF LoadWork, Counted
    <2> QED
        BY <1>3, <2>1 DEF LoadWork
<1>4. ASSUME NEW c \in Consumer, ExchangeWork(c) PROVE TypeOK'
    <2>1. Counted' = Counted
        BY <1>4 DEF ExchangeWork, Counted
    <2> QED
        BY <1>4, <2>1 DEF ExchangeWork
<1>5. ASSUME NEW c \in Consumer, CountWaiter(c) PROVE TypeOK'
    <2>1. Cardinality(Counted') = Cardinality(Counted) + 1
        BY <1>5, CountedIn DEF CountWaiter
    <2> QED
        BY <1>5, <2>1 DEF CountWaiter
<1>6. ASSUME NEW c \in Consumer, FutexWait(c) PROVE TypeOK'
    <2>1. Counted' = Counted
        BY <1>6 DEF FutexWait, Counted
    <2> QED
        BY <1>6, <2>1 DEF FutexWait
<1>7. ASSUME NEW c \in Consumer, LeaveWait(c) PROVE TypeOK'
    <2>1. Cardinality(Counted') = Cardinality(Counted) - 1 /\ Cardinality(Counted) > 0
        BY <1>7, CountedOut DEF LeaveWait
    <2> QED
        BY <1>7, <2>1 DEF LeaveWait
<1>8. ASSUME NEW c \in Consumer, Interrupt(c) PROVE TypeOK'
    <2>1. Counted' = Counted
        BY <1>8 DEF Interrupt, Counted
    <2> QED
        BY <1>8, <2>1 DEF Interrupt
<1>9. ASSUME NEW p \in Producer, Enqueue(p) \/ NotifyStep(p) PROVE TypeOK'
    <2>1. CASE FutexWake(p)
        <3>1. Counted' = Counted
            BY <2>1 DEF FutexWake, Counted, Asleep
        <3> QED
            BY <2>1, <3>1 DEF FutexWake, Asleep
    <2>2. CASE Enqueue(p) \/ TestWork(p) \/ StoreWork(p) \/ Drain(p) \/ ReadCounter(p)
        <3>1. Counted' = Counted
            BY <2>2 DEF Enqueue, TestWork, StoreWork, Drain, ReadCounter, Counted
        <3> QED
            BY <2>2, <3>1 DEF Enqueue, TestWork, StoreWork, Drain, ReadCounter
    <2> QED
        BY <1>9, <2>1, <2>2 DEF NotifyStep
<1>10. CASE UNCHANGED vars
    <2>1. Counted' = Counted
        BY <1>10 DEF vars, Counted
    <2> QED
        BY <1>10, <2>1 DEF vars
<1> QED
    BY <1>1, <1>2, <1>3, <1>4, <1>5, <1>6, <1>7, <1>8, <1>9, <1>10 DEF Next, ConsumerStep

\* For every number of threads: the program counters and the two atomics of Futex
\* keep their types, and m_wait_counter is the number of threads inside wait()'s
\* counted part, so fetch_sub never wraps it below zero.
THEOREM TypeCorrect == Spec => []TypeOK
BY TypeOKInit, TypeOKStep, PTL DEF Spec

-----------------------------------------------------------------------------
(* The token is never lost: a word of 0 is followed by a store, which      *)
(* comes out of the store buffer before a consumer can be left with 0.     *)

\* At first nobody has announced work.
LEMMA TokenInit == Init => TokenPending
BY DEF Init, TokenPending

\* A token is taken only by a consumer that looks at the queue again.
LEMMA TokenStep == TypeOK /\ TokenPending /\ [Next]_vars => TokenPending'
<1> SUFFICES ASSUME TypeOK, TokenPending, [Next]_vars PROVE TokenPending'
    OBVIOUS
<1> USE DEF TypeOK, Committed, ConsumerPC, ProducerPC, Goto
<1>1. ASSUME NEW c \in Consumer, Dequeue(c) \/ FindEmpty(c) \/ LeaveWait(c) \/ Interrupt(c)
      PROVE  TokenPending'
    BY <1>1 DEF Dequeue, FindEmpty, LeaveWait, Interrupt, TokenPending
<1>2. ASSUME NEW c \in Consumer, LoadWork(c) \/ ExchangeWork(c) \/ CountWaiter(c) \/ FutexWait(c)
      PROVE  TokenPending'
    <2>1. Committed' = Consumer => Committed = Consumer /\ m_work_avalable' = m_work_avalable
        BY <1>2 DEF LoadWork, ExchangeWork, CountWaiter, FutexWait
    <2>2. UNCHANGED <<queue, buffered>> /\ \A p \in Producer : pc'[p] = pc[p]
        BY <1>2 DEF LoadWork, ExchangeWork, CountWaiter, FutexWait
    <2> QED
        BY <2>1, <2>2 DEF TokenPending
<1>3. ASSUME NEW p \in Producer, Enqueue(p) \/ TestWork(p) \/ StoreWork(p) \/ Drain(p)
      PROVE  TokenPending'
    <2>1. CASE Enqueue(p) \/ StoreWork(p) \/ Drain(p)
        BY <2>1 DEF Enqueue, StoreWork, Drain, TokenPending
    <2>2. CASE TestWork(p)
        <3>1. m_work_avalable' = 1 \/ pc'[p] = "store" \/ p \in buffered'
            BY <2>2 DEF TestWork
        <3> QED
            BY <3>1 DEF TokenPending
    <2> QED
        BY <1>3, <2>1, <2>2
<1>4. ASSUME NEW p \in Producer, ReadCounter(p) PROVE TokenPending'
    <2>1. /\ UNCHANGED <<queue, buffered, m_work_avalable>>
          /\ \A t \in Thread \ {p} : pc'[t] = pc[t]
          /\ pc[p] = "readCounter"
        BY <1>4 DEF ReadCounter
    <2>2. Committed' = Committed
        BY <2>1
    <2> QED
        BY <2>1, <2>2 DEF TokenPending
<1>5. ASSUME NEW p \in Producer, FutexWake(p) PROVE TokenPending'
    <2>1. PICK woken \in SUBSET Asleep :
            pc' = [t \in Thread |-> IF t = p THEN "idle" ELSE IF t \in woken THEN "woken" ELSE pc[t]]
        BY <1>5 DEF FutexWake
    <2>2. pc[p] \in {"wakeOne", "wakeAll"} /\ UNCHANGED <<queue, buffered, m_work_avalable>>
        BY <1>5 DEF FutexWake
    <2>3. Committed' = Consumer => Committed = Consumer
        BY <2>1
    <2>4. \A q \in Producer : pc[q] \in {"test", "store"} => pc'[q] = pc[q]
        BY <2>1, <2>2 DEF Asleep
    <2> QED
        BY <2>2, <2>3, <2>4 DEF TokenPending
<1>6. CASE UNCHANGED vars
    BY <1>6 DEF vars, TokenPending
<1> QED
    BY <1>1, <1>2, <1>3, <1>4, <1>5, <1>6 DEF Next, ConsumerStep, NotifyStep

\* An item that no consumer is going to look for has the word at 1 or a producer
\* whose store is still to come (futex.hpp:128-130), for any number of threads and
\* whether or not loads pass stores: TSO may lose a wake-up, never the token.
THEOREM TokenIsPending == Spec => []TokenPending
<1>1. Init => TypeOK /\ TokenPending
    BY TypeOKInit, TokenInit
<1>2. (TypeOK /\ TokenPending) /\ [Next]_vars => (TypeOK /\ TokenPending)'
    BY TypeOKStep, TokenStep
<1> QED
    BY <1>1, <1>2, PTL DEF Spec

-----------------------------------------------------------------------------
(* No wake-up is lost when no load passes a store: a producer that sees    *)
(* sleepers in m_wait_counter goes on to FUTEX_WAKE, and one whose store   *)
(* is in the store buffer has not looked at m_wait_counter yet.            *)

StoreFirst == \A p \in buffered : pc[p] = "readCounter"
Inv == TypeOK /\ WakeupPending /\ StoreFirst

\* The inductive invariant holds at first.
LEMMA InvInit == Init => Inv
BY TypeOKInit, TokenInit DEF Inv, Init, WakeupPending, StoreFirst

\* A sleeper is counted: a producer that reads 0 knows that not all are asleep.
LEMMA SleepersCounted == TypeOK /\ Asleep = Consumer => m_wait_counter > 0
<1> SUFFICES ASSUME TypeOK, Asleep = Consumer PROVE m_wait_counter > 0
    OBVIOUS
<1>1. Counted # {}
    BY DEF Asleep, Counted
<1>2. Cardinality(Counted) \in Nat /\ Cardinality(Counted) # 0
    BY <1>1, CountedIsFinite, FS_CardinalityType, FS_EmptySet
<1> QED
    BY <1>2 DEF TypeOK

\* The part of WakeupPending about sleepers.
Noticed == queue > 0 /\ Asleep = Consumer => \E p \in Producer : pc[p] # "idle"

\* Every step keeps it, as long as the load does not pass the store.
LEMMA InvStep == ~LoadPasses /\ Inv /\ [Next]_vars => Inv'
<1> SUFFICES ASSUME ~LoadPasses, Inv, [Next]_vars
             PROVE  Noticed' /\ StoreFirst'
    BY TypeOKStep, TokenStep DEF Inv, WakeupPending, Noticed
<1> USE DEF Inv, TypeOK, Asleep, ConsumerPC, ProducerPC, Goto, Noticed, StoreFirst
<1>1. ASSUME NEW c \in Consumer,
             Dequeue(c) \/ FindEmpty(c) \/ LoadWork(c) \/ ExchangeWork(c) \/ CountWaiter(c)
                 \/ LeaveWait(c) \/ Interrupt(c)
      PROVE  Noticed' /\ StoreFirst'
    <2>1. c \notin Asleep'
        BY <1>1 DEF Dequeue, FindEmpty, LoadWork, ExchangeWork, CountWaiter, LeaveWait, Interrupt
    <2>2. UNCHANGED buffered /\ \A p \in Producer : pc'[p] = pc[p]
        BY <1>1 DEF Dequeue, FindEmpty, LoadWork, ExchangeWork, CountWaiter, LeaveWait, Interrupt
    <2> QED
        BY <2>1, <2>2
<1>2. ASSUME NEW c \in Consumer, FutexWait(c) PROVE Noticed' /\ StoreFirst'
    <2>1. UNCHANGED <<queue, buffered>> /\ \A p \in Producer : pc'[p] = pc[p]
        BY <1>2 DEF FutexWait
    <2>2. Asleep' = Consumer => Committed = Consumer /\ m_work_avalable = 0
        BY <1>2 DEF FutexWait, Committed
    <2>3. queue > 0 /\ Committed = Consumer /\ m_work_avalable = 0
            => \E p \in Producer : pc[p] # "idle"
        BY DEF WakeupPending, TokenPending
    <2> QED
        BY <2>1, <2>2, <2>3
<1>3. ASSUME NEW p \in Producer, Enqueue(p) \/ TestWork(p) \/ StoreWork(p)
      PROVE  Noticed' /\ StoreFirst'
    <2>1. pc'[p] # "idle"
        BY <1>3 DEF Enqueue, TestWork, StoreWork
    <2>2. StoreFirst'
        BY <1>3 DEF Enqueue, TestWork, StoreWork
    <2> QED
        BY <2>1, <2>2
<1>4. ASSUME NEW p \in Producer, Drain(p) PROVE Noticed' /\ StoreFirst'
    BY <1>4 DEF Drain, WakeupPending
<1>5. ASSUME NEW p \in Producer, ReadCounter(p) PROVE Noticed' /\ StoreFirst'
    <2>1. /\ UNCHANGED <<queue, buffered>>
          /\ \A t \in Thread \ {p} : pc'[t] = pc[t]
          /\ pc[p] = "readCounter" /\ p \notin buffered
        BY <1>5 DEF ReadCounter
    <2>2. Asleep' = Asleep
        BY <2>1
    <2>3. Asleep = Consumer => pc'[p] # "idle"
        BY <1>5, SleepersCounted DEF ReadCounter
    <2> QED
        BY <2>1, <2>2, <2>3
<1>6. ASSUME NEW p \in Producer, FutexWake(p) PROVE Noticed' /\ StoreFirst'
    <2>1. PICK woken \in SUBSET Asleep :
            /\ pc[p] = "wakeAll" => woken = Asleep
            /\ pc[p] = "wakeOne" => IF Asleep = {} THEN woken = {}
                                                   ELSE \E c \in Asleep : woken = {c}
            /\ pc' = [t \in Thread |-> IF t = p THEN "idle"
                                       ELSE IF t \in woken THEN "woken" ELSE pc[t]]
        BY <1>6 DEF FutexWake
    <2>2. pc[p] \in {"wakeOne", "wakeAll"} /\ p \notin buffered /\ UNCHANGED <<queue, buffered>>
        BY <1>6 DEF FutexWake
    <2>3. Asleep' # Consumer
        BY <2>1, <2>2
    <2>4. \A q \in Producer \ {p} : pc'[q] = pc[q]
        BY <2>1
    <2> QED
        BY <2>2, <2>3, <2>4
<1>7. CASE UNCHANGED vars
    BY <1>7 DEF vars, WakeupPending
<1> QED
    BY <1>1, <1>2, <1>3, <1>4, <1>5, <1>6, <1>7 DEF Next, ConsumerStep, NotifyStep

\* When no load passes a store, an item that no consumer is going to look for has the
\* word at 1 or a producer about to store it, and while all sleep a producer is on
\* its way to FUTEX_WAKE (futex.hpp:130-138), for any number of threads.
THEOREM WakeupIsPending == ~LoadPasses /\ Spec => []WakeupPending
<1>1. Inv => WakeupPending
    BY DEF Inv
<1>2. SUFFICES ASSUME ~LoadPasses PROVE Spec => []WakeupPending
    OBVIOUS
<1>3. Inv /\ [Next]_vars => Inv'
    BY <1>2, InvStep
<1> QED
    BY <1>1, <1>3, InvInit, PTL DEF Spec

\* When no load passes a store, the producer's store-then-load and the consumer's
\* count-then-compare meet: after every notify() has returned the consumers are not
\* all asleep with an item in the queue (futex.hpp:97-99), for any number of threads.
THEOREM NoWakeupLost == ~LoadPasses /\ Spec => []NoLostWakeup
<1>1. WakeupPending /\ TypeOK => NoLostWakeup
    BY DEF WakeupPending, NoLostWakeup, Notifying, TypeOK
<1>2. SUFFICES ASSUME ~LoadPasses PROVE Spec => []NoLostWakeup
    OBVIOUS
<1> QED
    BY <1>1, <1>2, WakeupIsPending, TypeCorrect, PTL
=============================================================================
