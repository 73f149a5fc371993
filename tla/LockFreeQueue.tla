---------------------------- MODULE LockFreeQueue ----------------------------
(***************************************************************************)
(* LockFreeQueue (lock_free_queue.hpp): get_item() looks in the buffer,    *)
(* then in the stacks; put_item() puts an item of priority 0 in the buffer *)
(* and another in the stack of its priority.  The clients are the threads  *)
(* of alterstack: each puts items that it has and gets others.             *)
(***************************************************************************)
EXTENDS BoundBuffer, LockFreeStack

CONSTANT Priority       \* per item: the priorities that its client may give it

ASSUME PriorityAssumption == Priority \in [Item -> SUBSET Nat]

\* The lists that threads can find, and what a get_item() has of its own.
Lists == {m_buffer[s] : s \in Slot} \cup {m_head[k] : k \in Stack}
             \cup {old_list[th] : th \in Thread}
pool == UNION {ListOf(x) : x \in Lists}

Getting(th) == pc[th] \in {"get_advance", "get_return", "store_tail", "occupied_advance",
                           "occupied_slot", "occupied_cas", "empty_load", "empty_slot",
                           "empty_reload", "empty_advance"}
Kept(th) == IF Getting(th) THEN {item[th]} ELSE {}
Tail(th) ==
    IF At(th, "get_advance") THEN ListOf(next[item[th]])
    ELSE IF At(th, "occupied_cas") THEN {}
    ELSE ListOf(list[th]) \cup ListOf(stored[th])
batch == [th \in Thread |-> Kept(th) \cup Tail(th)]

-----------------------------------------------------------------------------
Idle(th) == At(th, "idle")

\* A get_item() need not find anything while others are busy or the queue is empty.
Excuses(th) ==
    excused' = [u \in Thread |-> IF u = th THEN pool = {} \/ \E v \in Thread \ {th} : ~Idle(v)
                                 ELSE ~Idle(u)]

\* The client calls get_item() ...
CallGet(th) ==
    /\ Goto(th, "idle", "get_load")
    /\ Excuses(th)
    /\ UNCHANGED <<memory, held, locals>>

\* ... or put_item().
PutInBuffer(th) ==
    /\ Goto(th, "idle", "priority_load")
    /\ \E x \in held[th] : 0 \in Priority[x] /\ item' = [item EXCEPT ![th] = x]
    /\ Excuses(th)
    /\ UNCHANGED <<memory, held, listVars, loopVars>>

PutInStack(th) ==
    /\ Goto(th, "idle", "push_load")
    /\ \E x \in held[th] : \E prio \in Priority[x] \ {0} :
         /\ item' = [item EXCEPT ![th] = x]
         /\ index' = [index EXCEPT ![th] = IF prio >= QUEUE_COUNT THEN QUEUE_COUNT ELSE prio]
    /\ Excuses(th)
    /\ UNCHANGED <<memory, held, listVars, i>>

\* The last stack is empty too.
GetNothing(th) ==
    /\ Goto(th, "pop", "idle")
    /\ m_head[i[th] + 1] = Null
    /\ i[th] + 1 = QUEUE_COUNT
    /\ Return(th)
    /\ UNCHANGED <<memory, held>>

Work(th) == BufferStep(th) \/ StackStep(th) \/ GetNothing(th)
Call(th) == PutInBuffer(th) \/ PutInStack(th) \/ CallGet(th)

Next == \E th \in Thread : Work(th) \/ Call(th)

Spec == Init /\ [][Next]_vars

\* A thread of alterstack calls schedule() again and again, and the kernel runs it.
FairSpec == Spec /\ \A th \in Thread : WF_vars(Work(th)) /\ WF_vars(Call(th))

-----------------------------------------------------------------------------
TypeOK ==
    /\ m_buffer \in [Slot -> Item \cup {Null}]
    /\ m_get_position \in 0 .. Positions - 1
    /\ m_put_position \in 0 .. Positions - 1
    /\ m_head \in [Stack -> Item \cup {Null}]
    /\ next \in [Item -> Item \cup {Null}]
    /\ held \in [Thread -> SUBSET Item]
    /\ excused \in [Thread -> BOOLEAN]
    /\ item \in [Thread -> Item \cup {Null}] /\ list \in [Thread -> Item \cup {Null}]
    /\ stored \in [Thread -> Item \cup {Null}] /\ old_list \in [Thread -> Item \cup {Null}]
    /\ index \in [Thread -> Nat]
    /\ i \in [Thread -> 0 .. BUFFER_SIZE + QUEUE_COUNT]
    /\ count \in [Thread -> 0 .. BUFFER_SIZE - 1]
    /\ back \in [Thread -> {"store_tail", "get_return"}]

\* No item is lost, doubled or given to two threads while lists are taken out of slots
\* and put back under each other's hands: the queue does what Scheduler takes it to do.
Pool == INSTANCE ItemPool WITH
    Thread <- Thread, Item <- Item, pool <- pool, batch <- batch, held <- held
ImplementsPool == Pool!Spec

\* An item that get_item() has returned is single (unit_lock_free_queue.cpp:82), as
\* push() asserts of what it is given.
ReturnsSingle == \A th \in Thread : \A x \in held[th] \ {item[th]} : next[x] = Null

\* get_item() returns nullptr only when the queue was empty or somebody else was in it.
FindsIfAlone ==
    \A th \in Thread :
      At(th, "pop") /\ i[th] + 1 = QUEUE_COUNT /\ m_head[QUEUE_COUNT] = Null => excused[th]

\* "without starvation" (lock_free_queue.hpp:28), or what it comes to: an item in the
\* queue is got, whatever other threads do to the slots and lists it passes through,
\* unless items of a higher priority are put in again and again.
PutBefore(x) ==
    \E th \in Thread :
      \/ At(th, "priority_cas")
      \/ At(th, "push_cas") /\ \E prio \in Priority[x] : index[th] < prio
Served == \A x \in Item : x \in pool ~> (x \notin pool \/ PutBefore(x))
=============================================================================
