-------------------------- MODULE LockFreeQueueProofs --------------------------
(***************************************************************************)
(* Proofs about LockFreeQueue for every number of threads, items, slots    *)
(* and stacks.  First its memory safety: no loop leaves the slots or the   *)
(* stacks and no null pointer is followed.  Then that it implements        *)
(* ItemPool: the lists are chains that have nothing in common, so that     *)
(* what a thread takes out of a slot is its own, whatever the others do.   *)
(***************************************************************************)
EXTENDS LockFreeQueue, IntrusiveListProofs, TLAPS

USE QueueAssumption, PriorityAssumption
    DEF At, Goto, Slot, Stack, bufferVars, clientVars, memory, loopVars, listVars, locals

\* The control points of the loops over the slots, and of those that hold an item.
SlotLoops == {"get_slot", "get_reload", "get_advance", "empty_slot", "empty_reload",
              "empty_advance", "occupied_slot", "occupied_cas", "priority_slot", "priority_cas"}
Holding == {"get_advance", "get_return", "store_tail", "occupied_advance", "occupied_slot",
            "occupied_cas", "empty_load", "empty_slot", "empty_reload", "empty_advance",
            "priority_load", "priority_slot", "priority_cas", "push_load", "push_cas"}
PC == {"idle", "get_load", "pop"} \cup SlotLoops \cup Holding

\* What a control point needs of the locals.
LocalsSet ==
    /\ pc \in [Thread -> PC]
    /\ \A th \in Thread :
         /\ pc[th] \in Holding => item[th] \in Item
         /\ pc[th] \in SlotLoops => i[th] \in 0 .. BUFFER_SIZE - 1
         /\ pc[th] = "pop" => i[th] \in 0 .. QUEUE_COUNT - 1
         /\ pc[th] \in {"push_load", "push_cas"} => index[th] \in Stack

Inv == TypeOK /\ LocalsSet

-----------------------------------------------------------------------------
\* A position modulo the number of slots is a slot, as BoundBuffer has it.
LEMMA ModInRange ==
    ASSUME NEW n \in Nat \ {0}, NEW m \in Nat PROVE m % n \in 0 .. n - 1
OBVIOUS

\* Division with a remainder, which is unique.
LEMMA DivMod ==
    ASSUME NEW n \in Nat, NEW B \in Nat \ {0}
    PROVE  n \div B \in Nat /\ n % B \in 0 .. B - 1 /\ n = B * (n \div B) + (n % B)
OBVIOUS

\* The remainder, from the sum that has it.
LEMMA ModUnique ==
    ASSUME NEW B \in Nat \ {0}, NEW q \in Nat, NEW s \in 0 .. B - 1
    PROVE  (B * q + s) % B = s
<1> DEFINE n == B * q + s
           d == n \div B
           r == n % B
<1>0. n \in Nat
    <2>1. B * q \in Nat
        OBVIOUS
    <2> QED BY <2>1
<1>1. n \in Nat /\ d \in Nat /\ r \in 0 .. B - 1 /\ n = B * d + r
    <2> HIDE DEF n
    <2> QED BY <1>0, DivMod
<1> HIDE DEF d, r
<1>2. B * q + s = B * d + r
    BY <1>1
<1>3. ~ q > d
    <2>1. ASSUME q > d PROVE B * q >= B * d + B
        <3>1. q = d + 1 + (q - d - 1) /\ q - d - 1 \in Nat
            BY <1>1, <2>1
        <3>2. B * q = B * d + B + B * (q - d - 1)
            BY <1>1, <3>1
        <3>3. B * (q - d - 1) >= 0
            BY <3>1
        <3> QED BY <1>1, <3>2, <3>3
    <2> QED BY <1>1, <1>2, <2>1
<1>4. ~ d > q
    <2>1. ASSUME d > q PROVE B * d >= B * q + B
        <3>1. d = q + 1 + (d - q - 1) /\ d - q - 1 \in Nat
            BY <1>1, <2>1
        <3>2. B * d = B * q + B + B * (d - q - 1)
            BY <1>1, <3>1
        <3>3. B * (d - q - 1) >= 0
            BY <3>1
        <3> QED BY <1>1, <3>2, <3>3
    <2> QED BY <1>1, <1>2, <2>1
<1>5. r = s
    BY <1>1, <1>2, <1>3, <1>4
<1> QED BY <1>5 DEF r

\* A loop over B slots from position p on comes to slot s.
Seen(B, p, s) == \E j \in 0 .. B - 1 : (p + j) % B = s

\* As many slots in a row as there are, from any position on, are all of them.
LEMMA EverySlotSeen ==
    ASSUME NEW B \in Nat \ {0}, NEW p \in Nat, NEW s \in 0 .. B - 1
    PROVE  Seen(B, p, s)
<1> DEFINE q == p \div B
           r == p % B
<1> USE DEF Seen
<1>1. q \in Nat /\ r \in 0 .. B - 1 /\ p = B * q + r
    BY DivMod
<1> HIDE DEF q, r
<1>2. CASE s >= r
    <2>1. s - r \in 0 .. B - 1 /\ p + (s - r) = B * q + s
        BY <1>1, <1>2
    <2>2. (B * q + s) % B = s
        BY <1>1, ModUnique
    <2> QED BY <2>1, <2>2
<1>3. CASE s < r
    <2>1. s - r + B \in 0 .. B - 1 /\ p + (s - r + B) = B * q + B + s
        BY <1>1, <1>3
    <2>2. B * q + B + s = B * (q + 1) + s
        BY <1>1
    <2>3. (p + (s - r + B)) % B = s
        <3>1. (B * (q + 1) + s) % B = s
            BY <1>1, ModUnique
        <3> QED BY <2>1, <2>2, <3>1
    <2> QED BY <2>1, <2>3
<1> QED BY <1>1, <1>2, <1>3

\* A position is reduced to a slot of the buffer.
LEMMA SlotOfIsSlot ==
    ASSUME Inv, NEW th \in Thread PROVE SlotOf(th) \in Slot
<1>1. index[th] + i[th] \in Nat
    BY DEF Inv, TypeOK
<1> QED
    BY <1>1, ModInRange DEF SlotOf

\* The end of a call.
LEMMA ReturnKeepsTypes ==
    ASSUME Inv, NEW th \in Thread, Return(th)
    PROVE  /\ item' \in [Thread -> Item \cup {Null}] /\ list' \in [Thread -> Item \cup {Null}]
           /\ UNCHANGED <<stored, old_list, back>>
           /\ index' \in [Thread -> Nat]
           /\ i' \in [Thread -> 0 .. BUFFER_SIZE + QUEUE_COUNT]
           /\ count' \in [Thread -> 0 .. BUFFER_SIZE - 1]
           /\ excused' \in [Thread -> BOOLEAN]
           /\ \A u \in Thread \ {th} :
                item'[u] = item[u] /\ i'[u] = i[u] /\ index'[u] = index[u]
BY DEF Inv, TypeOK, Return

\* It leaves nothing of its own, and the locals of the others as they are.
LEMMA ReturnKeepsLocals ==
    ASSUME Inv, NEW th \in Thread, Return(th), pc' = [pc EXCEPT ![th] = "idle"]
    PROVE  LocalsSet'
<1>1. pc \in [Thread -> PC] /\ "idle" \in PC
    BY DEF Inv, LocalsSet, PC
<1>2. pc' \in [Thread -> PC] /\ pc'[th] = "idle"
    BY <1>1
<1>3. \A u \in Thread \ {th} :
        pc'[u] = pc[u] /\ item'[u] = item[u] /\ i'[u] = i[u] /\ index'[u] = index[u]
    BY <1>1, ReturnKeepsTypes
<1> QED
    BY <1>2, <1>3 DEF Inv, LocalsSet, Holding, SlotLoops

\* A step of get_item() or a put in the BoundBuffer keeps the invariant.
LEMMA BufferStepKeepsInv ==
    ASSUME Inv, NEW th \in Thread, BufferStep(th)
    PROVE  Inv'
<1> USE DEF Inv, TypeOK, LocalsSet, PC, SlotLoops, Holding, BeginLoop
<1>1. CASE GetLoadPosition(th)
    <2>1. /\ pc[th] = "get_load" /\ pc' = [pc EXCEPT ![th] = "get_slot"]
          /\ index' = [index EXCEPT ![th] = m_get_position] /\ i' = [i EXCEPT ![th] = 0]
          /\ UNCHANGED <<memory, clientVars, item, listVars>>
        BY <1>1 DEF GetLoadPosition
    <2>2. TypeOK'
        BY <2>1
    <2>3. LocalsSet'
        BY <2>1
    <2> QED BY <2>2, <2>3
<1>2. CASE GetExchange(th)
    BY <1>2, SlotOfIsSlot DEF GetExchange
<1>3. CASE GetExchangeEmpty(th)
    BY <1>3, SlotOfIsSlot DEF GetExchangeEmpty
<1>4. CASE GetReload(th)
    <2>1. PICK p \in Nat, k \in 0 .. BUFFER_SIZE - 1 :
            index' = [index EXCEPT ![th] = p] /\ i' = [i EXCEPT ![th] = k]
        <3>1. CASE Moved(th, m_get_position)
            BY <1>4, <3>1 DEF GetReload, GoOn
        <3>2. CASE ~Moved(th, m_get_position)
            <4>1. i[th] + 1 \in 0 .. BUFFER_SIZE - 1
                BY <1>4, <3>2 DEF GetReload, NoSlotLeft
            <4>2. index' = [index EXCEPT ![th] = index[th]]
                BY <1>4, <3>2 DEF GetReload, GoOn
            <4> QED
                BY <1>4, <3>2, <4>1, <4>2 DEF GetReload, GoOn
        <3> QED BY <3>1, <3>2
    <2>2. TypeOK'
        BY <1>4, <2>1 DEF GetReload
    <2>3. LocalsSet'
        BY <1>4, <2>1 DEF GetReload
    <2> QED BY <2>2, <2>3
<1>5. CASE GetNoItem(th)
    <2>1. /\ pc[th] = "get_reload" /\ pc' = [pc EXCEPT ![th] = "pop"]
          /\ index' = [index EXCEPT ![th] = 0] /\ i' = [i EXCEPT ![th] = 0]
          /\ UNCHANGED <<memory, clientVars, item, listVars>>
        BY <1>5 DEF GetNoItem
    <2>2. TypeOK'
        BY <2>1
    <2>3. LocalsSet'
        BY <2>1
    <2> QED BY <2>2, <2>3
<1>6. CASE GetAdvance(th)
    <2>1. (m_get_position + i[th] + 1) % Positions \in 0 .. Positions - 1
        <3>1. m_get_position + i[th] + 1 \in Nat
            BY <1>6 DEF GetAdvance
        <3> QED BY <3>1, ModInRange
    <2>2. item[th] \in Item /\ next[item[th]] \in Item \cup {Null}
        BY <1>6 DEF GetAdvance
    <2> QED BY <1>6, <2>1, <2>2 DEF GetAdvance
<1>7. CASE GetReturn(th)
    <2>1. item[th] \in Item /\ Return(th)
        BY <1>7 DEF GetReturn
    <2>2. held' \in [Thread -> SUBSET Item]
        BY <1>7, <2>1 DEF GetReturn
    <2>3. TypeOK'
        BY <1>7, <2>1, <2>2, ReturnKeepsTypes DEF GetReturn
    <2>4. LocalsSet'
        BY <1>7, <2>1, ReturnKeepsLocals DEF GetReturn
    <2> QED BY <2>3, <2>4
<1>8. CASE TailItem(th)
    <2>1. list[th] \in Item /\ next[list[th]] \in Item \cup {Null}
        BY <1>8 DEF TailItem
    <2>2. TypeOK'
        BY <1>8, <2>1 DEF TailItem
    <2>3. LocalsSet'
        BY <1>8 DEF TailItem
    <2> QED BY <2>2, <2>3
<1>9. CASE TailRest(th)
    BY <1>9, SlotOfIsSlot DEF TailRest
<1>10. CASE TailEnd(th)
    BY <1>10, SlotOfIsSlot DEF TailEnd
<1>11. CASE EmptyLoadPosition(th)
    <2>1. /\ pc[th] = "empty_load" /\ pc' = [pc EXCEPT ![th] = "empty_slot"]
          /\ index' = [index EXCEPT ![th] = m_put_position] /\ i' = [i EXCEPT ![th] = 0]
          /\ UNCHANGED <<memory, clientVars, item, listVars>>
        BY <1>11 DEF EmptyLoadPosition
    <2>2. TypeOK'
        BY <2>1
    <2>3. LocalsSet'
        BY <2>1
    <2> QED BY <2>2, <2>3
<1>12. CASE EmptyStore(th)
    BY <1>12, SlotOfIsSlot DEF EmptyStore
<1>13. CASE EmptyOccupied(th)
    BY <1>13, SlotOfIsSlot DEF EmptyOccupied
<1>14. CASE EmptyReload(th)
    <2>1. PICK p \in Nat, k \in 0 .. BUFFER_SIZE - 1 :
            index' = [index EXCEPT ![th] = p] /\ i' = [i EXCEPT ![th] = k]
        <3>1. CASE Moved(th, m_put_position)
            BY <1>14, <3>1 DEF EmptyReload, GoOn
        <3>2. CASE ~Moved(th, m_put_position)
            <4>1. i[th] + 1 \in 0 .. BUFFER_SIZE - 1
                BY <1>14, <3>2 DEF EmptyReload, NoSlotLeft
            <4>2. index' = [index EXCEPT ![th] = index[th]]
                BY <1>14, <3>2 DEF EmptyReload, GoOn
            <4> QED
                BY <1>14, <3>2, <4>1, <4>2 DEF EmptyReload, GoOn
        <3> QED BY <3>1, <3>2
    <2>2. TypeOK'
        BY <1>14, <2>1 DEF EmptyReload
    <2>3. LocalsSet'
        BY <1>14, <2>1 DEF EmptyReload
    <2> QED BY <2>2, <2>3
<1>15. CASE EmptyNoSlot(th)
    <2>1. next' \in [Item -> Item \cup {Null}]
        BY <1>15 DEF EmptyNoSlot
    <2>2. /\ pc[th] = "empty_reload" /\ pc' = [pc EXCEPT ![th] = "occupied_advance"]
          /\ list' = [list EXCEPT ![th] = stored[th]] /\ stored' = [stored EXCEPT ![th] = Null]
          /\ BeginLoop(th, 0) /\ back' = [back EXCEPT ![th] = "get_return"]
          /\ UNCHANGED <<bufferVars, m_head, clientVars, item, count, old_list>>
        BY <1>15 DEF EmptyNoSlot
    <2>3. TypeOK'
        BY <2>1, <2>2
    <2>4. LocalsSet'
        BY <2>2
    <2> QED BY <2>3, <2>4
<1>16. CASE EmptyAdvance(th)
    <2>1. (m_put_position + i[th] + 1) % Positions \in 0 .. Positions - 1
        <3>1. m_put_position + i[th] + 1 \in Nat
            OBVIOUS
        <3> QED BY <3>1, ModInRange
    <2>2. /\ pc[th] = "empty_advance" /\ pc' = [pc EXCEPT ![th] = back[th]]
          /\ BeginLoop(th, 0) /\ back' = [back EXCEPT ![th] = "get_return"]
          /\ UNCHANGED <<m_buffer, m_get_position, m_head, next, clientVars,
                         item, list, stored, count, old_list>>
        BY <1>16 DEF EmptyAdvance
    <2>3. m_put_position' \in 0 .. Positions - 1
        BY <1>16, <2>1 DEF EmptyAdvance
    <2>4. TypeOK'
        BY <2>2, <2>3
    <2>5. LocalsSet'
        BY <2>2
    <2> QED BY <2>4, <2>5
<1>17. CASE OccupiedAdvance(th)
    <2>1. (m_put_position + 1) % Positions \in 0 .. Positions - 1
        <3>1. m_put_position + 1 \in Nat
            OBVIOUS
        <3> QED BY <3>1, ModInRange
    <2> QED BY <1>17, <2>1 DEF OccupiedAdvance
<1>18. CASE OccupiedExchange(th)
    BY <1>18, SlotOfIsSlot DEF OccupiedExchange
<1>19. CASE OccupiedWasEmpty(th)
    BY <1>19, SlotOfIsSlot DEF OccupiedWasEmpty
<1>20. CASE OccupiedStore(th)
    BY <1>20, SlotOfIsSlot DEF OccupiedStore
<1>21. CASE OccupiedChanged(th)
    BY <1>21, SlotOfIsSlot DEF OccupiedChanged
<1>22. CASE PriorityLoadPosition(th)
    <2>1. /\ pc[th] = "priority_load" /\ pc' = [pc EXCEPT ![th] = "priority_slot"]
          /\ index' = [index EXCEPT ![th] = m_get_position] /\ i' = [i EXCEPT ![th] = 0]
          /\ UNCHANGED <<memory, clientVars, item, listVars>>
        BY <1>22 DEF PriorityLoadPosition
    <2>2. TypeOK'
        BY <2>1
    <2>3. LocalsSet'
        BY <2>1
    <2> QED BY <2>2, <2>3
<1>23. CASE PriorityLoadSlot(th)
    BY <1>23, SlotOfIsSlot DEF PriorityLoadSlot
<1>24. CASE PriorityStore(th)
    <2>1. m_buffer' \in [Slot -> Item \cup {Null}]
        BY <1>24 DEF PriorityStore
    <2>2. held' \in [Thread -> SUBSET Item]
        BY <1>24 DEF PriorityStore
    <2>3. TypeOK'
        BY <1>24, <2>1, <2>2, ReturnKeepsTypes DEF PriorityStore
    <2>4. LocalsSet'
        BY <1>24, ReturnKeepsLocals DEF PriorityStore
    <2> QED BY <2>3, <2>4
<1>25. CASE PriorityChanged(th)
    BY <1>25, SlotOfIsSlot DEF PriorityChanged
<1> QED
    BY <1>1, <1>2, <1>3, <1>4, <1>5, <1>6, <1>7, <1>8, <1>9, <1>10, <1>11, <1>12, <1>13,
         <1>14, <1>15, <1>16, <1>17, <1>18, <1>19, <1>20, <1>21, <1>22, <1>23, <1>24,
         <1>25 DEF BufferStep

\* A step in a LockFreeStack keeps it.
LEMMA StackStepKeepsInv ==
    ASSUME Inv, NEW th \in Thread, StackStep(th)
    PROVE  Inv'
<1> USE DEF Inv, TypeOK, LocalsSet, PC, SlotLoops, Holding, BeginLoop
<1>1. CASE PushLoad(th)
    BY <1>1 DEF PushLoad
<1>2. CASE PushStore(th)
    <2>1. m_head' \in [Stack -> Item \cup {Null}]
        BY <1>2 DEF PushStore
    <2>2. held' \in [Thread -> SUBSET Item]
        BY <1>2 DEF PushStore
    <2>3. TypeOK'
        BY <1>2, <2>1, <2>2, ReturnKeepsTypes DEF PushStore
    <2>4. LocalsSet'
        BY <1>2, ReturnKeepsLocals DEF PushStore
    <2> QED BY <2>3, <2>4
<1>3. CASE PushChanged(th)
    BY <1>3 DEF PushChanged
<1>4. CASE PopList(th)
    BY <1>4 DEF PopList
<1>5. CASE PopNothing(th)
    BY <1>5 DEF PopNothing
<1> QED
    BY <1>1, <1>2, <1>3, <1>4, <1>5 DEF StackStep

\* The calls of the clients, and the end of a get_item() that finds nothing, keep it.
LEMMA CallKeepsInv ==
    ASSUME Inv, NEW th \in Thread, Call(th) \/ GetNothing(th)
    PROVE  Inv'
<1> USE DEF Inv, TypeOK, LocalsSet, PC, SlotLoops, Holding, Excuses
<1>1. CASE CallGet(th)
    BY <1>1 DEF CallGet
<1>2. CASE PutInBuffer(th)
    <2>1. PICK x \in held[th] : item' = [item EXCEPT ![th] = x]
        BY <1>2 DEF PutInBuffer
    <2>2. x \in Item /\ excused' \in [Thread -> BOOLEAN]
        BY <1>2, <2>1 DEF PutInBuffer
    <2>3. TypeOK'
        BY <1>2, <2>1, <2>2 DEF PutInBuffer
    <2>4. LocalsSet'
        BY <1>2, <2>1, <2>2 DEF PutInBuffer
    <2> QED BY <2>3, <2>4
<1>3. CASE PutInStack(th)
    <2>1. PICK x \in held[th], prio \in Nat \ {0} :
            /\ item' = [item EXCEPT ![th] = x]
            /\ index' = [index EXCEPT ![th] = IF prio >= QUEUE_COUNT THEN QUEUE_COUNT ELSE prio]
        BY <1>3 DEF PutInStack
    <2>2. x \in Item /\ excused' \in [Thread -> BOOLEAN]
        BY <1>3, <2>1 DEF PutInStack
    <2>3. PICK k \in Stack : index' = [index EXCEPT ![th] = k]
        <3>1. (IF prio >= QUEUE_COUNT THEN QUEUE_COUNT ELSE prio) \in Stack
            OBVIOUS
        <3> QED BY <2>1, <3>1
    <2>4. pc' = [pc EXCEPT ![th] = "push_load"] /\ UNCHANGED <<memory, held, listVars, i>>
        BY <1>3 DEF PutInStack
    <2>5. TypeOK'
        BY <2>1, <2>2, <2>3, <2>4
    <2>6. LocalsSet'
        BY <2>1, <2>2, <2>3, <2>4
    <2> QED BY <2>5, <2>6
<1>4. CASE GetNothing(th)
    <2>1. TypeOK'
        BY <1>4, ReturnKeepsTypes DEF GetNothing
    <2>2. LocalsSet'
        BY <1>4, ReturnKeepsLocals DEF GetNothing
    <2> QED BY <2>1, <2>2
<1> QED
    BY <1>1, <1>2, <1>3, <1>4 DEF Call

-----------------------------------------------------------------------------
\* Whatever threads interleave in it, the queue keeps slots, heads and links that
\* are items or null, and stays inside its slots and stacks; the loop of
\* store_tail() (bound_buffer.hpp:166) ends after BUFFER_SIZE - 1 items.
THEOREM QueueTypeCorrect == Spec => []TypeOK
<1>1. Init => Inv
    BY DEF Init, Inv, TypeOK, LocalsSet, PC, SlotLoops, Holding
<1>2. Inv /\ [Next]_vars => Inv'
    <2>1. Inv /\ UNCHANGED vars => Inv'
        BY DEF vars, Inv, TypeOK, LocalsSet
    <2> QED
        BY <2>1, BufferStepKeepsInv, StackStepKeepsInv, CallKeepsInv DEF Next, Work
<1>3. Inv => TypeOK
    BY DEF Inv
<1> QED
    BY <1>1, <1>2, <1>3, PTL DEF Spec

-----------------------------------------------------------------------------
(* The lists                                                               *)

PoolProofs == INSTANCE ItemPoolProofs

SlotItems(s) == ListOf(m_buffer[s])
StackItems(k) == ListOf(m_head[k])
OldItems(th) == ListOf(old_list[th])

\* A put that is not over: its item is still with the client.
Putting == {"priority_load", "priority_slot", "priority_cas", "push_load", "push_cas"}
Storing == {"empty_load", "empty_slot", "empty_reload"}

\* Which of its locals a thread uses at a control point; the others are null.  The
\* rest of a list is in list while store_tail() stores one item of it.
LocalsUsed(th) ==
    /\ old_list[th] # Null <=> pc[th] = "occupied_cas"
    /\ stored[th] # Null <=> pc[th] \in Storing
    /\ back[th] = "store_tail" => pc[th] \in Storing \cup {"empty_advance"}
    /\ back[th] = "store_tail" /\ stored[th] # Null => next[stored[th]] = Null
    /\ list[th] # Null =>
         \/ pc[th] \in {"store_tail", "occupied_advance", "occupied_slot", "occupied_cas"}
         \/ back[th] = "store_tail"
    /\ item[th] # Null <=> Getting(th) \/ pc[th] \in Putting
    /\ pc[th] \in Putting => item[th] \in held[th]

\* What a get_item() has of its own are chains apart; at the compare-and-swap list[th]
\* is only what the slot had.
OwnLists(th) ==
    /\ Chain(next, stored[th])
    /\ pc[th] = "get_advance" => Chain(next, next[item[th]])
    /\ pc[th] # "occupied_cas" =>
         Chain(next, list[th]) /\ ListOf(list[th]) \cap ListOf(stored[th]) = {}
    /\ Getting(th) => item[th] \notin Tail(th)

\* The lists of the queue are chains, and no item is in two of them.
QueueLists ==
    /\ \A s \in Slot : Chain(next, m_buffer[s])
    /\ \A k \in Stack : Chain(next, m_head[k])
    /\ \A th \in Thread : Chain(next, old_list[th])
    /\ \A s, t \in Slot : \A x \in SlotItems(s) \cap SlotItems(t) : s = t
    /\ \A k, l \in Stack : \A x \in StackItems(k) \cap StackItems(l) : k = l
    /\ \A t, u \in Thread : \A x \in OldItems(t) \cap OldItems(u) : t = u
    /\ \A s \in Slot : \A k \in Stack : SlotItems(s) \cap StackItems(k) = {}
    /\ \A s \in Slot : \A u \in Thread : SlotItems(s) \cap OldItems(u) = {}
    /\ \A k \in Stack : \A u \in Thread : StackItems(k) \cap OldItems(u) = {}

Shape ==
    /\ Inv
    /\ \A th \in Thread : LocalsUsed(th) /\ OwnLists(th)
    /\ QueueLists
    /\ PoolProofs!EachItemOnce
    /\ ReturnsSingle

-----------------------------------------------------------------------------
\* What the lists come to in ItemPool.
LEMMA PoolMembers ==
    /\ \A x : x \in pool <=> \/ \E s \in Slot : x \in SlotItems(s)
                             \/ \E k \in Stack : x \in StackItems(k)
                             \/ \E th \in Thread : x \in OldItems(th)
    /\ \A x : x \in pool' <=> \/ \E s \in Slot : x \in SlotItems(s)'
                              \/ \E k \in Stack : x \in StackItems(k)'
                              \/ \E th \in Thread : x \in OldItems(th)'
BY DEF pool, Lists, SlotItems, StackItems, OldItems

\* What a slot, a stack or a taken list holds counts for the abstract pool.
LEMMA ListsInPool ==
    /\ \A s \in Slot : SlotItems(s) \subseteq pool
    /\ \A k \in Stack : StackItems(k) \subseteq pool
    /\ \A th \in Thread : OldItems(th) \subseteq pool
BY PoolMembers

\* The abstract state has the types of ItemPool.
LEMMA PoolTypes ==
    ASSUME Inv PROVE PoolProofs!TypeOK
<1>1. pool \in SUBSET Item
    BY PoolMembers, ItemsAreItems DEF SlotItems, StackItems, OldItems, ListOf
<1>2. \A th \in Thread : Kept(th) \in SUBSET Item
    BY DEF Kept, Getting, Inv, LocalsSet, Holding
<1>3. \A th \in Thread : Tail(th) \in SUBSET Item
    BY ItemsAreItems DEF Tail, ListOf
<1>4. batch \in [Thread -> SUBSET Item]
    BY <1>2, <1>3 DEF batch
<1> QED BY <1>1, <1>4 DEF Inv, TypeOK, PoolProofs!TypeOK

\* An item is in the pool or with one thread only.
LEMMA ItemsApart ==
    ASSUME Shape, NEW th \in Thread
    PROVE  /\ pool \cap (batch[th] \cup held[th]) = {} /\ batch[th] \cap held[th] = {}
           /\ \A u \in Thread \ {th} : (batch[th] \cup held[th]) \cap (batch[u] \cup held[u]) = {}
<1>1. PoolProofs!TypeOK
    BY PoolTypes DEF Shape
<1> QED BY <1>1 DEF Shape, PoolProofs!EachItemOnce, PoolProofs!With, PoolProofs!TypeOK

-----------------------------------------------------------------------------
(* What a step leaves alone                                                *)

\* A step of a thread does not touch the locals of another.
LEMMA OthersKeepLocals ==
    ASSUME Inv, NEW th \in Thread, Work(th) \/ Call(th), NEW u \in Thread \ {th}
    PROVE  /\ pc'[u] = pc[u] /\ item'[u] = item[u] /\ list'[u] = list[u] /\ back'[u] = back[u]
           /\ stored'[u] = stored[u] /\ old_list'[u] = old_list[u] /\ held'[u] = held[u]
<1> USE DEF Inv, TypeOK, LocalsSet, Return, BeginLoop, GoOn
<1>1. CASE BufferStep(th)
    BY <1>1 DEF BufferStep, GetLoadPosition, GetExchange, GetExchangeEmpty, GetReload, GetNoItem,
        GetAdvance, GetReturn, TailItem, TailRest, TailEnd, EmptyLoadPosition, EmptyStore,
        EmptyOccupied, EmptyReload, EmptyNoSlot, EmptyAdvance, OccupiedAdvance,
        OccupiedExchange, OccupiedWasEmpty, OccupiedStore, OccupiedChanged,
        PriorityLoadPosition, PriorityLoadSlot, PriorityStore, PriorityChanged
<1>2. CASE StackStep(th)
    BY <1>2 DEF StackStep, PushLoad, PushStore, PushChanged, PopList, PopNothing
<1>3. CASE GetNothing(th) \/ Call(th)
    BY <1>3 DEF GetNothing, Call, CallGet, PutInBuffer, PutInStack
<1> QED BY <1>1, <1>2, <1>3 DEF Work

\* Nor what another get_item() has of its own, when it changes links of other items only.
LEMMA OthersKeepLists ==
    ASSUME Shape, Inv', NEW u \in Thread,
           pc'[u] = pc[u] /\ item'[u] = item[u] /\ list'[u] = list[u] /\ back'[u] = back[u],
           stored'[u] = stored[u] /\ old_list'[u] = old_list[u] /\ held'[u] = held[u],
           \A y \in batch[u] \cup held[u] : next'[y] = next[y]
    PROVE  /\ LocalsUsed(u)' /\ OwnLists(u)'
           /\ Kept(u)' = Kept(u) /\ Tail(u)' = Tail(u)
           /\ \A x \in held[u] \ {item[u]} : next'[x] = Null
<1>1. next \in Link /\ next' \in Link
    BY DEF Shape, Inv, TypeOK, Link
<1>2. Kept(u) \subseteq batch[u] /\ Tail(u) \subseteq batch[u]
    BY DEF batch
<1>3. LocalsUsed(u) /\ OwnLists(u)
    BY DEF Shape
<1>4. pc[u] \in Storing => stored[u] \in batch[u]
    <2>1. pc[u] \in Storing => stored[u] \in Item
        BY <1>3 DEF LocalsUsed, Shape, Inv, TypeOK
    <2>2. stored[u] \in Item => stored[u] \in ItemsFrom(next, stored[u])
        BY <1>1, FirstInItems
    <2> QED BY <1>2, <2>1, <2>2 DEF Tail, ListOf, Storing
<1>5. LocalsUsed(u)'
    BY <1>3, <1>4 DEF LocalsUsed, Getting
<1>6. /\ ItemsFrom(next', stored[u]) = ItemsFrom(next, stored[u]) /\ Chain(next', stored[u])
    <2>1. ItemsFrom(next, stored[u]) \subseteq batch[u]
        BY <1>1, <1>2, <1>3, NullHasNoItems DEF LocalsUsed, Storing, Tail, ListOf
    <2> QED BY <1>1, <1>3, <2>1, SameLinks DEF OwnLists
<1>7. pc[u] # "occupied_cas" =>
        ItemsFrom(next', list[u]) = ItemsFrom(next, list[u]) /\ Chain(next', list[u])
    <2>1. pc[u] # "occupied_cas" => ItemsFrom(next, list[u]) \subseteq batch[u]
        BY <1>1, <1>2, <1>3, NullHasNoItems DEF LocalsUsed, Storing, Tail, ListOf
    <2> QED BY <1>1, <1>3, <2>1, SameLinks DEF OwnLists
<1>8. pc[u] = "get_advance" =>
        /\ next'[item[u]] = next[item[u]]
        /\ ItemsFrom(next', next[item[u]]) = ItemsFrom(next, next[item[u]])
        /\ Chain(next', next[item[u]])
    <2>1. pc[u] = "get_advance" => item[u] \in batch[u]
        BY <1>2 DEF Kept, Getting
    <2>2. pc[u] = "get_advance" => ItemsFrom(next, next[item[u]]) \subseteq batch[u]
        BY <1>2 DEF Tail, ListOf
    <2> QED BY <1>1, <1>3, <2>1, <2>2, SameLinks DEF OwnLists
<1>9. Kept(u)' = Kept(u) /\ Tail(u)' = Tail(u)
    BY <1>6, <1>7, <1>8 DEF Kept, Tail, ListOf, Getting
<1>10. OwnLists(u)'
    BY <1>3, <1>6, <1>7, <1>8, <1>9 DEF OwnLists, ListOf, Getting
<1>11. \A x \in held[u] \ {item[u]} : next'[x] = Null
    BY DEF Shape, ReturnsSingle
<1> QED BY <1>5, <1>9, <1>10, <1>11

\* The lists of the queue stay when their first items do and the links of their items do.
LEMMA QueueKeepsLists ==
    ASSUME Shape, Inv', UNCHANGED <<m_buffer, m_head, old_list>>,
           \A y \in pool : next'[y] = next[y]
    PROVE  QueueLists' /\ pool' = pool
<1>1. next \in Link /\ next' \in Link
    BY DEF Shape, Inv, TypeOK, Link
<1>2. \A s \in Slot : SlotItems(s)' = SlotItems(s) /\ Chain(next', m_buffer[s])
    BY <1>1, ListsInPool, SameLinks DEF Shape, QueueLists, SlotItems, ListOf
<1>3. \A k \in Stack : StackItems(k)' = StackItems(k) /\ Chain(next', m_head[k])
    BY <1>1, ListsInPool, SameLinks DEF Shape, QueueLists, StackItems, ListOf
<1>4. \A th \in Thread : OldItems(th)' = OldItems(th) /\ Chain(next', old_list[th])
    BY <1>1, ListsInPool, SameLinks DEF Shape, QueueLists, OldItems, ListOf
<1>5. QueueLists'
    BY <1>2, <1>3, <1>4 DEF Shape, QueueLists
<1>6. pool' = pool
    <2>1. \A x : x \in pool' <=> x \in pool
        BY <1>2, <1>3, <1>4, PoolMembers
    <2> QED BY <2>1
<1> QED BY <1>5, <1>6

-----------------------------------------------------------------------------
(* A step, from what it does to the lists of its own thread                *)

\* What th has itself after its step, and the queue.
Keeps(th) ==
    /\ LocalsUsed(th)' /\ OwnLists(th)' /\ QueueLists'
    /\ \A x \in held'[th] \ {item'[th]} : next'[x] = Null

\* Only links that no other thread relies on change.
LinksOf(th) == \A y \in Item \ (pool \cup batch[th] \cup held[th]) : next'[y] = next[y]

\* What the other threads own is not disturbed, in the terms of the abstract state.
LEMMA OthersKeep ==
    ASSUME Shape, Inv', NEW th \in Thread, Work(th) \/ Call(th), LinksOf(th)
    PROVE  /\ batch' = [batch EXCEPT ![th] = Kept(th)' \cup Tail(th)']
           /\ \A u \in Thread \ {th} :
                /\ LocalsUsed(u)' /\ OwnLists(u)' /\ held'[u] = held[u]
                /\ \A x \in held'[u] \ {item'[u]} : next'[x] = Null
<1>1. ASSUME NEW u \in Thread \ {th}
      PROVE  /\ LocalsUsed(u)' /\ OwnLists(u)' /\ held'[u] = held[u]
             /\ \A x \in held'[u] \ {item'[u]} : next'[x] = Null
             /\ Kept(u)' = Kept(u) /\ Tail(u)' = Tail(u)
    <2>1. PoolProofs!TypeOK
        BY PoolTypes DEF Shape
    <2>2. \A y \in batch[u] \cup held[u] : y \in Item \ (pool \cup batch[th] \cup held[th])
        BY <2>1, ItemsApart DEF PoolProofs!TypeOK
    <2>3. \A y \in batch[u] \cup held[u] : next'[y] = next[y]
        BY <2>2 DEF LinksOf
    <2>4. /\ pc'[u] = pc[u] /\ item'[u] = item[u] /\ list'[u] = list[u] /\ back'[u] = back[u]
          /\ stored'[u] = stored[u] /\ old_list'[u] = old_list[u] /\ held'[u] = held[u]
        BY OthersKeepLocals DEF Shape
    <2>5. /\ LocalsUsed(u)' /\ OwnLists(u)'
          /\ Kept(u)' = Kept(u) /\ Tail(u)' = Tail(u)
          /\ \A x \in held[u] \ {item[u]} : next'[x] = Null
        BY <2>3, <2>4, OthersKeepLists
    <2> QED BY <2>4, <2>5
<1>2. batch' = [batch EXCEPT ![th] = Kept(th)' \cup Tail(th)']
    <2>1. \A u \in Thread \ {th} : Kept(u)' \cup Tail(u)' = Kept(u) \cup Tail(u)
        BY <1>1
    <2> QED BY <2>1 DEF batch
<1> QED BY <1>1, <1>2

\* What is left to show of a step: its own part, and that it is a step of ItemPool.
LEMMA StepKeepsShape ==
    ASSUME Shape, Inv', NEW th \in Thread, Work(th) \/ Call(th), LinksOf(th), Keeps(th),
           [PoolProofs!Next]_<<pool, batch, held>>
    PROVE  Shape'
<1>1. \A u \in Thread : LocalsUsed(u)' /\ OwnLists(u)'
    BY OthersKeep DEF Keeps
<1>2. ReturnsSingle'
    BY OthersKeep DEF Keeps, ReturnsSingle
<1>3. PoolProofs!EachItemOnce'
    <2>1. PoolProofs!Inv
        BY PoolTypes DEF Shape, PoolProofs!Inv
    <2> QED BY <2>1, PoolProofs!InvStep DEF PoolProofs!Inv
<1> QED BY <1>1, <1>2, <1>3 DEF Shape, Keeps

\* The thread goes on without a link or a list of the queue changed, and what it has
\* taken out is the same.
LEMMA QuietStep ==
    ASSUME Shape, Inv', NEW th \in Thread, Work(th) \/ Call(th),
           UNCHANGED <<m_buffer, m_head, old_list, next, held>>,
           LocalsUsed(th)', OwnLists(th)', Kept(th)' \cup Tail(th)' = Kept(th) \cup Tail(th),
           item'[th] = item[th] \/ item[th] = Null
    PROVE  LinksOf(th) /\ Keeps(th) /\ UNCHANGED <<pool, batch, held>>
<1>1. LinksOf(th)
    BY DEF LinksOf
<1>2. QueueLists' /\ pool' = pool
    BY QueueKeepsLists
<1>3. \A x \in held'[th] \ {item'[th]} : next'[x] = Null
    BY DEF Shape, ReturnsSingle, Inv, TypeOK
<1>4. batch' = batch
    BY <1>1, OthersKeep DEF batch
<1> QED BY <1>1, <1>2, <1>3, <1>4 DEF Keeps

-----------------------------------------------------------------------------
(* The steps that ItemPool does not see                                    *)

\* The loops over slots and stacks keep what the thread has of its own.
Looping(th) ==
    \/ GetLoadPosition(th) \/ GetExchangeEmpty(th) \/ GetReload(th) \/ GetNoItem(th)
    \/ TailRest(th) \/ TailEnd(th) \/ EmptyLoadPosition(th) \/ EmptyOccupied(th)
    \/ EmptyReload(th) \/ OccupiedAdvance(th) \/ PriorityLoadPosition(th)
    \/ PopNothing(th) \/ CallGet(th)

\* A step from slot to slot, or from stack to stack, finds nothing and changes no list.
LEMMA LoopKeeps ==
    ASSUME Shape, Inv', NEW th \in Thread, Looping(th)
    PROVE  LinksOf(th) /\ Keeps(th) /\ UNCHANGED <<pool, batch, held>>
<1> DEFINE Own == <<item[th], list[th], stored[th], back[th]>>
           Edge(from, to) == pc[th] = from /\ pc'[th] = to
           Edges == \/ Edge("get_load", "get_slot") \/ Edge("get_slot", "get_reload")
                    \/ Edge("get_reload", "get_slot") \/ Edge("get_reload", "pop")
                    \/ Edge("store_tail", "occupied_advance")
                    \/ Edge("store_tail", "get_return") /\ list[th] = Null
                    \/ Edge("empty_load", "empty_slot") \/ Edge("empty_slot", "empty_reload")
                    \/ Edge("empty_reload", "empty_slot")
                    \/ Edge("occupied_advance", "occupied_slot")
                    \/ Edge("priority_load", "priority_slot")
                    \/ Edge("pop", "pop") \/ Edge("idle", "get_load")
           Unchanged == UNCHANGED <<m_buffer, m_head, old_list, next, held>>
<1>1. Work(th) \/ Call(th)
    BY DEF Looping, Work, Call, BufferStep, StackStep
<1>2. Own' = Own /\ Unchanged
    BY DEF Looping, GetLoadPosition, GetExchangeEmpty, GetReload, GetNoItem, TailRest, TailEnd,
        EmptyLoadPosition, EmptyOccupied, EmptyReload, OccupiedAdvance,
        PriorityLoadPosition, PopNothing, CallGet, BeginLoop, GoOn
<1>3. Edges
    <2>1. pc \in [Thread -> PC]
        BY DEF Shape, Inv, LocalsSet
    <2> QED
        BY <2>1 DEF Looping, GetLoadPosition, GetExchangeEmpty, GetReload, GetNoItem,
             TailRest, TailEnd,
            EmptyLoadPosition, EmptyOccupied, EmptyReload, OccupiedAdvance,
            PriorityLoadPosition, PopNothing, CallGet
<1>4. LocalsUsed(th) /\ OwnLists(th)
    BY DEF Shape
<1>5. LocalsUsed(th)'
    BY <1>2, <1>3, <1>4 DEF LocalsUsed, Getting, Putting, Storing
<1>6. OwnLists(th)' /\ Kept(th)' = Kept(th) /\ Tail(th)' = Tail(th)
    BY <1>2, <1>3, <1>4 DEF OwnLists, Chain, Kept, Tail, ListOf, Getting
<1> QED BY <1>1, <1>2, <1>5, <1>6, QuietStep


\* The item is the first of what is now the list of its own.
LEMMA AdvanceKeeps ==
    ASSUME Shape, Inv', NEW th \in Thread, GetAdvance(th)
    PROVE  LinksOf(th) /\ Keeps(th) /\ UNCHANGED <<pool, batch, held>>
<1>1. Work(th)
    BY DEF Work, BufferStep
<1>2. /\ pc[th] = "get_advance"
      /\ pc'[th] = IF next[item[th]] = Null THEN "get_return" ELSE "store_tail"
      /\ list'[th] = next[item[th]]
      /\ <<item[th], stored[th], back[th]>>' = <<item[th], stored[th], back[th]>>
      /\ UNCHANGED <<m_buffer, m_head, old_list, next, held>>
    BY DEF GetAdvance, Shape, Inv, TypeOK, LocalsSet
<1>3. LocalsUsed(th) /\ OwnLists(th) /\ next \in Link
    BY DEF Shape, Inv, TypeOK, Link
<1>4. LocalsUsed(th)'
    BY <1>2, <1>3 DEF LocalsUsed, Getting, Putting, Storing
<1>5. stored[th] = Null /\ ListOf(stored[th]) = {}
    BY <1>2, <1>3, NullHasNoItems DEF LocalsUsed, Storing, ListOf
<1>6. Kept(th)' = Kept(th) /\ Tail(th)' = Tail(th)
    BY <1>2, <1>5 DEF Kept, Tail, ListOf, Getting
<1>7. OwnLists(th)'
    BY <1>2, <1>3, <1>5, <1>6 DEF OwnLists, Chain, ListOf, Getting
<1> QED BY <1>1, <1>2, <1>4, <1>6, <1>7, QuietStep

\* An item of the rest is stored; what follows it is still in list.
LEMMA EmptyAdvanceKeeps ==
    ASSUME Shape, Inv', NEW th \in Thread, EmptyAdvance(th)
    PROVE  LinksOf(th) /\ Keeps(th) /\ UNCHANGED <<pool, batch, held>>
<1>1. Work(th)
    BY DEF Work, BufferStep
<1>2. /\ pc[th] = "empty_advance" /\ pc'[th] = back[th] /\ back'[th] = "get_return"
      /\ <<item[th], list[th], stored[th]>>' = <<item[th], list[th], stored[th]>>
      /\ UNCHANGED <<m_buffer, m_head, old_list, next, held>>
    BY DEF EmptyAdvance, Shape, Inv, TypeOK, LocalsSet
<1>3. LocalsUsed(th) /\ OwnLists(th) /\ back[th] \in {"store_tail", "get_return"}
    BY DEF Shape, Inv, TypeOK
<1>4. LocalsUsed(th)'
    BY <1>2, <1>3 DEF LocalsUsed, Getting, Putting, Storing
<1>5. Kept(th)' = Kept(th) /\ Tail(th)' = Tail(th)
    BY <1>2, <1>3 DEF Kept, Tail, ListOf, Getting
<1>6. OwnLists(th)'
    BY <1>2, <1>3, <1>5 DEF OwnLists, Chain, ListOf, Getting
<1> QED BY <1>1, <1>2, <1>4, <1>5, <1>6, QuietStep

\* The compare-and-swap fails: list is what the slot has now, and not the thread's own.
LEMMA OccupiedChangedKeeps ==
    ASSUME Shape, Inv', NEW th \in Thread, OccupiedChanged(th)
    PROVE  LinksOf(th) /\ Keeps(th) /\ UNCHANGED <<pool, batch, held>>
<1>1. Work(th)
    BY DEF Work, BufferStep
<1>2. /\ pc[th] = "occupied_cas" /\ pc'[th] = "occupied_cas"
      /\ <<item[th], stored[th], back[th]>>' = <<item[th], stored[th], back[th]>>
      /\ UNCHANGED <<m_buffer, m_head, old_list, next, held>>
    BY DEF OccupiedChanged, Shape, Inv, TypeOK, LocalsSet
<1>3. LocalsUsed(th) /\ OwnLists(th)
    BY DEF Shape
<1>4. LocalsUsed(th)'
    BY <1>2, <1>3 DEF LocalsUsed, Getting, Putting, Storing
<1>5. Kept(th)' = Kept(th) /\ Tail(th)' = Tail(th)
    BY <1>2 DEF Kept, Tail, Getting
<1>6. OwnLists(th)'
    BY <1>2, <1>3, <1>5 DEF OwnLists, Chain, ListOf, Getting
<1> QED BY <1>1, <1>2, <1>4, <1>5, <1>6, QuietStep

\* A put begins with an item of the client's, and a get_item() ends without one.
LEMMA PutOrNothingKeeps ==
    ASSUME Shape, Inv', NEW th \in Thread,
           PutInBuffer(th) \/ PutInStack(th) \/ GetNothing(th)
    PROVE  LinksOf(th) /\ Keeps(th) /\ UNCHANGED <<pool, batch, held>>
<1>1. Work(th) \/ Call(th)
    BY DEF Work, Call
<1>2. /\ \/ pc[th] = "idle" /\ pc'[th] \in {"priority_load", "push_load"} /\ item'[th] \in held[th]
         \/ pc[th] = "pop" /\ pc'[th] = "idle" /\ item'[th] = Null
      /\ list'[th] = list[th] \/ list'[th] = Null
      /\ <<stored[th], back[th]>>' = <<stored[th], back[th]>>
      /\ UNCHANGED <<m_buffer, m_head, old_list, next, held>>
    BY DEF PutInBuffer, PutInStack, GetNothing, Return, Shape, Inv, TypeOK, LocalsSet
<1>3. LocalsUsed(th) /\ OwnLists(th) /\ next \in Link /\ held[th] \in SUBSET Item
    BY DEF Shape, Inv, TypeOK, Link
<1>4. /\ item[th] = Null /\ stored[th] = Null /\ list[th] = Null
      /\ back[th] # "store_tail" /\ old_list[th] = Null
    BY <1>2, <1>3 DEF LocalsUsed, Getting, Putting, Storing
<1>5. LocalsUsed(th)'
    BY <1>2, <1>3, <1>4 DEF LocalsUsed, Getting, Putting, Storing
<1>6. Kept(th)' = Kept(th) /\ Tail(th)' = Tail(th)
    BY <1>2, <1>4 DEF Kept, Tail, ListOf, Getting
<1>7. OwnLists(th)'
    BY <1>2, <1>3, <1>4, <1>6 DEF OwnLists, Chain, ListOf, Getting
<1> QED BY <1>1, <1>2, <1>4, <1>5, <1>6, <1>7, QuietStep


\* A put links its item to what it has read: nobody else has the item.
Linking(th) ==
    PriorityLoadSlot(th) \/ PriorityChanged(th) \/ PushLoad(th) \/ PushChanged(th)

\* A thread links its own item, which nobody else sees yet, to the list it will put it on.
LEMMA LinkingKeeps ==
    ASSUME Shape, Inv', NEW th \in Thread, Linking(th)
    PROVE  LinksOf(th) /\ Keeps(th) /\ UNCHANGED <<pool, batch, held>>
<1>1. Work(th)
    BY DEF Linking, Work, BufferStep, StackStep
<1>2. /\ \/ pc[th] \in {"priority_slot", "priority_cas"} /\ pc'[th] = "priority_cas"
         \/ pc[th] \in {"push_load", "push_cas"} /\ pc'[th] = "push_cas"
      /\ <<item[th], list[th], stored[th], back[th]>>' = <<item[th], list[th], stored[th], back[th]>>
      /\ UNCHANGED <<m_buffer, m_head, old_list, held>>
      /\ \A y \in Item \ {item[th]} : next'[y] = next[y]
    BY DEF Linking, PriorityLoadSlot, PriorityChanged, PushLoad, PushChanged, Shape, Inv,
         TypeOK, LocalsSet
<1>3. /\ LocalsUsed(th) /\ OwnLists(th) /\ next \in Link /\ next' \in Link
      /\ held[th] \in SUBSET Item
    BY DEF Shape, Inv, TypeOK, Link
<1>4. /\ stored[th] = Null /\ list[th] = Null
      /\ back[th] # "store_tail" /\ item[th] \in held[th]
    BY <1>2, <1>3 DEF LocalsUsed, Getting, Putting, Storing
<1>5. ItemsFrom(next, Null) = {} /\ ItemsFrom(next', Null) = {}
    BY <1>3, NullHasNoItems
<1>6. LocalsUsed(th)'
    BY <1>2, <1>3, <1>4 DEF LocalsUsed, Getting, Putting, Storing
<1>7. Kept(th)' \cup Tail(th)' = {} /\ Kept(th) \cup Tail(th) = {}
    BY <1>2, <1>4, <1>5 DEF Kept, Tail, ListOf, Getting
<1>8. OwnLists(th)'
    BY <1>2, <1>4, <1>5 DEF OwnLists, Chain, ListOf, Getting
<1>9. LinksOf(th)
    BY <1>2, <1>4 DEF LinksOf
<1>10. QueueLists' /\ pool' = pool
    <2>1. \A y \in pool : next'[y] = next[y]
        BY <1>2, <1>4, ItemsApart, PoolTypes DEF Shape, PoolProofs!TypeOK
    <2> QED BY <1>2, <2>1, QueueKeepsLists
<1>11. \A x \in held'[th] \ {item'[th]} : next'[x] = Null
    BY <1>2, <1>3 DEF Shape, ReturnsSingle
<1>12. batch' = batch
    BY <1>1, <1>7, <1>9, OthersKeep DEF batch
<1> QED BY <1>2, <1>6, <1>8, <1>9, <1>10, <1>11, <1>12 DEF Keeps

\* get_item() returns: the item is the client's, without a link.
LEMMA ReturnKeeps ==
    ASSUME Shape, Inv', NEW th \in Thread, GetReturn(th)
    PROVE  LinksOf(th) /\ Keeps(th) /\ PoolProofs!KeepFirst(th)
<1>1. Work(th)
    BY DEF Work, BufferStep
<1>2. /\ pc[th] = "get_return" /\ pc'[th] = "idle" /\ item'[th] = Null /\ list'[th] = Null
      /\ <<stored[th], back[th]>>' = <<stored[th], back[th]>>
      /\ UNCHANGED <<m_buffer, m_head, old_list>>
      /\ held' = [held EXCEPT ![th] = @ \cup {item[th]}]
      /\ next' = [next EXCEPT ![item[th]] = Null]
    BY DEF GetReturn, Return, Shape, Inv, TypeOK, LocalsSet
<1>3. /\ LocalsUsed(th) /\ OwnLists(th) /\ next \in Link /\ next' \in Link
      /\ held \in [Thread -> SUBSET Item]
    BY DEF Shape, Inv, TypeOK, Link
<1>4. /\ stored[th] = Null /\ list[th] = Null /\ old_list[th] = Null
      /\ back[th] # "store_tail" /\ item[th] # Null /\ item[th] \in Item
    BY <1>2, <1>3 DEF LocalsUsed, Getting, Putting, Storing, Shape, Inv, TypeOK
<1>5. ItemsFrom(next, Null) = {} /\ ItemsFrom(next', Null) = {}
    BY <1>3, NullHasNoItems
<1>6. LocalsUsed(th)'
    BY <1>2, <1>3, <1>4 DEF LocalsUsed, Getting, Putting, Storing
<1>7. Kept(th)' \cup Tail(th)' = {} /\ Kept(th) \cup Tail(th) = {item[th]}
    BY <1>2, <1>4, <1>5 DEF Kept, Tail, ListOf, Getting
<1>8. batch[th] = {item[th]}
    BY <1>7 DEF batch
<1>9. OwnLists(th)'
    BY <1>2, <1>4, <1>5 DEF OwnLists, Chain, ListOf, Getting
<1>10. \A y \in Item \ {item[th]} : next'[y] = next[y]
    BY <1>2, <1>3
<1>11. LinksOf(th)
    BY <1>8, <1>10 DEF LinksOf
<1>12. QueueLists' /\ pool' = pool
    <2>1. \A y \in pool : next'[y] = next[y]
        BY <1>8, <1>10, ItemsApart, PoolTypes DEF Shape, PoolProofs!TypeOK
    <2> QED BY <1>2, <2>1, QueueKeepsLists
<1>13. \A x \in held'[th] \ {item'[th]} : next'[x] = Null
    <2>1. held'[th] = held[th] \cup {item[th]} /\ held[th] \in SUBSET Item
        BY <1>2, <1>3
    <2>2. next'[item[th]] = Null
        BY <1>2, <1>3, <1>4 DEF Link
    <2>3. \A x \in held[th] \ {item[th]} : next[x] = Null
        BY DEF Shape, ReturnsSingle
    <2> QED BY <1>10, <2>1, <2>2, <2>3
<1>14. batch' = [batch EXCEPT ![th] = {}]
    BY <1>1, <1>7, <1>11, OthersKeep
<1> QED BY <1>2, <1>6, <1>8, <1>9, <1>11, <1>12, <1>13, <1>14 DEF Keeps, PoolProofs!KeepFirst


-----------------------------------------------------------------------------
(* The lists of the queue, when one of them is replaced                    *)

\* A list is the same when its first item and the links of its items are.
LEMMA PlacesKeep ==
    ASSUME Shape, Inv'
    PROVE  /\ \A s \in Slot :
                m_buffer'[s] = m_buffer[s] /\ (\A y \in SlotItems(s) : next'[y] = next[y])
                => SlotItems(s)' = SlotItems(s) /\ Chain(next', m_buffer'[s])
           /\ \A k \in Stack :
                m_head'[k] = m_head[k] /\ (\A y \in StackItems(k) : next'[y] = next[y])
                => StackItems(k)' = StackItems(k) /\ Chain(next', m_head'[k])
           /\ \A u \in Thread :
                old_list'[u] = old_list[u] /\ (\A y \in OldItems(u) : next'[y] = next[y])
                => OldItems(u)' = OldItems(u) /\ Chain(next', old_list'[u])
<1>1. next \in Link /\ next' \in Link
    BY DEF Shape, Inv, TypeOK, Link
<1> QED BY <1>1, SameLinks DEF Shape, QueueLists, SlotItems, StackItems, OldItems, ListOf

\* A slot gets another list, and old_list with it: what was in either and in neither of
\* the new ones is out of the queue.
LEMMA SlotReplaced ==
    ASSUME Shape, Inv', NEW s \in Slot, NEW th \in Thread, NEW R,
           R = pool \ (SlotItems(s) \cup OldItems(th)),
           \A t \in Slot \ {s} : m_buffer'[t] = m_buffer[t],
           \A u \in Thread \ {th} : old_list'[u] = old_list[u],
           UNCHANGED m_head,
           \A y \in R : next'[y] = next[y],
           Chain(next', m_buffer'[s]), Chain(next', old_list'[th]),
           SlotItems(s)' \cap R = {}, OldItems(th)' \cap R = {},
           SlotItems(s)' \cap OldItems(th)' = {}
    PROVE  QueueLists' /\ pool' = R \cup SlotItems(s)' \cup OldItems(th)'
<1>0. QueueLists
    BY DEF Shape
<1>1. /\ \A t \in Slot \ {s} : SlotItems(t) \subseteq R
      /\ \A k \in Stack : StackItems(k) \subseteq R
      /\ \A u \in Thread \ {th} : OldItems(u) \subseteq R
    BY <1>0, ListsInPool DEF QueueLists
<1>2. /\ \A t \in Slot \ {s} : SlotItems(t)' = SlotItems(t) /\ Chain(next', m_buffer'[t])
      /\ \A k \in Stack : StackItems(k)' = StackItems(k) /\ Chain(next', m_head'[k])
      /\ \A u \in Thread \ {th} : OldItems(u)' = OldItems(u) /\ Chain(next', old_list'[u])
    BY <1>1, PlacesKeep
<1>3. QueueLists'
    <2>1. /\ \A t \in Slot : Chain(next', m_buffer'[t])
          /\ \A k \in Stack : Chain(next', m_head'[k])
          /\ \A u \in Thread : Chain(next', old_list'[u])
        BY <1>2
    <2>2. /\ \A t, u \in Slot : \A x \in SlotItems(t)' \cap SlotItems(u)' : t = u
          /\ \A k, l \in Stack : \A x \in StackItems(k)' \cap StackItems(l)' : k = l
          /\ \A t, u \in Thread : \A x \in OldItems(t)' \cap OldItems(u)' : t = u
        BY <1>0, <1>1, <1>2 DEF QueueLists
    <2>3. \A t \in Slot : \A k \in Stack : SlotItems(t)' \cap StackItems(k)' = {}
        BY <1>0, <1>1, <1>2 DEF QueueLists
    <2>4. \A t \in Slot : \A u \in Thread : SlotItems(t)' \cap OldItems(u)' = {}
        BY <1>0, <1>1, <1>2 DEF QueueLists
    <2>5. \A k \in Stack : \A u \in Thread : StackItems(k)' \cap OldItems(u)' = {}
        BY <1>0, <1>1, <1>2 DEF QueueLists
    <2> QED BY <2>1, <2>2, <2>3, <2>4, <2>5 DEF QueueLists
<1>4. pool' = R \cup SlotItems(s)' \cup OldItems(th)'
    <2>1. \A x : x \in pool' <=> x \in R \cup SlotItems(s)' \cup OldItems(th)'
        BY <1>1, <1>2, PoolMembers
    <2> QED BY <2>1
<1> QED BY <1>3, <1>4

\* A stack gets another list.
LEMMA StackReplaced ==
    ASSUME Shape, Inv', NEW k \in Stack, NEW R,
           R = pool \ StackItems(k),
           \A l \in Stack \ {k} : m_head'[l] = m_head[l],
           UNCHANGED <<m_buffer, old_list>>,
           \A y \in R : next'[y] = next[y],
           Chain(next', m_head'[k]), StackItems(k)' \cap R = {}
    PROVE  QueueLists' /\ pool' = R \cup StackItems(k)'
<1>0. QueueLists
    BY DEF Shape
<1>1. /\ \A t \in Slot : SlotItems(t) \subseteq R
      /\ \A l \in Stack \ {k} : StackItems(l) \subseteq R
      /\ \A u \in Thread : OldItems(u) \subseteq R
    BY <1>0, ListsInPool DEF QueueLists
<1>2. /\ \A t \in Slot : SlotItems(t)' = SlotItems(t) /\ Chain(next', m_buffer'[t])
      /\ \A l \in Stack \ {k} : StackItems(l)' = StackItems(l) /\ Chain(next', m_head'[l])
      /\ \A u \in Thread : OldItems(u)' = OldItems(u) /\ Chain(next', old_list'[u])
    BY <1>1, PlacesKeep
<1>3. QueueLists'
    <2>1. /\ \A t \in Slot : Chain(next', m_buffer'[t])
          /\ \A l \in Stack : Chain(next', m_head'[l])
          /\ \A u \in Thread : Chain(next', old_list'[u])
        BY <1>2
    <2>2. /\ \A t, u \in Slot : \A x \in SlotItems(t)' \cap SlotItems(u)' : t = u
          /\ \A m, l \in Stack : \A x \in StackItems(m)' \cap StackItems(l)' : m = l
          /\ \A t, u \in Thread : \A x \in OldItems(t)' \cap OldItems(u)' : t = u
        BY <1>0, <1>1, <1>2 DEF QueueLists
    <2>3. \A t \in Slot : \A l \in Stack : SlotItems(t)' \cap StackItems(l)' = {}
        BY <1>0, <1>1, <1>2 DEF QueueLists
    <2>4. \A t \in Slot : \A u \in Thread : SlotItems(t)' \cap OldItems(u)' = {}
        BY <1>0, <1>1, <1>2 DEF QueueLists
    <2>5. \A l \in Stack : \A u \in Thread : StackItems(l)' \cap OldItems(u)' = {}
        BY <1>0, <1>1, <1>2 DEF QueueLists
    <2> QED BY <2>1, <2>2, <2>3, <2>4, <2>5 DEF QueueLists
<1>4. pool' = R \cup StackItems(k)'
    <2>1. \A x : x \in pool' <=> x \in R \cup StackItems(k)'
        BY <1>1, <1>2, PoolMembers
    <2> QED BY <2>1
<1> QED BY <1>3, <1>4


-----------------------------------------------------------------------------
(* The steps of ItemPool                                                   *)

\* get_item() takes the list out of a slot.
LEMMA ExchangeKeeps ==
    ASSUME Shape, Inv', NEW th \in Thread, GetExchange(th)
    PROVE  LinksOf(th) /\ Keeps(th) /\ PoolProofs!TakeList(th)
<1>0. PICK s \in Slot : s = SlotOf(th)
    BY SlotOfIsSlot DEF Shape
<1> DEFINE x == m_buffer[s]
<1>1. Work(th)
    BY DEF Work, BufferStep
<1>2. /\ pc[th] = "get_slot" /\ pc'[th] = "get_advance" /\ x # Null
      /\ <<list[th], stored[th], back[th]>>' = <<list[th], stored[th], back[th]>>
      /\ UNCHANGED <<m_head, old_list, next, held>>
      /\ item'[th] = x /\ m_buffer' = [m_buffer EXCEPT ![s] = Null]
    BY <1>0 DEF GetExchange, Shape, Inv, TypeOK, LocalsSet
<1>3. /\ LocalsUsed(th) /\ OwnLists(th) /\ next \in Link
      /\ x \in Item /\ m_buffer'[s] = Null
      /\ \A t \in Slot \ {s} : m_buffer'[t] = m_buffer[t]
    BY <1>1, <1>2 DEF Shape, Inv, TypeOK, Link
<1>4. /\ stored[th] = Null /\ list[th] = Null /\ old_list[th] = Null
      /\ back[th] # "store_tail" /\ item[th] = Null
    BY <1>2, <1>3 DEF LocalsUsed, Getting, Putting, Storing
<1>5. ItemsFrom(next, Null) = {}
    BY <1>3, NullHasNoItems
<1>6. /\ SlotItems(s) = {x} \cup ItemsFrom(next, next[x])
      /\ Chain(next, next[x]) /\ x \notin ItemsFrom(next, next[x])
    BY <1>1, <1>3, FirstAndRest, TakeFirst DEF SlotItems, ListOf, Shape, QueueLists
<1>7. LocalsUsed(th)'
    BY <1>2, <1>3, <1>4 DEF LocalsUsed, Getting, Putting, Storing
<1>8. Kept(th) \cup Tail(th) = {} /\ Kept(th)' = {x} /\ Tail(th)' = ItemsFrom(next, next[x])
    BY <1>2, <1>4, <1>5 DEF Kept, Tail, ListOf, Getting
<1>9. OwnLists(th)'
    BY <1>2, <1>4, <1>5, <1>6, <1>8 DEF OwnLists, Chain, ListOf, Getting
<1>10. LinksOf(th) /\ \A y \in held'[th] \ {item'[th]} : next'[y] = Null
    BY <1>2, <1>4 DEF LinksOf, Shape, ReturnsSingle, Inv, TypeOK
<1>11. QueueLists' /\ pool' = pool \ SlotItems(s)
    <2>1. SlotItems(s)' = {} /\ OldItems(th) = {} /\ OldItems(th)' = {}
        BY <1>2, <1>3, <1>4, <1>5 DEF SlotItems, OldItems, ListOf
    <2>2. Chain(next', m_buffer'[s]) /\ Chain(next', old_list'[th])
        BY <1>2, <1>3, <1>4, <1>5 DEF Chain
    <2>3. PICK R : R = pool \ (SlotItems(s) \cup OldItems(th))
        OBVIOUS
    <2>4. QueueLists' /\ pool' = R \cup SlotItems(s)' \cup OldItems(th)'
        BY <1>2, <1>3, <2>1, <2>2, <2>3, SlotReplaced
    <2> QED BY <2>1, <2>3, <2>4
<1>12. batch' = [batch EXCEPT ![th] = SlotItems(s)] /\ batch[th] = {}
    BY <1>1, <1>6, <1>8, <1>10, OthersKeep DEF batch
<1>13. SlotItems(s) \in (SUBSET pool) \ {{}}
    <2>1. SlotItems(s) \subseteq pool
        BY ListsInPool
    <2>2. SlotItems(s) # {}
        BY <1>6
    <2> QED BY <2>1, <2>2
<1> QED BY <1>2, <1>7, <1>9, <1>10, <1>11, <1>12, <1>13 DEF Keeps, PoolProofs!TakeList

\* get_item() takes the list of a stack.
LEMMA PopKeeps ==
    ASSUME Shape, Inv', NEW th \in Thread, PopList(th)
    PROVE  LinksOf(th) /\ Keeps(th) /\ PoolProofs!TakeList(th)
<1>0. PICK k \in Stack : k = i[th] + 1
    BY DEF PopList, Shape, Inv, TypeOK, LocalsSet
<1> DEFINE x == m_head[k]
<1>1. Work(th)
    BY DEF Work, StackStep
<1>2. /\ pc[th] = "pop" /\ pc'[th] = (IF next[x] = Null THEN "get_return" ELSE "empty_load")
      /\ x # Null
      /\ <<list[th], back[th]>>' = <<list[th], back[th]>>
      /\ UNCHANGED <<m_buffer, old_list, next, held>>
      /\ item'[th] = x /\ stored'[th] = next[x] /\ m_head' = [m_head EXCEPT ![k] = Null]
    BY <1>0 DEF PopList, Shape, Inv, TypeOK, LocalsSet
<1>3. /\ LocalsUsed(th) /\ OwnLists(th) /\ next \in Link
      /\ x \in Item /\ m_head'[k] = Null
      /\ \A l \in Stack \ {k} : m_head'[l] = m_head[l]
    BY <1>1, <1>2 DEF Shape, Inv, TypeOK, Link
<1>4. /\ stored[th] = Null /\ list[th] = Null
      /\ back[th] # "store_tail" /\ item[th] = Null
    BY <1>2, <1>3 DEF LocalsUsed, Getting, Putting, Storing
<1>5. ItemsFrom(next, Null) = {}
    BY <1>3, NullHasNoItems
<1>6. /\ StackItems(k) = {x} \cup ItemsFrom(next, next[x])
      /\ Chain(next, next[x]) /\ x \notin ItemsFrom(next, next[x])
    BY <1>1, <1>3, FirstAndRest, TakeFirst DEF StackItems, ListOf, Shape, QueueLists
<1>7. LocalsUsed(th)'
    BY <1>2, <1>3, <1>4 DEF LocalsUsed, Getting, Putting, Storing
<1>8. Kept(th) \cup Tail(th) = {} /\ Kept(th)' = {x} /\ Tail(th)' = ItemsFrom(next, next[x])
    BY <1>2, <1>4, <1>5 DEF Kept, Tail, ListOf, Getting
<1>9. OwnLists(th)'
    BY <1>2, <1>4, <1>5, <1>6, <1>8 DEF OwnLists, Chain, ListOf, Getting
<1>10. LinksOf(th) /\ \A y \in held'[th] \ {item'[th]} : next'[y] = Null
    BY <1>2, <1>4 DEF LinksOf, Shape, ReturnsSingle, Inv, TypeOK
<1>11. QueueLists' /\ pool' = pool \ StackItems(k)
    <2>1. StackItems(k)' = {} /\ Chain(next', m_head'[k])
        BY <1>2, <1>3, <1>5 DEF StackItems, ListOf, Chain
    <2>2. PICK R : R = pool \ StackItems(k)
        OBVIOUS
    <2>3. QueueLists' /\ pool' = R \cup StackItems(k)'
        BY <1>2, <1>3, <2>1, <2>2, StackReplaced
    <2> QED BY <2>1, <2>2, <2>3
<1>12. batch' = [batch EXCEPT ![th] = StackItems(k)] /\ batch[th] = {}
    BY <1>1, <1>6, <1>8, <1>10, OthersKeep DEF batch
<1>13. StackItems(k) \in (SUBSET pool) \ {{}}
    <2>1. StackItems(k) \subseteq pool
        BY ListsInPool
    <2>2. StackItems(k) # {}
        BY <1>6
    <2> QED BY <2>1, <2>2
<1> QED BY <1>2, <1>7, <1>9, <1>10, <1>11, <1>12, <1>13 DEF Keeps, PoolProofs!TakeList


\* store_in_empty_slot() has found a slot for the list.
LEMMA EmptyStoreKeeps ==
    ASSUME Shape, Inv', NEW th \in Thread, EmptyStore(th)
    PROVE  LinksOf(th) /\ Keeps(th) /\ PoolProofs!StoreTail(th)
<1>0. PICK s \in Slot : s = SlotOf(th)
    BY SlotOfIsSlot DEF Shape
<1> DEFINE v == stored[th]
<1>1. Work(th)
    BY DEF Work, BufferStep
<1>2. /\ pc[th] = "empty_slot" /\ pc'[th] = "empty_advance" /\ m_buffer[s] = Null
      /\ <<item[th], list[th], back[th]>>' = <<item[th], list[th], back[th]>>
      /\ UNCHANGED <<m_head, old_list, next, held>>
      /\ stored'[th] = Null /\ m_buffer' = [m_buffer EXCEPT ![s] = v]
    BY <1>0 DEF EmptyStore, Shape, Inv, TypeOK, LocalsSet
<1>3. /\ LocalsUsed(th) /\ OwnLists(th) /\ next \in Link
      /\ m_buffer'[s] = v
      /\ \A t \in Slot \ {s} : m_buffer'[t] = m_buffer[t]
    BY <1>2 DEF Shape, Inv, TypeOK, Link
<1>4. old_list[th] = Null
    BY <1>2, <1>3 DEF LocalsUsed
<1>5. ItemsFrom(next, Null) = {}
    BY <1>3, NullHasNoItems
<1>6. /\ Kept(th) = {item[th]} /\ Tail(th) = ItemsFrom(next, list[th]) \cup ItemsFrom(next, v)
      /\ Kept(th)' = {item[th]} /\ Tail(th)' = ItemsFrom(next, list[th])
    BY <1>2, <1>5 DEF Kept, Tail, ListOf, Getting
<1>7. /\ item[th] \notin Tail(th) /\ Chain(next, v)
      /\ ItemsFrom(next, list[th]) \cap ItemsFrom(next, v) = {}
    BY <1>2, <1>3 DEF OwnLists, ListOf, Getting
<1>8. LocalsUsed(th)'
    BY <1>2, <1>3 DEF LocalsUsed, Getting, Putting, Storing
<1>9. OwnLists(th)'
    BY <1>2, <1>3, <1>5, <1>6, <1>7 DEF OwnLists, Chain, ListOf, Getting
<1>10. LinksOf(th) /\ \A y \in held'[th] \ {item'[th]} : next'[y] = Null
    BY <1>2 DEF LinksOf, Shape, ReturnsSingle
<1>11. ItemsFrom(next, v) \in SUBSET batch[th] /\ ItemsFrom(next, v) # batch[th]
    BY <1>6, <1>7 DEF batch
<1>12. QueueLists' /\ pool' = pool \cup ItemsFrom(next, v)
    <2>1. /\ SlotItems(s) = {} /\ OldItems(th) = {} /\ OldItems(th)' = {}
          /\ SlotItems(s)' = ItemsFrom(next, v)
        BY <1>2, <1>3, <1>4, <1>5 DEF SlotItems, OldItems, ListOf
    <2>2. Chain(next', m_buffer'[s]) /\ Chain(next', old_list'[th])
        BY <1>2, <1>3, <1>4, <1>5, <1>7 DEF Chain
    <2>3. PICK R : R = pool \ (SlotItems(s) \cup OldItems(th))
        OBVIOUS
    <2>4. ItemsFrom(next, v) \cap R = {}
        BY <1>11, <2>3, ItemsApart
    <2>5. QueueLists' /\ pool' = R \cup SlotItems(s)' \cup OldItems(th)'
        BY <1>2, <1>3, <2>1, <2>2, <2>3, <2>4, SlotReplaced
    <2> QED BY <2>1, <2>3, <2>5
<1>13. batch' = [batch EXCEPT ![th] = @ \ ItemsFrom(next, v)]
    BY <1>1, <1>6, <1>7, <1>10, OthersKeep DEF batch
<1> QED BY <1>2, <1>8, <1>9, <1>10, <1>11, <1>12, <1>13 DEF Keeps, PoolProofs!StoreTail

\* store_in_occupied_slot() exchanges the list with the list of a slot, or with nothing.
LEMMA OccupiedExchangeKeeps ==
    ASSUME Shape, Inv', NEW th \in Thread, OccupiedExchange(th) \/ OccupiedWasEmpty(th)
    PROVE  LinksOf(th) /\ Keeps(th) /\ PoolProofs!StoreTail(th)
<1>0. PICK s \in Slot : s = SlotOf(th)
    BY SlotOfIsSlot DEF Shape
<1> DEFINE v == list[th]
<1>1. Work(th)
    BY DEF Work, BufferStep
<1>2. /\ pc[th] = "occupied_slot"
      /\ \/ pc'[th] = "occupied_cas" /\ list'[th] = v /\ m_buffer[s] # Null
         \/ pc'[th] = "get_return" /\ list'[th] = Null /\ m_buffer[s] = Null
      /\ <<item[th], stored[th], back[th]>>' = <<item[th], stored[th], back[th]>>
      /\ UNCHANGED <<m_head, next, held>>
      /\ \A u \in Thread \ {th} : old_list'[u] = old_list[u]
      /\ m_buffer' = [m_buffer EXCEPT ![s] = v]
    BY <1>0 DEF OccupiedExchange, OccupiedWasEmpty, Shape, Inv, TypeOK, LocalsSet
<1>3. /\ LocalsUsed(th) /\ OwnLists(th) /\ next \in Link
      /\ m_buffer'[s] = v
      /\ \A t \in Slot \ {s} : m_buffer'[t] = m_buffer[t]
    BY <1>2 DEF Shape, Inv, TypeOK, Link
<1>4. old_list[th] = Null /\ old_list'[th] = m_buffer[s] /\ stored[th] = Null /\ back[th] # "store_tail"
    <2>1. old_list[th] = Null /\ stored[th] = Null /\ back[th] # "store_tail"
        BY <1>2, <1>3 DEF LocalsUsed, Storing
    <2> QED BY <1>0, <2>1 DEF OccupiedExchange, OccupiedWasEmpty, Shape, Inv, TypeOK
<1>5. ItemsFrom(next, Null) = {}
    BY <1>3, NullHasNoItems
<1>6. /\ Kept(th) = {item[th]} /\ Tail(th) = ItemsFrom(next, v)
      /\ Kept(th)' = {item[th]} /\ Tail(th)' = {}
    BY <1>2, <1>4, <1>5 DEF Kept, Tail, ListOf, Getting
<1>7. item[th] \notin Tail(th) /\ Chain(next, v)
    BY <1>2, <1>3 DEF OwnLists, ListOf, Getting
<1>8. LocalsUsed(th)'
    BY <1>2, <1>3, <1>4 DEF LocalsUsed, Getting, Putting, Storing
<1>9. OwnLists(th)'
    BY <1>2, <1>3, <1>4, <1>5, <1>6 DEF OwnLists, Chain, ListOf, Getting
<1>10. LinksOf(th) /\ \A y \in held'[th] \ {item'[th]} : next'[y] = Null
    BY <1>2 DEF LinksOf, Shape, ReturnsSingle
<1>11. ItemsFrom(next, v) \in SUBSET batch[th] /\ ItemsFrom(next, v) # batch[th]
    BY <1>6, <1>7 DEF batch
<1>12. QueueLists' /\ pool' = pool \cup ItemsFrom(next, v)
    <2>1. /\ OldItems(th) = {} /\ OldItems(th)' = SlotItems(s)
          /\ SlotItems(s)' = ItemsFrom(next, v)
        BY <1>2, <1>3, <1>4, <1>5 DEF SlotItems, OldItems, ListOf
    <2>2. Chain(next', m_buffer'[s]) /\ Chain(next', old_list'[th])
        BY <1>2, <1>3, <1>4, <1>7 DEF Chain, Shape, QueueLists
    <2>3. PICK R : R = pool \ (SlotItems(s) \cup OldItems(th))
        OBVIOUS
    <2>4. ItemsFrom(next, v) \cap pool = {} /\ SlotItems(s) \subseteq pool
        BY <1>11, ItemsApart, ListsInPool
    <2>5. QueueLists' /\ pool' = R \cup SlotItems(s)' \cup OldItems(th)'
        BY <1>2, <1>3, <2>1, <2>2, <2>3, <2>4, SlotReplaced
    <2> QED BY <2>1, <2>3, <2>4, <2>5
<1>13. batch' = [batch EXCEPT ![th] = @ \ ItemsFrom(next, v)]
    BY <1>1, <1>6, <1>7, <1>10, OthersKeep DEF batch
<1> QED BY <1>2, <1>8, <1>9, <1>10, <1>11, <1>12, <1>13 DEF Keeps, PoolProofs!StoreTail


\* put_priority_item() puts the item before the list of a slot.
LEMMA PriorityStoreKeeps ==
    ASSUME Shape, Inv', NEW th \in Thread, PriorityStore(th)
    PROVE  LinksOf(th) /\ Keeps(th) /\ PoolProofs!Put(th)
<1>0. PICK k \in Slot : k = SlotOf(th)
    BY SlotOfIsSlot DEF Shape
<1> DEFINE x == item[th]
<1>1. Work(th)
    BY DEF Work, BufferStep, StackStep
<1>2. /\ pc[th] = "priority_cas" /\ pc'[th] = "idle"
      /\ item'[th] = Null /\ list'[th] = Null
      /\ <<stored[th], back[th]>>' = <<stored[th], back[th]>>
      /\ UNCHANGED <<m_head, old_list, next>>
      /\ held' = [held EXCEPT ![th] = @ \ {x}]
      /\ m_buffer[k] = next[x] /\ m_buffer' = [m_buffer EXCEPT ![k] = x]
    BY <1>0 DEF PriorityStore, Return, Shape, Inv, TypeOK, LocalsSet
<1>3. /\ LocalsUsed(th) /\ OwnLists(th) /\ next \in Link
      /\ m_buffer'[k] = x
      /\ \A l \in Slot \ {k} : m_buffer'[l] = m_buffer[l]
      /\ held \in [Thread -> SUBSET Item]
    BY <1>2 DEF Shape, Inv, TypeOK, Link
<1>4. /\ stored[th] = Null /\ list[th] = Null /\ old_list[th] = Null
      /\ back[th] # "store_tail" /\ x \in held[th] /\ x \in Item
    BY <1>2, <1>3 DEF LocalsUsed, Getting, Putting, Storing
<1>5. ItemsFrom(next, Null) = {}
    BY <1>3, NullHasNoItems
<1>6. ItemsFrom(next, x) = {x} \cup SlotItems(k) /\ Chain(next, x)
    <2>1. x \notin SlotItems(k)
        BY <1>4, ItemsApart, ListsInPool
    <2> QED BY <1>2, <1>3, <1>4, <2>1, PutFirst DEF SlotItems, ListOf, Shape, QueueLists
<1>7. Kept(th) \cup Tail(th) = {} /\ Kept(th)' \cup Tail(th)' = {}
    BY <1>2, <1>4, <1>5 DEF Kept, Tail, ListOf, Getting
<1>8. LocalsUsed(th)'
    BY <1>2, <1>3, <1>4 DEF LocalsUsed, Getting, Putting, Storing
<1>9. OwnLists(th)'
    BY <1>2, <1>4, <1>5 DEF OwnLists, Chain, ListOf, Getting
<1>10. LinksOf(th)
    BY <1>2 DEF LinksOf
<1>11. \A y \in held'[th] \ {item'[th]} : next'[y] = Null
    BY <1>2, <1>3 DEF Shape, ReturnsSingle
<1>12. QueueLists' /\ pool' = pool \cup {x}
    <2>1. /\ OldItems(th) = {} /\ OldItems(th)' = {}
          /\ SlotItems(k)' = {x} \cup SlotItems(k)
        BY <1>2, <1>3, <1>4, <1>5, <1>6 DEF SlotItems, OldItems, ListOf
    <2>2. Chain(next', m_buffer'[k]) /\ Chain(next', old_list'[th])
        BY <1>2, <1>3, <1>4, <1>5, <1>6 DEF Chain
    <2>3. PICK R : R = pool \ (SlotItems(k) \cup OldItems(th))
        OBVIOUS
    <2>4. x \notin pool /\ SlotItems(k) \subseteq pool
        BY <1>4, ItemsApart, ListsInPool
    <2>5. QueueLists' /\ pool' = R \cup SlotItems(k)' \cup OldItems(th)'
        BY <1>2, <1>3, <2>1, <2>2, <2>3, <2>4, SlotReplaced
    <2> QED BY <2>1, <2>3, <2>4, <2>5
<1>13. batch' = batch
    BY <1>1, <1>7, <1>10, OthersKeep DEF batch
<1> QED BY <1>2, <1>4, <1>8, <1>9, <1>10, <1>11, <1>12, <1>13 DEF Keeps, PoolProofs!Put

\* push() puts it before the list of a stack.
LEMMA PushStoreKeeps ==
    ASSUME Shape, Inv', NEW th \in Thread, PushStore(th)
    PROVE  LinksOf(th) /\ Keeps(th) /\ PoolProofs!Put(th)
<1>0. PICK k \in Stack : k = index[th]
    BY DEF PushStore, Shape, Inv, LocalsSet
<1> DEFINE x == item[th]
<1>1. Work(th)
    BY DEF Work, BufferStep, StackStep
<1>2. /\ pc[th] = "push_cas" /\ pc'[th] = "idle"
      /\ item'[th] = Null /\ list'[th] = Null
      /\ <<stored[th], back[th]>>' = <<stored[th], back[th]>>
      /\ UNCHANGED <<m_buffer, old_list, next>>
      /\ held' = [held EXCEPT ![th] = @ \ {x}]
      /\ m_head[k] = next[x] /\ m_head' = [m_head EXCEPT ![k] = x]
    BY <1>0 DEF PushStore, Return, Shape, Inv, TypeOK, LocalsSet
<1>3. /\ LocalsUsed(th) /\ OwnLists(th) /\ next \in Link
      /\ m_head'[k] = x
      /\ \A l \in Stack \ {k} : m_head'[l] = m_head[l]
      /\ held \in [Thread -> SUBSET Item]
    BY <1>2 DEF Shape, Inv, TypeOK, Link
<1>4. /\ stored[th] = Null /\ list[th] = Null /\ old_list[th] = Null
      /\ back[th] # "store_tail" /\ x \in held[th] /\ x \in Item
    BY <1>2, <1>3 DEF LocalsUsed, Getting, Putting, Storing
<1>5. ItemsFrom(next, Null) = {}
    BY <1>3, NullHasNoItems
<1>6. ItemsFrom(next, x) = {x} \cup StackItems(k) /\ Chain(next, x)
    <2>1. x \notin StackItems(k)
        BY <1>4, ItemsApart, ListsInPool
    <2> QED BY <1>2, <1>3, <1>4, <2>1, PutFirst DEF StackItems, ListOf, Shape, QueueLists
<1>7. Kept(th) \cup Tail(th) = {} /\ Kept(th)' \cup Tail(th)' = {}
    BY <1>2, <1>4, <1>5 DEF Kept, Tail, ListOf, Getting
<1>8. LocalsUsed(th)'
    BY <1>2, <1>3, <1>4 DEF LocalsUsed, Getting, Putting, Storing
<1>9. OwnLists(th)'
    BY <1>2, <1>4, <1>5 DEF OwnLists, Chain, ListOf, Getting
<1>10. LinksOf(th)
    BY <1>2 DEF LinksOf
<1>11. \A y \in held'[th] \ {item'[th]} : next'[y] = Null
    BY <1>2, <1>3 DEF Shape, ReturnsSingle
<1>12. QueueLists' /\ pool' = pool \cup {x}
    <2>1. StackItems(k)' = {x} \cup StackItems(k)
        BY <1>2, <1>3, <1>6 DEF StackItems, ListOf
    <2>2. Chain(next', m_head'[k])
        BY <1>2, <1>3, <1>6
    <2>3. PICK R : R = pool \ StackItems(k)
        OBVIOUS
    <2>4. x \notin pool /\ StackItems(k) \subseteq pool
        BY <1>4, ItemsApart, ListsInPool
    <2>5. QueueLists' /\ pool' = R \cup StackItems(k)'
        BY <1>2, <1>3, <2>1, <2>2, <2>3, <2>4, StackReplaced
    <2> QED BY <2>1, <2>3, <2>4, <2>5
<1>13. batch' = batch
    BY <1>1, <1>7, <1>10, OthersKeep DEF batch
<1> QED BY <1>2, <1>4, <1>8, <1>9, <1>10, <1>11, <1>12, <1>13 DEF Keeps, PoolProofs!Put

-----------------------------------------------------------------------------
(* The steps that only link                                                *)

\* store_tail() takes the first item of the rest, to store it alone.
LEMMA TailItemKeeps ==
    ASSUME Shape, Inv', NEW th \in Thread, TailItem(th)
    PROVE  LinksOf(th) /\ Keeps(th) /\ UNCHANGED <<pool, batch, held>>
<1> DEFINE y == list[th]
<1>1. Work(th)
    BY DEF Work, BufferStep
<1>2. /\ pc[th] = "store_tail" /\ pc'[th] = "empty_load" /\ y # Null
      /\ item'[th] = item[th] /\ stored'[th] = y /\ list'[th] = next[y] /\ back'[th] = "store_tail"
      /\ UNCHANGED <<m_buffer, m_head, old_list, held>>
      /\ next' = [next EXCEPT ![y] = Null]
    BY DEF TailItem, Shape, Inv, TypeOK, LocalsSet
<1>3. /\ LocalsUsed(th) /\ OwnLists(th) /\ next \in Link /\ next' \in Link /\ y \in Item
      /\ next'[y] = Null /\ \A z \in Item \ {y} : next'[z] = next[z]
    BY <1>2 DEF Shape, Inv, TypeOK, Link
<1>4. stored[th] = Null /\ Chain(next, y) /\ ItemsFrom(next, Null) = {} /\ ItemsFrom(next', Null) = {}
    BY <1>2, <1>3, NullHasNoItems DEF LocalsUsed, OwnLists, Storing
<1>5. /\ ItemsFrom(next, y) = {y} \cup ItemsFrom(next, next[y])
      /\ Chain(next, next[y]) /\ y \notin ItemsFrom(next, next[y])
    BY <1>3, <1>4, FirstAndRest, TakeFirst
<1>6. ItemsFrom(next', next[y]) = ItemsFrom(next, next[y]) /\ Chain(next', next[y])
    <2>1. \A z \in ItemsFrom(next, next[y]) : next'[z] = next[z]
        BY <1>3, <1>5, ItemsAreItems
    <2> QED BY <1>3, <1>5, <2>1, SameLinks
<1>7. ItemsFrom(next', y) = {y} /\ Chain(next', y)
    <2>1. Chain(next', next'[y]) /\ y \notin ItemsFrom(next', next'[y])
        BY <1>3, <1>4 DEF Chain
    <2> QED BY <1>3, <1>4, <2>1, PutFirst
<1>8. /\ Kept(th) = {item[th]} /\ Tail(th) = ItemsFrom(next, y)
      /\ Kept(th)' = {item[th]} /\ Tail(th)' = ItemsFrom(next, y)
    BY <1>2, <1>4, <1>5, <1>6, <1>7 DEF Kept, Tail, ListOf, Getting
<1>9. LocalsUsed(th)'
    BY <1>2, <1>3 DEF LocalsUsed, Getting, Putting, Storing
<1>10. OwnLists(th)'
    <2>1. item[th] \notin Tail(th)
        BY <1>2, <1>3 DEF OwnLists, Getting
    <2>2. ItemsFrom(next', next[y]) \cap ItemsFrom(next', y) = {}
        BY <1>5, <1>6, <1>7
    <2>3. (item[th] \notin Tail(th))'
        BY <1>2, <1>8, <2>1
    <2> QED BY <1>2, <1>6, <1>7, <2>2, <2>3 DEF OwnLists, ListOf
<1>11. y \in batch[th]
    BY <1>5, <1>8 DEF batch
<1>12. LinksOf(th)
    BY <1>3, <1>11 DEF LinksOf
<1>13. QueueLists' /\ pool' = pool
    <2>1. \A z \in pool : next'[z] = next[z]
        BY <1>3, <1>11, ItemsApart, PoolTypes DEF Shape, PoolProofs!TypeOK
    <2> QED BY <1>2, <2>1, QueueKeepsLists
<1>14. \A z \in held'[th] \ {item'[th]} : next'[z] = Null
    BY <1>2, <1>3 DEF Shape, ReturnsSingle, Inv, TypeOK
<1>15. batch' = batch
    BY <1>1, <1>8, <1>12, OthersKeep DEF batch
<1> QED BY <1>2, <1>9, <1>10, <1>12, <1>13, <1>14, <1>15 DEF Keeps

\* There is no empty slot for the item: store_tail() puts it before the rest again.
LEMMA EmptyNoSlotKeeps ==
    ASSUME Shape, Inv', NEW th \in Thread, EmptyNoSlot(th)
    PROVE  LinksOf(th) /\ Keeps(th) /\ UNCHANGED <<pool, batch, held>>
<1> DEFINE y == stored[th]
<1>1. Work(th)
    BY DEF Work, BufferStep
<1>2. /\ pc[th] = "empty_reload" /\ pc'[th] = "occupied_advance"
      /\ item'[th] = item[th] /\ stored'[th] = Null /\ list'[th] = y /\ back'[th] = "get_return"
      /\ UNCHANGED <<m_buffer, m_head, old_list, held>>
      /\ next' = IF back[th] = "store_tail" THEN [next EXCEPT ![y] = list[th]] ELSE next
    BY DEF EmptyNoSlot, Shape, Inv, TypeOK, LocalsSet
<1>3. /\ LocalsUsed(th) /\ OwnLists(th) /\ next \in Link /\ next' \in Link
      /\ \A z \in Item \ {y} : next'[z] = next[z]
    BY <1>2 DEF Shape, Inv, TypeOK, Link
<1>4. /\ y \in Item /\ Chain(next, y) /\ Chain(next, list[th])
      /\ ItemsFrom(next, list[th]) \cap ItemsFrom(next, y) = {}
      /\ ItemsFrom(next, Null) = {} /\ ItemsFrom(next', Null) = {}
    BY <1>2, <1>3, NullHasNoItems DEF LocalsUsed, OwnLists, ListOf, Storing, Shape, Inv, TypeOK
<1>5. /\ y \in ItemsFrom(next, y)
      /\ ItemsFrom(next', y) = ItemsFrom(next, list[th]) \cup ItemsFrom(next, y) /\ Chain(next', y)
    <2>1. y \in ItemsFrom(next, y)
        BY <1>3, <1>4, FirstInItems
    <2>2. CASE back[th] = "store_tail"
        <3>1. next[y] = Null /\ next'[y] = list[th]
            BY <1>2, <1>3, <1>4, <2>2 DEF LocalsUsed, Link
        <3>2. ItemsFrom(next, y) = {y}
            BY <1>3, <1>4, <3>1, FirstAndRest
        <3>3. \A z \in ItemsFrom(next, list[th]) : next'[z] = next[z]
            BY <1>3, <1>4, <3>2, ItemsAreItems
        <3>4. ItemsFrom(next', list[th]) = ItemsFrom(next, list[th]) /\ Chain(next', list[th])
            BY <1>3, <1>4, <3>3, SameLinks
        <3>5. ItemsFrom(next', y) = {y} \cup ItemsFrom(next, list[th]) /\ Chain(next', y)
            BY <1>3, <1>4, <3>1, <3>2, <3>4, PutFirst
        <3> QED BY <2>1, <3>2, <3>5
    <2>3. CASE back[th] # "store_tail"
        BY <1>2, <1>3, <1>4, <2>1, <2>3 DEF LocalsUsed
    <2> QED BY <2>2, <2>3
<1>6. /\ Kept(th) = {item[th]} /\ Tail(th) = ItemsFrom(next, list[th]) \cup ItemsFrom(next, y)
      /\ Kept(th)' = {item[th]} /\ Tail(th)' = ItemsFrom(next', y)
    BY <1>2, <1>4 DEF Kept, Tail, ListOf, Getting
<1>7. LocalsUsed(th)'
    BY <1>2, <1>3 DEF LocalsUsed, Getting, Putting, Storing
<1>8. OwnLists(th)'
    <2>1. item[th] \notin Tail(th)
        BY <1>2, <1>3 DEF OwnLists, Getting
    <2>2. (item[th] \notin Tail(th))'
        BY <1>2, <1>5, <1>6, <2>1
    <2>3. Chain(next', Null)
        BY <1>4 DEF Chain
    <2> QED BY <1>2, <1>4, <1>5, <2>2, <2>3 DEF OwnLists, ListOf
<1>9. y \in batch[th]
    BY <1>5, <1>6 DEF batch
<1>10. LinksOf(th)
    BY <1>3, <1>9 DEF LinksOf
<1>11. QueueLists' /\ pool' = pool
    <2>1. \A z \in pool : next'[z] = next[z]
        BY <1>3, <1>9, ItemsApart, PoolTypes DEF Shape, PoolProofs!TypeOK
    <2> QED BY <1>2, <2>1, QueueKeepsLists
<1>12. \A z \in held'[th] \ {item'[th]} : next'[z] = Null
    <2>1. y \notin held[th] /\ held[th] \in SUBSET Item
        BY <1>9, ItemsApart DEF Shape, Inv, TypeOK
    <2> QED BY <1>2, <1>3, <2>1 DEF Shape, ReturnsSingle
<1>13. batch' = batch
    <2>1. Kept(th)' \cup Tail(th)' = batch[th]
        BY <1>5, <1>6 DEF batch
    <2>2. batch' = [batch EXCEPT ![th] = Kept(th)' \cup Tail(th)']
        BY <1>1, <1>10, OthersKeep
    <2> QED BY <2>1, <2>2 DEF batch
<1> QED BY <1>2, <1>7, <1>8, <1>10, <1>11, <1>12, <1>13 DEF Keeps

\* store_in_occupied_slot() puts the old list back, before what is in the slot.
LEMMA OccupiedStoreKeeps ==
    ASSUME Shape, Inv', NEW th \in Thread, OccupiedStore(th)
    PROVE  LinksOf(th) /\ Keeps(th) /\ UNCHANGED <<pool, batch, held>>
<1>0. PICK s \in Slot : s = SlotOf(th)
    BY SlotOfIsSlot DEF Shape
<1> DEFINE old == old_list[th]
           v == m_buffer[s]
<1>1. Work(th)
    BY DEF Work, BufferStep
<1>2. /\ pc[th] = "occupied_cas" /\ pc'[th] = "get_return"
      /\ <<item[th], stored[th], back[th]>>' = <<item[th], stored[th], back[th]>>
      /\ list'[th] = Null /\ old_list' = [old_list EXCEPT ![th] = Null]
      /\ UNCHANGED <<m_head, held>>
      /\ m_buffer' = [m_buffer EXCEPT ![s] = old]
      /\ next' = [next EXCEPT ![LastOf(old)] = v]
    BY <1>0 DEF OccupiedStore, Shape, Inv, TypeOK, LocalsSet
<1>3. /\ LocalsUsed(th) /\ OwnLists(th) /\ next \in Link /\ next' \in Link /\ v \in Item \cup {Null}
      /\ m_buffer'[s] = old /\ \A t \in Slot \ {s} : m_buffer'[t] = m_buffer[t]
      /\ old_list'[th] = Null /\ \A u \in Thread \ {th} : old_list'[u] = old_list[u]
    <2>1. LocalsUsed(th) /\ OwnLists(th)
        BY DEF Shape
    <2>2. next \in Link /\ next' \in Link /\ v \in Item \cup {Null}
        BY DEF Shape, Inv, TypeOK, Link
    <2>3. m_buffer'[s] = old /\ \A t \in Slot \ {s} : m_buffer'[t] = m_buffer[t]
        BY <1>2 DEF Shape, Inv, TypeOK
    <2>4. old_list'[th] = Null /\ \A u \in Thread \ {th} : old_list'[u] = old_list[u]
        BY <1>2 DEF Shape, Inv, TypeOK
    <2> QED BY <2>1, <2>2, <2>3, <2>4
<1>4. /\ old \in Item /\ stored[th] = Null /\ back[th] # "store_tail"
      /\ ItemsFrom(next, Null) = {} /\ ItemsFrom(next', Null) = {}
    <2>1. old # Null /\ stored[th] = Null /\ back[th] # "store_tail"
        BY <1>2, <1>3 DEF LocalsUsed, Storing
    <2>2. old \in Item
        BY <2>1 DEF Shape, Inv, TypeOK
    <2> QED BY <1>3, <2>1, <2>2, NullHasNoItems
<1>5. /\ Chain(next, old) /\ Chain(next, v) /\ OldItems(th) \cap SlotItems(s) = {}
      /\ OldItems(th) = ItemsFrom(next, old) /\ SlotItems(s) = ItemsFrom(next, v)
    BY DEF Shape, QueueLists, OldItems, SlotItems, ListOf
<1>6. PICK y \in OldItems(th) : y = LastOf(old) /\ next[y] = Null
    <2>1. \E y \in ItemsFrom(next, old) : next[y] = Null
        BY <1>3, <1>4, <1>5, LastExists
    <2>2. LastOf(old) \in ItemsFrom(next, old) /\ next[LastOf(old)] = Null
        BY <2>1 DEF LastOf, ListOf
    <2> QED BY <1>5, <2>2
<1>7. SlotItems(s)' = OldItems(th) \cup SlotItems(s) /\ Chain(next', m_buffer'[s])
    <2>1. /\ y \in ItemsFrom(next, old) /\ next[y] = Null /\ next'[y] = v
          /\ \A z \in Item \ {y} : next'[z] = next[z]
          /\ ItemsFrom(next, old) \cap ItemsFrom(next, v) = {}
          /\ Chain(next, old) /\ Chain(next, v)
        BY <1>2, <1>5, <1>6, ItemsAreItems DEF Link, Shape, Inv, TypeOK
    <2> HIDE DEF old, v
    <2>2. /\ ItemsFrom(next', old) = ItemsFrom(next, old) \cup ItemsFrom(next, v)
          /\ Chain(next', old)
        BY <1>3, <1>4, <2>1, PutBehind
    <2> QED BY <1>3, <1>5, <2>2 DEF SlotItems, ListOf
<1>8. OldItems(th)' = {} /\ Chain(next', old_list'[th])
    BY <1>3, <1>4 DEF OldItems, ListOf, Chain
<1>9. \A z \in Item \ {y} : next'[z] = next[z]
    BY <1>2, <1>6 DEF Link
<1>10. y \in pool
    BY <1>6, ListsInPool
<1>11. Kept(th)' = Kept(th) /\ Tail(th)' = {} /\ Tail(th) = {}
    BY <1>2, <1>4 DEF Kept, Tail, ListOf, Getting
<1>12. LocalsUsed(th)'
    BY <1>2, <1>3, <1>4 DEF LocalsUsed, Getting, Putting, Storing
<1>13. OwnLists(th)'
    BY <1>2, <1>4, <1>11 DEF OwnLists, Chain, ListOf, Getting
<1>14. LinksOf(th)
    BY <1>9, <1>10 DEF LinksOf
<1>15. QueueLists' /\ pool' = pool
    <2>1. PICK R : R = pool \ (SlotItems(s) \cup OldItems(th))
        OBVIOUS
    <2>2. R \subseteq Item \ {y} /\ SlotItems(s) \cup OldItems(th) \subseteq pool
        BY <1>6, <2>1, ListsInPool, PoolTypes DEF Shape, PoolProofs!TypeOK
    <2>3. /\ \A z \in R : next'[z] = next[z]
          /\ SlotItems(s)' \cap R = {} /\ OldItems(th)' \cap R = {}
          /\ SlotItems(s)' \cap OldItems(th)' = {}
        BY <1>7, <1>8, <1>9, <2>1, <2>2
    <2>4. QueueLists' /\ pool' = R \cup SlotItems(s)' \cup OldItems(th)'
        BY <1>2, <1>3, <1>7, <1>8, <2>1, <2>3, SlotReplaced
    <2> QED BY <1>7, <1>8, <2>1, <2>2, <2>4
<1>16. \A z \in held'[th] \ {item'[th]} : next'[z] = Null
    <2>1. y \notin held[th] /\ held[th] \in SUBSET Item
        BY <1>10, ItemsApart DEF Shape, Inv, TypeOK
    <2> QED BY <1>2, <1>9, <2>1 DEF Shape, ReturnsSingle
<1>17. batch' = batch
    BY <1>1, <1>11, <1>14, OthersKeep DEF batch
<1> QED BY <1>2, <1>12, <1>13, <1>14, <1>15, <1>16, <1>17 DEF Keeps


-----------------------------------------------------------------------------
(* The queue implements the pool                                           *)

\* At first all lists are empty.
LEMMA ShapeInit ==
    ASSUME Init PROVE Shape /\ Pool!Init
<1>1. Inv
    BY DEF Init, Inv, TypeOK, LocalsSet, PC, SlotLoops, Holding
<1>2. next \in Link /\ ItemsFrom(next, Null) = {} /\ Chain(next, Null)
    BY <1>1, NullHasNoItems DEF Inv, TypeOK, Link, Chain
<1>3. \A th \in Thread : LocalsUsed(th) /\ OwnLists(th)
    BY <1>2 DEF Init, LocalsUsed, OwnLists, Getting, Putting, Storing, ListOf
<1>4. QueueLists
    BY <1>2 DEF Init, QueueLists, SlotItems, StackItems, OldItems, ListOf
<1>5. pool = {}
    BY <1>2, PoolMembers DEF Init, SlotItems, StackItems, OldItems, ListOf
<1>6. batch = [th \in Thread |-> {}]
    BY <1>2 DEF Init, batch, Kept, Tail, Getting, ListOf
<1>7. Pool!Init
    BY <1>5, <1>6 DEF Init, Pool!Init
<1>8. PoolProofs!EachItemOnce
    BY <1>5, <1>6 DEF Init, PoolProofs!EachItemOnce, PoolProofs!With
<1>9. ReturnsSingle
    BY DEF Init, ReturnsSingle
<1> QED BY <1>1, <1>3, <1>4, <1>7, <1>8, <1>9 DEF Shape

\* Every step of every thread keeps the shape of the lists.
LEMMA ShapeStep ==
    ASSUME Shape, [Next]_vars
    PROVE  Shape' /\ [Pool!Next]_<<pool, batch, held>>
<1>1. ASSUME NEW th \in Thread, Work(th) \/ Call(th)
      PROVE  Shape' /\ [Pool!Next]_<<pool, batch, held>>
    <2>1. Inv'
        BY <1>1, BufferStepKeepsInv, StackStepKeepsInv, CallKeepsInv DEF Work, Shape
    <2>2. LinksOf(th) /\ Keeps(th) /\ [PoolProofs!Next]_<<pool, batch, held>>
        <3>1. CASE \/ Looping(th) \/ GetAdvance(th) \/ EmptyAdvance(th) \/ OccupiedChanged(th)
                   \/ PutInBuffer(th) \/ PutInStack(th) \/ GetNothing(th) \/ Linking(th)
                   \/ TailItem(th) \/ EmptyNoSlot(th) \/ OccupiedStore(th)
            BY <2>1, <3>1, LoopKeeps, AdvanceKeeps, EmptyAdvanceKeeps, OccupiedChangedKeeps,
                PutOrNothingKeeps, LinkingKeeps, TailItemKeeps, EmptyNoSlotKeeps,
                OccupiedStoreKeeps
        <3>2. CASE PriorityStore(th) \/ PushStore(th)
            BY <2>1, <3>2, PriorityStoreKeeps, PushStoreKeeps DEF PoolProofs!Next
        <3>3. CASE GetExchange(th) \/ PopList(th)
            BY <2>1, <3>3, ExchangeKeeps, PopKeeps DEF PoolProofs!Next
        <3>4. CASE EmptyStore(th) \/ OccupiedExchange(th) \/ OccupiedWasEmpty(th)
            BY <2>1, <3>4, EmptyStoreKeeps, OccupiedExchangeKeeps DEF PoolProofs!Next
        <3>5. CASE GetReturn(th)
            BY <2>1, <3>5, ReturnKeeps DEF PoolProofs!Next
        <3> QED BY <1>1, <3>1, <3>2, <3>3, <3>4, <3>5
                DEF Work, Call, BufferStep, StackStep, Looping, Linking
    <2>3. Shape'
        BY <1>1, <2>1, <2>2, StepKeepsShape
    <2> QED
        BY <2>2, <2>3 DEF PoolProofs!Next, PoolProofs!Put, PoolProofs!TakeList,
             PoolProofs!StoreTail,
            PoolProofs!KeepFirst, Pool!Next, Pool!Put, Pool!TakeList, Pool!StoreTail,
            Pool!KeepFirst
<1>2. CASE UNCHANGED vars
    <2>1. UNCHANGED <<m_buffer, m_head, old_list, next, pc, item, list, stored, back, held>>
        BY <1>2 DEF vars
    <2>2. UNCHANGED <<pool, batch, held>>
        BY <2>1 DEF pool, Lists, ListOf, batch, Kept, Tail, Getting
    <2>3. Inv' /\ QueueLists' /\ ReturnsSingle'
        BY <1>2, <2>1 DEF vars, Shape, Inv, TypeOK, LocalsSet, QueueLists, ReturnsSingle,
            SlotItems, StackItems, OldItems, ListOf, Chain
    <2>4. ASSUME NEW th \in Thread PROVE LocalsUsed(th)' /\ OwnLists(th)'
        <3>1. LocalsUsed(th) /\ OwnLists(th)
            BY DEF Shape
        <3>2. LocalsUsed(th)'
            BY <2>1, <3>1 DEF LocalsUsed, Getting
        <3>3. Tail(th)' = Tail(th)
            BY <2>1 DEF Tail, ListOf
        <3>4. OwnLists(th)'
            BY <2>1, <3>1, <3>3 DEF OwnLists, ListOf, Chain, Getting
        <3> QED BY <3>2, <3>4
    <2>5. PoolProofs!EachItemOnce'
        BY <2>2 DEF Shape, PoolProofs!EachItemOnce, PoolProofs!With
    <2> QED BY <2>2, <2>3, <2>4, <2>5 DEF Shape
<1> QED BY <1>1, <1>2 DEF Next

\* LockFreeQueue does what ItemPool says, for any number of threads that take lists out
\* of its slots and stacks and put them back between each other's accesses
\* (lock_free_queue.hpp:66): its steps are those of a pool, or nothing at all.
THEOREM QueueIsPool == Spec => ImplementsPool
<1>1. Init => Shape /\ Pool!Init
    BY ShapeInit
<1>2. Shape /\ [Next]_vars => Shape' /\ [Pool!Next]_<<pool, batch, held>>
    BY ShapeStep
<1> QED
    BY <1>1, <1>2, PTL DEF Spec, ImplementsPool, Pool!Spec

\* So no item is lost, and none is with two threads or in two lists.
THEOREM QueueKeepsItems == Spec => []PoolProofs!EachItemOnce
<1>1. Init => Shape
    BY ShapeInit
<1>2. Shape /\ [Next]_vars => Shape'
    BY ShapeStep
<1>3. Shape => PoolProofs!EachItemOnce
    BY DEF Shape
<1> QED
    BY <1>1, <1>2, <1>3, PTL DEF Spec

\* What get_item() returns is single (unit_lock_free_queue.cpp:82), and so is what a
\* client puts, as push() asserts.
THEOREM ReturnedIsSingle == Spec => []ReturnsSingle
<1>1. Init => Shape
    BY ShapeInit
<1>2. Shape /\ [Next]_vars => Shape'
    BY ShapeStep
<1>3. Shape => ReturnsSingle
    BY DEF Shape
<1> QED
    BY <1>1, <1>2, <1>3, PTL DEF Spec


-----------------------------------------------------------------------------
(* A get_item() that is alone                                              *)

\* Where a get_item() has not found an item yet.
Looking == {"get_load", "get_slot", "get_reload", "pop"}

\* It is alone since it was called: the queue is not empty, and what it has looked at,
\* from the get position on, is.
Alone(th) ==
    pc[th] # "idle" /\ ~excused[th] =>
      /\ \A u \in Thread \ {th} : Idle(u)
      /\ pc[th] \in Looking => pool # {}
      /\ pc[th] \in {"get_slot", "get_reload"} => index[th] = m_get_position
      /\ \A j \in 0 .. i[th] :
           (pc[th] = "get_slot" /\ j # i[th]) \/ pc[th] = "get_reload"
           => m_buffer[(index[th] + j) % BUFFER_SIZE] = Null
      /\ pc[th] = "pop" => \A s \in Slot : m_buffer[s] = Null
      /\ pc[th] = "pop" => \A k \in 1 .. i[th] : m_head[k] = Null

\* A working thread is not idle, and leaves it to the calls to excuse others.
LEMMA WorkExcusesNobody ==
    ASSUME Inv, NEW th \in Thread, Work(th)
    PROVE  /\ pc[th] # "idle"
           /\ \A u \in Thread \ {th} : excused'[u] = excused[u]
           /\ pc'[th] # "idle" => excused'[th] = excused[th]
<1> USE DEF Inv, TypeOK, LocalsSet, Return
<1>1. CASE BufferStep(th)
    BY <1>1 DEF BufferStep, GetLoadPosition, GetExchange, GetExchangeEmpty, GetReload, GetNoItem,
        GetAdvance, GetReturn, TailItem, TailRest, TailEnd, EmptyLoadPosition, EmptyStore,
        EmptyOccupied, EmptyReload, EmptyNoSlot, EmptyAdvance, OccupiedAdvance,
        OccupiedExchange, OccupiedWasEmpty, OccupiedStore, OccupiedChanged,
        PriorityLoadPosition, PriorityLoadSlot, PriorityStore, PriorityChanged
<1>2. CASE StackStep(th)
    BY <1>2 DEF StackStep, PushLoad, PushStore, PushChanged, PopList, PopNothing
<1>3. CASE GetNothing(th)
    BY <1>3 DEF GetNothing
<1> QED BY <1>1, <1>2, <1>3 DEF Work

\* A step of it, when nobody else is in the queue.
LEMMA AloneLooks ==
    ASSUME Shape, Inv', NEW th \in Thread, Work(th), Alone(th),
           pc'[th] # "idle", ~excused[th]
    PROVE  Alone(th)'
<1>1. /\ pc[th] # "idle" /\ pc \in [Thread -> PC]
      /\ \A u \in Thread \ {th} : Idle(u)'
    BY WorkExcusesNobody, OthersKeepLocals DEF Shape, Inv, LocalsSet, Alone, Idle
<1>2. CASE GetLoadPosition(th)
    <2>1. /\ pc[th] = "get_load" /\ pc'[th] = "get_slot" /\ index'[th] = m_get_position
          /\ i'[th] = 0 /\ UNCHANGED m_get_position
        BY <1>2 DEF GetLoadPosition, BeginLoop, Shape, Inv, TypeOK, LocalsSet
    <2>2. pool' = pool
        BY <1>2, LoopKeeps DEF Looping
    <2> QED BY <1>1, <2>1, <2>2 DEF Alone, Looking
<1>3. CASE GetExchangeEmpty(th)
    <2>1. /\ pc[th] = "get_slot" /\ pc'[th] = "get_reload"
          /\ UNCHANGED <<m_get_position, m_buffer, index, i>>
          /\ m_buffer[SlotOf(th)] = Null
        BY <1>3 DEF GetExchangeEmpty, Shape, Inv, LocalsSet
    <2>2. pool' = pool
        BY <1>3, LoopKeeps DEF Looping
    <2> QED BY <1>1, <2>1, <2>2 DEF Alone, Looking, SlotOf
<1>4. CASE GetReload(th)
    <2>1. /\ pc[th] = "get_reload" /\ pc'[th] = "get_slot" /\ UNCHANGED <<m_get_position, m_buffer>>
          /\ index[th] = m_get_position
        BY <1>1, <1>4 DEF GetReload, Alone, Shape, Inv, LocalsSet
    <2>2. index' = index /\ i'[th] = i[th] + 1
        BY <1>4, <2>1 DEF GetReload, GoOn, Moved, Shape, Inv, TypeOK
    <2>3. \A j \in 0 .. i'[th] : j # i'[th] => j \in 0 .. i[th]
        BY <2>2 DEF Shape, Inv, TypeOK
    <2>4. pool' = pool
        BY <1>4, LoopKeeps DEF Looping
    <2> QED BY <1>1, <2>1, <2>2, <2>3, <2>4 DEF Alone, Looking
<1>5. CASE GetNoItem(th)
    <2>1. /\ pc[th] = "get_reload" /\ pc'[th] = "pop" /\ UNCHANGED m_buffer
          /\ i[th] = BUFFER_SIZE - 1 /\ i'[th] = 0
        BY <1>5 DEF GetNoItem, NoSlotLeft, BeginLoop, Shape, Inv, TypeOK, LocalsSet
    <2>2. ASSUME NEW s \in Slot PROVE m_buffer[s] = Null
        <3>1. PICK j \in 0 .. BUFFER_SIZE - 1 : (index[th] + j) % BUFFER_SIZE = s
            <4>1. index[th] \in Nat /\ s \in 0 .. BUFFER_SIZE - 1
                BY DEF Shape, Inv, TypeOK
            <4>2. Seen(BUFFER_SIZE, index[th], s)
                BY <4>1, EverySlotSeen
            <4> QED BY <4>2 DEF Seen
        <3> QED BY <1>1, <2>1, <3>1 DEF Alone
    <2>3. pool' = pool
        BY <1>5, LoopKeeps DEF Looping
    <2> QED BY <1>1, <2>1, <2>2, <2>3 DEF Alone, Looking
<1>6. CASE PopNothing(th)
    <2>1. /\ pc[th] = "pop" /\ pc'[th] = "pop" /\ UNCHANGED <<m_buffer, m_head>>
          /\ m_head[i[th] + 1] = Null /\ i'[th] = i[th] + 1
        BY <1>6 DEF PopNothing, Shape, Inv, TypeOK, LocalsSet
    <2>2. \A k \in 1 .. i'[th] : k \in 1 .. i[th] \/ k = i[th] + 1
        BY <2>1 DEF Shape, Inv, TypeOK
    <2>3. pool' = pool
        BY <1>6, LoopKeeps DEF Looping
    <2> QED BY <1>1, <2>1, <2>2, <2>3 DEF Alone, Looking
<1>7. CASE ~(\/ GetLoadPosition(th) \/ GetExchangeEmpty(th) \/ GetReload(th)
             \/ GetNoItem(th) \/ PopNothing(th))
    <2>1. pc'[th] \notin Looking
        BY <1>1, <1>7 DEF Work, BufferStep, StackStep, GetExchange,
            GetAdvance, GetReturn, TailItem, TailRest, TailEnd, EmptyLoadPosition, EmptyStore,
            EmptyOccupied, EmptyReload, EmptyNoSlot, EmptyAdvance, OccupiedAdvance,
            OccupiedExchange, OccupiedWasEmpty, OccupiedStore, OccupiedChanged,
            PriorityLoadPosition, PriorityLoadSlot, PriorityStore, PriorityChanged,
            PushLoad, PushStore, PushChanged, PopList, GetNothing, Looking, Shape, Inv, TypeOK
    <2> QED BY <1>1, <2>1 DEF Alone, Looking
<1> QED BY <1>2, <1>3, <1>4, <1>5, <1>6, <1>7

\* Every step of any thread keeps what each thread alone has found out.
LEMMA AloneStep ==
    ASSUME Shape, \A th \in Thread : Alone(th), [Next]_vars
    PROVE  \A th \in Thread : Alone(th)'
<1>0. Shape' /\ pc \in [Thread -> PC]
    BY ShapeStep DEF Shape, Inv, LocalsSet
<1>1. ASSUME NEW u \in Thread, Work(u), NEW th \in Thread, pc'[th] # "idle", ~excused'[th]
      PROVE  Alone(th)'
    <2>1. CASE th = u
        BY <1>0, <1>1, <2>1, WorkExcusesNobody, AloneLooks DEF Shape
    <2>2. CASE th # u
        BY <1>1, <2>2, WorkExcusesNobody, OthersKeepLocals DEF Alone, Shape, Idle
    <2> QED BY <2>1, <2>2
<1>2. ASSUME NEW u \in Thread, Call(u), NEW th \in Thread, pc'[th] # "idle", ~excused'[th]
      PROVE  Alone(th)'
    <2>1. /\ pc'[u] \in {"get_load", "priority_load", "push_load"}
          /\ \A v \in Thread \ {u} : pc'[v] = pc[v]
          /\ Excuses(u)
        BY <1>0, <1>2 DEF Call, CallGet, PutInBuffer, PutInStack
    <2>2. th = u /\ pool # {} /\ \A v \in Thread \ {th} : Idle(v)
        BY <1>2, <2>1 DEF Excuses, Idle
    <2>3. pool' = pool
        BY <1>0, <1>2, LoopKeeps, PutOrNothingKeeps DEF Call, Looping, Shape
    <2> QED BY <2>1, <2>2, <2>3 DEF Alone, Idle, Looking
<1>3. ASSUME UNCHANGED vars, NEW th \in Thread PROVE Alone(th)'
    <2>1. UNCHANGED <<pc, excused, index, i, m_get_position, m_buffer, m_head, next, old_list>>
        BY <1>3 DEF vars
    <2>2. UNCHANGED pool
        BY <2>1 DEF pool, Lists, ListOf
    <2> QED BY <2>1, <2>2 DEF Alone, Idle
<1>4. ASSUME NEW th \in Thread, pc'[th] = "idle" \/ excused'[th] PROVE Alone(th)'
    BY <1>4 DEF Alone
<1> QED BY <1>1, <1>2, <1>3, <1>4 DEF Next

\* get_item() returns nullptr only when the queue was empty when it was called, or
\* another thread has been in it since: a scan that sees every slot and every stack
\* empty, one after the other, has not missed an item that was there all along.
THEOREM AloneFinds == Spec => []FindsIfAlone
<1> DEFINE AloneInv == Shape /\ \A th \in Thread : Alone(th)
<1>1. Init => AloneInv
    BY ShapeInit DEF Init, Alone
<1>2. AloneInv /\ [Next]_vars => AloneInv'
    BY ShapeStep, AloneStep
<1>3. AloneInv => FindsIfAlone
    <2> SUFFICES ASSUME AloneInv, NEW th \in Thread, pc[th] = "pop", i[th] + 1 = QUEUE_COUNT,
                        m_head[QUEUE_COUNT] = Null, ~excused[th]
                 PROVE  FALSE
        BY DEF FindsIfAlone
    <2>1. \A s \in Slot : m_buffer[s] = Null
        BY DEF Alone
    <2>2. \A k \in Stack : m_head[k] = Null
        <3>1. \A k \in 1 .. i[th] : m_head[k] = Null
            BY DEF Alone
        <3>2. \A k \in Stack : k \in 1 .. i[th] \/ k = QUEUE_COUNT
            BY DEF Shape, Inv, TypeOK
        <3> QED BY <3>1, <3>2
    <2>3. \A u \in Thread : old_list[u] = Null
        BY DEF Alone, Idle, Shape, LocalsUsed
    <2>4. ItemsFrom(next, Null) = {}
        BY NullHasNoItems DEF Shape, Inv, TypeOK, Link
    <2>5. pool = {}
        BY <2>1, <2>2, <2>3, <2>4, PoolMembers DEF SlotItems, StackItems, OldItems, ListOf
    <2>6. pool # {}
        BY DEF Alone, Looking
    <2> QED BY <2>5, <2>6
<1> QED
    BY <1>1, <1>2, <1>3, PTL DEF Spec
=============================================================================
