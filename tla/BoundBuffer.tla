----------------------------- MODULE BoundBuffer -----------------------------
(***************************************************************************)
(* BoundBuffer (bound_buffer.hpp): slots that hold a list of items each.   *)
(* One action is one access to a slot or a position.  A list that a thread *)
(* has taken out of a slot is its own until it puts it back, so the links  *)
(* in it are read and written along with the next access.                  *)
(***************************************************************************)
EXTENDS QueueMemory

(* get_item                                                                *)

GetLoadPosition(th) ==
    /\ Goto(th, "get_load", "get_slot")
    /\ BeginLoop(th, m_get_position)
    /\ UNCHANGED <<memory, clientVars, item, listVars>>

\* Exchange the slot with nullptr.
GetExchange(th) ==
    /\ Goto(th, "get_slot", "get_advance")
    /\ m_buffer[SlotOf(th)] # Null
    /\ item' = [item EXCEPT ![th] = m_buffer[SlotOf(th)]]
    /\ m_buffer' = [m_buffer EXCEPT ![SlotOf(th)] = Null]
    /\ UNCHANGED <<m_get_position, m_put_position, m_head, next, clientVars, listVars, loopVars>>

GetExchangeEmpty(th) ==
    /\ Goto(th, "get_slot", "get_reload")
    /\ m_buffer[SlotOf(th)] = Null
    /\ UNCHANGED <<memory, clientVars, locals>>

\* Mutant: the first slot again.
GetReloadRestarts(th) ==
    /\ Goto(th, "get_reload", "get_slot")
    /\ BeginLoop(th, m_get_position)
    /\ UNCHANGED <<memory, clientVars, item, listVars>>

\* The next slot, or all slots again when another get_item() has moved on.
GetReload(th) ==
    /\ Goto(th, "get_reload", "get_slot")
    /\ Moved(th, m_get_position) \/ ~NoSlotLeft(th)
    /\ GoOn(th, m_get_position)
    /\ UNCHANGED <<memory, clientVars, item, listVars>>

\* No slot is left: LockFreeQueue::get_item goes on with the stacks, the first first.
GetNoItem(th) ==
    /\ Goto(th, "get_reload", "pop")
    /\ ~Moved(th, m_get_position) /\ NoSlotLeft(th)
    /\ BeginLoop(th, 0)
    /\ UNCHANGED <<memory, clientVars, item, listVars>>

\* The item is the first of a list: the rest goes back.
GetAdvance(th) ==
    /\ Goto(th, "get_advance", IF next[item[th]] = Null THEN "get_return" ELSE "store_tail")
    /\ m_get_position' = (m_get_position + i[th] + 1) % Positions
    /\ list' = [list EXCEPT ![th] = next[item[th]]]
    /\ UNCHANGED <<m_buffer, m_put_position, m_head, next, clientVars,
                   item, stored, count, old_list, back, loopVars>>

\* Mutant: the item keeps its link.
GetReturnLinked(th) ==
    /\ Goto(th, "get_return", "idle")
    /\ held' = [held EXCEPT ![th] = @ \cup {item[th]}]
    /\ Return(th)
    /\ UNCHANGED memory

GetReturn(th) ==
    /\ Goto(th, "get_return", "idle")
    /\ next' = [next EXCEPT ![item[th]] = Null]
    /\ held' = [held EXCEPT ![th] = @ \cup {item[th]}]
    /\ Return(th)
    /\ UNCHANGED <<bufferVars, m_head>>

-----------------------------------------------------------------------------
(* store_tail                                                              *)

\* Mutant: the loop of store_tail() goes on once too often.
TailItemBound(th) ==
    /\ Goto(th, "store_tail", "empty_load")
    /\ count[th] <= BUFFER_SIZE - 1 /\ list[th] # Null
    /\ stored' = [stored EXCEPT ![th] = list[th]]
    /\ list' = [list EXCEPT ![th] = next[list[th]]]
    /\ next' = [next EXCEPT ![list[th]] = Null]
    /\ back' = [back EXCEPT ![th] = "store_tail"]
    /\ count' = [count EXCEPT ![th] = @ + 1]
    /\ UNCHANGED <<bufferVars, m_head, clientVars, item, old_list, loopVars>>

\* An item of the list to an empty slot ...
TailItem(th) ==
    /\ Goto(th, "store_tail", "empty_load")
    /\ count[th] < BUFFER_SIZE - 1 /\ list[th] # Null
    /\ stored' = [stored EXCEPT ![th] = list[th]]
    /\ list' = [list EXCEPT ![th] = next[list[th]]]
    /\ next' = [next EXCEPT ![list[th]] = Null]
    /\ back' = [back EXCEPT ![th] = "store_tail"]
    /\ count' = [count EXCEPT ![th] = @ + 1]
    /\ UNCHANGED <<bufferVars, m_head, clientVars, item, old_list, loopVars>>

\* ... and after as many as there are other slots what remains, nothing included.
TailRest(th) ==
    /\ Goto(th, "store_tail", "occupied_advance")
    /\ count[th] = BUFFER_SIZE - 1
    /\ UNCHANGED <<memory, clientVars, locals>>

TailEnd(th) ==
    /\ Goto(th, "store_tail", "get_return")
    /\ count[th] < BUFFER_SIZE - 1 /\ list[th] = Null
    /\ UNCHANGED <<memory, clientVars, locals>>

-----------------------------------------------------------------------------
(* store_in_empty_slot                                                     *)

EmptyLoadPosition(th) ==
    /\ Goto(th, "empty_load", "empty_slot")
    /\ BeginLoop(th, m_put_position)
    /\ UNCHANGED <<memory, clientVars, item, listVars>>

EmptyStore(th) ==
    /\ Goto(th, "empty_slot", "empty_advance")
    /\ m_buffer[SlotOf(th)] = Null
    /\ m_buffer' = [m_buffer EXCEPT ![SlotOf(th)] = stored[th]]
    /\ stored' = [stored EXCEPT ![th] = Null]
    /\ UNCHANGED <<m_get_position, m_put_position, m_head, next, clientVars,
                   item, list, count, old_list, back, loopVars>>

EmptyOccupied(th) ==
    /\ Goto(th, "empty_slot", "empty_reload")
    /\ m_buffer[SlotOf(th)] # Null
    /\ UNCHANGED <<memory, clientVars, locals>>

EmptyReload(th) ==
    /\ Goto(th, "empty_reload", "empty_slot")
    /\ Moved(th, m_put_position) \/ ~NoSlotLeft(th)
    /\ GoOn(th, m_put_position)
    /\ UNCHANGED <<memory, clientVars, item, listVars>>

\* Mutant: the rest of the list is not linked to the item again.
EmptyNoSlotForgets(th) ==
    /\ Goto(th, "empty_reload", "occupied_advance")
    /\ ~Moved(th, m_put_position) /\ NoSlotLeft(th)
    /\ list' = [list EXCEPT ![th] = stored[th]]
    /\ stored' = [stored EXCEPT ![th] = Null]
    /\ BeginLoop(th, 0)
    /\ back' = [back EXCEPT ![th] = "get_return"]
    /\ UNCHANGED <<memory, clientVars, item, count, old_list>>

\* No slot is empty: store_tail() puts the item before the rest again.
EmptyNoSlot(th) ==
    /\ Goto(th, "empty_reload", "occupied_advance")
    /\ ~Moved(th, m_put_position) /\ NoSlotLeft(th)
    /\ next' = IF back[th] = "store_tail"
               THEN [next EXCEPT ![stored[th]] = list[th]] ELSE next
    /\ list' = [list EXCEPT ![th] = stored[th]]
    /\ stored' = [stored EXCEPT ![th] = Null]
    /\ BeginLoop(th, 0)
    /\ back' = [back EXCEPT ![th] = "get_return"]
    /\ UNCHANGED <<bufferVars, m_head, clientVars, item, count, old_list>>

EmptyAdvance(th) ==
    /\ Goto(th, "empty_advance", back[th])
    /\ m_put_position' = (m_put_position + i[th] + 1) % Positions
    /\ BeginLoop(th, 0)
    /\ back' = [back EXCEPT ![th] = "get_return"]
    /\ UNCHANGED <<m_buffer, m_get_position, m_head, next, clientVars,
                   item, list, stored, count, old_list>>

-----------------------------------------------------------------------------
(* store_in_occupied_slot                                                  *)

OccupiedAdvance(th) ==
    /\ Goto(th, "occupied_advance", "occupied_slot")
    /\ BeginLoop(th, m_put_position)
    /\ m_put_position' = (m_put_position + 1) % Positions
    /\ UNCHANGED <<m_buffer, m_get_position, m_head, next, clientVars, item, listVars>>

\* Exchange the slot with the list ...
OccupiedExchange(th) ==
    /\ Goto(th, "occupied_slot", "occupied_cas")
    /\ m_buffer[SlotOf(th)] # Null
    /\ m_buffer' = [m_buffer EXCEPT ![SlotOf(th)] = list[th]]
    /\ old_list' = [old_list EXCEPT ![th] = m_buffer[SlotOf(th)]]
    /\ UNCHANGED <<m_get_position, m_put_position, m_head, next, clientVars,
                   item, list, stored, count, back, loopVars>>

OccupiedWasEmpty(th) ==
    /\ Goto(th, "occupied_slot", "get_return")
    /\ m_buffer[SlotOf(th)] = Null
    /\ m_buffer' = [m_buffer EXCEPT ![SlotOf(th)] = list[th]]
    /\ list' = [list EXCEPT ![th] = Null]
    /\ UNCHANGED <<m_get_position, m_put_position, m_head, next, clientVars,
                   item, stored, count, old_list, back, loopVars>>

\* Mutant: a store in place of the compare-and-swap.
OccupiedStoreBlind(th) ==
    /\ Goto(th, "occupied_cas", "get_return")
    /\ m_buffer' = [m_buffer EXCEPT ![SlotOf(th)] = old_list[th]]
    /\ next' = [next EXCEPT ![LastOf(old_list[th])] = list[th]]
    /\ list' = [list EXCEPT ![th] = Null]
    /\ old_list' = [old_list EXCEPT ![th] = Null]
    /\ UNCHANGED <<m_get_position, m_put_position, m_head, clientVars,
                   item, stored, count, back, loopVars>>

\* ... and put the old list before it, or before what the slot has now.
OccupiedStore(th) ==
    /\ Goto(th, "occupied_cas", "get_return")
    /\ m_buffer[SlotOf(th)] = list[th]
    /\ m_buffer' = [m_buffer EXCEPT ![SlotOf(th)] = old_list[th]]
    /\ next' = [next EXCEPT ![LastOf(old_list[th])] = list[th]]
    /\ list' = [list EXCEPT ![th] = Null]
    /\ old_list' = [old_list EXCEPT ![th] = Null]
    /\ UNCHANGED <<m_get_position, m_put_position, m_head, clientVars,
                   item, stored, count, back, loopVars>>

OccupiedChanged(th) ==
    /\ Goto(th, "occupied_cas", "occupied_cas")
    /\ m_buffer[SlotOf(th)] # list[th]
    /\ list' = [list EXCEPT ![th] = m_buffer[SlotOf(th)]]
    /\ UNCHANGED <<memory, clientVars, item, stored, count, old_list, back, loopVars>>

-----------------------------------------------------------------------------
(* put_priority_item: link the item before the list in the slot at the get *)
(* position, and again until that is what the slot has.                    *)

PriorityLoadPosition(th) ==
    /\ Goto(th, "priority_load", "priority_slot")
    /\ BeginLoop(th, m_get_position)
    /\ UNCHANGED <<memory, clientVars, item, listVars>>

PriorityLoadSlot(th) ==
    /\ Goto(th, "priority_slot", "priority_cas")
    /\ next' = [next EXCEPT ![item[th]] = m_buffer[SlotOf(th)]]
    /\ UNCHANGED <<bufferVars, m_head, clientVars, locals>>

PriorityStore(th) ==
    /\ Goto(th, "priority_cas", "idle")
    /\ m_buffer[SlotOf(th)] = next[item[th]]
    /\ m_buffer' = [m_buffer EXCEPT ![SlotOf(th)] = item[th]]
    /\ held' = [held EXCEPT ![th] = @ \ {item[th]}]
    /\ Return(th)
    /\ UNCHANGED <<m_get_position, m_put_position, m_head, next>>

PriorityChanged(th) ==
    /\ Goto(th, "priority_cas", "priority_cas")
    /\ m_buffer[SlotOf(th)] # next[item[th]]
    /\ next' = [next EXCEPT ![item[th]] = m_buffer[SlotOf(th)]]
    /\ UNCHANGED <<bufferVars, m_head, clientVars, locals>>

-----------------------------------------------------------------------------
BufferStep(th) ==
    \/ GetLoadPosition(th) \/ GetExchange(th) \/ GetExchangeEmpty(th)
    \/ GetReload(th) \/ GetNoItem(th) \/ GetAdvance(th) \/ GetReturn(th)
    \/ TailItem(th) \/ TailRest(th) \/ TailEnd(th)
    \/ EmptyLoadPosition(th) \/ EmptyStore(th) \/ EmptyOccupied(th)
    \/ EmptyReload(th) \/ EmptyNoSlot(th) \/ EmptyAdvance(th)
    \/ OccupiedAdvance(th) \/ OccupiedExchange(th) \/ OccupiedWasEmpty(th)
    \/ OccupiedStore(th) \/ OccupiedChanged(th)
    \/ PriorityLoadPosition(th) \/ PriorityLoadSlot(th)
    \/ PriorityStore(th) \/ PriorityChanged(th)
=============================================================================
