---------------------------- MODULE LockFreeStack ----------------------------
(***************************************************************************)
(* LockFreeStack (lock_free_stack.hpp), of which a LockFreeQueue has       *)
(* QUEUE_COUNT: push an item, pop all.  One action is one access to m_head.*)
(***************************************************************************)
EXTENDS QueueMemory

PushLoad(th) ==
    /\ Goto(th, "push_load", "push_cas")
    /\ next' = [next EXCEPT ![item[th]] = m_head[index[th]]]
    /\ UNCHANGED <<bufferVars, m_head, clientVars, locals>>

PushStore(th) ==
    /\ Goto(th, "push_cas", "idle")
    /\ m_head[index[th]] = next[item[th]]
    /\ m_head' = [m_head EXCEPT ![index[th]] = item[th]]
    /\ held' = [held EXCEPT ![th] = @ \ {item[th]}]
    /\ Return(th)
    /\ UNCHANGED <<bufferVars, next>>

PushChanged(th) ==
    /\ Goto(th, "push_cas", "push_cas")
    /\ m_head[index[th]] # next[item[th]]
    /\ next' = [next EXCEPT ![item[th]] = m_head[index[th]]]
    /\ UNCHANGED <<bufferVars, m_head, clientVars, locals>>

\* pop_list() of the next stack: keep the first item, put_items_list() the others.
PopList(th) ==
    LET first == m_head[i[th] + 1] IN
    /\ At(th, "pop") /\ first # Null
    /\ pc' = [pc EXCEPT ![th] = IF next[first] = Null THEN "get_return" ELSE "empty_load"]
    /\ m_head' = [m_head EXCEPT ![i[th] + 1] = Null]
    /\ item' = [item EXCEPT ![th] = first]
    /\ stored' = [stored EXCEPT ![th] = next[first]]
    /\ BeginLoop(th, 0)
    /\ UNCHANGED <<bufferVars, next, clientVars, list, count, old_list, back>>

PopNothing(th) ==
    /\ Goto(th, "pop", "pop")
    /\ m_head[i[th] + 1] = Null
    /\ i[th] + 1 < QUEUE_COUNT
    /\ i' = [i EXCEPT ![th] = @ + 1]
    /\ UNCHANGED <<memory, clientVars, item, listVars, index>>

StackStep(th) ==
    \/ PushLoad(th) \/ PushStore(th) \/ PushChanged(th)
    \/ PopList(th) \/ PopNothing(th)
=============================================================================
