----------------------------- MODULE QueueMemory -----------------------------
(***************************************************************************)
(* The memory of a LockFreeQueue and of the threads that call it: the      *)
(* slots of its BoundBuffer, the heads of its LockFreeStacks, the links of *)
(* IntrusiveList that chain the items of a slot or a stack, and the locals *)
(* of the functions a thread is in.                                        *)
(***************************************************************************)
EXTENDS Naturals, FiniteSets, IntrusiveList

CONSTANTS
    Thread,
    BUFFER_SIZE,    \* slots of the buffer: 4 in the code
    QUEUE_COUNT,    \* stacks: 3 in the code
    Positions       \* where the positions wrap: 2^32 in the code

ASSUME QueueAssumption ==
    /\ IsFiniteSet(Item)
    /\ Null \notin Item
    /\ BUFFER_SIZE \in Nat \ {0}
    /\ QUEUE_COUNT \in Nat \ {0}
    /\ Positions \in Nat \ {0}
    /\ Positions % BUFFER_SIZE = 0

VARIABLES
    m_buffer,                           \* per slot: the first item of its list
    m_get_position, m_put_position,
    m_head,                             \* per stack: the first item of its list
    next,                               \* per item: IntrusiveList::m_next
    held,                               \* per thread: items that its client has
    excused,                            \* per thread: may this get_item() find nothing?
    pc,
    item,                               \* locals of get_item() and of the puts,
    list, stored, count,                \* of store_tail(),
    old_list,                           \* of store_in_occupied_slot(),
    index, i, back                      \* of the loops over the slots

bufferVars == <<m_buffer, m_get_position, m_put_position>>
clientVars == <<held, excused>>
memory == <<bufferVars, m_head, next>>
loopVars == <<index, i>>
listVars == <<list, stored, count, old_list, back>>
locals == <<item, listVars, loopVars>>
vars == <<memory, clientVars, pc, locals>>

Slot == 0 .. BUFFER_SIZE - 1
Stack == 1 .. QUEUE_COUNT

At(th, label) == pc[th] = label
Goto(th, from, to) == At(th, from) /\ pc' = [pc EXCEPT ![th] = to]

\* The items of the list that begins with x, and the last of them.
ListOf(x) == ItemsFrom(next, x)
LastOf(x) == CHOOSE y \in ListOf(x) : next[y] = Null

\* A call is over: its locals are gone.
Return(th) ==
    /\ item' = [item EXCEPT ![th] = Null]
    /\ list' = [list EXCEPT ![th] = Null]
    /\ index' = [index EXCEPT ![th] = 0]
    /\ i' = [i EXCEPT ![th] = 0]
    /\ count' = [count EXCEPT ![th] = 0]
    /\ excused' = [excused EXCEPT ![th] = FALSE]
    /\ UNCHANGED <<stored, old_list, back>>

\* The loops over the slots begin at a position ...
BeginLoop(th, position) ==
    /\ index' = [index EXCEPT ![th] = position]
    /\ i' = [i EXCEPT ![th] = 0]

\* ... look at one slot at a time ...
SlotOf(th) == (index[th] + i[th]) % BUFFER_SIZE

\* ... begin again when the position has moved, and else go on to the next.
Moved(th, position) == index[th] # position
\* Mutant: the last slot is not looked at.
LastSlotSkipped(th) == i[th] = BUFFER_SIZE - 2
NoSlotLeft(th) == i[th] = BUFFER_SIZE - 1
GoOn(th, position) ==
    IF Moved(th, position) THEN BeginLoop(th, position)
    ELSE i' = [i EXCEPT ![th] = @ + 1] /\ UNCHANGED index

Init ==
    /\ m_buffer = [s \in Slot |-> Null]
    /\ m_get_position = 0
    /\ m_put_position = 0
    /\ m_head = [k \in Stack |-> Null]
    /\ next = [x \in Item |-> Null]
    /\ held \in {h \in [Thread -> SUBSET Item] :
                   \A x \in Item : \E th \in Thread : \A u \in Thread : x \in h[u] <=> u = th}
    /\ excused = [th \in Thread |-> FALSE]
    /\ pc = [th \in Thread |-> "idle"]
    /\ item = [th \in Thread |-> Null]
    /\ list = [th \in Thread |-> Null]
    /\ old_list = [th \in Thread |-> Null]
    /\ stored = [th \in Thread |-> Null]
    /\ index = [th \in Thread |-> 0]
    /\ i = [th \in Thread |-> 0]
    /\ count = [th \in Thread |-> 0]
    /\ back = [th \in Thread |-> "get_return"]
=============================================================================
