---------------------------- MODULE ItemPoolProofs ----------------------------
(***************************************************************************)
(* What Scheduler may rely on when it uses the running queue as a pool.    *)
(***************************************************************************)
EXTENDS ItemPool, TLAPS

TypeOK ==
    /\ pool \in SUBSET Item
    /\ batch \in [Thread -> SUBSET Item]
    /\ held \in [Thread -> SUBSET Item]

Inv == TypeOK /\ EachItemOnce

\* Every step leaves each item where it is or moves it.
LEMMA InvStep ==
    ASSUME Inv, [Next]_<<pool, batch, held>>
    PROVE  Inv'
<1> USE DEF Inv, TypeOK, EachItemOnce, With
<1>1. ASSUME NEW th \in Thread, Put(th) PROVE Inv'
    BY <1>1 DEF Put
<1>2. ASSUME NEW th \in Thread, TakeList(th) PROVE Inv'
    BY <1>2 DEF TakeList
<1>3. ASSUME NEW th \in Thread, StoreTail(th) PROVE Inv'
    BY <1>3 DEF StoreTail
<1>4. ASSUME NEW th \in Thread, KeepFirst(th) PROVE Inv'
    BY <1>4 DEF KeepFirst
<1>5. CASE UNCHANGED <<pool, batch, held>>
    BY <1>5
<1> QED
    BY <1>1, <1>2, <1>3, <1>4, <1>5 DEF Next

\* A LockFreeQueue, which implements ItemPool, neither loses a task nor gives it to two
\* threads, for any number of both (lock_free_queue.hpp:66): get_item() may be cut
\* short between any two of the tasks it puts back.
THEOREM PoolKeepsItems == Spec => []EachItemOnce
<1>1. Init => Inv
    BY DEF Init, Inv, TypeOK, EachItemOnce, With
<1>2. Inv /\ [Next]_<<pool, batch, held>> => Inv'
    BY InvStep
<1>3. Inv => EachItemOnce
    BY DEF Inv
<1> QED
    BY <1>1, <1>2, <1>3, PTL DEF Spec
=============================================================================
