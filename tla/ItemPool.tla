------------------------------- MODULE ItemPool -------------------------------
(***************************************************************************)
(* What a LockFreeQueue promises, in the terms in which Runtime and        *)
(* Scheduler have the running queue: pool is what a get_item() can find,   *)
(* batch what one has taken out and not yet put back, held what the        *)
(* clients have.  No order is promised, nor that an item is found.         *)
(***************************************************************************)
CONSTANTS Thread, Item

VARIABLES pool, batch, held

Init ==
    /\ pool = {}
    /\ batch = [th \in Thread |-> {}]
    /\ held \in {h \in [Thread -> SUBSET Item] :
                   \A x \in Item : \E th \in Thread : \A u \in Thread : x \in h[u] <=> u = th}

Put(th) ==
    \E x \in held[th] :
      /\ held' = [held EXCEPT ![th] = @ \ {x}]
      /\ pool' = pool \cup {x}
      /\ UNCHANGED batch

TakeList(th) ==
    \E list \in (SUBSET pool) \ {{}} :
      /\ batch[th] = {}
      /\ pool' = pool \ list
      /\ batch' = [batch EXCEPT ![th] = list]
      /\ UNCHANGED held

StoreTail(th) ==
    \E tail \in SUBSET batch[th] :
      /\ tail # batch[th]
      /\ pool' = pool \cup tail
      /\ batch' = [batch EXCEPT ![th] = @ \ tail]
      /\ UNCHANGED held

KeepFirst(th) ==
    \E x \in batch[th] :
      /\ batch[th] = {x}
      /\ batch' = [batch EXCEPT ![th] = {}]
      /\ held' = [held EXCEPT ![th] = @ \cup {x}]
      /\ UNCHANGED pool

Next == \E th \in Thread : Put(th) \/ TakeList(th) \/ StoreTail(th) \/ KeepFirst(th)

Spec == Init /\ [][Next]_<<pool, batch, held>>

-----------------------------------------------------------------------------
\* Every item is in one place: findable, or with one thread that gets it or has it.
With(th, x) == x \in batch[th] \cup held[th]
EachItemOnce ==
    \A x \in Item :
        \/ x \in pool /\ \A th \in Thread : ~With(th, x)
        \/ /\ x \notin pool
           /\ \E th \in Thread : /\ With(th, x) /\ x \notin batch[th] \cap held[th]
                                 /\ \A u \in Thread \ {th} : ~With(u, x)
=============================================================================
