------------------------------ MODULE WakeToken ------------------------------
(***************************************************************************)
(* What a Futex (futex.hpp) promises the one thread that calls its wait(). *)
(* There is a token.  wait() takes it, or sleeps if it is not there;       *)
(* notify() leaves it, and has ended the sleep when it returns.  How the   *)
(* word, the counter and the kernel do it is not part of the promise.      *)
(***************************************************************************)
CONSTANTS
    Notifier,       \* threads that call notify()
    Delayed         \* may notify() return before its token is there?

VARIABLES
    work,           \* is the token there?
    waiter,         \* the thread: "out" of wait(), "in" it, "asleep", or "woken" there
    calling,        \* threads in notify()
    due             \* threads whose token is still to come

vars == <<work, waiter, calling, due>>

Init == work = TRUE /\ waiter = "out" /\ calling = {} /\ due = {}

-----------------------------------------------------------------------------
(* wait()                                                                  *)

Move(from, to) == waiter = from /\ waiter' = to

Call ==
    /\ Move("out", "in")
    /\ UNCHANGED <<work, calling, due>>

Take ==
    /\ Move("in", "out")
    /\ work /\ work' = FALSE
    /\ UNCHANGED <<calling, due>>

\* Only a thread that finds no token sleeps.
Sleep ==
    /\ Move("in", "asleep")
    /\ ~work
    /\ UNCHANGED <<work, calling, due>>

\* One that had found none finds it before it sleeps, and leaves it there.
FindLate ==
    /\ Move("in", "woken")
    /\ work
    /\ UNCHANGED <<work, calling, due>>

\* A signal ends the sleep.
WakeEarly ==
    /\ Move("asleep", "woken")
    /\ UNCHANGED <<work, calling, due>>

Return ==
    /\ Move("woken", "out")
    /\ UNCHANGED <<work, calling, due>>

-----------------------------------------------------------------------------
(* notify()                                                                *)

BeginNotify(p) ==
    /\ p \notin calling
    /\ calling' = calling \cup {p}
    /\ due' = due \cup {p}
    /\ UNCHANGED <<work, waiter>>

\* The token of an earlier call may come when the next one has begun.
LeaveToken(p) ==
    /\ p \in due
    /\ work' = TRUE
    /\ due' = due \ {p} \/ (Delayed /\ UNCHANGED due)
    /\ UNCHANGED <<waiter, calling>>

\* When notify() returns its token has come, unless it may be late, and nobody sleeps.
EndNotify(p) ==
    /\ p \in calling
    /\ p \in due => Delayed
    /\ calling' = calling \ {p}
    /\ waiter' = IF waiter = "asleep" THEN "woken" ELSE waiter
    /\ UNCHANGED <<work, due>>

Next ==
    \/ Call \/ Take \/ Sleep \/ FindLate \/ WakeEarly \/ Return
    \/ \E p \in Notifier : BeginNotify(p) \/ LeaveToken(p) \/ EndNotify(p)

Spec == Init /\ [][Next]_vars

-----------------------------------------------------------------------------
\* What it comes to when no token is late: while the thread sleeps beside a token, a
\* notify() is under way that will wake it (futex.hpp:97).
SleeperHasCaller == ~Delayed /\ waiter = "asleep" /\ work => calling # {}
=============================================================================
