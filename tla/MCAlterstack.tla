----------------------------- MODULE MCAlterstack -----------------------------
(* Clients of alterstack for TLC: one Program per question.                *)
EXTENDS Alterstack, TLC

CONSTANTS main, th2, b1, b2, T1, T2, a1, a2

On(d, o) == [do |-> d, on |-> o]
Do(d, o) == {On(d, o)}
DoYield == Do("yield", Null)

\* test/integration/task_wait.cpp, with tasks that wait before anyone can release:
\* main() creates them on its own thread, so each has left its stack by then.
MCSettled ==
    main :> <<Do("new", T1), Do("new", T2), Do("release", a1),
              Do("delete", T1), Do("delete", T2)>>
    @@ T1 :> <<Do("wait", a1), Do("release", a2)>>
    @@ T2 :> <<Do("wait", a2) \cup Do("delete", a1)>>

\* As MCSettled; main() may join the tasks, or yield to them first.
MCLive ==
    main :> <<Do("new", T1), Do("new", T2), Do("release", a1),
              DoYield \cup Do("join", T1) \cup Do("join", T2),
              Do("delete", T1), Do("delete", T2)>>
    @@ T1 :> <<Do("wait", a1), Do("release", a2)>>
    @@ T2 :> <<Do("wait", a2) \cup Do("delete", a1) \cup DoYield, DoYield>>

\* A task and a thread wait while another task, or main(), releases what they wait for.
MCRace ==
    main :> <<Do("new", T1), Do("release", a1), Do("delete", T1)>>
    @@ th2 :> <<Do("new", T2), Do("wait", a1)>>
    @@ T1 :> <<Do("wait", a1)>>
    @@ T2 :> <<DoYield \cup Do("release", a1)>>

\* A task waits while another releases what it waits for.
MCRaceTwo ==
    main :> <<Do("new", T1), Do("new", T2), DoYield \cup Do("release", a1),
              Do("delete", T1), Do("delete", T2)>>
    @@ T1 :> <<DoYield, Do("wait", a1)>>
    @@ T2 :> <<Do("release", a1)>>

\* As above, with one task only.
MCRaceOne ==
    main :> <<Do("new", T1), Do("release", a1), Do("delete", T1)>>
    @@ T1 :> <<DoYield, Do("wait", a1)>>

\* main() joins one of two tasks.
MCBoundWait ==
    main :> <<Do("new", T1), Do("new", T2), Do("join", T1), Do("delete", T1), Do("delete", T2)>>
    @@ T1 :> <<DoYield>>
    @@ T2 :> <<DoYield>>

\* main() joins a task that th2 releases, then returns.
MCStall ==
    main :> <<Do("new", T1), Do("join", T1), Do("delete", T1)>>
    @@ th2 :> <<Do("release", a1)>>
    @@ T1 :> <<Do("wait", a1)>>
===============================================================================
