------------------------------- MODULE MCQueue -------------------------------
(* Instances of LockFreeQueue for TLC.                                     *)
EXTENDS LockFreeQueue, TLC

CONSTANTS x1, x2, x3, x4

\* Tasks of priority Normal, and one that its client makes High or Normal.
MCPriority == x1 :> {0, 1} @@ x2 :> {1} @@ x3 :> {1}

\* Tasks that cannot be told apart, all High: the slots hold long lists.
MCHigh == [x \in Item |-> {0}]
Symmetry == Permutations(Item) \cup Permutations(Thread)
=============================================================================
