---------------------------- MODULE IntrusiveList ----------------------------
(***************************************************************************)
(* IntrusiveList (intrusive_list.hpp): items that link themselves.  A list *)
(* is known by its first item, or Null, and link says what follows each.   *)
(***************************************************************************)
CONSTANTS Item, Null

\* S has what follows each of its members.
Closed(link, S) == \A y \in S : link[y] \in S \cup {Null}

\* The items of the list that begins with x: no closed set that has x leaves one out.
ItemsFrom(link, x) ==
    {y \in Item : ~\E S \in SUBSET (Item \ {y}) : x \in S \cup {Null} /\ Closed(link, S)}
=============================================================================
