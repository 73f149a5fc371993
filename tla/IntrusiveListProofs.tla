------------------------- MODULE IntrusiveListProofs -------------------------
(***************************************************************************)
(* What the operations on intrusive lists do to them: to take the first    *)
(* item, to put an item before a list, to put a list behind another.  The  *)
(* lemmas say it of every link function; none needs an induction, since    *)
(* the items of a list are the least closed set that has its first item.   *)
(***************************************************************************)
EXTENDS IntrusiveList, FiniteSetTheorems, TLAPS

Link == [Item -> Item \cup {Null}]

\* The list that begins with x has no branch that comes together and no loop back to x:
\* each item is followed by another.
Chain(link, x) ==
    \A y, z \in ItemsFrom(link, x) :
        /\ link[y] # x
        /\ link[y] = link[z] /\ link[y] # Null => y = z

\* A list is made of items.
LEMMA ItemsAreItems ==
    ASSUME NEW link, NEW x
    PROVE  ItemsFrom(link, x) \in SUBSET Item
BY DEF ItemsFrom

\* The least closed set: it is closed, it has the first item, and no other is smaller.
LEMMA ItemsClosed ==
    ASSUME NEW link \in Link, NEW x
    PROVE  Closed(link, ItemsFrom(link, x))
BY DEF Closed, ItemsFrom, Link

\* It has its first item.
LEMMA FirstInItems ==
    ASSUME NEW link \in Link, NEW x \in Item \cup {Null}
    PROVE  x \in ItemsFrom(link, x) \cup {Null}
BY DEF ItemsFrom

\* A closed set that has the first item has the whole list.
LEMMA ItemsLeast ==
    ASSUME NEW link \in Link, NEW x, NEW S \in SUBSET Item,
           x \in S \cup {Null}, Closed(link, S)
    PROVE  ItemsFrom(link, x) \subseteq S
<1>1. ASSUME NEW y \in ItemsFrom(link, x), y \notin S PROVE FALSE
    <2>1. S \in SUBSET (Item \ {y})
        BY <1>1
    <2> QED BY <1>1, <2>1 DEF ItemsFrom
<1> QED BY <1>1

\* A null pointer is the empty list.
LEMMA NullHasNoItems ==
    ASSUME NEW link \in Link
    PROVE  ItemsFrom(link, Null) = {}
<1>1. {} \in SUBSET Item /\ Null \in {} \cup {Null} /\ Closed(link, {})
    BY DEF Closed
<1> QED BY <1>1, ItemsLeast

\* A list is its first item and the list behind it.
LEMMA FirstAndRest ==
    ASSUME NEW link \in Link, NEW x \in Item, Null \notin Item
    PROVE  ItemsFrom(link, x) = {x} \cup ItemsFrom(link, link[x])
<1>1. ItemsFrom(link, link[x]) \subseteq ItemsFrom(link, x)
    <2>1. ItemsFrom(link, x) \in SUBSET Item
        BY ItemsAreItems
    <2>2. link[x] \in ItemsFrom(link, x) \cup {Null}
        BY ItemsClosed, FirstInItems DEF Closed
    <2> QED BY <2>1, <2>2, ItemsClosed, ItemsLeast
<1>2. ItemsFrom(link, x) \subseteq {x} \cup ItemsFrom(link, link[x])
    <2> DEFINE S == {x} \cup ItemsFrom(link, link[x])
    <2>1. S \in SUBSET Item
        BY ItemsAreItems
    <2>2. link[x] \in S \cup {Null}
        BY FirstInItems DEF Link
    <2>3. Closed(link, S)
        BY <2>2, ItemsClosed DEF Closed
    <2>4. x \in S
        OBVIOUS
    <2> HIDE DEF S
    <2>5. ItemsFrom(link, x) \subseteq S
        BY <2>1, <2>3, <2>4, ItemsLeast
    <2> QED BY <2>5 DEF S
<1> QED BY <1>1, <1>2, FirstInItems

\* A list is what its own links make it: other links may change.
LEMMA SameLinks ==
    ASSUME NEW f \in Link, NEW g \in Link, NEW x,
           \A y \in ItemsFrom(f, x) : g[y] = f[y]
    PROVE  ItemsFrom(g, x) = ItemsFrom(f, x) /\ (Chain(f, x) => Chain(g, x))
<1>1. ItemsFrom(g, x) \subseteq ItemsFrom(f, x)
    <2>1. CASE x \in Item \cup {Null}
        <3>1. x \in ItemsFrom(f, x) \cup {Null}
            BY <2>1, FirstInItems
        <3>2. Closed(g, ItemsFrom(f, x)) /\ ItemsFrom(f, x) \in SUBSET Item
            BY ItemsClosed, ItemsAreItems DEF Closed
        <3> QED BY <3>1, <3>2, ItemsLeast
    <2>2. CASE x \notin Item \cup {Null}
        BY <2>2 DEF ItemsFrom
    <2> QED BY <2>1, <2>2
<1>2. ItemsFrom(f, x) \subseteq ItemsFrom(g, x)
    <2> DEFINE S == ItemsFrom(f, x) \cap ItemsFrom(g, x)
    <2>1. CASE x \in Item \cup {Null}
        <3>1. x \in S \cup {Null}
            BY <2>1, FirstInItems
        <3>2. Closed(f, S) /\ S \in SUBSET Item
            BY ItemsClosed, ItemsAreItems DEF Closed
        <3>3. ItemsFrom(f, x) \subseteq S
            BY <3>1, <3>2, ItemsLeast
        <3> QED BY <3>3
    <2>2. CASE x \notin Item \cup {Null}
        BY <2>2 DEF ItemsFrom
    <2> QED BY <2>1, <2>2
<1> QED BY <1>1, <1>2 DEF Chain

\* Without its first item a chain is a chain that does not have it.
LEMMA TakeFirst ==
    ASSUME NEW link \in Link, NEW x \in Item, Null \notin Item, Chain(link, x)
    PROVE  x \notin ItemsFrom(link, link[x]) /\ Chain(link, link[x])
<1>1. ItemsFrom(link, link[x]) \subseteq ItemsFrom(link, x) \ {x}
    <2> DEFINE S == ItemsFrom(link, x) \ {x}
    <2>1. S \in SUBSET Item
        BY ItemsAreItems
    <2>2. link[x] \in S \cup {Null}
        BY FirstInItems, ItemsClosed DEF Closed, Chain
    <2>3. Closed(link, S)
        BY FirstInItems, ItemsClosed DEF Closed, Chain
    <2> HIDE DEF S
    <2>4. ItemsFrom(link, link[x]) \subseteq S
        BY <2>1, <2>2, <2>3, ItemsLeast
    <2> QED BY <2>4 DEF S
<1>2. ASSUME NEW y \in ItemsFrom(link, link[x]) PROVE link[y] # link[x] \/ link[x] = Null
    BY <1>1, FirstInItems DEF Chain
<1>3. CASE link[x] = Null
    BY <1>1, <1>3, NullHasNoItems DEF Chain
<1>4. CASE link[x] # Null
    BY <1>1, <1>2, <1>4 DEF Chain
<1> QED BY <1>1, <1>3, <1>4

\* An item put before a chain.
LEMMA PutFirst ==
    ASSUME NEW link \in Link, NEW z \in Item, Null \notin Item, Chain(link, link[z]),
           z \notin ItemsFrom(link, link[z])
    PROVE  ItemsFrom(link, z) = {z} \cup ItemsFrom(link, link[z]) /\ Chain(link, z)
<1>1. ItemsFrom(link, z) = {z} \cup ItemsFrom(link, link[z])
    BY FirstAndRest
<1>2. link[z] # z
    BY FirstInItems
<1>3. \A y \in ItemsFrom(link, link[z]) : link[y] # z /\ link[y] # link[z]
    BY ItemsClosed DEF Closed, Chain
<1> QED BY <1>1, <1>2, <1>3 DEF Chain

\* A chain of finitely many items comes to an end.
LEMMA LastExists ==
    ASSUME NEW link \in Link, NEW x \in Item, Null \notin Item, IsFiniteSet(Item), Chain(link, x)
    PROVE  \E y \in ItemsFrom(link, x) : link[y] = Null
<1> DEFINE S == ItemsFrom(link, x)
           T == S \ {x}
           f == [y \in S |-> link[y]]
<1> SUFFICES ASSUME \A y \in S : link[y] # Null PROVE FALSE
    OBVIOUS
<1>1. x \in S /\ S \in SUBSET Item
    BY FirstInItems, ItemsAreItems
<1>2. IsFiniteSet(S) /\ IsFiniteSet(T) /\ Cardinality(T) < Cardinality(S)
    <2>1. IsFiniteSet(S)
        BY <1>1, FS_Subset
    <2> HIDE DEF S
    <2>2. Cardinality(S) \in Nat /\ IsFiniteSet(T) /\ Cardinality(T) = Cardinality(S) - 1
        BY <1>1, <2>1, FS_RemoveElement, FS_CardinalityType
    <2> QED BY <2>1, <2>2
<1>3. f \in [S -> T]
    BY ItemsClosed DEF Closed, Chain
<1>4. \A y, z \in S : f[y] = f[z] => y = z
    BY DEF Chain
<1> HIDE DEF f, T, S
<1> QED
    BY <1>2, <1>3, <1>4, FS_PigeonHole

\* A chain put behind the last item of another that it has nothing in common with.
LEMMA PutBehind ==
    ASSUME NEW f \in Link, NEW g \in Link, NEW x \in Item, NEW v \in Item \cup {Null}, Null \notin Item,
           Chain(f, x), Chain(f, v), ItemsFrom(f, x) \cap ItemsFrom(f, v) = {},
           NEW y \in ItemsFrom(f, x), f[y] = Null, g[y] = v,
           \A z \in Item \ {y} : g[z] = f[z]
    PROVE  ItemsFrom(g, x) = ItemsFrom(f, x) \cup ItemsFrom(f, v) /\ Chain(g, x)
<1> DEFINE A == ItemsFrom(f, x)
           B == ItemsFrom(f, v)
<1>0. /\ A \in SUBSET Item /\ B \in SUBSET Item /\ x \in A /\ v \in B \cup {Null}
      /\ Closed(f, A) /\ Closed(f, B)
    BY FirstInItems, ItemsClosed, ItemsAreItems
<1>1. ItemsFrom(g, x) \subseteq A \cup B
    <2>1. Closed(g, A \cup B)
        BY <1>0 DEF Closed, Link
    <2> HIDE DEF A, B
    <2> QED BY <1>0, <2>1, ItemsLeast
<1>2. A \cup B \subseteq ItemsFrom(g, x)
    <2> DEFINE S == ItemsFrom(g, x)
    <2>1. S \in SUBSET Item /\ x \in S /\ Closed(g, S)
        BY FirstInItems, ItemsClosed, ItemsAreItems
    <2> HIDE DEF S
    <2>2. Closed(f, S)
        BY <2>1 DEF Closed, Link
    <2>3. A \subseteq S
        BY <2>1, <2>2, ItemsLeast
    <2>4. v \in S \cup {Null}
        BY <2>1, <2>3 DEF Closed, Link
    <2>5. B \subseteq S
        BY <2>1, <2>2, <2>4, ItemsLeast
    <2> QED BY <2>3, <2>5 DEF S
<1>3. ItemsFrom(g, x) = A \cup B
    BY <1>1, <1>2
<1>4. Chain(g, x)
    <2>1. \A a \in A : f[a] \in A \cup {Null} /\ f[a] # x
        BY <1>0 DEF Closed, Chain
    <2>2. \A b \in B : f[b] \in B \cup {Null} /\ f[b] # v /\ b \notin A
        BY <1>0 DEF Closed, Chain
    <2>3. \A a \in A \cup B : g[a] = IF a = y THEN v ELSE f[a]
        BY DEF Link, ItemsFrom
    <2>4. \A a, b \in A : f[a] = f[b] /\ f[a] # Null => a = b
        BY DEF Chain
    <2>5. \A a, b \in B : f[a] = f[b] /\ f[a] # Null => a = b
        BY DEF Chain
    <2>6. v = Null \/ v \notin A
        BY <1>0
    <2> HIDE DEF A, B
    <2> SUFFICES \A a, b \in A \cup B : g[a] # x /\ (g[a] = g[b] /\ g[a] # Null => a = b)
        BY <1>3 DEF Chain
    <2> QED BY <1>0, <2>1, <2>2, <2>3, <2>4, <2>5, <2>6 DEF A
<1> QED BY <1>3, <1>4
=============================================================================
