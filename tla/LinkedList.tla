------------------------------- MODULE LinkedList -------------------------------
(***************************************************************************)
(* DS_LinkedList.h: CircularLinkedList and LinkedList, nodes in a circle   *)
(* with a root and a position.                                             *)
(***************************************************************************)
EXTENDS Integers, Sequences, FiniteSets

LOCAL Ext == INSTANCE SequencesExt

CONSTANTS
  Items,       \* numbers, as Sort compares them
  NoItem,
  Nodes,       \* numbers for the nodes the list can have
  NoNode,
  MaxLength    \* bound: the length of a list that is concatenated

VARIABLES
  circular,    \* whether it is a CircularLinkedList
  item, next, previous,       \* of the nodes there are
  root, position, list_size,
  call, result     \* the last call and what it returned: AbstractCursorList

nodes == <<item, next, previous>>
list == <<nodes, root, position, list_size>>
vars == <<circular, list, call, result>>

Made == DOMAIN item

TypeOK ==
  /\ circular \in BOOLEAN
  /\ item \in [Made -> Items]
  /\ next \in [Made -> Made] /\ previous \in [Made -> Made]
  /\ {root, position} \subseteq Made \cup {NoNode}
  /\ list_size = Cardinality(Made)

Calls(op, i) == call' = [op |-> op, item |-> i]

Init ==
  /\ circular \in BOOLEAN
  /\ item = <<>> /\ next = <<>> /\ previous = <<>>
  /\ root = NoNode /\ position = NoNode /\ list_size = 0
  /\ call = [op |-> "clear", item |-> NoItem]
  /\ result = NoItem

-------------------------------------------------------------------------------
(* Lists as they come from their calls.                                    *)

Extended(f, n, value) ==
  [x \in DOMAIN f \cup {n} |-> IF x = n THEN value ELSE f[x]]

Without(f, n) == [x \in DOMAIN f \ {n} |-> f[x]]

Fresh == CHOOSE n \in Nodes \ Made : TRUE

\* The first node is a circle of its own.
Alone(i) ==
  LET n == Fresh
  IN
  /\ item' = Extended(item, n, i)
  /\ next' = Extended(next, n, n) /\ previous' = Extended(previous, n, n)
  /\ root' = n /\ position' = n

\* Slip: the one after the new node is not told.
LinkedOneWay(n, before, after) ==
  /\ next' = Extended([next EXCEPT ![before] = n], n, after)
  /\ previous' = Extended(previous, n, before)

\* A new node between two that are neighbours, or the same one.
Linked(n, before, after) ==
  /\ next' = Extended([next EXCEPT ![before] = n], n, after)
  /\ previous' = Extended([previous EXCEPT ![after] = n], n, before)

\* The nodes in their order, from the root.
InOrder ==
  LET walk[i \in 1 .. list_size] == IF i = 1 THEN root ELSE next[walk[i - 1]]
  IN walk

Contents == [i \in 1 .. list_size |-> item[InOrder[i]]]

\* A list of these items whose nodes are new and in order, with the position at
\* the p-th: what a copy, one after another, makes of them.
Rebuilt(items, p) ==
  LET size == Len(items)
  IN
  /\ item' = [n \in 1 .. size |-> items[n]]
  /\ next' = [n \in 1 .. size |-> IF n = size THEN 1 ELSE n + 1]
  /\ previous' = [n \in 1 .. size |-> IF n = 1 THEN size ELSE n - 1]
  /\ root' = 1 /\ position' = p /\ list_size' = size

-------------------------------------------------------------------------------
(* The calls.                                                              *)

\* Slip: the root stays where it was.
RootStays(n) == UNCHANGED <<root, position>>

\* "Since the root pointer is bound to a node rather than an index this moves it
\* back if you insert an element at the root".
RootMoves(n) ==
  IF position = root THEN root' = n /\ position' = n
  ELSE UNCHANGED <<root, position>>

Insert(i) ==
  /\ list_size < Cardinality(Nodes)
  /\ IF list_size = 0 THEN Alone(i)
     ELSE /\ item' = Extended(item, Fresh, i)
          /\ Linked(Fresh, previous[position], position)
          /\ RootMoves(Fresh)
  /\ list_size' = list_size + 1
  /\ Calls("insert", i)
  /\ result' = NoItem

Add(i) ==
  /\ list_size < Cardinality(Nodes)
  /\ IF list_size = 0 THEN Alone(i)
     ELSE /\ item' = Extended(item, Fresh, i)
          /\ Linked(Fresh, position, next[position])
          /\ UNCHANGED <<root, position>>
  /\ list_size' = list_size + 1
  /\ Calls("add", i)
  /\ result' = IF list_size = 1 THEN item[root] ELSE i

Replace(i) ==
  /\ item' = IF list_size > 0 THEN [item EXCEPT ![position] = i] ELSE item
  /\ Calls("replace", i)
  /\ result' = NoItem
  /\ UNCHANGED <<next, previous, root, position, list_size>>

ClearList ==
  /\ item' = <<>> /\ next' = <<>> /\ previous' = <<>>
  /\ root' = NoNode /\ position' = NoNode /\ list_size' = 0

\* Del, and Pop, which returns the item, too.
Del ==
  /\ IF list_size <= 1 THEN ClearList
     ELSE /\ item' = Without(item, position)
          /\ next' = Without([next EXCEPT ![previous[position]] = next[position]],
                             position)
          /\ previous' =
               Without([previous EXCEPT ![next[position]] = previous[position]],
                       position)
          /\ position' = next[position]
          /\ root' = IF position = root THEN next[position] ELSE root
          /\ list_size' = list_size - 1
  /\ Calls("delete", NoItem)
  /\ result' = IF list_size = 0 THEN NoItem ELSE item[position]

Peek ==
  /\ list_size > 0
  /\ Calls("peek", NoItem)
  /\ result' = item[position]
  /\ UNCHANGED list

\* The search goes from the root until it is there again.
FindPointer(i) ==
  LET from[n \in Made] ==
        IF item[n] = i THEN n ELSE IF next[n] = root THEN NoNode ELSE from[next[n]]
  IN IF list_size = 0 THEN NoNode ELSE from[root]

IsIn(i) ==
  /\ Calls("isin", i)
  /\ result' = (FindPointer(i) # NoNode)
  /\ UNCHANGED list

Find(i) ==
  /\ Calls("find", i)
  /\ result' = (FindPointer(i) # NoNode)
  /\ position' = IF FindPointer(i) # NoNode THEN FindPointer(i) ELSE position
  /\ UNCHANGED <<nodes, root, list_size>>

MoveTo(op, node) ==
  /\ Calls(op, NoItem)
  /\ position' = IF list_size = 0 THEN NoNode ELSE node
  /\ result' = NoItem
  /\ UNCHANGED <<nodes, root, list_size>>

\* operator++ and operator-- of the two classes.
Forward ==
  MoveTo("++", IF list_size = 0 THEN NoNode
               ELSE IF ~circular /\ next[position] = root THEN position
               ELSE next[position])

Backward ==
  MoveTo("--", IF list_size = 0 THEN NoNode
               ELSE IF ~circular /\ position = root THEN position
               ELSE previous[position])

Beginning == MoveTo("beginning", root)

End == MoveTo("end", IF list_size = 0 THEN NoNode ELSE previous[root])

\* The items of L one by one after the last.  An empty list is assigned L, and
\* then gets its items once more: it is not concatenated to here.
Concatenate(L) ==
  LET items == Contents \o L
  IN
  /\ list_size > 0
  /\ Len(items) <= Cardinality(Nodes)
  /\ IF L = <<>> THEN UNCHANGED list ELSE Rebuilt(items, Len(items))
  /\ Calls("concatenate", Len(L))
  /\ result' = NoItem

\* What Adds to an empty list make of items: the position stays at the first.
Added(items) ==
  IF Len(items) <= 1 THEN items ELSE <<items[1]>> \o Ext!Reverse(Tail(items))

Merge(L1, L2) ==
  LET merged[i \in 0 .. Len(L1), j \in 0 .. Len(L2)] ==
        \* of what follows the first i and j
        IF i = Len(L1) THEN SubSeq(L2, j + 1, Len(L2))
        ELSE IF j = Len(L2) THEN SubSeq(L1, i + 1, Len(L1))
        ELSE IF L1[i + 1] < L2[j + 1] THEN <<L1[i + 1]>> \o merged[i + 1, j]
        ELSE <<L2[j + 1]>> \o merged[i, j + 1]
  IN merged[0, 0]

Mergesort(L) ==
  LET sort[items \in Ext!BoundedSeq(Items, Cardinality(Nodes))] ==
        LET half == Len(items) \div 2
            L1 == Added(SubSeq(items, 1, half))
            L2 == Added(SubSeq(items, half + 1, Len(items)))
        IN Merge(IF Len(L1) > 1 THEN sort[L1] ELSE L1,
                 IF Len(L2) > 1 THEN sort[L2] ELSE L2)
  IN sort[L]

Sort ==
  /\ IF list_size <= 1 THEN UNCHANGED list ELSE Rebuilt(Mergesort(Contents), 1)
  /\ Calls("sort", NoItem)
  /\ result' = NoItem

\* The list is replaced by a copy of itself: the copy constructors, operator=.
Copy ==
  /\ IF list_size = 0 THEN UNCHANGED list
     ELSE Rebuilt(Contents, CHOOSE p \in 1 .. list_size : InOrder[p] = position)
  /\ Calls("copy", NoItem)
  /\ result' = NoItem

Clear == ClearList /\ Calls("clear", NoItem) /\ result' = NoItem

Next ==
  /\ \/ \E i \in Items :
          Insert(i) \/ Add(i) \/ Replace(i) \/ IsIn(i) \/ Find(i)
     \/ Del \/ Peek \/ Forward \/ Backward \/ Beginning \/ End
     \/ \E L \in Ext!BoundedSeq(Items, MaxLength) : Concatenate(L)
     \/ Sort \/ Copy \/ Clear
  /\ UNCHANGED circular

Spec == Init /\ [][Next]_vars

-------------------------------------------------------------------------------
(* Properties.                                                             *)

Current ==
  IF list_size = 0 THEN 0
  ELSE CHOOSE p \in 1 .. list_size : InOrder[p] = position

\* However nodes were linked in and out, sorted or copied, the list is the
\* sequence with a current element that its comment describes
\* (DS_LinkedList.h:44-77).
CursorList == INSTANCE AbstractCursorList
  WITH contents <- Contents, current <- Current

ImplementsCursorList == CursorList!Spec

\* Back is the opposite of forth, for every node, and the circle has them all.
LinksAgree ==
  /\ \A n \in Made : previous[next[n]] = n
  /\ Made = {InOrder[i] : i \in 1 .. list_size}

===============================================================================
