------------------------------- MODULE BPlusTree -------------------------------
(***************************************************************************)
(* DS_BPlusTree.h: keys with their data in leaves that form a list, below  *)
(* pages of keys that lead to them.  The arrays of a page are sequences of *)
(* its size, numbered from 1.  The datum of a key is the key itself, and   *)
(* the caller knows which keys it has put in, as in the header's test.     *)
(***************************************************************************)
EXTENDS Integers, Sequences, FiniteSets

LOCAL Ext == INSTANCE SequencesExt
LOCAL Fun == INSTANCE Functions
LOCAL INSTANCE TLC

CONSTANTS
  order,       \* most keys of a page
  Keys,
  Mixed,       \* bound: keys that are inserted between deletions, too
  MaxPages,    \* bound: pages at a time
  NoPage       \* a null pointer

VARIABLES
  pages,       \* the allocated ones
  root, leftmostLeaf,
  haveList,    \* the caller's: the keys that it has inserted and not deleted
  filling      \* and whether it has deleted none since the tree was empty

vars == <<pages, root, leftmostLeaf, haveList, filling>>

Page == 1 .. MaxPages

TypeOK ==
  /\ DOMAIN pages \subseteq Page
  /\ {root, leftmostLeaf} \subseteq DOMAIN pages \cup {NoPage}
  /\ filling \in BOOLEAN
  /\ \A p \in DOMAIN pages :
       /\ Len(pages[p].keys) \in 1 .. order
       /\ {pages[p].next, pages[p].previous} \subseteq DOMAIN pages \cup {NoPage}
       /\ IF pages[p].isLeaf
            THEN Len(pages[p].data) = Len(pages[p].keys)
            ELSE /\ Len(pages[p].children) = Len(pages[p].keys) + 1
                 /\ Ext!ToSet(pages[p].children) \subseteq DOMAIN pages

leaf(keys, data, previous, next) ==
  [isLeaf |-> TRUE, keys |-> keys, data |-> data, children |-> <<>>,
   previous |-> previous, next |-> next, first |-> 0]

index(keys, children) ==
  [isLeaf |-> FALSE, keys |-> keys, data |-> <<>>, children |-> children,
   previous |-> NoPage, next |-> NoPage, first |-> 0]

Init ==
  /\ pages = <<>>
  /\ root = NoPage /\ leftmostLeaf = NoPage
  /\ haveList = {} /\ filling = TRUE

-------------------------------------------------------------------------------
(* A page: the place of a key, and the branch that leads to it.            *)

Min(S) == CHOOSE n \in S : \A m \in S : n <= m

NewPage(P) == Min(Page \ DOMAIN P)
With(P, p, page) == (p :> page) @@ P

Exists(key, page) == \E i \in DOMAIN page.keys : page.keys[i] = key

\* GetIndexOf.
IndexOf(key, page) == 1 + Cardinality({i \in DOMAIN page.keys : page.keys[i] < key})

\* Slip: a key that is in an index page is looked for on its left.
BranchBefore(key, page) == IndexOf(key, page)

\* branchIndex.
Branch(key, page) == 1 + Cardinality({i \in DOMAIN page.keys : page.keys[i] <= key})

\* keys[0], which is still there when the last key has been deleted.
FirstKey(page) == IF page.keys = <<>> THEN page.first ELSE page.keys[1]

Removed(seq, i) == Ext!RemoveAt(seq, i)

DeleteFromPageAtIndex(i, page) ==
  [page EXCEPT
     !.keys = Removed(@, i),
     !.data = IF page.isLeaf THEN Removed(@, i) ELSE @,
     !.children = IF page.isLeaf THEN @ ELSE Removed(@, i + 1),
     !.first = IF Len(page.keys) = 1 THEN page.keys[1] ELSE 0]

-------------------------------------------------------------------------------
(* Insertion.  What a call on the way down returns: the pages, the page it *)
(* has split off, or NoPage, and the ReturnAction.                         *)

NoAction == [action |-> "NO_ACTION", key1 |-> 0, key2 |-> 0]

\* The keys of a full page that stay in it when one is inserted at i.
Kept(i) == IF i > (order + 1) \div 2 THEN order \div 2 ELSE (order + 1) \div 2

\* Into a leaf, or with a child into an index page.
InsertIntoNode(key, i, child, cur, P, action) ==
  LET page == P[cur]
      keys == Ext!InsertAt(page.keys, i, key)
      data == IF page.isLeaf THEN Ext!InsertAt(page.data, i, key) ELSE <<>>
      children == IF page.isLeaf THEN <<>> ELSE Ext!InsertAt(page.children, i + 1, child)
      n == Kept(i)
      upper(seq, from) == SubSeq(seq, from, Len(seq))
      new == NewPage(P)
      halves ==
        IF page.isLeaf
          THEN LET linked == With(P, cur, leaf(SubSeq(keys, 1, n), SubSeq(data, 1, n),
                                               page.previous, new))
                   right == leaf(upper(keys, n + 1), upper(data, n + 1), cur, page.next)
               IN With(IF page.next = NoPage THEN linked
                       ELSE [linked EXCEPT ![page.next].previous = new], new, right)
          ELSE With(With(P, cur, index(SubSeq(keys, 1, n), SubSeq(children, 1, n + 1))),
                    new, index(upper(keys, n + 2), upper(children, n + 2)))
  IN IF Len(page.keys) < order
       THEN [pages |-> [P EXCEPT ![cur].keys = keys, ![cur].data = data,
                                 ![cur].children = children],
             newPage |-> NoPage, action |-> action]
       ELSE [pages |-> halves, newPage |-> new,
             action |-> IF page.isLeaf THEN action
                        ELSE [action |-> "PUSH_KEY_TO_PARENT", key1 |-> keys[n + 1], key2 |-> 0]]

Insertion(key, P, p) == InsertIntoNode(key, IndexOf(key, P[p]), NoPage, p, P, NoAction).pages

CanRotateLeft(cur, b, P) == b > 1 /\ Len(P[P[cur].children[b - 1]].keys) < order

CanRotateRight(cur, b, P) ==
  b < Len(P[cur].children) /\ Len(P[P[cur].children[b + 1]].keys) < order

\* The first of the full leaf goes to the end of the left one.
RotatedLeft(source, dest, P) ==
  [P EXCEPT ![dest].keys = Append(@, P[source].keys[1]),
            ![dest].data = Append(@, P[source].data[1]),
            ![source].keys = Tail(@), ![source].data = Tail(@)]

\* The last of the full leaf goes to the head of the right one.
RotatedRight(source, dest, P) ==
  [P EXCEPT ![dest].keys = <<Ext!Last(P[source].keys)>> \o @,
            ![dest].data = <<Ext!Last(P[source].data)>> \o @,
            ![source].keys = Ext!Front(@), ![source].data = Ext!Front(@)]

\* The new key takes the place of the first, which goes to the left.
Replaced(key, source, dest, P) ==
  [RotatedLeft(source, dest, P) EXCEPT ![source].keys = <<key>> \o @,
                                       ![source].data = <<key>> \o @]

\* A full leaf with room on its left.
InsertRotatingLeft(key, cur, b, P) ==
  LET source == P[cur].children[b]
      dest == P[cur].children[b - 1]
      after == IF key > P[source].keys[1]
                 THEN Insertion(key, RotatedLeft(source, dest, P), source)
                 ELSE Replaced(key, source, dest, P)
  IN [pages |-> [after EXCEPT ![cur].keys[b - 1] = after[source].keys[1]],
      newPage |-> NoPage,
      action |-> [action |-> "REPLACE_KEY1_WITH_KEY2",
                  key1 |-> P[source].keys[1],
                  key2 |-> IF key > P[source].keys[1] THEN P[source].keys[2] ELSE key]]

\* A full leaf with room on its right.
InsertRotatingRight(key, cur, b, P) ==
  LET source == P[cur].children[b]
      dest == P[cur].children[b + 1]
      after == IF key < Ext!Last(P[source].keys)
                 THEN Insertion(key, RotatedRight(source, dest, P), source)
                 ELSE [P EXCEPT ![dest].keys = <<key>> \o @, ![dest].data = <<key>> \o @]
  IN [pages |-> [after EXCEPT ![cur].keys[b] = after[dest].keys[1]],
      newPage |-> NoPage,
      action |-> [action |-> "REPLACE_KEY1_WITH_KEY2",
                  key1 |-> P[dest].keys[1], key2 |-> after[dest].keys[1]]]

\* The key above the leaf whose first key a rotation has changed.
WithReplacedKey(cur, b, down) ==
  IF /\ down.action.action = "REPLACE_KEY1_WITH_KEY2"
     /\ b > 1
     /\ down.pages[cur].keys[b - 1] = down.action.key1
    THEN [down.pages EXCEPT ![cur].keys[b - 1] = down.action.key2]
    ELSE down.pages

RECURSIVE InsertBranchDown(_, _, _)
InsertBranchDown(key, cur, P) ==
  LET b == Branch(key, P[cur])
      child == P[cur].children[b]
      full == P[child].isLeaf /\ Len(P[child].keys) = order
      down == InsertBranchDown(key, child, P)
      Q == WithReplacedKey(cur, b, down)
  IN IF P[cur].isLeaf
       THEN InsertIntoNode(key, b, NoPage, cur, P, NoAction)
     ELSE IF full /\ CanRotateLeft(cur, b, P)
       THEN InsertRotatingLeft(key, cur, b, P)
     ELSE IF full /\ CanRotateRight(cur, b, P)
       THEN InsertRotatingRight(key, cur, b, P)
     ELSE IF down.newPage = NoPage
       THEN [down EXCEPT !.pages = Q]
       ELSE InsertIntoNode(IF Q[down.newPage].isLeaf THEN Q[down.newPage].keys[1]
                           ELSE down.action.key1,
                           b, down.newPage, cur, Q, down.action)

\* Insert into a tree with the root r: a root that splits gets a new one above.
Inserted(key, r, P) ==
  LET down == InsertBranchDown(key, r, P)
      Q == down.pages
      newKey == IF Q[down.newPage].isLeaf THEN Q[down.newPage].keys[1] ELSE down.action.key1
  IN IF down.newPage = NoPage THEN [pages |-> Q, root |-> r]
     ELSE [pages |-> With(Q, NewPage(Q), index(<<newKey>>, <<r, down.newPage>>)),
           root |-> NewPage(Q)]

-------------------------------------------------------------------------------
(* Calls.  Nobody sees a page's address; between calls the pages have the  *)
(* numbers of their places, from the root down.                            *)

RECURSIVE BreadthFirst(_, _)
BreadthFirst(queue, P) ==
  IF queue = <<>> THEN <<>>
  ELSE <<Head(queue)>> \o BreadthFirst(Tail(queue) \o P[Head(queue)].children, P)

\* The place of each page, those that the tree does not lead to at the end.
Places(P, r) ==
  LET inTree == IF r = NoPage THEN <<>> ELSE BreadthFirst(<<r>>, P)
      all == inTree \o Ext!SetToSeq(DOMAIN P \ Ext!ToSet(inTree))
  IN [p \in Page \cup {NoPage} |->
        IF p \in DOMAIN P THEN CHOOSE i \in DOMAIN all : all[i] = p ELSE p]

Becomes(P, r, leftmost) ==
  \E place \in {Places(P, r)} :
    /\ root' = place[r]
    /\ leftmostLeaf' = place[leftmost]
    /\ pages' =
         [i \in 1 .. Cardinality(DOMAIN P) |->
            LET p == CHOOSE p \in DOMAIN P : place[p] = i
            IN [P[p] EXCEPT !.children = [c \in DOMAIN @ |-> place[@[c]]],
                            !.next = place[@], !.previous = place[@]]]

\* The caller's keys are new: a full leaf that can rotate is not searched for the
\* key.  It fills the tree and then deletes, as in the test, or mixes insertions and
\* deletions of few keys.
Insert(key) ==
  LET first == NewPage(pages)
      after == Inserted(key, root, pages)
  IN
  /\ key \notin haveList
  /\ Cardinality(DOMAIN pages) + 3 <= MaxPages
  /\ haveList' = haveList \cup {key}
  /\ filling \/ haveList' \subseteq Mixed
  /\ UNCHANGED filling
  /\ IF root = NoPage
       THEN Becomes(With(pages, first, leaf(<<key>>, <<key>>, NoPage, NoPage)), first, first)
       ELSE Becomes(after.pages, after.root, leftmostLeaf)

-------------------------------------------------------------------------------
(* Deletion.  What a call on the way down returns: the pages, whether its  *)
(* page has too few keys, the key of SET_BRANCH_KEY, if that is the        *)
(* action, and the leftmost leaf.                                          *)

Underflows(page) == Len(page.keys) < order \div 2

HasExcess(page) == Len(page.keys) > order \div 2

Small == order <= 3

\* From the left one.
BorrowLeft(b, cur, P, setKey) ==
  LET dest == P[cur].children[b]
      source == P[cur].children[b - 1]
      last == Ext!Last(P[source].keys)
      moved == [P EXCEPT
        ![dest].keys = <<IF P[dest].isLeaf THEN last ELSE P[cur].keys[b - 1]>> \o @,
        ![dest].data = IF P[dest].isLeaf THEN <<Ext!Last(P[source].data)>> \o @ ELSE @,
        ![dest].children = IF P[dest].isLeaf THEN @
                           ELSE <<Ext!Last(P[source].children)>> \o @,
        ![cur].keys[b - 1] = last,
        ![source].keys = Ext!Front(@),
        ![source].data = IF P[dest].isLeaf THEN Ext!Front(@) ELSE @,
        ![source].children = IF P[dest].isLeaf THEN @ ELSE Ext!Front(@)]
  IN [pages |-> moved, underflow |-> FALSE, setKey |-> setKey]

\* From the right one; an index page's first key is what is above it.
BorrowRight(b, cur, P, rightRootKey, setKey) ==
  LET dest == P[cur].children[b]
      source == P[cur].children[b + 1]
      wasEmpty == P[dest].keys = <<>>
      first == P[source].keys[1]
      moved == [P EXCEPT
        ![dest].keys = Append(@, IF P[dest].isLeaf THEN first ELSE rightRootKey),
        ![dest].data = IF P[dest].isLeaf THEN Append(@, P[source].data[1]) ELSE @,
        ![dest].children = IF P[dest].isLeaf THEN @
                           ELSE Append(@, P[source].children[1]),
        ![cur].keys[b] = IF P[dest].isLeaf THEN P[source].keys[2] ELSE first,
        ![source].keys = Tail(@),
        ![source].data = IF P[dest].isLeaf THEN Tail(@) ELSE @,
        ![source].children = IF P[dest].isLeaf THEN @ ELSE Tail(@)]
  IN [pages |-> IF P[dest].isLeaf /\ Small /\ wasEmpty /\ b > 1
                  THEN [moved EXCEPT ![cur].keys[b - 1] = first] ELSE moved,
      underflow |-> FALSE,
      setKey |-> IF P[dest].isLeaf
                   THEN IF Small /\ wasEmpty /\ b = 1 THEN {first} ELSE setKey
                 ELSE IF setKey = {} THEN {FirstKey(P[dest])} ELSE setKey]

\* Slip: the leaf before the one that goes still points to it.
LinkedPast(source, P) ==
  IF P[source].next = NoPage THEN P
  ELSE [P EXCEPT ![P[source].next].previous = P[source].previous]

\* Without a leaf, in the list.
Unlinked(source, P) ==
  [q \in DOMAIN P |->
     [P[q] EXCEPT !.next = IF q = P[source].previous THEN P[source].next ELSE @,
                  !.previous = IF q = P[source].next THEN P[source].previous ELSE @]]

\* The one on the right goes into the one on the left.
Merge(b, cur, P, rightRootKey, setKey) ==
  LET l == IF b < Len(P[cur].children) THEN b ELSE b - 1
      dest == P[cur].children[l]
      source == P[cur].children[l + 1]
      merged == [P EXCEPT
        ![dest].keys = @ \o (IF P[dest].isLeaf THEN <<>> ELSE <<rightRootKey>>)
                         \o P[source].keys,
        ![dest].data = @ \o P[source].data,
        ![dest].children = @ \o P[source].children]
      child == P[cur].children[b]
      keyed == IF Small /\ b > 1 /\ P[child].isLeaf
                 THEN [merged EXCEPT ![cur].keys[b - 1] = FirstKey(merged[child])]
                 ELSE merged
      less == [keyed EXCEPT ![cur] = DeleteFromPageAtIndex(l, @)]
      unlinked == IF P[source].isLeaf THEN Unlinked(source, less) ELSE less
  IN [pages |-> Fun!Restrict(unlinked, DOMAIN P \ {source}),
      underflow |-> Underflows(less[cur]),
      setKey |-> IF b = 1 /\ P[dest].isLeaf THEN {FirstKey(merged[dest])} ELSE setKey]

FixUnderflow(b, cur, P, rightRootKey, setKey) ==
  IF b > 1 /\ HasExcess(P[P[cur].children[b - 1]])
    THEN BorrowLeft(b, cur, P, setKey)
  ELSE IF b < Len(P[cur].children) /\ HasExcess(P[P[cur].children[b + 1]])
    THEN BorrowRight(b, cur, P, rightRootKey, setKey)
  ELSE Merge(b, cur, P, rightRootKey, setKey)

RightRootKey(b, page) ==
  IF b <= Len(page.keys) THEN page.keys[b] ELSE page.keys[b - 1]

\* Slip: the key above a leaf stays when the leaf's first one goes.
KeyAboveStays(b, cur, first, P) == P

KeyAbove(b, cur, first, P) ==
  IF b > 1 THEN [P EXCEPT ![cur].keys[b - 1] = first] ELSE P

\* The leaf below cur loses the key.
DeleteFromLeaf(key, b, cur, P) ==
  LET child == P[cur].children[b]
      i == IndexOf(key, P[child])
      less == [P EXCEPT ![child] = DeleteFromPageAtIndex(i, @)]
      first == FirstKey(less[child])
  IN [pages |-> IF i = 1 THEN KeyAbove(b, cur, first, less) ELSE less,
      underflow |-> Underflows(less[child]),
      setKey |-> IF i = 1 /\ b = 1 THEN {first} ELSE {}]

\* The key was found in the page, so that the deletion has taken it away.
SetsBranchKey(key, page) == Exists(key, page)

RECURSIVE FindDeleteRebalance(_, _, _, _)
FindDeleteRebalance(key, cur, P, rightRootKey) ==
  LET b == Branch(key, P[cur])
      child == P[cur].children[b]
      down == FindDeleteRebalance(key, child, P, RightRootKey(b, P[cur]))
      set == down.setKey # {} /\ SetsBranchKey(key, P[cur])
      below == IF P[child].isLeaf THEN DeleteFromLeaf(key, b, cur, P)
               ELSE IF set
                 THEN [down EXCEPT !.setKey = {},
                                   !.pages[cur].keys[b - 1] = CHOOSE k \in down.setKey : TRUE]
               ELSE down
      rootKey == IF P[child].isLeaf THEN rightRootKey
                 ELSE RightRootKey(b, below.pages[cur])
  IN IF below.underflow
       THEN FixUnderflow(b, cur, below.pages, rootKey, below.setKey)
       ELSE below

RECURSIVE LeafOf(_, _, _)
LeafOf(key, p, P) ==
  IF P[p].isLeaf THEN p ELSE LeafOf(key, P[p].children[Branch(key, P[p])], P)

\* Get.
Has(key) == root # NoPage /\ Exists(key, pages[LeafOf(key, root, pages)])

DeleteFromRootLeaf(key) ==
  LET less == DeleteFromPageAtIndex(IndexOf(key, pages[root]), pages[root])
  IN IF less.keys = <<>>
       THEN Becomes(Fun!Restrict(pages, DOMAIN pages \ {root}), NoPage, NoPage)
       ELSE Becomes(With(pages, root, less), root, leftmostLeaf)

\* A root without keys gives way to its only child.  A leaf that goes has one on
\* its left, so that it is never the leftmost one.
DeleteFromBranches(key) ==
  LET after == FindDeleteRebalance(key, root, pages, pages[root].keys[1])
      P == after.pages
  IN IF after.underflow /\ P[root].keys = <<>>
       THEN Becomes(Fun!Restrict(P, DOMAIN P \ {root}), P[root].children[1], leftmostLeaf)
       ELSE Becomes(P, root, leftmostLeaf)

Delete(key) ==
  /\ haveList' = haveList \ {key}
  /\ filling' = (haveList' = {})
  /\ IF ~Has(key) THEN UNCHANGED <<pages, root, leftmostLeaf>>
     ELSE IF root = leftmostLeaf THEN DeleteFromRootLeaf(key)
     ELSE DeleteFromBranches(key)

Clear ==
  /\ pages' = <<>>
  /\ root' = NoPage /\ leftmostLeaf' = NoPage
  /\ haveList' = {} /\ filling' = TRUE

Next ==
  \/ \E key \in Keys : Insert(key) \/ Delete(key)
  \/ Clear

Spec == Init /\ [][Next]_vars

-------------------------------------------------------------------------------
(* Properties.                                                             *)

RECURSIVE Below(_)
Below(p) ==
  {p} \cup IF pages[p].isLeaf THEN {}
           ELSE UNION {Below(c) : c \in Ext!ToSet(pages[p].children)}

\* The leaves from here along the list.
RECURSIVE Leaves(_)
Leaves(p) == IF p \in DOMAIN pages THEN <<p>> \o Leaves(pages[p].next) ELSE <<>>

\* What ValidateTree of the header asserts after every insertion and deletion:
\* no page but the root has too few keys, and the first key of every leaf but the
\* leftmost is the one above it (DS_BPlusTree.h:1011-1029).
ValidTree ==
  root # NoPage =>
    \A p \in Below(root) :
      /\ p # root => ~Underflows(pages[p])
      /\ ~pages[p].isLeaf =>
           LET children == pages[p].children IN
           pages[children[1]].isLeaf =>
             /\ pages[children[1]].keys[1] < pages[p].keys[1]
             /\ \A i \in DOMAIN pages[p].keys :
                  pages[children[i + 1]].keys[1] = pages[p].keys[i]

\* "RakAssert(b==true)" for what it has, "RakAssert(b==false)" for what it has
\* not: a key is found from the root as long as it is in (DS_BPlusTree.h:1131-1141).
EveryKeyIsFound == \A key \in Keys : Has(key) <=> key \in haveList

\* The list of the leaves, from which the size is counted, has every key once and
\* in order, whatever leaves have been split off or merged, and can be walked
\* back; every page that is allocated is in the tree (DS_BPlusTree.h:546-553,
\* 460-472, 1142).
LeavesListed ==
  LET list == Leaves(leftmostLeaf)
      keys == Ext!FlattenSeq([i \in DOMAIN list |-> pages[list[i]].keys])
  IN /\ Ext!ToSet(keys) = haveList
     /\ \A i \in 1 .. Len(keys) - 1 : keys[i] < keys[i + 1]
     /\ \A i \in DOMAIN list :
          pages[list[i]].previous = IF i = 1 THEN NoPage ELSE list[i - 1]
     /\ DOMAIN pages = IF root = NoPage THEN {} ELSE Below(root)

\* The tree leads to its keys, and so do its leaves: the three above.
KeysKept == ValidTree /\ EveryKeyIsFound /\ LeavesListed

===============================================================================
