--------------------------- MODULE BinarySearchTree ---------------------------
(***************************************************************************)
(* DS_BinarySearchTree.h: a binary search tree, and the one that balances  *)
(* itself (AVLBalancedBinarySearchTree).  A tree is a record of its item   *)
(* and the trees to its left and right; a pointer to a node is its item.   *)
(* IsIn is left out: it calls a function that does not exist.              *)
(***************************************************************************)
EXTENDS Integers, Sequences

LOCAL Ext == INSTANCE SequencesExt

CONSTANTS
  Keys,         \* numbers
  NoNode,       \* a null pointer
  Balancing     \* whether trees balance themselves: a set of Booleans

VARIABLES
  avl,
  root,
  BinarySearchTree_size,
  call, result  \* the last call and what it returned: AbstractSet

vars == <<avl, root, BinarySearchTree_size, call, result>>

node(left, item, right) == [left |-> left, item |-> item, right |-> right]

RECURSIVE Items(_)
Items(t) ==
  IF t = NoNode THEN {} ELSE Items(t.left) \cup {t.item} \cup Items(t.right)

\* Every item is between those of its subtrees.
RECURSIVE Sorted(_)
Sorted(t) ==
  t # NoNode =>
    /\ Sorted(t.left) /\ Sorted(t.right)
    /\ \A i \in Items(t.left) : i < t.item
    /\ \A i \in Items(t.right) : i > t.item

TypeOK ==
  /\ avl \in BOOLEAN
  /\ Items(root) \subseteq Keys
  /\ Sorted(root)
  /\ BinarySearchTree_size \in Nat

Calls(op, key) == call' = [op |-> op, key |-> key]

Init ==
  /\ avl \in Balancing
  /\ root = NoNode
  /\ BinarySearchTree_size = 0
  /\ call = [op |-> "clear", key |-> 0]
  /\ result = 0

-------------------------------------------------------------------------------
(* Balance.                                                                *)

RECURSIVE Height(_)
Height(t) ==
  IF t = NoNode THEN 0
  ELSE 1 + (IF Height(t.left) > Height(t.right)
              THEN Height(t.left) ELSE Height(t.right))

Difference(t) == Height(t.right) - Height(t.left)

RightHigher(t) == Height(t.right) > Height(t.left)
LeftHigher(t) == Height(t.left) > Height(t.right)

\* Around the child of the top of t.
RotateLeft(t) ==
  node(node(t.left, t.item, t.right.left), t.right.item, t.right.right)
RotateRight(t) ==
  node(t.left.left, t.left.item, node(t.left.right, t.item, t.right))

DoubleRotateLeft(t) == RotateLeft([t EXCEPT !.right = RotateRight(@)])
DoubleRotateRight(t) == RotateRight([t EXCEPT !.left = RotateLeft(@)])

\* Slip: never two rotations.
RotatedOnce(t) ==
  CASE Difference(t) = 2 -> RotateLeft(t)
    [] Difference(t) = -2 -> RotateRight(t)
    [] OTHER -> t

\* What one round of BalanceTree makes of the subtree under current.
Rotated(t) ==
  CASE Difference(t) = 2 ->
         IF RightHigher(t.right) THEN RotateLeft(t) ELSE DoubleRotateLeft(t)
    [] Difference(t) = -2 ->
         IF LeftHigher(t.left) THEN RotateRight(t) ELSE DoubleRotateRight(t)
    [] OTHER -> t

\* A rotation puts current below its child, where the loop comes next.
RECURSIVE Rebalanced(_)
Rebalanced(t) == IF Rotated(t) = t THEN t ELSE Rebalanced(Rotated(t))

-------------------------------------------------------------------------------
(* Search, insertion and removal.                                          *)

\* Find, and with it FindParent; only the nodes on the way are seen.
RECURSIVE Find(_, _)
Find(t, key) ==
  CASE t = NoNode -> NoNode
    [] key = t.item -> t
    [] key < t.item -> Find(t.left, key)
    [] key > t.item -> Find(t.right, key)

RECURSIVE Inserted(_, _)
Inserted(t, key) ==
  CASE t = NoNode -> node(NoNode, key, NoNode)
    [] key = t.item -> t
    [] key < t.item -> [t EXCEPT !.left = Inserted(@, key)]
    [] key > t.item -> [t EXCEPT !.right = Inserted(@, key)]

\* From the new node up, until a rotation.
RECURSIVE InsertedAndBalanced(_, _)
InsertedAndBalanced(t, key) ==
  LET below(s) == InsertedAndBalanced(s, key)
      rotatedBelow(s) == below(s) # Inserted(s, key)
  IN CASE t = NoNode -> node(NoNode, key, NoNode)
       [] key = t.item -> t
       [] key < t.item ->
            LET new == [t EXCEPT !.left = below(@)]
            IN IF rotatedBelow(t.left) THEN new ELSE Rotated(new)
       [] key > t.item ->
            LET new == [t EXCEPT !.right = below(@)]
            IN IF rotatedBelow(t.right) THEN new ELSE Rotated(new)

\* A tree whose subtree has lost a node: the loop of Del's BalanceTree comes
\* through all nodes above that one.
Fixed(t) == IF avl THEN Rebalanced(t) ELSE t

RECURSIVE First(_)
First(t) == IF t.left = NoNode THEN t.item ELSE First(t.left)

RECURSIVE WithoutFirst(_)
WithoutFirst(t) ==
  IF t.left = NoNode THEN t.right
  ELSE Fixed([t EXCEPT !.left = WithoutFirst(@)])

\* Slip: the item that replaces another stays where it was, too.
NextStays(t) ==
  CASE t.left = NoNode -> t.right
    [] t.right = NoNode -> t.left
    [] OTHER -> Fixed(node(t.left, First(t.right), t.right))

\* The tree without its top, whose item the next greater one replaces if there
\* are two children.
WithoutTop(t) ==
  CASE t.left = NoNode -> t.right
    [] t.right = NoNode -> t.left
    [] OTHER -> Fixed(node(t.left, First(t.right), WithoutFirst(t.right)))

RECURSIVE Without(_, _)
Without(t, key) ==
  CASE key = t.item -> WithoutTop(t)
    [] key < t.item -> Fixed([t EXCEPT !.left = Without(@, key)])
    [] key > t.item -> Fixed([t EXCEPT !.right = Without(@, key)])

Add(key) ==
  /\ root' = IF avl THEN InsertedAndBalanced(root, key) ELSE Inserted(root, key)
  /\ BinarySearchTree_size' = IF Find(root, key) = NoNode
                                THEN BinarySearchTree_size + 1
                                ELSE BinarySearchTree_size
  /\ result' = 0
  /\ Calls("add", key)
  /\ UNCHANGED avl

\* The only node goes whatever key is asked for.
Del(key) ==
  /\ IF BinarySearchTree_size = 1
       THEN root' = NoNode /\ BinarySearchTree_size' = 0
     ELSE IF Find(root, key) # NoNode
       THEN /\ root' = Without(root, key)
            /\ BinarySearchTree_size' = BinarySearchTree_size - 1
       ELSE UNCHANGED <<root, BinarySearchTree_size>>
  /\ result' = 0
  /\ Calls("remove", key)
  /\ UNCHANGED avl

GetPointerToNode(key) ==
  /\ result' = (Find(root, key) # NoNode)
  /\ Calls("find", key)
  /\ UNCHANGED <<avl, root, BinarySearchTree_size>>

Size ==
  /\ result' = BinarySearchTree_size
  /\ Calls("size", 0)
  /\ UNCHANGED <<avl, root, BinarySearchTree_size>>

Clear ==
  /\ root' = NoNode
  /\ BinarySearchTree_size' = 0
  /\ result' = 0
  /\ Calls("clear", 0)
  /\ UNCHANGED avl

-------------------------------------------------------------------------------
(* Traversals, the walks of which know where they come from only by the    *)
(* side of the parent they have come up from.                              *)

\* The side on which a node hangs: the direction that FindParent leaves.
RECURSIVE Parent(_, _)
Parent(t, key) ==
  LET child == IF key < t.item THEN t.left ELSE t.right
      side == IF key < t.item THEN "LEFT" ELSE "RIGHT"
  IN CASE key = t.item -> [node |-> NoNode, direction |-> "ROOT"]
       [] key # t.item /\ child.item = key -> [node |-> t, direction |-> side]
       [] OTHER -> Parent(child, key)

\* Slip: a node is printed on the way up from its right, too.
PrintsAlways(direction, just_printed) == ~just_printed

Prints(direction, just_printed) == direction # "RIGHT" /\ ~just_printed

RECURSIVE Inorder(_, _, _, _)
Inorder(current, direction, just_printed, array) ==
  CASE Len(array) = BinarySearchTree_size -> array
    [] Len(array) # BinarySearchTree_size /\ current.left # NoNode /\ direction = "ROOT" ->
         Inorder(current.left, "ROOT", just_printed, array)
    [] OTHER ->
         IF Prints(direction, just_printed)
           THEN Inorder(current, direction, TRUE, Append(array, current.item))
         ELSE IF current.right # NoNode /\ direction # "RIGHT"
           THEN Inorder(current.right, "ROOT", FALSE, array)
         ELSE LET up == Parent(root, current.item)
              IN Inorder(up.node, up.direction, FALSE, array)

DisplayInorder == Inorder(root, "ROOT", FALSE, <<>>)

RECURSIVE Preorder(_, _, _)
Preorder(current, direction, array) ==
  IF Len(array) = BinarySearchTree_size THEN array
  ELSE IF current.left # NoNode /\ direction = "ROOT"
    THEN Preorder(current.left, "ROOT", Append(array, current.left.item))
  ELSE IF current.right # NoNode /\ direction # "RIGHT"
    THEN Preorder(current.right, "ROOT", Append(array, current.right.item))
  ELSE LET up == Parent(root, current.item)
       IN Preorder(up.node, up.direction, array)

DisplayPreorder ==
  IF BinarySearchTree_size = 0 THEN <<>> ELSE Preorder(root, "ROOT", <<root.item>>)

RECURSIVE Postorder(_)
Postorder(t) ==
  IF t = NoNode THEN <<>>
  ELSE Postorder(t.left) \o Postorder(t.right) \o <<t.item>>

DisplayPostorder == Postorder(root)

\* With a queue of the nodes to come.
RECURSIVE BreadthFirst(_)
BreadthFirst(tree_queue) ==
  LET present(t) == t # NoNode
      current == Head(tree_queue)
      children == SelectSeq(<<current.left, current.right>>, present)
  IN IF tree_queue = <<>> THEN <<>>
     ELSE <<current.item>> \o BreadthFirst(Tail(tree_queue) \o children)

DisplayBreadthFirstSearch ==
  BreadthFirst(IF root = NoNode THEN <<>> ELSE <<root>>)

\* Slip: the children are copied before their parents.
ChildrenFirst == DisplayPostorder

CopyOrder == DisplayBreadthFirstSearch

\* The items are added to the copy, without balance.
Copied ==
  LET copies[n \in 0 .. Len(CopyOrder)] ==
        IF n = 0 THEN NoNode ELSE Inserted(copies[n - 1], CopyOrder[n])
  IN copies[Len(CopyOrder)]

\* The copy constructor and operator=: the tree becomes a copy of itself.
Copy ==
  /\ root' = Copied
  /\ result' = 0
  /\ Calls("copy", 0)
  /\ UNCHANGED <<avl, BinarySearchTree_size>>

Next ==
  \/ \E key \in Keys : Add(key) \/ Del(key) \/ GetPointerToNode(key)
  \/ Size \/ Clear \/ Copy

Spec == Init /\ [][Next]_vars

-------------------------------------------------------------------------------
(* Properties.                                                             *)

RECURSIVE Balanced(_)
Balanced(t) ==
  t # NoNode =>
    /\ Difference(t) \in {-1, 0, 1}
    /\ Balanced(t.left) /\ Balanced(t.right)

\* "An AVLBalancedBinarySearchTree is a binary tree that is always balanced"
\* (DS_BinarySearchTree.h:141).  After a removal BalanceTree turns twice where
\* the higher child has two subtrees of the same height, which leaves a node
\* below without balance when there are eight nodes.
AlwaysBalanced == avl => Balanced(root)

\* An addition to a balanced tree leaves it balanced, though at most one rotation
\* follows it (BalanceTree with rotateOnce, DS_BinarySearchTree.h:167-220).
AddKeepsBalance ==
  [][call'.op = "add" /\ AlwaysBalanced => AlwaysBalanced']_vars

\* A copy has the same shape, though its nodes are added one by one and no
\* rotation follows: its balance is that of the original
\* (DS_BinarySearchTree.h:985-1081).
CopyKeepsShape == [][call'.op = "copy" => root' = root]_vars

RECURSIVE Walk(_)
Walk(t) ==
  IF t = NoNode THEN <<>> ELSE <<t.item>> \o Walk(t.left) \o Walk(t.right)

\* The walks that keep no stack, but a direction that every search overwrites,
\* print each item once and in their order (DS_BinarySearchTree.h:777-901).
TraversalsAgree ==
  /\ Ext!ToSet(DisplayInorder) = Items(root)
  /\ \A i \in 1 .. Len(DisplayInorder) - 1 : DisplayInorder[i] < DisplayInorder[i + 1]
  /\ DisplayPreorder = Walk(root)

\* Whatever nodes are turned, replaced or copied, no item is lost or comes
\* back, and the size is the number of them (DS_BinarySearchTree.h:215-761).
Members == INSTANCE AbstractSet WITH members <- Items(root)

\* But it is not so that del "deletes the node containing element if the element is
\* in the tree" (DS_BinarySearchTree.h:52) where the tree has one item, which goes
\* whatever is asked for (lines 551-555).
LosesItsOnly ==
  call'.op = "remove" /\ BinarySearchTree_size = 1 /\ call'.key \notin Items(root)

ImplementsSet ==
  /\ Members!Init
  /\ [][~LosesItsOnly => Members!Next \/ UNCHANGED Members!vars]_vars

===============================================================================
