------------------------------ MODULE MCContainers ------------------------------
(***************************************************************************)
(* A small instance, for TLC, of the data structures of RakNet's headers.  *)
(* They do not meet; a behaviour is one of one of them, while the others   *)
(* stay as they start.                                                     *)
(***************************************************************************)
EXTENDS Collections

LOCAL INSTANCE TLC

CONSTANTS HASH_SIZE, MaxBits, NoNode, order, MaxPages

VARIABLES
  isMaxHeap, heap, optimizeNextSeriesPush, series, heapResult,
  nodeList, size, hashCall, hashResult,
  ranges, rangesWritten,
  circular, item, next, previous, listRoot, position, nodes, linkedCall,
  linkedResult,
  avl, root, BinarySearchTree_size, treeCall, treeResult,
  bigEndian, data, readOffset, written, ends, sent, read, failed,
  pages, pagesRoot, leftmostLeaf, haveList, filling,
  allow_unlinkedNodes, adjacencyLists, isValidPath, rootNode, costMatrix,
  leastNodeArray, known, late

Heap == INSTANCE Heap
  WITH Weights <- Keys, MaxSize <- MaxSize + 2, result <- heapResult

Hash == INSTANCE Hash
  WITH MaxNodes <- MaxSize, call <- hashCall,
       result <- hashResult

\* range_type has three bits.
Ranges == INSTANCE RangeList
  WITH Indices <- 0 .. 7, IndexBits <- 3, MaxRanges <- MaxSize,
       written <- rangesWritten

Linked == INSTANCE LinkedList
  WITH Items <- 1 .. 2, Nodes <- 1 .. 4, MaxLength <- 2, root <- listRoot,
       list_size <- nodes, call <- linkedCall, result <- linkedResult

Tree == INSTANCE BinarySearchTree
  WITH Keys <- 1 .. 5, Balancing <- BOOLEAN, call <- treeCall,
       result <- treeResult

\* A flag, numbers of one, two and three bytes, a number that has or has not
\* changed, numbers with leading zeros and without, one that a cast cuts, numbers
\* at and past the ends of a range of more than a byte, and floats at and past
\* the ends of theirs.
Written ==
  {[kind |-> "bool", value |-> 1], [kind |-> "byte", value |-> 200],
   [kind |-> "word", value |-> 300], [kind |-> "uint24_t", value |-> 70000],
   [kind |-> "delta", value |-> 300, lastValue |-> 300],
   [kind |-> "delta", value |-> 5, lastValue |-> 300],
   [kind |-> "compressed", value |-> 5], [kind |-> "compressed", value |-> 512],
   [kind |-> "compressed delta", value |-> 5, lastValue |-> 5],
   [kind |-> "compressed delta", value |-> 512, lastValue |-> 5],
   [kind |-> "casted", value |-> 300]}
  \cup [kind : {"range"}, value : {2, 258}, minimum : {2}, maximum : {258},
        allowOutsideRange : BOOLEAN]
  \cup {[kind |-> "range", value |-> 1000, minimum |-> 2, maximum |-> 258,
         allowOutsideRange |-> TRUE]}
  \cup [kind : {"float"}, value : {-200, 1, 201}, scale : {200}]

Bits == INSTANCE BitStream WITH Items <- Written, MaxItems <- 2

\* Five keys come and go; eight fill a tree of three levels whose index pages can
\* borrow from each other.
Leaves == INSTANCE BPlusTree
  WITH Keys <- 1 .. 8, Mixed <- 1 .. 5, root <- pagesRoot

\* A way of three connections may weigh less than a single one, or as much.
Graph == INSTANCE WeightedGraph
  WITH Nodes <- 1 .. 4, Weights <- {1, 3}, INFINITE_WEIGHT <- 20,
       MaxConnections <- 3, MaxLate <- 1

\* Which address a page gets is all the same to the pool.
PageSymmetry == Permutations(Pages)

heapVars == <<isMaxHeap, heap, optimizeNextSeriesPush, series, heapResult>>
hashVars == <<nodeList, size, hashCall, hashResult>>
rangesVars == <<ranges, rangesWritten>>
linkedVars == <<circular, item, next, previous, listRoot, position, nodes,
  linkedCall, linkedResult>>
treeVars == <<avl, root, BinarySearchTree_size, treeCall, treeResult>>
bitsVars == <<bigEndian, data, readOffset, written, ends, sent, read, failed>>
leavesVars == <<pages, pagesRoot, leftmostLeaf, haveList, filling>>
graphVars == <<allow_unlinkedNodes, adjacencyLists, isValidPath, rootNode,
  costMatrix, leastNodeArray, known, late>>

others == <<heapVars, hashVars, rangesVars, linkedVars, treeVars, bitsVars,
  leavesVars, graphVars>>

vars == <<collections, others>>

\* What another part may start with does not matter to this one.
Init ==
  /\ part \in {"blocks", "queue", "list", "orderedlist", "map", "heap", "hash",
               "ranges", "linked", "tree", "bits", "leaves",
               "graph"}
  /\ CollectionsInit /\ Heap!Init
  /\ Hash!Init /\ Ranges!Init /\ Linked!Init /\ Tree!Init /\ Bits!Init
  /\ Leaves!Init /\ Graph!Init
  /\ part # "blocks" => \A n \in PageSizes : blocksPerPage <= n
  /\ part # "heap" => isMaxHeap
  /\ part # "linked" => circular
  /\ part # "tree" => avl
  /\ part # "bits" => bigEndian["writer"] /\ bigEndian["reader"]
  /\ part # "graph" => allow_unlinkedNodes

\* One of the parts that are not collections moves.
OtherMoves ==
  \/ part = "heap" /\ Heap!Next
  \/ part = "hash" /\ Hash!Next
  \/ part = "ranges" /\ Ranges!Next
  \/ part = "linked" /\ Linked!Next
  \/ part = "tree" /\ Tree!Next
  \/ part = "bits" /\ Bits!Next
  \/ part = "leaves" /\ Leaves!Next
  \/ part = "graph" /\ Graph!Next

OtherNext ==
  /\ OtherMoves
  /\ part # "heap" => UNCHANGED heapVars
  /\ part # "hash" => UNCHANGED hashVars
  /\ part # "ranges" => UNCHANGED rangesVars
  /\ part # "linked" => UNCHANGED linkedVars
  /\ part # "tree" => UNCHANGED treeVars
  /\ part # "bits" => UNCHANGED bitsVars
  /\ part # "leaves" => UNCHANGED leavesVars
  /\ part # "graph" => UNCHANGED graphVars

Next ==
  \/ CollectionsNext /\ UNCHANGED others
  \/ OtherNext /\ UNCHANGED collections

Spec == Init /\ [][Next]_vars

-------------------------------------------------------------------------------
(* The properties, which the parts' modules explain.  A state or a step    *)
(* counts for the part it belongs to.                                      *)

\* The parts keep their types.
TypeOK ==
  /\ Blocks!TypeOK /\ Queue!TypeOK /\ List!TypeOK /\ Ordered!TypeOK
  /\ Heap!TypeOK /\ Hash!TypeOK /\ Ranges!TypeOK /\ Linked!TypeOK
  /\ Tree!TypeOK /\ Bits!TypeOK /\ Leaves!TypeOK /\ Graph!TypeOK

\* The heap is a priority queue.
HeapIsPriorityQueue ==
  /\ Heap!Queue!Init
  /\ [][Takes("heap", Heap!Queue!Next, Heap!Queue!vars)]_vars

\* The hash is a stack for each key.
HashIsStacks ==
  /\ Hash!Stacks!Init
  /\ [][Takes("hash", Hash!Stacks!Next, Hash!Stacks!vars)]_vars

\* An insertion into the list of ranges adds one index, what leaves the list is in
\* the bit stream, and is longer than the limit by seven bits at most.
RangesKept ==
  /\ [][part = "ranges" => Ranges!AddsTheIndex]_vars
  /\ [][part = "ranges" => Ranges!KeepsOrSends]_vars
  /\ [][part = "ranges" => Ranges!GoesLittleOver]_vars

\* The nodes in a circle are a sequence with a current element, and their links
\* agree.
LinkedListIsCursorList ==
  /\ Linked!CursorList!Init
  /\ [][Takes("linked", Linked!CursorList!Next, Linked!CursorList!vars)]_vars
  /\ [](part = "linked" => Linked!LinksAgree)

\* The binary tree is a set, the removal of an absent item from a tree of one
\* excepted; its walks print each item once, additions keep its balance, and copies
\* its shape.
TreeIsSet ==
  /\ Tree!Members!Init
  /\ [][~Tree!LosesItsOnly => Takes("tree", Tree!Members!Next, Tree!Members!vars)]_vars
  /\ [](part = "tree" => Tree!TraversalsAgree)
  /\ Tree!AddKeepsBalance /\ Tree!CopyKeepsShape

\* What is written to a bit stream is read from it, by a reader that keeps pace.
StreamCarries == part = "bits" => Bits!StreamCarries

\* The pages of the B+ tree are full enough, and lead to every key; so does the
\* list of its leaves.
KeysKept == part = "leaves" => Leaves!KeysKept

\* The graph's paths are shortest ones, and its trees are made of them.
ShortestFound == part = "graph" => Graph!ShortestFound

===============================================================================
