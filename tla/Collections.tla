------------------------------ MODULE Collections ------------------------------
(***************************************************************************)
(* Data structures of RakNet's headers that much else stands on, side by   *)
(* side: the pool of blocks with the queue that passes them between        *)
(* threads, the queue and the list in arrays, and the ordered list with    *)
(* the map in it.  They do not meet; a behaviour is one of one of them,    *)
(* while the others stay as they start.                                    *)
(***************************************************************************)
EXTENDS Integers

CONSTANTS
  Pages, PageSizes, DS_MEMORY_POOL_MAX_FREE_PAGES, NoPage, Threads,
  Removers, NoBlock,
  Data, NoData, FirstAllocation, KeptAllocation, ForcedSizes, MaxSize, NoItem,
  Unset, Keys

VARIABLES
  part,    \* whose behaviour it is
  availableStack, blocks, nextPage, prevPage, availablePages, unavailablePages,
  availablePagesSize, unavailablePagesSize, blocksPerPage, inUse, queue, hand,
  at, seen, crossed, clearing,
  array, head, tail, allocation_size, queueCall, queueResult,
  listArray, list_size, listAllocation, listCall, listResult,
  orderedList, orderedCall, orderedResult

\* A block of the pool is what the queue passes on.
Blocks == INSTANCE ThreadsafeAllocatingQueue WITH next <- nextPage, prev <- prevPage

Queue == INSTANCE Queue
  WITH Items <- Data, call <- queueCall, result <- queueResult

List == INSTANCE List
  WITH Items <- Data, allocation_size <- listAllocation, call <- listCall,
       result <- listResult

\* What a list of ordered elements is used for directly, and as a map.
Ordered == INSTANCE Map WITH call <- orderedCall, result <- orderedResult

blocksVars == <<availableStack, blocks, nextPage, prevPage, availablePages,
  unavailablePages, availablePagesSize, unavailablePagesSize, blocksPerPage,
  inUse, queue, hand, at, seen, crossed,
  clearing>>
queueVars == <<array, head, tail, allocation_size, queueCall, queueResult>>
listVars == <<listArray, list_size, listAllocation, listCall, listResult>>
orderedVars == <<orderedList, orderedCall, orderedResult>>

collections == <<part, blocksVars, queueVars, listVars, orderedVars>>

CollectionsInit ==
  Blocks!QueueInit /\ Queue!Init /\ List!Init /\ Ordered!Init

\* One of them moves.
Moves ==
  \/ part = "blocks" /\ Blocks!QueueNext
  \/ part = "queue" /\ Queue!Next
  \/ part = "list" /\ List!Next
  \/ part = "orderedlist" /\ Ordered!Next
  \/ part = "map" /\ Ordered!MapNext

CollectionsNext ==
  /\ Moves
  /\ UNCHANGED part
  /\ part # "blocks" => UNCHANGED blocksVars
  /\ part # "queue" => UNCHANGED queueVars
  /\ part # "list" => UNCHANGED listVars
  /\ part \notin {"orderedlist", "map"} => UNCHANGED orderedVars

CollectionsSpec == CollectionsInit /\ [][CollectionsNext]_collections

-------------------------------------------------------------------------------
(* The properties, which the parts' modules explain.  A step counts for    *)
(* the part it belongs to.                                                 *)

\* A step of the part p is one of A, or leaves v as it is.
Takes(p, A, v) == part = p => A \/ UNCHANGED v

\* Every block that is given out is in one hand or in the queue, unless one was
\* taken while another was being removed by its index.
BlocksAccountedFor == Blocks!BlocksAccountedFor

\* The pool's pages are filed, their blocks are the user's or the pool's, and a
\* page is freed when it is empty and there are others.
PagesKept == Blocks!PagesKept

\* The queue in circles and the list in a growing array are sequences.
SequencesKept ==
  /\ Queue!Sequence!Init /\ List!Sequence!Init
  /\ [][Takes("queue", Queue!Sequence!Next, Queue!Sequence!vars)]_collections
  /\ [][Takes("list", List!Sequence!Next, List!Sequence!vars)]_collections

\* The ordered list, and the map in it, are a map.
OrderedListIsMap ==
  /\ Ordered!AsMap!Init
  /\ [][Takes("orderedlist", Ordered!AsMap!Next, Ordered!AsMap!vars)]_collections
  /\ [][Takes("map", Ordered!AsMap!Next, Ordered!AsMap!vars)]_collections

===============================================================================
