---------------------------------- MODULE Heap ----------------------------------
(***************************************************************************)
(* DS_Heap.h: a binary heap in a list, the nodes of which are numbered     *)
(* from 0 as in the code.  Pop and Peek are modelled at the top, where     *)
(* they are of use: the node that Pop puts in the place of another sinks   *)
(* and never rises.                                                        *)
(***************************************************************************)
EXTENDS Integers, FiniteSets

CONSTANTS
  Weights, Data, NoData,
  MaxSize      \* bound: nodes in the heap

VARIABLES
  isMaxHeap,   \* the template's parameter
  heap,        \* of [weight, data]
  optimizeNextSeriesPush,
  series,      \* the weights that may come next in the caller's series
  result       \* what the last call returned

vars == <<isMaxHeap, heap, optimizeNextSeriesPush, series, result>>

Size == Cardinality(DOMAIN heap)

Better(v, w) == IF isMaxHeap THEN v > w ELSE v < w

TypeOK ==
  /\ isMaxHeap \in BOOLEAN
  /\ heap \in [0 .. Size - 1 -> [weight : Weights, data : Data]]
  /\ optimizeNextSeriesPush \in BOOLEAN
  /\ series \in SUBSET Weights

Init ==
  /\ isMaxHeap \in BOOLEAN
  /\ heap = <<>>
  /\ optimizeNextSeriesPush = FALSE
  /\ series = {}
  /\ result = NoData

-------------------------------------------------------------------------------

LeftChild(i) == i * 2 + 1
RightChild(i) == i * 2 + 2

\* Slip: as if the nodes were numbered from 1.
ParentFromOne(i) == i \div 2

Parent(i) == (i - 1) \div 2

\* The places a new last node comes through while it is better than its parent.
Risen(weight) ==
  LET places[i \in 0 .. Size] ==
        IF i # 0 /\ Better(weight, heap[Parent(i)].weight)
          THEN {i} \cup places[Parent(i)] ELSE {i}
  IN places[Size]

\* The heap when the node has come through these places, up to the last of them.
Raised(node, places) ==
  [i \in 0 .. Size |->
     IF i \notin places THEN heap[i]
     ELSE IF \E j \in places : j < i THEN heap[Parent(i)] ELSE node]

Pushed(weight, data) ==
  /\ Size < MaxSize
  /\ heap' = Raised([weight |-> weight, data |-> data], Risen(weight))
  /\ result' = NoData
  /\ UNCHANGED isMaxHeap

\* The list of a caller's series is at an end, or interrupted.
Push(weight, data) ==
  /\ Pushed(weight, data)
  /\ series' = {}
  /\ UNCHANGED optimizeNextSeriesPush

StartSeries ==
  /\ optimizeNextSeriesPush' = FALSE
  /\ series' = Weights
  /\ UNCHANGED <<isMaxHeap, heap, result>>

\* All that may get children yet is at least as good.
NoBetterThanTheRest(weight) ==
  Size # 0 => \A i \in Parent(Size) .. Size - 1 : ~Better(weight, heap[i].weight)

\* "If you are going to push a list of items, where the weights of the items on
\* the list are in order and follow the heap order".
PushSeries(weight, data) ==
  /\ weight \in series
  /\ series' = {w \in series : ~Better(w, weight)}
  /\ IF ~optimizeNextSeriesPush /\ ~NoBetterThanTheRest(weight)
       THEN Pushed(weight, data) /\ UNCHANGED optimizeNextSeriesPush
       ELSE /\ Size < MaxSize
            /\ heap' = Raised([weight |-> weight, data |-> data], {Size})
            /\ optimizeNextSeriesPush' = TRUE
            /\ result' = NoData
            /\ UNCHANGED isMaxHeap

\* The child that is swapped with a node of this weight at i, if there is one;
\* the last node is no longer there.
Child(i, weight) ==
  LET left == LeftChild(i)
      right == RightChild(i)
      best == IF right < Size - 1 /\ ~Better(heap[left].weight, heap[right].weight)
                THEN right ELSE left
  IN {c \in {best} : left < Size - 1 /\ Better(heap[c].weight, weight)}

\* The places the last node comes through when it sinks from the top.
Sunk(weight) ==
  LET places[i \in 0 .. Size] ==
        {i} \cup UNION {places[c] : c \in Child(i, weight)}
  IN places[0]

Pop ==
  LET node == heap[Size - 1]
      places == Sunk(node.weight)
  IN
  /\ Size > 0
  /\ result' = heap[0].data
  /\ heap' = [i \in 0 .. Size - 2 |->
                IF i \notin places THEN heap[i]
                ELSE IF \E c \in places : Parent(c) = i /\ c # 0
                  THEN heap[CHOOSE c \in places : Parent(c) = i /\ c # 0]
                  ELSE node]
  /\ UNCHANGED <<isMaxHeap, optimizeNextSeriesPush, series>>

\* Peek, operator[].
Peek ==
  /\ Size > 0
  /\ result' = heap[0].data
  /\ UNCHANGED <<isMaxHeap, heap, optimizeNextSeriesPush, series>>

Clear ==
  /\ heap' = <<>>
  /\ result' = NoData
  /\ UNCHANGED <<isMaxHeap, optimizeNextSeriesPush, series>>

Next ==
  \/ \E weight \in Weights, data \in Data :
       Push(weight, data) \/ PushSeries(weight, data)
  \/ StartSeries \/ Pop \/ Peek \/ Clear

Spec == Init /\ [][Next]_vars

-------------------------------------------------------------------------------
(* Properties.                                                             *)

Nodes == [n \in {heap[i] : i \in DOMAIN heap} |->
            Cardinality({i \in DOMAIN heap : heap[i] = n})]

\* However nodes rise, sink or are put at the end without a look, what Pop takes
\* is one of the best, and nothing is lost (DS_Heap.h:82-239).
Queue == INSTANCE AbstractPriorityQueue WITH contents <- Nodes

ImplementsPriorityQueue == Queue!Spec

===============================================================================
