------------------------- MODULE AbstractPriorityQueue -------------------------
(***************************************************************************)
(* What a heap promises: a bag of weighed data, of which the one taken is  *)
(* one of those with the best weight.                                      *)
(***************************************************************************)
EXTENDS Integers, Bags

CONSTANTS Weights, Data, NoData

VARIABLES
  isMaxHeap,   \* the greatest weight is the best, or the smallest
  contents,    \* a bag of [weight, data]
  result       \* what the last call returned

vars == <<isMaxHeap, contents, result>>

Node == [weight : Weights, data : Data]

Best == {n \in BagToSet(contents) :
           \A m \in BagToSet(contents) :
             IF isMaxHeap THEN n.weight >= m.weight ELSE n.weight <= m.weight}

Init == isMaxHeap \in BOOLEAN /\ contents = EmptyBag /\ result = NoData

Add(node) ==
  /\ contents' = contents (+) SetToBag({node})
  /\ result' = NoData

Take ==
  \E node \in Best :
    /\ contents' = contents (-) SetToBag({node})
    /\ result' = node.data

See == (\E node \in Best : result' = node.data) /\ UNCHANGED contents

Empty == contents' = EmptyBag /\ result' = NoData

Next ==
  /\ (\E node \in Node : Add(node)) \/ Take \/ See \/ Empty
  /\ UNCHANGED isMaxHeap

Spec == Init /\ [][Next]_vars

===============================================================================
