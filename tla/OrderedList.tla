------------------------------- MODULE OrderedList -------------------------------
(***************************************************************************)
(* DS_OrderedList.h: a list that is kept in order, with a binary search.   *)
(* The list inside is a sequence (the module List shows that it is one);   *)
(* positions count from 0, as in the code.                                 *)
(***************************************************************************)
EXTENDS Integers, Sequences

Ext == INSTANCE SequencesExt

CONSTANTS Keys, Data, NoData

VARIABLES
  orderedList,   \* of [key, data]: the comparison tells a key from an element
  call, result   \* the last call and what it returned: AbstractMap

vars == <<orderedList, call, result>>

Size == Len(orderedList)

\* operator[]
Element(index) == orderedList[index + 1]

TypeOK == orderedList \in Seq([key : Keys, data : Data])

Mapping ==
  [k \in {orderedList[i].key : i \in 1 .. Size} |->
     orderedList[CHOOSE i \in 1 .. Size : orderedList[i].key = k].data]

Calls(op, key, data) == call' = [op |-> op, key |-> key, data |-> data]

Init ==
  /\ orderedList = <<>>
  /\ call = [op |-> "clear", key |-> 0, data |-> NoData]
  /\ result = NoData

-------------------------------------------------------------------------------
(* The search.                                                             *)

\* Slip: when the key is not found, the place is before the nearest smaller one.
NotFoundAbove(lowerBound, upperBound) == IF upperBound > 0 THEN upperBound ELSE 0

\* Where a key that is not there belongs.
NotFound(lowerBound, upperBound) == lowerBound

\* Where a search can be: at a place between its bounds.
Probes ==
  {s \in [index : 0 .. Size - 1, lowerBound : 0 .. Size - 1,
          upperBound : 0 .. Size - 1] :
     s.lowerBound <= s.index /\ s.index <= s.upperBound}

LowerBound(key, s) ==
  IF key > Element(s.index).key THEN s.index + 1 ELSE s.lowerBound

UpperBound(key, s) ==
  IF key < Element(s.index).key THEN s.index - 1 ELSE s.upperBound

Narrowed(lower, upper) ==
  [index |-> lower + (upper - lower) \div 2, lowerBound |-> lower,
   upperBound |-> upper]

\* Where the key is, or belongs.  That the next index is one of the list, as the
\* code asserts, is asked by the domain of probe.
GetIndexFromKey(key) ==
  LET probe[s \in Probes] ==
        IF key = Element(s.index).key THEN [exists |-> TRUE, index |-> s.index]
        ELSE IF LowerBound(key, s) > UpperBound(key, s)
          THEN [exists |-> FALSE,
                index |-> NotFound(LowerBound(key, s), UpperBound(key, s))]
        ELSE probe[Narrowed(LowerBound(key, s), UpperBound(key, s))]
  IN IF Size = 0 THEN [exists |-> FALSE, index |-> 0]
     ELSE probe[[index |-> Size \div 2, lowerBound |-> 0, upperBound |-> Size - 1]]

HasData(key) == GetIndexFromKey(key).exists

-------------------------------------------------------------------------------
(* The calls.                                                              *)

InsertedAt(index, key, data) ==
  Ext!InsertAt(orderedList, index + 1, [key |-> key, data |-> data])

Inserted(key, data) == InsertedAt(GetIndexFromKey(key).index, key, data)

Insert(key, data) ==
  /\ orderedList' = IF HasData(key) THEN orderedList ELSE Inserted(key, data)
  /\ result' = ~HasData(key)
  /\ Calls("add", key, data)

Without(key) ==
  IF HasData(key) THEN Ext!RemoveAt(orderedList, GetIndexFromKey(key).index + 1)
  ELSE orderedList

\* Remove and RemoveIfExists; their result does not tell whether the key was found.
Remove(key) ==
  /\ orderedList' = Without(key)
  /\ result' = HasData(key)
  /\ Calls("remove", key, NoData)

GetElementFromKey(key) ==
  /\ result' = IF HasData(key) THEN Element(GetIndexFromKey(key).index).data
               ELSE NoData
  /\ Calls("look", key, NoData)
  /\ UNCHANGED orderedList

Get(index) ==
  /\ result' = <<Element(index).key, Element(index).data>>
  /\ Calls("at", index, NoData)
  /\ UNCHANGED orderedList

\* RemoveFromEnd is the one that removes the last.
RemoveAtIndex(index) ==
  /\ orderedList' = Ext!RemoveAt(orderedList, index + 1)
  /\ result' = TRUE
  /\ Calls("remove", Element(index).key, NoData)

\* The caller answers for the order: at the end, or where the search points to.
InsertAtIndex(key, data, index) ==
  /\ index > 0 => Element(index - 1).key < key
  /\ index < Size => key < Element(index).key
  /\ orderedList' = InsertedAt(index, key, data)
  /\ result' = TRUE
  /\ Calls("add", key, data)

Clear ==
  /\ orderedList' = <<>>
  /\ result' = NoData
  /\ Calls("clear", 0, NoData)

Next ==
  \/ \E key \in Keys :
       \/ \E data \in Data :
            \/ Insert(key, data)
            \/ \E index \in 0 .. Size : InsertAtIndex(key, data, index)
       \/ Remove(key) \/ GetElementFromKey(key)
  \/ \E index \in 0 .. Size - 1 : Get(index) \/ RemoveAtIndex(index)
  \/ Clear

Spec == Init /\ [][Next]_vars

-------------------------------------------------------------------------------
(* Properties.                                                             *)

\* The binary search finds a key exactly when it is there and otherwise the place
\* that keeps the order, so that the list is a map (DS_OrderedList.h:118-171).
AsMap == INSTANCE AbstractMap WITH mapping <- Mapping

ImplementsMap == AsMap!Spec

\* The elements are in strict order: nothing is there twice.
Sorted == \A i, j \in 1 .. Size : i < j => orderedList[i].key < orderedList[j].key

===============================================================================
