---------------------------------- MODULE List ----------------------------------
(***************************************************************************)
(* DS_List.h: a list in an array that grows.                               *)
(***************************************************************************)
EXTENDS Integers, FiniteSets

CONSTANTS
  Items, NoItem,
  Unset,             \* what is in a place that was never written
  FirstAllocation,   \* 16 in the code
  KeptAllocation,    \* 512 in the code: Clear may keep an array up to this size
  MaxSize            \* bound: items in the list, and memory asked for

VARIABLES
  listArray,         \* what is in the array
  list_size, allocation_size,
  call, result       \* the last call and what it returned: AbstractSequence

list == <<listArray, list_size, allocation_size>>
vars == <<list, call, result>>

\* The list as the program means it.
Contents == [i \in 1 .. list_size |-> listArray[i - 1]]

TypeOK ==
  /\ list_size \in 0 .. allocation_size
  /\ listArray \in [0 .. allocation_size - 1 -> Items \cup {Unset}]

Called(op, place, item) == call' = [op |-> op, place |-> place, item |-> item]

Init ==
  /\ listArray = <<>>
  /\ list_size = 0 /\ allocation_size = 0
  /\ call = [op |-> "empty", place |-> 0, item |-> NoItem]
  /\ result = NoItem

-------------------------------------------------------------------------------

\* The items in an array of another size.
MovedTo(size) ==
  [i \in 0 .. size - 1 |-> IF i < list_size THEN listArray[i] ELSE Unset]

MustGrow == list_size = allocation_size

Doubled == IF allocation_size = 0 THEN FirstAllocation ELSE 2 * allocation_size

\* At a position, and at the end.
Insert(item, position) ==
  LET room == IF MustGrow THEN MovedTo(Doubled) ELSE listArray
  IN
  /\ list_size < MaxSize
  /\ allocation_size' = IF MustGrow THEN Doubled ELSE allocation_size
  /\ listArray' = [i \in DOMAIN room |->
                     IF i = position THEN item
                     ELSE IF i \in position + 1 .. list_size THEN room[i - 1]
                     ELSE room[i]]
  /\ list_size' = list_size + 1
  /\ Called("insert", position + 1, item)
  /\ result' = NoItem

Beyond(position) == position >= list_size

Replace(item, filler, position) ==
  LET room == IF position >= allocation_size THEN MovedTo(position + 1)
              ELSE listArray
  IN
  /\ allocation_size' =
       IF position >= allocation_size THEN position + 1 ELSE allocation_size
  /\ IF Beyond(position)
       THEN /\ listArray' = [i \in DOMAIN room |->
                               IF i = position THEN item
                               ELSE IF i \in list_size .. position THEN filler
                               ELSE room[i]]
            /\ list_size' = position + 1
       ELSE /\ listArray' = [listArray EXCEPT ![position] = item]
            /\ UNCHANGED list_size
  /\ Called("store", position + 1, item)
  /\ result' = NoItem

\* Get, operator[].
Get(position) ==
  /\ result' = listArray[position]
  /\ Called("look", position + 1, NoItem)
  /\ UNCHANGED list

Pop ==
  /\ list_size > 0
  /\ list_size' = list_size - 1
  /\ result' = listArray[list_size - 1]
  /\ Called("delete", list_size, NoItem)
  /\ UNCHANGED <<listArray, allocation_size>>

\* Slip: what is behind the item stays where it is.
ClosedLate(position) ==
  [i \in DOMAIN listArray |->
     IF i \in position + 1 .. list_size - 2
       THEN listArray[i + 1] ELSE listArray[i]]

Closed(position) ==
  [i \in DOMAIN listArray |->
     IF i \in position .. list_size - 2
       THEN listArray[i + 1] ELSE listArray[i]]

RemoveAtIndex(position) ==
  /\ position < list_size
  /\ listArray' = Closed(position)
  /\ list_size' = list_size - 1
  /\ result' = listArray[position]
  /\ Called("delete", position + 1, NoItem)
  /\ UNCHANGED allocation_size

RemoveAtIndexFast(position) ==
  /\ position < list_size
  /\ list_size' = list_size - 1
  /\ listArray' = [listArray EXCEPT ![position] = listArray[list_size - 1]]
  /\ Called("deletefast", position + 1, NoItem)
  /\ result' = NoItem
  /\ UNCHANGED allocation_size

RemoveFromEnd(num) ==
  /\ list_size >= num
  /\ list_size' = list_size - num
  /\ Called("truncate", list_size - num, NoItem)
  /\ result' = NoItem
  /\ UNCHANGED <<listArray, allocation_size>>

\* -1 stands for MAX_UNSIGNED_LONG.
GetIndexOf(item) ==
  /\ LET places == {i \in 0 .. list_size - 1 : listArray[i] = item}
     IN result' = IF places = {} THEN -1
                  ELSE CHOOSE i \in places : \A j \in places : i <= j
  /\ Called("locate", 0, item)
  /\ UNCHANGED list

Clear(doNotDeallocateSmallBlocks) ==
  /\ list_size' = 0
  /\ IF allocation_size # 0 /\ (allocation_size > KeptAllocation
                                  \/ ~doNotDeallocateSmallBlocks)
       THEN allocation_size' = 0 /\ listArray' = <<>>
       ELSE UNCHANGED <<listArray, allocation_size>>
  /\ Called("empty", 0, NoItem)
  /\ result' = NoItem

AtLeastFirst == IF allocation_size = 0 THEN FirstAllocation ELSE allocation_size

\* What k doublings make of that.
Grown[k \in Nat] == IF k = 0 THEN AtLeastFirst ELSE 2 * Grown[k - 1]

Needed(countNeeded) ==
  LET enough == {k \in 0 .. MaxSize : Grown[k] >= countNeeded}
  IN Grown[CHOOSE k \in enough : \A j \in enough : k <= j]

\* Compress allocates what it had.
Compress ==
  /\ allocation_size # 0
  /\ listArray' = MovedTo(allocation_size)
  /\ Called("compress", 0, NoItem)
  /\ result' = NoItem
  /\ UNCHANGED <<list_size, allocation_size>>

Preallocate(countNeeded) ==
  /\ allocation_size < Needed(countNeeded)
  /\ allocation_size' = Needed(countNeeded)
  /\ listArray' = MovedTo(Needed(countNeeded))
  /\ Called("preallocate", 0, NoItem)
  /\ result' = NoItem
  /\ UNCHANGED list_size

\* The list is replaced by a copy of itself: the copy constructor, and operator=
\* to another list.  Of an empty list the constructor leaves listArray unset.
Copy ==
  /\ list_size > 0
  /\ allocation_size' = list_size
  /\ listArray' = MovedTo(list_size)
  /\ Called("copy", 0, NoItem)
  /\ result' = NoItem
  /\ UNCHANGED list_size

Next ==
  \/ \E item \in Items :
       \/ \E position \in 0 .. list_size : Insert(item, position)
       \/ \E filler \in Items, position \in 0 .. MaxSize - 1 :
            Replace(item, filler, position)
       \/ GetIndexOf(item)
  \/ \E position \in 0 .. list_size - 1 :
       Get(position) \/ RemoveAtIndex(position) \/ RemoveAtIndexFast(position)
  \/ Pop \/ Compress \/ Copy
  \/ \E num \in 0 .. list_size : RemoveFromEnd(num)
  \/ \E how \in BOOLEAN : Clear(how)
  \/ \E countNeeded \in 0 .. MaxSize : Preallocate(countNeeded)

Spec == Init /\ [][Next]_vars

-------------------------------------------------------------------------------
(* Properties.                                                             *)

\* Whatever the array has grown to, was cleared to or copied to, the list is the
\* sequence its calls describe (DS_List.h).
Sequence == INSTANCE AbstractSequence
  WITH contents <- Contents, MaxPlace <- MaxSize

ImplementsSequence == Sequence!Spec

===============================================================================
