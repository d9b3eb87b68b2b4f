--------------------------------- MODULE Queue ---------------------------------
(***************************************************************************)
(* DS_Queue.h: a queue in an array that is used in circles, from head up   *)
(* to, and without, tail.                                                  *)
(***************************************************************************)
EXTENDS Integers, FiniteSets

CONSTANTS
  Items,
  FirstAllocation,   \* 16 in the code
  KeptAllocation,    \* 32 in the code: Clear keeps an array up to this size
  MaxSize,           \* bound: items in the queue at one time
  ForcedSizes,       \* the sizes ClearAndForceAllocation is called with
  NoItem,
  Unset              \* what is in a place that was never written

VARIABLES
  array, head, tail, allocation_size,
  call, result       \* the last call and what it returned: AbstractSequence

queue == <<array, head, tail, allocation_size>>
vars == <<queue, call, result>>

Size == IF head <= tail THEN tail - head ELSE allocation_size - head + tail

\* The place in the array of the i-th item, from 0.
Place(i) ==
  IF head + i >= allocation_size THEN head + i - allocation_size ELSE head + i

\* The queue as the program means it.
Contents == [i \in 1 .. Size |-> array[(head + i - 1) % allocation_size]]

TypeOK ==
  /\ allocation_size \in Nat
  /\ array \in [0 .. allocation_size - 1 -> Items \cup {Unset}]
  /\ IF allocation_size = 0 THEN head = 0 /\ tail = 0
     ELSE head \in 0 .. allocation_size - 1 /\ tail \in 0 .. allocation_size - 1
  /\ result \in Items \cup BOOLEAN \cup {NoItem}

Called(op, place, item) == call' = [op |-> op, place |-> place, item |-> item]

Init ==
  /\ array = <<>> /\ allocation_size = 0
  /\ head = 0 /\ tail = 0
  /\ call = [op |-> "empty", place |-> 0, item |-> NoItem]
  /\ result = NoItem

-------------------------------------------------------------------------------

New(size) == [i \in 0 .. size - 1 |-> Unset]

\* The first n items in an array of the given size.
MovedTo(size, old, n) ==
  [i \in 0 .. size - 1 |->
     IF i < n THEN old[(head + i) % allocation_size] ELSE Unset]

Full(next) == next = head

\* The queue after Push: the array, head, tail and size.
Pushed(item) ==
  IF allocation_size = 0
    THEN [a |-> [New(FirstAllocation) EXCEPT ![0] = item], h |-> 0, t |-> 1,
          n |-> FirstAllocation]
    ELSE LET written == [array EXCEPT ![tail] = item]
             next == IF tail + 1 = allocation_size THEN 0 ELSE tail + 1
         IN IF Full(next)
              THEN [a |-> MovedTo(2 * allocation_size, written, allocation_size),
                    h |-> 0, t |-> allocation_size, n |-> 2 * allocation_size]
              ELSE [a |-> written, h |-> head, t |-> next, n |-> allocation_size]

Push(item) ==
  LET new == Pushed(item)
  IN
  /\ Size < MaxSize
  /\ array' = new.a /\ head' = new.h /\ tail' = new.t /\ allocation_size' = new.n
  /\ Called("insert", Size + 1, item)
  /\ result' = NoItem

\* Push, to have the room, then everything from index on moves up by one.
PushAtHead(item, index) ==
  LET new == Pushed(item)
      At(i) == (new.h + i) % new.n
  IN
  /\ Size < MaxSize
  /\ index <= Size
  /\ head' = new.h /\ tail' = new.t /\ allocation_size' = new.n
  /\ array' =
       [p \in DOMAIN new.a |->
          IF \E i \in index + 1 .. Size : p = At(i)
            THEN new.a[IF p = 0 THEN new.n - 1 ELSE p - 1]
            ELSE IF p = At(index) THEN item ELSE new.a[p]]
  /\ Called("insert", index + 1, item)
  /\ result' = NoItem

\* Pop and PopDeref.
Pop ==
  LET next == IF head + 1 = allocation_size THEN 0 ELSE head + 1
  IN
  /\ head # tail
  /\ head' = next
  /\ result' = array[IF next = 0 THEN allocation_size - 1 ELSE next - 1]
  /\ Called("delete", 1, NoItem)
  /\ UNCHANGED <<array, tail, allocation_size>>

PopTail ==
  LET last == IF tail # 0 THEN tail - 1 ELSE allocation_size - 1
  IN
  /\ head # tail
  /\ tail' = last
  /\ result' = array[last]
  /\ Called("delete", Size, NoItem)
  /\ UNCHANGED <<array, head, allocation_size>>

\* Peek is the first item and PeekTail the last.
Look(i) ==
  /\ i < Size
  /\ result' = array[Place(i)]
  /\ Called("look", i + 1, NoItem)
  /\ UNCHANGED queue

\* Slip: the search ends at the end of the array.
SearchedNoCircle == {p \in head .. tail - 1 : TRUE}

Searched == {Place(i) : i \in 0 .. Size - 1}

Find(item) ==
  /\ result' = (item \in {array[p] : p \in Searched})
  /\ Called("search", 0, item)
  /\ UNCHANGED queue

\* What comes after the position moves down by one.
RemoveAtIndex(position) ==
  /\ position < Size
  /\ array' = [p \in DOMAIN array |->
                 IF \E i \in position .. Size - 2 : p = Place(i)
                   THEN array[IF p + 1 = allocation_size THEN 0 ELSE p + 1]
                   ELSE array[p]]
  /\ tail' = IF tail = 0 THEN allocation_size - 1 ELSE tail - 1
  /\ Called("delete", position + 1, NoItem)
  /\ result' = array[Place(position)]
  /\ UNCHANGED <<head, allocation_size>>

Clear ==
  /\ head' = 0 /\ tail' = 0
  /\ IF allocation_size > KeptAllocation
       THEN array' = <<>> /\ allocation_size' = 0
       ELSE UNCHANGED <<array, allocation_size>>
  /\ Called("empty", 0, NoItem)
  /\ result' = NoItem

ClearAndForceAllocation(size) ==
  /\ array' = New(size)
  /\ allocation_size' = size
  /\ head' = 0 /\ tail' = 0
  /\ Called("empty", 0, NoItem)
  /\ result' = NoItem

\* What k doublings make of one.
Doubled[k \in Nat] == IF k = 0 THEN 1 ELSE 2 * Doubled[k - 1]

\* The smallest power of two that is more than Size.
Compressed ==
  LET enough == {k \in 0 .. MaxSize : Doubled[k] > Size}
  IN Doubled[CHOOSE k \in enough : \A j \in enough : k <= j]

Compress ==
  /\ allocation_size # 0
  /\ array' = MovedTo(Compressed, array, Size)
  /\ head' = 0 /\ tail' = Size /\ allocation_size' = Compressed
  /\ Called("compress", 0, NoItem)
  /\ result' = NoItem

\* The queue is replaced by a copy of itself: the copy constructor and
\* operator=.  Of an empty queue the constructor leaves head and tail unset.
Copy ==
  /\ Size > 0
  /\ array' = MovedTo(Size + 1, array, Size)
  /\ head' = 0 /\ tail' = Size /\ allocation_size' = Size + 1
  /\ Called("copy", 0, NoItem)
  /\ result' = NoItem

Next ==
  \/ \E item \in Items :
       Push(item) \/ Find(item) \/ \E index \in 0 .. Size : PushAtHead(item, index)
  \/ Pop \/ PopTail \/ Clear \/ Compress \/ Copy
  \/ \E i \in 0 .. Size - 1 : Look(i) \/ RemoveAtIndex(i)
  \/ \E size \in ForcedSizes : ClearAndForceAllocation(size)

Spec == Init /\ [][Next]_vars

-------------------------------------------------------------------------------
(* Properties.                                                             *)

\* A queue in circles behaves as a sequence, whatever places head and tail have
\* come to and whenever the array grows, shrinks or is copied (DS_Queue.h).
Sequence == INSTANCE AbstractSequence WITH contents <- Contents, MaxPlace <- 0

ImplementsSequence == Sequence!Spec

===============================================================================
