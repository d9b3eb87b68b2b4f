--------------------------- MODULE AbstractCursorList ---------------------------
(***************************************************************************)
(* What a linked list promises: a sequence with a current element, at      *)
(* which it is read and changed.                                           *)
(***************************************************************************)
EXTENDS Integers, Sequences, SequencesExt

CONSTANTS Items, NoItem,
  MaxLength    \* bound: the length of a list that is concatenated

VARIABLES
  circular,    \* whether the current element goes round the ends
  contents,
  current,     \* its place, 0 in an empty list
  call,        \* the last call
  result       \* what it returned

vars == <<circular, contents, current, call, result>>

Calls(op, item) == call' = [op |-> op, item |-> item]

\* Before the current element, which stays the current one unless it is the first.
Insert(item) ==
  /\ Calls("insert", item)
  /\ contents' = InsertAt(contents, IF current = 0 THEN 1 ELSE current, item)
  /\ current' = IF current \in {0, 1} THEN 1 ELSE current + 1
  /\ result' = NoItem

\* After it.  What is returned is the new element, or the one that was alone.
Add(item) ==
  /\ Calls("add", item)
  /\ contents' = InsertAt(contents, current + 1, item)
  /\ current' = IF current = 0 THEN 1 ELSE current
  /\ result' = IF Len(contents) = 1 THEN contents[1] ELSE item

Replace(item) ==
  /\ Calls("replace", item)
  /\ contents' = IF current = 0 THEN <<>> ELSE [contents EXCEPT ![current] = item]
  /\ result' = NoItem
  /\ UNCHANGED current

\* The next one is current then, the first after the last.
Delete ==
  /\ Calls("delete", NoItem)
  /\ contents' = IF current = 0 THEN <<>> ELSE RemoveAt(contents, current)
  /\ current' = IF current < Len(contents) THEN current
                ELSE IF Len(contents) > 1 THEN 1 ELSE 0
  /\ result' = IF current = 0 THEN NoItem ELSE contents[current]

Peek ==
  /\ Calls("peek", NoItem)
  /\ result' = contents[current]
  /\ UNCHANGED <<contents, current>>

IsIn(item) ==
  /\ Calls("isin", item)
  /\ result' = (item \in ToSet(contents))
  /\ UNCHANGED <<contents, current>>

\* The first of its like becomes the current one.
Find(item) ==
  /\ Calls("find", item)
  /\ result' = (item \in ToSet(contents))
  /\ current' = IF item \in ToSet(contents)
                  THEN SelectInSeq(contents, LAMBDA x : x = item) ELSE current
  /\ UNCHANGED contents

Go(op, place, around) ==
  /\ Calls(op, NoItem)
  /\ current' = IF contents = <<>> THEN 0
                ELSE IF place \in DOMAIN contents THEN place
                ELSE IF circular THEN around ELSE current
  /\ result' = NoItem
  /\ UNCHANGED contents

Moved(op, place) ==
  /\ Calls(op, NoItem)
  /\ current' = place
  /\ result' = NoItem
  /\ UNCHANGED contents

Concatenate(list) ==
  /\ Calls("concatenate", Len(list))
  /\ contents' = contents \o list
  /\ current' = IF list = <<>> THEN current ELSE Len(contents')
  /\ result' = NoItem

Sort ==
  /\ Calls("sort", NoItem)
  /\ contents' = SortSeq(contents, LAMBDA x, y : x < y)
  /\ current' = IF contents = <<>> THEN 0 ELSE 1
  /\ result' = NoItem

Empty ==
  /\ Calls("clear", NoItem)
  /\ contents' = <<>> /\ current' = 0
  /\ result' = NoItem

Init ==
  /\ circular \in BOOLEAN
  /\ contents = <<>> /\ current = 0
  /\ call = [op |-> "clear", item |-> NoItem]
  /\ result = NoItem

Next ==
  /\ \/ \E item \in Items :
          Insert(item) \/ Add(item) \/ Replace(item) \/ IsIn(item) \/ Find(item)
     \/ Delete \/ (current # 0 /\ Peek)
     \/ Go("++", current + 1, 1) \/ Go("--", current - 1, Len(contents))
     \/ Moved("beginning", IF contents = <<>> THEN 0 ELSE 1)
     \/ Moved("end", Len(contents)) \/ Moved("copy", current)
     \/ \E list \in BoundedSeq(Items, MaxLength) : Concatenate(list)
     \/ Sort \/ Empty
  /\ UNCHANGED circular

Spec == Init /\ [][Next]_vars

===============================================================================
