--------------------------- MODULE AbstractSequence ---------------------------
(***************************************************************************)
(* What the ordered containers of RakNet promise: a sequence, into which   *)
(* an item is put at a place, from which the one at a place is taken, and  *)
(* in which items are looked at.  Queue, List and LinkedList implement it, *)
(* each with its own idea of where the places are.                         *)
(***************************************************************************)
EXTENDS Integers, Sequences, SequencesExt, FiniteSetsExt

CONSTANTS Items, NoItem,
  MaxPlace     \* bound: how far beyond the end an item may be stored

VARIABLES
  contents,
  call,       \* the last call, with the place it was about
  result      \* what it returned

vars == <<contents, call, result>>

Insert(place, item) ==
  /\ call' = [op |-> "insert", place |-> place, item |-> item]
  /\ contents' = InsertAt(contents, place, item)
  /\ result' = NoItem

Delete(place) ==
  /\ call' = [op |-> "delete", place |-> place, item |-> NoItem]
  /\ contents' = RemoveAt(contents, place)
  /\ result' = contents[place]

Look(place) ==
  /\ call' = [op |-> "look", place |-> place, item |-> NoItem]
  /\ result' = contents[place]
  /\ UNCHANGED contents

Search(item) ==
  /\ call' = [op |-> "search", place |-> 0, item |-> item]
  /\ result' = (item \in ToSet(contents))
  /\ UNCHANGED contents

\* Where an item is for the first time, from 0, or -1.
Locate(item) ==
  /\ call' = [op |-> "locate", place |-> 0, item |-> item]
  /\ result' = IF item \in ToSet(contents)
                 THEN Min({place \in DOMAIN contents : contents[place] = item}) - 1
                 ELSE -1
  /\ UNCHANGED contents

\* Beyond the end the places in between get the filler.
Store(place, item, filler) ==
  /\ call' = [op |-> "store", place |-> place, item |-> item]
  /\ contents' =
       [i \in DOMAIN contents \cup 1 .. place |->
          IF i = place THEN item
          ELSE IF i \in DOMAIN contents THEN contents[i] ELSE filler]
  /\ result' = NoItem

\* The last item takes the place of the one that goes.
DeleteFast(place) ==
  /\ call' = [op |-> "deletefast", place |-> place, item |-> NoItem]
  /\ contents' = RemoveAt([contents EXCEPT ![place] = contents[Len(contents)]],
                          Len(contents))
  /\ result' = NoItem

Truncate(length) ==
  /\ call' = [op |-> "truncate", place |-> length, item |-> NoItem]
  /\ contents' = SubSeq(contents, 1, length)
  /\ result' = NoItem

Empty ==
  /\ call' = [op |-> "empty", place |-> 0, item |-> NoItem]
  /\ contents' = <<>>
  /\ result' = NoItem

\* Only the memory changes.
Rearrange(way) ==
  /\ call' = [op |-> way, place |-> 0, item |-> NoItem]
  /\ result' = NoItem
  /\ UNCHANGED contents

Init ==
  /\ contents = <<>>
  /\ call = [op |-> "empty", place |-> 0, item |-> NoItem]
  /\ result = NoItem

Next ==
  \/ \E item \in Items :
       \/ \E place \in 1 .. Len(contents) + 1 : Insert(place, item)
       \/ \E place \in 1 .. MaxPlace, filler \in Items :
            Store(place, item, filler)
       \/ Search(item) \/ Locate(item)
  \/ \E place \in 1 .. Len(contents) :
       Delete(place) \/ DeleteFast(place) \/ Look(place)
  \/ \E length \in 0 .. Len(contents) : Truncate(length)
  \/ Empty
  \/ \E way \in {"compress", "copy", "preallocate"} : Rearrange(way)

Spec == Init /\ [][Next]_vars

===============================================================================
