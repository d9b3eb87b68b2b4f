------------------------------- MODULE RangeList -------------------------------
(***************************************************************************)
(* DS_RangeList.h: a set of indices as an OrderedList of ranges, that is   *)
(* sent to be acknowledged, a part at a time.  The arithmetic on indices   *)
(* goes round.                                                             *)
(***************************************************************************)
EXTENDS Integers, Sequences

LOCAL Ext == INSTANCE SequencesExt

CONSTANTS
  Indices,      \* 0 up to the greatest value of range_type
  IndexBits,    \* the width of range_type
  MaxBits,      \* the values of maxBits that Serialize is called with
  MaxRanges     \* bound: ranges in the list

VARIABLES
  ranges,       \* of [minIndex, maxIndex]
  written       \* the ranges that the last call wrote into its bit stream

vars == <<ranges, written>>

Range == [minIndex : Indices, maxIndex : Indices]

TypeOK == ranges \in Seq(Range) /\ written \in Seq(Range)

Init == ranges = <<>> /\ written = <<>>

-------------------------------------------------------------------------------

Size == Len(ranges)

\* operator[], from 0.
Element(i) == ranges[i + 1]

Plus(i) == (i + 1) % 2 ^ IndexBits
Minus(i) == (i - 1) % 2 ^ IndexBits

\* The comparison looks at minIndex.
Ordered == INSTANCE OrderedList
  WITH orderedList <- [i \in DOMAIN ranges |->
                         [key |-> ranges[i].minIndex, data |-> ranges[i]]],
       Keys <- Indices, Data <- Range, NoData <- 0, call <- 0, result <- 0

InsertedAt(i, index) ==
  Ext!InsertAt(ranges, i + 1, [minIndex |-> index, maxIndex |-> index])

\* ranges.Insert
InsertedInOrder(index) ==
  LET found == Ordered!GetIndexFromKey(index)
  IN IF found.exists THEN ranges ELSE InsertedAt(found.index, index)

\* After the ranges that begin with a smaller index.
InsertedAfter(index) ==
  CASE index = Plus(Element(Size - 1).maxIndex) ->
         [ranges EXCEPT ![Size].maxIndex = Plus(@)]
    [] index > Plus(Element(Size - 1).maxIndex) -> InsertedInOrder(index)
    [] OTHER -> ranges

\* Slip: the range on the left is not looked at.
AlwaysJoined(i) == i > 0

JoinsLeft(i) ==
  i > 0 /\ Plus(Element(i - 1).maxIndex) = Minus(Element(i).minIndex)

JoinsRight(i) ==
  /\ i < Size - 1
  /\ Element(i + 1).minIndex = Plus(Plus(Element(i).maxIndex))

\* At the range that the search has ended at.
InsertedNear(i, index) ==
  LET min == Element(i).minIndex
      max == Element(i).maxIndex
  IN CASE index < Minus(min) -> InsertedAt(i, index)
       [] index = Minus(min) ->
            IF JoinsLeft(i)
              THEN Ext!RemoveAt([ranges EXCEPT ![i].maxIndex = max], i + 1)
              ELSE [ranges EXCEPT ![i + 1].minIndex = index]
       [] index # Minus(min) /\ index \in min .. max -> ranges
       [] index > max /\ index = Plus(max) ->
            IF JoinsRight(i)
              THEN Ext!RemoveAt([ranges EXCEPT ![i + 2].minIndex = min], i + 1)
              ELSE [ranges EXCEPT ![i + 1].maxIndex = index]
       [] OTHER -> ranges

Insert(index) ==
  LET i == Ordered!GetIndexFromKey(index).index
  IN
  /\ ranges' = IF Size = 0 THEN InsertedInOrder(index)
               ELSE IF i = Size THEN InsertedAfter(index)
               ELSE InsertedNear(i, index)
  /\ Len(ranges') <= MaxRanges
  /\ written' = <<>>

\* The bits of the first n ranges.
Bits(n) ==
  LET single == {i \in 1 .. n : ranges[i].minIndex = ranges[i].maxIndex}
      count[i \in 0 .. n] ==
        IF i = 0 THEN 0
        ELSE count[i - 1] + 8 + IF i \in single THEN IndexBits ELSE 2 * IndexBits
  IN count[n]

\* Slip: the number of ranges is not counted, though it is written.
CountWithoutNumber(maxBits) ==
  CHOOSE n \in 0 .. Size :
    /\ \A i \in 0 .. n - 1 : Bits(i) + 2 * IndexBits + 1 <= maxBits
    /\ n = Size \/ Bits(n) + 2 * IndexBits + 1 > maxBits

\* How many ranges are written: the next one is counted with one bit where it
\* may need eight.
CountWritten(maxBits) ==
  CHOOSE n \in 0 .. Size :
    /\ \A i \in 0 .. n - 1 : 16 + Bits(i) + 2 * IndexBits + 1 <= maxBits
    /\ n = Size \/ 16 + Bits(n) + 2 * IndexBits + 1 > maxBits

\* Slip: one too many is removed.
OneMore(n) == IF n = 0 THEN 0 ELSE n + 1

Removed(n) == n

Serialize(maxBits, clearSerialized) ==
  LET n == CountWritten(maxBits)
  IN
  /\ written' = SubSeq(ranges, 1, n)
  /\ ranges' = IF clearSerialized THEN SubSeq(ranges, Removed(n) + 1, Size)
               ELSE ranges

\* Of what was just written, by another list of which this one is then a copy as
\* far as the stream goes, and as ranges end where they begin or later: false is
\* returned when that is not all.
Deserialize ==
  \E n \in 0 .. Len(written) :
    /\ \A i \in 1 .. n : written[i].minIndex <= written[i].maxIndex
    /\ ranges' = SubSeq(written, 1, n)
    /\ written' = <<>>

Clear == ranges' = <<>> /\ written' = <<>>

Next ==
  \/ \E index \in Indices : Insert(index)
  \/ \E maxBits \in MaxBits, clearSerialized \in BOOLEAN :
       Serialize(maxBits, clearSerialized)
  \/ Deserialize \/ Clear

Spec == Init /\ [][Next]_vars

-------------------------------------------------------------------------------
(* Properties.                                                             *)

Covered(list) == UNION {r.minIndex .. r.maxIndex : r \in Ext!ToSet(list)}

\* An index that is inserted is in the list and nothing else comes in, whatever
\* ranges it falls into, between or beside, at the ends of the type too
\* (DS_RangeList.h:159-218).
AddsTheIndex ==
  \A index \in Indices :
    Insert(index) => Covered(ranges') = Covered(ranges) \cup {index}

InsertsJustTheIndex == [][AddsTheIndex]_vars

\* Each index is acknowledged: one that leaves the list with Serialize is in what
\* was written, and nothing is written that is not in it (lines 65-113).
KeepsOrSends ==
  \A maxBits \in MaxBits, clearSerialized \in BOOLEAN :
    Serialize(maxBits, clearSerialized) =>
      Covered(ranges') \cup Covered(written') = Covered(ranges)

NothingLeavesUnsent == [][KeepsOrSends]_vars

\* Line 76 counts one bit for the minEqualsMax of the range that comes next, which
\* WriteCompressed makes eight (lines 72-101): what is written is longer than maxBits
\* by seven bits at most.
GoesLittleOver ==
  written' # <<>> =>
    \A maxBits \in MaxBits, clearSerialized \in BOOLEAN :
      Serialize(maxBits, clearSerialized) =>
        16 + Bits(Len(written')) <= maxBits + 7

LimitNearlyKept == [][GoesLittleOver]_vars

===============================================================================
