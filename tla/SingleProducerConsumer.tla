------------------------ MODULE SingleProducerConsumer ------------------------
(***************************************************************************)
(* SingleProducerConsumer.h: a ring of blocks, without critical sections,  *)
(* between the one thread that writes and the one that reads.  Each step   *)
(* reads or writes one of the words the two threads share; what a thread   *)
(* does to its own words joins the step before.  Item n is the n-th that   *)
(* is written since the start or since Clear.                              *)
(***************************************************************************)
EXTENDS Integers, Sequences, FiniteSets

CONSTANTS
  MINIMUM_LIST_SIZE,   \* 8 in the code, which asserts that it is at least 3
  MaxBlocks,           \* bound: blocks that exist at one time
  MaxItems,            \* bound: items written between two calls of Clear
  MaxClears,           \* bound: calls of Clear
  NoBlock

Blocks == 1 .. MaxBlocks

VARIABLES
  next, readyToRead, object,           \* DataPlusPtr, by block
  readAheadPointer, writeAheadPointer, readPointer, writePointer,
  readCount, writeCount,
  writerAt, readerAt,                  \* where each thread is
  originalNext,                        \* WriteLock's local
  held,                                \* what ReadLock has returned and the
                                       \* reader has not given back
  clears

block == <<next, readyToRead, object>>
writer ==
  <<writeAheadPointer, writePointer, writeCount, writerAt, originalNext>>
reader == <<readAheadPointer, readPointer, readCount, readerAt, held>>
vars == <<block, writer, reader, clears>>

Allocated == DOMAIN next

TypeOK ==
  /\ Allocated \in SUBSET Blocks
  /\ next \in [Allocated -> Allocated \cup {NoBlock}]
  /\ readyToRead \in [Allocated -> BOOLEAN]
  /\ object \in [Allocated -> 0 .. MaxItems]
  /\ {readAheadPointer, writeAheadPointer, readPointer, writePointer}
       \subseteq Allocated
  /\ readCount \in 0 .. MaxItems /\ writeCount \in 0 .. MaxItems
  /\ writerAt \in {"idle", "testReady", "grow", "link", "publish", "advance"}
  /\ readerAt \in {"idle", "testReady", "advance"}
  /\ originalNext \in Allocated \cup {NoBlock}
  /\ held \in Seq(Allocated)
  /\ clears \in 0 .. MaxClears

Init ==
  /\ next = [b \in 1 .. MINIMUM_LIST_SIZE |-> (b % MINIMUM_LIST_SIZE) + 1]
  /\ readyToRead = [b \in 1 .. MINIMUM_LIST_SIZE |-> FALSE]
  /\ object = [b \in 1 .. MINIMUM_LIST_SIZE |-> 0]
  /\ readAheadPointer = 1 /\ writeAheadPointer = 1
  /\ readPointer = 1 /\ writePointer = 1
  /\ readCount = 0 /\ writeCount = 0
  /\ writerAt = "idle" /\ readerAt = "idle"
  /\ originalNext = NoBlock
  /\ held = <<>>
  /\ clears = 0

-------------------------------------------------------------------------------
(* The writing thread.                                                     *)

\* Slips: only readyToRead keeps the writer off a block; the block the reader
\* takes next is the limit, not the one it gives back next.
NeverFull == FALSE

FullUpToReadAhead == next[writeAheadPointer] = readAheadPointer

Full == next[writeAheadPointer] = readPointer

WriteLock ==
  /\ writerAt = "idle"
  /\ writerAt' = IF Full THEN "grow" ELSE "testReady"
  /\ UNCHANGED <<block, writeAheadPointer, writePointer, writeCount,
                 originalNext, reader, clears>>

WriteLockTestReady ==
  /\ writerAt = "testReady"
  /\ \/ /\ readyToRead[next[writeAheadPointer]]
        /\ writerAt' = "grow"
        /\ UNCHANGED writeAheadPointer
     \/ /\ ~readyToRead[next[writeAheadPointer]]
        /\ writerAt' = "idle"
        /\ writeAheadPointer' = next[writeAheadPointer]
  /\ UNCHANGED <<block, writePointer, writeCount, originalNext, reader, clears>>

Extended(f, b, value) ==
  [x \in DOMAIN f \cup {b} |-> IF x = b THEN value ELSE f[x]]

\* The ring grows: the new block is linked to before it knows what follows it.
WriteLockGrow ==
  LET new == CHOOSE b \in Blocks \ Allocated :
               \A other \in Blocks \ Allocated : b <= other
  IN
  /\ writerAt = "grow"
  /\ Blocks \ Allocated # {}
  /\ originalNext' = next[writeAheadPointer]
  /\ next' = [Extended(next, new, NoBlock) EXCEPT ![writeAheadPointer] = new]
  /\ readyToRead' = Extended(readyToRead, new, FALSE)
  /\ object' = Extended(object, new, 0)
  /\ writerAt' = "link"
  /\ UNCHANGED <<writeAheadPointer, writePointer, writeCount, reader, clears>>

WriteLockLink ==
  LET new == next[writeAheadPointer]
  IN
  /\ writerAt = "link"
  /\ next' = [next EXCEPT ![new] = originalNext]
  /\ originalNext' = NoBlock
  /\ writeAheadPointer' = new
  /\ writerAt' = "idle"
  /\ UNCHANGED <<readyToRead, object, writePointer, writeCount, reader, clears>>

\* The blocks from one pointer of the ring up to, and without, another.
Between(from, to) ==
  LET ahead[n \in 0 .. MaxBlocks] == IF n = 0 THEN from ELSE next[ahead[n - 1]]
      distance == CHOOSE n \in 0 .. MaxBlocks :
                    ahead[n] = to /\ \A m \in 0 .. n - 1 : ahead[m] # to
  IN  [i \in 1 .. distance |-> ahead[i - 1]]

Locked == Between(writePointer, writeAheadPointer)

\* cancelToLocation is one of the blocks that are locked.
CancelWriteLock(i) ==
  /\ writerAt = "idle"
  /\ writeAheadPointer' = Locked[i]
  /\ UNCHANGED <<block, writePointer, writeCount, writerAt, originalNext,
                 reader, clears>>

\* The user fills the oldest locked block and calls WriteUnlock, which starts
\* with the reader's pointer in an assert.
WriteUnlock ==
  /\ writerAt = "idle"
  /\ writePointer # writeAheadPointer
  /\ writeCount < MaxItems
  /\ object' = [object EXCEPT ![writePointer] = writeCount + 1]
  /\ writerAt' = "publish"
  /\ UNCHANGED <<next, readyToRead, writeAheadPointer, writePointer, writeCount,
                 originalNext, reader, clears>>

WriteUnlockPublish ==
  /\ writerAt = "publish"
  /\ writeCount' = writeCount + 1
  /\ readyToRead' = [readyToRead EXCEPT ![writePointer] = TRUE]
  /\ writerAt' = "advance"
  /\ UNCHANGED <<next, object, writeAheadPointer, writePointer, originalNext,
                 reader, clears>>

WriteUnlockAdvance ==
  /\ writerAt = "advance"
  /\ writePointer' = next[writePointer]
  /\ writerAt' = "idle"
  /\ UNCHANGED <<block, writeAheadPointer, writeCount, originalNext, reader,
                 clears>>

-------------------------------------------------------------------------------
(* The reading thread.                                                     *)

\* ReadLock returns 0 when the writer is here.
ReadLock ==
  /\ readerAt = "idle"
  /\ readAheadPointer # writePointer
  /\ readerAt' = "testReady"
  /\ UNCHANGED <<block, writer, readAheadPointer, readPointer, readCount, held,
                 clears>>

\* ReadLock returns 0 again, or the block.
ReadLockTestReady ==
  /\ readerAt = "testReady"
  /\ readerAt' = "idle"
  /\ IF readyToRead[readAheadPointer]
       THEN /\ held' = Append(held, readAheadPointer)
            /\ readAheadPointer' = next[readAheadPointer]
       ELSE UNCHANGED <<held, readAheadPointer>>
  /\ UNCHANGED <<block, writer, readPointer, readCount, clears>>

\* Slip: one block too few is given up.
AfterHeld(i) == next[held[i]]

ReadAgainFrom(i) == held[i]

\* cancelToLocation is one of the blocks that ReadLock returned.
CancelReadLock(i) ==
  /\ readerAt = "idle"
  /\ readAheadPointer' = ReadAgainFrom(i)
  /\ held' = SubSeq(held, 1, i - 1)
  /\ UNCHANGED <<block, writer, readPointer, readCount, readerAt, clears>>

\* Slip: the block to be read next is marked.
ReleasedAhead == readAheadPointer

Released == readPointer

\* The reader is done with the oldest block that it holds.
ReadUnlock ==
  /\ readerAt = "idle"
  /\ held # <<>>
  /\ readCount' = readCount + 1
  /\ held' = Tail(held)
  /\ readyToRead' = [readyToRead EXCEPT ![Released] = FALSE]
  /\ readerAt' = "advance"
  /\ UNCHANGED <<next, object, writer, readAheadPointer, readPointer, clears>>

ReadUnlockAdvance ==
  /\ readerAt = "advance"
  /\ readPointer' = next[readPointer]
  /\ readerAt' = "idle"
  /\ UNCHANGED <<block, writer, readAheadPointer, readCount, held, clears>>

-------------------------------------------------------------------------------

\* Slip: the reader's count goes on.
CountGoesOn == readCount

ClearedReadCount == 0

Deleted(ring) == {ring[i] : i \in 2 .. Len(ring) - MINIMUM_LIST_SIZE + 1}

\* Not to be called while anything else is: the threads are idle, and nothing
\* is locked.  The blocks behind readPointer are deleted, down to
\* MINIMUM_LIST_SIZE; those that stay keep readyToRead as it is.
Clear ==
  LET ring == <<readPointer>> \o Between(next[readPointer], readPointer)
      gone == Deleted(ring)
      kept == Allocated \ gone
      Keep(f) == [b \in kept |-> f[b]]
  IN
  /\ writerAt = "idle" /\ readerAt = "idle"
  /\ held = <<>> /\ writePointer = writeAheadPointer
  /\ clears < MaxClears
  /\ clears' = clears + 1
  /\ next' = [Keep(next) EXCEPT ![readPointer] =
                IF gone = {} THEN next[readPointer]
                             ELSE ring[Len(ring) - MINIMUM_LIST_SIZE + 2]]
  /\ readyToRead' = Keep(readyToRead)
  /\ object' = Keep(object)
  /\ writePointer' = readPointer
  /\ readAheadPointer' = readPointer
  /\ writeAheadPointer' = readPointer
  /\ readCount' = ClearedReadCount /\ writeCount' = 0
  /\ UNCHANGED <<readPointer, writerAt, readerAt, originalNext, held>>

Write ==
  \/ WriteLock \/ WriteLockTestReady \/ WriteLockGrow \/ WriteLockLink
  \/ WriteUnlock \/ WriteUnlockPublish \/ WriteUnlockAdvance

Read ==
  \/ ReadLock \/ ReadLockTestReady \/ ReadUnlock \/ ReadUnlockAdvance

Next ==
  \/ Write \/ Read \/ Clear
  \/ \E i \in 1 .. Len(Locked) : CancelWriteLock(i)
  \/ \E i \in 1 .. Len(held) : CancelReadLock(i)

Spec == Init /\ [][Next]_vars

\* The reader keeps asking, and gives back, however often it cancels, what it
\* holds; a call that has begun ends.
Fairness ==
  /\ WF_vars(Read) /\ SF_vars(ReadUnlock)
  /\ WF_vars(WriteUnlockPublish \/ WriteUnlockAdvance)

FairSpec == Spec /\ Fairness

-------------------------------------------------------------------------------
(* Properties.                                                             *)

\* "The data previously written to, in another thread, by WriteLock followed
\* by WriteUnlock" (SingleProducerConsumer.h:52): the reader holds the items in
\* the order in which they were written, none twice and none left out, and
\* nobody writes over them before it gives them back.
ReadsInOrder == \A i \in 1 .. Len(held) : object[held[i]] = readCount + i

\* Size (line 250) covers what the reader holds, so it is never negative.
SizeCoversHeld == writeCount - readCount >= Len(held)

\* RakAssert(writePointer->next!=readPointer) (line 167): even while the reader
\* is between the two writes of ReadUnlock, one block stays between it and a
\* writer that has come round.
WriterStaysBehind ==
  writerAt = "publish" => next[writePointer] # readPointer

\* The ring serves its two threads without a lock: the three above.
RingInOrder == ReadsInOrder /\ SizeCoversHeld /\ WriterStaysBehind

\* Blocks that are given back are used again: until Clear is called, WriteLock
\* (line 139) allocates only when the reader is right ahead.  After Clear it
\* is different, for Clear leaves readyToRead set in what it drops.
GrowsOnlyWhenFull ==
  [][clears = 0 /\ writerAt # "grow" /\ writerAt' = "grow"
       => next[writeAheadPointer] = readPointer]_vars

\* What is written is read in the end, whatever the two do at the same time: no
\* block is passed over and no readyToRead is lost (lines 171-172, 210-211).
EveryItemIsRead == <>[](readCount = writeCount)

===============================================================================
