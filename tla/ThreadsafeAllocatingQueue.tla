---------------------- MODULE ThreadsafeAllocatingQueue ----------------------
(***************************************************************************)
(* DS_ThreadsafeAllocatingQueue.h: a queue of blocks of a MemoryPool, that *)
(* several threads use under one mutex for the queue and one for the pool. *)
(* A step is what a thread does under one of them.                         *)
(***************************************************************************)
EXTENDS MemoryPool

CONSTANTS
  Threads,
  Removers,    \* bound: those of them that remove by an index
  NoBlock

VARIABLES
  queue,
  hand,       \* the block each thread has from Allocate or Pop
  at,         \* "pop" between the two checks of PopInaccurate, "remove" before
              \* RemoveAtIndex
  seen,       \* the index a thread is to remove, and the block it saw there
  crossed,    \* a thread has removed another block than the one it saw, or none
  clearing    \* Clear has begun

queueVars == <<queue, hand, at, seen, crossed, clearing>>
allVars == <<vars, queueVars>>

QueueInit ==
  /\ Init
  /\ queue = <<>>
  /\ hand = [t \in Threads |-> NoBlock]
  /\ at = [t \in Threads |-> "idle"]
  /\ seen = [t \in Threads |-> NoBlock]
  /\ crossed = FALSE
  /\ clearing = FALSE

Idle(t) == at[t] = "idle" /\ ~clearing

\* What the pool has given in a step.
Given == CHOOSE u \in inUse' : u \notin inUse

QueueAllocate(t) ==
  /\ Idle(t) /\ hand[t] = NoBlock
  /\ Allocate \/ \E p \in Pages : AllocatePage(p)
  /\ hand' = [hand EXCEPT ![t] = Given]
  /\ UNCHANGED <<queue, at, seen, crossed, clearing>>

PoolRelease(u) == ReleaseToFull(u[1], u[2]) \/ Release(u[1], u[2])

Deallocate(t) ==
  /\ Idle(t) /\ hand[t] # NoBlock
  /\ PoolRelease(hand[t])
  /\ hand' = [hand EXCEPT ![t] = NoBlock]
  /\ UNCHANGED <<queue, at, seen, crossed, clearing>>

Push(t) ==
  /\ Idle(t) /\ hand[t] # NoBlock
  /\ queue' = Append(queue, hand[t])
  /\ hand' = [hand EXCEPT ![t] = NoBlock]
  /\ UNCHANGED <<vars, at, seen, crossed, clearing>>

TakeFirstIfAny(t) ==
  IF queue = <<>> THEN UNCHANGED <<hand, queue>>
  ELSE /\ hand' = [hand EXCEPT ![t] = Head(queue)]
       /\ queue' = Tail(queue)

Pop(t) ==
  /\ Idle(t) /\ hand[t] = NoBlock
  /\ queue # <<>>
  /\ TakeFirstIfAny(t)
  /\ UNCHANGED <<vars, at, seen, crossed, clearing>>

\* PopInaccurate looks at the queue without the mutex, and again with it.
PopInaccurate(t) ==
  \/ /\ Idle(t) /\ hand[t] = NoBlock
     /\ queue # <<>>
     /\ at' = [at EXCEPT ![t] = "pop"]
     /\ UNCHANGED <<vars, queue, hand, seen, crossed, clearing>>
  \/ /\ at[t] = "pop"
     /\ TakeFirstIfAny(t)
     /\ at' = [at EXCEPT ![t] = "idle"]
     /\ UNCHANGED <<vars, seen, crossed, clearing>>

\* operator[] shows a block to a thread that is to remove it.
Look(t, i) ==
  /\ t \in Removers
  /\ Idle(t) /\ hand[t] = NoBlock
  /\ seen' = [seen EXCEPT ![t] = <<i, queue[i]>>]
  /\ at' = [at EXCEPT ![t] = "remove"]
  /\ UNCHANGED <<vars, queue, hand, crossed, clearing>>

Removed(q, i) == SubSeq(q, 1, i - 1) \o SubSeq(q, i + 1, Len(q))

\* Under the mutex once more, what is at the index now is removed, if anything is.
\* The block that was seen is neither destroyed nor given back, it is the
\* caller's.
RemoveAtIndex(t) ==
  LET i == seen[t][1]
      u == seen[t][2]
  IN
  /\ at[t] = "remove"
  /\ queue' = IF i <= Len(queue) THEN Removed(queue, i) ELSE queue
  /\ crossed' = (i > Len(queue) \/ queue[i] # u)
  /\ hand' = [hand EXCEPT ![t] = u]
  /\ at' = [at EXCEPT ![t] = "idle"]
  /\ seen' = [seen EXCEPT ![t] = NoBlock]
  /\ UNCHANGED <<vars, clearing>>

\* Slip: the blocks are destroyed and not given back.
Forget(u) == UNCHANGED vars

GiveBack(u) == PoolRelease(u)

\* Clear holds only the pool's mutex: the program calls it when its threads are
\* done.  It gives back what is queued, block by block, then clears the pool.
ClearQueue ==
  /\ \A t \in Threads : at[t] = "idle" /\ hand[t] = NoBlock
  /\ \/ /\ queue # <<>>
        /\ GiveBack(Head(queue))
        /\ queue' = Tail(queue)
        /\ clearing' = TRUE
     \/ /\ queue = <<>>
        /\ Clear
        /\ clearing' = FALSE
        /\ UNCHANGED queue
  /\ UNCHANGED <<hand, at, seen, crossed>>

QueueSetPageSize(n) == ~clearing /\ SetPageSize(n) /\ UNCHANGED queueVars

Act(t) ==
  \/ QueueAllocate(t) \/ Deallocate(t) \/ Push(t) \/ Pop(t) \/ PopInaccurate(t)
  \/ RemoveAtIndex(t) \/ \E i \in 1 .. Len(queue) : Look(t, i)

\* Once a block is in two places, or in none, it may be released twice, which
\* undoes the pool: what follows is left out.
QueueNext ==
  /\ ~crossed
  /\ \/ ClearQueue \/ \E t \in Threads : Act(t)
     \/ \E n \in PageSizes : QueueSetPageSize(n)

QueueSpec == QueueInit /\ [][QueueNext]_allVars

-------------------------------------------------------------------------------
(* Properties.                                                             *)

Queued == {queue[i] : i \in 1 .. Len(queue)}
InHand == {hand[t] : t \in Threads} \ {NoBlock}

\* No block is lost and none is in two places: what the pool has given out is
\* in one thread's hand or in the queue, once, whoever pops what at the same
\* time (DS_ThreadsafeAllocatingQueue.h:57-130).  Except that a block that is
\* taken between operator[] and RemoveAtIndex (lines 148-164) makes the index
\* name another; a program that removes by index has to keep others from taking.
BlocksAccountedFor ==
  ~crossed =>
    /\ inUse = Queued \cup InHand
    /\ Cardinality(inUse) =
         Len(queue) + Cardinality({t \in Threads : hand[t] # NoBlock})

===============================================================================
