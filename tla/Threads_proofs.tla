----------------------------- MODULE Threads_proofs -----------------------------
(***************************************************************************)
(* What holds of RakNet's threads and of the start of the programs.  The   *)
(* ring between two threads, whatever its size and its bounds: the         *)
(* pointers follow each other around a ring of all the blocks, and what is *)
(* between them is what was written and not yet given back.  A pool of any *)
(* number of threads, however they take their turns: the counts of threads *)
(* are those of the threads that are there, a task is in one place, and    *)
(* the pool is as quiet as it says it is.  The ports: the one that is      *)
(* printed is the one that was found free.                                 *)
(***************************************************************************)
EXTENDS MCThreads, FiniteSetTheorems, SequenceTheorems, WellFoundedInduction,
  TLAPS

\* The code asserts the first (SingleProducerConsumer.h:108).
RingConstants ==
  /\ MINIMUM_LIST_SIZE \in Nat /\ MINIMUM_LIST_SIZE >= 3
  /\ MaxBlocks \in Nat /\ MaxBlocks >= MINIMUM_LIST_SIZE
  /\ MaxItems \in Nat /\ MaxClears \in Nat
  /\ NoBlock \notin Ring!Blocks

-------------------------------------------------------------------------------
(* The invariant.  The ring has N blocks; lap names them in their order,   *)
(* from the one the reader gives back next.  A pointer is then a place:    *)
(* a of readAheadPointer, w of writePointer, f of writeAheadPointer.       *)

\* The first block has been given back, and readPointer does not know it yet.
GivingBack == IF readerAt = "advance" THEN 1 ELSE 0

\* Where the blocks end that have been written.
Published(w) == IF writerAt = "advance" THEN w + 1 ELSE w

After(N, lap, i) == IF i + 1 < N THEN lap[i + 1] ELSE lap[0]

OneToOne(lap, N) == \A i, j \in 0 .. N - 1 : lap[i] = lap[j] => i = j

Places(N, lap, a, w, f) ==
  /\ N >= MINIMUM_LIST_SIZE
  /\ a <= w /\ w <= f /\ f < N
  /\ OneToOne(lap, N)
  /\ \A b \in Ring!Allocated : \E i \in 0 .. N - 1 : lap[i] = b
  /\ readPointer = lap[0] /\ readAheadPointer = lap[a]
  /\ writePointer = lap[w] /\ writeAheadPointer = lap[f]

\* A new block is linked to before it knows what follows it.
Linked(N, lap, f) ==
  /\ \A i \in 0 .. N - 1 : next[lap[i]] =
       IF writerAt = "link" /\ i = f + 1 THEN NoBlock ELSE After(N, lap, i)
  /\ writerAt = "link" => f + 1 < N /\ originalNext = After(N, lap, f + 1)
  /\ writerAt # "link" => originalNext = NoBlock

\* What a thread that is about to move on has seen is still so.
Ahead(N, a, w, f) ==
  /\ writerAt = "testReady" => f + 1 < N
  /\ writerAt \in {"publish", "advance"} => w < f
  /\ readerAt = "testReady" => a < w
  /\ readerAt = "advance" => 0 < a

InHand(lap, a) ==
  /\ Len(held) = a - GivingBack
  /\ \A i \in 1 .. Len(held) : held[i] = lap[GivingBack + i - 1]

\* After Clear blocks that hold nothing may be marked as well.
Filled(N, lap, w) ==
  /\ writeCount = readCount + Published(w) - GivingBack
  /\ \A i \in GivingBack .. Published(w) - 1 :
       /\ object[lap[i]] = readCount + 1 + i - GivingBack
       /\ readyToRead[lap[i]]
  /\ writerAt = "publish" =>
       writeCount < MaxItems /\ object[lap[w]] = writeCount + 1
  /\ clears = 0 => \A i \in 0 .. N - 1 :
       readyToRead[lap[i]] => i \in GivingBack .. Published(w) - 1

Shape(N, lap, a, w, f) ==
  /\ Places(N, lap, a, w, f) /\ Linked(N, lap, f) /\ Ahead(N, a, w, f)
  /\ InHand(lap, a) /\ Filled(N, lap, w)

RingInv ==
  /\ Ring!TypeOK
  /\ \E N \in Nat : \E lap \in [0 .. N - 1 -> Ring!Allocated] :
       \E a, w, f \in 0 .. N - 1 : Shape(N, lap, a, w, f)

\* How a step is shown to keep it: a lap of the new ring and the new places.
LEMMA Witness ==
  ASSUME Ring!TypeOK', NEW N \in Nat, NEW lap \in [0 .. N - 1 -> Ring!Allocated'],
         NEW a \in 0 .. N - 1, NEW w \in 0 .. N - 1, NEW f \in 0 .. N - 1,
         Shape(N, lap, a, w, f)'
  PROVE  RingInv'
BY DEF RingInv

-------------------------------------------------------------------------------
(* Walks along the ring.                                                   *)

\* A finite set of numbers has a least element.
LEMMA LeastOf ==
  ASSUME NEW S \in SUBSET Nat, S # {}, IsFiniteSet(S)
  PROVE  \E x \in S : \A y \in S : x <= y
<1> DEFINE Below(x) == {y \in S : y < x}
           Segments == {Below(x) : x \in S}
           R == StrictSubsetOrdering(S)
<1>1. IsWellFoundedOn(R, FiniteSubsetsOf(S))
  BY FS_StrictSubsetOrderingWellFounded
<1>2. Segments \subseteq FiniteSubsetsOf(S) /\ Segments # {}
  <2>1. FiniteSubsetsOf(S) = SUBSET S
    BY FS_FiniteSubsetsOfFinite
  <2>2. Segments \subseteq SUBSET S
    OBVIOUS
  <2>3. Segments # {}
    OBVIOUS
  <2> QED BY <2>1, <2>2, <2>3
<1>3. PICK T \in Segments : \A U \in Segments : ~ (<<U, T>> \in R)
  <2> HIDE DEF R, Segments
  <2> QED BY <1>1, <1>2, WFMin
<1>4. PICK x \in S : T = Below(x)
  BY <1>3
<1>5. ASSUME NEW y \in S, y < x
      PROVE  FALSE
  <2>1. ASSUME NEW z \in Below(y)
        PROVE  z \in Below(x)
    <3>1. z \in Nat /\ y \in Nat /\ x \in Nat /\ z < y
      OBVIOUS
    <3> QED BY <3>1, <1>5
  <2>2. y \in Below(x) /\ y \notin Below(y)
    BY <1>5
  <2>3. <<Below(y), Below(x)>> \in R
    BY <2>1, <2>2 DEF StrictSubsetOrdering
  <2> QED BY <2>3, <1>3, <1>4
<1> QED BY <1>5

\* h goes from x to the next, d times.
Walk(h, g, x, d) == h[0] = x /\ \A n \in 1 .. d : h[n] = g[h[n - 1]]

\* From every block one can take any number of steps.
LEMMA WalkExists ==
  ASSUME NEW A, NEW g \in [A -> A], NEW x \in A, NEW M \in Nat
  PROVE  \E h \in [0 .. M -> A] : Walk(h, g, x, M)
<1> DEFINE Short == {m \in 0 .. M : ~ \E h \in [0 .. m -> A] : Walk(h, g, x, m)}
<1>1. Short = {}
  <2> SUFFICES ASSUME Short # {} PROVE FALSE
    OBVIOUS
  <2>1. Short \in SUBSET Nat /\ IsFiniteSet(Short)
    <3>1. IsFiniteSet(0 .. M) /\ Short \in SUBSET (0 .. M)
      BY FS_Interval
    <3> QED BY <3>1, FS_Subset
  <2>2. PICK m \in Short : \A k \in Short : m <= k
    <3> HIDE DEF Short
    <3> QED BY <2>1, LeastOf
  <2>3. CASE m = 0
    <3>1. [n \in 0 .. 0 |-> x] \in [0 .. 0 -> A]
      OBVIOUS
    <3>2. Walk([n \in 0 .. 0 |-> x], g, x, 0)
      BY DEF Walk
    <3> QED BY <2>2, <2>3, <3>1, <3>2
  <2>4. CASE m # 0
    <3>1. m - 1 \in 0 .. M /\ m - 1 \notin Short
      <4>1. m \in 0 .. M /\ ~(m <= m - 1)
        BY <2>2
      <4>2. m - 1 \in 0 .. M
        BY <2>4, <4>1
      <4> HIDE DEF Short
      <4> QED BY <2>2, <4>1, <4>2
    <3>2. PICK h \in [0 .. m - 1 -> A] : Walk(h, g, x, m - 1)
      BY <3>1
    <3> DEFINE longer == [n \in 0 .. m |-> IF n = m THEN g[h[m - 1]] ELSE h[n]]
    <3>3. longer \in [0 .. m -> A]
      BY <2>4, <3>1
    <3>4. Walk(longer, g, x, m)
      BY <2>4, <3>1, <3>2 DEF Walk
    <3> HIDE DEF longer
    <3> QED BY <2>2, <3>3, <3>4
  <2> QED BY <2>3, <2>4
<1> QED BY <1>1

\* Two walks that agree on every step from the same start are the same.
LEMMA WalksAgree ==
  ASSUME NEW g, NEW x, NEW d \in Nat,
         NEW h, Walk(h, g, x, d), NEW p, Walk(p, g, x, d)
  PROVE  \A n \in 0 .. d : h[n] = p[n]
<1> DEFINE Differ == {n \in 0 .. d : h[n] # p[n]}
<1> SUFFICES ASSUME Differ # {} PROVE FALSE
  OBVIOUS
<1>1. Differ \in SUBSET Nat /\ IsFiniteSet(Differ)
  <2>1. IsFiniteSet(0 .. d) /\ Differ \in SUBSET (0 .. d)
    BY FS_Interval
  <2> QED BY <2>1, FS_Subset
<1>2. PICK n \in Differ : \A k \in Differ : n <= k
  <2> HIDE DEF Differ
  <2> QED BY <1>1, LeastOf
<1>3. n # 0 /\ n \in 1 .. d
  BY <1>2 DEF Walk
<1>4. n - 1 \in 0 .. d /\ n - 1 \notin Differ
  BY <1>2, <1>3
<1> QED BY <1>2, <1>3, <1>4 DEF Walk

\* The blocks of a walk as Between gives them.
Way(p, d) == [i \in 1 .. d |-> p[i - 1]]

\* Between finds the blocks on the way from one block to another, when the way
\* is no longer than there may be blocks.
LEMMA BetweenIsTheWay ==
  ASSUME RingConstants, NEW A, next \in [A -> A],
         NEW d \in 0 .. MaxBlocks, NEW p \in [0 .. d -> A],
         \A i \in 0 .. d - 1 : next[p[i]] = p[i + 1] /\ p[i] # p[d]
  PROVE  Ring!Between(p[0], p[d]) = Way(p, d)
<1> DEFINE ahead == CHOOSE h : h = [n \in 0 .. MaxBlocks |->
                        IF n = 0 THEN p[0] ELSE next[h[n - 1]]]
           distance == CHOOSE n \in 0 .. MaxBlocks :
                    ahead[n] = p[d] /\ \A m \in 0 .. n - 1 : ahead[m] # p[d]
<1>1. ahead = [n \in 0 .. MaxBlocks |-> IF n = 0 THEN p[0] ELSE next[ahead[n - 1]]]
  <2>1. \E h : h = [n \in 0 .. MaxBlocks |-> IF n = 0 THEN p[0] ELSE next[h[n - 1]]]
    <3>1. MaxBlocks \in Nat /\ p[0] \in A
      BY DEF RingConstants
    <3>2. PICK h \in [0 .. MaxBlocks -> A] :
            Walk(h, next, p[0], MaxBlocks)
      <4> HIDE DEF ahead, distance
      <4> QED BY <3>1, WalkExists
    <3>3. \A n \in 0 .. MaxBlocks : h[n] = IF n = 0 THEN p[0] ELSE next[h[n - 1]]
      BY <3>1, <3>2 DEF Walk
    <3>4. h = [n \in 0 .. MaxBlocks |-> IF n = 0 THEN p[0] ELSE next[h[n - 1]]]
      BY <3>2, <3>3
    <3> QED BY <3>4
  <2> QED BY <2>1
<1>2. Ring!Between(p[0], p[d]) = [i \in 1 .. distance |-> ahead[i - 1]]
  BY DEF Ring!Between
<1> HIDE DEF ahead
<1>3. d \in Nat /\ MaxBlocks \in Nat /\ d <= MaxBlocks
  BY DEF RingConstants
<1>4. \A n \in 0 .. d : ahead[n] = p[n]
  <2>1. ahead[0] = p[0]
    BY <1>1, <1>3
  <2>2. ASSUME NEW n \in 1 .. d
        PROVE  ahead[n] = next[ahead[n - 1]] /\ p[n] = next[p[n - 1]]
    <3>1. ahead[n] = next[ahead[n - 1]]
      BY <1>1, <1>3
    <3>2. n - 1 \in 0 .. d - 1 /\ (n - 1) + 1 = n
      BY <1>3
    <3> QED BY <3>1, <3>2
  <2>3. Walk(ahead, next, p[0], d) /\ Walk(p, next, p[0], d)
    BY <2>1, <2>2 DEF Walk
  <2> QED BY <1>3, <2>3, WalksAgree
<1>5. distance = d
  <2>1. ahead[d] = p[d] /\ \A m \in 0 .. d - 1 : ahead[m] # p[d]
    BY <1>3, <1>4
  <2>2. \A n \in 0 .. MaxBlocks :
          ahead[n] = p[d] /\ (\A m \in 0 .. n - 1 : ahead[m] # p[d]) => n = d
    BY <1>3, <2>1
  <2> QED BY <2>1, <2>2, <1>3
<1> HIDE DEF distance
<1>6. \A i \in 1 .. d : ahead[i - 1] = p[i - 1]
  BY <1>3, <1>4
<1> QED BY <1>2, <1>5, <1>6 DEF Way

-------------------------------------------------------------------------------
(* The first state.                                                        *)

LEMMA RingInit ==
  ASSUME RingConstants, Ring!Init
  PROVE  RingInv
<1> DEFINE N == MINIMUM_LIST_SIZE
           lap == [i \in 0 .. N - 1 |-> i + 1]
<1>1. /\ N \in Nat /\ N >= 3 /\ N <= MaxBlocks /\ MaxBlocks \in Nat
      /\ MaxItems \in Nat /\ MaxClears \in Nat
  BY DEF RingConstants
<1>2. \A b \in 1 .. N : (b % N) + 1 = IF b = N THEN 1 ELSE b + 1
  <2>1. \A b \in 1 .. N - 1 : b % N = b
    BY <1>1
  <2>2. N % N = 0
    BY <1>1
  <2> QED BY <1>1, <2>1, <2>2
<1>3. /\ next = [b \in 1 .. N |-> IF b = N THEN 1 ELSE b + 1]
      /\ Ring!Allocated = 1 .. N /\ Ring!Blocks = 1 .. MaxBlocks
  BY <1>1, <1>2 DEF Ring!Init, Ring!Allocated, Ring!Blocks
<1>4. Ring!TypeOK
  BY <1>1, <1>3 DEF Ring!TypeOK, Ring!Init
<1>5. lap \in [0 .. N - 1 -> Ring!Allocated] /\ 0 \in 0 .. N - 1
  BY <1>1, <1>3
<1>6. Shape(N, lap, 0, 0, 0)
  <2>1. Places(N, lap, 0, 0, 0)
    <3>1. \A b \in 1 .. N : b - 1 \in 0 .. N - 1 /\ lap[b - 1] = b
      BY <1>1
    <3> QED BY <1>1, <1>3, <3>1 DEF Places, OneToOne, Ring!Init
  <2>2. Linked(N, lap, 0)
    <3>1. \A i \in 0 .. N - 1 : next[lap[i]] = After(N, lap, i)
      BY <1>1, <1>3 DEF After
    <3>2. writerAt = "idle" /\ originalNext = NoBlock
      BY DEF Ring!Init
    <3> HIDE DEF lap, N
    <3> QED BY <3>1, <3>2 DEF Linked
  <2>3. Ahead(N, 0, 0, 0)
    BY DEF Ahead, Ring!Init
  <2>4. InHand(lap, 0)
    BY DEF InHand, GivingBack, Ring!Init
  <2>5. Filled(N, lap, 0)
    <3>1. \A i \in 0 .. N - 1 : ~readyToRead[lap[i]]
      BY <1>1 DEF Ring!Init
    <3>2. /\ writerAt = "idle" /\ readerAt = "idle"
          /\ writeCount = 0 /\ readCount = 0
      BY DEF Ring!Init
    <3>3. GivingBack = 0 /\ Published(0) = 0
      BY <3>2 DEF GivingBack, Published
    <3> HIDE DEF lap, N
    <3> QED BY <3>1, <3>2, <3>3 DEF Filled
  <2> HIDE DEF lap, N
  <2> QED BY <2>1, <2>2, <2>3, <2>4, <2>5 DEF Shape
<1> HIDE DEF N, lap
<1> QED BY <1>1, <1>4, <1>5, <1>6 DEF RingInv

-------------------------------------------------------------------------------
(* The writing thread.                                                     *)

LEMMA WriteLockKeeps ==
  ASSUME RingConstants, Ring!TypeOK, Ring!WriteLock,
         NEW N \in Nat, NEW lap \in [0 .. N - 1 -> Ring!Allocated],
         NEW a \in 0 .. N - 1, NEW w \in 0 .. N - 1, NEW f \in 0 .. N - 1,
         Shape(N, lap, a, w, f)
  PROVE  RingInv'
<1>1. /\ writerAt = "idle"
      /\ writerAt' = IF Ring!Full THEN "grow" ELSE "testReady"
      /\ UNCHANGED <<next, readyToRead, object, writeAheadPointer, writePointer,
           writeCount, originalNext, readAheadPointer, readPointer, readCount,
           readerAt, held, clears>>
  BY DEF Ring!WriteLock, Ring!block, Ring!reader
<1>2. Ring!TypeOK' /\ Ring!Allocated' = Ring!Allocated
  BY <1>1 DEF Ring!TypeOK, Ring!Allocated, Ring!Blocks
<1>3. ~Ring!Full => f + 1 < N
  BY <1>1 DEF Ring!Full, Shape, Places, Linked, After
<1>4. Shape(N, lap, a, w, f)'
  <2>1. Places(N, lap, a, w, f)' /\ Linked(N, lap, f)'
    BY <1>1, <1>2 DEF Shape, Places, Linked, After
  <2>2. Ahead(N, a, w, f)'
    BY <1>1, <1>3 DEF Shape, Ahead
  <2>3. InHand(lap, a)' /\ Filled(N, lap, w)'
    BY <1>1 DEF Shape, InHand, Filled, GivingBack, Published
  <2> QED BY <2>1, <2>2, <2>3 DEF Shape
<1> QED BY <1>2, <1>4, Witness

LEMMA WriteLockTestReadyKeeps ==
  ASSUME RingConstants, Ring!TypeOK, Ring!WriteLockTestReady,
         NEW N \in Nat, NEW lap \in [0 .. N - 1 -> Ring!Allocated],
         NEW a \in 0 .. N - 1, NEW w \in 0 .. N - 1, NEW f \in 0 .. N - 1,
         Shape(N, lap, a, w, f)
  PROVE  RingInv'
<1>1. /\ writerAt = "testReady"
      /\ \/ writerAt' = "grow" /\ UNCHANGED writeAheadPointer
         \/ writerAt' = "idle" /\ writeAheadPointer' = next[writeAheadPointer]
      /\ UNCHANGED <<next, readyToRead, object, writePointer,
           writeCount, originalNext, readAheadPointer, readPointer, readCount,
           readerAt, held, clears>>
  BY DEF Ring!WriteLockTestReady, Ring!block, Ring!reader
<1>2. f + 1 \in 0 .. N - 1 /\ next[lap[f]] = lap[f + 1]
  BY <1>1 DEF Shape, Ahead, Linked, After
<1>3. writeAheadPointer = lap[f]
  BY DEF Shape, Places
<1>4. Ring!TypeOK' /\ Ring!Allocated' = Ring!Allocated
  <2>1. writeAheadPointer' \in Ring!Allocated
    BY <1>1, <1>2, <1>3
  <2> QED BY <1>1, <2>1 DEF Ring!TypeOK, Ring!Allocated, Ring!Blocks
<1>5. PICK f2 \in {f, f + 1} : writeAheadPointer' = lap[f2]
  BY <1>1, <1>2, <1>3
<1>6. f2 \in 0 .. N - 1 /\ f <= f2
  BY <1>2
<1>7. Shape(N, lap, a, w, f2)'
  <2>1. Places(N, lap, a, w, f2)'
    BY <1>1, <1>4, <1>5, <1>6 DEF Shape, Places
  <2>2. Linked(N, lap, f2)' /\ Ahead(N, a, w, f2)'
    BY <1>1 DEF Shape, Linked, After, Ahead
  <2>3. InHand(lap, a)' /\ Filled(N, lap, w)'
    BY <1>1 DEF Shape, InHand, Filled, GivingBack, Published
  <2> QED BY <2>1, <2>2, <2>3 DEF Shape
<1> QED BY <1>4, <1>6, <1>7, Witness

LEMMA BlocksAreNumbers ==
  ASSUME RingConstants
  PROVE  IsFiniteSet(Ring!Blocks) /\ Ring!Blocks \in SUBSET Nat
<1>1. 1 \in Int /\ MaxBlocks \in Int
  BY DEF RingConstants
<1> QED BY <1>1, FS_Interval DEF Ring!Blocks

Inserts(lap2, lap, N, f, new) ==
  /\ \A i \in 0 .. f : lap2[i] = lap[i]
  /\ lap2[f + 1] = new
  /\ \A i \in f + 2 .. N : lap2[i] = lap[i - 1]
  /\ OneToOne(lap2, N + 1)

\* One element more in the middle of a lap.
LEMMA Inserted ==
  ASSUME NEW N \in Nat, NEW S, NEW lap \in [0 .. N - 1 -> S], NEW f \in 0 .. N - 1,
         OneToOne(lap, N), NEW new, new \notin S
  PROVE  \E lap2 \in [0 .. N -> S \cup {new}] : Inserts(lap2, lap, N, f, new)
<1> DEFINE lap2 == [i \in 0 .. N |-> IF i <= f THEN lap[i]
                      ELSE IF i = f + 1 THEN new ELSE lap[i - 1]]
<1>1. /\ lap2 \in [0 .. N -> S \cup {new}]
      /\ \A i \in 0 .. f : lap2[i] = lap[i]
      /\ lap2[f + 1] = new
      /\ \A i \in f + 2 .. N : lap2[i] = lap[i - 1]
  OBVIOUS
<1>2. \A i \in 0 .. N :
        /\ i <= f => lap2[i] = lap[i] /\ i \in 0 .. N - 1
        /\ i > f + 1 => lap2[i] = lap[i - 1] /\ i - 1 \in 0 .. N - 1
        /\ lap2[i] = new <=> i = f + 1
  OBVIOUS
<1> HIDE DEF lap2
<1>3. OneToOne(lap2, N + 1)
  BY <1>2 DEF OneToOne
<1> QED BY <1>1, <1>3 DEF Inserts

\* The new block joins the lap behind the block that is locked last.
LEMMA WriteLockGrowKeeps ==
  ASSUME RingConstants, Ring!TypeOK, Ring!WriteLockGrow,
         NEW N \in Nat, NEW lap \in [0 .. N - 1 -> Ring!Allocated],
         NEW a \in 0 .. N - 1, NEW w \in 0 .. N - 1, NEW f \in 0 .. N - 1,
         Shape(N, lap, a, w, f)
  PROVE  RingInv'
<1> DEFINE free == Ring!Blocks \ Ring!Allocated
           least == CHOOSE b \in free : \A other \in free : b <= other
<1>1. PICK new : /\ new = least
                 /\ new \in Ring!Blocks /\ new \notin Ring!Allocated
                 /\ new # NoBlock
  <2>1. free \in SUBSET Nat /\ IsFiniteSet(free)
    BY BlocksAreNumbers, FS_Subset
  <2>2. free # {}
    BY DEF Ring!WriteLockGrow
  <2> HIDE DEF free
  <2>3. least \in free
    BY <2>1, <2>2, LeastOf
  <2> QED BY <2>3 DEF free, RingConstants
<1>2. /\ writerAt = "grow" /\ writerAt' = "link"
      /\ originalNext' = next[writeAheadPointer]
      /\ next' = [Ring!Extended(next, new, NoBlock) EXCEPT ![writeAheadPointer] = new]
      /\ readyToRead' = Ring!Extended(readyToRead, new, FALSE)
      /\ object' = Ring!Extended(object, new, 0)
      /\ UNCHANGED <<writeAheadPointer, writePointer, writeCount, readAheadPointer,
           readPointer, readCount, readerAt, held, clears>>
  BY <1>1 DEF Ring!WriteLockGrow, Ring!reader
<1> HIDE DEF least, free
<1>3. /\ writeAheadPointer \in Ring!Allocated
      /\ next \in [Ring!Allocated -> Ring!Allocated \cup {NoBlock}]
      /\ readyToRead \in [Ring!Allocated -> BOOLEAN]
      /\ object \in [Ring!Allocated -> 0 .. MaxItems]
  BY DEF Ring!TypeOK
<1>4. Ring!Allocated' = Ring!Allocated \cup {new}
  BY <1>2 DEF Ring!Allocated, Ring!Extended
<1>5. /\ next'[writeAheadPointer] = new /\ next'[new] = NoBlock
      /\ \A b \in Ring!Allocated \ {writeAheadPointer} : next'[b] = next[b]
      /\ next' \in [Ring!Allocated' -> Ring!Allocated' \cup {NoBlock}]
  BY <1>1, <1>2, <1>3, <1>4 DEF Ring!Extended, Ring!Allocated
<1>6. /\ ~readyToRead'[new]
      /\ \A b \in Ring!Allocated : /\ readyToRead'[b] = readyToRead[b]
                                   /\ object'[b] = object[b]
      /\ readyToRead' \in [Ring!Allocated' -> BOOLEAN]
      /\ object' \in [Ring!Allocated' -> 0 .. MaxItems]
  <2>1. 0 \in 0 .. MaxItems
    BY DEF RingConstants
  <2> QED BY <1>1, <1>2, <1>3, <1>4, <2>1 DEF Ring!Extended, Ring!Allocated
<1>7. Ring!TypeOK'
  <2>1. next[writeAheadPointer] \in Ring!Allocated \cup {NoBlock}
    BY <1>3
  <2>2. Ring!Allocated' \in SUBSET Ring!Blocks
    BY <1>1, <1>4 DEF Ring!TypeOK
  <2>3. held' \in Seq(Ring!Allocated')
    <3>1. held \in Seq(Ring!Allocated) /\ Ring!Allocated \subseteq Ring!Allocated'
      BY <1>4 DEF Ring!TypeOK
    <3> QED BY <1>2, <3>1
  <2>4. originalNext' \in Ring!Allocated' \cup {NoBlock}
    BY <1>2, <1>4, <2>1
  <2>5. {readAheadPointer, writeAheadPointer, readPointer, writePointer}'
          \subseteq Ring!Allocated'
    BY <1>2, <1>4 DEF Ring!TypeOK
  <2>6. Ring!Blocks' = Ring!Blocks
    BY DEF Ring!Blocks
  <2>7. /\ readCount' \in 0 .. MaxItems /\ writeCount' \in 0 .. MaxItems
        /\ readerAt' \in {"idle", "testReady", "advance"}
        /\ clears' \in 0 .. MaxClears
    BY <1>2 DEF Ring!TypeOK
  <2> QED BY <1>2, <1>5, <1>6, <2>2, <2>3, <2>4, <2>5, <2>6, <2>7 DEF Ring!TypeOK
<1>8. /\ N + 1 \in Nat /\ (N + 1) - 1 = N /\ f + 1 <= N
      /\ 0 <= a /\ a <= w /\ w <= f /\ f < N
  BY DEF Shape, Places
<1> PICK lap2 \in [0 .. N -> Ring!Allocated'] : Inserts(lap2, lap, N, f, new)
  <2>1. OneToOne(lap, N)
    BY DEF Shape, Places
  <2> QED BY <1>1, <1>4, <2>1, Inserted
<1>9. /\ \A i \in 0 .. f : lap2[i] = lap[i]
      /\ lap2[f + 1] = new
      /\ \A i \in f + 2 .. N : lap2[i] = lap[i - 1]
  BY DEF Inserts
<1>10. Places(N + 1, lap2, a, w, f)'
  <2>1. OneToOne(lap2, N + 1)
    BY DEF Inserts
  <2>2. ASSUME NEW b \in Ring!Allocated'
        PROVE  \E i \in 0 .. N : lap2[i] = b
    <3>1. CASE b = new
      BY <1>8, <1>9, <3>1
    <3>2. CASE b \in Ring!Allocated
      <4>1. PICK i \in 0 .. N - 1 : lap[i] = b
        BY <3>2 DEF Shape, Places
      <4>2. CASE i <= f
        BY <1>8, <1>9, <4>1, <4>2
      <4>3. CASE i > f
        <5>1. i + 1 \in f + 2 .. N /\ i + 1 \in 0 .. N /\ (i + 1) - 1 = i
          BY <4>3
        <5>2. lap2[i + 1] = lap[i]
          BY <1>9, <5>1
        <5> QED BY <4>1, <5>1, <5>2
      <4> QED BY <1>8, <4>2, <4>3
    <3> QED BY <1>4, <3>1, <3>2
  <2>3. lap2[0] = lap[0] /\ lap2[a] = lap[a] /\ lap2[w] = lap[w] /\ lap2[f] = lap[f]
    BY <1>8, <1>9
  <2>4. /\ readPointer' = lap2[0] /\ readAheadPointer' = lap2[a]
        /\ writePointer' = lap2[w] /\ writeAheadPointer' = lap2[f]
    BY <1>2, <2>3 DEF Shape, Places
  <2>5. N + 1 >= MINIMUM_LIST_SIZE /\ f < N + 1
    BY <1>8 DEF Shape, Places, RingConstants
  <2> QED BY <1>8, <2>1, <2>2, <2>4, <2>5 DEF Places
<1>11. Linked(N + 1, lap2, f)'
  <2>1. /\ \A i \in 0 .. N - 1 : next[lap[i]] = After(N, lap, i)
        /\ \A i, j \in 0 .. N - 1 : lap[i] = lap[j] => i = j
        /\ writeAheadPointer = lap[f]
    BY <1>2 DEF Shape, Linked, Places, OneToOne
  <2>2. ASSUME NEW i \in 0 .. N
        PROVE  next'[lap2[i]] = IF i = f + 1 THEN NoBlock ELSE After(N + 1, lap2, i)
    <3>1. CASE i < f
      <4>1. /\ lap2[i] = lap[i] /\ i \in 0 .. N - 1 /\ i # f /\ i # f + 1
            /\ i + 1 < N /\ i + 1 < N + 1 /\ i + 1 \in 0 .. f
        BY <1>8, <1>9, <3>1
      <4>2. next'[lap2[i]] = After(N, lap, i)
        BY <1>5, <1>8, <2>1, <4>1
      <4>3. After(N, lap, i) = After(N + 1, lap2, i)
        BY <1>9, <4>1 DEF After
      <4> QED BY <4>1, <4>2, <4>3
    <3>2. CASE i = f \/ i = f + 1
      <4>1. /\ f \in 0 .. N - 1 /\ f \in 0 .. f /\ f + 1 < N + 1
            /\ lap2[f] = lap[f] /\ lap2[f + 1] = new
        BY <1>8, <1>9
      <4>2. next'[lap2[f]] = new /\ next'[lap2[f + 1]] = NoBlock
        BY <1>5, <1>8, <2>1, <4>1
      <4>3. After(N + 1, lap2, f) = new
        BY <4>1 DEF After
      <4> QED BY <1>8, <3>2, <4>2, <4>3
    <3>3. CASE i > f + 1
      <4>1. lap2[i] = lap[i - 1] /\ i - 1 \in 0 .. N - 1 /\ i - 1 # f
        BY <1>8, <1>9, <3>3
      <4>2. next'[lap2[i]] = After(N, lap, i - 1)
        BY <1>5, <1>8, <2>1, <4>1
      <4>3. After(N, lap, i - 1) = After(N + 1, lap2, i)
        BY <1>8, <1>9, <3>3 DEF After
      <4> QED BY <3>3, <4>2, <4>3
    <3> QED BY <1>8, <3>1, <3>2, <3>3
  <2>3. originalNext' = After(N, lap, f) /\ After(N, lap, f) = After(N + 1, lap2, f + 1)
    <3>1. originalNext' = After(N, lap, f)
      BY <1>2, <2>1, <1>8 DEF Shape, Linked
    <3>2. After(N, lap, f) = After(N + 1, lap2, f + 1)
      <4>1. CASE f + 1 < N
        <5>1. (f + 1) + 1 < N + 1 /\ f + 2 \in f + 2 .. N /\ (f + 2) - 1 = f + 1
          BY <1>8, <4>1
        <5>2. lap2[f + 2] = lap[f + 1]
          BY <1>9, <5>1
        <5> QED BY <1>8, <4>1, <5>1, <5>2 DEF After
      <4>2. CASE ~(f + 1 < N)
        <5>1. ~((f + 1) + 1 < N + 1) /\ lap2[0] = lap[0]
          BY <1>8, <1>9, <4>2
        <5> QED BY <4>2, <5>1 DEF After
      <4> QED BY <4>1, <4>2
    <3> QED BY <3>1, <3>2
  <2>4. \A i : After(N + 1, lap2, i)' = After(N + 1, lap2, i)
    BY DEF After
  <2>5. (N + 1) - 1 = N /\ f + 1 < N + 1 /\ writerAt' = "link"
    BY <1>2, <1>8
  <2> HIDE DEF Shape
  <2> QED BY <2>2, <2>3, <2>4, <2>5 DEF Linked
<1>12. Ahead(N + 1, a, w, f)'
  BY <1>2 DEF Shape, Ahead
<1>13. InHand(lap2, a)'
  <2>1. GivingBack' = GivingBack /\ GivingBack \in {0, 1}
    BY <1>2 DEF GivingBack
  <2>2. Len(held) = a - GivingBack /\ Len(held) \in Nat
    BY DEF Shape, InHand, Ring!TypeOK
  <2>3. \A i \in 1 .. Len(held) : GivingBack + i - 1 \in 0 .. f
    BY <1>8, <2>1, <2>2
  <2> QED BY <1>2, <1>9, <2>1, <2>3 DEF Shape, InHand
<1>14. Filled(N + 1, lap2, w)'
  <2>1. GivingBack' = GivingBack /\ GivingBack \in {0, 1}
    BY <1>2 DEF GivingBack
  <2>2. Published(w) = w /\ Published(w)' = w
    BY <1>2 DEF Published
  <2>3. \A i \in 0 .. w : lap2[i] = lap[i] /\ lap[i] \in Ring!Allocated
    BY <1>8, <1>9
  <2>4. \A i \in GivingBack .. w - 1 : i \in 0 .. w
    BY <1>8, <2>1
  <2>5. ASSUME clears = 0, NEW i \in 0 .. N, readyToRead'[lap2[i]]
        PROVE  i \in GivingBack .. w - 1
    <3>1. \A j \in 0 .. N - 1 : readyToRead[lap[j]] => j \in GivingBack .. w - 1
      BY <2>2, <2>5 DEF Shape, Filled
    <3>2. CASE i <= f
      <4>1. lap2[i] = lap[i] /\ i \in 0 .. N - 1
        BY <1>8, <1>9, <3>2
      <4>2. readyToRead[lap[i]]
        BY <1>6, <2>5, <4>1
      <4> QED BY <3>1, <4>1, <4>2
    <3>3. CASE i = f + 1
      BY <1>6, <1>9, <2>5, <3>3
    <3>4. CASE i > f + 1
      <4>1. lap2[i] = lap[i - 1] /\ i - 1 \in 0 .. N - 1 /\ i - 1 > w
        BY <1>8, <1>9, <3>4
      <4>2. i - 1 \in GivingBack .. w - 1
        BY <1>6, <2>5, <3>1, <4>1
      <4> QED BY <1>8, <2>1, <4>1, <4>2
    <3> QED BY <1>8, <3>2, <3>3, <3>4
  <2>6. \A i \in GivingBack .. w - 1 :
          /\ object'[lap2[i]] = readCount + 1 + i - GivingBack
          /\ readyToRead'[lap2[i]]
    BY <1>6, <2>2, <2>3, <2>4 DEF Shape, Filled
  <2>7. writeCount = readCount + w - GivingBack
    BY <2>2 DEF Shape, Filled
  <2> QED BY <1>2, <1>8, <2>1, <2>2, <2>5, <2>6, <2>7 DEF Filled
<1>15. Shape(N + 1, lap2, a, w, f)'
  BY <1>10, <1>11, <1>12, <1>13, <1>14 DEF Shape
<1>16. a \in 0 .. N /\ w \in 0 .. N /\ f \in 0 .. N
  BY <1>8
<1> QED BY <1>7, <1>8, <1>9, <1>15, <1>16, Witness

LEMMA WriteLockLinkKeeps ==
  ASSUME RingConstants, Ring!TypeOK, Ring!WriteLockLink,
         NEW N \in Nat, NEW lap \in [0 .. N - 1 -> Ring!Allocated],
         NEW a \in 0 .. N - 1, NEW w \in 0 .. N - 1, NEW f \in 0 .. N - 1,
         Shape(N, lap, a, w, f)
  PROVE  RingInv'
<1>1. f + 1 \in 0 .. N - 1 /\ originalNext = After(N, lap, f + 1)
      /\ next[lap[f]] = lap[f + 1] /\ writeAheadPointer = lap[f]
  <2>1. writerAt = "link" /\ f + 1 < N
    BY DEF Ring!WriteLockLink, Shape, Linked
  <2>2. next[lap[f]] = After(N, lap, f)
    BY DEF Shape, Linked
  <2> QED BY <2>1, <2>2 DEF Shape, Linked, Places, After
<1>2. /\ writerAt = "link" /\ writerAt' = "idle"
      /\ next' = [next EXCEPT ![lap[f + 1]] = originalNext]
      /\ originalNext' = NoBlock
      /\ writeAheadPointer' = lap[f + 1]
      /\ UNCHANGED <<readyToRead, object, writePointer, writeCount,
           readAheadPointer, readPointer, readCount, readerAt, held, clears>>
  BY <1>1 DEF Ring!WriteLockLink, Ring!reader
<1>3. next \in [Ring!Allocated -> Ring!Allocated \cup {NoBlock}]
  BY DEF Ring!TypeOK
<1>4. Ring!Allocated' = Ring!Allocated
  BY <1>2, <1>3 DEF Ring!Allocated
<1>5. Ring!TypeOK'
  <2>1. lap[f + 1] \in Ring!Allocated /\ originalNext \in Ring!Allocated \cup {NoBlock}
    BY <1>1 DEF Ring!TypeOK
  <2>2. next' \in [Ring!Allocated -> Ring!Allocated \cup {NoBlock}]
    BY <1>2, <1>3, <2>1
  <2> QED BY <1>2, <1>4, <2>1, <2>2 DEF Ring!TypeOK, Ring!Blocks
<1>6. Shape(N, lap, a, w, f + 1)'
  <2>1. Places(N, lap, a, w, f + 1)'
    BY <1>1, <1>2, <1>4 DEF Shape, Places
  <2>2. Linked(N, lap, f + 1)'
    <3>1. ASSUME NEW i \in 0 .. N - 1
          PROVE  next'[lap[i]] = After(N, lap, i)
      <4>1. lap[i] \in Ring!Allocated
        OBVIOUS
      <4>2. CASE i = f + 1
        BY <1>1, <1>2, <1>3, <4>1, <4>2
      <4>3. CASE i # f + 1
        <5>1. lap[i] # lap[f + 1]
          BY <1>1, <4>3 DEF Shape, Places, OneToOne
        <5>2. next'[lap[i]] = next[lap[i]]
          BY <1>2, <1>3, <4>1, <5>1
        <5> QED BY <4>3, <5>2 DEF Shape, Linked
      <4> QED BY <4>2, <4>3
    <3> QED BY <1>2, <3>1 DEF Linked, After
  <2>3. Ahead(N, a, w, f + 1)'
    BY <1>2 DEF Shape, Ahead
  <2>4. InHand(lap, a)' /\ Filled(N, lap, w)'
    BY <1>2 DEF Shape, InHand, Filled, GivingBack, Published
  <2> QED BY <2>1, <2>2, <2>3, <2>4 DEF Shape
<1> QED BY <1>1, <1>4, <1>5, <1>6, Witness

\* The lap names each block once.
LEMMA LapFits ==
  ASSUME RingConstants, Ring!TypeOK,
         NEW N \in Nat, NEW lap \in [0 .. N - 1 -> Ring!Allocated], OneToOne(lap, N)
  PROVE  N <= MaxBlocks
<1>1. lap \in [0 .. N - 1 -> Ring!Blocks]
  BY DEF Ring!TypeOK
<1>2. lap \in Injection(0 .. N - 1, Ring!Blocks)
  BY <1>1 DEF Injection, IsInjective, OneToOne
<1>3. Cardinality(0 .. N - 1) <= Cardinality(Ring!Blocks)
  BY <1>2, BlocksAreNumbers, FS_Injection
<1>4. Cardinality(0 .. N - 1) = N
  <2>1. 0 \in Int /\ N - 1 \in Int
    OBVIOUS
  <2>2. Cardinality(0 .. N - 1) = IF 0 > N - 1 THEN 0 ELSE (N - 1) - 0 + 1
    BY <2>1, FS_Interval
  <2> QED BY <2>2
<1>5. Cardinality(Ring!Blocks) = MaxBlocks
  <2>1. 1 \in Int /\ MaxBlocks \in Int /\ MaxBlocks \in Nat
    BY DEF RingConstants
  <2>2. Cardinality(1 .. MaxBlocks) = IF 1 > MaxBlocks THEN 0 ELSE MaxBlocks - 1 + 1
    BY <2>1, FS_Interval
  <2> QED BY <2>1, <2>2 DEF Ring!Blocks
<1> QED BY <1>3, <1>4, <1>5

\* Between two threads at rest all blocks are followed by a block.
LEMMA RingIsClosed ==
  ASSUME Ring!TypeOK, writerAt # "link",
         NEW N \in Nat, NEW lap \in [0 .. N - 1 -> Ring!Allocated],
         NEW a \in 0 .. N - 1, NEW w \in 0 .. N - 1, NEW f \in 0 .. N - 1,
         Shape(N, lap, a, w, f)
  PROVE  /\ next \in [Ring!Allocated -> Ring!Allocated]
         /\ \A i \in 0 .. N - 1 : next[lap[i]] = After(N, lap, i)
<1>1. \A i \in 0 .. N - 1 : next[lap[i]] = After(N, lap, i)
  BY DEF Shape, Linked
<1>2. \A i \in 0 .. N - 1 : After(N, lap, i) \in Ring!Allocated
  BY DEF After
<1>3. \A b \in Ring!Allocated : next[b] \in Ring!Allocated
  <2> TAKE b \in Ring!Allocated
  <2>1. PICK i \in 0 .. N - 1 : lap[i] = b
    BY DEF Shape, Places
  <2> QED BY <1>1, <1>2, <2>1
<1>4. next \in [Ring!Allocated -> Ring!Allocated \cup {NoBlock}]
  BY DEF Ring!TypeOK
<1> QED BY <1>1, <1>3, <1>4

\* The locked blocks are those from writePointer's place to writeAheadPointer's.
LEMMA LockedBlocks ==
  ASSUME RingConstants, Ring!TypeOK, writerAt # "link",
         NEW N \in Nat, NEW lap \in [0 .. N - 1 -> Ring!Allocated],
         NEW a \in 0 .. N - 1, NEW w \in 0 .. N - 1, NEW f \in 0 .. N - 1,
         Shape(N, lap, a, w, f)
  PROVE  Ring!Locked = [i \in 1 .. f - w |-> lap[w + i - 1]]
<1> DEFINE p == [i \in 0 .. f - w |-> lap[w + i]]
           d == f - w
<1>1. /\ d \in Nat /\ d <= N - 1 /\ w + d = f /\ \A i \in 0 .. d : w + i \in 0 .. N - 1
  BY DEF Shape, Places
<1>2. d \in 0 .. MaxBlocks
  <2>1. N <= MaxBlocks
    BY LapFits DEF Shape, Places
  <2> QED BY <1>1, <2>1 DEF RingConstants
<1>3. p \in [0 .. d -> Ring!Allocated] /\ p[0] = lap[w] /\ p[d] = lap[f]
  BY <1>1
<1>4. \A i \in 0 .. d - 1 : next[p[i]] = p[i + 1] /\ p[i] # p[d]
  <2>2. \A i \in 0 .. N - 1 : next[lap[i]] = After(N, lap, i)
    BY RingIsClosed
  <2>1. ASSUME NEW i \in 0 .. d - 1
        PROVE  next[p[i]] = p[i + 1] /\ p[i] # p[d]
    <3>1. w + i \in 0 .. N - 1 /\ (w + i) + 1 \in 0 .. N - 1 /\ w + i # f
      BY <1>1
    <3>2. next[lap[w + i]] = lap[(w + i) + 1]
      BY <2>2, <3>1 DEF After
    <3>3. lap[w + i] # lap[f]
      BY <3>1 DEF Shape, Places, OneToOne
    <3>4. p[i] = lap[w + i] /\ p[i + 1] = lap[(w + i) + 1]
      BY <1>1
    <3> QED BY <1>3, <3>2, <3>3, <3>4
  <2> QED BY <2>1
<1>5. next \in [Ring!Allocated -> Ring!Allocated]
  BY RingIsClosed
<1> HIDE DEF p, d
<1>6. Ring!Between(p[0], p[d]) = Way(p, d)
  BY <1>2, <1>3, <1>4, <1>5, BetweenIsTheWay
<1>7. Ring!Locked = Ring!Between(p[0], p[d])
  BY <1>3 DEF Ring!Locked, Shape, Places
<1>8. \A i \in 1 .. d : p[i - 1] = lap[w + i - 1]
  BY <1>1 DEF p, d
<1> QED BY <1>6, <1>7, <1>8 DEF d, Way

LEMMA CancelWriteLockKeeps ==
  ASSUME RingConstants, Ring!TypeOK,
         NEW k \in 1 .. Len(Ring!Locked), Ring!CancelWriteLock(k),
         NEW N \in Nat, NEW lap \in [0 .. N - 1 -> Ring!Allocated],
         NEW a \in 0 .. N - 1, NEW w \in 0 .. N - 1, NEW f \in 0 .. N - 1,
         Shape(N, lap, a, w, f)
  PROVE  RingInv'
<1>1. /\ writerAt = "idle" /\ writeAheadPointer' = Ring!Locked[k]
      /\ UNCHANGED <<next, readyToRead, object, writePointer, writeCount, writerAt,
           originalNext, readAheadPointer, readPointer, readCount, readerAt, held,
           clears>>
  BY DEF Ring!CancelWriteLock, Ring!block, Ring!reader
<1>2. PICK f2 \in 0 .. N - 1 : w <= f2 /\ writeAheadPointer' = lap[f2]
  <2>1. Ring!Locked = [i \in 1 .. f - w |-> lap[w + i - 1]]
    BY <1>1, LockedBlocks
  <2>2. f - w \in Nat /\ f < N
    BY DEF Shape, Places
  <2>3. Len(Ring!Locked) = f - w
    BY <2>1, <2>2
  <2>4. k \in 1 .. f - w /\ w + k - 1 \in 0 .. N - 1
    BY <2>2, <2>3
  <2>5. Ring!Locked[k] = lap[w + k - 1]
    BY <2>1, <2>4
  <2> QED BY <1>1, <2>4, <2>5
<1>3. Ring!TypeOK' /\ Ring!Allocated' = Ring!Allocated
  BY <1>1, <1>2 DEF Ring!TypeOK, Ring!Allocated, Ring!Blocks
<1>4. Shape(N, lap, a, w, f2)'
  <2>1. Places(N, lap, a, w, f2)'
    BY <1>1, <1>2, <1>3 DEF Shape, Places
  <2>2. Linked(N, lap, f2)' /\ Ahead(N, a, w, f2)'
    BY <1>1 DEF Shape, Linked, After, Ahead
  <2>3. InHand(lap, a)' /\ Filled(N, lap, w)'
    BY <1>1 DEF Shape, InHand, Filled, GivingBack, Published
  <2> QED BY <2>1, <2>2, <2>3 DEF Shape
<1> QED BY <1>3, <1>4, Witness

LEMMA WriteUnlockKeeps ==
  ASSUME RingConstants, Ring!TypeOK, Ring!WriteUnlock,
         NEW N \in Nat, NEW lap \in [0 .. N - 1 -> Ring!Allocated],
         NEW a \in 0 .. N - 1, NEW w \in 0 .. N - 1, NEW f \in 0 .. N - 1,
         Shape(N, lap, a, w, f)
  PROVE  RingInv'
<1>1. /\ writerAt = "idle" /\ writerAt' = "publish"
      /\ writePointer # writeAheadPointer /\ writeCount < MaxItems
      /\ object' = [object EXCEPT ![writePointer] = writeCount + 1]
      /\ UNCHANGED <<next, readyToRead, writeAheadPointer, writePointer, writeCount,
           originalNext, readAheadPointer, readPointer, readCount, readerAt, held,
           clears>>
  BY DEF Ring!WriteUnlock, Ring!reader
<1>2. /\ writePointer = lap[w] /\ lap[w] \in Ring!Allocated /\ w < f
      /\ object \in [Ring!Allocated -> 0 .. MaxItems]
      /\ writeCount \in Nat /\ writeCount + 1 \in 0 .. MaxItems
  <2>1. writePointer = lap[w] /\ writeAheadPointer = lap[f] /\ w <= f
    BY DEF Shape, Places
  <2>2. writeCount \in 0 .. MaxItems /\ MaxItems \in Nat
    BY DEF Ring!TypeOK, RingConstants
  <2>3. writeCount \in Nat /\ writeCount + 1 \in 0 .. MaxItems
    BY <1>1, <2>2
  <2>4. w < f
    BY <1>1, <2>1
  <2>5. object \in [Ring!Allocated -> 0 .. MaxItems] /\ lap[w] \in Ring!Allocated
    BY DEF Ring!TypeOK
  <2> QED BY <2>1, <2>3, <2>4, <2>5
<1>3. Ring!TypeOK' /\ Ring!Allocated' = Ring!Allocated
  BY <1>1, <1>2 DEF Ring!TypeOK, Ring!Allocated, Ring!Blocks
<1>4. Shape(N, lap, a, w, f)'
  <2>1. Places(N, lap, a, w, f)' /\ Linked(N, lap, f)'
    BY <1>1, <1>3 DEF Shape, Places, Linked, After
  <2>2. Ahead(N, a, w, f)' /\ InHand(lap, a)'
    BY <1>1, <1>2 DEF Shape, Ahead, InHand, GivingBack
  <2>3. Filled(N, lap, w)'
    <3>1. GivingBack \in {0, 1} /\ GivingBack' = GivingBack
          /\ Published(w) = w /\ Published(w)' = w
      BY <1>1 DEF GivingBack, Published
    <3>2. ASSUME NEW i \in GivingBack .. w - 1
          PROVE  object'[lap[i]] = object[lap[i]]
      <4>1. i \in 0 .. N - 1 /\ i # w
        BY <3>1
      <4>2. lap[i] # lap[w] /\ lap[i] \in Ring!Allocated
        BY <4>1 DEF Shape, Places, OneToOne
      <4> QED BY <1>1, <1>2, <4>2
    <3>3. object'[lap[w]] = writeCount + 1
      BY <1>1, <1>2
    <3> QED BY <1>1, <3>1, <3>2, <3>3 DEF Shape, Filled
  <2> QED BY <2>1, <2>2, <2>3 DEF Shape
<1> QED BY <1>3, <1>4, Witness

LEMMA WriteUnlockPublishKeeps ==
  ASSUME RingConstants, Ring!TypeOK, Ring!WriteUnlockPublish,
         NEW N \in Nat, NEW lap \in [0 .. N - 1 -> Ring!Allocated],
         NEW a \in 0 .. N - 1, NEW w \in 0 .. N - 1, NEW f \in 0 .. N - 1,
         Shape(N, lap, a, w, f)
  PROVE  RingInv'
<1>1. /\ writerAt = "publish" /\ writerAt' = "advance"
      /\ writeCount' = writeCount + 1
      /\ readyToRead' = [readyToRead EXCEPT ![lap[w]] = TRUE]
      /\ UNCHANGED <<next, object, writeAheadPointer, writePointer, originalNext,
           readAheadPointer, readPointer, readCount, readerAt, held, clears>>
  BY DEF Ring!WriteUnlockPublish, Ring!reader, Shape, Places
<1>2. /\ lap[w] \in Ring!Allocated /\ a <= w
      /\ readyToRead \in [Ring!Allocated -> BOOLEAN]
      /\ writeCount \in Nat /\ writeCount + 1 \in 0 .. MaxItems
      /\ object[lap[w]] = writeCount + 1 /\ readCount \in Nat
  <2>1. writeCount < MaxItems /\ object[lap[w]] = writeCount + 1
    BY <1>1 DEF Shape, Filled
  <2>2. writeCount \in 0 .. MaxItems /\ readCount \in 0 .. MaxItems /\ MaxItems \in Nat
    BY DEF Ring!TypeOK, RingConstants
  <2>3. readyToRead \in [Ring!Allocated -> BOOLEAN] /\ a <= w
    BY DEF Ring!TypeOK, Shape, Places
  <2> QED BY <2>1, <2>2, <2>3
<1>3. Ring!TypeOK' /\ Ring!Allocated' = Ring!Allocated
  BY <1>1, <1>2 DEF Ring!TypeOK, Ring!Allocated, Ring!Blocks
<1>4. Shape(N, lap, a, w, f)'
  <2>1. Places(N, lap, a, w, f)' /\ Linked(N, lap, f)'
    BY <1>1, <1>3 DEF Shape, Places, Linked, After
  <2>2. Ahead(N, a, w, f)' /\ InHand(lap, a)'
    BY <1>1 DEF Shape, Ahead, InHand, GivingBack
  <2>3. Filled(N, lap, w)'
    <3>1. GivingBack \in {0, 1} /\ GivingBack' = GivingBack
          /\ Published(w) = w /\ Published(w)' = w + 1
      BY <1>1 DEF GivingBack, Published
    <3>2. ASSUME NEW i \in 0 .. N - 1
          PROVE  readyToRead'[lap[i]] = IF i = w THEN TRUE ELSE readyToRead[lap[i]]
      <4>1. lap[i] \in Ring!Allocated /\ (lap[i] = lap[w] => i = w)
        BY DEF Shape, Places, OneToOne
      <4> QED BY <1>1, <1>2, <4>1
    <3>3. GivingBack <= w
      BY <1>2, <3>1 DEF Shape, Ahead, GivingBack
    <3>4. writeCount' = readCount' + Published(w)' - GivingBack'
      BY <1>1, <1>2, <3>1 DEF Shape, Filled
    <3>5. ASSUME NEW i \in GivingBack .. w
          PROVE  object'[lap[i]] = readCount' + 1 + i - GivingBack /\ readyToRead'[lap[i]]
      <4>1. i \in 0 .. N - 1
        BY <3>1
      <4>2. CASE i = w
        <5>1. object'[lap[i]] = writeCount + 1 /\ readyToRead'[lap[i]]
          BY <1>1, <1>2, <3>2, <4>1, <4>2
        <5> QED BY <1>1, <1>2, <3>1, <3>4, <4>2, <5>1
      <4>3. CASE i # w
        <5>1. i \in GivingBack .. w - 1
          BY <3>1, <4>3
        <5> QED BY <1>1, <3>1, <3>2, <4>1, <5>1 DEF Shape, Filled
      <4> QED BY <4>2, <4>3
    <3>6. ASSUME clears = 0, NEW i \in 0 .. N - 1, readyToRead'[lap[i]]
          PROVE  i \in GivingBack .. w
      <4>1. i = w \/ i \in GivingBack .. w - 1
        BY <3>1, <3>2, <3>6 DEF Shape, Filled
      <4> QED BY <3>1, <3>3, <4>1
    <3>7. (w + 1) - 1 = w
      OBVIOUS
    <3> QED BY <1>1, <3>1, <3>4, <3>5, <3>6, <3>7 DEF Filled
  <2> QED BY <2>1, <2>2, <2>3 DEF Shape
<1> QED BY <1>3, <1>4, Witness

LEMMA WriteUnlockAdvanceKeeps ==
  ASSUME RingConstants, Ring!TypeOK, Ring!WriteUnlockAdvance,
         NEW N \in Nat, NEW lap \in [0 .. N - 1 -> Ring!Allocated],
         NEW a \in 0 .. N - 1, NEW w \in 0 .. N - 1, NEW f \in 0 .. N - 1,
         Shape(N, lap, a, w, f)
  PROVE  RingInv'
<1>1. /\ writerAt = "advance" /\ writerAt' = "idle"
      /\ writePointer' = next[writePointer]
      /\ UNCHANGED <<next, readyToRead, object, writeAheadPointer, writeCount,
           originalNext, readAheadPointer, readPointer, readCount, readerAt, held,
           clears>>
  BY DEF Ring!WriteUnlockAdvance, Ring!block, Ring!reader
<1>2. a <= w /\ w < f /\ w + 1 \in 0 .. N - 1 /\ writePointer' = lap[w + 1]
  <2>1. a <= w /\ w < f /\ f < N /\ writePointer = lap[w]
    BY <1>1 DEF Shape, Places, Ahead
  <2>2. next[lap[w]] = After(N, lap, w)
    BY <1>1 DEF Shape, Linked
  <2> QED BY <1>1, <2>1, <2>2 DEF After
<1>3. Ring!TypeOK' /\ Ring!Allocated' = Ring!Allocated
  <2>1. writePointer' \in Ring!Allocated
    BY <1>2
  <2> QED BY <1>1, <2>1 DEF Ring!TypeOK, Ring!Allocated, Ring!Blocks
<1>4. Shape(N, lap, a, w + 1, f)'
  <2>1. Places(N, lap, a, w + 1, f)' /\ Linked(N, lap, f)'
    BY <1>1, <1>2, <1>3 DEF Shape, Places, Linked, After
  <2>2. Ahead(N, a, w + 1, f)' /\ InHand(lap, a)'
    BY <1>1, <1>2 DEF Shape, Ahead, InHand, GivingBack
  <2>3. Filled(N, lap, w + 1)'
    BY <1>1 DEF Shape, Filled, GivingBack, Published
  <2> QED BY <2>1, <2>2, <2>3 DEF Shape
<1> QED BY <1>2, <1>3, <1>4, Witness

-------------------------------------------------------------------------------
(* The reading thread.                                                     *)

LEMMA ReadLockKeeps ==
  ASSUME RingConstants, Ring!TypeOK, Ring!ReadLock,
         NEW N \in Nat, NEW lap \in [0 .. N - 1 -> Ring!Allocated],
         NEW a \in 0 .. N - 1, NEW w \in 0 .. N - 1, NEW f \in 0 .. N - 1,
         Shape(N, lap, a, w, f)
  PROVE  RingInv'
<1>1. /\ readerAt = "idle" /\ readerAt' = "testReady"
      /\ readAheadPointer # writePointer
      /\ UNCHANGED <<next, readyToRead, object, writeAheadPointer, writePointer,
           writeCount, writerAt, originalNext, readAheadPointer, readPointer,
           readCount, held, clears>>
  BY DEF Ring!ReadLock, Ring!block, Ring!writer
<1>2. Ring!TypeOK' /\ Ring!Allocated' = Ring!Allocated
  BY <1>1 DEF Ring!TypeOK, Ring!Allocated, Ring!Blocks
<1>3. a < w
  BY <1>1 DEF Shape, Places
<1>4. Shape(N, lap, a, w, f)'
  <2>1. Places(N, lap, a, w, f)' /\ Linked(N, lap, f)'
    BY <1>1, <1>2 DEF Shape, Places, Linked, After
  <2>2. Ahead(N, a, w, f)'
    BY <1>1, <1>3 DEF Shape, Ahead
  <2>3. InHand(lap, a)' /\ Filled(N, lap, w)'
    BY <1>1 DEF Shape, InHand, Filled, GivingBack, Published
  <2> QED BY <2>1, <2>2, <2>3 DEF Shape
<1> QED BY <1>2, <1>4, Witness

LEMMA ReadLockTestReadyKeeps ==
  ASSUME RingConstants, Ring!TypeOK, Ring!ReadLockTestReady,
         NEW N \in Nat, NEW lap \in [0 .. N - 1 -> Ring!Allocated],
         NEW a \in 0 .. N - 1, NEW w \in 0 .. N - 1, NEW f \in 0 .. N - 1,
         Shape(N, lap, a, w, f)
  PROVE  RingInv'
<1>1. /\ readerAt = "testReady" /\ readerAt' = "idle"
      /\ IF readyToRead[readAheadPointer]
           THEN /\ held' = Append(held, readAheadPointer)
                /\ readAheadPointer' = next[readAheadPointer]
           ELSE UNCHANGED <<held, readAheadPointer>>
      /\ UNCHANGED <<next, readyToRead, object, writeAheadPointer, writePointer,
           writeCount, writerAt, originalNext, readPointer, readCount, clears>>
  BY DEF Ring!ReadLockTestReady, Ring!block, Ring!writer
<1>2. /\ a < w /\ w <= f /\ f < N /\ a + 1 \in 0 .. N - 1
      /\ readAheadPointer = lap[a] /\ next[lap[a]] = lap[a + 1]
      /\ GivingBack = 0 /\ GivingBack' = 0
  <2>1. a < w /\ w <= f /\ f < N /\ readAheadPointer = lap[a]
    BY <1>1 DEF Shape, Places, Ahead
  <2>2. next[lap[a]] = After(N, lap, a)
    BY <2>1 DEF Shape, Linked
  <2> QED BY <1>1, <2>1, <2>2 DEF After, GivingBack
\* The block is ready, for the writer is beyond it.
<1>3. readyToRead[lap[a]]
  <2>1. a \in GivingBack .. Published(w) - 1
    BY <1>2 DEF Published
  <2> QED BY <2>1 DEF Shape, Filled
<1>4. held' = Append(held, lap[a]) /\ readAheadPointer' = lap[a + 1]
  BY <1>1, <1>2, <1>3
<1>5. held \in Seq(Ring!Allocated) /\ Len(held) = a /\ lap[a] \in Ring!Allocated
  BY <1>2 DEF Ring!TypeOK, Shape, InHand
<1>6. /\ held' \in Seq(Ring!Allocated) /\ Len(held') = a + 1
      /\ \A i \in 1 .. a : held'[i] = held[i]
      /\ held'[a + 1] = lap[a]
  BY <1>4, <1>5, AppendProperties
<1>7. Ring!TypeOK' /\ Ring!Allocated' = Ring!Allocated
  <2>1. readAheadPointer' \in Ring!Allocated
    BY <1>2, <1>4
  <2> QED BY <1>1, <1>6, <2>1 DEF Ring!TypeOK, Ring!Allocated, Ring!Blocks
<1>8. Shape(N, lap, a + 1, w, f)'
  <2>1. Places(N, lap, a + 1, w, f)' /\ Linked(N, lap, f)'
    <3>1. UNCHANGED <<next, writeAheadPointer, writePointer, readPointer, writerAt,
            originalNext>>
      BY <1>1
    <3>2. a + 1 <= w
      BY <1>2
    <3>3. Places(N, lap, a + 1, w, f)'
      BY <1>4, <1>7, <3>1, <3>2 DEF Shape, Places
    <3> QED BY <3>1, <3>3 DEF Shape, Linked, After
  <2>2. Ahead(N, a + 1, w, f)'
    BY <1>1 DEF Shape, Ahead
  <2>3. InHand(lap, a + 1)'
    <3>1. \A i \in 1 .. a : held'[i] = lap[i - 1]
      BY <1>2, <1>5, <1>6 DEF Shape, InHand
    <3>2. ASSUME NEW i \in 1 .. a + 1
          PROVE  held'[i] = lap[i - 1]
      <4>1. i \in 1 .. a \/ (i = a + 1 /\ i - 1 = a)
        OBVIOUS
      <4> QED BY <1>6, <3>1, <4>1
    <3>3. /\ GivingBack' = 0 /\ Len(held') = a + 1 /\ a + 1 \in Nat
          /\ \A i \in 1 .. a + 1 : 0 + i - 1 = i - 1
      BY <1>2, <1>6
    <3> HIDE DEF Shape
    <3> QED BY <3>2, <3>3 DEF InHand
  <2>4. Filled(N, lap, w)'
    <3>1. Published(w)' = Published(w)
      BY <1>1 DEF Published
    <3> QED BY <1>1, <1>2, <3>1 DEF Shape, Filled
  <2> QED BY <2>1, <2>2, <2>3, <2>4 DEF Shape
<1> QED BY <1>2, <1>7, <1>8, Witness

LEMMA CancelReadLockKeeps ==
  ASSUME RingConstants, Ring!TypeOK,
         NEW k \in 1 .. Len(held), Ring!CancelReadLock(k),
         NEW N \in Nat, NEW lap \in [0 .. N - 1 -> Ring!Allocated],
         NEW a \in 0 .. N - 1, NEW w \in 0 .. N - 1, NEW f \in 0 .. N - 1,
         Shape(N, lap, a, w, f)
  PROVE  RingInv'
<1>1. /\ readerAt = "idle" /\ readAheadPointer' = held[k]
      /\ held' = SubSeq(held, 1, k - 1)
      /\ UNCHANGED <<next, readyToRead, object, writeAheadPointer, writePointer,
           writeCount, writerAt, originalNext, readPointer, readCount, readerAt,
           clears>>
  BY DEF Ring!CancelReadLock, Ring!ReadAgainFrom, Ring!block, Ring!writer
<1>2. /\ GivingBack = 0 /\ GivingBack' = 0
      /\ held \in Seq(Ring!Allocated) /\ Len(held) = a
      /\ \A i \in 1 .. a : held[i] = lap[i - 1]
  BY <1>1 DEF GivingBack, Ring!TypeOK, Shape, InHand
<1>3. /\ k - 1 \in 0 .. N - 1 /\ k - 1 \in Nat /\ k - 1 < a /\ a <= w
      /\ readAheadPointer' = lap[k - 1]
  BY <1>1, <1>2 DEF Shape, Places
<1>4. /\ held' \in Seq(Ring!Allocated) /\ Len(held') = k - 1
      /\ \A i \in 1 .. k - 1 : held'[i] = held[i]
  <2>1. \A i \in 1 .. k - 1 : held[i] \in Ring!Allocated
    BY <1>2, <1>3, ElementOfSeq
  <2>2. 1 \in Int /\ k - 1 \in Int
    OBVIOUS
  <2>3. /\ SubSeq(held, 1, k - 1) \in Seq(Ring!Allocated)
        /\ Len(SubSeq(held, 1, k - 1)) = k - 1
        /\ \A i \in 1 .. k - 1 : SubSeq(held, 1, k - 1)[i] = held[i]
    BY <1>3, <2>1, <2>2, SubSeqProperties
  <2> QED BY <1>1, <2>3
<1>5. Ring!TypeOK' /\ Ring!Allocated' = Ring!Allocated
  <2>1. readAheadPointer' \in Ring!Allocated
    BY <1>3
  <2> QED BY <1>1, <1>4, <2>1 DEF Ring!TypeOK, Ring!Allocated, Ring!Blocks
<1>6. Shape(N, lap, k - 1, w, f)'
  <2>1. UNCHANGED <<next, writeAheadPointer, writePointer, readPointer, writerAt,
          originalNext, readerAt>>
    BY <1>1
  <2>2. k - 1 <= w
    BY <1>3
  <2>3. Places(N, lap, k - 1, w, f)'
    BY <1>3, <1>5, <2>1, <2>2 DEF Shape, Places
  <2>4. Linked(N, lap, f)' /\ Ahead(N, k - 1, w, f)'
    BY <1>1, <2>1 DEF Shape, Linked, After, Ahead
  <2>5. InHand(lap, k - 1)'
    <3>1. \A i \in 1 .. k - 1 : held'[i] = lap[i - 1]
      BY <1>2, <1>3, <1>4
    <3> QED BY <1>2, <1>4, <3>1 DEF InHand
  <2>6. Filled(N, lap, w)'
    <3>1. Published(w)' = Published(w)
      BY <1>1 DEF Published
    <3> QED BY <1>1, <1>2, <3>1 DEF Shape, Filled
  <2> QED BY <2>3, <2>4, <2>5, <2>6 DEF Shape
<1> QED BY <1>3, <1>5, <1>6, Witness

LEMMA ReadUnlockKeeps ==
  ASSUME RingConstants, Ring!TypeOK, Ring!ReadUnlock,
         NEW N \in Nat, NEW lap \in [0 .. N - 1 -> Ring!Allocated],
         NEW a \in 0 .. N - 1, NEW w \in 0 .. N - 1, NEW f \in 0 .. N - 1,
         Shape(N, lap, a, w, f)
  PROVE  RingInv'
<1>1. /\ readerAt = "idle" /\ readerAt' = "advance"
      /\ held # <<>> /\ held' = Tail(held)
      /\ readCount' = readCount + 1
      /\ readyToRead' = [readyToRead EXCEPT ![lap[0]] = FALSE]
      /\ UNCHANGED <<next, object, writeAheadPointer, writePointer, writeCount,
           writerAt, originalNext, readAheadPointer, readPointer, clears>>
  BY DEF Ring!ReadUnlock, Ring!Released, Ring!writer, Shape, Places
<1>2. /\ GivingBack = 0 /\ GivingBack' = 1
      /\ Published(w)' = Published(w) /\ Published(w) \in {w, w + 1}
      /\ held \in Seq(Ring!Allocated) /\ Len(held) = a
      /\ \A i \in 1 .. a : held[i] = lap[i - 1]
  BY <1>1 DEF GivingBack, Published, Ring!TypeOK, Shape, InHand
<1>3. /\ held' \in Seq(Ring!Allocated) /\ Len(held') = a - 1 /\ a >= 1
      /\ \A i \in 1 .. a - 1 : held'[i] = lap[i]
  <2>1. a >= 1
    BY <1>1, <1>2
  <2>2. /\ Tail(held) \in Seq(Ring!Allocated) /\ Len(Tail(held)) = Len(held) - 1
        /\ \A i \in 1 .. Len(Tail(held)) : Tail(held)[i] = held[i + 1]
    BY <1>1, <1>2, HeadTailProperties
  <2>3. \A i \in 1 .. a - 1 : i + 1 \in 1 .. a /\ held[i + 1] = lap[i]
    BY <1>2, <2>1
  <2> QED BY <1>1, <1>2, <2>1, <2>2, <2>3
<1>4. /\ lap[0] \in Ring!Allocated /\ 0 \in 0 .. N - 1 /\ a <= w
      /\ readyToRead \in [Ring!Allocated -> BOOLEAN]
      /\ readCount \in Nat /\ readCount + 1 \in 0 .. MaxItems
      /\ writeCount = readCount + Published(w)
  <2>1. writeCount = readCount + Published(w) - GivingBack
    BY DEF Shape, Filled
  <2>2. readCount \in 0 .. MaxItems /\ writeCount \in 0 .. MaxItems /\ MaxItems \in Nat
    BY DEF Ring!TypeOK, RingConstants
  <2>3. a <= w /\ readyToRead \in [Ring!Allocated -> BOOLEAN]
    BY DEF Ring!TypeOK, Shape, Places
  <2>4. writeCount = readCount + Published(w)
    BY <1>2, <2>1, <2>2
  <2>5. Published(w) >= 1
    BY <1>2, <1>3, <2>3
  <2>6. 0 \in 0 .. N - 1 /\ Published(w) \in Nat
    BY <1>2
  <2> QED BY <2>2, <2>3, <2>4, <2>5, <2>6
<1>5. Ring!TypeOK' /\ Ring!Allocated' = Ring!Allocated
  BY <1>1, <1>3, <1>4 DEF Ring!TypeOK, Ring!Allocated, Ring!Blocks
<1>6. Shape(N, lap, a, w, f)'
  <2>1. Places(N, lap, a, w, f)' /\ Linked(N, lap, f)'
    BY <1>1, <1>5 DEF Shape, Places, Linked, After
  <2>2. Ahead(N, a, w, f)'
    BY <1>1, <1>3 DEF Shape, Ahead
  <2>3. InHand(lap, a)'
    <3>1. \A i \in 1 .. a - 1 : 1 + i - 1 = i
      OBVIOUS
    <3> QED BY <1>2, <1>3, <3>1 DEF InHand
  <2>4. Filled(N, lap, w)'
    <3>1. \A i \in 0 .. N - 1 :
            readyToRead'[lap[i]] = IF i = 0 THEN FALSE ELSE readyToRead[lap[i]]
      <4> TAKE i \in 0 .. N - 1
      <4>1. lap[i] \in Ring!Allocated /\ (lap[i] = lap[0] => i = 0)
        BY <1>4 DEF Shape, Places, OneToOne
      <4> QED BY <1>1, <1>4, <4>1
    <3>2. w + 1 <= N - 1 \/ Published(w) = w
      <4>1. writerAt = "advance" => w < f /\ f < N
        BY DEF Shape, Places, Ahead
      <4> QED BY <4>1 DEF Published
    <3>3. Published(w) \in Nat /\ Published(w) - 1 <= N - 1
      BY <1>2, <3>2
    <3>4. \A i \in 1 .. Published(w) - 1 :
            /\ object'[lap[i]] = readCount' + 1 + i - 1
            /\ readyToRead'[lap[i]]
      <4> TAKE i \in 1 .. Published(w) - 1
      <4>1. i \in 0 .. N - 1 /\ i # 0 /\ i \in 0 .. Published(w) - 1
        BY <3>3
      <4>2. object[lap[i]] = readCount + 1 + i /\ readyToRead[lap[i]]
        BY <1>2, <1>4, <4>1 DEF Shape, Filled
      <4>3. readCount + 1 + i = readCount' + 1 + i - 1
        BY <1>1, <1>4, <4>1
      <4> QED BY <1>1, <3>1, <4>1, <4>2, <4>3
    <3>5. ASSUME clears = 0, NEW i \in 0 .. N - 1, readyToRead'[lap[i]]
          PROVE  i \in 1 .. Published(w) - 1
      <4>1. i # 0 /\ i \in 0 .. Published(w) - 1
        BY <1>2, <3>1, <3>5 DEF Shape, Filled
      <4> QED BY <3>3, <4>1
    <3>6. writeCount' = readCount' + Published(w) - 1
      BY <1>1, <1>4, <3>3
    <3>7. writerAt = "publish" => writeCount < MaxItems /\ object[lap[w]] = writeCount + 1
      BY DEF Shape, Filled
    <3> QED BY <1>1, <1>2, <3>4, <3>5, <3>6, <3>7 DEF Filled
  <2> QED BY <2>1, <2>2, <2>3, <2>4 DEF Shape
<1> QED BY <1>5, <1>6, Witness

Rotates(lap2, lap, N) ==
  /\ lap2[N - 1] = lap[0]
  /\ \A i \in 0 .. N - 2 : lap2[i] = lap[i + 1]
  /\ OneToOne(lap2, N)

\* A lap that starts one block later: the first block becomes the last.
LEMMA Rotated ==
  ASSUME NEW N \in Nat, N >= 1, NEW S, NEW lap \in [0 .. N - 1 -> S],
         OneToOne(lap, N)
  PROVE  \E lap2 \in [0 .. N - 1 -> S] : Rotates(lap2, lap, N)
<1> DEFINE lap2 == [i \in 0 .. N - 1 |-> IF i = N - 1 THEN lap[0] ELSE lap[i + 1]]
<1>1. /\ lap2 \in [0 .. N - 1 -> S] /\ lap2[N - 1] = lap[0]
      /\ \A i \in 0 .. N - 2 : lap2[i] = lap[i + 1]
  OBVIOUS
<1>2. \A i \in 0 .. N - 1 :
        /\ i < N - 1 => lap2[i] = lap[i + 1] /\ i + 1 \in 0 .. N - 1 /\ i + 1 # 0
        /\ i = N - 1 => lap2[i] = lap[0] /\ 0 \in 0 .. N - 1
  OBVIOUS
<1> HIDE DEF lap2
<1>3. OneToOne(lap2, N)
  BY <1>2 DEF OneToOne
<1> QED BY <1>1, <1>3 DEF Rotates

LEMMA ReadUnlockAdvanceKeeps ==
  ASSUME RingConstants, Ring!TypeOK, Ring!ReadUnlockAdvance,
         NEW N \in Nat, NEW lap \in [0 .. N - 1 -> Ring!Allocated],
         NEW a \in 0 .. N - 1, NEW w \in 0 .. N - 1, NEW f \in 0 .. N - 1,
         Shape(N, lap, a, w, f)
  PROVE  RingInv'
<1>1. /\ readerAt = "advance" /\ readerAt' = "idle"
      /\ readPointer' = next[readPointer]
      /\ UNCHANGED <<next, readyToRead, object, writeAheadPointer, writePointer,
           writeCount, writerAt, originalNext, readAheadPointer, readCount, held,
           clears>>
  BY DEF Ring!ReadUnlockAdvance, Ring!block, Ring!writer
<1>2. /\ 1 <= a /\ a <= w /\ w <= f /\ f < N
      /\ GivingBack = 1 /\ GivingBack' = 0
      /\ readPointer' = lap[1]
  <2>1. 0 < a /\ a <= w /\ w <= f /\ f < N /\ readPointer = lap[0]
    BY <1>1 DEF Shape, Places, Ahead
  <2>2. 0 \in 0 .. N - 1 /\ 0 # f + 1 /\ 0 + 1 < N
    BY <2>1
  <2>3. next[lap[0]] = After(N, lap, 0)
    BY <2>2 DEF Shape, Linked
  <2> QED BY <1>1, <2>1, <2>2, <2>3 DEF After, GivingBack
<1> PICK lap2 \in [0 .. N - 1 -> Ring!Allocated] : Rotates(lap2, lap, N)
  <2>1. OneToOne(lap, N) /\ N >= 1
    BY <1>2 DEF Shape, Places
  <2> QED BY <2>1, Rotated
<1>3. /\ \A i \in 0 .. N - 1 : i # 0 => i - 1 \in 0 .. N - 1 /\ lap2[i - 1] = lap[i]
      /\ lap2[N - 1] = lap[0]
  <2>1. ASSUME NEW i \in 0 .. N - 1, i # 0
        PROVE  i - 1 \in 0 .. N - 1 /\ lap2[i - 1] = lap[i]
    <3>1. i - 1 \in 0 .. N - 2 /\ (i - 1) + 1 = i
      BY <2>1
    <3> QED BY <3>1 DEF Rotates
  <2> QED BY <2>1 DEF Rotates
<1>4. Ring!TypeOK' /\ Ring!Allocated' = Ring!Allocated
  <2>1. readPointer' \in Ring!Allocated
    BY <1>2
  <2> QED BY <1>1, <2>1 DEF Ring!TypeOK, Ring!Allocated, Ring!Blocks
<1>5. Shape(N, lap2, a - 1, w - 1, f - 1)'
  <2>1. Places(N, lap2, a - 1, w - 1, f - 1)'
    <3>1. \A b \in Ring!Allocated : \E i \in 0 .. N - 1 : lap2[i] = b
      <4> TAKE b \in Ring!Allocated
      <4>1. PICK i \in 0 .. N - 1 : lap[i] = b
        BY DEF Shape, Places
      <4>2. CASE i = 0
        <5>1. N - 1 \in 0 .. N - 1
          BY <1>2
        <5> QED BY <1>3, <4>1, <4>2, <5>1
      <4>3. CASE i # 0
        BY <1>3, <4>1, <4>3
      <4> QED BY <4>2, <4>3
    <3>2. /\ readPointer' = lap2[0] /\ readAheadPointer' = lap2[a - 1]
          /\ writePointer' = lap2[w - 1] /\ writeAheadPointer' = lap2[f - 1]
      <4>1. /\ lap2[0] = lap[1] /\ lap2[a - 1] = lap[a]
            /\ lap2[w - 1] = lap[w] /\ lap2[f - 1] = lap[f]
        BY <1>2, <1>3
      <4> QED BY <1>1, <1>2, <4>1 DEF Shape, Places
    <3>3. OneToOne(lap2, N) /\ N >= MINIMUM_LIST_SIZE
      BY DEF Rotates, Shape, Places
    <3>4. a - 1 <= w - 1 /\ w - 1 <= f - 1 /\ f - 1 < N
      BY <1>2
    <3> QED BY <1>4, <3>1, <3>2, <3>3, <3>4 DEF Places
  <2>2. Linked(N, lap2, f - 1)'
    <3>1. ASSUME NEW i \in 0 .. N - 1, i # 0
          PROVE  After(N, lap, i) = After(N, lap2, i - 1)
      <4>1. CASE i + 1 < N
        <5>1. i + 1 \in 0 .. N - 1 /\ i + 1 # 0 /\ (i + 1) - 1 = i /\ (i - 1) + 1 = i
          BY <4>1
        <5>2. lap2[i] = lap[i + 1] /\ i < N
          BY <1>3, <5>1
        <5> QED BY <4>1, <5>1, <5>2 DEF After
      <4>2. CASE ~(i + 1 < N)
        <5>1. i = N - 1 /\ (i - 1) + 1 = i
          BY <4>2
        <5> QED BY <1>3, <4>2, <5>1 DEF After
      <4> QED BY <4>1, <4>2
    <3>2. After(N, lap, 0) = After(N, lap2, N - 1)
      <4>1. 0 + 1 < N /\ 1 \in 0 .. N - 1 /\ ~((N - 1) + 1 < N)
        BY <1>2
      <4>2. lap2[0] = lap[1]
        BY <1>3, <4>1
      <4> QED BY <4>1, <4>2 DEF After
    <3>3. ASSUME NEW i \in 0 .. N - 1
          PROVE  next'[lap2[i]] = IF writerAt' = "link" /\ i = (f - 1) + 1
                                    THEN NoBlock ELSE After(N, lap2, i)
      <4>1. CASE i = N - 1
        <5>1. next[lap[0]] = After(N, lap, 0)
          <6>1. 0 \in 0 .. N - 1 /\ 0 # f + 1
            BY <1>2
          <6> QED BY <6>1 DEF Shape, Linked
        <5>2. writerAt = "link" => i # (f - 1) + 1
          BY <1>2, <4>1 DEF Shape, Linked
        <5> QED BY <1>1, <1>3, <3>2, <4>1, <5>1, <5>2
      <4>2. CASE i # N - 1
        <5>1. i + 1 \in 0 .. N - 1 /\ i + 1 # 0 /\ (i + 1) - 1 = i
          BY <4>2
        <5>2. lap2[i] = lap[i + 1] /\ After(N, lap, i + 1) = After(N, lap2, i)
          BY <1>3, <3>1, <5>1
        <5>3. next[lap[i + 1]] = IF writerAt = "link" /\ i + 1 = f + 1
                                   THEN NoBlock ELSE After(N, lap, i + 1)
          BY <5>1 DEF Shape, Linked
        <5>4. i + 1 = f + 1 <=> i = (f - 1) + 1
          OBVIOUS
        <5> QED BY <1>1, <5>2, <5>3, <5>4
      <4> QED BY <4>1, <4>2
    <3>4. ASSUME writerAt = "link"
          PROVE  (f - 1) + 1 < N /\ originalNext = After(N, lap2, (f - 1) + 1)
      <4>1. f + 1 \in 0 .. N - 1 /\ f + 1 # 0 /\ originalNext = After(N, lap, f + 1)
        BY <3>4 DEF Shape, Linked
      <4>2. (f + 1) - 1 = (f - 1) + 1
        OBVIOUS
      <4>3. originalNext = After(N, lap2, (f + 1) - 1)
        BY <3>1, <4>1
      <4> QED BY <1>2, <4>2, <4>3
    <3>5. writerAt # "link" => originalNext = NoBlock
      BY DEF Shape, Linked
    <3>6. \A i \in 0 .. N - 1 : next'[lap2[i]] =
            IF writerAt' = "link" /\ i = (f - 1) + 1 THEN NoBlock ELSE After(N, lap2, i)
      BY <3>3
    <3> QED BY <1>1, <3>4, <3>5, <3>6 DEF Linked, After
  <2>3. Ahead(N, a - 1, w - 1, f - 1)'
    <3>1. (f - 1) + 1 < N
      BY <1>2
    <3>2. writerAt \in {"publish", "advance"} => w - 1 < f - 1
      BY DEF Shape, Ahead
    <3> QED BY <1>1, <3>1, <3>2 DEF Ahead
  <2>4. InHand(lap2, a - 1)'
    <3>1. Len(held) = a - 1 /\ \A i \in 1 .. a - 1 : held[i] = lap[1 + i - 1]
      BY <1>2 DEF Shape, InHand
    <3>2. \A i \in 1 .. a - 1 : held[i] = lap2[i - 1]
      <4> TAKE i \in 1 .. a - 1
      <4>1. i \in 0 .. N - 1 /\ i # 0 /\ 1 + i - 1 = i
        BY <1>2
      <4> QED BY <1>3, <3>1, <4>1
    <3> QED BY <1>1, <1>2, <3>1, <3>2 DEF InHand
  <2>5. Filled(N, lap2, w - 1)'
    <3>1. /\ Published(w - 1)' = Published(w) - 1
          /\ Published(w) \in Nat /\ Published(w) - 1 <= N - 1
      <4>1. writerAt = "advance" => w < f
        BY DEF Shape, Ahead
      <4> QED BY <1>1, <1>2, <4>1 DEF Published
    <3>2. \A i \in 0 .. Published(w) - 1 - 1 :
            /\ object[lap2[i]] = readCount + 1 + i
            /\ readyToRead[lap2[i]]
      <4> TAKE i \in 0 .. Published(w) - 1 - 1
      <4>1. i + 1 \in 1 .. Published(w) - 1 /\ i + 1 \in 0 .. N - 1 /\ i + 1 # 0
            /\ (i + 1) - 1 = i
        BY <3>1
      <4>2. object[lap[i + 1]] = readCount + 1 + (i + 1) - 1 /\ readyToRead[lap[i + 1]]
        BY <1>2, <4>1 DEF Shape, Filled
      <4>3. readCount + 1 + (i + 1) - 1 = readCount + 1 + i
        <5>1. readCount \in Nat
          BY DEF Ring!TypeOK
        <5> QED BY <4>1, <5>1
      <4>4. lap2[i] = lap[i + 1]
        BY <1>3, <4>1
      <4> QED BY <4>2, <4>3, <4>4
    <3>3. ASSUME clears = 0, NEW i \in 0 .. N - 1, readyToRead[lap2[i]]
          PROVE  i \in 0 .. Published(w) - 1 - 1
      <4>1. \A j \in 0 .. N - 1 : readyToRead[lap[j]] => j \in 1 .. Published(w) - 1
        BY <1>2, <3>3 DEF Shape, Filled
      <4>2. CASE i = N - 1
        <5>1. 0 \in 0 .. N - 1 /\ 0 \notin 1 .. Published(w) - 1
          OBVIOUS
        <5> QED BY <1>3, <3>3, <4>1, <4>2, <5>1
      <4>3. CASE i # N - 1
        <5>1. i + 1 \in 0 .. N - 1 /\ i + 1 # 0 /\ (i + 1) - 1 = i
          BY <4>3
        <5>2. i + 1 \in 1 .. Published(w) - 1
          BY <1>3, <3>3, <4>1, <5>1
        <5> QED BY <3>1, <5>2
      <4> QED BY <4>2, <4>3
    <3>4. writeCount = readCount + (Published(w) - 1) - 0
      <4>1. writeCount = readCount + Published(w) - 1 /\ readCount \in Nat
        BY <1>2 DEF Shape, Filled, Ring!TypeOK
      <4> QED BY <3>1, <4>1
    <3>5. writerAt = "publish" =>
            writeCount < MaxItems /\ object[lap2[w - 1]] = writeCount + 1
      <4>1. lap2[w - 1] = lap[w]
        BY <1>2, <1>3
      <4> QED BY <4>1 DEF Shape, Filled
    <3>6. \A i \in 0 .. Published(w) - 1 - 1 : readCount + 1 + i = readCount + 1 + i - 0
      BY <3>1 DEF Ring!TypeOK
    <3> QED BY <1>1, <1>2, <3>1, <3>2, <3>3, <3>4, <3>5, <3>6 DEF Filled
  <2> QED BY <2>1, <2>2, <2>3, <2>4, <2>5 DEF Shape
<1>6. a - 1 \in 0 .. N - 1 /\ w - 1 \in 0 .. N - 1 /\ f - 1 \in 0 .. N - 1
  BY <1>2
<1> QED BY <1>4, <1>5, <1>6, Witness

-------------------------------------------------------------------------------
(* Clear.                                                                  *)

\* The list of blocks that Clear goes through is the lap.
LEMMA ClearSeesTheLap ==
  ASSUME RingConstants, Ring!TypeOK, writerAt # "link",
         NEW N \in Nat, NEW lap \in [0 .. N - 1 -> Ring!Allocated],
         NEW a \in 0 .. N - 1, NEW w \in 0 .. N - 1, NEW f \in 0 .. N - 1,
         Shape(N, lap, a, w, f)
  PROVE  <<readPointer>> \o Ring!Between(next[readPointer], readPointer)
           = [i \in 1 .. N |-> lap[i - 1]]
<1>1. N >= 3 /\ N - 1 \in Nat /\ OneToOne(lap, N) /\ readPointer = lap[0]
  BY DEF Shape, Places, RingConstants
<1>2. PICK p \in [0 .. N - 1 -> Ring!Allocated] : Rotates(p, lap, N)
  <2>1. N >= 1
    BY <1>1
  <2> QED BY <1>1, <2>1, Rotated
<1>3. N - 1 \in 0 .. MaxBlocks
  <2>1. N <= MaxBlocks
    BY <1>1, LapFits
  <2> QED BY <1>1, <2>1 DEF RingConstants
<1>4. p[0] = next[readPointer] /\ p[N - 1] = readPointer
  <2>1. \A i \in 0 .. N - 1 : next[lap[i]] = After(N, lap, i)
    BY RingIsClosed
  <2>2. 0 \in 0 .. N - 2 /\ 0 \in 0 .. N - 1 /\ 0 + 1 < N
    BY <1>1
  <2> QED BY <1>1, <1>2, <2>1, <2>2 DEF Rotates, After
<1>5. \A i \in 0 .. (N - 1) - 1 : next[p[i]] = p[i + 1] /\ p[i] # p[N - 1]
  <2> TAKE i \in 0 .. (N - 1) - 1
  <2>1. i \in 0 .. N - 2 /\ i + 1 \in 0 .. N - 1 /\ i \in 0 .. N - 1 /\ i # N - 1
    BY <1>1
  <2>2. p[i] = lap[i + 1] /\ p[i] # p[N - 1]
    BY <1>1, <1>2, <2>1 DEF Rotates, OneToOne
  <2>3. next[lap[i + 1]] = After(N, lap, i + 1)
    <3>1. \A j \in 0 .. N - 1 : next[lap[j]] = After(N, lap, j)
      BY RingIsClosed
    <3> QED BY <2>1, <3>1
  <2>4. After(N, lap, i + 1) = p[i + 1]
    <3>1. CASE (i + 1) + 1 < N
      <4>1. i + 1 \in 0 .. N - 2
        BY <2>1, <3>1
      <4> QED BY <1>2, <3>1, <4>1 DEF After, Rotates
    <3>2. CASE ~((i + 1) + 1 < N)
      <4>1. i + 1 = N - 1
        BY <2>1, <3>2
      <4> QED BY <1>2, <3>2, <4>1 DEF After, Rotates
    <3> QED BY <3>1, <3>2
  <2> QED BY <2>2, <2>3, <2>4
<1>6. next \in [Ring!Allocated -> Ring!Allocated]
  BY RingIsClosed
<1>7. Ring!Between(p[0], p[N - 1]) = Way(p, N - 1)
  BY <1>3, <1>5, <1>6, BetweenIsTheWay
<1> DEFINE back == Way(p, N - 1)
           list == [i \in 1 .. N |-> lap[i - 1]]
<1>8. /\ back \in Seq(Ring!Allocated) /\ Len(back) = N - 1
      /\ \A i \in 1 .. N - 1 : back[i] = lap[i]
  <2>1. \A i \in 1 .. N - 1 : i - 1 \in 0 .. N - 2 /\ i - 1 \in 0 .. N - 1 /\ (i - 1) + 1 = i
    BY <1>1
  <2>2. \A i \in 1 .. N - 1 : p[i - 1] \in Ring!Allocated /\ p[i - 1] = lap[i]
    BY <1>2, <2>1 DEF Rotates
  <2> QED BY <1>1, <2>2 DEF Way
<1>9. <<readPointer>> \in Seq(Ring!Allocated) /\ Len(<<readPointer>>) = 1
      /\ <<readPointer>>[1] = lap[0]
  BY <1>1
<1> HIDE DEF back
<1>10. /\ Len(<<readPointer>> \o back) = 1 + (N - 1)
       /\ <<readPointer>> \o back \in Seq(Ring!Allocated)
       /\ \A i \in 1 .. 1 + (N - 1) : (<<readPointer>> \o back)[i] =
            IF i <= 1 THEN <<readPointer>>[i] ELSE back[i - 1]
  BY <1>8, <1>9, ConcatProperties
<1>11. /\ list \in Seq(Ring!Allocated) /\ Len(list) = N
       /\ \A i \in 1 .. N : list[i] = lap[i - 1]
  <2>1. \A i \in 1 .. N : lap[i - 1] \in Ring!Allocated
    OBVIOUS
  <2> QED BY <1>1, <2>1
<1> HIDE DEF list
<1>12. <<readPointer>> \o back = list
  <2>1. 1 + (N - 1) = N
    OBVIOUS
  <2>2. ASSUME NEW i \in 1 .. N
        PROVE  (<<readPointer>> \o back)[i] = list[i]
    <3>1. CASE i = 1
      BY <1>9, <1>10, <1>11, <2>1, <3>1
    <3>2. CASE i # 1
      <4>1. i - 1 \in 1 .. N - 1 /\ ~(i <= 1)
        BY <3>2
      <4> QED BY <1>8, <1>10, <1>11, <2>1, <4>1
    <3> QED BY <3>1, <3>2
  <2> QED BY <1>10, <1>11, <2>1, <2>2, SeqEqual
<1> QED BY <1>4, <1>7, <1>12 DEF back, list

LapOf(lap, N, S) ==
  /\ lap \in [0 .. N - 1 -> S] /\ OneToOne(lap, N)
  /\ \A b \in S : \E i \in 0 .. N - 1 : lap[i] = b

\* What is left of the lap when the m blocks behind its first are gone.
Remaining(lap, N, m) == [i \in 0 .. N - m - 1 |-> IF i = 0 THEN lap[0] ELSE lap[m + i]]

\* And it is a lap of the blocks that are left.
LEMMA Shortened ==
  ASSUME NEW N \in Nat, NEW m \in 0 .. N - 1, NEW S, NEW lap, LapOf(lap, N, S),
         NEW gone, gone = {lap[i] : i \in 1 .. m}
  PROVE  LapOf(Remaining(lap, N, m), N - m, S \ gone)
<1> USE DEF LapOf
<1> DEFINE rest == Remaining(lap, N, m)
<1>1. \A i \in 0 .. N - m - 1 :
        /\ i = 0 => rest[i] = lap[0] /\ 0 \in 0 .. N - 1
        /\ i # 0 => rest[i] = lap[m + i] /\ m + i \in 0 .. N - 1
  BY DEF Remaining
<1>2. \A i \in 0 .. N - 1 : lap[i] \in gone <=> i \in 1 .. m
  BY DEF OneToOne
<1>3. ASSUME NEW i \in 0 .. N - m - 1
      PROVE  rest[i] \in S \ gone
  <2>1. CASE i = 0
    BY <1>1, <1>2, <2>1
  <2>2. CASE i # 0
    <3>1. m + i \notin 1 .. m /\ m + i \in 0 .. N - 1
      BY <2>2
    <3> QED BY <1>1, <1>2, <2>2, <3>1
  <2> QED BY <2>1, <2>2
<1>4. rest \in [0 .. N - m - 1 -> S \ gone]
  <2>1. rest = [i \in 0 .. N - m - 1 |-> rest[i]]
    BY DEF Remaining
  <2> HIDE DEF rest
  <2> QED BY <1>3, <2>1
<1>5. ASSUME NEW b \in S \ gone
      PROVE  \E i \in 0 .. N - m - 1 : rest[i] = b
  <2>1. PICK j \in 0 .. N - 1 : lap[j] = b
    OBVIOUS
  <2>2. j \notin 1 .. m
    BY <1>2, <2>1
  <2>3. CASE j = 0
    <3>1. 0 \in 0 .. N - m - 1
      OBVIOUS
    <3> QED BY <1>1, <2>1, <2>3, <3>1
  <2>4. CASE j # 0
    <3>1. j - m \in 0 .. N - m - 1 /\ j - m # 0 /\ m + (j - m) = j
      BY <2>2, <2>4
    <3>2. rest[j - m] = lap[m + (j - m)]
      BY <1>1, <3>1
    <3> QED BY <2>1, <3>1, <3>2
  <2> QED BY <2>3, <2>4
<1> HIDE DEF rest
<1>6. OneToOne(rest, N - m)
  <2> SUFFICES ASSUME NEW i \in 0 .. N - m - 1, NEW j \in 0 .. N - m - 1,
                      rest[i] = rest[j]
               PROVE  i = j
    BY DEF OneToOne
  <2>1. CASE i = 0 /\ j = 0
    BY <2>1
  <2>2. CASE i # 0 /\ j # 0
    <3>1. m + i \in 0 .. N - 1 /\ m + j \in 0 .. N - 1 /\ lap[m + i] = lap[m + j]
      BY <1>1, <2>2
    <3> QED BY <3>1 DEF OneToOne
  <2>3. CASE i = 0 /\ j # 0
    <3>1. m + j \in 0 .. N - 1 /\ m + j # 0 /\ 0 \in 0 .. N - 1 /\ lap[0] = lap[m + j]
      BY <1>1, <2>3
    <3> QED BY <3>1 DEF OneToOne
  <2>4. CASE i # 0 /\ j = 0
    <3>1. m + i \in 0 .. N - 1 /\ m + i # 0 /\ 0 \in 0 .. N - 1 /\ lap[0] = lap[m + i]
      BY <1>1, <2>4
    <3> QED BY <3>1 DEF OneToOne
  <2> QED BY <2>1, <2>2, <2>3, <2>4
<1> QED BY <1>4, <1>5, <1>6 DEF rest

LEMMA ClearKeeps ==
  ASSUME RingConstants, Ring!TypeOK, Ring!Clear,
         NEW N \in Nat, NEW lap \in [0 .. N - 1 -> Ring!Allocated],
         NEW a \in 0 .. N - 1, NEW w \in 0 .. N - 1, NEW f \in 0 .. N - 1,
         Shape(N, lap, a, w, f)
  PROVE  RingInv'
<1> DEFINE M == MINIMUM_LIST_SIZE
           ring == <<readPointer>> \o Ring!Between(next[readPointer], readPointer)
           gone == Ring!Deleted(ring)
           kept == Ring!Allocated \ gone
           lap2 == Remaining(lap, N, N - M)
<1>1. /\ writerAt = "idle" /\ readerAt = "idle" /\ held = <<>>
      /\ clears < MaxClears /\ clears' = clears + 1
      /\ next' = [[b \in kept |-> next[b]] EXCEPT ![readPointer] =
                    IF gone = {} THEN next[readPointer]
                                 ELSE ring[Len(ring) - MINIMUM_LIST_SIZE + 2]]
      /\ readyToRead' = [b \in kept |-> readyToRead[b]]
      /\ object' = [b \in kept |-> object[b]]
      /\ writePointer' = readPointer /\ readAheadPointer' = readPointer
      /\ writeAheadPointer' = readPointer
      /\ readCount' = 0 /\ writeCount' = 0
      /\ UNCHANGED <<readPointer, writerAt, readerAt, originalNext, held>>
  BY DEF Ring!Clear, Ring!ClearedReadCount
<1>2. /\ M \in Nat /\ M >= 3 /\ N >= M /\ N - M \in 0 .. N - 1 /\ N - (N - M) = M
      /\ OneToOne(lap, N) /\ readPointer = lap[0]
      /\ \A b \in Ring!Allocated : \E i \in 0 .. N - 1 : lap[i] = b
  BY DEF RingConstants, Shape, Places
<1>3. ring = [i \in 1 .. N |-> lap[i - 1]]
  BY <1>1, ClearSeesTheLap
<1> HIDE DEF ring
<1>4. Len(ring) = N /\ \A i \in 1 .. N : ring[i] = lap[i - 1]
  BY <1>3
<1>5. gone = {lap[i] : i \in 1 .. N - M}
  <2>1. gone = {ring[i] : i \in 2 .. N - M + 1}
    BY <1>4 DEF Ring!Deleted
  <2>2. ASSUME NEW b, b \in gone
        PROVE  b \in {lap[i] : i \in 1 .. N - M}
    <3>1. PICK i \in 2 .. N - M + 1 : b = ring[i]
      BY <2>1, <2>2
    <3>2. i - 1 \in 1 .. N - M /\ i \in 1 .. N
      BY <1>2
    <3> QED BY <1>4, <3>1, <3>2
  <2>3. ASSUME NEW i \in 1 .. N - M
        PROVE  lap[i] \in gone
    <3>1. i + 1 \in 2 .. N - M + 1 /\ i + 1 \in 1 .. N /\ (i + 1) - 1 = i
      BY <1>2
    <3>2. ring[i + 1] = lap[i]
      BY <1>4, <3>1
    <3> HIDE DEF gone
    <3> QED BY <2>1, <3>1, <3>2
  <2> HIDE DEF gone
  <2> QED BY <2>2, <2>3
<1> HIDE DEF gone
<1>6. /\ lap2 \in [0 .. M - 1 -> kept]
      /\ OneToOne(lap2, M)
      /\ \A b \in kept : \E i \in 0 .. M - 1 : lap2[i] = b
  <2>1. PICK m \in 0 .. N - 1 : m = N - M /\ N - m = M
    BY <1>2
  <2>2. gone = {lap[i] : i \in 1 .. m}
    BY <1>5, <2>1
  <2>3. LapOf(lap, N, Ring!Allocated)
    BY <1>2 DEF LapOf
  <2>4. LapOf(Remaining(lap, N, m), N - m, kept)
    BY <2>2, <2>3, Shortened
  <2> HIDE DEF M, kept
  <2> QED BY <2>1, <2>4 DEF LapOf
<1>7. /\ 0 \in 0 .. M - 1 /\ lap2[0] = lap[0]
      /\ \A i \in 1 .. M - 1 : lap2[i] = lap[(N - M) + i]
  <2>1. N - (N - M) - 1 = M - 1
    BY <1>2
  <2>2. lap2 = [i \in 0 .. M - 1 |-> IF i = 0 THEN lap[0] ELSE lap[(N - M) + i]]
    BY <2>1 DEF Remaining
  <2>3. 0 \in 0 .. M - 1 /\ \A i \in 1 .. M - 1 : i \in 0 .. M - 1 /\ i # 0
    BY <1>2
  <2> HIDE DEF lap2, M
  <2> QED BY <2>2, <2>3
<1> HIDE DEF lap2
<1>8. kept \subseteq Ring!Allocated /\ lap[0] \in kept
  BY <1>6, <1>7
<1> HIDE DEF kept
<1>9. ASSUME NEW i \in 0 .. M - 1
      PROVE  next'[lap2[i]] = After(M, lap2, i)
  <2>1. lap2[i] \in kept
    BY <1>6
  <2>2. CASE i = 0
    <3>1. After(M, lap2, 0) = lap[(N - M) + 1]
      <4>1. 1 \in 1 .. M - 1 /\ 0 + 1 < M
        BY <1>2
      <4> QED BY <1>7, <4>1 DEF After
    <3>2. next'[lap[0]] = IF gone = {} THEN next[lap[0]] ELSE ring[N - M + 2]
      BY <1>1, <1>2, <1>4, <1>8
    <3>3. CASE N = M
      <4>1. gone = {}
        BY <1>2, <1>5, <3>3
      <4>2. next[lap[0]] = lap[0 + 1]
        <5>1. \A j \in 0 .. N - 1 : next[lap[j]] = After(N, lap, j)
          BY <1>1, RingIsClosed
        <5>2. 0 \in 0 .. N - 1 /\ 0 + 1 < N
          BY <1>2
        <5> QED BY <5>1, <5>2 DEF After
      <4>3. (N - M) + 1 = 0 + 1
        BY <1>2, <3>3
      <4> QED BY <1>7, <2>2, <3>1, <3>2, <4>1, <4>2, <4>3
    <3>4. CASE N # M
      <4>1. 1 \in 1 .. N - M
        BY <1>2, <3>4
      <4>2. gone # {}
        BY <1>5, <4>1
      <4>3. N - M + 2 \in 1 .. N /\ (N - M + 2) - 1 = (N - M) + 1
        BY <1>2
      <4>4. ring[N - M + 2] = lap[(N - M) + 1]
        BY <1>4, <4>3
      <4> QED BY <1>7, <2>2, <3>1, <3>2, <4>2, <4>4
    <3> QED BY <3>3, <3>4
  <2>3. CASE i # 0
    <3> DEFINE j == (N - M) + i
    <3>1. j \in 0 .. N - 1 /\ j # 0 /\ i \in 1 .. M - 1 /\ lap2[i] = lap[j]
      BY <1>2, <1>7, <2>3
    <3>2. lap[j] # lap[0]
      BY <1>2, <3>1 DEF OneToOne
    <3>3. next'[lap2[i]] = next[lap[j]]
      BY <1>1, <1>2, <1>8, <2>1, <3>1, <3>2
    <3>4. next[lap[j]] = After(N, lap, j)
      <4>1. \A k \in 0 .. N - 1 : next[lap[k]] = After(N, lap, k)
        BY <1>1, RingIsClosed
      <4> QED BY <3>1, <4>1
    <3>5. After(N, lap, j) = After(M, lap2, i)
      <4>1. CASE i + 1 < M
        <5>1. i + 1 \in 1 .. M - 1 /\ j + 1 = (N - M) + (i + 1) /\ j + 1 < N
          BY <1>2, <3>1, <4>1
        <5> QED BY <1>7, <4>1, <5>1 DEF After
      <4>2. CASE ~(i + 1 < M)
        <5>1. ~(j + 1 < N)
          BY <1>2, <3>1, <4>2
        <5> QED BY <1>7, <4>2, <5>1 DEF After
      <4> QED BY <4>1, <4>2
    <3> QED BY <3>3, <3>4, <3>5
  <2> QED BY <2>2, <2>3
<1>10. Ring!Allocated' = kept
  BY <1>1, <1>2, <1>8 DEF Ring!Allocated
<1>11. next' \in [kept -> kept]
  <2>1. \A b \in kept : next'[b] \in kept
    <3> TAKE b \in kept
    <3>1. PICK i \in 0 .. M - 1 : lap2[i] = b
      BY <1>6
    <3>2. After(M, lap2, i) \in kept
      BY <1>2, <1>6 DEF After
    <3> QED BY <1>9, <3>1, <3>2
  <2>2. next' = [b \in kept |-> next'[b]]
    BY <1>1, <1>2, <1>8
  <2> QED BY <2>1, <2>2
<1>12. Ring!TypeOK'
  <2>1. readyToRead' \in [kept -> BOOLEAN] /\ object' \in [kept -> 0 .. MaxItems]
    <3>1. /\ readyToRead \in [Ring!Allocated -> BOOLEAN]
          /\ object \in [Ring!Allocated -> 0 .. MaxItems]
      BY DEF Ring!TypeOK
    <3> QED BY <1>1, <1>8, <3>1
  <2>2. kept \in SUBSET Ring!Blocks /\ Ring!Blocks' = Ring!Blocks
    BY <1>8 DEF Ring!TypeOK, Ring!Blocks
  <2>3. {readAheadPointer, writeAheadPointer, readPointer, writePointer}' \subseteq kept
    BY <1>1, <1>2, <1>8
  <2>4. 0 \in 0 .. MaxItems /\ clears' \in 0 .. MaxClears
    BY <1>1 DEF RingConstants, Ring!TypeOK
  <2>5. originalNext' = NoBlock
    BY <1>1 DEF Shape, Linked
  <2>6. held' = <<>> /\ held' \in Seq(kept)
    <3>1. <<>> \in Seq(kept)
      BY EmptySeq
    <3> QED BY <1>1, <3>1
  <2>7. next' \in [kept -> kept \cup {NoBlock}]
    BY <1>11
  <2> QED BY <1>1, <1>10, <2>1, <2>2, <2>3, <2>4, <2>5, <2>6, <2>7 DEF Ring!TypeOK
<1> PICK lap3 : lap3 = lap2
  OBVIOUS
<1>13. Shape(M, lap3, 0, 0, 0)'
  <2>1. Places(M, lap3, 0, 0, 0)'
    <3>1. /\ readPointer' = lap3[0] /\ readAheadPointer' = lap3[0]
          /\ writePointer' = lap3[0] /\ writeAheadPointer' = lap3[0]
      BY <1>1, <1>2, <1>7
    <3>2. M >= MINIMUM_LIST_SIZE /\ 0 < M
      BY <1>2
    <3> HIDE DEF M
    <3> QED BY <1>6, <1>10, <3>1, <3>2 DEF Places
  <2>2. Linked(M, lap3, 0)'
    <3>1. originalNext' = NoBlock /\ writerAt' = "idle"
      BY <1>1 DEF Shape, Linked
    <3> HIDE DEF M
    <3> QED BY <1>9, <3>1 DEF Linked, After
  <2>3. Ahead(M, 0, 0, 0)'
    BY <1>1 DEF Ahead
  <2>4. InHand(lap3, 0)'
    <3>1. Len(held') = 0 /\ GivingBack' = 0
      BY <1>1 DEF GivingBack
    <3> QED BY <3>1 DEF InHand
  <2>5. Filled(M, lap3, 0)'
    <3>1. GivingBack' = 0 /\ Published(0)' = 0 /\ readCount' = 0 /\ writeCount' = 0
      BY <1>1 DEF GivingBack, Published
    <3>2. clears' # 0 /\ writerAt' # "publish"
      BY <1>1 DEF Ring!TypeOK
    <3> HIDE DEF M
    <3> QED BY <3>1, <3>2 DEF Filled
  <2> QED BY <2>1, <2>2, <2>3, <2>4, <2>5 DEF Shape
<1> HIDE DEF M
<1> QED BY <1>2, <1>6, <1>7, <1>10, <1>12, <1>13, Witness

-------------------------------------------------------------------------------
(* The theorems.                                                           *)

LEMMA RingStep ==
  ASSUME RingConstants, RingInv, [Ring!Next]_(Ring!vars)
  PROVE  RingInv'
<1>1. Ring!TypeOK
  BY DEF RingInv
<1>2. PICK N \in Nat : \E lap \in [0 .. N - 1 -> Ring!Allocated] :
        \E a, w, f \in 0 .. N - 1 : Shape(N, lap, a, w, f)
  BY DEF RingInv
<1>3. PICK lap \in [0 .. N - 1 -> Ring!Allocated], a \in 0 .. N - 1,
           w \in 0 .. N - 1, f \in 0 .. N - 1 : Shape(N, lap, a, w, f)
  BY <1>2
<1>4. ASSUME Ring!Write PROVE RingInv'
  BY <1>1, <1>3, <1>4, WriteLockKeeps, WriteLockTestReadyKeeps, WriteLockGrowKeeps,
    WriteLockLinkKeeps, WriteUnlockKeeps, WriteUnlockPublishKeeps,
    WriteUnlockAdvanceKeeps
  DEF Ring!Write
<1>5. ASSUME Ring!Read PROVE RingInv'
  BY <1>1, <1>3, <1>5, ReadLockKeeps, ReadLockTestReadyKeeps, ReadUnlockKeeps,
    ReadUnlockAdvanceKeeps
  DEF Ring!Read
<1>6. ASSUME Ring!Clear PROVE RingInv'
  BY <1>1, <1>3, <1>6, ClearKeeps
<1>7. ASSUME NEW i \in 1 .. Len(Ring!Locked), Ring!CancelWriteLock(i) PROVE RingInv'
  BY <1>1, <1>3, <1>7, CancelWriteLockKeeps
<1>8. ASSUME NEW i \in 1 .. Len(held), Ring!CancelReadLock(i) PROVE RingInv'
  BY <1>1, <1>3, <1>8, CancelReadLockKeeps
<1>9. ASSUME UNCHANGED Ring!vars PROVE RingInv'
  <2>1. UNCHANGED <<next, readyToRead, object, writeAheadPointer, writePointer,
          writeCount, writerAt, originalNext, readAheadPointer, readPointer,
          readCount, readerAt, held, clears>>
    BY <1>9 DEF Ring!vars, Ring!block, Ring!writer, Ring!reader
  <2>2. Ring!TypeOK' /\ Ring!Allocated' = Ring!Allocated
    BY <1>1, <2>1 DEF Ring!TypeOK, Ring!Allocated, Ring!Blocks
  <2>3. Shape(N, lap, a, w, f)'
    BY <1>3, <2>1, <2>2 DEF Shape, Places, Linked, After, Ahead, InHand, Filled,
      GivingBack, Published
  <2> QED BY <2>2, <2>3, Witness
<1> QED BY <1>4, <1>5, <1>6, <1>7, <1>8, <1>9 DEF Ring!Next

\* What the pool and the programs do leaves the ring as it is.
LEMMA StepsOfTheRing == [Next]_vars => [Ring!Next]_(Ring!vars)
<1>1. UNCHANGED ringVars => UNCHANGED Ring!vars
  BY DEF ringVars, Ring!vars, Ring!block, Ring!writer, Ring!reader
<1>2. UNCHANGED vars => UNCHANGED ringVars
  BY DEF vars
<1> QED BY <1>1, <1>2 DEF Next

\* The pointers follow each other around the blocks, and the blocks between them
\* hold what was written and not given back, item after item, with the ring being
\* extended under the reader's eyes (SingleProducerConsumer.h:139-212).
THEOREM RingHolds ==
  ASSUME RingConstants
  PROVE  Spec => []RingInv
<1>1. Init => RingInv
  BY RingInit DEF Init
<1>2. RingInv /\ [Next]_vars => RingInv'
  <2>1. [Next]_vars => [Ring!Next]_(Ring!vars)
    BY StepsOfTheRing
  <2> QED BY <2>1, RingStep
<1> QED BY <1>1, <1>2, PTL DEF Spec

LEMMA OrderFollows ==
  ASSUME RingConstants, RingInv
  PROVE  RingInOrder
<1>1. PICK N \in Nat : \E lap \in [0 .. N - 1 -> Ring!Allocated] :
        \E a, w, f \in 0 .. N - 1 : Shape(N, lap, a, w, f)
  BY DEF RingInv
<1>2. PICK lap \in [0 .. N - 1 -> Ring!Allocated], a \in 0 .. N - 1,
           w \in 0 .. N - 1, f \in 0 .. N - 1 : Shape(N, lap, a, w, f)
  BY <1>1
<1>3. /\ GivingBack \in {0, 1} /\ Published(w) \in {w, w + 1} /\ a <= w
      /\ Len(held) = a - GivingBack /\ Len(held) \in Nat
      /\ readCount \in Nat /\ writeCount = readCount + Published(w) - GivingBack
  <2>1. GivingBack \in {0, 1} /\ Published(w) \in {w, w + 1}
    BY DEF GivingBack, Published
  <2>2. held \in Seq(Ring!Allocated) /\ readCount \in Nat
    BY DEF RingInv, Ring!TypeOK
  <2> QED BY <1>2, <2>1, <2>2 DEF Shape, Places, InHand, Filled
<1>4. Ring!ReadsInOrder
  <2> SUFFICES ASSUME NEW i \in 1 .. Len(held)
               PROVE  object[held[i]] = readCount + i
    BY DEF Ring!ReadsInOrder
  <2> DEFINE k == GivingBack + i - 1
  <2>1. k \in GivingBack .. Published(w) - 1
    BY <1>3
  <2>2. held[i] = lap[k] /\ object[lap[k]] = readCount + 1 + k - GivingBack
    BY <1>2, <2>1 DEF Shape, InHand, Filled
  <2>3. readCount + 1 + k - GivingBack = readCount + i
    BY <1>3
  <2> QED BY <2>2, <2>3
<1>5. Ring!SizeCoversHeld
  BY <1>3 DEF Ring!SizeCoversHeld
<1>6. Ring!WriterStaysBehind
  <2> SUFFICES ASSUME writerAt = "publish"
               PROVE  next[writePointer] # readPointer
    BY DEF Ring!WriterStaysBehind
  <2>1. w < f /\ f < N /\ writePointer = lap[w] /\ readPointer = lap[0]
    BY <1>2 DEF Shape, Places, Ahead
  <2>2. next[lap[w]] = lap[w + 1]
    BY <1>2, <2>1 DEF Shape, Linked, After
  <2>3. w + 1 \in 0 .. N - 1 /\ 0 \in 0 .. N - 1 /\ w + 1 # 0
    BY <2>1
  <2>4. OneToOne(lap, N)
    BY <1>2 DEF Shape, Places
  <2> QED BY <2>1, <2>2, <2>3, <2>4 DEF OneToOne
<1> QED BY <1>4, <1>5, <1>6 DEF RingInOrder, Ring!RingInOrder

\* In a ring of any size the reader gets the items as they were written, Size is
\* never less than what it holds, and the assert of WriteUnlock holds
\* (SingleProducerConsumer.h:52, 167, 250).
THEOREM ItemsInOrder ==
  ASSUME RingConstants
  PROVE  Spec => []RingInOrder
<1>1. RingInv => RingInOrder
  BY OrderFollows
<1> QED BY <1>1, RingHolds, PTL

LEMMA GrowsWhenFull ==
  ASSUME RingConstants, RingInv, Ring!Next,
         clears = 0, writerAt # "grow", writerAt' = "grow"
  PROVE  next[writeAheadPointer] = readPointer
<1>1. Ring!WriteLock \/ Ring!WriteLockTestReady
  BY DEF Ring!Next, Ring!Write, Ring!Read, Ring!Clear, Ring!WriteLockGrow,
    Ring!WriteLockLink, Ring!WriteUnlock, Ring!WriteUnlockPublish,
    Ring!WriteUnlockAdvance, Ring!ReadLock, Ring!ReadLockTestReady, Ring!ReadUnlock,
    Ring!ReadUnlockAdvance, Ring!CancelWriteLock, Ring!CancelReadLock, Ring!writer
<1>2. CASE Ring!WriteLock
  BY <1>2 DEF Ring!WriteLock, Ring!Full
<1>3. CASE Ring!WriteLockTestReady
  <2>1. writerAt = "testReady" /\ readyToRead[next[writeAheadPointer]]
    BY <1>3 DEF Ring!WriteLockTestReady
  <2>2. PICK N \in Nat : \E lap \in [0 .. N - 1 -> Ring!Allocated] :
          \E a, w, f \in 0 .. N - 1 : Shape(N, lap, a, w, f)
    BY DEF RingInv
  <2>3. PICK lap \in [0 .. N - 1 -> Ring!Allocated], a \in 0 .. N - 1,
             w \in 0 .. N - 1, f \in 0 .. N - 1 : Shape(N, lap, a, w, f)
    BY <2>2
  <2>4. f + 1 \in 0 .. N - 1 /\ w <= f /\ writeAheadPointer = lap[f]
    BY <2>1, <2>3 DEF Shape, Places, Ahead
  <2>5. next[lap[f]] = lap[f + 1]
    BY <2>1, <2>3, <2>4 DEF Shape, Linked, After
  <2>6. f + 1 \in GivingBack .. w - 1
    <3>1. Published(w) = w
      BY <2>1 DEF Published
    <3> QED BY <2>1, <2>3, <2>4, <2>5, <3>1 DEF Shape, Filled
  <2> QED BY <2>4, <2>6
<1> QED BY <1>1, <1>2, <1>3

\* Until Clear is called, WriteLock allocates a block only when the block ahead is
\* the one the reader gives back next (SingleProducerConsumer.h:139).
THEOREM GrowsOnlyThen ==
  ASSUME RingConstants
  PROVE  Spec => GrowsOnlyWhenFull
<1>1. RingInv /\ [Next]_vars =>
        [clears = 0 /\ writerAt # "grow" /\ writerAt' = "grow"
           => next[writeAheadPointer] = readPointer]_(Ring!vars)
  BY StepsOfTheRing, GrowsWhenFull
<1> QED
  BY <1>1, RingHolds, PTL DEF Spec, GrowsOnlyWhenFull, Ring!GrowsOnlyWhenFull

-------------------------------------------------------------------------------
(* The pool.                                                               *)

\* The pool's size and the bounds, and a value that stands for no task.
PoolConstants ==
  /\ IsFiniteSet(Threads)
  /\ NumThreads \in Nat /\ MaxTasks \in Nat /\ MaxStarts \in Nat
  /\ NoTask \notin Pool!Tasks

\* Between the two places where a thread counts itself in and out.
Running == {t \in Threads :
  at[t] \in {"loop", "count", "fetch", "call", "uncount", "leave"}}

Working == {t \in Threads : at[t] \in {"fetch", "call", "uncount"}}

-------------------------------------------------------------------------------
(* The invariant.                                                          *)

Types ==
  /\ runThreads \in BOOLEAN /\ workingLocked \in BOOLEAN
  /\ starts \in 0 .. MaxStarts
  /\ inputQueue \in Seq(Pool!Tasks) /\ outputQueue \in Seq(Pool!Tasks)
  /\ at \in [Threads -> {"none", "created", "loop", "count", "fetch", "call",
                         "uncount", "leave", "destroy"}]
  /\ task \in [Threads -> Pool!Tasks \cup {NoTask}]
  /\ userAt \in {"idle", "resetting", "creating", "stopping", "clearing",
                 "isWorking1", "isWorking2", "isWorking3",
                 "allDone", "pausing", "paused"}
  /\ toCreate \in 0 .. NumThreads
  /\ added \in 0 .. MaxTasks
  /\ done \in SUBSET Pool!Tasks /\ dropped \in SUBSET Pool!Tasks

\* The count of the threads at work, to which the reset sets no thread back.
NoneLost == numThreadsWorking = Cardinality(Working)

\* The count of the threads that run is right.  That of those at work lacks the
\* threads that a reset of StartThreads has lost; there are no more of them than
\* threads, and in the first start there are none.
CountsRight ==
  /\ numThreadsRunning = Cardinality(Running)
  /\ numThreadsWorking \in Int
  /\ numThreadsWorking <= Cardinality(Working)
  /\ Cardinality(Working) <= numThreadsWorking + Cardinality(Threads)
  /\ starts <= 1 => NoneLost

\* Nobody is there before the first start, and none comes late to its reset.
FirstStart ==
  /\ starts = 0 => ~runThreads /\ userAt \notin {"resetting", "creating"}
  /\ starts = 0 \/ (starts = 1 /\ userAt = "resetting") =>
       \A t \in Threads : at[t] = "none"

\* What the user has seen, and what its place keeps the threads from.
UserInv ==
  /\ ~runThreads /\ userAt # "stopping" =>
       \A t \in Threads : at[t] \in {"none", "created", "loop", "leave", "destroy"}
  /\ userAt \in {"resetting", "creating", "pausing", "paused"} => runThreads
  /\ userAt = "stopping" => ~runThreads
  /\ workingLocked <=> userAt \in {"pausing", "paused"}
  /\ userAt = "paused" /\ NoneLost => Working = {}
  /\ userAt \in {"isWorking3", "allDone"} => inputQueue = <<>>
  /\ userAt = "allDone" /\ NoneLost => \A t \in Threads : at[t] # "call"

Waits(n) == \E i \in 1 .. Len(inputQueue) : inputQueue[i] = n

Held(n) == \E t \in Threads : task[t] = n

\* A task that has been given to the pool has a place, and it has one only.
OnePlace(n) ==
  /\ n \in 1 .. added
       <=> Waits(n) \/ Held(n) \/ n \in done \/ n \in dropped
  /\ Waits(n) => ~Held(n) /\ n \notin done /\ n \notin dropped
  /\ Held(n) => n \notin done /\ n \notin dropped
  /\ n \in done => n \notin dropped

\* And so it has in the queue, and among the threads.
PlaceInv ==
  /\ \A t \in Threads : task[t] # NoTask <=> at[t] = "call"
  /\ \A i, j \in 1 .. Len(inputQueue) : inputQueue[i] = inputQueue[j] => i = j
  /\ \A s, t \in Threads : task[s] = task[t] /\ task[s] # NoTask => s = t
  /\ \A n \in Pool!Tasks : OnePlace(n)

PoolInv == Types /\ CountsRight /\ FirstStart /\ UserInv /\ PlaceInv

-------------------------------------------------------------------------------
(* A queue that one is taken from, and a set of threads that one joins or    *)
(* leaves.                                                                 *)

\* What SubSeq and \o make of a queue without its element i.
LEMMA Removed ==
  ASSUME NEW S, NEW q \in Seq(S), NEW i \in 1 .. Len(q), NEW r,
         r = SubSeq(q, 1, i - 1) \o SubSeq(q, i + 1, Len(q))
  PROVE  /\ r \in Seq(S)
         /\ Len(r) = Len(q) - 1
         /\ \A j \in 1 .. Len(r) : r[j] = IF j < i THEN q[j] ELSE q[j + 1]
<1> DEFINE front == SubSeq(q, 1, i - 1)
           back == SubSeq(q, i + 1, Len(q))
<1>1. /\ front \in Seq(S)
      /\ Len(front) = i - 1
      /\ \A j \in 1 .. i - 1 : front[j] = q[j]
  <2>1. \A j \in 1 .. i - 1 : q[j] \in S
    BY ElementOfSeq
  <2>2. 1 \in Int /\ i - 1 \in Int
    OBVIOUS
  <2> QED BY <2>1, <2>2, SubSeqProperties
<1>2. /\ back \in Seq(S)
      /\ Len(back) = Len(q) - i
      /\ \A j \in 1 .. Len(q) - i : back[j] = q[i + j]
  <2>1. \A j \in i + 1 .. Len(q) : q[j] \in S
    BY ElementOfSeq
  <2>2. i + 1 \in Int /\ Len(q) \in Int
    OBVIOUS
  <2> QED BY <2>1, <2>2, SubSeqProperties
<1> HIDE DEF front, back
<1>3. /\ front \o back \in Seq(S)
      /\ Len(front \o back) = Len(front) + Len(back)
      /\ \A j \in 1 .. Len(front) + Len(back) : (front \o back)[j] =
           IF j <= Len(front) THEN front[j] ELSE back[j - Len(front)]
  BY <1>1, <1>2, ConcatProperties
<1>4. r = front \o back
  BY DEF front, back
<1> HIDE DEF front, back
<1>5. Len(q) \in Nat /\ i \in Nat /\ 1 <= i /\ i <= Len(q)
  OBVIOUS
<1>6. Len(r) = (i - 1) + (Len(q) - i)
  BY <1>1, <1>2, <1>3, <1>4
<1>7. (i - 1) + (Len(q) - i) = Len(q) - 1
  BY <1>5
<1>8. ASSUME NEW j \in 1 .. Len(q) - 1
      PROVE  r[j] = IF j < i THEN q[j] ELSE q[j + 1]
  <2> DEFINE k == j - (i - 1)
  <2>1. j \in Nat /\ 1 <= j /\ j <= Len(q) - 1
    BY <1>5
  <2>2. j \in 1 .. Len(front) + Len(back)
    BY <1>1, <1>2, <1>7
  <2>3. r[j] = IF j <= i - 1 THEN front[j] ELSE back[k]
    BY <1>1, <1>3, <1>4, <2>2
  <2>4. CASE j < i
    <3>1. j \in 1 .. i - 1 /\ j <= i - 1
      BY <2>1, <2>4, <1>5
    <3> QED BY <3>1, <2>3, <2>4, <1>1
  <2>5. CASE ~(j < i)
    <3>1. k \in 1 .. Len(q) - i /\ ~(j <= i - 1) /\ i + k = j + 1
      BY <2>1, <2>5, <1>5
    <3> HIDE DEF k
    <3>2. back[k] = q[i + k]
      BY <3>1, <1>2
    <3> QED BY <3>1, <3>2, <2>3, <2>5
  <2> QED BY <2>4, <2>5
<1>9. r \in Seq(S)
  BY <1>3, <1>4
<1> QED BY <1>6, <1>7, <1>8, <1>9

LEMMA SetMoves ==
  ASSUME IsFiniteSet(Threads), NEW S \in SUBSET Threads, NEW t \in Threads
  PROVE  /\ Cardinality(S) \in Nat
         /\ t \notin S => Cardinality(S \cup {t}) = Cardinality(S) + 1
         /\ t \in S => Cardinality(S \ {t}) = Cardinality(S) - 1
<1>1. IsFiniteSet(S)
  BY FS_Subset
<1>2. Cardinality(S) \in Nat
  BY <1>1, FS_CardinalityType
<1>3. t \notin S => Cardinality(S \cup {t}) = Cardinality(S) + 1
  BY <1>1, FS_AddElement
<1>4. t \in S => Cardinality(S \ {t}) = Cardinality(S) - 1
  BY <1>1, FS_RemoveElement
<1> QED BY <1>2, <1>3, <1>4

LEMMA NoneLeft ==
  ASSUME IsFiniteSet(Threads), NEW S \in SUBSET Threads
  PROVE  Cardinality(S) = 0 <=> S = {}
BY FS_Subset, FS_EmptySet

-------------------------------------------------------------------------------
(* The steps.                                                              *)

LEMMA PoolInit == PoolConstants /\ Pool!Init => PoolInv
<1> SUFFICES ASSUME PoolConstants, Pool!Init PROVE PoolInv
  OBVIOUS
<1>1. Types
  <2>1. <<>> \in Seq(Pool!Tasks)
    BY EmptySeq
  <2>2. /\ 0 \in 0 .. MaxStarts /\ 0 \in 0 .. NumThreads
        /\ 0 \in 0 .. MaxTasks
    BY DEF PoolConstants
  <2> QED BY <2>1, <2>2 DEF Pool!Init, Types
<1>2. Running = {} /\ Working = {}
  BY DEF Pool!Init, Running, Working
<1>3. Cardinality({}) = 0
  BY FS_EmptySet
<1>4. CountsRight
  <2>1. Cardinality(Threads) \in Nat
    BY FS_CardinalityType DEF PoolConstants
  <2>2. /\ numThreadsRunning = Cardinality(Running)
        /\ numThreadsWorking = 0 /\ Cardinality(Working) = 0
    BY <1>2, <1>3 DEF Pool!Init
  <2> QED BY <2>1, <2>2 DEF CountsRight, NoneLost
<1>5. UserInv /\ FirstStart
  BY DEF Pool!Init, UserInv, FirstStart
<1>6. Len(inputQueue) = 0 /\ Pool!Tasks \subseteq Nat
  BY DEF Pool!Init, Pool!Tasks
<1>7. \A n : ~Waits(n)
  BY <1>6 DEF Waits
<1>8. \A n \in Pool!Tasks : ~Held(n)
  BY DEF Pool!Init, Held, PoolConstants
<1>9. PlaceInv
  <2>1. \A i, j \in 1 .. Len(inputQueue) : inputQueue[i] = inputQueue[j] => i = j
    BY <1>6
  <2>2. \A n \in Pool!Tasks : n \notin 1 .. added
    BY <1>6 DEF Pool!Init
  <2> QED BY <1>7, <1>8, <2>1, <2>2 DEF Pool!Init, PlaceInv, OnePlace
<1> QED BY <1>1, <1>4, <1>5, <1>9 DEF PoolInv

\* A thread that counts itself in, and one that counts itself out.
LEMMA CountedIn ==
  ASSUME PoolConstants, Types, NEW t \in Threads,
         at[t] = "count", Pool!Goto(t, "fetch")
  PROVE  /\ Running' = Running
         /\ Cardinality(Working) \in Nat
         /\ Cardinality(Working') = Cardinality(Working) + 1
<1>1. /\ t \notin Working /\ Working \in SUBSET Threads
      /\ Running' = Running /\ Working' = Working \cup {t}
  BY DEF Types, Pool!Goto, Running, Working
<1> QED BY <1>1, SetMoves DEF PoolConstants

LEMMA CountedOut ==
  ASSUME PoolConstants, Types, NEW t \in Threads,
         at[t] = "uncount", Pool!Goto(t, "loop")
  PROVE  /\ Running' = Running
         /\ Cardinality(Working) \in Nat
         /\ Cardinality(Working') = Cardinality(Working) - 1
<1>1. /\ t \in Working /\ Working \in SUBSET Threads
      /\ Running' = Running /\ Working' = Working \ {t}
  BY DEF Types, Pool!Goto, Running, Working
<1> QED BY <1>1, SetMoves DEF PoolConstants

LEMMA TypesStep ==
  ASSUME PoolConstants, Types, PlaceInv, [Pool!Next]_(Pool!vars)
  PROVE  Types'
<1> USE DEF Types, Pool!Goto
<1>1. CASE UNCHANGED Pool!vars
  BY <1>1 DEF Pool!vars, Pool!switches, Pool!counts, Pool!queues, Pool!worker,
    Pool!user, Pool!history
<1>2. ASSUME NEW t \in Threads, Pool!Worker(t) PROVE Types'
  <2>1. CASE Pool!Enter(t)
    BY <2>1 DEF Pool!Enter, Pool!switches, Pool!queues, Pool!user, Pool!history
  <2>2. CASE Pool!Loop(t)
    BY <2>2 DEF Pool!Loop, Pool!Goes, Pool!switches, Pool!counts, Pool!queues,
      Pool!user, Pool!history
  <2>3. CASE Pool!Count(t)
    BY <2>3 DEF Pool!Count, Pool!switches, Pool!queues, Pool!user, Pool!history
  <2>4. CASE Pool!Fetch(t)
    <3>1. CASE Pool!HasInput
      <4>1. Head(inputQueue) \in Pool!Tasks /\ Tail(inputQueue) \in Seq(Pool!Tasks)
        BY <3>1, HeadTailProperties DEF Pool!HasInput
      <4> QED
        BY <2>4, <3>1, <4>1 DEF Pool!Fetch, Pool!Rest, Pool!switches,
          Pool!counts, Pool!user, Pool!history
    <3>2. CASE ~Pool!HasInput
      BY <2>4, <3>2 DEF Pool!Fetch, Pool!switches, Pool!counts, Pool!user,
        Pool!history
    <3> QED BY <3>1, <3>2
  <2>5. CASE Pool!Call(t)
    <3>1. task[t] \in Pool!Tasks
      BY <2>5 DEF Pool!Call, PlaceInv
    <3>2. Append(outputQueue, task[t]) \in Seq(Pool!Tasks)
      BY <3>1, AppendProperties
    <3>3. outputQueue' \in Seq(Pool!Tasks)
      BY <2>5, <3>2 DEF Pool!Call
    <3> QED BY <2>5, <3>1, <3>3 DEF Pool!Call, Pool!switches, Pool!counts,
      Pool!user
  <2>6. CASE Pool!Uncount(t)
    BY <2>6 DEF Pool!Uncount, Pool!switches, Pool!queues, Pool!user,
      Pool!history
  <2>7. CASE Pool!Leave(t)
    BY <2>7 DEF Pool!Leave, Pool!switches, Pool!queues, Pool!user, Pool!history
  <2>8. CASE Pool!Destroy(t)
    BY <2>8 DEF Pool!Destroy, Pool!switches, Pool!counts, Pool!queues,
      Pool!user, Pool!history
  <2> QED BY <1>2, <2>1, <2>2, <2>3, <2>4, <2>5, <2>6, <2>7, <2>8 DEF Pool!Worker
<1>3. CASE Pool!StartThreads
  <2>1. starts + 1 \in 0 .. MaxStarts
    BY <1>3 DEF Pool!StartThreads, PoolConstants
  <2> QED BY <1>3, <2>1 DEF Pool!StartThreads, Pool!queues, Pool!worker,
    Pool!history
<1>12. CASE Pool!Reset
  <2>1. toCreate' \in 0 .. NumThreads /\ userAt' = "creating"
    BY <1>12 DEF Pool!Reset, PoolConstants
  <2>2. at' \in [Threads -> {"none", "created", "loop", "count", "fetch", "call",
                            "uncount", "leave", "destroy"}]
    BY <1>12 DEF Pool!Reset
  <2>3. UNCHANGED <<Pool!switches, Pool!queues, task, Pool!history>>
    BY <1>12 DEF Pool!Reset
  <2> QED BY <2>1, <2>2, <2>3 DEF Pool!switches, Pool!queues, Pool!history
<1>4. ASSUME NEW t \in Threads, Pool!Create(t) PROVE Types'
  <2>1. toCreate' \in 0 .. NumThreads
    BY <1>4 DEF Pool!Create, PoolConstants
  <2> QED BY <1>4, <2>1 DEF Pool!Create, Pool!counts, Pool!queues, Pool!history
<1>5. CASE \/ Pool!Started \/ Pool!Stopped \/ Pool!StopThreads
           \/ Pool!AskIsWorking \/ Pool!GoOn
  BY <1>5 DEF Pool!Started, Pool!Stopped, Pool!StopThreads, Pool!AskIsWorking,
    Pool!GoOn, Pool!switches, Pool!counts, Pool!queues, Pool!worker,
    Pool!history
<1>6. CASE Pool!IsWorking
  BY <1>6 DEF Pool!IsWorking, Pool!switches, Pool!counts, Pool!queues,
    Pool!worker, Pool!history
<1>7. CASE Pool!AddInput
  <2>1. added + 1 \in Pool!Tasks /\ added + 1 \in 0 .. MaxTasks
    BY <1>7 DEF Pool!AddInput, PoolConstants, Pool!Tasks
  <2>2. inputQueue' \in Seq(Pool!Tasks)
    BY <1>7, <2>1, AppendProperties DEF Pool!AddInput
  <2> QED BY <1>7, <2>1, <2>2 DEF Pool!AddInput, Pool!switches, Pool!counts,
    Pool!worker, Pool!user
<1>8. CASE Pool!GetOutput
  <2>1. Tail(outputQueue) \in Seq(Pool!Tasks)
    BY <1>8, HeadTailProperties DEF Pool!GetOutput
  <2> QED BY <1>8, <2>1 DEF Pool!GetOutput, Pool!switches, Pool!counts,
    Pool!worker, Pool!user, Pool!history
<1>9. CASE Pool!Clear
  <2>1. \A i \in 1 .. Len(inputQueue) : inputQueue[i] \in Pool!Tasks
    BY ElementOfSeq
  <2>2. <<>> \in Seq(Pool!Tasks)
    BY EmptySeq
  <2> QED
    BY <1>9, <2>1, <2>2 DEF Pool!Clear, Pool!switches, Pool!counts,
      Pool!worker, Pool!history
<1>10. ASSUME NEW i \in 1 .. Len(inputQueue), Pool!RemoveInputAtIndex(i)
       PROVE  Types'
  <2>1. inputQueue' \in Seq(Pool!Tasks)
    BY <1>10, Removed DEF Pool!RemoveInputAtIndex
  <2>2. inputQueue[i] \in Pool!Tasks
    BY ElementOfSeq
  <2> QED
    BY <1>10, <2>1, <2>2 DEF Pool!RemoveInputAtIndex, Pool!switches,
      Pool!counts, Pool!worker, Pool!user
<1>11. CASE Pool!Pause \/ Pool!Paused \/ Pool!Resume
  BY <1>11 DEF Pool!Pause, Pool!Paused, Pool!Resume, Pool!switches,
    Pool!counts, Pool!queues, Pool!worker, Pool!history
<1> QED
  BY <1>1, <1>2, <1>3, <1>4, <1>5, <1>6, <1>7, <1>8, <1>9, <1>10, <1>11, <1>12
  DEF Pool!Next, Pool!UserGoesOn

\* What a worker's step makes of the counts: it counts itself when it passes one
\* of the four places, and nowhere else.
LEMMA WorkerCounts ==
  ASSUME PoolConstants, Types, CountsRight, NEW t \in Threads, Pool!Worker(t)
  PROVE  /\ numThreadsRunning' = Cardinality(Running')
         /\ numThreadsWorking' \in Int
         /\ Cardinality(Working) \in Nat /\ Cardinality(Working') \in Int
         /\ numThreadsWorking' - Cardinality(Working')
              = numThreadsWorking - Cardinality(Working)
<1>1. /\ IsFiniteSet(Threads)
      /\ Running \in SUBSET Threads /\ Working \in SUBSET Threads
  BY DEF PoolConstants, Running, Working
<1>2. /\ Cardinality(Running) \in Nat /\ Cardinality(Working) \in Nat
      /\ numThreadsWorking \in Int /\ numThreadsRunning = Cardinality(Running)
  BY <1>1, SetMoves DEF CountsRight
<1>3. ASSUME Working' = Working, numThreadsWorking' = numThreadsWorking,
             \/ Running' = Running /\ numThreadsRunning' = numThreadsRunning
             \/ t \notin Running /\ Running' = Running \cup {t}
                  /\ numThreadsRunning' = numThreadsRunning + 1
             \/ t \in Running /\ Running' = Running \ {t}
                  /\ numThreadsRunning' = numThreadsRunning - 1
      PROVE  /\ numThreadsRunning' = Cardinality(Running')
             /\ numThreadsWorking' \in Int
             /\ Cardinality(Working) \in Nat /\ Cardinality(Working') \in Int
             /\ numThreadsWorking' - Cardinality(Working')
                  = numThreadsWorking - Cardinality(Working)
  <2>1. numThreadsRunning' = Cardinality(Running')
    BY <1>1, <1>2, <1>3, SetMoves
  <2> QED BY <1>2, <1>3, <2>1
<1>4. CASE Pool!Enter(t)
  BY <1>3, <1>4 DEF Pool!Enter, Types, Pool!Goto, Running, Working
<1>5. CASE Pool!Loop(t) \/ Pool!Fetch(t) \/ Pool!Call(t) \/ Pool!Destroy(t)
  <2>1. UNCHANGED <<numThreadsRunning, numThreadsWorking>>
    BY <1>5 DEF Pool!Loop, Pool!Fetch, Pool!Call, Pool!Destroy, Pool!counts
  <2>2. Running' = Running /\ Working' = Working
    BY <1>5 DEF Pool!Loop, Pool!Goes, Pool!Fetch, Pool!Call, Pool!Destroy,
      Types, Pool!Goto, Running, Working
  <2> QED BY <1>3, <2>1, <2>2
<1>6. CASE Pool!Count(t)
  <2>1. /\ Running' = Running
        /\ Cardinality(Working') = Cardinality(Working) + 1
    BY <1>6, CountedIn DEF Pool!Count
  <2> QED BY <1>2, <1>6, <2>1 DEF Pool!Count
<1>7. CASE Pool!Uncount(t)
  <2>1. /\ Running' = Running
        /\ Cardinality(Working') = Cardinality(Working) - 1
    BY <1>7, CountedOut DEF Pool!Uncount
  <2> QED BY <1>2, <1>7, <2>1 DEF Pool!Uncount
<1>8. CASE Pool!Leave(t)
  BY <1>3, <1>8 DEF Pool!Leave, Types, Pool!Goto, Running, Working
<1> QED BY <1>4, <1>5, <1>6, <1>7, <1>8 DEF Pool!Worker

\* The reset forgets the threads it finds counted in; in the first start it finds
\* none.
LEMMA CountsStep ==
  ASSUME PoolConstants, Types, CountsRight, FirstStart, [Pool!Next]_(Pool!vars)
  PROVE  CountsRight'
<1>1. /\ IsFiniteSet(Threads)
      /\ Running \in SUBSET Threads /\ Working \in SUBSET Threads
  BY DEF PoolConstants, Running, Working
<1>2. ASSUME UNCHANGED <<at, numThreadsRunning, numThreadsWorking, starts>>
      PROVE  CountsRight'
  BY <1>2 DEF CountsRight, NoneLost, Running, Working
<1>3. CASE UNCHANGED Pool!vars
  BY <1>2, <1>3 DEF Pool!vars, Pool!counts, Pool!worker, Pool!switches
<1>10. Cardinality(Threads) \in Nat /\ Cardinality(Working) \in Nat
  BY <1>1, FS_Subset, FS_CardinalityType
<1>4. ASSUME NEW t \in Threads, Pool!Worker(t) PROVE CountsRight'
  <2>1. starts' = starts
    BY <1>4 DEF Pool!Worker, Pool!Enter, Pool!Loop, Pool!Count, Pool!Fetch,
      Pool!Call, Pool!Uncount, Pool!Leave, Pool!Destroy, Pool!switches
  <2>2. /\ numThreadsRunning' = Cardinality(Running')
        /\ numThreadsWorking' \in Int
        /\ Cardinality(Working) \in Nat /\ Cardinality(Working') \in Int
        /\ numThreadsWorking' - Cardinality(Working')
             = numThreadsWorking - Cardinality(Working)
    BY <1>4, WorkerCounts
  <2>3. /\ numThreadsWorking \in Int
        /\ numThreadsWorking <= Cardinality(Working)
        /\ Cardinality(Working) <= numThreadsWorking + Cardinality(Threads)
        /\ starts <= 1 => numThreadsWorking = Cardinality(Working)
    BY DEF CountsRight, NoneLost
  <2>4. /\ numThreadsWorking' <= Cardinality(Working')
        /\ Cardinality(Working') <= numThreadsWorking' + Cardinality(Threads)
        /\ starts' <= 1 => numThreadsWorking' = Cardinality(Working')
    BY <2>1, <2>2, <2>3, <1>10
  <2> QED BY <2>2, <2>4 DEF CountsRight, NoneLost
<1>5. CASE Pool!StartThreads
  <2>1. UNCHANGED <<at, numThreadsRunning, numThreadsWorking>>
    BY <1>5 DEF Pool!StartThreads, Pool!counts, Pool!worker
  <2>2. starts' <= 1 => starts <= 1
    BY <1>5 DEF Pool!StartThreads, Types
  <2> QED BY <2>1, <2>2 DEF CountsRight, NoneLost, Running, Working
<1>11. CASE Pool!Reset
  <2>1. starts' = starts /\ numThreadsRunning' = numThreadsRunning
    BY <1>11 DEF Pool!Reset, Pool!switches
  <2>2. starts <= 1 => \A t \in Threads : at[t] = "none"
    BY <1>11 DEF Pool!Reset, FirstStart, Types
  <2>3. CASE numThreadsWorking' = 0 /\ UNCHANGED at
    <3>1. Running' = Running /\ Working' = Working
      BY <2>3 DEF Running, Working
    <3>2. starts <= 1 => Cardinality(Working) = 0
      <4>1. starts <= 1 => Working = {}
        BY <2>2 DEF Working
      <4> QED BY <4>1, <1>1, NoneLeft
    <3>3. Cardinality(Working) <= Cardinality(Threads)
      BY <1>1, FS_Subset
    <3> QED BY <2>1, <2>3, <3>1, <3>2, <3>3, <1>10 DEF CountsRight, NoneLost
  <2>4. ASSUME NEW t \in Threads, at[t] = "count", Pool!Goto(t, "fetch"),
               numThreadsWorking' = numThreadsWorking + 1
        PROVE  CountsRight'
    <3>1. /\ Running' = Running
          /\ Cardinality(Working') = Cardinality(Working) + 1
      BY <2>4, CountedIn
    <3>2. ~(starts <= 1)
      BY <2>2, <2>4
    <3> QED BY <2>1, <2>4, <3>1, <3>2, <1>10 DEF CountsRight
  <2>5. ASSUME NEW t \in Threads, at[t] = "uncount", Pool!Goto(t, "loop"),
               numThreadsWorking' = numThreadsWorking - 1
        PROVE  CountsRight'
    <3>1. /\ Running' = Running
          /\ Cardinality(Working') = Cardinality(Working) - 1
      BY <2>5, CountedOut
    <3>2. ~(starts <= 1)
      BY <2>2, <2>5
    <3> QED BY <2>1, <2>5, <3>1, <3>2, <1>10 DEF CountsRight
  <2> QED BY <1>11, <2>3, <2>4, <2>5 DEF Pool!Reset
<1>6. ASSUME NEW t \in Threads, Pool!Create(t) PROVE CountsRight'
  <2>1. Running' = Running /\ Working' = Working
    BY <1>6 DEF Pool!Create, Pool!Goto, Types, Running, Working
  <2> QED BY <1>6, <2>1 DEF Pool!Create, Pool!counts, CountsRight, NoneLost
<1>7. CASE \/ Pool!Started \/ Pool!Stopped \/ Pool!StopThreads
           \/ Pool!AskIsWorking \/ Pool!GoOn \/ Pool!IsWorking
  BY <1>2, <1>7 DEF Pool!Started, Pool!Stopped, Pool!StopThreads,
    Pool!AskIsWorking, Pool!GoOn, Pool!IsWorking, Pool!counts, Pool!worker,
    Pool!switches
<1>8. CASE \/ Pool!AddInput \/ Pool!GetOutput \/ Pool!Clear
           \/ Pool!Pause \/ Pool!Paused \/ Pool!Resume
  BY <1>2, <1>8 DEF Pool!AddInput, Pool!GetOutput, Pool!Clear, Pool!Pause,
    Pool!Paused, Pool!Resume, Pool!counts, Pool!worker, Pool!switches
<1>9. ASSUME NEW i \in 1 .. Len(inputQueue), Pool!RemoveInputAtIndex(i)
      PROVE  CountsRight'
  BY <1>2, <1>9 DEF Pool!RemoveInputAtIndex, Pool!counts, Pool!worker,
    Pool!switches
<1> QED BY <1>3, <1>4, <1>5, <1>6, <1>7, <1>8, <1>9, <1>11 DEF Pool!Next,
  Pool!UserGoesOn

\* No thread comes before the first start, and the first reset follows it at once.
LEMMA FirstStartStep ==
  ASSUME PoolConstants, Types, FirstStart, UserInv, [Pool!Next]_(Pool!vars)
  PROVE  FirstStart'
<1> USE DEF FirstStart
<1>1. CASE UNCHANGED <<starts, runThreads, userAt, at>>
  BY <1>1
<1>2. ASSUME NEW t \in Threads, Pool!Worker(t) PROVE FirstStart'
  <2>1. UNCHANGED <<starts, userAt>> /\ at[t] # "none"
    BY <1>2 DEF Pool!Worker, Pool!Enter, Pool!Loop, Pool!Count, Pool!Fetch,
      Pool!Call, Pool!Uncount, Pool!Leave, Pool!Destroy, Pool!switches, Pool!user
  <2> QED BY <2>1
<1>3. CASE Pool!StartThreads
  <2>1. starts' = starts + 1 /\ at' = at /\ starts \in Nat
    BY <1>3 DEF Pool!StartThreads, Pool!worker, Types
  <2> QED BY <2>1
<1>4. ASSUME starts # 0, starts' = starts, userAt' # "resetting" PROVE FirstStart'
  BY <1>4
<1>5. ASSUME NEW t \in Threads, Pool!Create(t) PROVE FirstStart'
  <2>1. starts # 0 /\ starts' = starts /\ userAt' # "resetting"
    BY <1>5 DEF Pool!Create
  <2> QED BY <1>4, <2>1
<1>6. CASE Pool!Reset \/ Pool!StopThreads \/ Pool!Pause
  <2>1. starts # 0 /\ starts' = starts /\ userAt' # "resetting"
    BY <1>6 DEF Pool!Reset, Pool!StopThreads, Pool!Pause, Pool!switches
  <2> QED BY <1>4, <2>1
<1>7. CASE Pool!IsWorking
  <2>1. PICK i \in 1 .. 3 :
          LET place == <<"isWorking1", "isWorking2", "isWorking3", "allDone">>
          IN  /\ userAt = place[i]
              /\ i = 3 => ~workingLocked
              /\ userAt' = IF Pool!Checks[i] THEN place[i + 1] ELSE "idle"
              /\ UNCHANGED <<Pool!switches, Pool!counts, Pool!queues,
                             Pool!worker, toCreate, Pool!history>>
    BY <1>7 DEF Pool!IsWorking
  <2>2. userAt' \in {"isWorking2", "isWorking3", "allDone", "idle"}
    BY <2>1
  <2>3. UNCHANGED <<starts, runThreads, at>>
    BY <2>1 DEF Pool!switches, Pool!worker
  <2> QED BY <2>2, <2>3
<1>8. CASE \/ Pool!Started \/ Pool!Stopped \/ Pool!AskIsWorking \/ Pool!GoOn
           \/ Pool!AddInput \/ Pool!GetOutput \/ Pool!Clear \/ Pool!Paused
           \/ Pool!Resume
  <2>1. /\ UNCHANGED <<starts, runThreads, at>>
        /\ userAt' \notin {"resetting", "creating"}
    BY <1>8 DEF Pool!Started, Pool!Stopped, Pool!AskIsWorking, Pool!GoOn,
      Pool!AddInput, Pool!GetOutput, Pool!Clear, Pool!Paused, Pool!Resume,
      Pool!switches, Pool!worker, Pool!user
  <2> QED BY <2>1
<1>9. ASSUME NEW i \in 1 .. Len(inputQueue), Pool!RemoveInputAtIndex(i)
      PROVE  FirstStart'
  BY <1>1, <1>9 DEF Pool!RemoveInputAtIndex, Pool!switches, Pool!worker,
    Pool!user
<1>10. CASE UNCHANGED Pool!vars
  BY <1>1, <1>10 DEF Pool!vars, Pool!switches, Pool!worker, Pool!user
<1> QED
  BY <1>2, <1>3, <1>5, <1>6, <1>7, <1>8, <1>9, <1>10
  DEF Pool!Next, Pool!UserGoesOn

\* What the user's thread has read stays true until it uses it: nobody but the
\* user puts tasks in, and a thread that is counted holds Pause up.
LEMMA UserStep ==
  ASSUME PoolConstants, Types, CountsRight, UserInv, [Pool!Next]_(Pool!vars)
  PROVE  UserInv'
<1>1. /\ IsFiniteSet(Threads)
      /\ Running \in SUBSET Threads /\ Working \in SUBSET Threads
  BY DEF PoolConstants, Running, Working
<1>2. /\ numThreadsWorking <= 0 /\ NoneLost => Working = {}
      /\ numThreadsRunning = 0 => Running = {}
  <2>1. Cardinality(Working) \in Nat
    BY <1>1, FS_Subset, FS_CardinalityType
  <2>2. numThreadsWorking <= 0 /\ NoneLost => Cardinality(Working) = 0
    BY <2>1 DEF NoneLost
  <2> QED BY <1>1, <2>2, NoneLeft DEF CountsRight
<1> USE DEF UserInv
<1>3. CASE UNCHANGED Pool!vars
  BY <1>3 DEF Pool!vars, Pool!switches, Pool!counts, Pool!queues, Pool!worker,
    Pool!user, Pool!history, Working, NoneLost
<1>4. ASSUME NEW t \in Threads, Pool!Worker(t) PROVE UserInv'
  <2>9. NoneLost' => NoneLost
    <3>1. /\ numThreadsWorking' \in Int /\ numThreadsWorking \in Int
          /\ Cardinality(Working) \in Nat /\ Cardinality(Working') \in Int
          /\ numThreadsWorking' - Cardinality(Working')
               = numThreadsWorking - Cardinality(Working)
      BY <1>4, WorkerCounts DEF CountsRight
    <3>2. numThreadsWorking' = Cardinality(Working')
            => numThreadsWorking = Cardinality(Working)
      BY <3>1
    <3> QED BY <3>2 DEF NoneLost
  <2> USE <2>9 DEF Types, Pool!Goto, Working
  <2>1. CASE Pool!Enter(t)
    BY <2>1 DEF Pool!Enter, Pool!switches, Pool!queues, Pool!user
  <2>2. CASE Pool!Loop(t)
    BY <2>2 DEF Pool!Loop, Pool!Goes, Pool!switches, Pool!queues, Pool!user
  <2>3. CASE Pool!Count(t)
    BY <2>3 DEF Pool!Count, Pool!switches, Pool!queues, Pool!user
  <2>4. CASE Pool!Fetch(t)
    <3>1. CASE Pool!HasInput
      BY <2>4, <3>1 DEF Pool!Fetch, Pool!HasInput, Pool!switches, Pool!user
    <3>2. CASE ~Pool!HasInput
      BY <2>4, <3>2 DEF Pool!Fetch, Pool!switches, Pool!user
    <3> QED BY <3>1, <3>2
  <2>5. CASE Pool!Call(t)
    BY <2>5 DEF Pool!Call, Pool!switches, Pool!user
  <2>6. CASE Pool!Uncount(t)
    BY <2>6 DEF Pool!Uncount, Pool!switches, Pool!queues, Pool!user
  <2>7. CASE Pool!Leave(t)
    BY <2>7 DEF Pool!Leave, Pool!switches, Pool!queues, Pool!user
  <2>8. CASE Pool!Destroy(t)
    BY <2>8 DEF Pool!Destroy, Pool!switches, Pool!queues, Pool!user
  <2> HIDE <2>9 DEF Types, Pool!Goto, Working
  <2> QED BY <1>4, <2>1, <2>2, <2>3, <2>4, <2>5, <2>6, <2>7, <2>8 DEF Pool!Worker
<1>5. CASE Pool!StartThreads
  <2>1. ~workingLocked
    BY <1>5 DEF Pool!StartThreads
  <2>2. runThreads' /\ userAt' = "resetting" /\ ~workingLocked'
    BY <1>5, <2>1 DEF Pool!StartThreads
  <2> QED BY <2>2
<1>13. CASE Pool!Reset
  <2>1. runThreads' /\ userAt' = "creating" /\ ~workingLocked'
    BY <1>13 DEF Pool!Reset, Pool!switches
  <2> QED BY <2>1
<1>6. ASSUME NEW t \in Threads, Pool!Create(t) PROVE UserInv'
  <2>1. runThreads /\ ~workingLocked
    BY <1>6 DEF Pool!Create
  <2>2. CASE UNCHANGED <<userAt, runThreads>>
    <3>1. userAt' = "creating" /\ runThreads' /\ ~workingLocked'
      BY <1>6, <2>1, <2>2 DEF Pool!Create
    <3> QED BY <3>1
  <2>3. CASE userAt' = "stopping" /\ runThreads' = FALSE
    <3>1. ~workingLocked'
      BY <1>6, <2>1 DEF Pool!Create
    <3> QED BY <2>3, <3>1
  <2> QED BY <1>6, <2>2, <2>3 DEF Pool!Create
<1>7. CASE Pool!Stopped
  <2>1. Running = {}
    BY <1>7, <1>2 DEF Pool!Stopped, Pool!NoneRunning
  <2>2. \A t \in Threads : at[t] \in {"none", "created", "loop", "leave", "destroy"}
    BY <2>1 DEF Running, Types
  <2> QED BY <1>7, <2>2 DEF Pool!Stopped, Pool!switches, Pool!queues,
    Pool!worker
<1>8. CASE Pool!Started \/ Pool!StopThreads \/ Pool!AskIsWorking \/ Pool!GoOn
  BY <1>8 DEF Pool!Started, Pool!StopThreads, Pool!AskIsWorking, Pool!GoOn,
    Pool!switches, Pool!queues, Pool!worker, Working
<1>9. CASE Pool!IsWorking
  <2>1. PICK i \in 1 .. 3 :
          LET place == <<"isWorking1", "isWorking2", "isWorking3", "allDone">>
          IN  /\ userAt = place[i]
              /\ i = 3 => ~workingLocked
              /\ userAt' = IF Pool!Checks[i] THEN place[i + 1] ELSE "idle"
              /\ UNCHANGED <<Pool!switches, Pool!counts, Pool!queues,
                             Pool!worker, toCreate, Pool!history>>
    BY <1>9 DEF Pool!IsWorking
  <2>2. UNCHANGED <<Pool!switches, Pool!queues, Pool!worker>>
    BY <2>1
  <2>6. Pool!Checks[2] <=> inputQueue = <<>>
    BY DEF Pool!Checks
  <2>7. Pool!Checks[3] <=> numThreadsWorking = 0
    BY DEF Pool!Checks
  <2>3. CASE i = 1
    <3>1. userAt = "isWorking1" /\ userAt' \in {"isWorking2", "idle"}
      BY <2>1, <2>3
    <3> QED BY <2>2, <3>1 DEF Pool!switches, Pool!queues, Pool!worker, Types,
      Working
  <2>4. CASE i = 2
    <3>1. /\ userAt = "isWorking2"
          /\ userAt' = IF inputQueue = <<>> THEN "isWorking3" ELSE "idle"
      BY <2>1, <2>6, <2>4
    <3> QED BY <2>2, <3>1 DEF Pool!switches, Pool!queues, Pool!worker, Types,
      Working
  <2>5. CASE i = 3
    <3>1. /\ userAt = "isWorking3"
          /\ userAt' = IF numThreadsWorking = 0 THEN "allDone" ELSE "idle"
      BY <2>1, <2>7, <2>5
    <3>3. NoneLost' <=> NoneLost
      BY <2>1 DEF NoneLost, Working, Pool!counts, Pool!worker
    <3>2. userAt' = "allDone" /\ NoneLost' => \A t \in Threads : at[t] # "call"
      BY <3>1, <3>3, <1>2 DEF Working
    <3> QED BY <2>2, <3>1, <3>2 DEF Pool!switches, Pool!queues, Pool!worker,
      Types, Working
  <2> QED BY <2>3, <2>4, <2>5
<1>10. CASE \/ Pool!AddInput \/ Pool!GetOutput \/ Pool!Clear
            \/ Pool!Pause \/ Pool!Resume
  BY <1>10 DEF Pool!AddInput, Pool!GetOutput, Pool!Clear, Pool!Pause,
    Pool!Resume, Pool!switches, Pool!queues, Pool!worker, Pool!user
<1>11. CASE Pool!Paused
  <2>2. NoneLost' <=> NoneLost
    BY <1>11 DEF NoneLost, Working, Pool!Paused, Pool!counts, Pool!worker
  <2>1. (NoneLost' => Working = {}) /\ Working' = Working
    BY <1>11, <1>2, <2>2 DEF Pool!Paused, Pool!worker, Working
  <2> QED BY <1>11, <2>1 DEF Pool!Paused, Pool!switches, Pool!queues,
    Pool!worker
<1>12. ASSUME NEW i \in 1 .. Len(inputQueue), Pool!RemoveInputAtIndex(i)
       PROVE  UserInv'
  BY <1>12 DEF Pool!RemoveInputAtIndex, Pool!switches, Pool!worker, Pool!user
<1> QED
  BY <1>3, <1>4, <1>5, <1>6, <1>7, <1>8, <1>9, <1>10, <1>11, <1>12, <1>13
  DEF Pool!Next, Pool!UserGoesOn

\* A task goes from the queue to a thread and to those that are done, or from
\* the queue to those that are removed, and leaves one place as it enters the
\* other.
LEMMA PlaceStep ==
  ASSUME PoolConstants, Types, PlaceInv, [Pool!Next]_(Pool!vars)
  PROVE  PlaceInv'
<1>1. /\ Pool!Tasks = 1 .. MaxTasks /\ MaxTasks \in Nat /\ NoTask \notin Pool!Tasks
      /\ added \in 0 .. MaxTasks
  BY DEF PoolConstants, Types, Pool!Tasks
<1>2. ASSUME UNCHANGED <<inputQueue, task, added, done, dropped>>,
             \A t \in Threads : at[t] = "call" <=> at'[t] = "call"
      PROVE  PlaceInv'
  <2>1. \A n : (Waits(n) <=> Waits(n)') /\ (Held(n) <=> Held(n)')
    BY <1>2 DEF Waits, Held
  <2>2. \A t \in Threads : task'[t] # NoTask <=> at'[t] = "call"
    BY <1>2 DEF PlaceInv
  <2>3. \A i, j \in 1 .. Len(inputQueue') : inputQueue'[i] = inputQueue'[j] => i = j
    BY <1>2 DEF PlaceInv
  <2>4. \A s, t \in Threads : task'[s] = task'[t] /\ task'[s] # NoTask => s = t
    BY <1>2 DEF PlaceInv
  <2>5. \A n \in Pool!Tasks : OnePlace(n)'
    BY <1>2, <2>1 DEF PlaceInv, OnePlace
  <2> QED BY <2>2, <2>3, <2>4, <2>5 DEF PlaceInv
<1>3. CASE UNCHANGED Pool!vars
  BY <1>2, <1>3 DEF Pool!vars, Pool!queues, Pool!worker, Pool!history
<1>4. ASSUME NEW t \in Threads,
             \/ Pool!Enter(t) \/ Pool!Loop(t) \/ Pool!Count(t)
             \/ Pool!Uncount(t) \/ Pool!Leave(t) \/ Pool!Destroy(t)
      PROVE  PlaceInv'
  <2>1. UNCHANGED <<inputQueue, task, added, done, dropped>>
    BY <1>4 DEF Pool!Enter, Pool!Loop, Pool!Count, Pool!Uncount, Pool!Leave,
      Pool!Destroy, Pool!queues, Pool!history
  <2>2. \A u \in Threads : at[u] = "call" <=> at'[u] = "call"
    BY <1>4 DEF Pool!Enter, Pool!Loop, Pool!Goes, Pool!Count, Pool!Uncount,
      Pool!Leave, Pool!Destroy, Pool!Goto, Types
  <2> QED BY <1>2, <2>1, <2>2
<1>5. ASSUME NEW t \in Threads, Pool!Fetch(t) PROVE PlaceInv'
  <2>1. CASE ~Pool!HasInput
    <3>1. UNCHANGED <<inputQueue, task, added, done, dropped>>
      BY <1>5, <2>1 DEF Pool!Fetch, Pool!history
    <3>2. \A u \in Threads : at[u] = "call" <=> at'[u] = "call"
      BY <1>5, <2>1 DEF Pool!Fetch, Pool!Goto, Types
    <3> QED BY <1>2, <3>1, <3>2
  <2>2. CASE Pool!HasInput
    <3> DEFINE h == Head(inputQueue)
    <3>1. /\ inputQueue \in Seq(Pool!Tasks)
          /\ Len(inputQueue) \in Nat /\ Len(inputQueue) # 0
          /\ h = inputQueue[1]
          /\ Len(inputQueue') = Len(inputQueue) - 1
          /\ \A i \in 1 .. Len(inputQueue') : inputQueue'[i] = inputQueue[i + 1]
      <4>1. /\ inputQueue \in Seq(Pool!Tasks) /\ inputQueue # <<>>
            /\ inputQueue' = Tail(inputQueue)
        BY <1>5, <2>2 DEF Pool!Fetch, Pool!HasInput, Pool!Rest, Types
      <4>2. Len(inputQueue) \in Nat /\ Len(inputQueue) # 0
        BY <4>1, EmptySeq
      <4>3. h = inputQueue[1]
        BY <4>1
      <4>4. /\ Len(inputQueue') = Len(inputQueue) - 1
            /\ \A i \in 1 .. Len(inputQueue') : inputQueue'[i] = inputQueue[i + 1]
        BY <4>1, HeadTailProperties
      <4> QED BY <4>1, <4>2, <4>3, <4>4
    <3>2. h \in Pool!Tasks
      BY <3>1, ElementOfSeq
    <3>3. /\ at[t] = "fetch" /\ task[t] = NoTask
          /\ task' = [task EXCEPT ![t] = h] /\ at' = [at EXCEPT ![t] = "call"]
          /\ UNCHANGED <<added, done, dropped>>
      <4>1. at[t] = "fetch" /\ task[t] = NoTask
        BY <1>5 DEF Pool!Fetch, PlaceInv
      <4>2. task' = [task EXCEPT ![t] = h] /\ at' = [at EXCEPT ![t] = "call"]
        BY <1>5, <2>2 DEF Pool!Fetch, Pool!Goto
      <4>3. UNCHANGED <<added, done, dropped>>
        BY <1>5 DEF Pool!Fetch, Pool!history
      <4> QED BY <4>1, <4>2, <4>3
    <3> HIDE DEF h
    <3>4. \A i \in 1 .. Len(inputQueue') : i + 1 \in 1 .. Len(inputQueue) /\ i + 1 # 1
      BY <3>1
    <3>5. \A n \in Pool!Tasks : Waits(n)' <=> Waits(n) /\ n # h
      <4>1. ASSUME NEW n \in Pool!Tasks, Waits(n)' PROVE Waits(n) /\ n # h
        <5>1. PICK i \in 1 .. Len(inputQueue') : inputQueue'[i] = n
          BY <4>1 DEF Waits
        <5>2. 1 \in 1 .. Len(inputQueue)
          BY <3>1
        <5> QED BY <5>1, <5>2, <3>1, <3>4 DEF Waits, PlaceInv
      <4>2. ASSUME NEW n \in Pool!Tasks, Waits(n), n # h PROVE Waits(n)'
        <5>1. PICK i \in 1 .. Len(inputQueue) : inputQueue[i] = n
          BY <4>2 DEF Waits
        <5>2. i # 1
          BY <5>1, <4>2, <3>1
        <5>3. i - 1 \in 1 .. Len(inputQueue') /\ (i - 1) + 1 = i
          BY <5>2, <3>1
        <5> QED BY <5>1, <5>3, <3>1 DEF Waits
      <4> QED BY <4>1, <4>2
    <3>6. \A n \in Pool!Tasks : Held(n)' <=> Held(n) \/ n = h
      BY <3>2, <3>3, <1>1 DEF Held, Types
    <3>7. Waits(h)
      <4>1. 1 \in 1 .. Len(inputQueue)
        BY <3>1
      <4> QED BY <3>1, <4>1 DEF Waits
    <3>8. ~Held(h)
      BY <3>2, <3>7 DEF PlaceInv, OnePlace
    <3>9. \A u \in Threads : task'[u] # NoTask <=> at'[u] = "call"
      BY <3>2, <3>3, <1>1 DEF PlaceInv, Types
    <3>10. \A i, j \in 1 .. Len(inputQueue') : inputQueue'[i] = inputQueue'[j] => i = j
      <4> SUFFICES ASSUME NEW i \in 1 .. Len(inputQueue'),
                          NEW j \in 1 .. Len(inputQueue'),
                          inputQueue'[i] = inputQueue'[j]
                   PROVE  i = j
        OBVIOUS
      <4>1. inputQueue[i + 1] = inputQueue[j + 1]
        BY <3>1
      <4>2. i + 1 = j + 1
        BY <4>1, <3>4 DEF PlaceInv
      <4> QED BY <4>2
    <3>11. \A s, u \in Threads : task'[s] = task'[u] /\ task'[s] # NoTask => s = u
      BY <3>3, <3>8 DEF PlaceInv, Held, Types
    <3>12. \A n \in Pool!Tasks : OnePlace(n)'
      BY <3>2, <3>3, <3>5, <3>6, <3>7 DEF PlaceInv, OnePlace
    <3> QED BY <3>9, <3>10, <3>11, <3>12 DEF PlaceInv
  <2> QED BY <2>1, <2>2
<1>6. ASSUME NEW t \in Threads, Pool!Call(t) PROVE PlaceInv'
  <2>1. PICK m : m = task[t]
    OBVIOUS
  <2>2. /\ at[t] = "call" /\ m \in Pool!Tasks
        /\ task' = [task EXCEPT ![t] = NoTask] /\ at' = [at EXCEPT ![t] = "uncount"]
        /\ done' = done \cup {m} /\ UNCHANGED <<inputQueue, added, dropped>>
    BY <1>6, <2>1 DEF Pool!Call, Pool!Goto, PlaceInv, Types
  <2>3. \A n \in Pool!Tasks : Waits(n)' <=> Waits(n)
    BY <2>2 DEF Waits
  <2>4. \A n \in Pool!Tasks : Held(n)' <=> Held(n) /\ n # m
    BY <2>1, <2>2, <1>1 DEF Held, PlaceInv, Types
  <2>5. Held(m)
    BY <2>1 DEF Held
  <2>6. \A u \in Threads : task'[u] # NoTask <=> at'[u] = "call"
    BY <2>2 DEF PlaceInv, Types
  <2>7. \A i, j \in 1 .. Len(inputQueue') : inputQueue'[i] = inputQueue'[j] => i = j
    BY <2>2 DEF PlaceInv
  <2>8. \A s, u \in Threads : task'[s] = task'[u] /\ task'[s] # NoTask => s = u
    BY <2>2 DEF PlaceInv, Types
  <2>9. \A n \in Pool!Tasks : OnePlace(n)'
    BY <2>2, <2>3, <2>4, <2>5 DEF PlaceInv, OnePlace
  <2> QED BY <2>6, <2>7, <2>8, <2>9 DEF PlaceInv
<1>7. CASE \/ Pool!StartThreads \/ Pool!Started \/ Pool!Stopped
           \/ Pool!StopThreads \/ Pool!AskIsWorking \/ Pool!GoOn
  BY <1>2, <1>7 DEF Pool!StartThreads, Pool!Started, Pool!Stopped,
    Pool!StopThreads, Pool!AskIsWorking, Pool!GoOn, Pool!queues, Pool!worker,
    Pool!history
<1>8. CASE \/ Pool!IsWorking \/ Pool!GetOutput \/ Pool!Pause
           \/ Pool!Paused \/ Pool!Resume
  BY <1>2, <1>8 DEF Pool!IsWorking, Pool!GetOutput, Pool!Pause, Pool!Paused,
    Pool!Resume, Pool!queues, Pool!worker, Pool!history
<1>9. ASSUME NEW t \in Threads, Pool!Create(t) PROVE PlaceInv'
  <2>1. UNCHANGED <<inputQueue, task, added, done, dropped>>
    BY <1>9 DEF Pool!Create, Pool!queues, Pool!history
  <2>2. \A u \in Threads : at[u] = "call" <=> at'[u] = "call"
    BY <1>9 DEF Pool!Create, Pool!Goto, Types
  <2> QED BY <1>2, <2>1, <2>2

<1>10. CASE Pool!AddInput
  <2> DEFINE m == added + 1
  <2>1. /\ m \in Pool!Tasks /\ m \notin 1 .. added
        /\ 1 .. m = (1 .. added) \cup {m}
    BY <1>1, <1>10 DEF Pool!AddInput
  <2>2. /\ added' = m /\ UNCHANGED <<at, task, done, dropped>>
        /\ Len(inputQueue) \in Nat
        /\ Len(inputQueue') = Len(inputQueue) + 1
        /\ \A i \in 1 .. Len(inputQueue) : inputQueue'[i] = inputQueue[i]
        /\ inputQueue'[Len(inputQueue) + 1] = m
    BY <1>10, <2>1, AppendProperties DEF Pool!AddInput, Pool!worker, Types
  <2> HIDE DEF m
  <2>3. ~Waits(m) /\ ~Held(m) /\ m \notin done /\ m \notin dropped
    BY <2>1 DEF PlaceInv, OnePlace
  <2>4. \A n \in Pool!Tasks : Waits(n)' <=> Waits(n) \/ n = m
    <3>1. ASSUME NEW n \in Pool!Tasks, Waits(n)' PROVE Waits(n) \/ n = m
      <4>1. PICK i \in 1 .. Len(inputQueue') : inputQueue'[i] = n
        BY <3>1 DEF Waits
      <4>2. i \in 1 .. Len(inputQueue) \/ i = Len(inputQueue) + 1
        BY <2>2
      <4> QED BY <4>1, <4>2, <2>2 DEF Waits
    <3>2. ASSUME NEW n \in Pool!Tasks, Waits(n) \/ n = m PROVE Waits(n)'
      <4>1. /\ 1 .. Len(inputQueue) \subseteq 1 .. Len(inputQueue')
            /\ Len(inputQueue) + 1 \in 1 .. Len(inputQueue')
        BY <2>2
      <4> QED BY <3>2, <4>1, <2>2 DEF Waits
    <3> QED BY <3>1, <3>2
  <2>5. \A n \in Pool!Tasks : Held(n)' <=> Held(n)
    BY <2>2 DEF Held
  <2>6. \A t \in Threads : task'[t] # NoTask <=> at'[t] = "call"
    BY <2>2 DEF PlaceInv
  <2>7. ASSUME NEW i \in 1 .. Len(inputQueue'), NEW j \in 1 .. Len(inputQueue'),
               inputQueue'[i] = inputQueue'[j]
        PROVE  i = j
    <3>1. /\ i \in 1 .. Len(inputQueue) \/ i = Len(inputQueue) + 1
          /\ j \in 1 .. Len(inputQueue) \/ j = Len(inputQueue) + 1
      BY <2>2
    <3>2. \A k \in 1 .. Len(inputQueue) : inputQueue[k] # m
      BY <2>3 DEF Waits
    <3> QED BY <2>7, <3>1, <3>2, <2>2 DEF PlaceInv
  <2>8. \A s, t \in Threads : task'[s] = task'[t] /\ task'[s] # NoTask => s = t
    BY <2>2 DEF PlaceInv
  <2>9. \A n \in Pool!Tasks : OnePlace(n)'
    <3>1. \A n \in Pool!Tasks : n \in 1 .. added' <=> n \in 1 .. added \/ n = m
      BY <2>1, <2>2
    <3> QED BY <3>1, <2>2, <2>3, <2>4, <2>5 DEF PlaceInv, OnePlace
  <2> QED BY <2>6, <2>7, <2>8, <2>9 DEF PlaceInv
<1>11. ASSUME NEW i \in 1 .. Len(inputQueue), Pool!RemoveInputAtIndex(i)
       PROVE  PlaceInv'
  <2>1. PICK m : m = inputQueue[i]
    OBVIOUS
  <2>2. /\ inputQueue \in Seq(Pool!Tasks) /\ Len(inputQueue) \in Nat
        /\ m \in Pool!Tasks
        /\ i \in Nat /\ 1 <= i /\ i <= Len(inputQueue)
    BY <2>1, ElementOfSeq DEF Types
  <2>3. /\ Len(inputQueue') = Len(inputQueue) - 1
        /\ \A j \in 1 .. Len(inputQueue') :
             inputQueue'[j] = IF j < i THEN inputQueue[j] ELSE inputQueue[j + 1]
    <3>1. inputQueue' = SubSeq(inputQueue, 1, i - 1)
                          \o SubSeq(inputQueue, i + 1, Len(inputQueue))
      BY <1>11 DEF Pool!RemoveInputAtIndex
    <3>2. /\ inputQueue' \in Seq(Pool!Tasks)
          /\ Len(inputQueue') = Len(inputQueue) - 1
          /\ \A j \in 1 .. Len(inputQueue') :
               inputQueue'[j] = IF j < i THEN inputQueue[j] ELSE inputQueue[j + 1]
      <4> HIDE <2>1
      <4> QED BY <2>2, <3>1, Removed
    <3> QED BY <3>2
  <2>4. dropped' = dropped \cup {m} /\ UNCHANGED <<at, task, added, done>>
    BY <1>11, <2>1 DEF Pool!RemoveInputAtIndex, Pool!worker
  <2>5. \A j \in 1 .. Len(inputQueue') :
          /\ j \in Nat /\ j \in 1 .. Len(inputQueue) /\ j + 1 \in 1 .. Len(inputQueue)
          /\ j # i \/ ~(j < i)
    BY <2>2, <2>3
  <2>6. ASSUME NEW j \in 1 .. Len(inputQueue')
        PROVE  \E k \in 1 .. Len(inputQueue) :
                 /\ k = IF j < i THEN j ELSE j + 1
                 /\ k # i /\ inputQueue'[j] = inputQueue[k]
    <3>1. CASE j < i
      BY <3>1, <2>2, <2>3, <2>5
    <3>2. CASE ~(j < i)
      <4>1. j + 1 # i
        BY <3>2, <2>2, <2>5
      <4> QED BY <3>2, <4>1, <2>3, <2>5
    <3> QED BY <3>1, <3>2
  <2>7. \A n \in Pool!Tasks : Waits(n)' <=> Waits(n) /\ n # m
    <3>1. ASSUME NEW n \in Pool!Tasks, Waits(n)' PROVE Waits(n) /\ n # m
      <4>1. PICK j \in 1 .. Len(inputQueue') : inputQueue'[j] = n
        BY <3>1 DEF Waits
      <4>2. PICK k \in 1 .. Len(inputQueue) : k # i /\ n = inputQueue[k]
        BY <4>1, <2>6
      <4> QED BY <4>2, <2>1 DEF Waits, PlaceInv
    <3>2. ASSUME NEW n \in Pool!Tasks, Waits(n), n # m PROVE Waits(n)'
      <4>1. PICK k \in 1 .. Len(inputQueue) : inputQueue[k] = n
        BY <3>2 DEF Waits
      <4>2. k # i /\ k \in Nat
        BY <4>1, <3>2, <2>1
      <4>3. CASE k < i
        <5>1. k \in 1 .. Len(inputQueue')
          BY <4>3, <2>2, <2>3
        <5> QED BY <5>1, <4>1, <4>3, <2>3 DEF Waits
      <4>4. CASE ~(k < i)
        <5>1. k - 1 \in 1 .. Len(inputQueue') /\ ~(k - 1 < i) /\ (k - 1) + 1 = k
          BY <4>2, <4>4, <2>2, <2>3
        <5> QED BY <5>1, <4>1, <2>3 DEF Waits
      <4> QED BY <4>3, <4>4
    <3> QED BY <3>1, <3>2
  <2>8. \A n \in Pool!Tasks : Held(n)' <=> Held(n)
    BY <2>4 DEF Held
  <2>9. Waits(m)
    BY <2>1 DEF Waits
  <2>10. \A t \in Threads : task'[t] # NoTask <=> at'[t] = "call"
    BY <2>4 DEF PlaceInv
  <2>11. ASSUME NEW j \in 1 .. Len(inputQueue'), NEW l \in 1 .. Len(inputQueue'),
                inputQueue'[j] = inputQueue'[l]
         PROVE  j = l
    <3>1. PICK k \in 1 .. Len(inputQueue) :
            /\ k = IF j < i THEN j ELSE j + 1
            /\ k # i /\ inputQueue'[j] = inputQueue[k]
      BY <2>6
    <3>2. PICK o \in 1 .. Len(inputQueue) :
            /\ o = IF l < i THEN l ELSE l + 1
            /\ o # i /\ inputQueue'[l] = inputQueue[o]
      BY <2>6
    <3>3. k = o
      BY <2>11, <3>1, <3>2 DEF PlaceInv
    <3>4. j \in Nat /\ l \in Nat
      BY <2>5
    <3> QED BY <3>1, <3>2, <3>3, <3>4, <2>2
  <2>12. \A s, t \in Threads : task'[s] = task'[t] /\ task'[s] # NoTask => s = t
    BY <2>4 DEF PlaceInv
  <2>13. \A n \in Pool!Tasks : OnePlace(n)'
    BY <2>4, <2>7, <2>8, <2>9 DEF PlaceInv, OnePlace
  <2> QED BY <2>10, <2>11, <2>12, <2>13 DEF PlaceInv
<1>12. CASE Pool!Clear
  <2>1. CASE userAt = "clearing"
    BY <1>2, <1>12, <2>1 DEF Pool!Clear, Pool!worker, Pool!history
  <2>2. CASE userAt # "clearing"
    <3>1. /\ inputQueue' = <<>> /\ UNCHANGED <<at, task, added, done>>
          /\ dropped' = dropped \cup {inputQueue[i] : i \in 1 .. Len(inputQueue)}
      BY <1>12, <2>2 DEF Pool!Clear, Pool!worker
    <3>2. Len(inputQueue') = 0
      BY <3>1
    <3>3. \A n \in Pool!Tasks : ~Waits(n)'
      BY <3>2 DEF Waits
    <3>4. \A n \in Pool!Tasks : n \in dropped' <=> n \in dropped \/ Waits(n)
      BY <3>1 DEF Waits
    <3>5. \A n \in Pool!Tasks : Held(n)' <=> Held(n)
      BY <3>1 DEF Held
    <3>6. \A t \in Threads : task'[t] # NoTask <=> at'[t] = "call"
      BY <3>1 DEF PlaceInv
    <3>7. \A i, j \in 1 .. Len(inputQueue') : inputQueue'[i] = inputQueue'[j] => i = j
      BY <3>2
    <3>8. \A s, t \in Threads : task'[s] = task'[t] /\ task'[s] # NoTask => s = t
      BY <3>1 DEF PlaceInv
    <3>9. \A n \in Pool!Tasks : OnePlace(n)'
      BY <3>1, <3>3, <3>4, <3>5 DEF PlaceInv, OnePlace
    <3> QED BY <3>6, <3>7, <3>8, <3>9 DEF PlaceInv
  <2> QED BY <2>1, <2>2
<1>13. CASE Pool!Reset
  <2>1. UNCHANGED <<inputQueue, task, added, done, dropped>>
    BY <1>13 DEF Pool!Reset, Pool!queues, Pool!history
  <2>2. \A u \in Threads : at[u] = "call" <=> at'[u] = "call"
    BY <1>13 DEF Pool!Reset, Pool!Goto, Types
  <2> QED BY <1>2, <2>1, <2>2
<1> QED
  BY <1>3, <1>4, <1>5, <1>6, <1>7, <1>8, <1>9, <1>10, <1>11, <1>12, <1>13
  DEF Pool!Next, Pool!Worker, Pool!UserGoesOn

-------------------------------------------------------------------------------
(* The theorems.                                                           *)

LEMMA PoolStep ==
  ASSUME PoolConstants, PoolInv, [Pool!Next]_(Pool!vars)
  PROVE  PoolInv'
BY TypesStep, CountsStep, FirstStartStep, UserStep, PlaceStep DEF PoolInv

\* What the ring and the programs do leaves the pool as it is.
LEMMA StepsOfThePool == [Next]_vars => [Pool!Next]_(Pool!vars)
<1>1. UNCHANGED poolVars => UNCHANGED Pool!vars
  BY DEF poolVars, Pool!vars, Pool!switches, Pool!counts, Pool!queues,
    Pool!worker, Pool!user, Pool!history
<1>2. UNCHANGED vars => UNCHANGED poolVars
  BY DEF vars
<1> QED BY <1>1, <1>2 DEF Next

\* The pool's count of the threads that run is right in every state, and that of
\* the threads at work lacks those that the reset in StartThreads has lost: none
\* in the first start, and later no more than there are threads of a start that
\* was given up and come late (ThreadPool.h:333-381, 392-424).
THEOREM CountsHold ==
  ASSUME PoolConstants
  PROVE  Spec => []PoolInv
<1>1. Init => PoolInv
  BY PoolInit DEF Init
<1>2. PoolInv /\ [Next]_vars => PoolInv'
  <2>1. [Next]_vars => [Pool!Next]_(Pool!vars)
    BY StepsOfThePool
  <2> QED BY <2>1, PoolStep
<1> QED BY <1>1, <1>2, PTL DEF Spec

\* The Cardinality that the instance brings with it is the one of FiniteSets.
LEMMA SameCardinality == \A S : Pool!Cardinality(S) = Cardinality(S)
BY DEF Pool!Cardinality, Cardinality

LEMMA TypesFollow ==
  ASSUME PoolConstants, PoolInv
  PROVE  Pool!TypeOK
<1>1. /\ IsFiniteSet(Threads)
      /\ Running \in SUBSET Threads /\ Working \in SUBSET Threads
  BY DEF PoolConstants, Running, Working
<1>3. /\ Cardinality(Threads) \in Nat
      /\ Cardinality(Running) \in Nat /\ Cardinality(Working) \in Nat
      /\ Cardinality(Running) <= Cardinality(Threads)
      /\ Cardinality(Working) <= Cardinality(Threads)
  BY <1>1, FS_Subset, FS_CardinalityType
<1>2. /\ numThreadsRunning \in 0 .. Cardinality(Threads)
      /\ numThreadsWorking \in -Cardinality(Threads) .. Cardinality(Threads)
  BY <1>3 DEF PoolInv, CountsRight
<1> QED BY <1>2, SameCardinality DEF PoolInv, Types, Pool!TypeOK

\* The variables keep their types: no count goes beyond the number of threads
\* there are, the count of those that run never below zero, and that of those at
\* work never further below it than there are threads.
THEOREM PoolTypes ==
  ASSUME PoolConstants
  PROVE  Spec => []Pool!TypeOK
<1>1. PoolInv => Pool!TypeOK
  BY TypesFollow
<1> QED BY <1>1, CountsHold, PTL

LEMMA OncePlaced ==
  ASSUME PoolConstants, PoolInv
  PROVE  EachTaskOnce
<1> SUFFICES ASSUME NEW n \in 1 .. added
             PROVE  Cardinality({i \in 1 .. Len(inputQueue) : inputQueue[i] = n})
                      + Cardinality({t \in Threads : task[t] = n})
                      + (IF n \in done THEN 1 ELSE 0)
                      + (IF n \in dropped THEN 1 ELSE 0) = 1
  BY SameCardinality DEF EachTaskOnce, Pool!EachTaskOnce
<1> DEFINE I == {i \in 1 .. Len(inputQueue) : inputQueue[i] = n}
           H == {t \in Threads : task[t] = n}
<1>1. n \in Pool!Tasks /\ n # NoTask
  BY DEF PoolInv, Types, PoolConstants, Pool!Tasks
<1>2. Cardinality(I) = IF Waits(n) THEN 1 ELSE 0
  <2>1. CASE Waits(n)
    <3>1. PICK i \in 1 .. Len(inputQueue) : inputQueue[i] = n
      BY <2>1 DEF Waits
    <3>2. I = {i}
      BY <3>1 DEF PoolInv, PlaceInv
    <3> QED BY <2>1, <3>2, FS_Singleton
  <2>2. CASE ~Waits(n)
    <3>1. I = {}
      BY <2>2 DEF Waits
    <3> QED BY <2>2, <3>1, FS_EmptySet
  <2> QED BY <2>1, <2>2
<1>3. Cardinality(H) = IF Held(n) THEN 1 ELSE 0
  <2>1. CASE Held(n)
    <3>1. PICK t \in Threads : task[t] = n
      BY <2>1 DEF Held
    <3>2. H = {t}
      BY <3>1, <1>1 DEF PoolInv, PlaceInv
    <3> QED BY <2>1, <3>2, FS_Singleton
  <2>2. CASE ~Held(n)
    <3>1. H = {}
      BY <2>2 DEF Held
    <3> QED BY <2>2, <3>1, FS_EmptySet
  <2> QED BY <2>1, <2>2
<1>4. /\ Waits(n) \/ Held(n) \/ n \in done \/ n \in dropped
      /\ Waits(n) => ~Held(n) /\ n \notin done /\ n \notin dropped
      /\ Held(n) => n \notin done /\ n \notin dropped
      /\ n \in done => n \notin dropped
  BY <1>1 DEF PoolInv, PlaceInv, OnePlace
<1> HIDE DEF I, H
<1>5. Cardinality(I) + Cardinality(H) + (IF n \in done THEN 1 ELSE 0)
        + (IF n \in dropped THEN 1 ELSE 0) = 1
  BY <1>2, <1>3, <1>4
<1> QED BY <1>5 DEF I, H

\* Whatever the threads do at the same time, a task waits, is in the hands of one
\* thread, has been run or has been removed, and is in one of these places only
\* (ThreadPool.h:426-434, 268-287).
THEOREM TasksInOnePlace ==
  ASSUME PoolConstants
  PROVE  Spec => []EachTaskOnce
<1>1. PoolInv => EachTaskOnce
  BY OncePlaced
<1> QED BY <1>1, CountsHold, PTL

\* No function runs in a pool that is stopped.  Where the reset has lost no thread,
\* as in the first start, none runs in a paused pool either, and the queue is empty
\* and no function runs when IsWorking has returned false (ThreadPool.h:392-424,
\* 567-620).
THEOREM QuietIsTrue ==
  ASSUME PoolConstants
  PROVE  Spec => []QuietWhenSaid
<1>1. PoolInv => QuietWhenSaid
  <2> SUFFICES ASSUME PoolInv PROVE QuietWhenSaid
    OBVIOUS
  <2>1. Pool!NoneLost <=> NoneLost
    BY SameCardinality DEF Pool!NoneLost, NoneLost, Working
  <2>2. Pool!CountedMeansQuiet
    BY <2>1 DEF PoolInv, UserInv, Working, Pool!CountedMeansQuiet,
      Pool!IsWorkingTellsAll
  <2>3. Pool!FirstStartLosesNone
    BY <2>1 DEF PoolInv, CountsRight, Pool!FirstStartLosesNone
  <2>4. Pool!StoppedMeansQuiet
    BY DEF PoolInv, UserInv, Pool!StoppedMeansQuiet
  <2> QED BY <2>2, <2>3, <2>4 DEF QuietWhenSaid, Pool!QuietWhenSaid
<1> QED BY <1>1, CountsHold, PTL

-------------------------------------------------------------------------------
(* The programs that look for a port.                                      *)

\* Room for a port beside port 0, which always seems free, a value that stands
\* for no port, the bound, and programs of two kinds.
PortConstants ==
  /\ PortLimit \in Nat /\ PortLimit >= 2
  /\ NoPort \notin Nat
  /\ MaxOthers \in Nat
  /\ Servers \cap ClientPrograms = {}

\* A program has a port only when it is past Startup, a server has said the port
\* it carries since, and it has been bound to that port as far as 16 bits hold
\* it, or to any if they are all zero.
PortInv ==
  /\ Ports!TypeOK
  /\ \A p \in Ports!Programs :
       programAt[p] \in {"scan", "startup", "aborted"} => bound[p] = NoPort
  /\ \A s \in Servers : programAt[s] = "scan" \/ said[s] = port[s]
  /\ \A s \in Servers :
       bound[s] \in {NoPort, Ports!Short(port[s])} \/ Ports!Short(port[s]) = 0

\* What is left of a number in 16 bits.
LEMMA ShortIsAPort ==
  ASSUME PortConstants, NEW n \in Nat
  PROVE  /\ Ports!Short(n) \in Ports!Ports
         /\ n \in Ports!Ports => Ports!Short(n) = n
BY DEF PortConstants, Ports!Short, Ports!Ports

LEMMA PortInit == PortConstants /\ Ports!Init => PortInv
<1> SUFFICES ASSUME PortConstants, Ports!Init PROVE PortInv
  OBVIOUS
<1>1. /\ 2 \in Nat /\ Ports!Short(2) \in Ports!Ports
      /\ Ports!Ports \subseteq Nat
  BY ShortIsAPort DEF Ports!Ports, PortConstants
<1>2. port = [p \in Ports!Programs |-> IF p \in Servers THEN 2 ELSE Ports!Short(2)]
  BY DEF Ports!Init, Ports!Programs
<1>3. /\ port \in [Ports!Programs -> Nat]
      /\ \A p \in ClientPrograms : port[p] \in Ports!Ports
  BY <1>1, <1>2 DEF Ports!Programs, PortConstants
<1>4. events \in 0 .. MaxOthers /\ others \in SUBSET (Ports!Ports \ {0})
  BY DEF Ports!Init, PortConstants
<1>5. Ports!TypeOK
  BY <1>3, <1>4 DEF Ports!Init, Ports!TypeOK
<1> QED BY <1>5 DEF Ports!Init, PortInv, Ports!Programs

LEMMA ScanKeeps ==
  ASSUME PortConstants, PortInv, NEW p \in Ports!Programs, Ports!Scan(p)
  PROVE  PortInv'
<1>1. /\ port[p] \in Nat /\ port[p] + 1 \in Nat
      /\ Ports!Short(port[p] + 1) \in Ports!Ports
      /\ Ports!Ports \subseteq Nat
  BY ShortIsAPort DEF PortInv, Ports!TypeOK, Ports!Ports, PortConstants
<1>2. CASE Ports!IsPortInUse(port[p]) /\ port' = [port EXCEPT ![p] = Ports!NextPort(p)]
           /\ UNCHANGED <<programAt, said>>
  <2>1. /\ Ports!NextPort(p) \in Nat
        /\ p \in ClientPrograms => Ports!NextPort(p) \in Ports!Ports
    BY <1>1 DEF Ports!NextPort, PortConstants
  <2>2. Ports!TypeOK'
    BY <1>2, <2>1 DEF Ports!Scan, PortInv, Ports!TypeOK, Ports!Programs
  <2>3. programAt[p] = "scan" /\ bound[p] = NoPort /\ UNCHANGED <<bound, programAt, said>>
    BY <1>2 DEF Ports!Scan, PortInv
  <2>4. \A q \in Ports!Programs : q # p => port'[q] = port[q]
    BY <1>2 DEF PortInv, Ports!TypeOK
  <2> QED BY <2>2, <2>3, <2>4 DEF PortInv, Ports!Programs, Ports!Short
<1>3. CASE /\ Ports!Goto(p, "startup") /\ UNCHANGED port
           /\ said' = IF p \in Servers THEN [said EXCEPT ![p] = port[p]] ELSE said
  <2>1. Ports!TypeOK'
    BY <1>1, <1>3 DEF Ports!Scan, Ports!Goto, PortInv, Ports!TypeOK, Ports!Programs
  <2>2. /\ programAt[p] = "scan" /\ UNCHANGED <<bound, port>>
        /\ \A q \in Ports!Programs :
             programAt'[q] = IF q = p THEN "startup" ELSE programAt[q]
        /\ \A s \in Servers : said'[s] = IF s = p THEN port[p] ELSE said[s]
    BY <1>3 DEF Ports!Scan, Ports!Goto, PortInv, Ports!TypeOK
  <2> QED BY <2>1, <2>2 DEF PortInv, Ports!Programs, Ports!Short
<1> QED BY <1>2, <1>3 DEF Ports!Scan

LEMMA CallStartupKeeps ==
  ASSUME PortConstants, PortInv, NEW p \in Ports!Programs, Ports!CallStartup(p)
  PROVE  PortInv'
<1>1. /\ port[p] \in Nat /\ programAt[p] = "startup" /\ bound[p] = NoPort
      /\ UNCHANGED <<port, said, others, events>>
  BY DEF Ports!CallStartup, PortInv, Ports!TypeOK
<1>2. /\ Ports!Bindable(port[p]) \subseteq Ports!Ports
      /\ \A n \in Ports!Bindable(port[p]) : Ports!Short(port[p]) \in {0, n}
  BY <1>1, ShortIsAPort DEF Ports!Bindable
<1>3. PICK place \in {"loop", "connect", "aborted"},
           b \in Ports!Bindable(port[p]) \cup {NoPort} :
        /\ programAt' = [programAt EXCEPT ![p] = place]
        /\ bound' = [bound EXCEPT ![p] = b]
        /\ place = "aborted" => b = NoPort
  <2>1. bound = [bound EXCEPT ![p] = NoPort]
    BY <1>1 DEF PortInv, Ports!TypeOK
  <2> QED BY <2>1 DEF Ports!CallStartup, Ports!Goto, Ports!PortToBind
<1>4. Ports!TypeOK'
  BY <1>1, <1>2, <1>3 DEF PortInv, Ports!TypeOK, Ports!Programs
<1>5. \A q \in Ports!Programs :
        /\ programAt'[q] = IF q = p THEN place ELSE programAt[q]
        /\ bound'[q] = IF q = p THEN b ELSE bound[q]
  BY <1>3 DEF PortInv, Ports!TypeOK
<1> QED BY <1>1, <1>2, <1>3, <1>4, <1>5 DEF PortInv, Ports!Programs, Ports!Short

LEMMA ConnectKeeps ==
  ASSUME PortConstants, PortInv, NEW p \in ClientPrograms, Ports!Connect(p)
  PROVE  PortInv'
<1>1. /\ programAt' = [programAt EXCEPT ![p] = "loop"]
      /\ UNCHANGED <<port, said, bound, others, events>>
  BY DEF Ports!Connect, Ports!Goto
<1>2. Ports!TypeOK'
  BY <1>1 DEF PortInv, Ports!TypeOK
<1>3. \A q \in Ports!Programs :
        programAt'[q] = IF q = p THEN "loop" ELSE programAt[q]
  BY <1>1 DEF PortInv, Ports!TypeOK
<1>4. p \notin Servers
  BY DEF PortConstants
<1> QED BY <1>1, <1>2, <1>3, <1>4 DEF PortInv, Ports!Programs, Ports!Short

LEMMA OtherKeeps ==
  ASSUME PortConstants, PortInv, NEW n \in Ports!Ports \ {0}, Ports!Other(n)
  PROVE  PortInv'
<1>1. events' \in 0 .. MaxOthers
  BY DEF Ports!Other, PortInv, Ports!TypeOK, PortConstants
<1>2. Ports!TypeOK'
  BY <1>1 DEF Ports!Other, PortInv, Ports!TypeOK
<1> QED BY <1>2 DEF Ports!Other, PortInv, Ports!Programs, Ports!Short

LEMMA PortStep ==
  ASSUME PortConstants, PortInv, [Ports!Next]_(Ports!vars)
  PROVE  PortInv'
<1>1. CASE UNCHANGED Ports!vars
  BY <1>1 DEF PortInv, Ports!vars, Ports!TypeOK, Ports!Programs, Ports!Short
<1>2. CASE Ports!Next
  BY <1>2, ScanKeeps, CallStartupKeeps, ConnectKeeps, OtherKeeps
    DEF Ports!Next, Ports!MainThread
<1> QED BY <1>1, <1>2

\* What the threads do leaves the programs as they are.
LEMMA StepsOfThePrograms == [Next]_vars => [Ports!Next]_(Ports!vars)
<1>1. UNCHANGED portVars => UNCHANGED Ports!vars
  BY DEF portVars, Ports!vars
<1>2. UNCHANGED vars => UNCHANGED portVars
  BY DEF vars
<1> QED BY <1>1, <1>2 DEF Next

\* Each program goes from the search to Startup with the port it has found, and
\* a server with the port it has said (server.cpp:50-64, 436-443).
THEOREM PortsKept ==
  ASSUME PortConstants
  PROVE  Spec => []PortInv
<1>1. Init => PortInv
  BY PortInit DEF Init
<1>2. PortInv /\ [Next]_vars => PortInv'
  <2>1. [Next]_vars => [Ports!Next]_(Ports!vars)
    BY StepsOfThePrograms
  <2> QED BY <2>1, PortStep
<1> QED BY <1>1, <1>2, PTL DEF Spec

\* The port a server has printed is the one it listens on, in every order in
\* which other programs take ports and leave them, unless it has counted up to
\* 65536 or was given zero (server.cpp:53-56, 439).
THEOREM PrintedIsOpen ==
  ASSUME PortConstants
  PROVE  Spec => []Ports!PrintedPortIsOpen
<1>1. PortInv => Ports!PrintedPortIsOpen
  <2> SUFFICES ASSUME PortInv, NEW s \in Servers, bound[s] # NoPort,
                      said[s] \in Ports!Ports \ {0}
               PROVE  bound[s] = said[s]
    BY DEF Ports!PrintedPortIsOpen
  <2>1. said[s] = port[s]
    BY DEF PortInv, Ports!Programs
  <2>2. port[s] \in Nat /\ Ports!Short(port[s]) = port[s]
    BY <2>1, ShortIsAPort DEF Ports!Ports, PortConstants
  <2> QED BY <2>1, <2>2 DEF PortInv
<1> QED BY <1>1, PortsKept, PTL

\* The ring, the pool and the programs keep their types, whatever their sizes.
THEOREM AllTypes ==
  ASSUME RingConstants, PoolConstants, PortConstants
  PROVE  Spec => []TypeOK
<1>1. RingInv /\ PortInv /\ Pool!TypeOK => TypeOK
  BY DEF RingInv, PortInv, TypeOK
<1> QED BY <1>1, RingHolds, PoolTypes, PortsKept, PTL

===============================================================================
