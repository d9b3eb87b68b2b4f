------------------------------- MODULE MCThreads -------------------------------
(***************************************************************************)
(* A small instance, for TLC, of what threads and programs do together     *)
(* outside the game itself: RakNet's ring between two threads, its thread  *)
(* pool, and the programs that look for a port on one machine.  They do    *)
(* not meet; a behaviour is one of one of them, while the others stay as   *)
(* they start.                                                             *)
(***************************************************************************)
EXTENDS Integers

CONSTANTS
  MINIMUM_LIST_SIZE, MaxBlocks, MaxItems, MaxClears, NoBlock,
  Threads, NumThreads, MaxTasks, MaxStarts, NoTask,
  Servers, ClientPrograms, PortLimit, NoPort, AssertsIn, MaxOthers

VARIABLES
  part,    \* whose behaviour it is
  next, readyToRead, object, readAheadPointer, writeAheadPointer, readPointer,
  writePointer, readCount, writeCount, writerAt, readerAt, originalNext, held,
  clears,
  runThreads, numThreadsRunning, numThreadsWorking, starts, inputQueue,
  outputQueue, workingLocked, at, task, userAt, toCreate, added, done, dropped,
  programAt, port, said, bound, others, events

Ring == INSTANCE SingleProducerConsumer

Pool == INSTANCE ThreadPool

\* All users type the same port.
Ports == INSTANCE Startup
  WITH at <- programAt, Typed <- [p \in Servers \cup ClientPrograms |-> 2]

ringVars == <<next, readyToRead, object, readAheadPointer, writeAheadPointer,
  readPointer, writePointer, readCount, writeCount, writerAt, readerAt,
  originalNext, held, clears>>

poolVars == <<runThreads, numThreadsRunning, numThreadsWorking, starts,
  inputQueue, outputQueue, workingLocked, at, task, userAt, toCreate, added,
  done, dropped>>

portVars == <<programAt, port, said, bound, others, events>>

vars == <<part, ringVars, poolVars, portVars>>

\* How the ports are taken at first matters only to the programs.
Init ==
  /\ part \in {"ring", "pool", "ports"}
  /\ Ring!Init /\ Pool!Init /\ Ports!Init
  /\ part # "ports" => others = {}

Next ==
  /\ \/ part = "ring" /\ Ring!Next /\ UNCHANGED <<poolVars, portVars>>
     \/ part = "pool" /\ Pool!Next /\ UNCHANGED <<ringVars, portVars>>
     \/ part = "ports" /\ Ports!Next /\ UNCHANGED <<ringVars, poolVars>>
  /\ UNCHANGED part

\* What is fair in the ring and the pool cannot be done in their first state, so
\* it asks nothing of a behaviour of another part; a program can scan in its.
Spec ==
  /\ Init /\ [][Next]_vars
  /\ Ring!Fairness /\ Pool!Fairness
  /\ \A p \in Servers \cup ClientPrograms :
       WF_vars(part = "ports" /\ Next /\ Ports!MainThread(p))

-------------------------------------------------------------------------------
(* The properties, which the parts' modules explain.                       *)

\* The parts keep their types.
TypeOK == Ring!TypeOK /\ Pool!TypeOK /\ Ports!TypeOK

\* The reader of the ring gets the items as they were written, nobody writes over
\* what it holds, and the size is never negative.
RingInOrder == Ring!RingInOrder

\* The ring grows only when it is full.
GrowsOnlyWhenFull == Ring!GrowsOnlyWhenFull

\* What is written to the ring is read.
EveryItemIsRead == Ring!EveryItemIsRead

\* A task of the pool is in one place.
EachTaskOnce == Pool!EachTaskOnce

\* When IsWorking returns false all tasks have run, and nothing runs in a pool
\* that is stopped or paused.
QuietWhenSaid == Pool!QuietWhenSaid

\* The calls that start and stop the pool end, and what is put in a running pool
\* is run.
PoolGoesOn == Pool!PoolGoesOn

\* The search for a port ends, and a server listens on the port it has printed.
PortsFound == part = "ports" => Ports!PortsFound

===============================================================================
