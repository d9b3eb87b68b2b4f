------------------------------ MODULE ThreadPool ------------------------------
(***************************************************************************)
(* ThreadPool.h: threads that take functions with their data off one queue *)
(* and put results on another, and the one thread that starts, feeds,      *)
(* pauses and stops them.  A step is what a thread does while it holds one *)
(* of the pool's mutexes.  The event a worker waits for carries no state:  *)
(* the wait times out after a second, so it may end at any time.           *)
(***************************************************************************)
EXTENDS Integers, Sequences, FiniteSets

CONSTANTS
  Threads,       \* names for the threads that are alive at one time
  NumThreads,    \* the argument of StartThreads
  MaxTasks,      \* bound: tasks given to the pool
  MaxStarts,     \* bound: calls of StartThreads
  NoTask

Tasks == 1 .. MaxTasks

VARIABLES
  runThreads, numThreadsRunning, numThreadsWorking,
  starts,               \* calls of StartThreads so far
  inputQueue, outputQueue,
  workingLocked,        \* whether the user holds workingThreadCountMutex
  at, task,             \* of a worker: where it is and what it works on
  userAt, toCreate,     \* the user's thread, and how many threads are to come
  added, done, dropped  \* the tasks given so far, run, and removed unrun

switches == <<runThreads, starts, workingLocked>>
counts == <<numThreadsRunning, numThreadsWorking>>
queues == <<inputQueue, outputQueue>>
worker == <<at, task>>
user == <<userAt, toCreate>>
history == <<added, done, dropped>>
vars == <<switches, counts, queues, worker, user, history>>

TypeOK ==
  /\ runThreads \in BOOLEAN /\ workingLocked \in BOOLEAN
  /\ numThreadsRunning \in 0 .. Cardinality(Threads)
  /\ numThreadsWorking \in -Cardinality(Threads) .. Cardinality(Threads)
  /\ starts \in 0 .. MaxStarts
  /\ inputQueue \in Seq(Tasks) /\ outputQueue \in Seq(Tasks)
  /\ at \in [Threads -> {"none", "created", "loop", "count", "fetch", "call",
                         "uncount", "leave", "destroy"}]
  /\ task \in [Threads -> Tasks \cup {NoTask}]
  /\ userAt \in {"idle", "resetting", "creating", "stopping", "clearing",
                 "isWorking1", "isWorking2", "isWorking3",
                 "allDone", "pausing", "paused"}
  /\ toCreate \in 0 .. NumThreads
  /\ added \in 0 .. MaxTasks
  /\ done \in SUBSET Tasks /\ dropped \in SUBSET Tasks

Init ==
  /\ runThreads = FALSE
  /\ numThreadsRunning = 0 /\ numThreadsWorking = 0
  /\ starts = 0
  /\ inputQueue = <<>> /\ outputQueue = <<>>
  /\ workingLocked = FALSE
  /\ at = [t \in Threads |-> "none"]
  /\ task = [t \in Threads |-> NoTask]
  /\ userAt = "idle" /\ toCreate = 0
  /\ added = 0 /\ done = {} /\ dropped = {}

Goto(t, place) == at' = [at EXCEPT ![t] = place]

-------------------------------------------------------------------------------
(* WorkerThread.                                                           *)

\* The factory makes the thread's data, then the thread counts itself.
Enter(t) ==
  /\ at[t] = "created"
  /\ Goto(t, "loop")
  /\ numThreadsRunning' = numThreadsRunning + 1
  /\ UNCHANGED <<switches, numThreadsWorking, queues, task, user, history>>

\* Slips: a thread that is to leave does not count itself out, or goes through
\* the end of the loop.
GoesStraightOut == IF runThreads THEN "count" ELSE "destroy"

GoesThroughTheEnd == IF runThreads THEN "count" ELSE "uncount"

Goes == IF runThreads THEN "count" ELSE "leave"

\* One round of the loop starts with runThreads.
Loop(t) ==
  /\ at[t] = "loop"
  /\ Goto(t, Goes)
  /\ UNCHANGED <<switches, counts, queues, task, user, history>>

Count(t) ==
  /\ at[t] = "count"
  /\ ~workingLocked
  /\ numThreadsWorking' = numThreadsWorking + 1
  /\ Goto(t, "fetch")
  /\ UNCHANGED <<switches, numThreadsRunning, queues, task, user,
                 history>>

\* Slip: what has been read stays in the queue.
StillAll == inputQueue

Rest == Tail(inputQueue)

\* Slip: off by one.
HasMoreInput == Len(inputQueue) > 1

HasInput == inputQueue # <<>>

\* The functions and their data are two queues, pushed and popped together.
Fetch(t) ==
  /\ at[t] = "fetch"
  /\ \/ /\ ~HasInput
        /\ Goto(t, "uncount")
        /\ UNCHANGED <<task, inputQueue>>
     \/ /\ HasInput
        /\ task' = [task EXCEPT ![t] = Head(inputQueue)]
        /\ inputQueue' = Rest
        /\ Goto(t, "call")
  /\ UNCHANGED <<switches, counts, outputQueue, user, history>>

\* The function returns, with or without output.
Call(t) ==
  /\ at[t] = "call"
  /\ outputQueue' \in {outputQueue, Append(outputQueue, task[t])}
  /\ done' = done \cup {task[t]}
  /\ task' = [task EXCEPT ![t] = NoTask]
  /\ Goto(t, "uncount")
  /\ UNCHANGED <<switches, counts, inputQueue, user, added, dropped>>

Uncount(t) ==
  /\ at[t] = "uncount"
  /\ ~workingLocked
  /\ numThreadsWorking' = numThreadsWorking - 1
  /\ Goto(t, "loop")
  /\ UNCHANGED <<switches, numThreadsRunning, queues, task, user,
                 history>>

Leave(t) ==
  /\ at[t] = "leave"
  /\ numThreadsRunning' = numThreadsRunning - 1
  /\ Goto(t, "destroy")
  /\ UNCHANGED <<switches, numThreadsWorking, queues, task, user,
                 history>>

\* The destructor is read from the pool only now, when nobody waits any more.
Destroy(t) ==
  /\ at[t] = "destroy"
  /\ Goto(t, "none")
  /\ UNCHANGED <<switches, counts, queues, task, user, history>>

Worker(t) ==
  \/ Enter(t) \/ Loop(t) \/ Count(t) \/ Fetch(t) \/ Call(t) \/ Uncount(t)
  \/ Leave(t) \/ Destroy(t)

-------------------------------------------------------------------------------
(* The user's thread.                                                      *)

StartThreads ==
  /\ userAt = "idle" /\ ~runThreads
  /\ starts < MaxStarts
  /\ starts' = starts + 1
  /\ runThreads' = TRUE
  /\ userAt' = "resetting"
  /\ UNCHANGED <<workingLocked, counts, queues, worker, toCreate, history>>

\* The count is set without the mutex under which the threads change it: one
\* that has read it already writes over the zero what it makes of the old value.
Reset ==
  /\ userAt = "resetting"
  /\ userAt' = "creating" /\ toCreate' = NumThreads
  /\ \/ numThreadsWorking' = 0 /\ UNCHANGED at
     \/ \E t \in Threads :
          \/ /\ at[t] = "count" /\ Goto(t, "fetch")
             /\ numThreadsWorking' = numThreadsWorking + 1
          \/ /\ at[t] = "uncount" /\ Goto(t, "loop")
             /\ numThreadsWorking' = numThreadsWorking - 1
  /\ UNCHANGED <<switches, numThreadsRunning, queues, task, history>>

\* A thread is created, or the start is given up.
Create(t) ==
  /\ userAt = "creating" /\ toCreate > 0
  /\ \/ /\ at[t] = "none"
        /\ Goto(t, "created")
        /\ toCreate' = toCreate - 1
        /\ UNCHANGED <<userAt, runThreads>>
     \/ /\ userAt' = "stopping" /\ toCreate' = 0
        /\ runThreads' = FALSE
        /\ UNCHANGED at
  /\ UNCHANGED <<starts, workingLocked, counts, queues, task,
                 history>>

AllRunning == numThreadsRunning = NumThreads

Started ==
  /\ userAt = "creating" /\ toCreate = 0
  /\ AllRunning
  /\ userAt' = "idle"
  /\ UNCHANGED <<switches, counts, queues, worker, toCreate, history>>

StopThreads ==
  /\ userAt = "idle" /\ runThreads
  /\ runThreads' = FALSE
  /\ userAt' = "stopping"
  /\ UNCHANGED <<starts, workingLocked, counts, queues, worker, toCreate,
                 history>>

\* Slip: the threads that are working are waited for.
NoneWorking == numThreadsWorking = 0

NoneRunning == numThreadsRunning = 0

Stopped ==
  /\ userAt = "stopping"
  /\ NoneRunning
  /\ userAt' = "idle"
  /\ UNCHANGED <<switches, counts, queues, worker, toCreate, history>>

AddInput ==
  /\ userAt = "idle"
  /\ added < MaxTasks
  /\ added' = added + 1
  /\ inputQueue' = Append(inputQueue, added + 1)
  /\ UNCHANGED <<switches, counts, outputQueue, worker, user, done, dropped>>

\* After HasOutput has returned true.
GetOutput ==
  /\ userAt = "idle"
  /\ outputQueue # <<>>
  /\ outputQueue' = Tail(outputQueue)
  /\ UNCHANGED <<switches, counts, inputQueue, worker, user, history>>

\* Between LockInput and UnlockInput.
RemoveInputAtIndex(i) ==
  /\ userAt = "idle"
  /\ inputQueue' = SubSeq(inputQueue, 1, i - 1)
                     \o SubSeq(inputQueue, i + 1, Len(inputQueue))
  /\ dropped' = dropped \cup {inputQueue[i]}
  /\ UNCHANGED <<switches, counts, outputQueue, worker, user, added, done>>

\* Each queue under its own mutex, or under none when the pool is stopped.
Clear ==
  \/ /\ userAt = "idle"
     /\ userAt' = "clearing"
     /\ dropped' = dropped \cup {inputQueue[i] : i \in 1 .. Len(inputQueue)}
     /\ inputQueue' = <<>>
     /\ UNCHANGED <<switches, counts, outputQueue, worker, toCreate, added,
                    done>>
  \/ /\ userAt = "clearing"
     /\ userAt' = "idle"
     /\ outputQueue' = <<>>
     /\ UNCHANGED <<switches, counts, inputQueue, worker, toCreate, history>>

\* Slip: the order before the "Bug fix" the code tells of (ThreadPool.h:577).
ChecksOfOld == <<outputQueue = <<>>, numThreadsWorking = 0, inputQueue = <<>>>>

Checks == <<outputQueue = <<>>, inputQueue = <<>>, numThreadsWorking = 0>>

\* IsWorking looks at one after the other.  It returns true at the first it
\* finds, and false at allDone, where the user remains until the next call.
IsWorking ==
  \E i \in 1 .. 3 :
    LET place == <<"isWorking1", "isWorking2", "isWorking3", "allDone">>
    IN
    /\ userAt = place[i]
    /\ i = 3 => ~workingLocked
    /\ userAt' = IF Checks[i] THEN place[i + 1] ELSE "idle"
    /\ UNCHANGED <<switches, counts, queues, worker, toCreate, history>>

AskIsWorking ==
  /\ userAt = "idle"
  /\ userAt' = "isWorking1"
  /\ UNCHANGED <<switches, counts, queues, worker, toCreate, history>>

GoOn ==
  /\ userAt = "allDone"
  /\ userAt' = "idle"
  /\ UNCHANGED <<switches, counts, queues, worker, toCreate, history>>

\* Pause waits while it holds the mutex.
Pause ==
  /\ userAt = "idle" /\ runThreads
  /\ userAt' = "pausing"
  /\ workingLocked' = TRUE
  /\ UNCHANGED <<runThreads, starts, counts, queues, worker, toCreate,
                 history>>

Paused ==
  /\ userAt = "pausing"
  /\ numThreadsWorking <= 0
  /\ userAt' = "paused"
  /\ UNCHANGED <<switches, counts, queues, worker, toCreate, history>>

Resume ==
  /\ userAt = "paused"
  /\ workingLocked' = FALSE
  /\ userAt' = "idle"
  /\ UNCHANGED <<runThreads, starts, counts, queues, worker, toCreate,
                 history>>

\* What the user's thread does without being called.
UserGoesOn ==
  \/ Reset \/ Started \/ Stopped \/ IsWorking \/ Paused
  \/ \E t \in Threads : Create(t)

Next ==
  \/ \E t \in Threads : Worker(t)
  \/ UserGoesOn
  \/ StartThreads \/ StopThreads \/ AddInput \/ GetOutput \/ Clear
  \/ \E i \in 1 .. Len(inputQueue) : RemoveInputAtIndex(i)
  \/ AskIsWorking \/ GoOn \/ Pause \/ Resume

Spec == Init /\ [][Next]_vars

\* A wait ends, a lock is passed on and a function returns; a call the user has
\* begun goes on.
Fairness ==
  /\ \A t \in Threads : WF_vars(Worker(t))
  /\ WF_vars(UserGoesOn)

FairSpec == Spec /\ Fairness

-------------------------------------------------------------------------------
(* Properties.                                                             *)

\* Whatever the threads do at the same time, a task is in one place: waiting,
\* in the hands of one thread, run or removed (ThreadPool.h:426-434, 268-287).
EachTaskOnce ==
  \A n \in 1 .. added :
    Cardinality({i \in 1 .. Len(inputQueue) : inputQueue[i] = n})
      + Cardinality({t \in Threads : task[t] = n})
      + (IF n \in done THEN 1 ELSE 0) + (IF n \in dropped THEN 1 ELSE 0) = 1

\* "Are any of the threads working, or is input or output available?" (line
\* 131): when IsWorking returns false all that was put in has been run.
IsWorkingTellsAll ==
  userAt = "allDone" =>
    inputQueue = <<>> /\ \A t \in Threads : at[t] # "call"

\* The reset has taken no thread out of the count that counted itself in.
NoneLost ==
  numThreadsWorking =
    Cardinality({t \in Threads : at[t] \in {"fetch", "call", "uncount"}})

\* When none is lost IsWorking tells all, though it looks at three things at
\* three times (lines 567-592), and no function runs when Pause has returned
\* (lines 610-620).
CountedMeansQuiet ==
  NoneLost =>
    /\ IsWorkingTellsAll
    /\ userAt = "paused" => \A t \in Threads : at[t] # "call"

\* The first start finds no thread to lose: only those of a start that was given
\* up come late (lines 353, 366).
FirstStartLosesNone == starts <= 1 => NoneLost

\* When StopThreads has returned no function runs (lines 392-424).
StoppedMeansQuiet ==
  userAt = "idle" /\ ~runThreads => \A t \in Threads : at[t] # "call"

\* What the pool says of its being quiet is true while the count is, and that it
\* has stopped is true always: the three above.
QuietWhenSaid ==
  CountedMeansQuiet /\ FirstStartLosesNone /\ StoppedMeansQuiet

\* A call of StopThreads ends, and so does one of StartThreads (lines 378, 412).
StopEnds == userAt = "stopping" ~> userAt = "idle"

\* Unless threads of a start that failed came late and were counted as well
\* (lines 366, 378).
StartEnds ==
  userAt \in {"resetting", "creating"}
    ~> userAt = "idle" \/ numThreadsRunning > NumThreads

\* A task of a running pool is run in the end, if the user neither removes it
\* nor stops or pauses the pool (lines 244-292).
TasksRun ==
  \A n \in Tasks :
    (n <= added /\ runThreads) ~> (n \in done \cup dropped \/ ~runThreads \/ workingLocked)

\* What the user waits for comes: the three above.
PoolGoesOn == StopEnds /\ StartEnds /\ TasksRun

\* "Block until all threads are stopped" (line 144): Pause blocks no longer.
PauseEnds == userAt = "pausing" ~> userAt = "paused"

===============================================================================
