# RRPG in TLA+

A formal model of RRPG, a turn-based chat role-playing game: one server and a
handful of clients over RakNet.  The game is translated from
`src/RRPG Server/server.cpp`, `src/RRPG/RRPG.cpp` (UTF-16 in the repository) and
the headers both share in `src/Include`; RakNet comes as a compiled library, and
what is modelled of it are the data structures whose code is in its headers.
Line numbers below refer to these files.

## 1. The system

| Component | Where | State | Operations |
|---|---|---|---|
| Server, packet thread | `server.cpp:74-117` and the handlers | `networkState`, `gameState`, `totalConnections`, `players`, `playerAddresses`, `currentPlayerTurn` | one handler per packet: connection events, `OnClientIntro`, `OnClientChatReceived`, `OnPlayerReady`, `OnPlayerUnready`, `OnPlayerJobChosen`, `OnPlayerActionTaken`; two list requests |
| Server, main thread | `server.cpp:35-72, 433-447` | `port`, `networkState` | looks for a port, binds it, starts the other threads |
| Server, input thread | `server.cpp:119-130` | `isRunning` | `.quit`, broadcast text |
| Client, main thread | `RRPG.cpp:496-531` | `networkState` | looks for a port, `Connect`, then writes `NS_PENDING_CONNECTION` |
| Client, packet thread | `RRPG.cpp:183-216` and the handlers | `networkState`, `gameState`, `myTurn`, `player`, `players` | acceptance and introduction, game start, turn, state update, health update |
| Client, input thread | `RRPG.cpp:39-181` | the same, and `player.ready` | lobby commands, chat, character choice, actions, lists |
| Protocol | `RRPG_MessageIdentifiers.h`, `RRPG_Player.h` | | identifiers, game states, classes, actions |
| Transport | RakNet, compiled | connections, queues | external |
| Ring, pool, allocating queue | `SingleProducerConsumer.h`, `ThreadPool.h`, `DS_ThreadsafeAllocatingQueue.h` | shared words, queues, counters | what RakNet's threads hand to each other |
| Containers | `DS_*.h` | arrays, nodes, pages | calls of one thread |
| Streams | `BitStream.h` | bits, offsets | what is written on one machine and read on another |

The programs interact by messages only.  A client asks (`C_*`), the server
answers to one system or to all of them (`S_*`).  The game goes through the
server's `GameState`: a lobby until everybody is ready, character selection in
map order, the main game in rounds over the living, game over.  The right to play
travels: `S_TAKE_TURN` to a client, `myTurn` in it, a request back, and the
handler of the request passes it on.  The server keeps no check that a request
comes from the player on turn; the clients keep the order.

**What is hard.**  Three threads per client share state without locks the input
thread would take; the server counts connections before introductions and never
counts a lost one down; the start condition is looked at on every `C_READY` in
every phase, so a late one starts the game again; one iterator is incremented
unchecked; one loop ends only if somebody is alive; health is kept by the server
and in two copies by each client; names are identities on the wire and need not
be unique.  A port is found free, printed, and bound later.  In RakNet's headers
two threads share a ring without locks, a pool's state is read under one mutex
after another, and the containers keep redundant structure (links both ways, two
ends of a circle, balance, separators above leaves, a cached matrix) through long
sequences of calls.  `PROJECT.json` lists these hazards at their lines.

**What makes each component correct.**

- *Lobby*: a complete lobby starts the game whatever the order of packets; the
  ready flags agree; nobody with a slot is thrown out for nothing.
- *Turn*: no turn is made or lost; the holder is the player the server thinks,
  is alive, and asks for what fits the phase; nobody plays after the end.
- *Rules*: dead means no health left; blows land on whom they name.
- *Client*: what it shows is what the server has, when the player decides by it.
- *Start*: the search for a port ends, and the printed port is the bound one.
- *Ring*: items arrive once, in order, and the reader's are not written over.
- *Pool*: a task is in one place; a pool that says it is idle or stopped is.
- *Containers*: each is the abstract value it stands for.
- *Streams*: what is read is what was written.
- *Transport*: only assumed.

## 2. Modules

| Module | Models |
|---|---|
| `Protocol` | players, names, message shapes, `std::map` order (`Begin`, `Above`), the effect of an action, what the first byte of a name reads as |
| `Transport` | RakNet as the two programs use it (external): per connection a FIFO queue each way, acceptance up to the limit, refusal, silent loss, timeout |
| `Server` | the server's handlers, one action each, with `GetPlayer`'s assert and the endless loop of `NextTurn`; chat and list replies among them |
| `Client` | the three threads of each client |
| `RRPG` | the whole game: `Init`, `Next`, `Spec`, fairness, `TypeOK` |
| `Correctness` | the game's properties, and the invariant `TurnInv` behind one of them |
| `TurnGame` | what the game promises its players: a table, one turn, healths; no messages, no copies, no threads |
| `Refinement` | how the state of `RRPG` is read as one of `TurnGame`: `Phase`, `Seats`, `Turn`, `Token`, `Healths` |
| `MCRRPG` | values for the constants, and `SeatedInit` |
| `Startup` | how servers and clients on one machine get their ports |
| `SingleProducerConsumer` | the lock-free ring, one shared word a step |
| `ThreadPool` | the workers and the thread that starts, feeds, pauses and stops them, one mutex section a step |
| `MemoryPool`, `ThreadsafeAllocatingQueue` | pages of blocks in two circular lists; the queue of such blocks, under two mutexes |
| `Queue`, `List` | arrays in a circle and growing; both implement `AbstractSequence` |
| `OrderedList`, `Map` | binary search in an order; both implement `AbstractMap` |
| `Heap` | implements `AbstractPriorityQueue` |
| `Hash` | chains; implements `AbstractStacks`, a stack per key |
| `RangeList` | sets of indices as ranges that join, sent in parts |
| `LinkedList` | nodes linked both ways with a root and a position; implements `AbstractCursorList` |
| `BinarySearchTree` | the plain and the balancing tree, five walks; implements `AbstractSet` |
| `WeightedGraph` | connections, Dijkstra's search with its kept matrix, paths and spanning trees |
| `BPlusTree` | pages that split, rotate, borrow and merge |
| `BitStream` | the header's templates, between a writer and a reader of either byte order |
| `Collections` | the pool and its queue, `Queue`, `List`, `OrderedList` and `Map` side by side, with their properties |
| `MCThreads`, `MCContainers` | small instances of the modules from `Startup` on; the latter extends `Collections` |
| `RRPG_proofs` | the types, and the requests under way |
| `Game_proofs` | the kinds of steps and the count of turns |
| `Phase_proofs` | a game started once: the turn and the phase |
| `Refinement_proofs` | the clients' lists of players, and that the programs play `TurnGame` |
| `Lobby_proofs` | the count of connections, introductions, ready flags |
| `Threads_proofs` | the ring, the pool, the ports and the types of `MCThreads` |
| `Blocks_proofs` | the pages of the memory pool and the blocks that threads pass on |
| `Collections_proofs` | the ordered list and the map, the queue and the list |

Those of the game extend one another, up to `Phase_proofs` in a line, and
`Refinement_proofs` and `Lobby_proofs` both extend `Phase_proofs`.
`Threads_proofs` extends `MCThreads` and gives its constants no values;
`Collections_proofs` extends `Blocks_proofs`, and that `Collections`.

Definitions keep the source's names.  Where two variables have one name in the
source, the client's carry a `c` (`cGameState`); `self` is `RRPG::player` and
`view` is `RRPG::players`.  The server's two maps have the same keys and are
`players` (the keys) and `player` (the entries).  Variables the programs do not
have are few and commented where they are declared: `starts` counts the runs of
`StartGame`; program counters (`at`, `writerAt`, ...) name the step a thread is
at; bounds (`lines`, `late`, `clears`, ...); and, for a container, the last call
and its result, which the abstract specification speaks of too.

Each definition marked *Slip* is a plausible mistake in the definition right
after it: a dropped guard, an off-by-one, a swapped order.  The mutants listed in
`PROJECT.json` put it in the place of that definition, and TLC then finds the
property violated.

**Grain.**  On the server only the packet thread touches the players, and it runs
one handler to its end before it receives the next packet; a handler is one
action, with the sends, `StartGame`, `StartMainGame`, `NextTurn`,
`ModifyHealth` and `GameOver` it calls.  On the client two handlers are cut
where another thread can be seen to overtake them: `GameLoop` between
`Connect` and its write of `networkState` (`RRPG.cpp:518-522`), and
`OnConnectionAccepted` between its write of `networkState` and its `Send`
(`RRPG.cpp:281-289`).  `Overtaken` names the clients whose main thread may be
overtaken; a run that leaves it empty assumes that connecting takes longer than
returning from `Connect`.  In the ring a step is one read or write of a shared
word; in the pool and the allocating queue it is what is done under one mutex, or
one read of a shared word without one; an operation of a container is one step.
`StartThreads` of the pool and the removal by an index of the allocating queue are
two steps each, as between their two sections other threads may run.

**Initial values.**  The constructors set `networkState` only.  Both project
files build with `SDLCheck` (`RRPG Server.vcxproj:77,92,102,116`,
`RRPG.vcxproj:91,105,125,143`), under which the compiler zeroes the other
members first, so `totalConnections`, `gameState` and `myTurn` start at zero.

**Asserts.**  The server's asserts are modelled as compiled in: a failed one stops
the server (`serverStatus = "aborted"`).  `Startup` has both builds (`AssertsIn`);
a client built for release drops its assert and with it the call inside.

**Names.**  A relayed chat line and a list reply begin with a name, and their
receiver takes the first byte for the identifier.  `Lead` says what it takes the
name of each client for.  The runs use `AsciiNames` ("text", which no handler
takes); the proof on turn requests assumes the same as `PlainNames`.

**Data left out.**  Wording of what is only printed; the words a line is split
into; the contents of a chat line; the order and the multiplicity of a client's
list; the IP address typed at the start.  A line that sends nothing and changes
nothing is no step.  The random amounts are any value of their range.

**What the models of RakNet's headers assume.**

- *Ring*: volatile words are sequentially consistent (the header is written for
  that); `Clear` runs when both threads rest, as its comment asks.
- *Pool*: a wait on an event ends at any time, since it times out after a second;
  one user thread.  The count that `StartThreads` sets without the mutex
  (`ThreadPool.h:353`) may be overwritten by a thread that has read it before.
- *Allocating queue*: what follows a removal by an index that another thread has
  crossed is left out, as a block may then be given back twice.
- *Memory* is always there.  The page size is set before the first block.
- *Containers* are called as their comments ask.  Left out are calls whose outcome
  the code leaves undefined: copies of an empty queue, list or graph, `Pop` and
  `Peek` of a heap elsewhere than at its top, a `HashIndex` kept over a change,
  `Concatenate` to an empty list, a second insertion of a key into the B+ tree,
  a question to the graph after a node was added to it.
- *Streams*: for a type of two bytes.  `WriteBits` and `WriteCompressed` of bytes
  are compiled and external.  The other types go through the same templates;
  doubles, vectors, quaternions, matrices, strings and addresses are left out.
- *Graph*: a removal that leaves two nodes unlinked where that is not allowed is
  left out: it takes a node from the map twice.

## 3. Runs

`CHECK_DEADLOCK FALSE` is right everywhere: the players may stop typing, a game
ends, a server whose assert failed stops, and users of a pool or a container may
have no more calls to make.

| Run | Instance | Shows |
|---|---|---|
| `lobby` | 3 clients, 2 expected, 2 lobby commands, 1 loss | `NoMissedStart`, `ReadyAgrees`, `KickNeedsALoss` under every interleaving of connecting, refusal, loss, timeout, introduction and kick |
| `threads` | 2 clients with racing threads, one name with a capital, 2 lobby commands, 1 chat line, 1 action, health 1 | `TypeOK`, `TurnMatchesServer`, `RequestsFitPhase`, with early starts, and `PlaysTheTable`: from the first connection on the programs implement `TurnGame` |
| `battle` | 3 seated players, 3 actions, health 2, blows of 1 or 2, 1 loss | `GameOverFinal`, `OnTurnUpToDate`, `ViewAgrees`, `DeathMatchesHealth`, and `MovesOfTheTable`: every step is a move of `TurnGame` or none |
| `latecomer` | 2 seated, a third with the name of one of them may come in mid-game and ready up, 3 commands, 2 actions, 1 loss, health 1 | `HolderAlive`, `TurnTokensBounded`, `TurnRequestsHandled`, and the action property `NamesakeUntouched`, with games started twice and everybody dead |
| `liveness` | 2 clients with racing threads, fair | `EveryoneReadyStarts`, `TurnArrives`, `SelectionEnds` |
| `threading` | a ring of 3 blocks that may grow to 5, 3 items, 1 `Clear`; a pool of 2 threads and one that comes late, 2 tasks, 2 starts; a server and a client in search of 4 ports, 2 events of other programs | `RingInOrder`, `GrowsOnlyWhenFull`, `EveryItemIsRead`; `EachTaskOnce`, `QuietWhenSaid`, `PoolGoesOn`; `PortsFound` |
| `containers` | below | each container implements its abstract value or keeps its structure |
| `introduction` | 2 clients | `NoAssertFails` is **violated** |
| `connecting` | 2 clients with racing threads | `AcceptedMeansConnected` is **violated** |
| `lost_count` | a pool as in `threading`, 1 task | `IsWorkingTellsAll` is **violated** |
| `pool_pause` | 1 thread, 1 task, fair | `PauseEnds` is **violated** |
| `avl_deletion` | a balancing tree of up to 8 items | `AlwaysBalanced` is **violated** |

**One instance for many parts.**  The parts of `MCThreads` and `MCContainers` do
not interact.  The variable `part` is chosen in `Init`; the steps are those of that
part, and the variables of the others stay as they start.  A behaviour is thus one
of one part, and each property is that part's own.  Fairness of the other parts
demands nothing: what they would have to do is not enabled in their first state,
or asks for the part.

`containers` checks:

| Property | What it says |
|---|---|
| `BlocksAccountedFor` | a block that threads pass on is in one place, unless one of them takes it that another saw and is to remove by its index |
| `PagesKept` | of the pool's two lists of pages, which of them are freed, and whose each block is |
| `SequencesKept` | `Queue` and `List` implement `AbstractSequence`, in arrays that start at 2 places and of every size that can be forced |
| `OrderedListIsMap` | `OrderedList` and `Map` implement `AbstractMap` |
| `HeapIsPriorityQueue`, `HashIsStacks`, `LinkedListIsCursorList`, `TreeIsSet` | refinements likewise; the last two also that links agree, that walks print each item once, that additions keep the balance and copies the shape.  `AbstractSet` takes away what it is asked to; `TreeIsSet` excepts the one step in which `Del` does not, on a tree of one item (`LosesItsOnly`) |
| `RangesKept` | an insertion adds its index and no other; what leaves the list is in the stream and nothing else is; the stream is past the limit of bits by 7 at most, which is what the count of one bit for eight makes (`DS_RangeList.h:76`) |
| `KeysKept` | pages are full enough, separators lead to every key, and the list of leaves has them in order |
| `ShortestFound` | paths are shortest and there still; trees are made of them |
| `StreamCarries` | a reader that keeps pace reads what was written |

**The five violations.**

1. *Introduction.*  The client is in `NS_LOBBY` before its `C_INTRO` is sent.  A
   lobby command typed between the two reaches the server first, and the assert
   of `GetPlayer` (`server.cpp:511`) stops the game for everybody.
2. *Connecting.*  `GameLoop` writes `NS_PENDING_CONNECTION` after `Connect` has
   returned, over the `NS_LOBBY` the packet thread may have written meanwhile.
   That client is connected, is known to the server and can do nothing.  If it
   is a game that needs it, only a later `S_GAME_STARTED` frees it.
3. *Lost count.*  A start that is given up (`ThreadPool.h:366`) may leave a thread
   that has not run yet.  It finds `runThreads` true after the next `StartThreads`
   has written it, counts itself as working, and is lost when that call sets the
   count to zero.  `IsWorking` then returns false while its function runs, and the
   count goes below zero when it ends.
4. *Pause.*  `Pause` waits with `workingThreadCountMutex` locked for a count that
   a working thread can only lower with that mutex (`ThreadPool.h:610-620, 289`).
5. *Deletion.*  After a removal a child may have two subtrees of one height, for
   which `BalanceTree` makes two rotations where one is right
   (`DS_BinarySearchTree.h:185, 197`).

**A second start.**  `OnPlayerReady` does not look at the phase.  Two players
who type `.ready`, one of them again before the game has reached it, start the
game twice; two turns are then out, `currentPlayerTurn` fits one of them, and
two blows can leave nobody alive for `NextTurn` to find.  No document or test
of the repository promises otherwise, so no run is kept for the failure;
properties that need it say `starts = 1`, `TurnGame` promises nothing after
`BeginAgain`, and properties that hold all the same are stated without it.

**Bounds of the game.**  `MaxLines`, `MaxChats` and `MaxActions` are totals over
all players and are the only way a behaviour is cut short; connections, handlers
and turns are not bounded.  Two commands are enough to fill a lobby of two and
three to start the game twice or to take a ready back; three actions with health 2
kill one or two of three players, reach game over, and pass the turn over a dead
player and around the end of the map.  `MaxLosses` 1 with three clients lets a
lost client's slot be taken by the third, which is what makes `totalConnections`
wrong.  Health 1 or 2 with amounts 1 and 2 stands for 100 with 10, 12 and their
ranges: zero is met exactly and passed.  One class is enough where the properties
do not tell classes apart.  The full expected number of the code, 3, is used in
`battle`; `lobby` and `latecomer` use 2 of 3 so that a client too many exists.
GUIDs are compared (the map is ordered), so the runs of the game use no symmetry.

`SeatedInit` is a state the lobby reaches: each of the seated has typed `.ready`
once and the last `C_READY` has just been handled.  It spares the game runs the
interleavings of the lobby.

**Bounds of the rest.**  Three blocks and three items fill the ring, make it grow
and go round it.  Two threads are started and a third name is there for one of a
start that was given up, which may come late into the second start; two tasks let
one wait while the other runs.  Ports 0 to 3 stand for 0 to 65535 and wrap.  Three
pages of two blocks with two kept free are enough for each page to be first, only
and last in either list; which address a page has is all the same, so
`PageSymmetry` is sound.  One of the two threads removes by an index (`Removers`),
the other crosses it.  Arrays of 1 to 4 places grow, wrap and shrink with three
items.  A heap of five lets `Pop` sink an item two levels.  Five keys make the
search tree rotate both ways, and eight are needed for a removal to go wrong.
Four nodes and three connections of weight 1 or 3 give a graph paths that are
short in connections and long in weight, several of equal weight, and nodes out of
reach.  Streams of 30 and 45 bits end in the middle of what is written.  Other
numbers are commented where the instance is made.

*B+ tree*, at order 2: five keys come and go in any order (`Mixed`), and eight can be
inserted before the first is deleted.  That makes trees of three levels that take
insertions and whose index pages borrow from the left and from the right.  What no
number of keys reaches is the key replaced on the way up
(`DS_BPlusTree.h:795-799`): a rotation changes the first key of a leaf that has a
neighbour before it under the same page, and a separator further up is the first
key of a leaf that has none.  The test in the header's comment fills a tree of order
16 and empties it, and says of a deletion "Asserts on 8th call" (`:1128`).  At
order 2 no deletion of any filled tree of up to eight keys goes wrong, in whatever
order they go, nor did one at orders 3 and 4 with ten keys, which was tried by
hand; which tree the comment saw it does not say.

**Fairness of the game**, in `liveness` only.  `Threads`: the loops of the server
and of the clients' packet and main threads never wait for anything
(`server.cpp:74`, `RRPG.cpp:183`), and RakNet resends until a packet of a live
connection has arrived, so each of these threads gets on (weak fairness).
`PlayersChoose` is an assumption on players, not on code: who is asked to choose a
character does.  Nobody is assumed to act in the main game, to get ready, or to
connect.  RakNet's acceptance is not assumed fair either; `EveryoneReadyStarts`
speaks of clients that are connected.

**Fairness in `threading`.**  *Ring*: a reader keeps asking (weak), gives back what
it holds however often it cancels first (strong), and a writer that has begun to
give a block back ends that call (weak); nobody has to write.  *Pool*: each worker
gets on, as its function returns and its mutexes are given back, and a call the
user has begun goes on; nobody has to call.  *Ports*: each program's main thread
gets on.  `PortsFound` then speaks of instances where a port is free.

## 4. Proofs

TLAPS proves the following for every finite set of clients, every naming, every
amount and every bound.  The constants have the assumptions `ClientsAssumption`,
`NamesAssumption`, `LeadAssumption`, `GameAssumption`, `LinesAssumption` and
`LossesAssumption`, which TLC evaluates on every run.  The assumptions below are
hypotheses of the theorems that need them, and nothing else is assumed:

| Hypothesis | What it says | Why it is needed |
|---|---|---|
| `PlainNames` | no name begins with the byte of an identifier | a chat line of such a player would be an `S_TAKE_TURN` from nowhere (section 6); holds for every name in ASCII |
| `NamesDiffer` | names are different | `TurnGame` knows its players by themselves, the protocol by their names |
| `FewClients` | fewer than 65536 clients come in a server's life | `totalConnections` is an `unsigned short` that nothing but a kick lowers, and would come back to zero |
| `PoolConstants` (threads) | finitely many threads, the bounds are natural numbers, `NoTask` is no task | of the pool's module |
| `RingConstants` | at least three blocks to begin with, room for as many, bounds natural, `NoBlock` is no block | the code asserts the first (`SingleProducerConsumer.h:108`) |
| `PortConstants` | 16 bits hold more than one port, `NoPort` is no number, no server is a client | of `Startup` |
| `PoolConstants` (blocks) | finitely many pages and threads, pages of more than one block, one size the greatest, one page kept free at least | a page of one block would be full and empty at once |
| `KeyConstants` | keys are numbers | they are compared |
| `ArrayConstants` | the first allocation is more than one place, bounds are natural | the code says 16 (`DS_Queue.h:227`, `DS_List.h:259`); a circle of one place would be full when it is empty |

| Theorem | States | Assuming |
|---|---|---|
| `TypeCorrect` | `[]TypeOK` | |
| `NamesakesUntouched` | `NamesakeUntouched` | |
| `NoKickWithoutALoss` | `[]KickNeedsALoss` | |
| `RequestsHandled` | `[]TurnRequestsHandled` | `PlainNames` |
| `TurnsBounded` | `[]TurnTokensBounded` | `PlainNames` |
| `TurnsMatchServer`, `RequestsFit`, `TurnWithTheLiving`, `OverIsFinal`, `PlayersOnTurnAreUpToDate` | `[]TurnMatchesServer`, `[]RequestsFitPhase`, `[]HolderAlive`, `[]GameOverFinal`, `[]OnTurnUpToDate` | `PlainNames` |
| `ViewsAgree`, `DeadStayDead` | `[]ViewAgrees`, `[]DeathMatchesHealth` | `PlainNames` |
| `ReadyFlagsAgree` | `[]ReadyAgrees` | `PlainNames` |
| `NoStartMissed` | `[]NoMissedStart` | `PlainNames`, `FewClients` |
| `RefinesSteps`, `RefinesTheTable` | `MovesOfTheTable`, `PlaysTheTable` | `PlainNames`, `NamesDiffer` |
| `PoolTypes`, `TasksInOnePlace`, `QuietIsTrue` | `[]TypeOK`, `[]EachTaskOnce`, `[]QuietWhenSaid` of the pool; the last of IsWorking and Pause only while no reset has lost a thread | `PoolConstants` |
| `ItemsInOrder`, `GrowsOnlyThen` | `[]RingInOrder`, `GrowsOnlyWhenFull` | `RingConstants` |
| `PrintedIsOpen` | `[]PrintedPortIsOpen`, the safety in `PortsFound` | `PortConstants` |
| `AllTypes` | `[]TypeOK` of `MCThreads` | these three |
| `PagesAreKept`, `BlocksInOnePlace` | `[]PagesKept`, `[]BlocksAccountedFor` | `PoolConstants` |
| `OrderIsKept`, `MapsAreMaps` | the list is in order; `OrderedListIsMap` | `KeyConstants` |
| `SequencesAreSequences` | `SequencesKept` | `ArrayConstants` |

`OnceHolds`, `ViewHolds`, `CountsHold`, `RingHolds` and `BlocksHold` state the
inductive invariants behind these.  Each invariant was checked with TLC before it was proved, those of the game
on the instances of section 3.

**Types.**  `TypeOK` is inductive as it stands.  It is less shallow than its name:
that a turn always goes to a client needs `Begin` to be defined on every nonempty
set of keys (`BeginIsLeast`, from the well-foundedness of strict inclusion on a
finite set, because the library's induction theorems cannot be used); that
`totalConnections` never goes below zero needs the guard of the kick.

**Requests.**  `TurnRequestsHandled` speaks of requests under way only and is not
inductive: a request comes from a client that has the turn, which has it from an
`S_TAKE_TURN`, and its target comes from a list that came in a message.  `TurnInv`
follows both back: every queue holds only packets that may be in it
(`Requests(c)`, `News(c)`), whoever has the turn is in the map and so is
`currentPlayerTurn`, and every name on a list is known to the server.  Being a
statement about the elements of queues, it has the form of a type and is proved
with the same facts about `Append`, `Head`, `Tail` and prefixes.  What keeps it is
that the map only grows and the turn stays in it (`NewsStay`).

**Kinds of steps.**  What follows speaks of places in queues, and to unfold each
handler in each proof would be hopeless.  `Game_proofs` therefore shows once
(`StepKinds`) that a step is one of a few kinds: it starts the game, handles a
choice or an action on the server, lets a client learn of the game, gives a client
its turn, uses a turn, or is quiet.  Most handlers are quiet, and of a quiet step
the lemma says what becomes of the queues, by places (`Carried`: a queue has
nothing of certain identifiers that was not in it before).  The later proofs take
these kinds apart instead of the handlers.

**Turns.**  `TokensInv`: the turns that are out are finitely many, and no more
than the starts of the game.  A start brings one; a pass takes one and brings one;
giving and using only move one; a lost connection takes its own away.

**A game started once** (`OnceInv`).  None of the five properties is inductive.
`FreshInv` says that a client without a connection has no queue, turn or list, so
that accepting it brings no old packet back.  `PhaseInv` says of a server before the
game that nobody is dead, and of a game started once that every turn is with
`currentPlayerTurn`, who is alive; that no turn is left after it; that each
client's state, after all that is on its way to it, is the server's (`LeadsTo`),
with the turn as the last packet that moves anything (`TurnLast`); and that a
request fits the phase.  The bound on turns is what makes
it inductive: the handler has consumed the only turn, so nothing contradicts the
one it hands out.

**Lists** (`ViewInv`, with `OnceInv` and `TurnInv`).  `ViewAgrees` speaks of a client
that has read everything.  `ListInv` says it of every moment: whichever list a
client has or is to receive, with the blows behind it in the queue applied, is the
server's map (`ComesTo`: the last blow sets the health, any deadly one the death,
none changes the class).  The death of a player is tied to its health by the
client's check: a request under way is aimed at somebody alive
(`AimsAtTheLiving`), which the one turn keeps true until it arrives.

**The table** (`RefinesSteps`).  `TableInv` is `ViewInv` and that who has not sat
down has lost no health.  It determines the value of each variable of `TurnGame`
(`TokenKnown`), and each kind of step then is one of its moves or none:
introductions seat, a start deals, a choice or an action of the player with the
turn moves it on, the last blow ends the game, a second start is `BeginAgain`, and
everything else leaves the table as it is.

**The lobby.**  `CountInv`: a connection is announced before all else; while
nobody is lost no connection is closed and the count is no more than those with a
slot who have been counted, so that a newcomer finds the count below the number
expected.  `FullInv` is the other side: the count and those still to come are no
more than all clients, so it does not wrap, and until it has been at the number
expected, those who joined or may join uncounted are no more than it says.
`IntroInv`: an accepted client introduces itself once.  From these no step but a
`.ready` can complete a lobby, which is the one handler that looks: the
announcement that completes the count finds too few players joined
(`IncompleteWhenCounted`), and the introduction of somebody, which may be the end
of its connection and lower the count, adds a player who is not ready yet
(`IncompleteWhenJoined`).  `FlagsInv` says of the ready flags that the last one
under way is the player's own.

**The pool** (`PoolInv`).  `numThreadsRunning` equals the number of threads at the
places between counting in and out.  `numThreadsWorking` does until `StartThreads`
sets it to zero: from then on it is that number less the threads the reset has
lost, so that it is between the number of threads below zero and the number above.
In the first start there is no thread to lose, as threads come only from starts
(`FirstStartLosesNone`); in a later one those of a start that was given up may be
there, and `lost_count` shows what comes of it.  What a pool says of itself is thus
proved while the count is right (`CountedMeansQuiet`); that no function runs when
`StopThreads` has returned rests on the other count and holds always
(`StoppedMeansQuiet`).  `UserInv` carries what the user has read from one check of
`IsWorking` to the next, and that `Pause` keeps threads from counting themselves.
`PlaceInv` says that a task is in the queue, with a thread, run or removed, in one
of them and in one place of it.

**The ring** (`RingInv`).  `RingInOrder` speaks of what the reader holds and is not
inductive: whether the next block is the right one depends on all the blocks
behind it.  `RingInv` says there is a `lap`, which names the blocks from the one
the reader gives back next, once each and all of them, so that each block's `next`
is the one after it in the lap, and that the four pointers stand at places of it in
the order read, read ahead, write, write ahead.  What was written and not given
back is between the first and the third, in order, marked as readable; what the
reader holds is between the first two.  The words a thread has yet to write are
allowed for by its place (`GivingBack`, `Published`, `Linked`), and what it has
read stays true because the other thread only moves its own pointers on (`Ahead`).
A step is proved by giving the new lap (`Witness`): the same one; one turned by one
place, when a block is given back; one with a block more, when the ring grows.

**The ports** (`PortInv`).  A program has no port before `Startup`, a server that
is past the search has said the port it carries, and it is bound to what 16 bits
hold of it.

**The pages** (`PagesInv`).  Each of the pool's two lists is a circle of the pages
that belong in it, those with free blocks and those without (`Filed`: an order of
these pages that `nextPage` follows and `prevPage` goes back along, from the first).
That an order exists is all that the links of one circle say, and they say it
whatever the other circle does (`Apart`).  A page that goes from a circle and one
that comes to its end are proved once (`Goes`, `Comes`) and used for every way a
page is filed, freed or made first.  `AllStacked` says that a page's stack holds
what is not in use, without repetition, so that a block that is given out is not
in use already and a page whose stack is whole can be freed.

**The blocks.**  `Allocate` and `Push` are under different mutexes, and so are
`Pop` and `Deallocate`.  Between them a block is in a thread's hand: every block in
use is in the queue or in one hand, and in one place of it.  A removal by an index
takes the queue's mutex twice; the invariant says so until another thread has
taken the block in between (`crossed`).

**The map** (`OrderedInv`: the list is in strict order).  The binary search is a
recursive function on the places `index`, `lowerBound`, `upperBound`, and what it
returns from a place is what there is between the bounds (`Right`).  What is
left out of them lies on its side of the key (`Parted`).  That the recursion
answers is not taken for granted: a function of right answers exists and satisfies
it, and any that does is right, since of the places it would be wrong at one has
its bounds closest together.  Insertion, removal and change are then those of a
map, element by element (`MapIs`).

**The sequences.**  `ListInv` says that the array has the places it is said to
have, and the list no more than these; `CircleInv` says of the queue that `tail` is
the place `Size` after `head`, round the end of the array (`Circle`).  With
these, each operation on the array is one on the sequence by its elements
(`Elements`; `ShorterIsRemoved`, `LongerIsWidened`), whichever of head and tail is
in front.  A queue is full before `tail` meets `head`, so that `Size` is never
mistaken for zero.  The sizes arrays grow to are doublings, which pass any bound:
`ByDoublings` proves what is needed of them from the least number there is.

**Model-checked only.**  Liveness (`EveryoneReadyStarts`, `TurnArrives`,
`SelectionEnds`, `EveryItemIsRead`, `PoolGoesOn`, and that the search in `PortsFound`
ends): the prover has neither `ENABLED` nor fairness.  `TreeIsSet` and `KeysKept`:
`BinarySearchTree` and `BPlusTree` declare recursive operators, which keeps them and
what is built on them out of the prover's reach.  `MCContainers` is built on them,
and so its `TypeOK`, and `HeapIsPriorityQueue`, `HashIsStacks`,
`LinkedListIsCursorList`, `RangesKept`, `ShortestFound` and `StreamCarries` as they
are stated there, are only checked.  The violated properties are false.

## 5. Not modelled

- RakNet's own code: `RakPeer`, the reliability layer, the plugins.  The repository
  has their declarations only; the code is in a compiled library.  This is the
  larger part of `src/Include`: of its lines about a quarter are bodies of
  functions, and it is most of these that the modules cover.  The share of all
  lines that they cover is accordingly low and cannot become much higher.
- `DS_Multilist.h`.  It has code, which nothing in the repository uses, and of the
  properties that could be asked of it most are false (section 6).
- `DS_Tree.h`, `DS_OrderedChannelHeap.h` and `LinkedList`'s `Merge` and
  `Mergesort`: templates that do not compile when they are used.
- `BitStream`'s doubles, vectors, quaternions, matrices, strings and addresses, and
  the delta serializers, whose code is compiled.
- `.localstats` and `.whoami`, which only print; the former walks `players` on the
  input thread while the packet thread may append to it.
- `.quit` and the shutdown: `.quit` compares two pointers (`server.cpp:125`) and
  never matches, and `isQuitting` is never set.
- Transport events both programs only print: pings, bans, version or password
  answers, and the `ID_REMOTE_*` packets, which need a plugin neither installs.
- A client that is refused stays refused: the program never retries.  A
  connection lost by the network while the client goes on is not told apart
  from the end of its process.
- Build files.

## 6. Observed while modelling

What follows was read in the code while it was translated.  No run of its own is
about it: mostly nothing in the repository says otherwise, or the code's behaviour
is undefined there and the models leave the call out.  Where a line does say
otherwise it is quoted here.

The game:

- A name whose first byte is that of an identifier (134 to 140, accented letters
  in some code pages) makes each chat line of its player a message
  (`server.cpp:237`).
- Another program may bind the port between the search and `Startup`, which
  stands in an assert (`server.cpp:440`); a client built for release has no
  assert and never calls `Startup` (`RRPG.cpp:515`).
- The whole line typed is lowered (`RRPG.cpp:47`), the name in it too, and compared
  with the names as they are (`:167`), so that nobody else can aim at a player whose
  name has a capital, against the usage text ".1/.heal [name] or .4/.atkrng
  [name]" (`:108`); `threads` has such a player.
- `.quit` compares pointers (`server.cpp:125`); a late `C_READY` starts the game
  again (`server.cpp:255`).

`SingleProducerConsumer.h` and `ThreadPool.h`:

- `Clear` of the ring leaves `readyToRead` of the blocks it keeps (`:242`).
- `IsWorking` looks at the output first and misses the result that the last task
  puts there afterwards (`:580`); workers look at the pool after they have said
  that they no longer run (`:299, 411`).

Containers:

- `DS_MemoryPool.h`: after `SetPageSize` (`:97`) a page of the old size counts as full or empty at the
  new one (`:196`); a page whose
  memory could not be had stays half made (`:145`).
- `DS_ThreadsafeAllocatingQueue.h`: a removal by an index that another thread's
  `Pop` crosses loses one block and leaves another in two hands (`:148-164`).
- `DS_List.h`: a copy of an empty list leaves `listArray` unset (`:156`);
  `Compress` allocates `allocation_size` places, not `list_size` (`:473`), against
  "Frees overallocated members, to use the minimum memory necessary" (`:120`).
  `DS_Queue.h`: a copy of an empty queue leaves `head` and `tail` unset (`:277`).
- `DS_Heap.h`: `Pop` from the middle sinks and never rises (`:173`).
- `DS_RangeList.h`: ranges may overlap after an insertion between two (`:182`), 0
  inserted twice wraps; one bit is counted where eight are written (`:76`).
- `DS_LinkedList.h`: `Concatenate` to an empty list adds its items twice
  (`:1000`).
- `DS_BinarySearchTree.h`: `Del` on a tree of one item clears it, whatever was
  asked (`:551`), against "deletes the node containing element if the element is
  in the tree" (`:52`); `IsIn` calls an undeclared
  function (`:767`).
- `DS_Hash.h`: `GetAsList` of a hash that never had a node does not clear its
  lists (`:330`).
- `DS_LinkedList.h`: `Add` to a list of one item returns that item, not the new one
  (`:718-732`).
- `DS_BPlusTree.h`: a key that is there already is inserted a second time when its
  leaf is full and a neighbour is not (`:741-791`).
- `DS_WeightedGraph.h`: copies share their maps, leave `costMatrix` unset and copy
  `leastNodeArray` by the size of a weight (`:101-135`); a question after
  `AddNode` reads past the matrix; of two nodes the one always leads to the other
  (`:258`); an unreachable end is `true` with an empty path (`:265`); `RemoveNode`
  may take a node out twice (`:162`).
- `DS_Multilist.h`: `Pop` of a queue at its wrap returns before it counts down
  (`:411`); `SetMultilistType` of a full queue that wraps (`:1045`); `Sort` of a
  queue whose head is not 0 (`:850`); `GetPtr` uses `data[i]` (`:747`);
  `queueTail` may equal `allocationSize` (`:309, 361, 637`).
- `BitStream.h`: `WriteCompressed` of 1.0 as a double overflows (`:1349`);
  `ReadNormVector` returns true though a read fails (`:1907`); `ReadCasted`
  assigns what a failed read has left (`:1866`).

## 7. Plan

Done: the game with its abstract specification and both refinements, starting up,
RakNet's headers that have code, and the proofs of section 4.  Every safety
property that a run checks of the game, the ring, the pool and the collections is
a theorem.  Next, in order of worth:

1. `LinkedList`, `Hash` and `Heap`, whose modules have no recursive operators, can
   be put into `Collections` and proved as the queue was; the heap's contents are a
   bag, of which the library has no theorems.
2. `RangesKept`, for which an invariant must say which ranges may overlap.
3. Invariants of `TurnGame` itself.
