------------------------------ MODULE Correctness -----------------------------
(***************************************************************************)
(* What the game must get right.  The server may start the game a second   *)
(* time, when a C_READY reaches it late; what then breaks is stated below  *)
(* as a condition on starts, and what survives is stated without one.      *)
(***************************************************************************)
EXTENDS RRPG, Functions

Open(c) == link[c] = "open"

Ids(q) == {m.id : m \in Range(q)}

Living == {k \in players : ~player[k].dead}

\* No other player of the server has the name of k.
Unique(k) == \A j \in players : Name[j] = Name[k] => j = k

\* Nothing about the game's state is on its way to c.
UpToDate(c) ==
  Ids(toClient[c]) \cap {"S_UPDATE_GAME_STATE", "S_UPDATE_PLAYER_HP"} = {}

(***************************************************************************)
(* The right to play next, wherever it can be: a client that has been told *)
(* that it is its turn, a message that tells it so, a request that uses    *)
(* the turn up.                                                            *)
(***************************************************************************)
TurnRequests == {"C_JOB_CHOSEN", "C_ACTION_TAKEN"}

HeldAt(c)  == {i \in {0} : myTurn[c]}
GivenAt(c) == {i \in DOMAIN toClient[c] : toClient[c][i].id = "S_TAKE_TURN"}
UsedAt(c)  == {i \in DOMAIN toServer[c] : toServer[c][i].id \in TurnRequests}

TurnTokens ==
  UNION {{c} \X (({"held"} \X HeldAt(c)) \cup ({"given"} \X GivenAt(c))
                   \cup ({"used"} \X UsedAt(c))) : c \in Clients}

-------------------------------------------------------------------------------
(* The lobby.                                                              *)

\* A lobby in which as many players as expected have joined, all are ready
\* and the connection count fits never waits for one more packet: whatever
\* order connections, introductions, kicks and .ready lines came in, the
\* handler that completed it has started the game (server.cpp:251-256).
NoMissedStart ==
  starts = 0 =>
    ~ /\ Cardinality(players) >= EXPECTED_PLAYERS
      /\ \A k \in players : player[k].ready
      /\ totalConnections = EXPECTED_PLAYERS

\* Before the game, once everything a connected player typed has arrived, the
\* server's ready flag is the one the player's own client keeps: the flag has
\* two copies, and C_INTRO carries one that the server reads and drops
\* (server.cpp:203-206).
ReadyAgrees ==
  starts = 0 =>
    \A c \in players :
      Open(c) /\ Ids(toServer[c]) \cap {"C_READY", "C_UNREADY"} = {}
        => player[c].ready = self[c].ready

\* The server closes the connection of a newcomer only when the count has
\* gone wrong, and it goes wrong only by clients that were lost: while every
\* process lives, whoever got a slot keeps it (server.cpp:191-195).
KickNeedsALoss ==
  (\E c \in Clients : link[c] = "closed") => \E c \in Clients : ~Alive(c)

\* If everybody is connected and ready in the end, the game starts, unless the
\* server died of an assert first.
EveryoneReadyStarts ==
  <>[](\A c \in Clients : Open(c) /\ self[c].ready)
    => <>(starts > 0 \/ serverStatus # "running")

-------------------------------------------------------------------------------
(* The turn.                                                               *)

\* However late readies, early choices, kicks and lost clients interleave,
\* no more turns are out than the game was started times: no handler hands
\* out a turn without having consumed one, and no line is acted on twice.
TurnTokensBounded == Cardinality(TurnTokens) <= starts

\* The server compares neither the sender of a request with the player whose
\* turn it is nor the request with the phase (server.cpp:282, 329).  In a game
\* that was started once it need not: the only turn there is belongs to
\* currentPlayerTurn.
TurnMatchesServer ==
  starts = 1 => \A t \in TurnTokens : t[1] = currentPlayerTurn

\* And a request always fits the phase the server is in.
RequestsFitPhase ==
  starts = 1 =>
    \A c \in Clients :
      /\ "C_JOB_CHOSEN" \in Ids(toServer[c])
           => gameState = "GS_CHARACTER_SELECT"
      /\ "C_ACTION_TAKEN" \in Ids(toServer[c]) => gameState = "GS_MAIN"

\* Even in a game that was started twice, no turn request trips an assert or
\* moves an iterator past end(): its sender has an entry, so has the player
\* the turn moves on from, and the name it aims at is one the server knows
\* (server.cpp:300, 340, 387, 511).
TurnRequestsHandled ==
  \A c \in Clients : \A i \in UsedAt(c) :
    /\ {c, currentPlayerTurn} \subseteq players
    /\ toServer[c][i].id = "C_ACTION_TAKEN"
         => WithName(toServer[c][i].target) # {}

(***************************************************************************)
(* Why: the invariant it rests on.  Whoever has the turn, is about to be   *)
(* told so, or has used it is in the map, and so is currentPlayerTurn; and *)
(* every name a client can aim at was once in the server's own list, from  *)
(* which no name is ever removed.                                          *)
(***************************************************************************)
PlainNames == \A c \in Clients : Lead[c] = "text"

MayPlay(c) == {c, currentPlayerTurn} \subseteq players

Known(n) == WithName(n) # {}

\* The packets c may have under way, and those that may be under way to it.
Requests(c) ==
  {m \in ToServer :
     /\ m.id \in TurnRequests => MayPlay(c)
     /\ m.id = "C_ACTION_TAKEN" => Known(m.target)}

News(c) ==
  {m \in ToClient :
     /\ m.id = "S_TAKE_TURN" => MayPlay(c)
     /\ m.id = "S_UPDATE_GAME_STATE" /\ m.state = "GS_MAIN"
          => \A e \in m.players : Known(e.name)}

TurnInv ==
  \A c \in Clients :
    /\ toServer[c] \in Seq(Requests(c))
    /\ toClient[c] \in Seq(News(c))
    /\ myTurn[c] => MayPlay(c)
    /\ \A e \in view[c] : Known(e.name)

\* In a game that was started once the turn is never with a dead player, and
\* the loop that looks for the next one ends (server.cpp:390-396).
HolderAlive ==
  /\ starts = 1 => currentPlayerTurn \in Living
  /\ starts <= 1 => serverStatus # "spinning"

\* When a game that was started once is over nobody can play on.
GameOverFinal ==
  starts = 1 /\ gameState = "GS_GAME_OVER" => TurnTokens = {}

\* A started game does not lose the turn: until it is over, or the server is
\* stopped by an assert or by the endless loop, some player gets to play.
TurnArrives ==
  starts > 0 ~> \/ \E c \in Clients : myTurn[c]
                \/ gameState = "GS_GAME_OVER"
                \/ serverStatus # "running"

\* A client whose main thread has overwritten what its packet thread had
\* reached: it never leaves this state.
Stuck(c) == cMain[c] = "done" /\ cNetworkState[c] = "NS_PENDING_CONNECTION"

\* If every player who can choose a character does, the selection ends.
SelectionEnds ==
  starts > 0 ~> \/ gameState \in {"GS_MAIN", "GS_GAME_OVER"}
                \/ starts > 1
                \/ serverStatus # "running"
                \/ \E c \in Clients : Stuck(c)

-------------------------------------------------------------------------------
(* What the clients know.                                                  *)

\* HandleGameInput reads gameState and players on the input thread, without a
\* lock, while the packet thread writes them.  In a game that was started once
\* the turn protocol keeps the two apart: a player on turn has had every
\* update, and none can come before the turn is used.
OnTurnUpToDate ==
  starts = 1 => \A c \in Clients : Open(c) /\ myTurn[c] => UpToDate(c)

\* The list a client keeps, by name and from deltas, is the server's whenever
\* nothing is on its way to it.
ViewAgrees ==
  starts <= 1 =>
    \A c \in Clients : Open(c) /\ UpToDate(c) =>
      \A e \in view[c], k \in players :
        Name[k] = e.name /\ Unique(k) =>
          /\ e.health = player[k].health
          /\ e.dead = player[k].dead
          /\ e.job = player[k].job

\* The server does not look whether a target is dead; the client's check, made
\* on its own copy before the request travels, is enough for nobody to be
\* raised or struck again, so dead stays what health says.
DeathMatchesHealth ==
  starts <= 1 =>
    \A k \in players : Unique(k) => player[k].dead = (player[k].health <= 0)

\* Blows and heals aimed at a name all land on the first player in map order
\* who has it at the time: a later namesake, also one who was first until
\* somebody with a smaller GUID joined, is not touched, whoever is aimed at.
NamesakeUntouched ==
  [][\A j, k \in players :
       Name[j] = Name[k] /\ player'[k].health # player[k].health
         => k <= j]_vars

-------------------------------------------------------------------------------
(* What the code says of itself and does not keep.                         *)

\* The asserts of GetPlayer, GetAddressFromID and OnPlayerActionTaken
\* (server.cpp:511, 527, 340) never fail.
NoAssertFails == serverStatus # "aborted"

\* "This tells the client they have connected" (RRPG.cpp:261): after the packet
\* that says so the client is in the lobby or in the game.
AcceptedMeansConnected ==
  \A c \in Clients :
    Open(c) /\ "ID_CONNECTION_REQUEST_ACCEPTED" \notin Ids(toClient[c])
      => cNetworkState[c] \in {"NS_LOBBY", "NS_GAME_STARTED"}

===============================================================================
