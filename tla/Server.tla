-------------------------------- MODULE Server --------------------------------
(***************************************************************************)
(* The game server, RRPG Server/server.cpp.  Three threads run in it.  The *)
(* packet thread is the only one that touches the players, the turn and    *)
(* the connection count, and it runs one handler to its end before it      *)
(* receives the next packet, so a handler is one action here.  The main    *)
(* thread's GameLoop opens the socket; the input thread only broadcasts    *)
(* text that clients print.                                                *)
(***************************************************************************)
EXTENDS Transport

VARIABLES
  networkState,
  gameState,
  totalConnections,   \* unsigned short
  players,            \* the keys of the maps players and playerAddresses
  player,             \* the entries of the map players
  currentPlayerTurn,
  serverStatus,       \* "aborted": an assert failed; "spinning": NextTurn
  starts              \* history: how often StartGame has run

serverVars == <<networkState, gameState, totalConnections, players, player,
                currentPlayerTurn, serverStatus, starts>>

UnsignedShort == {n \in Nat : n < 65536}

ServerTypeOK ==
  /\ networkState \in NetworkState
  /\ gameState \in GameState
  /\ totalConnections \in UnsignedShort
  /\ players \in SUBSET Clients
  /\ player \in [Clients -> Player]
  /\ currentPlayerTurn \in Nat
  /\ serverStatus \in {"running", "aborted", "spinning"}
  /\ starts \in Nat

\* The constructor sets networkState only.  Both project files build with
\* SDLCheck, which zeroes the other members before the constructor runs.
ServerInit ==
  /\ networkState = "NS_CREATE_SOCKET"
  /\ gameState = "GS_PENDING"
  /\ totalConnections = 0
  /\ players = {}
  /\ player = [c \in Clients |-> NewPlayer]
  /\ currentPlayerTurn = 0
  /\ serverStatus = "running"
  /\ starts = 0

Listening == networkState # "NS_CREATE_SOCKET" /\ serverStatus = "running"

-------------------------------------------------------------------------------

\* Slip: the packet is not in the ordered channel.
GiveTurnUnordered(q, k) ==
  IF link[k] = "open" THEN [q EXCEPT ![k] = <<Plain("S_TAKE_TURN")>> \o @]
                      ELSE q

\* The packet that gives the turn to player k, sent after q.
GiveTurn(q, k) == SendTo(q, k, Plain("S_TAKE_TURN"))

\* The packet thread takes the next packet of client c, of identifier id.
Receive(c, id) ==
  /\ serverStatus = "running"
  /\ toServer[c] # <<>>
  /\ Head(toServer[c]).id = id

Consume(c) == toServer' = [toServer EXCEPT ![c] = Tail(@)]

\* An assert fails: the process stops where it is.
Abort ==
  /\ serverStatus' = "aborted"
  /\ UNCHANGED <<networkState, gameState, totalConnections, players, player,
                 currentPlayerTurn, starts, toClient>>

WithName(n) == {p \in players : Name[p] = n}

\* Slip: the search goes on after the first entry it finds.
LastWithName(n) == CHOOSE k \in WithName(n) : \A j \in WithName(n) : j <= k

\* The first entry, in map order, that has the name.
GetPlayerWithName(n) == Begin(WithName(n))

\* Slip: NextTurn does not skip the dead.
NextInMap(living) ==
  LET later == Above(players, currentPlayerTurn)
  IN  IF later # {} THEN Begin(later) ELSE Begin(players)

\* Where NextTurn's loop stops: the next living player in map order, past
\* end() and on from begin() when there is none above the current one.
NextAlive(living) ==
  LET later == Above(living, currentPlayerTurn)
  IN  IF later # {} THEN Begin(later) ELSE Begin(living)

Over == [id |-> "S_UPDATE_GAME_STATE", state |-> "GS_GAME_OVER"]

\* Slip: NextTurn does not return after GameOver.
GameOverWithoutReturn(winner, q) ==
  GiveTurn(Broadcast(q, Over), winner)

\* What GameOver sends after q.
GameOver(winner, q) == Broadcast(q, Over)

\* NextTurn and the GameOver it may call, in game state gs, on the player
\* entries p and with q already sent.  With nobody alive the loop never finds
\* a player to stop at.
NextTurn(gs, p, q) ==
  LET living == {k \in players : ~p[k].dead}
      next   == NextAlive(living)
  IN  \/ /\ living = {}
         /\ serverStatus' = "spinning"
         /\ gameState' = gs
         /\ toClient' = q
         /\ UNCHANGED currentPlayerTurn
      \/ /\ living # {} /\ living = {next}
         /\ currentPlayerTurn' = next
         /\ gameState' = "GS_GAME_OVER"
         /\ toClient' = GameOver(next, q)
         /\ UNCHANGED serverStatus
      \/ /\ living # {} /\ living # {next}
         /\ currentPlayerTurn' = next
         /\ gameState' = gs
         /\ toClient' = GiveTurn(q, next)
         /\ UNCHANGED serverStatus

\* Slip: a player with no health left is alive.
ChangedOffByOne(e, diff) ==
  [e EXCEPT !.health = @ + diff, !.dead = @ \/ e.health + diff < 0]

\* What ModifyHealth makes of an entry: health is not capped, and no heal
\* clears dead.
Changed(e, diff) ==
  [e EXCEPT !.health = @ + diff, !.dead = @ \/ e.health + diff <= 0]

ModifyHealth(p, k, diff) == [p EXCEPT ![k] = Changed(@, diff)]

\* Slip: the packet is written before the blow.
HealthUpdateBefore(p, k) ==
  [id |-> "S_UPDATE_PLAYER_HP", name |-> Name[k], health |-> player[k].health]

\* The packet ModifyHealth broadcasts about entry k of p.
HealthUpdate(p, k) ==
  [id |-> "S_UPDATE_PLAYER_HP", name |-> Name[k], health |-> p[k].health]

\* Slip: the names are left out of the list.
NamelessSnapshot(p) ==
  {[health |-> p[k].health, job |-> p[k].job, dead |-> FALSE] : k \in players}

\* StartMainGame's list of players, as the client will store it.
Snapshot(p) ==
  {[name |-> Name[k], health |-> p[k].health,
    job |-> p[k].job, dead |-> FALSE] : k \in players}

Main(p) ==
  [id |-> "S_UPDATE_GAME_STATE", state |-> "GS_MAIN", players |-> Snapshot(p)]

\* Slips: the clients are not told of the main game; nobody gets the turn.
StartMainGameUnannounced(p) == NextTurn("GS_MAIN", p, toClient)

StartMainGameWithoutTurn(p) ==
  /\ gameState' = "GS_MAIN"
  /\ toClient' = Broadcast(toClient, Main(p))
  /\ UNCHANGED <<currentPlayerTurn, serverStatus>>

\* StartMainGame on the player entries p.
StartMainGame(p) == NextTurn("GS_MAIN", p, Broadcast(toClient, Main(p)))

\* Slip: the sender's own flag is looked at before it is set.
AllReadyBefore(p) == \A k \in players : player[k].ready

\* Whether everybody in the map is ready, on the player entries p.
AllReady(p) == \A k \in players : p[k].ready

\* Slip: off by one.
FullAtExpected == totalConnections >= EXPECTED_PLAYERS

\* More connections than expected.
Overfull == totalConnections > EXPECTED_PLAYERS

\* StartGame on the player entries p.
StartGame(p) ==
  /\ networkState' = "NS_GAME_STARTED"
  /\ gameState' = "GS_CHARACTER_SELECT"
  /\ player' = [k \in Clients |-> IF k \in players
                                  THEN [p[k] EXCEPT !.ready = FALSE]
                                  ELSE p[k]]
  /\ currentPlayerTurn' = Begin(players)
  /\ toClient' = GiveTurn(Broadcast(toClient, Plain("S_GAME_STARTED")),
                          Begin(players))
  /\ starts' = starts + 1

-------------------------------------------------------------------------------

\* The main thread opens the socket: Startup, SetMaximumIncomingConnections.
GameLoop ==
  /\ serverStatus = "running"
  /\ networkState = "NS_CREATE_SOCKET"
  /\ networkState' = "NS_LOBBY"
  /\ UNCHANGED <<gameState, totalConnections, players, player,
                 currentPlayerTurn, serverStatus, starts, transportVars>>

OnIncomingConnection(c) ==
  /\ Receive(c, "ID_NEW_INCOMING_CONNECTION")
  /\ Consume(c)
  /\ totalConnections' = (totalConnections + 1) % 65536
  /\ UNCHANGED <<networkState, gameState, players, player, currentPlayerTurn,
                 serverStatus, starts, link, toClient>>

\* A lost connection is printed and nothing else: totalConnections goes down
\* only for the ID_REMOTE_* packets, which need the ConnectionGraph2 plugin.
OnConnectionLost(c) ==
  /\ Receive(c, "ID_CONNECTION_LOST")
  /\ Consume(c)
  /\ UNCHANGED <<serverVars, link, toClient>>

\* Above the expected number of connections the newcomer is disconnected, and
\* still entered in both maps.  emplace leaves an existing entry alone.
OnClientIntro(c) ==
  LET rest == Tail(toServer[c])
  IN
  /\ Receive(c, "C_INTRO")
  /\ \/ /\ Overfull
        /\ totalConnections' = totalConnections - 1
        /\ link' = [link EXCEPT ![c] = IF Alive(c) THEN "closed" ELSE "gone"]
        /\ \E kept \in Prefixes(rest) :
             toServer' = [toServer EXCEPT ![c] = kept]
     \/ /\ ~Overfull
        /\ Consume(c)
        /\ UNCHANGED <<totalConnections, link>>
  /\ players' = players \cup {c}
  /\ player' = IF c \in players THEN player
               ELSE [player EXCEPT ![c] = NewPlayer]
  /\ UNCHANGED <<networkState, gameState, currentPlayerTurn, serverStatus,
                 starts, toClient>>

\* GetPlayer asserts that the sender has an entry.  The line is relayed as the
\* bare text "name: line", without an identifier in front.
OnClientChatReceived(c) ==
  /\ Receive(c, "C_CHAT")
  /\ Consume(c)
  /\ UNCHANGED link
  /\ \/ c \notin players /\ Abort
     \/ /\ c \in players
        /\ toClient' = Broadcast(toClient, Plain(Lead[c]))
        /\ UNCHANGED serverVars

\* The two list requests are answered whoever asks, and change nothing.
OnPlayerListRequest(c) ==
  /\ Receive(c, "C_PLAYER_LIST_REQUEST")
  /\ Consume(c)
  /\ toClient' = SendTo(toClient, c, Plain("S_REPLY_PLAYER_LIST_REQUEST"))
  /\ UNCHANGED <<serverVars, link>>

OnPlayerStatsRequest(c) ==
  /\ Receive(c, "C_PLAYER_STATS_REQUEST")
  /\ Consume(c)
  /\ toClient' = SendTo(toClient, c, Plain("S_REPLY_PLAYER_STATS_REQUEST"))
  /\ UNCHANGED <<serverVars, link>>

\* The game starts when this was the last player in the map to get ready and
\* the connection count is the expected one.
OnPlayerReady(c) ==
  LET p == [player EXCEPT ![c].ready = TRUE]
      complete == AllReady(p) /\ totalConnections = EXPECTED_PLAYERS
  IN
  /\ Receive(c, "C_READY")
  /\ Consume(c)
  /\ UNCHANGED link
  /\ \/ c \notin players /\ Abort
     \/ /\ c \in players
        /\ complete
        /\ StartGame(p)
        /\ UNCHANGED <<totalConnections, players, serverStatus>>
     \/ /\ c \in players
        /\ ~complete
        /\ player' = p
        /\ UNCHANGED <<networkState, gameState, totalConnections, players,
                       currentPlayerTurn, serverStatus, starts, toClient>>

OnPlayerUnready(c) ==
  /\ Receive(c, "C_UNREADY")
  /\ Consume(c)
  /\ UNCHANGED link
  /\ \/ c \notin players /\ Abort
     \/ /\ c \in players
        /\ player' = [player EXCEPT ![c].ready = FALSE]
        /\ UNCHANGED <<networkState, gameState, totalConnections, players,
                       currentPlayerTurn, serverStatus, starts, toClient>>

\* Whoever sent it, the turn moves on from currentPlayerTurn, and from the
\* last player in map order into the main game.
OnPlayerJobChosen(c) ==
  LET p     == [player EXCEPT ![c].ready = TRUE,
                              ![c].job = Head(toServer[c]).job]
      later == Above(players, currentPlayerTurn)
  IN
  /\ Receive(c, "C_JOB_CHOSEN")
  /\ Consume(c)
  /\ UNCHANGED link
  /\ \/ c \notin players /\ Abort
     \/ /\ c \in players
        /\ later # {}
        /\ player' = p
        /\ currentPlayerTurn' = Begin(later)
        /\ toClient' = GiveTurn(toClient, Begin(later))
        /\ UNCHANGED <<networkState, gameState, totalConnections, players,
                       serverStatus, starts>>
     \/ /\ c \in players
        /\ later = {}
        /\ player' = p
        /\ StartMainGame(p)
        /\ UNCHANGED <<networkState, totalConnections, players, starts>>

\* The target is found by name, the sender is not compared with
\* currentPlayerTurn, and the turn moves on.
OnPlayerActionTaken(c) ==
  LET m      == Head(toServer[c])
      target == GetPlayerWithName(m.target)
  IN
  /\ Receive(c, "C_ACTION_TAKEN")
  /\ Consume(c)
  /\ UNCHANGED link
  /\ \/ (c \notin players \/ WithName(m.target) = {}) /\ Abort
     \/ /\ c \in players
        /\ WithName(m.target) # {}
        /\ \E diff \in HealthChange(m.action) :
             LET p == ModifyHealth(player, target, diff)
             IN  /\ player' = p
                 /\ NextTurn(gameState, p,
                             Broadcast(toClient, HealthUpdate(p, target)))
        /\ UNCHANGED <<networkState, totalConnections, players, starts>>

\* One iteration of the packet thread's loop that has a packet to handle.
PacketHandler(c) ==
  \/ OnIncomingConnection(c)
  \/ OnConnectionLost(c)
  \/ OnClientIntro(c)
  \/ OnClientChatReceived(c)
  \/ OnPlayerListRequest(c)
  \/ OnPlayerStatsRequest(c)
  \/ OnPlayerReady(c)
  \/ OnPlayerUnready(c)
  \/ OnPlayerJobChosen(c)
  \/ OnPlayerActionTaken(c)

===============================================================================
