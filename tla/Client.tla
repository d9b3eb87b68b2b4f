-------------------------------- MODULE Client --------------------------------
(***************************************************************************)
(* The clients, RRPG/RRPG.cpp, one process each.  Three threads run in a   *)
(* client: the main thread connects, the packet thread handles what the    *)
(* server sends, the input thread acts on the lines the player types.  The *)
(* two handlers that another thread can be seen to overtake are split at   *)
(* that point: GameLoop between Connect and its write of networkState, and *)
(* OnConnectionAccepted between its write of networkState and its Send.    *)
(***************************************************************************)
EXTENDS Transport

CONSTANTS
  MaxLines,    \* bound: lobby commands all players together type
  MaxChats,    \* bound: chat lines and list requests of all players together
  MaxActions   \* bound: actions all players together take

ASSUME LinesAssumption ==
  MaxLines \in Nat /\ MaxChats \in Nat /\ MaxActions \in Nat

VARIABLES
  cNetworkState,   \* RRPG::networkState of each client
  cGameState,      \* RRPG::gameState
  myTurn,          \* RRPG::myTurn
  self,            \* RRPG::player, without the name and the unused job
  view,            \* RRPG::players: its entries as a set, their order and
                   \* multiplicity only matter to what is printed
  cMain,           \* where GameLoop is: "create", "connecting" or "done"
  cPacket,         \* the packet thread: "idle", or "introducing" itself
  lines            \* bound: how many lines of each kind were typed so far

clientVars == <<cNetworkState, cGameState, myTurn, self, view, cMain, cPacket,
                lines>>

ClientTypeOK ==
  /\ cNetworkState \in [Clients -> NetworkState]
  /\ cGameState \in [Clients -> GameState]
  /\ myTurn \in [Clients -> BOOLEAN]
  /\ self \in [Clients -> [ready : BOOLEAN, health : Int, dead : BOOLEAN]]
  /\ view \in [Clients -> SUBSET Entry]
  /\ cMain \in [Clients -> {"create", "connecting", "done"}]
  /\ cPacket \in [Clients -> {"idle", "introducing"}]
  /\ lines \in [lobby : 0..MaxLines, chat : 0..MaxChats,
                action : 0..MaxActions]

\* Built with SDLCheck, so myTurn and gameState start out zero.
ClientInit ==
  /\ cNetworkState = [c \in Clients |-> "NS_CREATE_SOCKET"]
  /\ cGameState = [c \in Clients |-> "GS_PENDING"]
  /\ myTurn = [c \in Clients |-> FALSE]
  /\ self = [c \in Clients |->
               [ready |-> FALSE, health |-> InitialHealth, dead |-> FALSE]]
  /\ view = [c \in Clients |-> {}]
  /\ cMain = [c \in Clients |-> "create"]
  /\ cPacket = [c \in Clients |-> "idle"]
  /\ lines = [lobby |-> 0, chat |-> 0, action |-> 0]

-------------------------------------------------------------------------------
(* The main thread.                                                        *)

\* GameLoop up to its call of Connect, which returns before the answer.
Connect(c) ==
  /\ cMain[c] = "create"
  /\ cNetworkState[c] = "NS_CREATE_SOCKET"
  /\ cMain' = [cMain EXCEPT ![c] = "connecting"]
  /\ link' = [link EXCEPT ![c] = "connecting"]
  /\ UNCHANGED <<cNetworkState, cGameState, myTurn, self, view, cPacket,
                 lines, toServer, toClient>>

\* The rest of GameLoop.  By now the packet thread may have gone further.
SetPending(c) ==
  /\ cMain[c] = "connecting"
  /\ Alive(c)
  /\ cMain' = [cMain EXCEPT ![c] = "done"]
  /\ cNetworkState' = [cNetworkState EXCEPT ![c] = "NS_PENDING_CONNECTION"]
  /\ UNCHANGED <<cGameState, myTurn, self, view, cPacket, lines,
                 transportVars>>

-------------------------------------------------------------------------------
(* The packet thread.                                                      *)

\* The packet thread takes the next packet, of identifier id.
Take(c, id) ==
  /\ Alive(c)
  /\ cPacket[c] = "idle"
  /\ toClient[c] # <<>>
  /\ Head(toClient[c]).id = id
  /\ toClient' = [toClient EXCEPT ![c] = Tail(@)]

\* OnConnectionAccepted up to its write of networkState.
OnConnectionAccepted(c) ==
  /\ Take(c, "ID_CONNECTION_REQUEST_ACCEPTED")
  /\ cNetworkState' = [cNetworkState EXCEPT ![c] = "NS_LOBBY"]
  /\ cPacket' = [cPacket EXCEPT ![c] = "introducing"]
  /\ UNCHANGED <<cGameState, myTurn, self, view, cMain, lines,
                 link, toServer>>

\* The rest of OnConnectionAccepted.  The lock it holds is one the input
\* thread does not take, so lines typed in between are acted on.
SendIntro(c) ==
  /\ Alive(c)
  /\ cPacket[c] = "introducing"
  /\ cPacket' = [cPacket EXCEPT ![c] = "idle"]
  /\ Post(c, Plain("C_INTRO"))
  /\ UNCHANGED <<cNetworkState, cGameState, myTurn, self, view, cMain,
                 lines, link, toClient>>

OnGameStart(c) ==
  /\ Take(c, "S_GAME_STARTED")
  /\ cNetworkState' = [cNetworkState EXCEPT ![c] = "NS_GAME_STARTED"]
  /\ cGameState' = [cGameState EXCEPT ![c] = "GS_CHARACTER_SELECT"]
  /\ UNCHANGED <<myTurn, self, view, cMain, cPacket, lines,
                 link, toServer>>

OnTakeTurn(c) ==
  /\ Take(c, "S_TAKE_TURN")
  /\ myTurn' = [myTurn EXCEPT ![c] = TRUE]
  /\ UNCHANGED <<cNetworkState, cGameState, self, view, cMain, cPacket,
                 lines, link, toServer>>

\* With OnMainGameStart, which adds to players and never clears it, and
\* OnGameOver, which writes the state it has just read.
OnGameStateUpdate(c) ==
  LET m == Head(toClient[c])
  IN
  /\ Take(c, "S_UPDATE_GAME_STATE")
  /\ cGameState' = [cGameState EXCEPT ![c] = m.state]
  /\ view' = IF m.state = "GS_MAIN"
             THEN [view EXCEPT ![c] = @ \cup m.players]
             ELSE view
  /\ UNCHANGED <<cNetworkState, myTurn, self, cMain, cPacket, lines,
                 link, toServer>>

\* A list entry, and the client's own record, after health has arrived.
UpdatedEntry(e, health) ==
  [e EXCEPT !.health = health, !.dead = @ \/ health <= 0]

UpdatedSelf(p, health) ==
  [p EXCEPT !.health = health, !.dead = @ \/ health < 1]

\* Every entry that has the name is updated, and the client's own record.
OnPlayersHealthUpdated(c) ==
  LET m == Head(toClient[c])
  IN
  /\ Take(c, "S_UPDATE_PLAYER_HP")
  /\ view' = [view EXCEPT ![c] =
                {IF e.name = m.name THEN UpdatedEntry(e, m.health) ELSE e :
                   e \in @}]
  /\ self' = IF Name[c] = m.name
             THEN [self EXCEPT ![c] = UpdatedSelf(@, m.health)]
             ELSE self
  /\ UNCHANGED <<cNetworkState, cGameState, myTurn, cMain, cPacket,
                 lines, link, toServer>>

\* Chat lines and list replies are printed, and nothing else.
ShowReply(c) ==
  /\ \E id \in {"text", "S_REPLY_PLAYER_LIST_REQUEST",
                "S_REPLY_PLAYER_STATS_REQUEST"} : Take(c, id)
  /\ UNCHANGED <<clientVars, link, toServer>>

-------------------------------------------------------------------------------
(* The input thread: one action per kind of line the player may type.  A   *)
(* line that sends nothing changes nothing and is left out.                *)

Typing(c, state) ==
  /\ Alive(c)
  /\ cNetworkState[c] = state

\* Slip: myTurn is not reset.
KeepTurn(c) == UNCHANGED myTurn

\* A request, or a line nothing can be done with, gives the turn up.
EndTurn(c) == myTurn' = [myTurn EXCEPT ![c] = FALSE]

\* HandleLobbyInput's .ready and .notready, with Ready and Unready.
Ready(c) ==
  /\ Typing(c, "NS_LOBBY")
  /\ lines.lobby < MaxLines
  /\ lines' = [lines EXCEPT !.lobby = @ + 1]
  /\ self' = [self EXCEPT ![c].ready = TRUE]
  /\ Post(c, Plain("C_READY"))
  /\ UNCHANGED <<cNetworkState, cGameState, myTurn, view, cMain, cPacket,
                 link, toClient>>

Unready(c) ==
  /\ Typing(c, "NS_LOBBY")
  /\ lines.lobby < MaxLines
  /\ lines' = [lines EXCEPT !.lobby = @ + 1]
  /\ self' = [self EXCEPT ![c].ready = FALSE]
  /\ Post(c, Plain("C_UNREADY"))
  /\ UNCHANGED <<cNetworkState, cGameState, myTurn, view, cMain, cPacket,
                 link, toClient>>

\* Any other line without a leading dot is chat: in the lobby always, in the
\* game only on the player's own turn, which it does not use up.
Chat(c) ==
  /\ \/ Typing(c, "NS_LOBBY")
     \/ Typing(c, "NS_GAME_STARTED") /\ myTurn[c]
          /\ cGameState[c] \in {"GS_CHARACTER_SELECT", "GS_MAIN"}
  /\ lines.chat < MaxChats
  /\ lines' = [lines EXCEPT !.chat = @ + 1]
  /\ Post(c, Plain("C_CHAT"))
  /\ UNCHANGED <<cNetworkState, cGameState, myTurn, self, view, cMain, cPacket,
                 link, toClient>>

\* .players in the lobby, and .stats in the game on anybody's turn.
Ask(c) ==
  /\ lines.chat < MaxChats
  /\ lines' = [lines EXCEPT !.chat = @ + 1]
  /\ \/ /\ Typing(c, "NS_LOBBY")
        /\ Post(c, Plain("C_PLAYER_LIST_REQUEST"))
     \/ /\ Typing(c, "NS_GAME_STARTED")
        /\ Post(c, Plain("C_PLAYER_STATS_REQUEST"))
  /\ UNCHANGED <<cNetworkState, cGameState, myTurn, self, view, cMain, cPacket,
                 link, toClient>>

\* HandleGameInput while characters are selected: .wizard, .warrior, .assassin.
ChooseJob(c) ==
  /\ Typing(c, "NS_GAME_STARTED")
  /\ myTurn[c]
  /\ cGameState[c] = "GS_CHARACTER_SELECT"
  /\ EndTurn(c)
  /\ \E job \in CharacterClass :
       Post(c, [id |-> "C_JOB_CHOSEN", job |-> job])
  /\ UNCHANGED <<cNetworkState, cGameState, self, view, cMain, cPacket,
                 lines, link, toClient>>

\* Slip: ValidPlayer is not asked.
AnyTarget(c) == {Lower[n] : n \in Names}

\* The names HandleGameInput lets the player aim at: the word "me" stands for
\* the player's own name; any other word has been lowered with the whole line
\* and must be the exact name of an entry that is not dead.
Targets(c) ==
  {Name[c]} \cup {w \in {Lower[n] : n \in Names} :
                    \E e \in view[c] : e.name = w /\ ~e.dead}

\* HandleGameInput in the main game: .heal, .healrng, .atk, .atkrng.
TakeAction(c) ==
  /\ Typing(c, "NS_GAME_STARTED")
  /\ myTurn[c]
  /\ cGameState[c] = "GS_MAIN"
  /\ lines.action < MaxActions
  /\ lines' = [lines EXCEPT !.action = @ + 1]
  /\ EndTurn(c)
  /\ \E action \in Action, target \in Targets(c) :
       Post(c, [id |-> "C_ACTION_TAKEN", action |-> action, target |-> target])
  /\ UNCHANGED <<cNetworkState, cGameState, self, view, cMain, cPacket, link,
                 toClient>>

\* HandleGameInput in any other state: the turn is given up and the empty
\* BitStream is refused by Send.
WasteTurn(c) ==
  /\ Typing(c, "NS_GAME_STARTED")
  /\ myTurn[c]
  /\ cGameState[c] \notin {"GS_CHARACTER_SELECT", "GS_MAIN"}
  /\ EndTurn(c)
  /\ UNCHANGED <<cNetworkState, cGameState, self, view, cMain, cPacket,
                 lines, transportVars>>

-------------------------------------------------------------------------------

\* What the packet thread does next.
ClientPackets(c) ==
  \/ OnConnectionAccepted(c)
  \/ SendIntro(c)
  \/ OnGameStart(c)
  \/ OnTakeTurn(c)
  \/ OnGameStateUpdate(c)
  \/ OnPlayersHealthUpdated(c)
  \/ ShowReply(c)

InputHandler(c) ==
  \/ Ready(c)
  \/ Unready(c)
  \/ Chat(c)
  \/ Ask(c)
  \/ ChooseJob(c)
  \/ TakeAction(c)
  \/ WasteTurn(c)

===============================================================================
