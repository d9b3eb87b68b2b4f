-------------------------------- MODULE MCRRPG --------------------------------
(***************************************************************************)
(* Small instances of RRPG for TLC.                                        *)
(***************************************************************************)
EXTENDS Refinement

CONSTANT
  Seated   \* the clients at the table in the initial state SeatedInit

NameOf(a, b, d) ==
  [c \in Clients |-> CASE c = 1 -> a [] c = 2 -> b [] OTHER -> d]

Distinct   == NameOf("ann", "bob", "cy")
Namesakes  == NameOf("bob", "ann", "ann")
Capital    == NameOf("Ann", "bob", "cy")

\* Everybody's name begins with an ASCII letter.
AsciiNames == [c \in Clients |-> "text"]

ToLower == [n \in Names |-> IF n = "Ann" THEN "ann" ELSE n]

(***************************************************************************)
(* A state the lobby reaches: the players of Seated have joined and typed  *)
(* .ready once, the last C_READY has just started the game, and nothing    *)
(* else is on its way.  The runs that are about the game start here.       *)
(***************************************************************************)
SeatedInit ==
  LET At(x, y) == [c \in Clients |-> IF c \in Seated THEN x ELSE y]
      begun == <<Plain("S_GAME_STARTED")>>
  IN
  /\ networkState = "NS_GAME_STARTED"
  /\ gameState = "GS_CHARACTER_SELECT"
  /\ totalConnections = Cardinality(Seated)
  /\ players = Seated
  /\ player = [c \in Clients |-> NewPlayer]
  /\ currentPlayerTurn = Begin(Seated)
  /\ serverStatus = "running"
  /\ starts = 1
  /\ cNetworkState = At("NS_LOBBY", "NS_CREATE_SOCKET")
  /\ cGameState = [c \in Clients |-> "GS_PENDING"]
  /\ myTurn = [c \in Clients |-> FALSE]
  /\ self = [c \in Clients |-> [ready |-> c \in Seated,
                                health |-> InitialHealth, dead |-> FALSE]]
  /\ view = [c \in Clients |-> {}]
  /\ cMain = At("done", "create")
  /\ cPacket = [c \in Clients |-> "idle"]
  /\ lines = [lobby |-> Cardinality(Seated), chat |-> 0, action |-> 0]
  /\ link = At("open", "none")
  /\ toServer = [c \in Clients |-> <<>>]
  /\ toClient = [At(begun, <<>>) EXCEPT
                   ![Begin(Seated)] = Append(begun, Plain("S_TAKE_TURN"))]

SeatedSpec == SeatedInit /\ [][Next]_vars

===============================================================================
