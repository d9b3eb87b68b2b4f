------------------------------- MODULE Protocol -------------------------------
(***************************************************************************)
(* What the RRPG server and its clients agree on: who may join, the        *)
(* message identifiers of Include/RRPG_MessageIdentifiers.h, the character *)
(* classes and actions of Include/RRPG_Player.h, and the order in which    *)
(* the server's std::map walks its players.                                *)
(***************************************************************************)
EXTENDS Integers, Sequences, FiniteSets

CONSTANTS
  Clients,           \* the GUIDs that may join, as ToUint32 returns them
  EXPECTED_PLAYERS,  \* Server::EXPECTED_PLAYERS, 3 in the code
  Names,             \* the names players can type
  Name,              \* the name each client introduced itself with
  Lower,             \* ::tolower, applied to a name
  Lead,              \* what the first byte of each client's name is when it
                     \* is read as a message identifier
  CharacterClass,    \* enum CharacterClass
  DefaultJob,        \* the value a zero initialised Player::job has (Wizard)
  InitialHealth,     \* Player::health before the first blow, 100 in the code
  HealAmount,        \* 10 in the code
  HealRange,         \* 5..15 in the code
  AttackAmount,      \* 12 in the code
  AttackRange        \* 6..18 in the code

ASSUME ClientsAssumption ==
  /\ Clients \subseteq Nat
  /\ IsFiniteSet(Clients)
  /\ EXPECTED_PLAYERS \in Nat \ {0}

ASSUME NamesAssumption ==
  /\ Name \in [Clients -> Names]
  /\ Lower \in [Names -> Names]

\* A first byte below ID_USER_PACKET_ENUM, 134, is that of a printable ASCII
\* letter and no identifier either program handles.  On a console an accented
\* letter can be 134 (S_GAME_STARTED) or 137 (S_TAKE_TURN).
ASSUME LeadAssumption ==
  Lead \in [Clients -> {"text", "S_GAME_STARTED", "S_TAKE_TURN"}]

ASSUME GameAssumption ==
  /\ DefaultJob \in CharacterClass
  /\ InitialHealth \in Nat \ {0}
  /\ HealAmount \in Nat /\ AttackAmount \in Nat
  /\ HealRange \subseteq Nat /\ AttackRange \subseteq Nat

NetworkState == {"NS_CREATE_SOCKET", "NS_PENDING_CONNECTION",
                 "NS_LOBBY", "NS_GAME_STARTED"}

GameState == {"GS_PENDING", "GS_CHARACTER_SELECT", "GS_MAIN", "GS_GAME_OVER"}

Action == {"Heal", "HealRng", "Attack", "AtkRng"}

\* One entry of the server's map.  The name is Name[c] and is left out.
Player == [health : Int, ready : BOOLEAN, job : CharacterClass, dead : BOOLEAN]

\* Slip: everybody joins ready.
ReadyNewPlayer == [health |-> InitialHealth, ready |-> TRUE,
                   job |-> DefaultJob, dead |-> FALSE]

NewPlayer == [health |-> InitialHealth, ready |-> FALSE,
              job |-> DefaultJob, dead |-> FALSE]

\* One entry of a client's vector of players.
Entry == [name : Names, health : Int, job : CharacterClass, dead : BOOLEAN]

(***************************************************************************)
(* Messages.  Of what a receiver only prints the identifier is kept, and   *)
(* "text" stands for a line it prints because it knows no identifier like  *)
(* its first byte.                                                         *)
(***************************************************************************)
ToServer ==
  [id : {"ID_NEW_INCOMING_CONNECTION", "ID_CONNECTION_LOST",
         "C_INTRO", "C_READY", "C_UNREADY", "C_CHAT",
         "C_PLAYER_LIST_REQUEST", "C_PLAYER_STATS_REQUEST"}]
    \cup [id : {"C_JOB_CHOSEN"}, job : CharacterClass]
    \cup [id : {"C_ACTION_TAKEN"}, action : Action, target : Names]

ToClient ==
  [id : {"ID_CONNECTION_REQUEST_ACCEPTED", "S_GAME_STARTED", "S_TAKE_TURN",
         "S_REPLY_PLAYER_LIST_REQUEST", "S_REPLY_PLAYER_STATS_REQUEST",
         "text"}]
    \cup [id : {"S_UPDATE_GAME_STATE"}, state : {"GS_MAIN"},
          players : SUBSET Entry]
    \cup [id : {"S_UPDATE_GAME_STATE"}, state : {"GS_GAME_OVER"}]
    \cup [id : {"S_UPDATE_PLAYER_HP"}, name : Names, health : Int]

Plain(id) == [id |-> id]

(***************************************************************************)
(* std::map<unsigned long, Player> keeps its keys sorted: begin() is the   *)
(* smallest, and incrementing an iterator at k visits the smallest key     *)
(* above k, or end() when there is none.                                   *)
(***************************************************************************)
Begin(keys) == CHOOSE k \in keys : \A j \in keys : k <= j

\* Slip: the iterator is not incremented.
FromOn(keys, k) == {j \in keys : j >= k}

Above(keys, k) == {j \in keys : j > k}

\* How much each action changes the health of its target, the random ones
\* over the whole range GetRandomInteger can return.
HealthChange(action) ==
  CASE action = "Heal"    -> {HealAmount}
    [] action = "HealRng" -> HealRange
    [] action = "Attack"  -> {-AttackAmount}
    [] action = "AtkRng"  -> {-d : d \in AttackRange}

===============================================================================
