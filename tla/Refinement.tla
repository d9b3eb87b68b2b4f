------------------------------ MODULE Refinement ------------------------------
(***************************************************************************)
(* The server, its clients and the packets between them play the game of   *)
(* TurnGame, as long as no two players share a name and no name reads as a *)
(* message identifier.                                                     *)
(***************************************************************************)
EXTENDS Correctness

\* A player's name is the player's alone.
NamesDiffer == \A j, k \in Clients : Name[j] = Name[k] => j = k

Phase ==
  IF starts > 1 THEN "again"
  ELSE CASE gameState = "GS_PENDING" -> "lobby"
         [] gameState = "GS_CHARACTER_SELECT" -> "select"
         [] gameState = "GS_MAIN" -> "main"
         [] gameState = "GS_GAME_OVER" -> "over"

Seats == IF starts > 1 THEN {} ELSE players

Turn == IF starts > 1 THEN 0 ELSE currentPlayerTurn

\* Where the one turn is.  "wild" is no place of TurnGame: the turn is with
\* somebody else than currentPlayerTurn, or in two places.
Token ==
  CASE starts # 1 -> "none"
    [] starts = 1 /\ TurnTokens = {} ->
         IF gameState = "GS_GAME_OVER" THEN "none" ELSE "lost"
    [] starts = 1 /\ TurnTokens # {} ->
         IF \E t \in TurnTokens : TurnTokens = {t} /\ t[1] = currentPlayerTurn
         THEN (CHOOSE t \in TurnTokens : TRUE)[2][1]
         ELSE "wild"

Healths ==
  [c \in Clients |-> IF starts > 1 THEN InitialHealth ELSE player[c].health]

Table == INSTANCE TurnGame WITH
  Players <- Clients,
  Health  <- InitialHealth,
  Changes <- UNION {HealthChange(a) : a \in Action},
  phase   <- Phase,
  seats   <- Seats,
  turn    <- Turn,
  token   <- Token,
  health  <- Healths

\* Every handler, line typed and event of the network is a move of the game at
\* the table or none: only the player on turn moves it on, strikes and heals
\* reach the living only, the turn goes to the next of the living and the last
\* of them wins (server.cpp:282-312, 329-414, 449-500).
MovesOfTheTable == [][Table!Next]_(Table!vars)

\* And from the first connection on the programs play that game.
PlaysTheTable == Table!Spec

===============================================================================
