------------------------------- MODULE TurnGame -------------------------------
(***************************************************************************)
(* What the game promises its players, without messages, copies of state   *)
(* or threads: players sit down, the game begins once, everybody chooses a *)
(* character in turn, then the living strike or heal the living in turn    *)
(* until one is left.  There is one turn, and only the player it is with   *)
(* can use it.  A turn can be lost, with its player's connection; the      *)
(* server has no cure for that.  Nothing is promised once the game has     *)
(* been begun again on top of itself.                                      *)
(***************************************************************************)
EXTENDS Integers, FiniteSets

CONSTANTS
  Players,   \* numbers of those who may sit down, as the turn goes round
  Health,    \* everybody's health at first, more than 0
  Changes    \* by how much one action can change somebody's health

VARIABLES
  phase,    \* of the game; "again" when it was begun a second time
  seats,    \* who sits at the table
  turn,     \* whose turn it is
  token,    \* and where that turn is
  health

vars == <<phase, seats, turn, token, health>>

Phase == {"lobby", "select", "main", "over", "again"}
Token == {"none", "given", "held", "used", "lost"}

First(S) == CHOOSE p \in S : \A q \in S : p <= q

\* The one after p among S, going round.
After(S, p) ==
  LET later == {q \in S : q > p} IN First(IF later # {} THEN later ELSE S)

Living(h) == {p \in seats : h[p] > 0}

TypeOK ==
  /\ phase \in Phase
  /\ seats \in SUBSET Players
  /\ turn \in Players \cup {0}
  /\ token \in Token
  /\ health \in [Players -> Int]

Init ==
  /\ phase = "lobby"
  /\ seats = {}
  /\ turn = 0
  /\ token = "none"
  /\ health = [p \in Players |-> Health]

-------------------------------------------------------------------------------

Join(p) ==
  /\ phase # "again"
  /\ seats' = seats \cup {p}
  /\ UNCHANGED <<phase, turn, token, health>>

\* The turn goes to p, who may be out of reach.
Pass(p) == turn' = p /\ token' \in {"given", "lost"}

Begin ==
  /\ phase = "lobby"
  /\ seats # {}
  /\ phase' = "select"
  /\ Pass(First(seats))
  /\ UNCHANGED <<seats, health>>

Take ==
  /\ token = "given"
  /\ token' = "held"
  /\ UNCHANGED <<phase, seats, turn, health>>

Use ==
  /\ token = "held"
  /\ token' = "used"
  /\ UNCHANGED <<phase, seats, turn, health>>

Lose ==
  /\ token \in {"given", "held", "used"}
  /\ token' = "lost"
  /\ UNCHANGED <<phase, seats, turn, health>>

\* The end of a turn that leaves the players with health h: the next of the
\* living plays, or the last of them has won.
EndTurn(h) ==
  LET next == After(Living(h), turn)
  IN  /\ Living(h) # {}
      /\ IF Living(h) = {next}
         THEN phase' = "over" /\ turn' = next /\ token' = "none"
         ELSE phase' = "main" /\ Pass(next)

Choose ==
  /\ phase = "select"
  /\ token = "used"
  /\ IF \E p \in seats : p > turn
     THEN Pass(After(seats, turn)) /\ UNCHANGED phase
     ELSE EndTurn(health)
  /\ UNCHANGED <<seats, health>>

\* An action aimed at a living player.
Strike(p, d) ==
  /\ phase = "main"
  /\ token = "used"
  /\ health' = [health EXCEPT ![p] = @ + d]
  /\ EndTurn(health')
  /\ UNCHANGED seats

BeginAgain ==
  /\ phase \notin {"lobby", "again"}
  /\ phase' = "again"
  /\ seats' = {} /\ turn' = 0 /\ token' = "none"
  /\ health' = [p \in Players |-> Health]

Next ==
  \/ \E p \in Players : Join(p)
  \/ Begin
  \/ Take
  \/ Use
  \/ Lose
  \/ Choose
  \/ \E p \in Living(health), d \in Changes : Strike(p, d)
  \/ BeginAgain

Spec == Init /\ [][Next]_vars

===============================================================================
