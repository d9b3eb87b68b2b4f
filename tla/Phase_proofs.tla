----------------------------- MODULE Phase_proofs -----------------------------
(***************************************************************************)
(* A game that was started once: whose turn it is, what a request may be,  *)
(* and what the clients have been told of the state of the game.           *)
(***************************************************************************)
EXTENDS Game_proofs

-------------------------------------------------------------------------------
(* Clients that have had no connection yet.                                *)

Untouched(c) ==
  /\ toServer[c] = <<>> /\ toClient[c] = <<>>
  /\ ~myTurn[c] /\ view[c] = {} /\ cPacket[c] = "idle"
  /\ cNetworkState[c] \in {"NS_CREATE_SOCKET", "NS_PENDING_CONNECTION"}
  /\ c \notin players

Fresh(c) ==
  /\ cMain[c] = "create" => link[c] = "none"
  /\ link[c] \in {"none", "connecting", "refused"} => Untouched(c)

FreshInv == \A c \in Clients : Fresh(c)

\* In the first state nothing is under way and nobody has been accepted.
LEMMA FreshInit == Init => FreshInv
BY DEF Init, ServerInit, ClientInit, TransportInit, FreshInv, Fresh, Untouched

\* The server's handlers deal with clients that are connected, or were.
LEMMA HandlerFresh ==
  ASSUME TypeOK, FreshInv, NEW c \in Clients, PacketHandler(c),
         UNCHANGED clientVars
  PROVE  FreshInv'
<1>0. /\ link \in [Clients -> LinkState]
      /\ toServer \in [Clients -> Seq(ToServer)]
      /\ toClient \in [Clients -> Seq(ToClient)]
  BY DEF TypeOK, TransportTypeOK
<1>1. toServer[c] # <<>>
  BY DEF PacketHandler, OnIncomingConnection, OnConnectionLost, OnClientIntro,
         OnClientChatReceived, OnPlayerListRequest, OnPlayerStatsRequest,
         OnPlayerReady, OnPlayerUnready, OnPlayerJobChosen,
         OnPlayerActionTaken, Receive
<1>2. link[c] \notin {"none", "connecting", "refused"}
  BY <1>1 DEF FreshInv, Fresh, Untouched
<1>3. \A k \in Clients : k # c => /\ link'[k] = link[k]
                                  /\ toServer'[k] = toServer[k]
                                  /\ k \in players' => k \in players
  BY <1>0
     DEF PacketHandler, OnIncomingConnection, OnConnectionLost, OnClientIntro,
         OnClientChatReceived, OnPlayerListRequest, OnPlayerStatsRequest,
         OnPlayerReady, OnPlayerUnready, OnPlayerJobChosen,
         OnPlayerActionTaken, Consume, Abort, serverVars
<1>4. link'[c] \notin {"none", "connecting", "refused"}
  BY <1>0, <1>2
     DEF PacketHandler, OnIncomingConnection, OnConnectionLost, OnClientIntro,
         OnClientChatReceived, OnPlayerListRequest, OnPlayerStatsRequest,
         OnPlayerReady, OnPlayerUnready, OnPlayerJobChosen,
         OnPlayerActionTaken
<1>5. \A k \in Clients : link[k] # "open" => toClient'[k] = toClient[k]
  <2>1. \A q : \A m : \A k \in Clients :
          link[k] # "open" => Broadcast(q, m)[k] = q[k]
    BY DEF Broadcast
  <2>2. \A q, n : \A m : \A k \in Clients :
          link[k] # "open" => SendTo(q, n, m)[k] = q[k]
    <3>1. ASSUME NEW q, NEW n, NEW m, NEW k \in Clients, link[k] # "open"
          PROVE  SendTo(q, n, m)[k] = q[k]
      <4>1. CASE link[n] = "open"
        BY <3>1, <4>1 DEF SendTo
      <4>2. CASE link[n] # "open"
        BY <4>2 DEF SendTo
      <4> QED BY <4>1, <4>2
    <3> QED BY <3>1
  <2>3. \A q, n : \A k \in Clients :
          link[k] # "open" => GiveTurn(q, n)[k] = q[k]
    BY <2>2 DEF GiveTurn
  <2>4. \A gs, p, q :
          NextTurn(gs, p, q) =>
            \E m, n : toClient' \in {q, Broadcast(q, m), GiveTurn(q, n)}
    BY DEF NextTurn, GameOver
  <2>5. CASE OnPlayerReady(c)
    BY <2>1, <2>3, <2>5 DEF OnPlayerReady, StartGame, Abort
  <2>6. CASE OnPlayerJobChosen(c)
    BY <2>1, <2>3, <2>4, <2>6 DEF OnPlayerJobChosen, StartMainGame, Abort
  <2>7. CASE OnPlayerActionTaken(c)
    BY <2>1, <2>3, <2>4, <2>7 DEF OnPlayerActionTaken, Abort
  <2> QED
    BY <2>1, <2>2, <2>5, <2>6, <2>7
       DEF PacketHandler, OnIncomingConnection, OnConnectionLost,
           OnClientIntro, OnClientChatReceived, OnPlayerListRequest,
           OnPlayerStatsRequest, OnPlayerUnready, Abort
<1>6. ASSUME NEW k \in Clients
      PROVE  Fresh(k)'
  <2>1. CASE k = c
    BY <1>2, <1>4, <2>1 DEF Fresh, FreshInv, clientVars
  <2>2. CASE k # c
    BY <1>3, <1>5, <2>2 DEF Fresh, FreshInv, Untouched, clientVars
  <2> QED BY <2>1, <2>2
<1> QED BY <1>6 DEF FreshInv

\* Before it is connected a client does nothing but connect.
LEMMA ClientFresh ==
  ASSUME TypeOK, FreshInv, NEW c \in Clients, UNCHANGED serverVars,
         \/ Connect(c) \/ SetPending(c) \/ ClientPackets(c)
         \/ InputHandler(c)
  PROVE  FreshInv'
<1>0. /\ link \in [Clients -> LinkState]
      /\ toServer \in [Clients -> Seq(ToServer)]
      /\ toClient \in [Clients -> Seq(ToClient)]
      /\ cNetworkState \in [Clients -> NetworkState]
      /\ myTurn \in [Clients -> BOOLEAN]
      /\ cPacket \in [Clients -> {"idle", "introducing"}]
      /\ cMain \in [Clients -> {"create", "connecting", "done"}]
      /\ view \in [Clients -> SUBSET Entry]
  BY DEF TypeOK, TransportTypeOK, ClientTypeOK
<1>1. CASE Connect(c)
  BY <1>0, <1>1 DEF Connect, FreshInv, Fresh, Untouched, serverVars
<1>2. CASE SetPending(c)
  BY <1>0, <1>2 DEF SetPending, FreshInv, Fresh, Untouched, serverVars, transportVars
<1>3. CASE ClientPackets(c) \/ InputHandler(c)
  <2>1. link[c] \notin {"none", "connecting", "refused"}
    <3>1. CASE ClientPackets(c)
      BY <3>1
         DEF FreshInv, Fresh, Untouched, ClientPackets, OnConnectionAccepted,
             SendIntro, OnGameStart, OnTakeTurn, OnGameStateUpdate,
             OnPlayersHealthUpdated, ShowReply, Take
    <3>2. CASE InputHandler(c)
      BY <3>2
         DEF FreshInv, Fresh, Untouched, InputHandler, Ready, Unready, Chat,
             Ask, ChooseJob, TakeAction, WasteTurn, Typing
    <3> QED BY <1>3, <3>1, <3>2
  <2>2. UNCHANGED <<link, cMain>>
    BY <1>3
       DEF ClientPackets, OnConnectionAccepted, SendIntro, OnGameStart,
           OnTakeTurn, OnGameStateUpdate, OnPlayersHealthUpdated, ShowReply,
           InputHandler, Ready, Unready, Chat, Ask, ChooseJob, TakeAction,
           WasteTurn, clientVars, transportVars
  <2>3. \A k \in Clients : k # c =>
          /\ toServer'[k] = toServer[k]
          /\ toClient'[k] = toClient[k]
          /\ myTurn'[k] = myTurn[k]
          /\ view'[k] = view[k]
          /\ cPacket'[k] = cPacket[k]
          /\ cNetworkState'[k] = cNetworkState[k]
    <3>1. CASE ClientPackets(c)
      BY <1>0, <3>1
         DEF ClientPackets, OnConnectionAccepted, SendIntro, OnGameStart,
             OnTakeTurn, OnGameStateUpdate, OnPlayersHealthUpdated, ShowReply,
             Take, Post, clientVars
    <3>2. CASE InputHandler(c)
      BY <1>0, <3>2
         DEF InputHandler, Ready, Unready, Chat, Ask, ChooseJob, TakeAction,
             WasteTurn, EndTurn, Post, transportVars
    <3> QED BY <1>3, <3>1, <3>2
  <2> QED
    BY <2>1, <2>2, <2>3 DEF FreshInv, Fresh, Untouched, serverVars
<1> QED BY <1>1, <1>2, <1>3

\* A connection that opens is the first thing that happens to a client.
LEMMA EnvironmentFresh ==
  ASSUME TypeOK, FreshInv, NEW c \in Clients, Environment(c)
  PROVE  FreshInv'
<1>0. /\ link \in [Clients -> LinkState]
      /\ toServer \in [Clients -> Seq(ToServer)]
      /\ toClient \in [Clients -> Seq(ToClient)]
      /\ UNCHANGED <<serverVars, clientVars>>
  BY DEF TypeOK, TransportTypeOK, Environment
<1>1. \A k \in Clients : k # c => /\ link'[k] = link[k]
                                  /\ toServer'[k] = toServer[k]
                                  /\ toClient'[k] = toClient[k]
  BY <1>0 DEF Environment, Accept, Refuse, Vanish, TimeOut
<1>2. \/ link'[c] \in {"open", "dead", "gone"} /\ link[c] # "none"
      \/ link[c] = "connecting" /\ link'[c] = "refused"
           /\ UNCHANGED <<toServer, toClient>>
  BY <1>0 DEF Environment, Accept, Refuse, Vanish, TimeOut
<1> QED
  BY <1>0, <1>1, <1>2
     DEF FreshInv, Fresh, Untouched, serverVars, clientVars

\* No step gives a client that is not connected yet, or not accepted, anything to
\* send or to read: freshness is kept.
LEMMA FreshStep == TypeOK /\ FreshInv /\ [Next]_vars => FreshInv'
<1> SUFFICES ASSUME TypeOK, FreshInv, [Next]_vars
             PROVE  FreshInv'
  OBVIOUS
<1>1. CASE UNCHANGED vars
  BY <1>1
     DEF vars, serverVars, clientVars, transportVars, FreshInv, Fresh,
         Untouched
<1>2. CASE GameLoop /\ UNCHANGED clientVars
  BY <1>2
     DEF GameLoop, clientVars, transportVars, FreshInv, Fresh, Untouched
<1> QED
  BY <1>1, <1>2, HandlerFresh, ClientFresh, EnvironmentFresh DEF Next

-------------------------------------------------------------------------------
(* What a client has been told and will be.                                *)

States == {"S_GAME_STARTED", "S_UPDATE_GAME_STATE"}

At(q, R) == {i \in DOMAIN q : q[i].id \in R}

Says(m) == IF m.id = "S_GAME_STARTED" THEN "GS_CHARACTER_SELECT" ELSE m.state

\* A client in state cg that takes all of q comes to be in state gs.
LeadsTo(q, cg, gs) ==
  /\ At(q, States) = {} => cg = gs
  /\ \A i \in At(q, States) :
       (\A j \in At(q, States) : j <= i) => Says(q[i]) = gs

\* After a turn that is given nothing moves the game.
TurnLast(q) == \A i \in At(q, {"S_TAKE_TURN"}) : \A j \in At(q, Moves) : j < i

\* Steps that move the messages of the game in a queue, and no more.
LEMMA LeadsOn ==
  ASSUME NEW r \in Seq(ToClient), NEW q \in Seq(ToClient), NEW d \in Nat,
         Carried(r, q, d, Signals)
  PROVE  /\ \A R \in SUBSET Signals :
              \A i \in At(r, R) : i + d \in At(q, R) /\ q[i + d] = r[i]
         /\ TurnLast(q) => TurnLast(r)
         /\ \A cg, gs :
              Kept(r, q, d, Signals) /\ LeadsTo(q, cg, gs) => LeadsTo(r, cg, gs)
<1>0. /\ DOMAIN r \subseteq Nat /\ DOMAIN q \subseteq Nat
      /\ States \in SUBSET Signals /\ Moves \in SUBSET Signals
      /\ {"S_TAKE_TURN"} \in SUBSET Signals
  BY LenProperties DEF States, Signals, Moves, Updates
<1>1. ASSUME NEW R \in SUBSET Signals, NEW i \in At(r, R)
      PROVE  i + d \in At(q, R) /\ q[i + d] = r[i] /\ i \in Nat
  BY <1>0, <1>1 DEF At, Carried
<1>2. ASSUME TurnLast(q)
      PROVE  TurnLast(r)
  <2>1. ASSUME NEW i \in At(r, {"S_TAKE_TURN"}), NEW j \in At(r, Moves)
        PROVE  j < i
    <3>1. /\ i + d \in At(q, {"S_TAKE_TURN"}) /\ j + d \in At(q, Moves)
          /\ i \in Nat /\ j \in Nat
      BY <1>0, <1>1, <2>1
    <3>2. j + d < i + d
      BY <1>2, <3>1 DEF TurnLast
    <3> QED BY <3>1, <3>2
  <2> QED BY <2>1 DEF TurnLast
<1>3. ASSUME NEW cg, NEW gs, Kept(r, q, d, Signals), LeadsTo(q, cg, gs)
      PROVE  LeadsTo(r, cg, gs)
  <2>1. ASSUME NEW i \in At(q, States)
        PROVE  i - d \in At(r, States) /\ r[i - d] = q[i] /\ i \in Nat
    BY <1>0, <1>3, <2>1 DEF At, Kept
  <2>2. At(r, States) = {} => At(q, States) = {}
    BY <2>1
  <2>3. ASSUME NEW i \in At(r, States), \A j \in At(r, States) : j <= i
        PROVE  Says(r[i]) = gs
    <3>1. i + d \in At(q, States) /\ q[i + d] = r[i] /\ i \in Nat
      BY <1>0, <1>1
    <3>2. ASSUME NEW j \in At(q, States)
          PROVE  j <= i + d
      <4>1. j - d <= i /\ j \in Nat /\ j - d \in Int
        BY <2>1, <2>3
      <4> QED BY <3>1, <4>1
    <3> QED BY <1>3, <3>1, <3>2 DEF LeadsTo
  <2> QED BY <1>3, <2>2, <2>3 DEF LeadsTo
<1> QED BY <1>1, <1>2, <1>3

\* A message of the server goes to the end of a queue.
LEMMA LeadsFurther ==
  ASSUME NEW q \in Seq(ToClient), NEW m \in ToClient
  PROVE  LET r == Append(q, m)
         IN  /\ m.id \in States => \A cg : LeadsTo(r, cg, Says(m))
             /\ m.id \notin States =>
                  \A cg, gs : LeadsTo(q, cg, gs) => LeadsTo(r, cg, gs)
             /\ m.id \in Moves /\ At(q, {"S_TAKE_TURN"}) = {} => TurnLast(r)
<1> DEFINE r == Append(q, m)
           n == Len(q) + 1
<1>1. /\ Len(q) \in Nat /\ DOMAIN q = 1..Len(q)
      /\ DOMAIN r = 1..n
      /\ \A i \in 1..Len(q) : r[i] = q[i]
      /\ r[n] = m
      /\ r \in Seq(ToClient)
  BY AppendProperties, LenProperties
<1> HIDE DEF r
<1>2. ASSUME m.id \in States, NEW cg
      PROVE  LeadsTo(r, cg, Says(m))
  <2>1. n \in At(r, States) /\ n \in Nat
    BY <1>1, <1>2 DEF At
  <2>2. ASSUME NEW i \in At(r, States), \A j \in At(r, States) : j <= i
        PROVE  i = n
    <3>1. i \in 1..n /\ n <= i
      BY <1>1, <2>1, <2>2 DEF At
    <3> QED BY <1>1, <3>1
  <2> QED BY <1>1, <2>1, <2>2 DEF LeadsTo
<1>3. ASSUME m.id \notin States
      PROVE  At(r, States) = At(q, States)
  <2>1. \A i \in DOMAIN q : i \in DOMAIN r /\ r[i] = q[i]
    BY <1>1
  <2>2. \A i \in DOMAIN r : i \in DOMAIN q \/ i = n
    BY <1>1
  <2> QED BY <1>1, <1>3, <2>1, <2>2 DEF At
<1>4. \A i \in At(q, States) : r[i] = q[i]
  BY <1>1 DEF At
<1>5. ASSUME m.id \in Moves, At(q, {"S_TAKE_TURN"}) = {}
      PROVE  At(r, {"S_TAKE_TURN"}) = {}
  BY <1>1, <1>5 DEF At, Moves, Updates
<1> QED BY <1>2, <1>3, <1>4, <1>5 DEF r, LeadsTo, TurnLast

\* A client takes the message at the head of its queue.
LEMMA LeadsNext ==
  ASSUME NEW q \in Seq(ToClient), q # <<>>
  PROVE  LET m == Head(q)
             r == Tail(q)
         IN  /\ \A R : At(q, R) = {} => At(r, R) = {}
             /\ TurnLast(q) => /\ TurnLast(r)
                               /\ m.id = "S_TAKE_TURN" => At(r, Moves) = {}
             /\ \A cg, gs : LeadsTo(q, cg, gs) =>
                  LeadsTo(r, IF m.id \in States THEN Says(m) ELSE cg, gs)
<1> DEFINE m == Head(q)
           r == Tail(q)
<1>1. /\ Len(q) \in Nat /\ DOMAIN q = 1..Len(q) /\ Len(q) >= 1
      /\ DOMAIN r = 1..(Len(q) - 1)
      /\ \A i \in 1..(Len(q) - 1) : r[i] = q[i + 1]
      /\ m = q[1]
      /\ r \in Seq(ToClient)
  BY LenProperties, HeadTailProperties
<1> HIDE DEF r, m
<1>2. \A R : \A i \in At(r, R) :
        i + 1 \in At(q, R) /\ q[i + 1] = r[i] /\ i \in Nat \ {0}
  BY <1>1 DEF At
<1>3. \A R : \A i \in At(q, R) :
        /\ i \in Nat
        /\ i = 1 \/ (i - 1 \in At(r, R) /\ r[i - 1] = q[i])
  <2>1. ASSUME NEW R, NEW i \in At(q, R), i # 1
        PROVE  i - 1 \in At(r, R) /\ r[i - 1] = q[i]
    <3>1. i - 1 \in 1..(Len(q) - 1) /\ (i - 1) + 1 = i
      BY <1>1, <2>1 DEF At
    <3> QED BY <1>1, <2>1, <3>1 DEF At
  <2> QED BY <1>1, <2>1 DEF At
<1>4. \A R : 1 \in At(q, R) <=> m.id \in R
  BY <1>1 DEF At
<1>5. ASSUME TurnLast(q)
      PROVE  /\ TurnLast(r)
             /\ m.id = "S_TAKE_TURN" => At(r, Moves) = {}
  <2>1. ASSUME NEW i \in At(r, {"S_TAKE_TURN"}), NEW j \in At(r, Moves)
        PROVE  j < i
    <3>1. /\ i + 1 \in At(q, {"S_TAKE_TURN"}) /\ j + 1 \in At(q, Moves)
          /\ i \in Nat /\ j \in Nat
      BY <1>2, <2>1
    <3>2. j + 1 < i + 1
      BY <1>5, <3>1 DEF TurnLast
    <3> QED BY <3>1, <3>2
  <2>2. ASSUME m.id = "S_TAKE_TURN", NEW j \in At(r, Moves)
        PROVE  FALSE
    <3>1. 1 \in At(q, {"S_TAKE_TURN"}) /\ j + 1 \in At(q, Moves) /\ j \in Nat
      BY <1>2, <1>4, <2>2
    <3>2. j + 1 < 1
      BY <1>5, <3>1 DEF TurnLast
    <3> QED BY <3>1, <3>2
  <2> QED BY <2>1, <2>2 DEF TurnLast
<1>6. ASSUME NEW cg, NEW gs, LeadsTo(q, cg, gs)
      PROVE  LeadsTo(r, IF m.id \in States THEN Says(m) ELSE cg, gs)
  <2>1. ASSUME NEW i \in At(r, States), \A j \in At(r, States) : j <= i
        PROVE  Says(r[i]) = gs
    <3>1. i + 1 \in At(q, States) /\ q[i + 1] = r[i] /\ i \in Nat
      BY <1>2, <2>1
    <3>2. ASSUME NEW j \in At(q, States)
          PROVE  j <= i + 1
      <4>1. j \in Nat /\ (j = 1 \/ j - 1 <= i)
        BY <1>3, <2>1, <3>2
      <4> QED BY <3>1, <4>1
    <3> QED BY <1>6, <3>1, <3>2 DEF LeadsTo
  <2>2. ASSUME At(r, States) = {}
        PROVE  (IF m.id \in States THEN Says(m) ELSE cg) = gs
    <3>1. CASE m.id \in States
      <4>1. 1 \in At(q, States) /\ \A j \in At(q, States) : j = 1
        BY <1>3, <1>4, <2>2, <3>1
      <4>2. \A j \in At(q, States) : j <= 1
        BY <4>1
      <4> QED BY <1>1, <1>6, <3>1, <4>1, <4>2 DEF LeadsTo
    <3>2. CASE m.id \notin States
      <4>1. At(q, States) = {}
        BY <1>3, <1>4, <2>2, <3>2
      <4> QED BY <1>6, <3>2, <4>1 DEF LeadsTo
    <3> QED BY <3>1, <3>2
  <2> QED BY <2>1, <2>2 DEF LeadsTo
<1>7. ASSUME NEW R, At(q, R) = {}
      PROVE  At(r, R) = {}
  BY <1>2, <1>7
<1> QED BY <1>5, <1>6, <1>7 DEF m, r

-------------------------------------------------------------------------------
(* The invariant.                                                          *)

\* Where client c's turn, its requests and its game state stand.
Settled(c) ==
  /\ TurnLast(toClient[c])
  /\ myTurn[c] => At(toClient[c], Moves) = {}

Fits(c) ==
  \A i \in UsedAt(c) :
    /\ toServer[c][i].id = "C_JOB_CHOSEN" => gameState = "GS_CHARACTER_SELECT"
    /\ toServer[c][i].id = "C_ACTION_TAKEN" => gameState = "GS_MAIN"

Plays(c) ==
  \/ cNetworkState[c] = "NS_GAME_STARTED"
  \/ At(toClient[c], {"S_GAME_STARTED"}) # {}

Follows(c) ==
  Open(c) /\ Plays(c) => LeadsTo(toClient[c], cGameState[c], gameState)

\* The server before the game, and in a game that was started once.
Waiting ==
  /\ gameState = "GS_PENDING"
  /\ serverStatus # "spinning"
  /\ players = Living

InPhase ==
  /\ gameState \in {"GS_CHARACTER_SELECT", "GS_MAIN", "GS_GAME_OVER"}
  /\ serverStatus # "spinning"
  /\ currentPlayerTurn \in Living
  /\ gameState = "GS_CHARACTER_SELECT" => players = Living
  /\ gameState = "GS_MAIN" => \E k \in Living : k # currentPlayerTurn

Playing ==
  /\ InPhase
  /\ \A t \in TurnTokens : t[1] = currentPlayerTurn
  /\ gameState = "GS_GAME_OVER" => TurnTokens = {}
  /\ \A c \in Clients : Settled(c) /\ Fits(c) /\ Follows(c)

PhaseInv == (starts = 0 => Waiting) /\ (starts = 1 => Playing)

\* No game has been started in the first state, and nobody is in one.
LEMMA PhaseInit == Init => PhaseInv
BY DEF Init, ServerInit, PhaseInv, Waiting, Living

\* A quiet step moves nobody: who joins is alive.
LEMMA QuietServer ==
  ASSUME TypeOK, TypeOK', QuietStep
  PROVE  /\ UNCHANGED <<gameState, currentPlayerTurn, starts>>
         /\ Waiting => Waiting'
         /\ InPhase => InPhase'
<1>0. /\ UNCHANGED <<gameState, currentPlayerTurn, starts>>
      /\ serverStatus' \in {serverStatus, "aborted"}
      /\ players \subseteq players'
      /\ \A k \in Clients :
           IF k \in players' \ players THEN player'[k] = NewPlayer
                                       ELSE SameFate(player'[k], player[k])
      /\ players' \in SUBSET Clients
  BY DEF QuietStep, Quiet, TypeOK, ServerTypeOK
<1>1. ASSUME NEW k \in players'
      PROVE  k \in Living' <=> (k \in Living \/ k \notin players)
  BY <1>0 DEF Living, SameFate, NewPlayer
<1>2. Living \subseteq Living' /\ Living' \subseteq players'
  BY <1>0, <1>1 DEF Living
<1>3. players = Living => players' = Living'
  BY <1>0, <1>1, <1>2
<1> QED BY <1>0, <1>2, <1>3 DEF Waiting, InPhase

\* A step that changes neither the turn nor the phase, and carries the packets
\* that do in their order, keeps PhaseInv.
LEMMA QuietPhase ==
  ASSUME TypeOK, TypeOK', FreshInv, PhaseInv, QuietStep
  PROVE  PhaseInv'
<1>1. /\ UNCHANGED <<gameState, currentPlayerTurn, starts>>
      /\ Waiting => Waiting'
      /\ InPhase => InPhase'
  BY QuietServer
<1>2. PICK ds \in [Clients -> Nat], dc \in [Clients -> Nat] : Quiet(ds, dc)
  BY DEF QuietStep
<1>3. ASSUME Playing
      PROVE  Playing'
  <2>1. /\ \A t \in TurnTokens' : t[1] = currentPlayerTurn'
        /\ gameState' = "GS_GAME_OVER" => TurnTokens' = {}
    <3>1. PICK f : /\ \A t \in TurnTokens : f[t][1] = t[1]
                   /\ TurnTokens' \subseteq {f[t] : t \in TurnTokens}
      BY QuietTokens DEF TokenStep
    <3> QED BY <1>1, <1>3, <3>1 DEF Playing
  <2>2. ASSUME NEW c \in Clients
        PROVE  Settled(c)' /\ Fits(c)' /\ Follows(c)'
    <3> DEFINE q == toClient[c]
               r == toClient'[c]
               d == dc[c]
    <3>0. /\ q \in Seq(ToClient) /\ r \in Seq(ToClient) /\ d \in Nat
          /\ Carried(r, q, d, Signals)
          /\ link'[c] = "open" => Kept(r, q, d, Signals)
      BY <1>2 DEF TypeOK, TransportTypeOK, Quiet, SignalsCarried, SignalsKept
    <3>1. /\ TurnLast(q) => TurnLast(r)
          /\ \A R \in SUBSET Signals : At(q, R) = {} => At(r, R) = {}
          /\ Kept(r, q, d, Signals) =>
               \A cg, gs : LeadsTo(q, cg, gs) => LeadsTo(r, cg, gs)
      <4> HIDE DEF q, r, d
      <4> QED BY <3>0, LeadsOn
    <3>2. /\ Moves \in SUBSET Signals
          /\ {"S_GAME_STARTED"} \in SUBSET Signals
      BY DEF Signals, Moves, Updates
    <3>3. Settled(c)'
      <4>1. myTurn'[c] => myTurn[c]
        BY <1>2 DEF Quiet
      <4> QED BY <1>3, <3>1, <3>2, <4>1 DEF Playing, Settled
    <3>4. Fits(c)'
      <4>1. Carried(toServer'[c], toServer[c], ds[c], TurnRequests)
        BY <1>2 DEF Quiet, RequestsCarried
      <4>2. \A i \in UsedAt(c)' : /\ i + ds[c] \in UsedAt(c)
                                  /\ toServer[c][i + ds[c]] = toServer'[c][i]
        BY <4>1 DEF Carried, UsedAt
      <4> QED BY <1>1, <1>3, <4>2 DEF Playing, Fits
    <3>5. Follows(c)'
      <4>1. /\ link'[c] = "open" => link[c] \in {"open", "connecting"}
            /\ cNetworkState'[c] = "NS_GAME_STARTED"
                 => cNetworkState[c] = "NS_GAME_STARTED"
            /\ UNCHANGED cGameState
        BY <1>2 DEF Quiet
      <4>2. Plays(c)' => Plays(c)
        BY <3>1, <3>2, <4>1 DEF Plays
      <4>3. link[c] = "connecting" => ~Plays(c)
        BY DEF FreshInv, Fresh, Untouched, Plays, At
      <4> QED
        BY <1>1, <1>3, <3>0, <3>1, <4>1, <4>2, <4>3 DEF Playing, Follows, Open
    <3> QED BY <3>3, <3>4, <3>5
  <2> QED BY <1>1, <1>3, <2>1, <2>2 DEF Playing
<1> QED BY <1>1, <1>3 DEF PhaseInv

\* What the clients do to the server's part of it.
LEMMA ServerKeepsPhase ==
  ASSUME UNCHANGED serverVars
  PROVE  /\ UNCHANGED <<gameState, currentPlayerTurn, starts>>
         /\ Waiting => Waiting'
         /\ InPhase => InPhase'
BY DEF serverVars, Waiting, InPhase, Living

\* A client that learns of a change comes to be in the state it was to be in.
LEMMA LearnsPhase ==
  ASSUME TypeOK, TypeOK', PhaseInv, NEW c \in Clients, Learns(c)
  PROVE  PhaseInv'
<1>0. /\ toClient \in [Clients -> Seq(ToClient)]
      /\ myTurn \in [Clients -> BOOLEAN]
      /\ cNetworkState \in [Clients -> NetworkState]
      /\ cGameState \in [Clients -> GameState]
  BY DEF TypeOK, TransportTypeOK, ClientTypeOK
<1> DEFINE q == toClient[c]
           m == Head(q)
<1>1. /\ UNCHANGED <<gameState, currentPlayerTurn, starts>>
      /\ Waiting => Waiting'
      /\ InPhase => InPhase'
  BY ServerKeepsPhase DEF Learns
<1>2. /\ q \in Seq(ToClient) /\ q # <<>>
      /\ toClient' = [toClient EXCEPT ![c] = Tail(q)]
      /\ m.id \in Moves
      /\ UNCHANGED <<link, toServer, myTurn>>
  BY <1>0
     DEF Learns, OnGameStart, OnGameStateUpdate, OnPlayersHealthUpdated, Take,
         Moves, Updates
<1>3. /\ \A k \in Clients : k # c => /\ cGameState'[k] = cGameState[k]
                                     /\ cNetworkState'[k] = cNetworkState[k]
      /\ cGameState'[c] = (IF m.id \in States THEN Says(m) ELSE cGameState[c])
      /\ cNetworkState'[c] =
           IF m.id = "S_GAME_STARTED" THEN "NS_GAME_STARTED" ELSE cNetworkState[c]
  BY <1>0
     DEF Learns, OnGameStart, OnGameStateUpdate, OnPlayersHealthUpdated, Take,
         States, Says
<1>4. ASSUME Playing
      PROVE  Playing'
  <2>1. /\ \A t \in TurnTokens' : t[1] = currentPlayerTurn'
        /\ gameState' = "GS_GAME_OVER" => TurnTokens' = {}
    <3>1. PICK f : /\ \A t \in TurnTokens : f[t][1] = t[1]
                   /\ TurnTokens' \subseteq {f[t] : t \in TurnTokens}
      BY LearnsTokens DEF TokenStep
    <3> QED BY <1>1, <1>4, <3>1 DEF Playing
  <2>2. \A k \in Clients : Fits(k)'
    BY <1>1, <1>2, <1>4 DEF Playing, Fits, UsedAt
  <2>3. ASSUME NEW k \in Clients, k # c
        PROVE  Settled(k)' /\ Follows(k)'
    <3>1. toClient'[k] = toClient[k]
      BY <1>0, <1>2, <2>3
    <3> QED
      BY <1>1, <1>2, <1>3, <1>4, <2>3, <3>1
         DEF Playing, Settled, Follows, Open, Plays
  <2>4. Settled(c)' /\ Follows(c)'
    <3>1. toClient'[c] = Tail(q)
      BY <1>0, <1>2
    <3>2. /\ \A R : At(q, R) = {} => At(Tail(q), R) = {}
          /\ TurnLast(q) => TurnLast(Tail(q))
          /\ \A gs : LeadsTo(q, cGameState[c], gs) =>
                       LeadsTo(Tail(q), cGameState'[c], gs)
      <4> HIDE DEF q
      <4> QED BY <1>2, <1>3, LeadsNext
    <3>3. Plays(c)' => Plays(c)
      <4>1. m.id = "S_GAME_STARTED" => At(q, {"S_GAME_STARTED"}) # {}
        BY <1>2, LenProperties, EmptySeq DEF At
      <4> QED BY <1>3, <3>1, <3>2, <4>1 DEF Plays
    <3> HIDE DEF q, m
    <3> QED
      BY <1>1, <1>2, <1>4, <3>1, <3>2, <3>3
         DEF Playing, Settled, Follows, Open, q
  <2> QED BY <1>1, <1>4, <2>1, <2>2, <2>3, <2>4 DEF Playing
<1> QED BY <1>1, <1>4 DEF PhaseInv

\* With no turn out nobody can take or use one, and no request can arrive.
LEMMA NobodyMoves ==
  ASSUME TypeOK, TypeOK', TokensInv, starts = 0
  PROVE  /\ TurnTokens = {}
         /\ \A c \in Clients : ~ \/ TakesTurn(c) \/ UsesTurn(c)
                                 \/ ChoiceArrives(c) \/ ActionArrives(c)
<1>1. TurnTokens = {}
  <2>1. Cardinality(TurnTokens) \in Nat
    BY FS_CardinalityType DEF TokensInv
  <2>2. Cardinality(TurnTokens) = 0
    BY <2>1 DEF TokensInv
  <2> QED BY <2>2, FS_EmptySet DEF TokensInv
<1> QED BY <1>1, TakesTurnTokens, UsesTurnTokens, PassedTokens

\* In a game that was started once the turn that goes was the only one, and
\* there is no other than the one that comes.
LEMMA OneTurn ==
  ASSUME TypeOK, TokensInv, starts = 1,
         NEW u \in TurnTokens, NEW N, TokenStep({u}, N)
  PROVE  TurnTokens' \subseteq N /\ TurnTokens = {u}
BY OnlyNew DEF TokensInv

\* A client that reads S_TAKE_TURN holds the turn it was given (RRPG.cpp:322).
LEMMA TakesTurnPhase ==
  ASSUME TypeOK, TypeOK', TokensInv, PhaseInv, NEW c \in Clients, TakesTurn(c)
  PROVE  PhaseInv'
<1>0. /\ toClient \in [Clients -> Seq(ToClient)]
      /\ myTurn \in [Clients -> BOOLEAN]
  BY DEF TypeOK, TransportTypeOK, ClientTypeOK
<1> DEFINE q == toClient[c]
<1>1. /\ UNCHANGED <<gameState, currentPlayerTurn, starts>>
      /\ InPhase => InPhase'
  BY ServerKeepsPhase DEF TakesTurn
<1>2. /\ q \in Seq(ToClient) /\ q # <<>>
      /\ Head(q).id = "S_TAKE_TURN"
      /\ toClient' = [toClient EXCEPT ![c] = Tail(q)]
      /\ myTurn' = [myTurn EXCEPT ![c] = TRUE]
      /\ UNCHANGED <<link, toServer, cNetworkState, cGameState>>
  BY <1>0 DEF TakesTurn, OnTakeTurn, Take
<1>3. starts # 0
  BY NobodyMoves
<1>4. ASSUME starts = 1, Playing
      PROVE  Playing'
  <2>1. TurnTokens' \subseteq {Held(c)} /\ TurnTokens = {Given(c, 1)}
    BY <1>4, OneTurn, TakesTurnTokens
  <2>2. /\ c = currentPlayerTurn
        /\ gameState # "GS_GAME_OVER"
    BY <1>4, <2>1 DEF Playing, Given
  <2>3. /\ \A t \in TurnTokens' : t[1] = currentPlayerTurn'
        /\ gameState' = "GS_GAME_OVER" => TurnTokens' = {}
    BY <1>1, <2>1, <2>2 DEF Held
  <2>4. \A k \in Clients : Fits(k)'
    BY <1>1, <1>2, <1>4 DEF Playing, Fits, UsedAt
  <2>5. ASSUME NEW k \in Clients, k # c
        PROVE  Settled(k)' /\ Follows(k)'
    <3>1. toClient'[k] = toClient[k] /\ myTurn'[k] = myTurn[k]
      BY <1>0, <1>2, <2>5
    <3> QED
      BY <1>1, <1>2, <1>4, <3>1 DEF Playing, Settled, Follows, Open, Plays
  <2>6. Settled(c)' /\ Follows(c)'
    <3>1. toClient'[c] = Tail(q)
      BY <1>0, <1>2
    <3>2. /\ \A R : At(q, R) = {} => At(Tail(q), R) = {}
          /\ TurnLast(q) => TurnLast(Tail(q)) /\ At(Tail(q), Moves) = {}
          /\ \A gs : LeadsTo(q, cGameState[c], gs) =>
                       LeadsTo(Tail(q), cGameState[c], gs)
      <4>1. Head(q).id \notin States
        BY <1>2 DEF States
      <4> HIDE DEF q
      <4> QED BY <1>2, <4>1, LeadsNext
    <3> HIDE DEF q
    <3> QED
      BY <1>1, <1>2, <1>4, <3>1, <3>2
         DEF Playing, Settled, Follows, Open, Plays, q
  <2> QED BY <1>1, <1>4, <2>3, <2>4, <2>5, <2>6 DEF Playing
<1> QED BY <1>1, <1>3, <1>4 DEF PhaseInv

\* The state a player on turn acts in is the one the server is in, so the
\* request fits.
LEMMA UsesTurnPhase ==
  ASSUME TypeOK, TypeOK', TokensInv, PhaseInv, NEW c \in Clients, UsesTurn(c)
  PROVE  PhaseInv'
<1>0. /\ toServer \in [Clients -> Seq(ToServer)]
      /\ myTurn \in [Clients -> BOOLEAN]
  BY DEF TypeOK, TransportTypeOK, ClientTypeOK
<1>1. /\ UNCHANGED <<gameState, currentPlayerTurn, starts>>
      /\ InPhase => InPhase'
  BY ServerKeepsPhase DEF UsesTurn
<1>2. PICK m \in ToServer :
             /\ Post(c, m)
             /\ m.id = (IF cGameState[c] = "GS_MAIN" THEN "C_ACTION_TAKEN"
                                                     ELSE "C_JOB_CHOSEN")
  BY UsesTurnShape
<1>3. /\ cNetworkState[c] = "NS_GAME_STARTED" /\ myTurn[c]
      /\ cGameState[c] \in {"GS_MAIN", "GS_CHARACTER_SELECT"}
      /\ myTurn' = [myTurn EXCEPT ![c] = FALSE]
      /\ UNCHANGED <<cNetworkState, cGameState, link, toClient>>
  BY UsesTurnShape
<1>4. starts # 0
  BY NobodyMoves
<1> DEFINE last == Len(toServer[c]) + 1
<1>5. ASSUME starts = 1, Playing
      PROVE  Playing'
  <2>1. TurnTokens' \subseteq {Used(c, last)} /\ TurnTokens = {Held(c)}
    BY <1>5, OneTurn, UsesTurnTokens
  <2>2. /\ c = currentPlayerTurn
        /\ gameState # "GS_GAME_OVER"
    BY <1>5, <2>1 DEF Playing, Held
  <2>3. /\ \A t \in TurnTokens' : t[1] = currentPlayerTurn'
        /\ gameState' = "GS_GAME_OVER" => TurnTokens' = {}
    <3> HIDE DEF last
    <3> QED BY <1>1, <2>1, <2>2 DEF Used
  <2>4. \A k \in Clients : Settled(k)' /\ Follows(k)'
    BY <1>0, <1>1, <1>3, <1>5 DEF Playing, Settled, Follows, Open, Plays
  <2>5. ASSUME NEW k \in Clients
        PROVE  Fits(k)'
    <3>1. ASSUME NEW i \in UsedAt(k)'
          PROVE  k = c /\ i = last
      <4>1. Used(k, i) \in TurnTokens'
        <5>1. \E c_1 \in Clients : \E j \in UsedAt(c_1)' : Used(k, i) = Used(c_1, j)
          BY <3>1
        <5> QED BY <5>1 DEF TurnTokens, Used
      <4>2. Used(k, i) = Used(c, last)
        BY <2>1, <4>1
      <4> HIDE DEF last
      <4> QED BY <4>2 DEF Used
    <3>2. ASSUME NEW i \in UsedAt(k)'
          PROVE  link[c] = "open" /\ toServer'[c][i] = m
      <4>1. k = c /\ i = last
        BY <3>1
      <4>2. /\ toServer[c] \in Seq(ToServer)
            /\ Len(toServer[c]) \in Nat
            /\ DOMAIN toServer[c] = 1..Len(toServer[c])
            /\ Append(toServer[c], m)[Len(toServer[c]) + 1] = m
        BY <1>0, LenProperties, AppendProperties
      <4>3. last \in DOMAIN toServer'[c]
        BY <4>1 DEF UsedAt
      <4>4. link[c] = "open"
        BY <1>2, <4>2, <4>3 DEF Post
      <4>5. toServer'[c] = Append(toServer[c], m)
        BY <1>0, <1>2, <4>4 DEF Post
      <4> QED BY <4>1, <4>2, <4>4, <4>5
    <3>3. ASSUME link[c] = "open"
          PROVE  cGameState[c] = gameState
      <4>1. LeadsTo(toClient[c], cGameState[c], gameState)
        BY <1>3, <1>5, <3>3 DEF Playing, Follows, Open, Plays
      <4>2. At(toClient[c], States) = {}
        <5>1. At(toClient[c], Moves) = {}
          BY <1>3, <1>5 DEF Playing, Settled
        <5> QED BY <5>1 DEF At, States, Moves, Updates
      <4> QED BY <4>1, <4>2 DEF LeadsTo
    <3> HIDE DEF last
    <3>4. ASSUME NEW i \in UsedAt(k)'
          PROVE  /\ toServer'[k][i].id = "C_JOB_CHOSEN"
                      => gameState = "GS_CHARACTER_SELECT"
                 /\ toServer'[k][i].id = "C_ACTION_TAKEN" => gameState = "GS_MAIN"
      <4>1. k = c /\ toServer'[k][i] = m /\ cGameState[c] = gameState
        BY <3>1, <3>2, <3>3
      <4> QED BY <1>2, <1>3, <4>1
    <3> QED BY <1>1, <3>4 DEF Fits
  <2> QED BY <1>1, <1>5, <2>3, <2>4, <2>5 DEF Playing
<1> QED BY <1>1, <1>4, <1>5 DEF PhaseInv

\* What a message the server sends means to a client that is connected.
LEMMA SentLeads ==
  ASSUME NEW q \in [Clients -> Seq(ToClient)], NEW m \in ToClient,
         NEW n \in Clients, NEW k \in Clients, link[k] = "open",
         NEW r \in {Broadcast(q, m), SendTo(q, n, m)}
  PROVE  /\ m.id \notin States =>
              /\ At(r[k], {"S_GAME_STARTED"}) # {}
                   => At(q[k], {"S_GAME_STARTED"}) # {}
              /\ \A cg, gs : LeadsTo(q[k], cg, gs) => LeadsTo(r[k], cg, gs)
         /\ m.id \in States /\ r = Broadcast(q, m) =>
              \A cg : LeadsTo(r[k], cg, Says(m))
<1>1. /\ r[k] \in {q[k], Append(q[k], m)}
      /\ r = Broadcast(q, m) => r[k] = Append(q[k], m)
  BY DEF Broadcast, SendTo
<1>2. q[k] \in Seq(ToClient)
  OBVIOUS
<1>3. ASSUME m.id \notin States, NEW i \in At(r[k], {"S_GAME_STARTED"})
      PROVE  i \in At(q[k], {"S_GAME_STARTED"})
  <2>1. /\ DOMAIN Append(q[k], m) = 1..(Len(q[k]) + 1)
        /\ \A j \in 1..Len(q[k]) : Append(q[k], m)[j] = q[k][j]
        /\ Append(q[k], m)[Len(q[k]) + 1] = m
        /\ DOMAIN q[k] = 1..Len(q[k]) /\ Len(q[k]) \in Nat
    <3>1. Append(q[k], m) \in Seq(ToClient)
      BY <1>2, AppendProperties
    <3> QED BY <1>2, <3>1, AppendProperties, LenProperties
  <2> QED BY <1>1, <1>3, <2>1 DEF At, States
<1> QED BY <1>1, <1>2, <1>3, LeadsFurther

\* After a turn has gone and the next one, if any, has been given last.
LEMMA HandedOver ==
  ASSUME TypeOK', NEW N, TurnTokens' \subseteq N,
         \/ N = {}
         \/ \E i : /\ N = {Given(currentPlayerTurn', i)}
                  /\ DOMAIN toClient'[currentPlayerTurn'] \subseteq 1..i
  PROVE  /\ \A t \in TurnTokens' : t[1] = currentPlayerTurn'
         /\ \A k \in Clients : Settled(k)' /\ Fits(k)' /\ UsedAt(k)' = {}
<1>1. ASSUME NEW k \in Clients
      PROVE  /\ myTurn'[k] => Held(k) \in TurnTokens'
             /\ \A i \in GivenAt(k)' : Given(k, i) \in TurnTokens'
             /\ \A i \in UsedAt(k)' : Used(k, i) \in TurnTokens'
  <2>1. myTurn'[k] => 0 \in HeldAt(k)'
    BY DEF HeldAt
  <2> QED BY <2>1 DEF TurnTokens, Held, Given, Used
<1>2. \A k, j, i : Held(k) # Given(j, i) /\ Used(k, i) # Given(j, i)
  BY DEF Held, Given, Used
<1>3. \A k, j : \A i, l : Given(k, i) = Given(j, l) => k = j /\ i = l
  BY DEF Given
<1>4. \A k, j, i, l : Used(k, i) # Given(j, l)
  BY DEF Given, Used
<1>5. ASSUME NEW k \in Clients
      PROVE  Settled(k)' /\ Fits(k)' /\ UsedAt(k)' = {}
  <2>1. UsedAt(k)' = {} /\ ~myTurn'[k]
    BY <1>1, <1>2, <1>4
  <2>2. ASSUME NEW i \in GivenAt(k)'
        PROVE  DOMAIN toClient'[k] \subseteq 1..i
    BY <1>1, <1>3
  <2>3. toClient'[k] \in Seq(ToClient)
    BY DEF TypeOK, TransportTypeOK
  <2>4. ASSUME NEW i \in At(toClient'[k], {"S_TAKE_TURN"}),
               NEW j \in At(toClient'[k], Moves)
        PROVE  j < i
    <3>1. i \in GivenAt(k)'
      BY DEF At, GivenAt
    <3>2. i \in Nat /\ j \in 1..i /\ j # i
      BY <2>2, <2>3, <3>1, LenProperties DEF At, Moves, Updates
    <3> QED BY <3>2
  <2> QED BY <2>1, <2>4 DEF Settled, Fits, TurnLast
<1>6. \A t \in TurnTokens' : t[1] = currentPlayerTurn'
  BY DEF Given
<1> QED BY <1>5, <1>6

\* The first start of the game opens the selection.
LEMMA StartsPhase ==
  ASSUME TypeOK, TypeOK', TokensInv, PhaseInv, NEW c \in Clients, Starts(c)
  PROVE  PhaseInv'
<1> DEFINE m     == Plain("S_GAME_STARTED")
           first == Begin(players)
           q     == Broadcast(toClient, m)
<1>0. toClient \in [Clients -> Seq(ToClient)] /\ starts \in Nat
  BY DEF TypeOK, TransportTypeOK, ServerTypeOK
<1>1. /\ UNCHANGED <<link, players, serverStatus, clientVars>>
      /\ starts' = starts + 1
      /\ gameState' = "GS_CHARACTER_SELECT"
      /\ first \in players /\ first \in Clients
      /\ currentPlayerTurn' = first
      /\ \A k \in Clients : SameFate(player'[k], player[k])
      /\ m \in ToClient
      /\ q \in [Clients -> Seq(ToClient)]
      /\ toClient' = GiveTurn(q, first)
  BY StartsShape
<1>2. ASSUME starts = 0
      PROVE  Playing'
  <2>1. Waiting /\ TurnTokens = {}
    BY <1>2, NobodyMoves DEF PhaseInv
  <2>2. players' = Living'
    <3>1. players \in SUBSET Clients
      BY DEF TypeOK, ServerTypeOK
    <3> QED BY <1>1, <2>1, <3>1 DEF Waiting, Living, SameFate
  <2>3. InPhase'
    BY <1>1, <2>1, <2>2 DEF InPhase, Waiting
  <2>4. /\ \A t \in TurnTokens' : t[1] = currentPlayerTurn'
        /\ \A k \in Clients : Settled(k)' /\ Fits(k)'
    <3>1. PICK i : /\ TokenStep({}, {Given(currentPlayerTurn', i)})
                   /\ DOMAIN toClient'[currentPlayerTurn'] \subseteq 1..i
      BY StartsTokens
    <3>2. TurnTokens' \subseteq {Given(currentPlayerTurn', i)}
      BY <2>1, <3>1 DEF TokenStep
    <3> QED BY <3>1, <3>2, HandedOver
  <2>5. ASSUME NEW k \in Clients
        PROVE  Follows(k)'
    <3>1. ASSUME link[k] = "open"
          PROVE  LeadsTo(toClient'[k], cGameState[k], gameState')
      <4>1. m.id \in States /\ Says(m) = "GS_CHARACTER_SELECT"
        BY DEF Plain, States, Says
      <4>2. LeadsTo(q[k], cGameState[k], "GS_CHARACTER_SELECT")
        <5> HIDE DEF m
        <5> QED BY <1>0, <1>1, <3>1, <4>1, SentLeads
      <4>3. /\ Plain("S_TAKE_TURN") \in ToClient
            /\ Plain("S_TAKE_TURN").id \notin States
        BY PlainType DEF Plain, States
      <4> HIDE DEF q, first
      <4> QED BY <1>1, <3>1, <4>2, <4>3, SentLeads DEF GiveTurn
    <3> HIDE DEF q, m, first
    <3> QED BY <1>1, <3>1 DEF Follows, Open, clientVars
  <2> QED BY <1>1, <2>3, <2>4, <2>5 DEF Playing
<1>3. starts # 0 => starts' # 0 /\ starts' # 1
  <2> HIDE DEF q, m, first
  <2> QED BY <1>0, <1>1
<1> QED BY <1>0, <1>1, <1>2, <1>3 DEF PhaseInv

\* NextTurn with q sent: whoever q brings to where the game is stays with it.
LEMMA NextTurnPhase ==
  ASSUME TypeOK, NEW q \in [Clients -> Seq(ToClient)], NEW gs,
         NextTurn(gs, player', q), UNCHANGED players,
         NEW l \in players, ~player'[l].dead
  PROVE  /\ currentPlayerTurn' \in Living'
         /\ gameState' \in {gs, "GS_GAME_OVER"}
         /\ gameState' # "GS_GAME_OVER" => \E k \in Living' : k # currentPlayerTurn'
         /\ UNCHANGED serverStatus
         /\ \A k \in Clients : link[k] = "open" =>
              /\ At(toClient'[k], {"S_GAME_STARTED"}) # {}
                   => At(q[k], {"S_GAME_STARTED"}) # {}
              /\ \A cg : LeadsTo(q[k], cg, gs) =>
                           LeadsTo(toClient'[k], cg, gameState')
<1> DEFINE living == {k \in players : ~player'[k].dead}
           n      == NextAlive(living)
<1>1. living = Living' /\ l \in living
  BY DEF Living
<1>2. \/ /\ n \in living /\ n \in Clients
         /\ currentPlayerTurn' = n /\ gameState' = "GS_GAME_OVER"
         /\ toClient' = Broadcast(q, Over) /\ UNCHANGED serverStatus
      \/ /\ n \in living /\ n \in Clients
         /\ \E k \in living : k # n
         /\ currentPlayerTurn' = n /\ gameState' = gs
         /\ toClient' = GiveTurn(q, n) /\ UNCHANGED serverStatus
  <2> DEFINE p == player'
  <2>1. NextTurn(gs, p, q) /\ l \in players /\ ~p[l].dead
    OBVIOUS
  <2> HIDE DEF p
  <2>2. LET living_1 == {k \in players : ~p[k].dead}
            n_1      == NextAlive(living_1)
         IN  \/ /\ living_1 = {}
                /\ serverStatus' = "spinning" /\ gameState' = gs
                /\ toClient' = q /\ UNCHANGED currentPlayerTurn
             \/ /\ n_1 \in living_1 /\ n_1 \in Clients
                /\ living_1 = {n_1}
                /\ currentPlayerTurn' = n_1 /\ gameState' = "GS_GAME_OVER"
                /\ toClient' = Broadcast(q, Over) /\ UNCHANGED serverStatus
             \/ /\ n_1 \in living_1 /\ n_1 \in Clients
                /\ \E k \in living_1 : k # n_1
                /\ currentPlayerTurn' = n_1 /\ gameState' = gs
                /\ toClient' = GiveTurn(q, n_1) /\ UNCHANGED serverStatus
    BY <2>1, NextTurnEnds
  <2> QED BY <1>1, <2>2 DEF p
<1> HIDE DEF living, n
<1>3. /\ Over \in ToClient /\ Over.id \in States /\ Says(Over) = "GS_GAME_OVER"
      /\ Plain("S_TAKE_TURN") \in ToClient
      /\ Plain("S_TAKE_TURN").id \notin States
  BY PlainType DEF Over, ToClient, States, Says, Plain
<1>4. ASSUME NEW k \in Clients, link[k] = "open"
      PROVE  /\ At(toClient'[k], {"S_GAME_STARTED"}) # {}
                   => At(q[k], {"S_GAME_STARTED"}) # {}
             /\ \A cg : LeadsTo(q[k], cg, gs) =>
                           LeadsTo(toClient'[k], cg, gameState')
  <2>1. CASE n \in Clients /\ toClient' = GiveTurn(q, n) /\ gameState' = gs
    BY <1>3, <1>4, <2>1, SentLeads DEF GiveTurn
  <2>2. CASE toClient' = Broadcast(q, Over) /\ gameState' = "GS_GAME_OVER"
    <3>1. \A cg : LeadsTo(toClient'[k], cg, gameState')
      BY <1>3, <1>4, <2>2, SentLeads
    <3>2. /\ toClient'[k] = Append(q[k], Over)
          /\ q[k] \in Seq(ToClient)
      BY <1>4, <2>2 DEF Broadcast
    <3>3. At(toClient'[k], {"S_GAME_STARTED"}) \subseteq At(q[k], {"S_GAME_STARTED"})
      <4>1. Carried(Append(q[k], Over), q[k], 0, {"S_GAME_STARTED"})
        <5>1. Over.id \notin {"S_GAME_STARTED"}
          BY DEF Over
        <5> QED BY <1>3, <3>2, <5>1, QueueSteps
      <4>2. \A i \in DOMAIN Append(q[k], Over) : i + 0 = i
        <5>1. Append(q[k], Over) \in Seq(ToClient)
          BY <1>3, <3>2, AppendProperties
        <5> QED BY <5>1, LenProperties
      <4> QED BY <3>2, <4>1, <4>2 DEF At, Carried
    <3> QED BY <3>1, <3>3
  <2> QED BY <1>2, <2>1, <2>2
<1> QED BY <1>1, <1>2, <1>4

\* The turn that arrives was the only one.
LEMMA PassedPhase ==
  ASSUME TypeOK, TypeOK', TokensInv, starts = 1, Playing,
         NEW c \in Clients, ChoiceArrives(c) \/ ActionArrives(c)
  PROVE  /\ ChoiceArrives(c) => gameState = "GS_CHARACTER_SELECT"
         /\ ActionArrives(c) => gameState = "GS_MAIN"
         /\ \A t \in TurnTokens' : t[1] = currentPlayerTurn'
         /\ gameState' = "GS_GAME_OVER" => TurnTokens' = {}
         /\ \A k \in Clients : Settled(k)' /\ Fits(k)' /\ UsedAt(k)' = {}
<1>1. Used(c, 1) \in TurnTokens
  BY PassedTokens
<1>2. PICK N : /\ TokenStep({Used(c, 1)}, N)
               /\ \/ N = {}
                  \/ /\ gameState' = "GS_GAME_OVER"
                          => gameState = "GS_GAME_OVER"
                     /\ \E i : /\ N = {Given(currentPlayerTurn', i)}
                              /\ DOMAIN toClient'[currentPlayerTurn']
                                   \subseteq 1..i
  BY PassedTokens
<1>3. TurnTokens' \subseteq N
  BY <1>1, <1>2, OneTurn
<1>4. gameState # "GS_GAME_OVER"
  BY <1>1 DEF Playing
<1>5. /\ toServer[c] \in Seq(ToServer) /\ toServer[c] # <<>>
      /\ ChoiceArrives(c) => Head(toServer[c]).id = "C_JOB_CHOSEN"
      /\ ActionArrives(c) => Head(toServer[c]).id = "C_ACTION_TAKEN"
  BY DEF TypeOK, TransportTypeOK, ChoiceArrives, OnPlayerJobChosen,
         ActionArrives, OnPlayerActionTaken, Receive
<1>6. 1 \in DOMAIN toServer[c] /\ Head(toServer[c]) = toServer[c][1]
  BY <1>5, LenProperties, EmptySeq, HeadTailProperties
<1>7. /\ ChoiceArrives(c) => gameState = "GS_CHARACTER_SELECT"
      /\ ActionArrives(c) => gameState = "GS_MAIN"
  BY <1>5, <1>6 DEF Playing, Fits, UsedAt, TurnRequests
<1>8. /\ \A t \in TurnTokens' : t[1] = currentPlayerTurn'
      /\ \A k \in Clients : Settled(k)' /\ Fits(k)' /\ UsedAt(k)' = {}
  BY <1>2, <1>3, HandedOver
<1> QED BY <1>2, <1>3, <1>4, <1>7, <1>8

\* The choice of a character, which hands the turn on or opens the main game
\* (server.cpp:282-313), keeps PhaseInv.
LEMMA ChoicePhase ==
  ASSUME TypeOK, TypeOK', TokensInv, PhaseInv, NEW c \in Clients,
         ChoiceArrives(c)
  PROVE  PhaseInv'
<1> DEFINE m     == Main(player')
           q     == Broadcast(toClient, m)
           later == Above(players, currentPlayerTurn)
           n     == Begin(later)
<1>0. toClient \in [Clients -> Seq(ToClient)] /\ players \in SUBSET Clients
  BY DEF TypeOK, TransportTypeOK, ServerTypeOK
<1>1. /\ UNCHANGED <<link, players, starts, clientVars>>
      /\ \A k \in Clients : player'[k].dead = player[k].dead
      /\ m \in ToClient /\ q \in [Clients -> Seq(ToClient)]
      /\ \/ /\ n \in players /\ n \in Clients
            /\ currentPlayerTurn' = n
            /\ toClient' = GiveTurn(toClient, n)
            /\ UNCHANGED <<gameState, serverStatus>>
         \/ NextTurn("GS_MAIN", player', q)
  BY ChoiceShape
<1>2. starts # 0
  BY NobodyMoves
<1>3. ASSUME starts = 1, Playing
      PROVE  Playing'
  <2>1. /\ gameState = "GS_CHARACTER_SELECT"
        /\ \A t \in TurnTokens' : t[1] = currentPlayerTurn'
        /\ gameState' = "GS_GAME_OVER" => TurnTokens' = {}
        /\ \A k \in Clients : Settled(k)' /\ Fits(k)'
    BY <1>3, PassedPhase
  <2>2. /\ players = Living /\ Living' = Living /\ c \in players
        /\ serverStatus # "spinning"
    BY <1>0, <1>1, <1>3, <2>1
       DEF Playing, InPhase, Living, ChoiceArrives
  <2>3. CASE /\ n \in players /\ n \in Clients
             /\ currentPlayerTurn' = n
             /\ toClient' = GiveTurn(toClient, n)
             /\ UNCHANGED <<gameState, serverStatus>>
    <3> HIDE DEF n
    <3>1. InPhase'
      BY <1>1, <2>1, <2>2, <2>3 DEF InPhase
    <3>2. /\ Plain("S_TAKE_TURN") \in ToClient
          /\ Plain("S_TAKE_TURN").id \notin States
      BY PlainType DEF Plain, States
    <3>3. ASSUME NEW k \in Clients
          PROVE  Follows(k)'
      <4>1. ASSUME link[k] = "open"
            PROVE  /\ At(toClient'[k], {"S_GAME_STARTED"}) # {}
                        => At(toClient[k], {"S_GAME_STARTED"}) # {}
                   /\ \A cg, gs : LeadsTo(toClient[k], cg, gs)
                                   => LeadsTo(toClient'[k], cg, gs)
        BY <1>0, <2>3, <3>2, <4>1, SentLeads DEF GiveTurn
      <4> QED
        BY <1>1, <1>3, <2>3, <4>1 DEF Playing, Follows, Open, Plays, clientVars
    <3> QED BY <2>1, <3>1, <3>3 DEF Playing
  <2>4. CASE NextTurn("GS_MAIN", player', q)
    <3>1. c \in players /\ ~player'[c].dead
      BY <1>1, <2>2 DEF Living
    <3>2. m.id \in States /\ Says(m) = "GS_MAIN"
      BY DEF Main, States, Says
    <3>3. ASSUME NEW k \in Clients, link[k] = "open"
          PROVE  LeadsTo(q[k], cGameState[k], "GS_MAIN")
      <4> HIDE DEF m
      <4> QED BY <1>0, <1>1, <3>2, <3>3, SentLeads
    <3> HIDE DEF q, m, n
    <3>4. /\ currentPlayerTurn' \in Living'
          /\ gameState' \in {"GS_MAIN", "GS_GAME_OVER"}
          /\ gameState' # "GS_GAME_OVER" =>
               \E k \in Living' : k # currentPlayerTurn'
          /\ UNCHANGED serverStatus
          /\ \A k \in Clients : link[k] = "open" =>
               \A cg : LeadsTo(q[k], cg, "GS_MAIN") =>
                         LeadsTo(toClient'[k], cg, gameState')
      BY <1>1, <2>4, <3>1, NextTurnPhase
    <3>5. InPhase'
      BY <2>2, <3>4 DEF InPhase
    <3>6. \A k \in Clients : Follows(k)'
      BY <1>1, <3>3, <3>4 DEF Follows, Open, clientVars
    <3> QED BY <2>1, <3>5, <3>6 DEF Playing
  <2> QED BY <1>1, <2>3, <2>4
<1> HIDE DEF q, m, n
<1> QED BY <1>1, <1>2, <1>3 DEF PhaseInv

\* One blow cannot kill two: while the main game goes on two are alive.
LEMMA ActionPhase ==
  ASSUME TypeOK, TypeOK', TokensInv, PhaseInv, NEW c \in Clients,
         ActionArrives(c)
  PROVE  PhaseInv'
<1> DEFINE target == GetPlayerWithName(Head(toServer[c]).target)
           m      == HealthUpdate(player', target)
           q      == Broadcast(toClient, m)
<1>0. /\ toClient \in [Clients -> Seq(ToClient)]
      /\ players \in SUBSET Clients
      /\ player \in [Clients -> Player]
  BY DEF TypeOK, TransportTypeOK, ServerTypeOK
<1>1. /\ UNCHANGED <<link, players, starts, clientVars>>
      /\ \E diff : player' = ModifyHealth(player, target, diff)
      /\ m \in ToClient /\ q \in [Clients -> Seq(ToClient)]
      /\ NextTurn(gameState, player', q)
  BY ActionShape
<1>2. starts # 0
  BY NobodyMoves
<1>3. m.id \notin States
  BY DEF HealthUpdate, States
<1> HIDE DEF target
<1>4. \A k \in players : k # target => player'[k] = player[k]
  BY <1>0, <1>1 DEF ModifyHealth
<1> HIDE DEF q, m
<1>5. ASSUME starts = 1, Playing
      PROVE  Playing'
  <2>1. /\ gameState = "GS_MAIN"
        /\ \A t \in TurnTokens' : t[1] = currentPlayerTurn'
        /\ gameState' = "GS_GAME_OVER" => TurnTokens' = {}
        /\ \A k \in Clients : Settled(k)' /\ Fits(k)'
    BY <1>5, PassedPhase
  <2>2. PICK l \in players : ~player'[l].dead
    <3>1. PICK k \in Living : k # currentPlayerTurn
      BY <1>5, <2>1 DEF Playing, InPhase
    <3>2. currentPlayerTurn \in Living
      BY <1>5 DEF Playing, InPhase
    <3> QED BY <1>4, <3>1, <3>2 DEF Living
  <2>3. /\ currentPlayerTurn' \in Living'
        /\ gameState' \in {"GS_MAIN", "GS_GAME_OVER"}
        /\ gameState' # "GS_GAME_OVER" =>
             \E k \in Living' : k # currentPlayerTurn'
        /\ UNCHANGED serverStatus
        /\ \A k \in Clients : link[k] = "open" =>
             /\ At(toClient'[k], {"S_GAME_STARTED"}) # {}
                  => At(q[k], {"S_GAME_STARTED"}) # {}
             /\ \A cg : LeadsTo(q[k], cg, gameState) =>
                       LeadsTo(toClient'[k], cg, gameState')
    BY <1>1, <2>1, <2>2, NextTurnPhase
  <2>4. InPhase'
    BY <1>5, <2>3 DEF InPhase, Playing
  <2>5. ASSUME NEW k \in Clients
        PROVE  Follows(k)'
    <3>1. ASSUME link[k] = "open"
          PROVE  /\ At(q[k], {"S_GAME_STARTED"}) # {}
                      => At(toClient[k], {"S_GAME_STARTED"}) # {}
                 /\ \A cg, gs : LeadsTo(toClient[k], cg, gs)
                                 => LeadsTo(q[k], cg, gs)
      BY <1>0, <1>1, <1>3, <3>1, SentLeads DEF q
    <3> QED
      BY <1>1, <1>5, <2>3, <3>1 DEF Playing, Follows, Open, Plays, clientVars
  <2> QED BY <2>1, <2>4, <2>5 DEF Playing
<1> QED BY <1>1, <1>2, <1>5 DEF PhaseInv

-------------------------------------------------------------------------------
(* The theorems.                                                           *)

OnceInv == TypeOK /\ FreshInv /\ TokensInv /\ PhaseInv

\* OnceInv is inductive: one case per kind of step.
LEMMA OnceStep == PlainNames /\ OnceInv /\ [Next]_vars => OnceInv'
<1> SUFFICES ASSUME PlainNames, OnceInv, [Next]_vars
             PROVE  OnceInv'
  OBVIOUS
<1>0. TypeOK /\ FreshInv /\ TokensInv /\ PhaseInv
  BY DEF OnceInv
<1>1. TypeOK' /\ FreshInv'
  BY <1>0, TypeStep, FreshStep
<1>2. TokensInv'
  BY <1>0, <1>1, TokensStep
<1>3. ASSUME QuietStep
      PROVE  PhaseInv'
  BY <1>0, <1>1, <1>3, QuietPhase
<1>4. ASSUME NEW c \in Clients,
             \/ Starts(c) \/ ChoiceArrives(c) \/ ActionArrives(c)
             \/ Learns(c) \/ TakesTurn(c) \/ UsesTurn(c)
      PROVE  PhaseInv'
  <2>1. CASE Starts(c) \/ ChoiceArrives(c) \/ ActionArrives(c)
    BY <1>0, <1>1, <2>1, StartsPhase, ChoicePhase, ActionPhase
  <2>2. CASE Learns(c) \/ TakesTurn(c) \/ UsesTurn(c)
    BY <1>0, <1>1, <2>2, LearnsPhase, TakesTurnPhase, UsesTurnPhase
  <2> QED BY <1>4, <2>1, <2>2
<1>5. PhaseInv'
  BY <1>0, <1>3, <1>4, StepKinds
<1> QED BY <1>1, <1>2, <1>5 DEF OnceInv

\* One game, started once.
THEOREM OnceHolds ==
  ASSUME PlainNames
  PROVE  Spec => []OnceInv
<1>1. Init => OnceInv
  BY TypeInit, FreshInit, TokensInit, PhaseInit DEF OnceInv
<1>2. OnceInv /\ [Next]_vars => OnceInv'
  BY OnceStep
<1> QED BY <1>1, <1>2, PTL DEF Spec

\* The identifiers in a queue are those at its places.
LEMMA IdsAreAt ==
  ASSUME NEW q, NEW id
  PROVE  id \in Ids(q) <=> At(q, {id}) # {}
BY DEF Ids, Range, At

\* The server compares the sender of a request with nobody (server.cpp:282,
\* 329): in a game that was started once the only turn there is belongs to
\* currentPlayerTurn.
THEOREM TurnsMatchServer ==
  ASSUME PlainNames
  PROVE  Spec => []TurnMatchesServer
<1>1. OnceInv => TurnMatchesServer
  BY DEF OnceInv, PhaseInv, Playing, TurnMatchesServer
<1> QED BY <1>1, OnceHolds, PTL

\* Nor does it look whether the request is one of the phase it is in.
THEOREM RequestsFit ==
  ASSUME PlainNames
  PROVE  Spec => []RequestsFitPhase
<1>1. ASSUME OnceInv, starts = 1, NEW c \in Clients
      PROVE  /\ "C_JOB_CHOSEN" \in Ids(toServer[c])
                  => gameState = "GS_CHARACTER_SELECT"
             /\ "C_ACTION_TAKEN" \in Ids(toServer[c]) => gameState = "GS_MAIN"
  <2>1. Fits(c)
    BY <1>1 DEF OnceInv, PhaseInv, Playing
  <2> QED BY <2>1, IdsAreAt DEF Fits, UsedAt, At, TurnRequests
<1>2. OnceInv => RequestsFitPhase
  BY <1>1 DEF RequestsFitPhase
<1> QED BY <1>2, OnceHolds, PTL

\* The turn is never with a dead player, and NextTurn's loop ends
\* (server.cpp:386-397).
THEOREM TurnWithTheLiving ==
  ASSUME PlainNames
  PROVE  Spec => []HolderAlive
<1>1. OnceInv => HolderAlive
  <2>1. TypeOK /\ starts <= 1 => starts \in {0, 1}
    BY DEF TypeOK, ServerTypeOK
  <2> QED
    BY <2>1 DEF OnceInv, PhaseInv, Waiting, Playing, InPhase, HolderAlive
<1> QED BY <1>1, OnceHolds, PTL

\* When the game is over nobody can play on (server.cpp:401-405, 460-474).
THEOREM OverIsFinal ==
  ASSUME PlainNames
  PROVE  Spec => []GameOverFinal
<1>1. OnceInv => GameOverFinal
  BY DEF OnceInv, PhaseInv, Playing, GameOverFinal
<1> QED BY <1>1, OnceHolds, PTL

\* HandleGameInput reads on the input thread, without a lock, what the packet
\* thread writes (RRPG.cpp:315-391): a player on turn has had every update, and
\* none can come before the turn is used.
THEOREM PlayersOnTurnAreUpToDate ==
  ASSUME PlainNames
  PROVE  Spec => []OnTurnUpToDate
<1>1. ASSUME OnceInv, starts = 1, NEW c \in Clients, myTurn[c]
      PROVE  UpToDate(c)
  <2>1. At(toClient[c], Moves) = {}
    BY <1>1 DEF OnceInv, PhaseInv, Playing, Settled
  <2> QED BY <2>1, IdsAreAt DEF UpToDate, At, Moves, Updates
<1>2. OnceInv => OnTurnUpToDate
  BY <1>1 DEF OnTurnUpToDate
<1> QED BY <1>2, OnceHolds, PTL

===============================================================================
