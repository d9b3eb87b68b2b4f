------------------------------ MODULE RRPG_proofs -----------------------------
(***************************************************************************)
(* What holds of the game for every set of clients, every choice of names  *)
(* and every bound.                                                        *)
(***************************************************************************)
EXTENDS Correctness, FiniteSetTheorems, SequenceTheorems,
        WellFoundedInduction, TLAPS

-------------------------------------------------------------------------------
(* The operators.                                                          *)

\* Begin returns the least of a finite set of keys.  The segments below the
\* keys are ordered by inclusion; the key of a minimal one has none below it.
LEMMA BeginIsLeast ==
  ASSUME NEW S \in SUBSET Nat, S # {}, IsFiniteSet(S)
  PROVE  Begin(S) \in S /\ \A j \in S : Begin(S) <= j
<1> DEFINE Below(x) == {y \in S : y < x}
           Segments == {Below(x) : x \in S}
           R == StrictSubsetOrdering(S)
<1>1. IsWellFoundedOn(R, FiniteSubsetsOf(S))
  BY FS_StrictSubsetOrderingWellFounded
<1>2. Segments \subseteq FiniteSubsetsOf(S) /\ Segments # {}
  <2>1. FiniteSubsetsOf(S) = SUBSET S
    BY FS_FiniteSubsetsOfFinite
  <2>2. Segments \subseteq SUBSET S
    OBVIOUS
  <2>3. Segments # {}
    OBVIOUS
  <2> QED BY <2>1, <2>2, <2>3
<1>3. PICK T \in Segments : \A U \in Segments : ~ (<<U, T>> \in R)
  <2> HIDE DEF R, Segments
  <2> QED BY <1>1, <1>2, WFMin
<1>4. PICK x \in S : T = Below(x)
  BY <1>3
<1>5. ASSUME NEW y \in S, y < x
      PROVE  FALSE
  <2>1. ASSUME NEW z \in Below(y)
        PROVE  z \in Below(x)
    <3>1. z \in Nat /\ y \in Nat /\ x \in Nat /\ z < y
      OBVIOUS
    <3> QED BY <3>1, <1>5
  <2>2. y \in Below(x) /\ y \notin Below(y)
    BY <1>5
  <2>3. <<Below(y), Below(x)>> \in R
    BY <2>1, <2>2 DEF StrictSubsetOrdering
  <2>4. Below(y) \in Segments
    OBVIOUS
  <2> QED BY <2>3, <2>4, <1>3, <1>4
<1>6. \A y \in S : x <= y
  BY <1>5
<1> QED BY <1>6 DEF Begin

\* So every nonempty set of clients has a first one, and it is a client.
LEMMA BeginIsClient ==
  ASSUME NEW S \in SUBSET Clients, S # {}
  PROVE  Begin(S) \in S /\ Begin(S) \in Nat
<1>1. S \in SUBSET Nat
  BY ClientsAssumption
<1>2. IsFiniteSet(S)
  BY ClientsAssumption, FS_Subset
<1> QED BY <1>1, <1>2, BeginIsLeast

\* NextTurn's loop stops at a living player whenever there is one.
LEMMA NextAliveIsAlive ==
  ASSUME NEW living \in SUBSET Clients, living # {}
  PROVE  NextAlive(living) \in living /\ NextAlive(living) \in Nat
<1> DEFINE later == Above(living, currentPlayerTurn)
<1>1. later \in SUBSET living /\ later \in SUBSET Clients
  BY DEF Above
<1>2. CASE later # {}
  BY <1>1, <1>2, BeginIsClient DEF NextAlive
<1>3. CASE later = {}
  BY <1>3, BeginIsClient DEF NextAlive
<1> QED BY <1>2, <1>3

\* What a cut connection leaves of a queue is a queue.
LEMMA PrefixesAreSequences ==
  ASSUME NEW S, NEW q \in Seq(S), NEW p \in Prefixes(q)
  PROVE  p \in Seq(S)
<1>1. PICK n \in 0..Len(q) : p = SubSeq(q, 1, n)
  BY DEF Prefixes
<1> QED BY <1>1, SubSeqProperties

\* Sending keeps the queues queues of messages.
LEMMA SendType ==
  ASSUME NEW q \in [Clients -> Seq(ToClient)], NEW m \in ToClient,
         NEW c \in Clients
  PROVE  /\ Broadcast(q, m) \in [Clients -> Seq(ToClient)]
         /\ SendTo(q, c, m) \in [Clients -> Seq(ToClient)]
<1>1. \A k \in Clients : Append(q[k], m) \in Seq(ToClient)
  BY AppendProperties
<1> QED BY <1>1 DEF Broadcast, SendTo

\* The messages without a payload.
LEMMA PlainType ==
  /\ \A id \in {"ID_NEW_INCOMING_CONNECTION", "ID_CONNECTION_LOST",
                "C_INTRO", "C_READY", "C_UNREADY", "C_CHAT",
                "C_PLAYER_LIST_REQUEST", "C_PLAYER_STATS_REQUEST"} :
       Plain(id) \in ToServer
  /\ \A id \in {"ID_CONNECTION_REQUEST_ACCEPTED", "S_GAME_STARTED",
                "S_TAKE_TURN", "S_REPLY_PLAYER_LIST_REQUEST",
                "S_REPLY_PLAYER_STATS_REQUEST", "text"} :
       Plain(id) \in ToClient
  /\ \A c \in Clients : Plain(Lead[c]) \in ToClient
BY LeadAssumption DEF Plain, ToServer, ToClient

\* The messages that carry the state of the game.
LEMMA UpdateType ==
  ASSUME NEW p \in [Clients -> Player], players \in SUBSET Clients
  PROVE  /\ Over \in ToClient
         /\ Main(p) \in ToClient
         /\ \A k \in Clients : HealthUpdate(p, k) \in ToClient
<1>1. Over \in ToClient
  BY DEF Over, ToClient
<1>2. Snapshot(p) \in SUBSET Entry
  <2> DEFINE line(k) == [name |-> Name[k], health |-> p[k].health,
                         job |-> p[k].job, dead |-> FALSE]
  <2>1. ASSUME NEW k \in Clients
        PROVE  line(k) \in Entry
    <3>1. p[k].health \in Int /\ p[k].job \in CharacterClass
      BY DEF Player
    <3>2. Name[k] \in Names
      BY NamesAssumption
    <3> QED BY <3>1, <3>2 DEF Entry
  <2>2. Snapshot(p) = {line(k) : k \in players}
    BY DEF Snapshot
  <2> HIDE DEF line
  <2> QED BY <2>1, <2>2
<1>3. Main(p) \in ToClient
  BY <1>2 DEF Main, ToClient
<1>4. \A k \in Clients : HealthUpdate(p, k) \in ToClient
  BY NamesAssumption DEF HealthUpdate, Player, ToClient
<1> QED BY <1>1, <1>3, <1>4

-------------------------------------------------------------------------------
(* Type correctness.                                                       *)

\* The head of a queue is a message, the rest a queue.
LEMMA HeadTailType ==
  ASSUME NEW S, NEW q \in Seq(S), q # <<>>
  PROVE  Head(q) \in S /\ Tail(q) \in Seq(S)
BY HeadTailProperties

\* Taking the next packet from a client, in a well-typed state.
LEMMA ReceiveType ==
  ASSUME TypeOK, NEW c \in Clients, NEW id, Receive(c, id)
  PROVE  /\ Head(toServer[c]) \in ToServer
         /\ Head(toServer[c]).id = id
         /\ Tail(toServer[c]) \in Seq(ToServer)
         /\ Consume(c) => toServer' \in [Clients -> Seq(ToServer)]
<1>1. toServer \in [Clients -> Seq(ToServer)]
  BY DEF TypeOK, TransportTypeOK
<1>2. Head(toServer[c]) \in ToServer /\ Tail(toServer[c]) \in Seq(ToServer)
  BY <1>1, HeadTailType DEF Receive
<1>3. Consume(c) => toServer' \in [Clients -> Seq(ToServer)]
  BY <1>1, <1>2 DEF Consume
<1> QED BY <1>2, <1>3 DEF Receive

\* NextTurn keeps types, whatever it is called with.
LEMMA NextTurnType ==
  ASSUME TypeOK, NEW p \in [Clients -> Player], NEW gs \in GameState,
         NEW q \in [Clients -> Seq(ToClient)], NextTurn(gs, p, q)
  PROVE  /\ currentPlayerTurn' \in Nat
         /\ gameState' \in GameState
         /\ serverStatus' \in {"running", "aborted", "spinning"}
         /\ toClient' \in [Clients -> Seq(ToClient)]
<1> DEFINE living == {k \in players : ~p[k].dead}
           next == NextAlive(living)
<1>1. /\ living \in SUBSET Clients
      /\ currentPlayerTurn \in Nat
      /\ serverStatus \in {"running", "aborted", "spinning"}
  <2>1. players \in SUBSET Clients
    BY DEF TypeOK, ServerTypeOK
  <2>2. living \in SUBSET Clients
    BY <2>1
  <2>3. currentPlayerTurn \in Nat
    BY DEF TypeOK, ServerTypeOK
  <2>4. serverStatus \in {"running", "aborted", "spinning"}
    BY DEF TypeOK, ServerTypeOK
  <2> QED BY <2>2, <2>3, <2>4
<1>2. CASE /\ living = {}
           /\ serverStatus' = "spinning"
           /\ gameState' = gs
           /\ toClient' = q
           /\ UNCHANGED currentPlayerTurn
  BY <1>1, <1>2
<1>3. CASE /\ living # {} /\ living = {next}
           /\ currentPlayerTurn' = next
           /\ gameState' = "GS_GAME_OVER"
           /\ toClient' = GameOver(next, q)
           /\ UNCHANGED serverStatus
  <2>1. next \in Nat /\ next \in Clients
    BY <1>1, <1>3, NextAliveIsAlive
  <2>2. toClient' \in [Clients -> Seq(ToClient)]
    BY <2>1, <1>3, SendType DEF GameOver, Over, ToClient
  <2> QED BY <1>1, <1>3, <2>1, <2>2 DEF GameState
<1>4. CASE /\ living # {} /\ living # {next}
           /\ currentPlayerTurn' = next
           /\ gameState' = gs
           /\ toClient' = GiveTurn(q, next)
           /\ UNCHANGED serverStatus
  <2>1. next \in Nat /\ next \in Clients
    BY <1>1, <1>4, NextAliveIsAlive
  <2>2. toClient' \in [Clients -> Seq(ToClient)]
    BY <2>1, <1>4, SendType, PlainType DEF GiveTurn
  <2> QED BY <1>1, <1>4, <2>1, <2>2
<1> QED BY <1>2, <1>3, <1>4 DEF NextTurn

\* The server's handlers, one by one.  A new connection is counted modulo the
\* width of an unsigned short.
LEMMA OnIncomingConnectionType ==
  ASSUME TypeOK, NEW c \in Clients, OnIncomingConnection(c)
  PROVE  ServerTypeOK' /\ TransportTypeOK'
<1>1. toServer' \in [Clients -> Seq(ToServer)]
  BY ReceiveType DEF OnIncomingConnection
<1>2. totalConnections' \in UnsignedShort
  BY DEF OnIncomingConnection, TypeOK, ServerTypeOK, UnsignedShort
<1> QED
  BY <1>1, <1>2 DEF OnIncomingConnection, TypeOK, ServerTypeOK, TransportTypeOK

\* A lost connection leaves everything but the packet alone.
LEMMA OnConnectionLostType ==
  ASSUME TypeOK, NEW c \in Clients, OnConnectionLost(c)
  PROVE  ServerTypeOK' /\ TransportTypeOK'
<1>1. toServer' \in [Clients -> Seq(ToServer)]
  BY ReceiveType DEF OnConnectionLost
<1> QED
  BY <1>1
     DEF OnConnectionLost, TypeOK, ServerTypeOK, TransportTypeOK, serverVars

\* A newcomer, kicked or not, gets an entry; the count of connections does not
\* go below zero.
LEMMA OnClientIntroType ==
  ASSUME TypeOK, NEW c \in Clients, OnClientIntro(c)
  PROVE  ServerTypeOK' /\ TransportTypeOK'
<1> DEFINE rest == Tail(toServer[c])
<1>1. rest \in Seq(ToServer)
  BY ReceiveType DEF OnClientIntro
<1>2. /\ toServer' \in [Clients -> Seq(ToServer)]
      /\ link' \in [Clients -> LinkState]
      /\ totalConnections' \in UnsignedShort
  <2>0. /\ toServer \in [Clients -> Seq(ToServer)]
        /\ link \in [Clients -> LinkState]
        /\ totalConnections \in UnsignedShort
    BY DEF TypeOK, ServerTypeOK, TransportTypeOK
  <2>1. CASE /\ Overfull
             /\ totalConnections' = totalConnections - 1
             /\ link' = [link EXCEPT ![c] = IF Alive(c) THEN "closed"
                                            ELSE "gone"]
             /\ \E kept \in Prefixes(rest) :
                  toServer' = [toServer EXCEPT ![c] = kept]
    <3>1. PICK kept \in Prefixes(rest) :
                 toServer' = [toServer EXCEPT ![c] = kept]
      BY <2>1
    <3>2. kept \in Seq(ToServer)
      BY <1>1, PrefixesAreSequences
    <3>3. toServer' \in [Clients -> Seq(ToServer)]
      BY <2>0, <3>1, <3>2
    <3>4. link' \in [Clients -> LinkState]
      BY <2>0, <2>1 DEF LinkState
    <3>5. totalConnections' \in UnsignedShort
      BY <2>0, <2>1, ClientsAssumption DEF Overfull, UnsignedShort
    <3> QED BY <3>3, <3>4, <3>5
  <2>2. CASE ~Overfull /\ Consume(c) /\ UNCHANGED <<totalConnections, link>>
    <3>1. toServer' \in [Clients -> Seq(ToServer)]
      BY <2>2, ReceiveType DEF OnClientIntro
    <3> QED BY <2>0, <2>2, <3>1
  <2> QED BY <2>1, <2>2 DEF OnClientIntro
<1>3. players' \in SUBSET Clients
  BY DEF OnClientIntro, TypeOK, ServerTypeOK
<1>4. player' \in [Clients -> Player]
  <2>1. NewPlayer \in Player
    BY GameAssumption DEF NewPlayer, Player
  <2>2. player \in [Clients -> Player]
    BY DEF TypeOK, ServerTypeOK
  <2> QED BY <2>1, <2>2 DEF OnClientIntro
<1> QED
  BY <1>2, <1>3, <1>4
     DEF OnClientIntro, TypeOK, ServerTypeOK, TransportTypeOK

\* A failed assert leaves everything but the packet and the status alone.
LEMMA AbortType ==
  ASSUME TypeOK, Abort
  PROVE  ServerTypeOK' /\ toClient' = toClient
BY DEF Abort, TypeOK, ServerTypeOK

\* A chat line goes to everybody, or fails the assert.
LEMMA OnClientChatReceivedType ==
  ASSUME TypeOK, NEW c \in Clients, OnClientChatReceived(c)
  PROVE  ServerTypeOK' /\ TransportTypeOK'
<1>1. toServer' \in [Clients -> Seq(ToServer)]
  BY ReceiveType DEF OnClientChatReceived
<1>2. ServerTypeOK' /\ toClient' \in [Clients -> Seq(ToClient)]
  <2>1. CASE Abort
    BY <2>1, AbortType DEF TypeOK, TransportTypeOK
  <2>2. CASE /\ toClient' = Broadcast(toClient, Plain(Lead[c]))
             /\ UNCHANGED serverVars
    <3>1. toClient' \in [Clients -> Seq(ToClient)]
      BY <2>2, PlainType, SendType DEF TypeOK, TransportTypeOK
    <3> QED BY <2>2, <3>1 DEF TypeOK, ServerTypeOK, serverVars
  <2> QED BY <2>1, <2>2 DEF OnClientChatReceived
<1> QED BY <1>1, <1>2 DEF OnClientChatReceived, TypeOK, TransportTypeOK

\* A list request is answered.
LEMMA OnRequestType ==
  ASSUME TypeOK, NEW c \in Clients,
         OnPlayerListRequest(c) \/ OnPlayerStatsRequest(c)
  PROVE  ServerTypeOK' /\ TransportTypeOK'
<1>1. toServer' \in [Clients -> Seq(ToServer)]
  BY ReceiveType DEF OnPlayerListRequest, OnPlayerStatsRequest
<1>2. PICK id \in {"S_REPLY_PLAYER_LIST_REQUEST",
                 "S_REPLY_PLAYER_STATS_REQUEST"} :
             toClient' = SendTo(toClient, c, Plain(id))
  BY DEF OnPlayerListRequest, OnPlayerStatsRequest
<1>3. Plain(id) \in ToClient
  BY PlainType
<1>4. toClient' \in [Clients -> Seq(ToClient)]
  BY <1>2, <1>3, SendType DEF TypeOK, TransportTypeOK
<1>5. UNCHANGED <<serverVars, link>>
  BY DEF OnPlayerListRequest, OnPlayerStatsRequest
<1> QED
  BY <1>1, <1>4, <1>5
     DEF TypeOK, ServerTypeOK, TransportTypeOK, serverVars

\* Player entries stay entries when fields of one of them are set.
LEMMA SetReadyType ==
  ASSUME NEW p \in [Clients -> Player], NEW c \in Clients, NEW b \in BOOLEAN
  PROVE  [p EXCEPT ![c].ready = b] \in [Clients -> Player]
<1>1. [p[c] EXCEPT !.ready = b] \in Player
  BY DEF Player
<1> QED BY <1>1

\* The same for the two fields a chosen character sets.
LEMMA SetJobType ==
  ASSUME NEW p \in [Clients -> Player], NEW c \in Clients,
         NEW j \in CharacterClass
  PROVE  [p EXCEPT ![c].ready = TRUE, ![c].job = j] \in [Clients -> Player]
<1>1. [p[c] EXCEPT !.ready = TRUE, !.job = j] \in Player
  BY DEF Player
<1> QED BY <1>1

\* The same for a blow or a heal.
LEMMA ModifyHealthType ==
  ASSUME NEW p \in [Clients -> Player], NEW c \in Clients, NEW d \in Int
  PROVE  ModifyHealth(p, c, d) \in [Clients -> Player]
<1>1. ASSUME NEW e \in Player
      PROVE  Changed(e, d) \in Player
  <2>1. e.health + d \in Int
    BY DEF Player
  <2>2. (e.dead \/ e.health + d <= 0) \in BOOLEAN
    OBVIOUS
  <2> QED BY <2>1, <2>2 DEF Changed, Player
<1> QED BY <1>1 DEF ModifyHealth

\* A ready keeps types, the start of the game included.
LEMMA OnPlayerReadyType ==
  ASSUME TypeOK, NEW c \in Clients, OnPlayerReady(c)
  PROVE  ServerTypeOK' /\ TransportTypeOK'
<1> DEFINE p == [player EXCEPT ![c].ready = TRUE]
<1>1. toServer' \in [Clients -> Seq(ToServer)]
  BY ReceiveType DEF OnPlayerReady
<1>2. p \in [Clients -> Player]
  BY SetReadyType DEF TypeOK, ServerTypeOK
<1>3. ServerTypeOK' /\ toClient' \in [Clients -> Seq(ToClient)]
  <2>0. toClient \in [Clients -> Seq(ToClient)]
    BY DEF TypeOK, TransportTypeOK
  <2>1. CASE Abort
    BY <2>0, <2>1, AbortType
  <2>2. CASE /\ c \in players
             /\ StartGame(p)
             /\ UNCHANGED <<totalConnections, players, serverStatus>>
    <3> HIDE DEF p
    <3>1. Begin(players) \in Clients /\ Begin(players) \in Nat
      BY <2>2, BeginIsClient DEF TypeOK, ServerTypeOK
    <3>2. Broadcast(toClient, Plain("S_GAME_STARTED"))
            \in [Clients -> Seq(ToClient)]
      BY <2>0, SendType, PlainType
    <3>3. toClient' \in [Clients -> Seq(ToClient)]
      BY <2>2, <3>1, <3>2, SendType, PlainType DEF StartGame, GiveTurn
    <3>4. player' \in [Clients -> Player]
      BY <1>2, <2>2 DEF StartGame, Player
    <3>5. starts' \in Nat
      BY <2>2 DEF StartGame, TypeOK, ServerTypeOK
    <3> QED
      BY <2>2, <3>1, <3>3, <3>4, <3>5
         DEF StartGame, TypeOK, ServerTypeOK, NetworkState, GameState
  <2>3. CASE /\ player' = p
             /\ UNCHANGED <<networkState, gameState, totalConnections, players,
                            currentPlayerTurn, serverStatus, starts, toClient>>
    <3> HIDE DEF p
    <3> QED BY <1>2, <2>0, <2>3 DEF TypeOK, ServerTypeOK
  <2> QED BY <2>1, <2>2, <2>3 DEF OnPlayerReady
<1> QED BY <1>1, <1>3 DEF OnPlayerReady, TypeOK, TransportTypeOK

\* An unready keeps types.
LEMMA OnPlayerUnreadyType ==
  ASSUME TypeOK, NEW c \in Clients, OnPlayerUnready(c)
  PROVE  ServerTypeOK' /\ TransportTypeOK'
<1> DEFINE p == [player EXCEPT ![c].ready = FALSE]
<1>1. toServer' \in [Clients -> Seq(ToServer)]
  BY ReceiveType DEF OnPlayerUnready
<1>2. p \in [Clients -> Player]
  BY SetReadyType DEF TypeOK, ServerTypeOK
<1>3. ServerTypeOK' /\ toClient' = toClient
  <2>1. CASE Abort
    BY <2>1, AbortType
  <2>2. CASE /\ player' = p
             /\ UNCHANGED <<networkState, gameState, totalConnections, players,
                            currentPlayerTurn, serverStatus, starts, toClient>>
    <3> HIDE DEF p
    <3> QED BY <1>2, <2>2 DEF TypeOK, ServerTypeOK
  <2> QED BY <2>1, <2>2 DEF OnPlayerUnready
<1> QED BY <1>1, <1>3 DEF OnPlayerUnready, TypeOK, TransportTypeOK

\* A chosen character keeps types, the start of the main game included.
LEMMA OnPlayerJobChosenType ==
  ASSUME TypeOK, NEW c \in Clients, OnPlayerJobChosen(c)
  PROVE  ServerTypeOK' /\ TransportTypeOK'
<1> DEFINE j     == Head(toServer[c]).job
           p     == [player EXCEPT ![c].ready = TRUE, ![c].job = j]
           later == Above(players, currentPlayerTurn)
<1>1. toServer' \in [Clients -> Seq(ToServer)]
  BY ReceiveType DEF OnPlayerJobChosen
<1>2. j \in CharacterClass
  <2>1. ASSUME NEW m \in ToServer, m.id = "C_JOB_CHOSEN"
        PROVE  m.job \in CharacterClass
    BY <2>1 DEF ToServer
  <2>2. Receive(c, "C_JOB_CHOSEN")
    BY DEF OnPlayerJobChosen
  <2> QED BY <2>1, <2>2, ReceiveType
<1>3. p \in [Clients -> Player]
  <2> HIDE DEF j
  <2> QED BY <1>2, SetJobType DEF TypeOK, ServerTypeOK
<1>4. ServerTypeOK' /\ toClient' \in [Clients -> Seq(ToClient)]
  <2>0. toClient \in [Clients -> Seq(ToClient)] /\ players \in SUBSET Clients
    BY DEF TypeOK, ServerTypeOK, TransportTypeOK
  <2>1. CASE Abort
    BY <2>0, <2>1, AbortType
  <2>2. CASE /\ later # {}
             /\ player' = p
             /\ currentPlayerTurn' = Begin(later)
             /\ toClient' = GiveTurn(toClient, Begin(later))
             /\ UNCHANGED <<networkState, gameState, totalConnections, players,
                            serverStatus, starts>>
    <3>1. later \in SUBSET Clients
      BY <2>0 DEF Above
    <3> HIDE DEF p, later
    <3>2. Begin(later) \in Clients /\ Begin(later) \in Nat
      BY <2>2, <3>1, BeginIsClient
    <3>3. toClient' \in [Clients -> Seq(ToClient)]
      BY <2>0, <2>2, <3>2, SendType, PlainType DEF GiveTurn
    <3> QED BY <1>3, <2>2, <3>2, <3>3 DEF TypeOK, ServerTypeOK
  <2>3. CASE /\ player' = p
             /\ StartMainGame(p)
             /\ UNCHANGED <<networkState, totalConnections, players, starts>>
    <3> HIDE DEF p
    <3>1. Broadcast(toClient, Main(p)) \in [Clients -> Seq(ToClient)]
      BY <1>3, <2>0, UpdateType, SendType
    <3>2. NextTurn("GS_MAIN", p, Broadcast(toClient, Main(p)))
      BY <2>3 DEF StartMainGame
    <3>3. "GS_MAIN" \in GameState
      BY DEF GameState
    <3>4. /\ currentPlayerTurn' \in Nat
          /\ gameState' \in GameState
          /\ serverStatus' \in {"running", "aborted", "spinning"}
          /\ toClient' \in [Clients -> Seq(ToClient)]
      BY <1>3, <3>1, <3>2, <3>3, NextTurnType
    <3> QED BY <1>3, <2>3, <3>4 DEF TypeOK, ServerTypeOK
  <2> QED BY <2>1, <2>2, <2>3 DEF OnPlayerJobChosen
<1> QED BY <1>1, <1>4 DEF OnPlayerJobChosen, TypeOK, TransportTypeOK

\* Every action changes health by an integer.
LEMMA HealthChangeType ==
  ASSUME NEW a \in Action, NEW d \in HealthChange(a)
  PROVE  d \in Int
<1>1. HealAmount \in Int /\ AttackAmount \in Int /\ HealRange \subseteq Int
      /\ AttackRange \subseteq Int
  BY GameAssumption
<1>2. \A x \in Int : -x \in Int
  OBVIOUS
<1> QED BY <1>1, <1>2 DEF Action, HealthChange

\* An action keeps types, whatever becomes of the turn.
LEMMA OnPlayerActionTakenType ==
  ASSUME TypeOK, NEW c \in Clients, OnPlayerActionTaken(c)
  PROVE  ServerTypeOK' /\ TransportTypeOK'
<1> DEFINE m      == Head(toServer[c])
           target == GetPlayerWithName(m.target)
<1>1. toServer' \in [Clients -> Seq(ToServer)]
  BY ReceiveType DEF OnPlayerActionTaken
<1>2. m.action \in Action
  BY ReceiveType DEF OnPlayerActionTaken, ToServer
<1>3. ServerTypeOK' /\ toClient' \in [Clients -> Seq(ToClient)]
  <2>0. /\ toClient \in [Clients -> Seq(ToClient)]
        /\ players \in SUBSET Clients
        /\ player \in [Clients -> Player]
        /\ gameState \in GameState
    BY DEF TypeOK, ServerTypeOK, TransportTypeOK
  <2>1. CASE Abort
    BY <2>0, <2>1, AbortType
  <2>2. CASE /\ WithName(m.target) # {}
             /\ \E diff \in HealthChange(m.action) :
                  LET p == ModifyHealth(player, target, diff)
                  IN  /\ player' = p
                      /\ NextTurn(gameState, p,
                                  Broadcast(toClient, HealthUpdate(p, target)))
             /\ UNCHANGED <<networkState, totalConnections, players, starts>>
    <3>1. target \in Clients
      <4>1. WithName(m.target) \in SUBSET Clients
        BY <2>0 DEF WithName
      <4> QED BY <2>2, <4>1, BeginIsClient DEF GetPlayerWithName
    <3>2. PICK diff \in HealthChange(m.action) :
                 LET p == ModifyHealth(player, target, diff)
                 IN  /\ player' = p
                     /\ NextTurn(gameState, p,
                                 Broadcast(toClient, HealthUpdate(p, target)))
      BY <2>2
    <3> DEFINE p == ModifyHealth(player, target, diff)
               q == Broadcast(toClient, HealthUpdate(p, target))
    <3> HIDE DEF target, m
    <3>3. diff \in Int
      BY <1>2, <3>2, HealthChangeType
    <3>4. p \in [Clients -> Player]
      BY <2>0, <3>1, <3>3, ModifyHealthType
    <3>5. player' = p /\ NextTurn(gameState, p, q)
      BY <3>2
    <3>6. q \in [Clients -> Seq(ToClient)]
      <4> HIDE DEF p
      <4> QED BY <2>0, <3>1, <3>4, UpdateType, SendType
    <3> HIDE DEF p, q
    <3>7. /\ currentPlayerTurn' \in Nat
          /\ gameState' \in GameState
          /\ serverStatus' \in {"running", "aborted", "spinning"}
          /\ toClient' \in [Clients -> Seq(ToClient)]
      BY <2>0, <3>4, <3>5, <3>6, NextTurnType
    <3> QED BY <2>2, <3>4, <3>5, <3>7 DEF TypeOK, ServerTypeOK
  <2> QED BY <2>1, <2>2 DEF OnPlayerActionTaken
<1> QED BY <1>1, <1>3 DEF OnPlayerActionTaken, TypeOK, TransportTypeOK

\* A client's send keeps types.
LEMMA PostType ==
  ASSUME TypeOK, NEW c \in Clients, NEW m \in ToServer, Post(c, m)
  PROVE  toServer' \in [Clients -> Seq(ToServer)]
<1>1. toServer \in [Clients -> Seq(ToServer)]
  BY DEF TypeOK, TransportTypeOK
<1>2. Append(toServer[c], m) \in Seq(ToServer)
  BY <1>1, AppendProperties
<1> QED BY <1>1, <1>2 DEF Post

\* A client takes a packet of the type its handler reads.
LEMMA TakeType ==
  ASSUME TypeOK, NEW c \in Clients, NEW id, Take(c, id)
  PROVE  /\ Head(toClient[c]) \in ToClient
         /\ Head(toClient[c]).id = id
         /\ toClient' \in [Clients -> Seq(ToClient)]
<1>1. toClient \in [Clients -> Seq(ToClient)]
  BY DEF TypeOK, TransportTypeOK
<1>2. Head(toClient[c]) \in ToClient /\ Tail(toClient[c]) \in Seq(ToClient)
  BY <1>1, HeadTailType DEF Take
<1> QED BY <1>1, <1>2 DEF Take

\* The main thread up to Connect.
LEMMA ConnectType ==
  ASSUME TypeOK, NEW c \in Clients, Connect(c)
  PROVE  ClientTypeOK' /\ TransportTypeOK'
BY DEF Connect, TypeOK, ClientTypeOK, TransportTypeOK, LinkState

\* The rest of the main thread.
LEMMA SetPendingType ==
  ASSUME TypeOK, NEW c \in Clients, SetPending(c)
  PROVE  ClientTypeOK' /\ TransportTypeOK'
BY DEF SetPending, TypeOK, ClientTypeOK, TransportTypeOK, NetworkState,
       transportVars

\* The packet thread of a client, handler by handler.
LEMMA ClientPacketsType ==
  ASSUME TypeOK, NEW c \in Clients, ClientPackets(c)
  PROVE  ClientTypeOK' /\ TransportTypeOK'
<1>1. CASE OnConnectionAccepted(c)
  <2>1. toClient' \in [Clients -> Seq(ToClient)]
    BY <1>1, TakeType DEF OnConnectionAccepted
  <2> QED
    BY <1>1, <2>1
       DEF OnConnectionAccepted, TypeOK, ClientTypeOK, TransportTypeOK,
           NetworkState
<1>2. CASE SendIntro(c)
  <2>1. toServer' \in [Clients -> Seq(ToServer)]
    BY <1>2, PostType, PlainType DEF SendIntro
  <2> QED
    BY <1>2, <2>1 DEF SendIntro, TypeOK, ClientTypeOK, TransportTypeOK
<1>3. CASE OnGameStart(c)
  <2>1. toClient' \in [Clients -> Seq(ToClient)]
    BY <1>3, TakeType DEF OnGameStart
  <2> QED
    BY <1>3, <2>1
       DEF OnGameStart, TypeOK, ClientTypeOK, TransportTypeOK, NetworkState,
           GameState
<1>4. CASE OnTakeTurn(c)
  <2>1. toClient' \in [Clients -> Seq(ToClient)]
    BY <1>4, TakeType DEF OnTakeTurn
  <2> QED
    BY <1>4, <2>1 DEF OnTakeTurn, TypeOK, ClientTypeOK, TransportTypeOK
<1>5. CASE OnGameStateUpdate(c)
  <2> DEFINE m == Head(toClient[c])
  <2>1. toClient' \in [Clients -> Seq(ToClient)]
    BY <1>5, TakeType DEF OnGameStateUpdate
  <2>2. m \in ToClient /\ m.id = "S_UPDATE_GAME_STATE"
    BY <1>5, TakeType DEF OnGameStateUpdate
  <2>3. /\ m.state \in GameState
        /\ m.state = "GS_MAIN" => m.players \in SUBSET Entry
    <3>1. ASSUME NEW n \in ToClient, n.id = "S_UPDATE_GAME_STATE"
          PROVE  /\ n.state \in GameState
                 /\ n.state = "GS_MAIN" => n.players \in SUBSET Entry
      BY <3>1 DEF ToClient, GameState
    <3> QED BY <2>2, <3>1
  <2>4. view' \in [Clients -> SUBSET Entry]
    <3> HIDE DEF m
    <3>1. view' = IF m.state = "GS_MAIN"
                  THEN [view EXCEPT ![c] = @ \cup m.players]
                  ELSE view
      BY <1>5 DEF OnGameStateUpdate, m
    <3> QED BY <2>3, <3>1 DEF TypeOK, ClientTypeOK
  <2>5. cGameState' \in [Clients -> GameState]
    <3> HIDE DEF m
    <3>1. cGameState' = [cGameState EXCEPT ![c] = m.state]
      BY <1>5 DEF OnGameStateUpdate, m
    <3> QED BY <2>3, <3>1 DEF TypeOK, ClientTypeOK
  <2> QED
    BY <1>5, <2>1, <2>4, <2>5
       DEF OnGameStateUpdate, TypeOK, ClientTypeOK, TransportTypeOK
<1>6. CASE OnPlayersHealthUpdated(c)
  <2> DEFINE m == Head(toClient[c])
             Self == [ready : BOOLEAN, health : Int, dead : BOOLEAN]
  <2>1. toClient' \in [Clients -> Seq(ToClient)]
    BY <1>6, TakeType DEF OnPlayersHealthUpdated
  <2>2. m.health \in Int
    <3>1. ASSUME NEW n \in ToClient, n.id = "S_UPDATE_PLAYER_HP"
          PROVE  n.health \in Int
      BY <3>1 DEF ToClient
    <3>2. Take(c, "S_UPDATE_PLAYER_HP")
      BY <1>6 DEF OnPlayersHealthUpdated
    <3> QED BY <3>1, <3>2, TakeType
  <2>3. (m.health <= 0) \in BOOLEAN /\ (m.health < 1) \in BOOLEAN
    OBVIOUS
  <2>4. view' \in [Clients -> SUBSET Entry]
    <3>1. ASSUME NEW e \in Entry
          PROVE  UpdatedEntry(e, m.health) \in Entry
      BY <2>2, <2>3 DEF Entry, UpdatedEntry
    <3>2. view \in [Clients -> SUBSET Entry]
      BY DEF TypeOK, ClientTypeOK
    <3> QED BY <1>6, <3>1, <3>2 DEF OnPlayersHealthUpdated
  <2>5. self' \in [Clients -> Self]
    <3>1. ASSUME NEW p \in Self
          PROVE  UpdatedSelf(p, m.health) \in Self
      BY <2>2, <2>3 DEF UpdatedSelf
    <3>2. self \in [Clients -> Self]
      BY DEF TypeOK, ClientTypeOK
    <3> HIDE DEF Self
    <3> QED BY <1>6, <3>1, <3>2 DEF OnPlayersHealthUpdated
  <2> QED
    BY <1>6, <2>1, <2>4, <2>5
       DEF OnPlayersHealthUpdated, TypeOK, ClientTypeOK, TransportTypeOK
<1>7. CASE ShowReply(c)
  <2>1. toClient' \in [Clients -> Seq(ToClient)]
    BY <1>7, TakeType DEF ShowReply
  <2> QED
    BY <1>7, <2>1
       DEF ShowReply, TypeOK, ClientTypeOK, TransportTypeOK, clientVars
<1> QED BY <1>1, <1>2, <1>3, <1>4, <1>5, <1>6, <1>7 DEF ClientPackets

\* The input thread of a client, line by line.
LEMMA InputHandlerType ==
  ASSUME TypeOK, NEW c \in Clients, InputHandler(c)
  PROVE  ClientTypeOK' /\ TransportTypeOK'
<1>1. CASE Ready(c)
  <2>1. toServer' \in [Clients -> Seq(ToServer)]
    BY <1>1, PostType, PlainType DEF Ready
  <2>2. self' \in [Clients -> [ready : BOOLEAN, health : Int, dead : BOOLEAN]]
    <3>1. /\ self \in [Clients -> [ready : BOOLEAN, health : Int, dead : BOOLEAN]]
          /\ self' = [self EXCEPT ![c].ready = TRUE]
      BY <1>1 DEF Ready, TypeOK, ClientTypeOK
    <3> QED BY <3>1
  <2>3. lines' \in [lobby : 0..MaxLines, chat : 0..MaxChats,
                    action : 0..MaxActions]
    BY <1>1, LinesAssumption DEF Ready, TypeOK, ClientTypeOK
  <2> QED
    BY <1>1, <2>1, <2>2, <2>3 DEF Ready, TypeOK, ClientTypeOK, TransportTypeOK
<1>2. CASE Unready(c)
  <2>1. toServer' \in [Clients -> Seq(ToServer)]
    BY <1>2, PostType, PlainType DEF Unready
  <2>2. self' \in [Clients -> [ready : BOOLEAN, health : Int, dead : BOOLEAN]]
    <3>1. /\ self \in [Clients -> [ready : BOOLEAN, health : Int, dead : BOOLEAN]]
          /\ self' = [self EXCEPT ![c].ready = FALSE]
      BY <1>2 DEF Unready, TypeOK, ClientTypeOK
    <3> QED BY <3>1
  <2>3. lines' \in [lobby : 0..MaxLines, chat : 0..MaxChats,
                    action : 0..MaxActions]
    BY <1>2, LinesAssumption DEF Unready, TypeOK, ClientTypeOK
  <2> QED
    BY <1>2, <2>1, <2>2, <2>3
       DEF Unready, TypeOK, ClientTypeOK, TransportTypeOK
<1>3. CASE Chat(c)
  <2>1. toServer' \in [Clients -> Seq(ToServer)]
    BY <1>3, PostType, PlainType DEF Chat
  <2>2. lines' \in [lobby : 0..MaxLines, chat : 0..MaxChats,
                    action : 0..MaxActions]
    BY <1>3, LinesAssumption DEF Chat, TypeOK, ClientTypeOK
  <2> QED
    BY <1>3, <2>1, <2>2 DEF Chat, TypeOK, ClientTypeOK, TransportTypeOK
<1>4. CASE ChooseJob(c)
  <2>1. PICK job \in CharacterClass :
               Post(c, [id |-> "C_JOB_CHOSEN", job |-> job])
    BY <1>4 DEF ChooseJob
  <2>2. [id |-> "C_JOB_CHOSEN", job |-> job] \in ToServer
    BY DEF ToServer
  <2>3. toServer' \in [Clients -> Seq(ToServer)]
    BY <2>1, <2>2, PostType
  <2> QED
    BY <1>4, <2>3
       DEF ChooseJob, EndTurn, TypeOK, ClientTypeOK, TransportTypeOK
<1>5. CASE TakeAction(c)
  <2>1. PICK action \in Action, target \in Targets(c) :
               Post(c, [id |-> "C_ACTION_TAKEN", action |-> action,
                        target |-> target])
    BY <1>5 DEF TakeAction
  <2>2. target \in Names
    BY NamesAssumption DEF Targets
  <2>3. [id |-> "C_ACTION_TAKEN", action |-> action, target |-> target]
          \in ToServer
    BY <2>2 DEF ToServer
  <2>4. toServer' \in [Clients -> Seq(ToServer)]
    BY <2>1, <2>3, PostType
  <2>5. lines' \in [lobby : 0..MaxLines, chat : 0..MaxChats,
                    action : 0..MaxActions]
    BY <1>5, LinesAssumption DEF TakeAction, TypeOK, ClientTypeOK
  <2> QED
    BY <1>5, <2>4, <2>5
       DEF TakeAction, EndTurn, TypeOK, ClientTypeOK, TransportTypeOK
<1>6. CASE WasteTurn(c)
  BY <1>6 DEF WasteTurn, EndTurn, TypeOK, ClientTypeOK, TransportTypeOK,
              transportVars
<1>7. CASE Ask(c)
  <2>1. toServer' \in [Clients -> Seq(ToServer)]
    BY <1>7, PostType, PlainType DEF Ask
  <2>2. lines' \in [lobby : 0..MaxLines, chat : 0..MaxChats,
                    action : 0..MaxActions]
    BY <1>7, LinesAssumption DEF Ask, TypeOK, ClientTypeOK
  <2> QED
    BY <1>7, <2>1, <2>2 DEF Ask, TypeOK, ClientTypeOK, TransportTypeOK
<1> QED BY <1>1, <1>2, <1>3, <1>4, <1>5, <1>6, <1>7 DEF InputHandler

\* What RakNet and the players' machines do.
LEMMA EnvironmentType ==
  ASSUME TypeOK, NEW c \in Clients, Environment(c)
  PROVE  TypeOK'
<1>0. /\ link \in [Clients -> LinkState]
      /\ toServer \in [Clients -> Seq(ToServer)]
      /\ toClient \in [Clients -> Seq(ToClient)]
  BY DEF TypeOK, TransportTypeOK
<1>1. UNCHANGED <<serverVars, clientVars>>
  BY DEF Environment
<1>2. ServerTypeOK' /\ ClientTypeOK'
  BY <1>1 DEF TypeOK, ServerTypeOK, ClientTypeOK, serverVars, clientVars
<1>3. CASE Accept(c, Listening)
  <2>1. /\ Append(toServer[c], Plain("ID_NEW_INCOMING_CONNECTION"))
             \in Seq(ToServer)
        /\ Append(toClient[c], Plain("ID_CONNECTION_REQUEST_ACCEPTED"))
             \in Seq(ToClient)
    BY <1>0, PlainType, AppendProperties
  <2> QED BY <1>0, <1>2, <1>3, <2>1
             DEF Accept, TypeOK, TransportTypeOK, LinkState
<1>4. CASE Refuse(c, Listening)
  BY <1>0, <1>2, <1>4 DEF Refuse, TypeOK, TransportTypeOK, LinkState
<1>5. CASE Vanish(c)
  <2>1. PICK kept \in Prefixes(toServer[c]) :
               toServer' = [toServer EXCEPT ![c] = kept]
    BY <1>5 DEF Vanish
  <2>2. kept \in Seq(ToServer)
    BY <1>0, PrefixesAreSequences
  <2>3. toServer' \in [Clients -> Seq(ToServer)]
    BY <1>0, <2>1, <2>2
  <2>4. toClient' \in [Clients -> Seq(ToClient)]
    BY <1>0, <1>5, EmptySeq DEF Vanish
  <2> QED BY <1>0, <1>2, <1>5, <2>3, <2>4
             DEF Vanish, TypeOK, TransportTypeOK, LinkState
<1>6. CASE TimeOut(c)
  <2>1. Append(toServer[c], Plain("ID_CONNECTION_LOST")) \in Seq(ToServer)
    BY <1>0, PlainType, AppendProperties
  <2> QED BY <1>0, <1>2, <1>6, <2>1
             DEF TimeOut, TypeOK, TransportTypeOK, LinkState
<1> QED BY <1>3, <1>4, <1>5, <1>6 DEF Environment

\* The packet thread of the server, whatever it handles.
LEMMA PacketHandlerType ==
  ASSUME TypeOK, NEW c \in Clients, PacketHandler(c)
  PROVE  ServerTypeOK' /\ TransportTypeOK'
BY OnIncomingConnectionType, OnConnectionLostType, OnClientIntroType,
   OnClientChatReceivedType, OnPlayerReadyType, OnPlayerUnreadyType,
   OnPlayerJobChosenType, OnPlayerActionTakenType, OnRequestType
   DEF PacketHandler

\* The initial state is well typed.
LEMMA TypeInit == Init => TypeOK
<1> SUFFICES ASSUME Init PROVE TypeOK
  OBVIOUS
<1>1. NewPlayer \in Player
  BY GameAssumption DEF NewPlayer, Player
<1>2. ServerTypeOK
  BY <1>1 DEF Init, ServerInit, ServerTypeOK, NetworkState, GameState,
              UnsignedShort
<1>3. ClientTypeOK
  BY GameAssumption, LinesAssumption
     DEF Init, ClientInit, ClientTypeOK, NetworkState, GameState
<1>4. TransportTypeOK
  BY EmptySeq DEF Init, TransportInit, TransportTypeOK, LinkState
<1> QED BY <1>2, <1>3, <1>4 DEF TypeOK

\* Every step keeps the types.
LEMMA TypeStep == TypeOK /\ [Next]_vars => TypeOK'
<1> SUFFICES ASSUME TypeOK, [Next]_vars PROVE TypeOK'
  OBVIOUS
<1>1. UNCHANGED serverVars => ServerTypeOK'
  BY DEF TypeOK, ServerTypeOK, serverVars
<1>2. UNCHANGED clientVars => ClientTypeOK'
  BY DEF TypeOK, ClientTypeOK, clientVars
<1>3. UNCHANGED transportVars => TransportTypeOK'
  BY DEF TypeOK, TransportTypeOK, transportVars
<1>4. CASE GameLoop /\ UNCHANGED clientVars
  <2>1. ServerTypeOK' /\ UNCHANGED transportVars
    BY <1>4 DEF GameLoop, TypeOK, ServerTypeOK, NetworkState
  <2> QED BY <1>2, <1>3, <1>4, <2>1 DEF TypeOK
<1>5. ASSUME NEW c \in Clients, PacketHandler(c), UNCHANGED clientVars
      PROVE  TypeOK'
  BY <1>2, <1>5, PacketHandlerType DEF TypeOK
<1>6. ASSUME NEW c \in Clients, UNCHANGED serverVars,
             \/ Connect(c) \/ SetPending(c) \/ ClientPackets(c)
             \/ InputHandler(c)
      PROVE  TypeOK'
  <2>1. ClientTypeOK' /\ TransportTypeOK'
    BY <1>6, ConnectType, SetPendingType, ClientPacketsType, InputHandlerType
  <2> QED BY <1>1, <1>6, <2>1 DEF TypeOK
<1>7. ASSUME NEW c \in Clients, Environment(c)
      PROVE  TypeOK'
  BY <1>7, EnvironmentType
<1>8. CASE UNCHANGED vars
  BY <1>1, <1>2, <1>3, <1>8 DEF vars, TypeOK
<1> QED BY <1>4, <1>5, <1>6, <1>7, <1>8 DEF Next

\* Whatever the server, the clients and the transport do, every variable keeps
\* its type; in particular the turn is always handed to a player in the map and
\* every packet has the payload its handler reads.
THEOREM TypeCorrect == Spec => []TypeOK
BY TypeInit, TypeStep, PTL DEF Spec

-------------------------------------------------------------------------------
(* The turn requests.  None trips an assert or leaves an iterator at       *)
(* end(), however often the game is started: TurnInv is inductive, given   *)
(* TypeOK.  First the queues.                                              *)

\* A packet sent to everybody that may be on its way to everybody, and one
\* sent to t that may be on its way to t, leave the queues as they should be.
LEMMA SendNews ==
  ASSUME NEW q, q \in [Clients -> Seq(ToClient)],
         NEW S, \A k \in Clients : q[k] \in Seq(S[k])
  PROVE  /\ \A m : (\A k \in Clients : m \in S[k])
                     => \A k \in Clients : Broadcast(q, m)[k] \in Seq(S[k])
         /\ \A m : \A t \in Clients : m \in S[t]
                     => \A k \in Clients : SendTo(q, t, m)[k] \in Seq(S[k])
<1>1. ASSUME NEW m, NEW k \in Clients, m \in S[k]
      PROVE  Append(q[k], m) \in Seq(S[k])
  BY <1>1, AppendProperties
<1> QED BY <1>1 DEF Broadcast, SendTo

\* The server has taken a packet: it is one c may have sent, and the queues
\* that are left hold no other.
LEMMA ReceiveRequest ==
  ASSUME TypeOK, TurnInv, NEW c \in Clients, NEW id, Receive(c, id)
  PROVE  /\ Head(toServer[c]) \in Requests(c)
         /\ Tail(toServer[c]) \in Seq(Requests(c))
         /\ Consume(c) => \A k \in Clients : toServer'[k] \in Seq(Requests(k))
<1>1. toServer[c] \in Seq(Requests(c)) /\ toServer[c] # <<>>
  BY DEF TurnInv, Receive
<1>2. /\ Head(toServer[c]) \in Requests(c)
      /\ Tail(toServer[c]) \in Seq(Requests(c))
  BY <1>1, HeadTailType
<1>3. Consume(c) => \A k \in Clients : toServer'[k] \in Seq(Requests(k))
  BY <1>2 DEF Consume, TurnInv, TypeOK, TransportTypeOK
<1> QED BY <1>2, <1>3

\* A client has taken a packet.
LEMMA TakeNews ==
  ASSUME TypeOK, TurnInv, NEW c \in Clients, NEW id, Take(c, id)
  PROVE  /\ Head(toClient[c]) \in News(c)
         /\ Head(toClient[c]).id = id
         /\ \A k \in Clients : toClient'[k] \in Seq(News(k))
<1>1. toClient[c] \in Seq(News(c)) /\ toClient[c] # <<>>
  BY DEF TurnInv, Take
<1>2. Head(toClient[c]) \in News(c) /\ Tail(toClient[c]) \in Seq(News(c))
  BY <1>1, HeadTailType
<1>3. \A k \in Clients : toClient'[k] \in Seq(News(k))
  BY <1>2 DEF Take, TurnInv, TypeOK, TransportTypeOK
<1> QED BY <1>2, <1>3 DEF Take

\* A client has sent a packet it may send.
LEMMA PostRequest ==
  ASSUME TypeOK, TurnInv, NEW c \in Clients, NEW m \in Requests(c), Post(c, m)
  PROVE  \A k \in Clients : toServer'[k] \in Seq(Requests(k))
<1>1. Append(toServer[c], m) \in Seq(Requests(c))
  BY AppendProperties DEF TurnInv
<1> QED BY <1>1 DEF Post, TurnInv, TypeOK, TransportTypeOK

\* The packets that neither use nor give the turn and name nobody.
LEMMA PlainNews ==
  /\ \A c \in Clients :
       \A id \in {"ID_NEW_INCOMING_CONNECTION", "ID_CONNECTION_LOST",
                  "C_INTRO", "C_READY", "C_UNREADY", "C_CHAT",
                  "C_PLAYER_LIST_REQUEST", "C_PLAYER_STATS_REQUEST"} :
         Plain(id) \in Requests(c)
  /\ \A c \in Clients :
       \A id \in {"ID_CONNECTION_REQUEST_ACCEPTED", "S_GAME_STARTED",
                  "S_REPLY_PLAYER_LIST_REQUEST",
                  "S_REPLY_PLAYER_STATS_REQUEST", "text"} :
         Plain(id) \in News(c)
BY PlainType DEF Plain, Requests, News, TurnRequests

-------------------------------------------------------------------------------
(* Steps.                                                                  *)

\* Whatever was sound stays so while the map of players only grows and the
\* turn stays in it.
LEMMA NewsStay ==
  ASSUME players \subseteq players',
         currentPlayerTurn \in players => currentPlayerTurn' \in players'
  PROVE  /\ \A c : MayPlay(c) => MayPlay(c)'
         /\ \A n : Known(n) => Known(n)'
         /\ \A c \in Clients : Seq(Requests(c)) \subseteq Seq(Requests(c)')
         /\ \A c \in Clients : Seq(News(c)) \subseteq Seq(News(c)')
<1>1. \A c : MayPlay(c) => MayPlay(c)'
  BY DEF MayPlay
<1>2. \A n : Known(n) => Known(n)'
  BY DEF Known, WithName
<1>3. ASSUME NEW c \in Clients
      PROVE  Requests(c) \subseteq Requests(c)' /\ News(c) \subseteq News(c)'
  BY <1>1, <1>2 DEF Requests, News
<1> QED BY <1>1, <1>2, <1>3, SeqMonotonic

\* What the server's handlers have to show; the clients do not move.
LEMMA ServerStep ==
  ASSUME TurnInv, UNCHANGED clientVars,
         players \subseteq players',
         currentPlayerTurn \in players => currentPlayerTurn' \in players',
         \A k \in Clients : toServer'[k] \in Seq(Requests(k)),
         \A k \in Clients : toClient'[k] \in Seq(News(k)')
  PROVE  TurnInv'
<1>1. ASSUME NEW c \in Clients
      PROVE  /\ toServer'[c] \in Seq(Requests(c)')
             /\ myTurn'[c] => MayPlay(c)'
             /\ \A e \in view'[c] : Known(e.name)'
  BY NewsStay DEF TurnInv, clientVars
<1> QED BY <1>1 DEF TurnInv

\* What the clients have to show; the server does not move.
LEMMA ClientStep ==
  ASSUME UNCHANGED serverVars,
         \A k \in Clients : toServer'[k] \in Seq(Requests(k)),
         \A k \in Clients : toClient'[k] \in Seq(News(k)),
         \A k \in Clients : myTurn'[k] => MayPlay(k),
         \A k \in Clients : \A e \in view'[k] : Known(e.name)
  PROVE  TurnInv'
<1>1. players' = players /\ currentPlayerTurn' = currentPlayerTurn
  BY DEF serverVars
<1>2. ASSUME NEW c \in Clients
      PROVE  /\ toServer'[c] \in Seq(Requests(c)')
             /\ toClient'[c] \in Seq(News(c)')
             /\ myTurn'[c] => MayPlay(c)'
             /\ \A e \in view'[c] : Known(e.name)'
  BY <1>1, NewsStay
<1> QED BY <1>2 DEF TurnInv

\* The packets with the state of the game say nothing of who may play, and
\* name only players of the map.
LEMMA UpdateNews ==
  ASSUME TypeOK, NEW p \in [Clients -> Player], NEW c \in Clients
  PROVE  /\ Over \in News(c)
         /\ Main(p) \in News(c)
         /\ \A k \in Clients : HealthUpdate(p, k) \in News(c)
<1>1. players \in SUBSET Clients
  BY DEF TypeOK, ServerTypeOK
<1>2. Over \in News(c)
  BY <1>1, UpdateType DEF Over, News
<1>3. \A e \in Snapshot(p) : Known(e.name)
  BY DEF Snapshot, Known, WithName
<1>4. Main(p) \in News(c)
  <2>1. /\ Main(p).id = "S_UPDATE_GAME_STATE"
        /\ Main(p).players = Snapshot(p)
    BY DEF Main
  <2>2. Main(p) \in ToClient
    BY <1>1, UpdateType
  <2> QED BY <1>3, <2>1, <2>2 DEF News
<1>5. \A k \in Clients : HealthUpdate(p, k) \in News(c)
  BY <1>1, UpdateType DEF HealthUpdate, News
<1> QED BY <1>2, <1>4, <1>5

\* NextTurn moves the turn inside the map and tells nobody else of it.
LEMMA NextTurnNews ==
  ASSUME TypeOK, NEW p \in [Clients -> Player], NEW gs,
         NEW q, q \in [Clients -> Seq(ToClient)],
         \A k \in Clients : q[k] \in Seq(News(k)),
         NextTurn(gs, p, q), UNCHANGED players
  PROVE  /\ currentPlayerTurn \in players => currentPlayerTurn' \in players'
         /\ \A k \in Clients : toClient'[k] \in Seq(News(k)')
<1> DEFINE living == {k \in players : ~p[k].dead}
           next == NextAlive(living)
           new == [k \in Clients |-> News(k)']
<1>1. /\ living \in SUBSET Clients
      /\ players \in SUBSET Clients
      /\ living \subseteq players
  BY DEF TypeOK, ServerTypeOK
<1>2. CASE /\ living = {}
           /\ toClient' = q
           /\ UNCHANGED currentPlayerTurn
  BY <1>2, NewsStay
<1>3. CASE /\ living # {} /\ living = {next}
           /\ currentPlayerTurn' = next
           /\ toClient' = GameOver(next, q)
  <2>1. next \in players'
    BY <1>1, <1>3
  <2>2. \A k \in Clients : q[k] \in Seq(new[k])
    BY <1>3, <2>1, NewsStay
  <2>3. \A k \in Clients : Over \in new[k]
    <3>1. Over \in ToClient
      BY <1>1, UpdateType
    <3> QED BY <3>1 DEF Over, News
  <2> HIDE DEF new, next
  <2>4. \A k \in Clients : toClient'[k] \in Seq(new[k])
    BY <1>3, <2>2, <2>3, SendNews DEF GameOver
  <2> QED BY <1>3, <2>1, <2>4 DEF new
<1>4. CASE /\ living # {} /\ living # {next}
           /\ currentPlayerTurn' = next
           /\ toClient' = GiveTurn(q, next)
  <2>1. next \in players' /\ next \in Clients
    BY <1>1, <1>4, NextAliveIsAlive
  <2>2. \A k \in Clients : q[k] \in Seq(new[k])
    BY <1>4, <2>1, NewsStay
  <2>3. Plain("S_TAKE_TURN") \in new[next]
    BY <1>4, <2>1, PlainType DEF Plain, News, MayPlay
  <2> HIDE DEF new, next
  <2>4. \A k \in Clients : toClient'[k] \in Seq(new[k])
    BY <1>4, <2>1, <2>2, <2>3, SendNews DEF GiveTurn
  <2> QED BY <1>4, <2>1, <2>4 DEF new
<1> QED BY <1>2, <1>3, <1>4 DEF NextTurn


-------------------------------------------------------------------------------
(* The server's handlers.                                                  *)

\* Handlers that send nothing: connection events, introductions, chat, an
\* unready, and whatever fails an assert.
LEMMA QuietHandlers ==
  ASSUME TypeOK, TurnInv, UNCHANGED clientVars, NEW c \in Clients,
         players \subseteq players', UNCHANGED <<currentPlayerTurn, toClient>>,
         \A k \in Clients : toServer'[k] \in Seq(Requests(k))
  PROVE  TurnInv'
<1>1. \A k \in Clients : toClient'[k] \in Seq(News(k)')
  BY NewsStay DEF TurnInv
<1> QED BY <1>1, ServerStep

\* A kicked newcomer enters the map as everybody else, and what is left of
\* its packets is a prefix.
LEMMA OnClientIntroTurn ==
  ASSUME TypeOK, TurnInv, UNCHANGED clientVars, NEW c \in Clients,
         OnClientIntro(c)
  PROVE  TurnInv'
<1> DEFINE rest == Tail(toServer[c])
<1>1. rest \in Seq(Requests(c))
  BY ReceiveRequest DEF OnClientIntro
<1>2. \A k \in Clients : toServer'[k] \in Seq(Requests(k))
  <2>1. CASE \E kept \in Prefixes(rest) :
               toServer' = [toServer EXCEPT ![c] = kept]
    <3>1. \A kept \in Prefixes(rest) : kept \in Seq(Requests(c))
      BY <1>1, PrefixesAreSequences
    <3> QED BY <2>1, <3>1 DEF TurnInv, TypeOK, TransportTypeOK
  <2>2. CASE Consume(c)
    BY <2>2, ReceiveRequest DEF OnClientIntro
  <2> QED BY <2>1, <2>2 DEF OnClientIntro
<1> QED BY <1>2, QuietHandlers DEF OnClientIntro

\* The start of the game, wanted or not, gives the first turn to the first
\* player of the map.
LEMMA OnPlayerReadyTurn ==
  ASSUME TypeOK, TurnInv, UNCHANGED clientVars, NEW c \in Clients,
         OnPlayerReady(c)
  PROVE  TurnInv'
<1> DEFINE p     == [player EXCEPT ![c].ready = TRUE]
           first == Begin(players)
           new   == [k \in Clients |-> News(k)']
           begun == Broadcast(toClient, Plain("S_GAME_STARTED"))
<1>1. \A k \in Clients : toServer'[k] \in Seq(Requests(k))
  BY ReceiveRequest DEF OnPlayerReady
<1>2. CASE UNCHANGED <<players, currentPlayerTurn, toClient>>
  BY <1>1, <1>2, QuietHandlers
<1>3. CASE c \in players /\ StartGame(p) /\ UNCHANGED players
  <2>1. first \in players /\ first \in Clients
    BY <1>3, BeginIsClient DEF TypeOK, ServerTypeOK
  <2>2. currentPlayerTurn' = first /\ players' = players
    BY <1>3 DEF StartGame
  <2>3. \A k \in Clients : /\ toClient[k] \in Seq(new[k])
                           /\ Plain("S_GAME_STARTED") \in new[k]
    BY <2>1, <2>2, NewsStay, PlainType DEF TurnInv, Plain, News
  <2>4. Plain("S_TAKE_TURN") \in new[first]
    BY <2>1, <2>2, PlainType DEF Plain, News, MayPlay
  <2>5. begun \in [Clients -> Seq(ToClient)]
    BY <2>1, SendType, PlainType DEF TypeOK, TransportTypeOK
  <2> HIDE DEF new, first
  <2>6. \A k \in Clients : begun[k] \in Seq(new[k])
    BY <2>3, SendNews DEF TypeOK, TransportTypeOK
  <2>7. toClient' = GiveTurn(begun, first)
    BY <1>3 DEF StartGame, first
  <2> HIDE DEF begun
  <2>8. \A k \in Clients : toClient'[k] \in Seq(new[k])
    BY <2>1, <2>4, <2>5, <2>6, <2>7, SendNews DEF GiveTurn
  <2> QED BY <1>1, <2>1, <2>2, <2>8, ServerStep DEF new
<1> QED BY <1>2, <1>3 DEF OnPlayerReady, Abort

\* A chosen character passes the turn to the next player of the map, or to
\* the main game.
LEMMA OnPlayerJobChosenTurn ==
  ASSUME TypeOK, TurnInv, UNCHANGED clientVars, NEW c \in Clients,
         OnPlayerJobChosen(c)
  PROVE  TurnInv'
<1> DEFINE j     == Head(toServer[c]).job
           p     == [player EXCEPT ![c].ready = TRUE, ![c].job = j]
           later == Above(players, currentPlayerTurn)
           next  == Begin(later)
           new   == [k \in Clients |-> News(k)']
<1>0. /\ toClient \in [Clients -> Seq(ToClient)]
      /\ players \in SUBSET Clients
      /\ \A k \in Clients : toClient[k] \in Seq(News(k))
  BY DEF TypeOK, ServerTypeOK, TransportTypeOK, TurnInv
<1>1. \A k \in Clients : toServer'[k] \in Seq(Requests(k))
  BY ReceiveRequest DEF OnPlayerJobChosen
<1>2. CASE UNCHANGED <<players, currentPlayerTurn, toClient>>
  BY <1>1, <1>2, QuietHandlers
<1>3. CASE /\ later # {}
           /\ currentPlayerTurn' = next
           /\ toClient' = GiveTurn(toClient, next)
           /\ UNCHANGED players
  <2>1. next \in players /\ next \in Clients
    <3>1. later \in SUBSET Clients /\ later \subseteq players
      BY <1>0 DEF Above
    <3> HIDE DEF later
    <3> QED BY <1>3, <3>1, BeginIsClient
  <2> HIDE DEF next
  <2>2. \A k \in Clients : toClient[k] \in Seq(new[k])
    BY <1>0, <1>3, <2>1, NewsStay
  <2>3. Plain("S_TAKE_TURN") \in new[next]
    BY <1>3, <2>1, PlainType DEF Plain, News, MayPlay
  <2> HIDE DEF new
  <2>4. \A k \in Clients : toClient'[k] \in Seq(new[k])
    BY <1>0, <1>3, <2>1, <2>2, <2>3, SendNews DEF GiveTurn
  <2> QED BY <1>1, <1>3, <2>1, <2>4, ServerStep DEF new
<1>4. CASE /\ player' = p
           /\ StartMainGame(p)
           /\ UNCHANGED players
  <2>1. p \in [Clients -> Player]
    <3>1. player' \in [Clients -> Player]
      BY OnPlayerJobChosenType DEF ServerTypeOK
    <3> QED BY <1>4, <3>1
  <2> DEFINE q == Broadcast(toClient, Main(p))
  <2> HIDE DEF p
  <2>2. q \in [Clients -> Seq(ToClient)]
    BY <1>0, <2>1, UpdateType, SendType
  <2>3. \A k \in Clients : q[k] \in Seq(News(k))
    <3> DEFINE old == [k \in Clients |-> News(k)]
    <3>1. /\ \A k \in Clients : toClient[k] \in Seq(old[k])
          /\ \A k \in Clients : Main(p) \in old[k]
      BY <1>0, <2>1, UpdateNews
    <3> HIDE DEF old
    <3>2. \A k \in Clients : q[k] \in Seq(old[k])
      BY <1>0, <3>1, SendNews
    <3> QED BY <3>2 DEF old
  <2>4. NextTurn("GS_MAIN", p, q)
    BY <1>4 DEF StartMainGame
  <2> HIDE DEF q
  <2> QED BY <1>1, <1>4, <2>1, <2>2, <2>3, <2>4, NextTurnNews, ServerStep
<1> QED BY <1>2, <1>3, <1>4 DEF OnPlayerJobChosen, Abort

\* An action tells everybody of its target and passes the turn on.
LEMMA OnPlayerActionTakenTurn ==
  ASSUME TypeOK, TurnInv, UNCHANGED clientVars, NEW c \in Clients,
         OnPlayerActionTaken(c)
  PROVE  TurnInv'
<1> DEFINE m      == Head(toServer[c])
           target == GetPlayerWithName(m.target)
<1>0. /\ toClient \in [Clients -> Seq(ToClient)]
      /\ players \in SUBSET Clients
      /\ player \in [Clients -> Player]
      /\ \A k \in Clients : toClient[k] \in Seq(News(k))
  BY DEF TypeOK, ServerTypeOK, TransportTypeOK, TurnInv
<1>1. \A k \in Clients : toServer'[k] \in Seq(Requests(k))
  BY ReceiveRequest DEF OnPlayerActionTaken
<1>2. CASE UNCHANGED <<players, currentPlayerTurn, toClient>>
  BY <1>1, <1>2, QuietHandlers
<1>3. CASE /\ WithName(m.target) # {}
           /\ \E diff \in HealthChange(m.action) :
                LET p == ModifyHealth(player, target, diff)
                IN  /\ player' = p
                    /\ NextTurn(gameState, p,
                                Broadcast(toClient, HealthUpdate(p, target)))
           /\ UNCHANGED players
  <2>1. target \in Clients
    <3>1. WithName(m.target) \in SUBSET Clients
      BY <1>0 DEF WithName
    <3> QED BY <1>3, <3>1, BeginIsClient DEF GetPlayerWithName
  <2> HIDE DEF target, m
  <2>2. PICK diff \in HealthChange(m.action) :
               LET p == ModifyHealth(player, target, diff)
               IN  /\ player' = p
                   /\ NextTurn(gameState, p,
                               Broadcast(toClient, HealthUpdate(p, target)))
    BY <1>3
  <2> DEFINE p == ModifyHealth(player, target, diff)
             q == Broadcast(toClient, HealthUpdate(p, target))
  <2>3. player' = p /\ NextTurn(gameState, p, q)
    BY <2>2
  <2>4. p \in [Clients -> Player]
    <3>1. player' \in [Clients -> Player]
      BY OnPlayerActionTakenType DEF ServerTypeOK
    <3> QED BY <2>3, <3>1
  <2> HIDE DEF p
  <2>5. q \in [Clients -> Seq(ToClient)]
    BY <1>0, <2>1, <2>4, UpdateType, SendType
  <2>6. \A k \in Clients : q[k] \in Seq(News(k))
    <3> DEFINE old == [k \in Clients |-> News(k)]
    <3>1. /\ \A k \in Clients : toClient[k] \in Seq(old[k])
          /\ \A k \in Clients : HealthUpdate(p, target) \in old[k]
      BY <1>0, <2>1, <2>4, UpdateNews
    <3> HIDE DEF old
    <3>2. \A k \in Clients : q[k] \in Seq(old[k])
      BY <1>0, <3>1, SendNews
    <3> QED BY <3>2 DEF old
  <2> HIDE DEF q
  <2> QED BY <1>1, <1>3, <2>3, <2>4, <2>5, <2>6, NextTurnNews, ServerStep
<1> QED BY <1>2, <1>3 DEF OnPlayerActionTaken, Abort

\* A packet that neither gives the turn nor names anybody, sent to everybody
\* or to the client whose packet was taken, changes nothing for the turn.
LEMMA RelayTurn ==
  ASSUME TypeOK, TurnInv, UNCHANGED clientVars, NEW c \in Clients, NEW sent,
         Receive(c, sent), Consume(c), UNCHANGED serverVars,
         NEW id \in {"S_REPLY_PLAYER_LIST_REQUEST",
                    "S_REPLY_PLAYER_STATS_REQUEST", "text"},
         \/ toClient' = Broadcast(toClient, Plain(id))
         \/ toClient' = SendTo(toClient, c, Plain(id))
  PROVE  TurnInv'
<1> DEFINE old == [k \in Clients |-> News(k)]
<1>1. /\ toClient \in [Clients -> Seq(ToClient)]
      /\ \A k \in Clients : toClient[k] \in Seq(old[k])
      /\ \A k \in Clients : Plain(id) \in old[k]
  BY PlainNews DEF TypeOK, TransportTypeOK, TurnInv
<1>2. \A k \in Clients : toClient'[k] \in Seq(News(k))
  <2> HIDE DEF old
  <2>1. \A k \in Clients : toClient'[k] \in Seq(old[k])
    BY <1>1, SendNews
  <2> QED BY <2>1 DEF old
<1>3. players' = players /\ currentPlayerTurn' = currentPlayerTurn
  BY DEF serverVars
<1>4. \A k \in Clients : toClient'[k] \in Seq(News(k)')
  BY <1>2, <1>3, NewsStay
<1> QED BY <1>3, <1>4, ReceiveRequest, ServerStep

\* The packet thread of the server, whatever it handles.
LEMMA PacketHandlerTurn ==
  ASSUME PlainNames, TypeOK, TurnInv, UNCHANGED clientVars,
         NEW c \in Clients, PacketHandler(c)
  PROVE  TurnInv'
<1>1. CASE OnIncomingConnection(c)
  BY <1>1, ReceiveRequest, QuietHandlers DEF OnIncomingConnection
<1>2. CASE OnConnectionLost(c)
  BY <1>2, ReceiveRequest, QuietHandlers DEF OnConnectionLost, serverVars
<1>3. CASE OnClientChatReceived(c)
  <2>1. Plain(Lead[c]) = Plain("text")
    BY DEF PlainNames
  <2>2. CASE Abort
    BY <1>3, <2>2, ReceiveRequest, QuietHandlers
       DEF OnClientChatReceived, Abort
  <2>3. CASE /\ toClient' = Broadcast(toClient, Plain(Lead[c]))
             /\ UNCHANGED serverVars
    <3>1. Receive(c, "C_CHAT") /\ Consume(c)
      BY <1>3 DEF OnClientChatReceived
    <3> QED BY <2>1, <2>3, <3>1, RelayTurn
  <2> QED BY <1>3, <2>2, <2>3 DEF OnClientChatReceived
<1>4. CASE OnPlayerUnready(c)
  BY <1>4, ReceiveRequest, QuietHandlers DEF OnPlayerUnready, Abort
<1>5. CASE OnPlayerListRequest(c) \/ OnPlayerStatsRequest(c)
  BY <1>5, RelayTurn DEF OnPlayerListRequest, OnPlayerStatsRequest
<1> QED
  BY <1>1, <1>2, <1>3, <1>4, <1>5, OnClientIntroTurn, OnPlayerReadyTurn,
     OnPlayerJobChosenTurn, OnPlayerActionTakenTurn
     DEF PacketHandler

-------------------------------------------------------------------------------
(* The clients and the rest.                                               *)

\* The packet thread of a client: the turn and the list of players come from
\* packets that were on their way to it.
LEMMA ClientPacketsTurn ==
  ASSUME TypeOK, TurnInv, UNCHANGED serverVars, NEW c \in Clients,
         ClientPackets(c)
  PROVE  TurnInv'
<1> DEFINE m == Head(toClient[c])
<1>0. \A k \in Clients : /\ toServer[k] \in Seq(Requests(k))
                         /\ toClient[k] \in Seq(News(k))
                         /\ myTurn[k] => MayPlay(k)
                         /\ \A e \in view[k] : Known(e.name)
  BY DEF TurnInv
<1>1. /\ myTurn \in [Clients -> BOOLEAN]
      /\ view \in [Clients -> SUBSET Entry]
  BY DEF TypeOK, ClientTypeOK
<1>2. CASE OnConnectionAccepted(c) \/ OnGameStart(c)
  <2>1. \A k \in Clients : toClient'[k] \in Seq(News(k))
    BY <1>2, TakeNews DEF OnConnectionAccepted, OnGameStart
  <2> QED BY <1>0, <1>2, <2>1, ClientStep DEF OnConnectionAccepted, OnGameStart
<1>3. CASE SendIntro(c)
  <2>1. \A k \in Clients : toServer'[k] \in Seq(Requests(k))
    BY <1>3, PlainNews, PostRequest DEF SendIntro
  <2> QED BY <1>0, <1>3, <2>1, ClientStep DEF SendIntro
<1>4. CASE OnTakeTurn(c)
  <2>1. Take(c, "S_TAKE_TURN")
    BY <1>4 DEF OnTakeTurn
  <2>2. MayPlay(c)
    <3>1. m \in News(c) /\ m.id = "S_TAKE_TURN"
      BY <2>1, TakeNews
    <3> QED BY <3>1 DEF News
  <2>3. \A k \in Clients : myTurn'[k] => MayPlay(k)
    BY <1>0, <1>1, <1>4, <2>2 DEF OnTakeTurn
  <2> QED BY <1>0, <1>4, <2>1, <2>3, TakeNews, ClientStep DEF OnTakeTurn
<1>5. CASE OnGameStateUpdate(c)
  <2>1. Take(c, "S_UPDATE_GAME_STATE")
    BY <1>5 DEF OnGameStateUpdate
  <2>2. m.state = "GS_MAIN" => \A e \in m.players : Known(e.name)
    <3>1. m \in News(c) /\ m.id = "S_UPDATE_GAME_STATE"
      BY <2>1, TakeNews
    <3> QED BY <3>1 DEF News
  <2>3. \A k \in Clients : \A e \in view'[k] : Known(e.name)
    <3>1. view' = IF m.state = "GS_MAIN"
                  THEN [view EXCEPT ![c] = @ \cup m.players]
                  ELSE view
      BY <1>5 DEF OnGameStateUpdate
    <3> HIDE DEF m
    <3> QED BY <1>0, <1>1, <2>2, <3>1
  <2> QED BY <1>0, <1>5, <2>1, <2>3, TakeNews, ClientStep DEF OnGameStateUpdate
<1>6. CASE OnPlayersHealthUpdated(c)
  <2>1. Take(c, "S_UPDATE_PLAYER_HP")
    BY <1>6 DEF OnPlayersHealthUpdated
  <2>2. \A k \in Clients : \A e \in view'[k] : Known(e.name)
    <3>1. \A e \in Entry : UpdatedEntry(e, m.health).name = e.name
      BY DEF Entry, UpdatedEntry
    <3>2. \A k \in Clients : \A e \in view'[k] :
             \E f \in view[k] : e.name = f.name
      BY <1>1, <1>6, <3>1 DEF OnPlayersHealthUpdated
    <3> QED BY <1>0, <3>2
  <2> QED
    BY <1>0, <1>6, <2>1, <2>2, TakeNews, ClientStep DEF OnPlayersHealthUpdated
<1>7. CASE ShowReply(c)
  <2>1. \A k \in Clients : toClient'[k] \in Seq(News(k))
    BY <1>7, TakeNews DEF ShowReply
  <2> QED BY <1>0, <1>7, <2>1, ClientStep DEF ShowReply, clientVars
<1> QED BY <1>2, <1>3, <1>4, <1>5, <1>6, <1>7 DEF ClientPackets

\* The input thread of a client: a request is sent on turn only, and aimed at
\* the player who types it or at a name of the list.
LEMMA InputHandlerTurn ==
  ASSUME TypeOK, TurnInv, UNCHANGED serverVars, NEW c \in Clients,
         InputHandler(c)
  PROVE  TurnInv'
<1>0. \A k \in Clients : /\ toServer[k] \in Seq(Requests(k))
                         /\ toClient[k] \in Seq(News(k))
                         /\ myTurn[k] => MayPlay(k)
                         /\ \A e \in view[k] : Known(e.name)
  BY DEF TurnInv
<1>1. myTurn \in [Clients -> BOOLEAN]
  BY DEF TypeOK, ClientTypeOK
<1>2. CASE Ready(c) \/ Unready(c) \/ Chat(c) \/ Ask(c)
  <2>1. \A k \in Clients : toServer'[k] \in Seq(Requests(k))
    BY <1>2, PlainNews, PostRequest DEF Ready, Unready, Chat, Ask
  <2> QED BY <1>0, <1>2, <2>1, ClientStep DEF Ready, Unready, Chat, Ask
<1>3. CASE ChooseJob(c)
  <2>1. PICK job \in CharacterClass :
               Post(c, [id |-> "C_JOB_CHOSEN", job |-> job])
    BY <1>3 DEF ChooseJob
  <2>2. MayPlay(c)
    BY <1>0, <1>3 DEF ChooseJob
  <2>3. [id |-> "C_JOB_CHOSEN", job |-> job] \in Requests(c)
    BY <2>2 DEF Requests, ToServer
  <2>4. \A k \in Clients : toServer'[k] \in Seq(Requests(k))
    BY <2>1, <2>3, PostRequest
  <2>5. \A k \in Clients : myTurn'[k] => MayPlay(k)
    BY <1>0, <1>1, <1>3 DEF ChooseJob, EndTurn
  <2> QED BY <1>0, <1>3, <2>4, <2>5, ClientStep DEF ChooseJob
<1>4. CASE TakeAction(c)
  <2>1. PICK action \in Action, target \in Targets(c) :
               Post(c, [id |-> "C_ACTION_TAKEN", action |-> action,
                        target |-> target])
    BY <1>4 DEF TakeAction
  <2>2. MayPlay(c)
    BY <1>0, <1>4 DEF TakeAction
  <2>3. Known(target) /\ target \in Names
    <3>1. Known(Name[c])
      BY <2>2 DEF MayPlay, Known, WithName
    <3> QED BY <1>0, <3>1, NamesAssumption DEF Targets
  <2>4. [id |-> "C_ACTION_TAKEN", action |-> action, target |-> target]
          \in Requests(c)
    BY <2>2, <2>3 DEF Requests, ToServer
  <2>5. \A k \in Clients : toServer'[k] \in Seq(Requests(k))
    BY <2>1, <2>4, PostRequest
  <2>6. \A k \in Clients : myTurn'[k] => MayPlay(k)
    BY <1>0, <1>1, <1>4 DEF TakeAction, EndTurn
  <2> QED BY <1>0, <1>4, <2>5, <2>6, ClientStep DEF TakeAction
<1>5. CASE WasteTurn(c)
  <2>1. \A k \in Clients : myTurn'[k] => MayPlay(k)
    BY <1>0, <1>1, <1>5 DEF WasteTurn, EndTurn
  <2> QED BY <1>0, <1>5, <2>1, ClientStep DEF WasteTurn, transportVars
<1> QED BY <1>2, <1>3, <1>4, <1>5 DEF InputHandler

\* RakNet adds packets of its own; a lost client leaves a prefix of its own.
LEMMA EnvironmentTurn ==
  ASSUME TypeOK, TurnInv, NEW c \in Clients, Environment(c)
  PROVE  TurnInv'
<1>0. \A k \in Clients : /\ toServer[k] \in Seq(Requests(k))
                         /\ toClient[k] \in Seq(News(k))
                         /\ myTurn[k] => MayPlay(k)
                         /\ \A e \in view[k] : Known(e.name)
  BY DEF TurnInv
<1>1. /\ toServer \in [Clients -> Seq(ToServer)]
      /\ toClient \in [Clients -> Seq(ToClient)]
  BY DEF TypeOK, TransportTypeOK
<1>2. UNCHANGED <<serverVars, clientVars>>
  BY DEF Environment
<1>3. /\ \A k \in Clients : toServer'[k] \in Seq(Requests(k))
      /\ \A k \in Clients : toClient'[k] \in Seq(News(k))
  <2>1. CASE Accept(c, Listening)
    <3>1. /\ Append(toServer[c], Plain("ID_NEW_INCOMING_CONNECTION"))
               \in Seq(Requests(c))
          /\ Append(toClient[c], Plain("ID_CONNECTION_REQUEST_ACCEPTED"))
               \in Seq(News(c))
      BY <1>0, PlainNews, AppendProperties
    <3> QED BY <1>0, <1>1, <2>1, <3>1 DEF Accept
  <2>2. CASE Refuse(c, Listening)
    BY <1>0, <2>2 DEF Refuse
  <2>3. CASE Vanish(c)
    <3>1. \A kept \in Prefixes(toServer[c]) : kept \in Seq(Requests(c))
      BY <1>0, PrefixesAreSequences
    <3>2. << >> \in Seq(News(c))
      BY EmptySeq
    <3> QED BY <1>0, <1>1, <2>3, <3>1, <3>2 DEF Vanish
  <2>4. CASE TimeOut(c)
    <3>1. Append(toServer[c], Plain("ID_CONNECTION_LOST")) \in Seq(Requests(c))
      BY <1>0, PlainNews, AppendProperties
    <3> QED BY <1>0, <1>1, <2>4, <3>1 DEF TimeOut
  <2> QED BY <2>1, <2>2, <2>3, <2>4 DEF Environment
<1> QED BY <1>0, <1>2, <1>3, ClientStep DEF clientVars

-------------------------------------------------------------------------------

\* Nothing is under way at first and nobody has the turn.
LEMMA TurnInit == Init => TurnInv
<1> SUFFICES ASSUME Init, NEW c \in Clients
             PROVE  /\ toServer[c] \in Seq(Requests(c))
                    /\ toClient[c] \in Seq(News(c))
                    /\ myTurn[c] => MayPlay(c)
                    /\ \A e \in view[c] : Known(e.name)
  BY DEF TurnInv
<1> QED BY EmptySeq DEF Init, ClientInit, TransportInit

\* Every step keeps TurnInv.
LEMMA TurnStep == PlainNames /\ TypeOK /\ TurnInv /\ [Next]_vars => TurnInv'
<1> SUFFICES ASSUME PlainNames, TypeOK, TurnInv, [Next]_vars PROVE TurnInv'
  OBVIOUS
<1>0. \A k \in Clients : /\ toServer[k] \in Seq(Requests(k))
                         /\ toClient[k] \in Seq(News(k))
                         /\ myTurn[k] => MayPlay(k)
                         /\ \A e \in view[k] : Known(e.name)
  BY DEF TurnInv
<1>1. CASE GameLoop /\ UNCHANGED clientVars
  BY <1>0, <1>1, NewsStay, ServerStep DEF GameLoop, transportVars
<1>2. ASSUME NEW c \in Clients, PacketHandler(c), UNCHANGED clientVars
      PROVE  TurnInv'
  BY <1>2, PacketHandlerTurn
<1>3. ASSUME NEW c \in Clients, Connect(c) \/ SetPending(c),
             UNCHANGED serverVars
      PROVE  TurnInv'
  BY <1>0, <1>3, ClientStep DEF Connect, SetPending, transportVars
<1>4. ASSUME NEW c \in Clients, ClientPackets(c) \/ InputHandler(c),
             UNCHANGED serverVars
      PROVE  TurnInv'
  BY <1>4, ClientPacketsTurn, InputHandlerTurn
<1>5. ASSUME NEW c \in Clients, Environment(c)
      PROVE  TurnInv'
  BY <1>5, EnvironmentTurn
<1>6. CASE UNCHANGED vars
  BY <1>0, <1>6, ClientStep DEF vars, clientVars, transportVars
<1> QED BY <1>1, <1>2, <1>3, <1>4, <1>5, <1>6 DEF Next

\* A request that may be under way is one the server can handle.
LEMMA TurnInvHandles == TypeOK /\ TurnInv => TurnRequestsHandled
<1> SUFFICES ASSUME TypeOK, TurnInv, NEW c \in Clients, NEW i \in UsedAt(c)
             PROVE  /\ {c, currentPlayerTurn} \subseteq players
                    /\ toServer[c][i].id = "C_ACTION_TAKEN"
                         => WithName(toServer[c][i].target) # {}
  BY DEF TurnRequestsHandled
<1>1. toServer[c] \in Seq(Requests(c))
  BY DEF TurnInv
<1>2. i \in 1..Len(toServer[c]) /\ toServer[c][i].id \in TurnRequests
  BY <1>1, LenProperties DEF UsedAt
<1>3. toServer[c][i] \in Requests(c)
  BY <1>1, <1>2, ElementOfSeq
<1> QED BY <1>2, <1>3 DEF Requests, MayPlay, Known

\* However often the game is started, by whatever order of joins, readies,
\* kicks, losses and timeouts, and while no name reads as an identifier when a
\* chat line is relayed: no turn request on its way to the server will
\* fail GetPlayer's assert or the one on its target, or leave the server
\* incrementing an iterator at end() (server.cpp:300, 340, 387, 511).
THEOREM RequestsHandled ==
  ASSUME PlainNames
  PROVE  Spec => []TurnRequestsHandled
<1>1. Init => TypeOK /\ TurnInv
  BY TypeInit, TurnInit
<1>2. TypeOK /\ TurnInv /\ [Next]_vars => (TypeOK /\ TurnInv)'
  BY TypeStep, TurnStep
<1> QED BY <1>1, <1>2, TurnInvHandles, PTL DEF Spec

===============================================================================
