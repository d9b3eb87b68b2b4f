----------------------------- MODULE Lobby_proofs -----------------------------
(***************************************************************************)
(* The lobby: what the server's count of connections is worth, that nobody *)
(* is introduced twice, and what becomes of the ready flags.               *)
(***************************************************************************)
EXTENDS Phase_proofs

-------------------------------------------------------------------------------
(* The invariant.                                                          *)

Announcement == "ID_NEW_INCOMING_CONNECTION"

\* The server has yet to handle the announcement of the connection.
Announced(q) == At(q, {Announcement}) # {}

\* A connection is announced once, ahead of everything else.
AnnouncedFirst == \A c \in Clients : At(toServer[c], {Announcement}) \subseteq {1}

NobodyLost == \A c \in Clients : Alive(c)

\* Clients that have a slot and are counted.
Met == {c \in Clients : Open(c) /\ ~Announced(toServer[c])}

\* While every process lives, as many are counted as have a slot.
CountInv ==
  /\ AnnouncedFirst
  /\ Cardinality(SlotsInUse) <= EXPECTED_PLAYERS
  /\ NobodyLost => /\ \A c \in Clients : link[c] # "closed"
                   /\ totalConnections <= Cardinality(Met)

Acceptances(q) == At(q, {"ID_CONNECTION_REQUEST_ACCEPTED"})

Intros(q) == At(q, {"C_INTRO"})

\* Clients that may still be counted.
Expected ==
  {c \in Clients : link[c] \in {"none", "connecting"} \/ Announced(toServer[c])}

\* Clients that have joined, or can without being counted first.
Heard ==
  {c \in Clients :
     \/ c \in players
     \/ /\ ~Announced(toServer[c])
        /\ Open(c) \/ Intros(toServer[c]) # {}}

\* The count is an unsigned short: what follows is about a server that sees
\* fewer connections in its life than would bring it back to zero.
FewClients == Cardinality(Clients) < 65536

\* The count neither wraps nor falls behind those who join, until it has been
\* at the number expected; it never comes below that again.
FullInv ==
  /\ totalConnections + Cardinality(Expected) <= Cardinality(Clients)
  /\ totalConnections < EXPECTED_PLAYERS
       => Cardinality(Heard) <= totalConnections

\* A client that has been accepted introduces itself, once.
IntroducedOnce(c) ==
  /\ \A i \in Acceptances(toClient[c]) :
       /\ i = 1 /\ cPacket[c] = "idle"
       /\ Intros(toServer[c]) = {} /\ c \notin players
  /\ cPacket[c] = "introducing" =>
       Intros(toServer[c]) = {} /\ c \notin players
  /\ \A i, j \in Intros(toServer[c]) : i = j /\ c \notin players

IntroInv == \A c \in Clients : IntroducedOnce(c)

Flags(q) == At(q, {"C_READY", "C_UNREADY"})

\* The last flag under way says whether b holds.
LastSays(q, b) ==
  \A i \in Flags(q) :
    (\A j \in Flags(q) : j <= i) => (q[i].id = "C_READY" <=> b)

\* The last flag client c has sent is its own; when all have arrived the
\* server's is, and a client that has not joined has not sent any.
FlagsAgree(c) ==
  /\ LastSays(toServer[c], self[c].ready)
  /\ Flags(toServer[c]) = {} =>
       /\ c \in players => (player[c].ready <=> self[c].ready)
       /\ c \notin players /\ serverStatus = "running" => ~self[c].ready

FlagsInv ==
  /\ \A c \in Clients :
       link[c] \in {"none", "connecting", "refused"} => ~self[c].ready
  /\ starts = 0 => \A c \in Clients : Open(c) => FlagsAgree(c)

-------------------------------------------------------------------------------
(* Queues, by the places of the packets of some kinds.                     *)

\* What sending, receiving and cutting a connection do to these places.
LEMMA PlacesMove ==
  ASSUME NEW S, NEW q \in Seq(S), NEW R
  PROVE  /\ At(q, R) \subseteq 1..Len(q) /\ Len(q) \in Nat
         /\ q # <<>> => (1 \in At(q, R) <=> Head(q).id \in R)
         /\ \A m \in S :
              /\ At(Append(q, m), R) =
                   At(q, R) \cup {i \in {Len(q) + 1} : m.id \in R}
              /\ \A i \in At(q, R) : Append(q, m)[i] = q[i]
              /\ Append(q, m)[Len(q) + 1] = m
         /\ q # <<>> => \A p \in Prefixes(Tail(q)) : \A i \in At(p, R) :
                          i + 1 \in At(q, R) /\ p[i] = q[i + 1] /\ i \in Nat \ {0}
         /\ q # <<>> => \A i \in At(q, R) :
                          i # 1 => i - 1 \in At(Tail(q), R)
         /\ q # <<>> => Tail(q) \in Prefixes(Tail(q))
         /\ \A p \in Prefixes(q) :
              /\ At(p, R) \subseteq At(q, R)
              /\ \A i \in At(p, R) : p[i] = q[i]
              /\ p # <<>> /\ 1 \in At(q, R) => 1 \in At(p, R)
<1>1. DOMAIN q = 1..Len(q) /\ Len(q) \in Nat
  BY LenProperties
<1>2. ASSUME q # <<>>
      PROVE  /\ Tail(q) \in Seq(S)
             /\ DOMAIN Tail(q) = 1..(Len(q) - 1)
             /\ Len(Tail(q)) \in Nat /\ Len(Tail(q)) = Len(q) - 1
             /\ \A i \in 1..(Len(q) - 1) : Tail(q)[i] = q[i + 1]
             /\ Head(q) = q[1]
             /\ Len(q) >= 1
  BY <1>1, <1>2, HeadTailProperties, LenProperties
<1>3. ASSUME NEW m \in S
      PROVE  /\ DOMAIN Append(q, m) = 1..(Len(q) + 1)
             /\ \A i \in 1..Len(q) : Append(q, m)[i] = q[i]
             /\ Append(q, m)[Len(q) + 1] = m
  BY <1>1, AppendProperties, LenProperties
<1>4. ASSUME NEW s \in Seq(S), NEW p \in Prefixes(s)
      PROVE  /\ DOMAIN p \subseteq DOMAIN s
             /\ DOMAIN s \subseteq Nat \ {0}
             /\ \A i \in DOMAIN p : p[i] = s[i]
             /\ p # <<>> => 1 \in DOMAIN p
  <2>1. PICK n \in 0..Len(s) : p = SubSeq(s, 1, n)
    BY <1>4 DEF Prefixes
  <2>2. DOMAIN s = 1..Len(s) /\ Len(s) \in Nat
    BY LenProperties
  <2>3. /\ p \in Seq(S) /\ Len(p) = n
        /\ \A i \in 1..n : p[i] = s[i]
    BY <2>1, <2>2, SubSeqProperties
  <2>4. DOMAIN p = 1..n
    BY <2>3, LenProperties
  <2>5. p # <<>> => n # 0
    <3>1. CASE n = 0
      BY <2>1, <3>1, SubSeqEmpty
    <3> QED BY <3>1
  <2> QED BY <2>2, <2>3, <2>4, <2>5
<1>5. q # <<>> => (1 \in At(q, R) <=> Head(q).id \in R)
  BY <1>1, <1>2 DEF At
<1>6. ASSUME NEW m \in S
      PROVE  /\ At(Append(q, m), R) =
                  At(q, R) \cup {i \in {Len(q) + 1} : m.id \in R}
             /\ \A i \in At(q, R) : Append(q, m)[i] = q[i]
  BY <1>1, <1>3 DEF At
<1>7. ASSUME q # <<>>, NEW p \in Prefixes(Tail(q)), NEW i \in At(p, R)
      PROVE  i + 1 \in At(q, R) /\ p[i] = q[i + 1] /\ i \in Nat \ {0}
  <2>1. i \in 1..(Len(q) - 1) /\ p[i] = Tail(q)[i] /\ p[i].id \in R
    <3>1. Tail(q) \in Seq(S) /\ DOMAIN Tail(q) = 1..(Len(q) - 1)
      BY <1>2, <1>7
    <3>2. /\ DOMAIN p \subseteq DOMAIN Tail(q)
          /\ \A j \in DOMAIN p : p[j] = Tail(q)[j]
      BY <1>4, <1>7, <3>1
    <3> QED BY <1>7, <3>1, <3>2 DEF At
  <2>2. i + 1 \in DOMAIN q /\ i \in Nat \ {0}
    BY <1>1, <2>1
  <2>3. Tail(q)[i] = q[i + 1]
    BY <1>2, <1>7, <2>1
  <2> QED BY <2>1, <2>2, <2>3 DEF At
<1>8. ASSUME q # <<>>, NEW i \in At(q, R), i # 1
      PROVE  i - 1 \in At(Tail(q), R)
  BY <1>1, <1>2, <1>8 DEF At
<1>9. q # <<>> => Tail(q) \in Prefixes(Tail(q))
  <2>1. ASSUME NEW s \in Seq(S)
        PROVE  s \in Prefixes(s)
    <3>1. Len(s) \in 0..Len(s) /\ SubSeq(s, 1, Len(s)) = s
      BY LenProperties, SubSeqFull
    <3> QED BY <3>1 DEF Prefixes
  <2> QED BY <1>2, <2>1
<1>10. ASSUME NEW p \in Prefixes(q)
       PROVE  /\ At(p, R) \subseteq At(q, R)
              /\ \A i \in At(p, R) : p[i] = q[i]
              /\ p # <<>> /\ 1 \in At(q, R) => 1 \in At(p, R)
  BY <1>4, <1>10 DEF At
<1>11. At(q, R) \subseteq 1..Len(q)
  BY <1>1 DEF At
<1> QED BY <1>1, <1>3, <1>5, <1>6, <1>7, <1>8, <1>9, <1>10, <1>11

\* A queue whose announcement, if there is one, is its head.
LEMMA AnnouncementMoves ==
  ASSUME NEW q \in Seq(ToServer), At(q, {Announcement}) \subseteq {1}
  PROVE  /\ q # <<>> => (Announced(q) <=> Head(q).id = Announcement)
         /\ \A m \in ToServer : m.id # Announcement =>
              At(Append(q, m), {Announcement}) = At(q, {Announcement})
         /\ q # <<>> => \A p \in Prefixes(Tail(q)) :
                          At(p, {Announcement}) = {}
         /\ \A p \in Prefixes(q) :
              /\ At(p, {Announcement}) \subseteq At(q, {Announcement})
              /\ p # <<>> => At(p, {Announcement}) = At(q, {Announcement})
<1> DEFINE K    == {Announcement}
           A(r) == At(r, K)
<1> HIDE DEF K
<1>0. /\ q # <<>> => (1 \in A(q) <=> Head(q).id \in K)
      /\ \A m \in ToServer :
           A(Append(q, m)) =
             A(q) \cup {i \in {Len(q) + 1} : m.id \in K}
      /\ q # <<>> => \A p \in Prefixes(Tail(q)) : \A i \in A(p) :
                       i + 1 \in A(q) /\ i \in Nat \ {0}
      /\ \A p \in Prefixes(q) : /\ A(p) \subseteq A(q)
                                /\ p # <<>> /\ 1 \in A(q) => 1 \in A(p)
  BY PlacesMove
<1>1. A(q) \subseteq {1}
  BY DEF K
<1> HIDE DEF A
<1>2. ASSUME q # <<>>, NEW p \in Prefixes(Tail(q)), NEW i \in A(p)
      PROVE  FALSE
  <2>1. i + 1 \in A(q) /\ i \in Nat \ {0}
    BY <1>0, <1>2
  <2>2. i + 1 = 1
    BY <1>1, <2>1
  <2> QED BY <2>1, <2>2
<1>3. /\ q # <<>> => (A(q) # {} <=> Head(q).id = Announcement)
      /\ \A m \in ToServer : m.id # Announcement => A(Append(q, m)) = A(q)
      /\ \A p \in Prefixes(q) : p # <<>> => A(p) = A(q)
  <2>1. \A x : x \in K <=> x = Announcement
    BY DEF K
  <2>2. A(q) # {} <=> 1 \in A(q)
    BY <1>1
  <2>3. q # <<>> => (A(q) # {} <=> Head(q).id = Announcement)
    BY <1>0, <2>1, <2>2
  <2>4. \A m \in ToServer : m.id # Announcement => A(Append(q, m)) = A(q)
    <3>1. ASSUME NEW m \in ToServer, m.id # Announcement
          PROVE  {i \in {Len(q) + 1} : m.id \in K} = {}
      BY <2>1, <3>1
    <3> QED BY <1>0, <3>1
  <2>5. ASSUME NEW p \in Prefixes(q), p # <<>>
        PROVE  A(p) = A(q)
    <3>1. A(p) \subseteq A(q) /\ (1 \in A(q) => 1 \in A(p))
      BY <1>0, <2>5
    <3>2. A(q) = {} \/ A(q) = {1}
      BY <1>1
    <3> QED BY <3>1, <3>2
  <2> QED BY <2>3, <2>4, <2>5
<1>4. \A r : A(r) = At(r, {Announcement}) /\ (Announced(r) <=> A(r) # {})
  BY DEF A, K, Announced
<1>5. q # <<>> => \A p \in Prefixes(Tail(q)) : A(p) = {}
  BY <1>2
<1> QED BY <1>0, <1>3, <1>4, <1>5 DEF K

-------------------------------------------------------------------------------
(* What a step does to the connections and to what clients have sent.      *)

\* The newcomer is one too many (server.cpp:191-195).
Kicked(c) == OnClientIntro(c) /\ Overfull

\* A handler takes a packet of client c, which may cost c its connection.
LEMMA HandlerShape ==
  ASSUME TypeOK, NEW c \in Clients, PacketHandler(c)
  PROVE  /\ toServer[c] # <<>>
         /\ \A k \in Clients : k # c => /\ toServer'[k] = toServer[k]
                                        /\ link'[k] = link[k]
         /\ toServer'[c] \in Prefixes(Tail(toServer[c]))
         /\ IF Kicked(c)
            THEN /\ link'[c] = IF Alive(c) THEN "closed" ELSE "gone"
                 /\ totalConnections' = totalConnections - 1
            ELSE UNCHANGED link /\ toServer'[c] = Tail(toServer[c])
         /\ Head(toServer[c]).id = Announcement =>
              totalConnections' = (totalConnections + 1) % 65536
         /\ Head(toServer[c]).id # Announcement /\ ~Kicked(c) =>
              UNCHANGED totalConnections
         /\ players' = IF Head(toServer[c]).id = "C_INTRO"
                       THEN players \cup {c} ELSE players
<1>0. /\ link \in [Clients -> LinkState]
      /\ toServer \in [Clients -> Seq(ToServer)]
  BY DEF TypeOK, TransportTypeOK
<1>1. PICK id : Receive(c, id)
  BY DEF PacketHandler, OnIncomingConnection, OnConnectionLost, OnClientIntro,
         OnClientChatReceived, OnPlayerListRequest, OnPlayerStatsRequest,
         OnPlayerReady, OnPlayerUnready, OnPlayerJobChosen,
         OnPlayerActionTaken
<1>2. toServer[c] # <<>> /\ Tail(toServer[c]) \in Prefixes(Tail(toServer[c]))
  BY <1>0, <1>1, PlacesMove DEF Receive
<1>3. CASE OnIncomingConnection(c)
  BY <1>0, <1>2, <1>3
     DEF OnIncomingConnection, OnClientIntro, Kicked, Receive, Consume,
         Announcement
<1>4. CASE OnClientIntro(c)
  <2>1. Head(toServer[c]).id = "C_INTRO" /\ players' = players \cup {c}
    BY <1>4 DEF OnClientIntro, Receive
  <2>2. CASE Overfull
    <3>1. /\ totalConnections' = totalConnections - 1
          /\ link' = [link EXCEPT ![c] = IF Alive(c) THEN "closed" ELSE "gone"]
          /\ \E kept \in Prefixes(Tail(toServer[c])) :
               toServer' = [toServer EXCEPT ![c] = kept]
      BY <1>4, <2>2 DEF OnClientIntro
    <3> QED BY <1>0, <1>2, <1>4, <2>1, <2>2, <3>1 DEF Kicked, Announcement
  <2>3. CASE ~Overfull
    <3>1. Consume(c) /\ UNCHANGED <<totalConnections, link>>
      BY <1>4, <2>3 DEF OnClientIntro
    <3> QED BY <1>0, <1>2, <2>1, <2>3, <3>1 DEF Kicked, Announcement, Consume
  <2> QED BY <2>2, <2>3
<1>5. ASSUME ~OnIncomingConnection(c), ~OnClientIntro(c)
      PROVE  /\ Consume(c) /\ UNCHANGED <<link, totalConnections, players>>
             /\ Head(toServer[c]).id \notin {Announcement, "C_INTRO"}
  <2>1. CASE OnConnectionLost(c) \/ OnPlayerListRequest(c)
             \/ OnPlayerStatsRequest(c)
    BY <2>1
       DEF OnConnectionLost, OnPlayerListRequest, OnPlayerStatsRequest,
           serverVars, Receive, Announcement
  <2>2. CASE OnClientChatReceived(c) \/ OnPlayerUnready(c)
    BY <2>2
       DEF OnClientChatReceived, OnPlayerUnready, Abort, serverVars, Receive,
           Announcement
  <2>3. CASE OnPlayerReady(c)
    BY <2>3 DEF OnPlayerReady, Abort, Receive, Announcement
  <2>4. CASE OnPlayerJobChosen(c)
    BY <2>4 DEF OnPlayerJobChosen, Abort, Receive, Announcement
  <2>5. CASE OnPlayerActionTaken(c)
    BY <2>5 DEF OnPlayerActionTaken, Abort, Receive, Announcement
  <2> QED BY <1>5, <2>1, <2>2, <2>3, <2>4, <2>5 DEF PacketHandler
<1>6. CASE ~OnIncomingConnection(c) /\ ~OnClientIntro(c)
  <2>1. /\ UNCHANGED <<link, totalConnections, players>>
        /\ Head(toServer[c]).id \notin {Announcement, "C_INTRO"}
        /\ ~Kicked(c)
    BY <1>5, <1>6 DEF Kicked
  <2>2. \A k \in Clients :
          toServer'[k] = IF k = c THEN Tail(toServer[c]) ELSE toServer[k]
    BY <1>0, <1>5, <1>6 DEF Consume
  <2> QED BY <1>2, <2>1, <2>2
<1> QED BY <1>3, <1>4, <1>6

\* A client sends at most one packet, and only over an open connection.
LEMMA ClientShape ==
  ASSUME TypeOK, TypeOK', FreshInv, NEW c \in Clients, UNCHANGED serverVars,
         \/ Connect(c) \/ SetPending(c) \/ ClientPackets(c)
         \/ InputHandler(c)
  PROVE  /\ \A k \in Clients : k # c => /\ toServer'[k] = toServer[k]
                                        /\ link'[k] = link[k]
         /\ \/ link'[c] = link[c]
            \/ link[c] = "none" /\ link'[c] = "connecting"
         /\ \/ toServer'[c] = toServer[c]
            \/ /\ Open(c)
               /\ \E m \in ToServer : /\ m.id # Announcement
                                      /\ toServer'[c] = Append(toServer[c], m)
<1>0. /\ link \in [Clients -> LinkState]
      /\ toServer \in [Clients -> Seq(ToServer)]
  BY DEF TypeOK, TransportTypeOK
<1>1. ASSUME NEW m \in ToServer, m.id # Announcement, Post(c, m), UNCHANGED link
      PROVE  /\ \A k \in Clients : k # c => /\ toServer'[k] = toServer[k]
                                            /\ link'[k] = link[k]
             /\ link'[c] = link[c]
             /\ \/ toServer'[c] = toServer[c]
                \/ /\ Open(c)
                   /\ \E n \in ToServer :
                        /\ n.id # Announcement
                        /\ toServer'[c] = Append(toServer[c], n)
  BY <1>0, <1>1 DEF Post, Open
<1>2. CASE Connect(c)
  BY <1>0, <1>2 DEF Connect, FreshInv, Fresh
<1>3. CASE SetPending(c)
  BY <1>0, <1>3 DEF SetPending, transportVars
<1>4. CASE ClientPackets(c) /\ ~SendIntro(c)
  BY <1>0, <1>4
     DEF ClientPackets, OnConnectionAccepted, OnGameStart, OnTakeTurn,
         OnGameStateUpdate, OnPlayersHealthUpdated, ShowReply
<1>5. CASE WasteTurn(c)
  BY <1>0, <1>5 DEF WasteTurn, transportVars
<1>6. CASE SendIntro(c) \/ (InputHandler(c) /\ ~WasteTurn(c))
  <2>1. UNCHANGED link
    BY <1>6
       DEF SendIntro, InputHandler, Ready, Unready, Chat, Ask, ChooseJob,
           TakeAction
  <2>2. PICK m \in ToServer : m.id # Announcement /\ Post(c, m)
    <3>1. \A id \in {"C_INTRO", "C_READY", "C_UNREADY", "C_CHAT",
                     "C_PLAYER_LIST_REQUEST", "C_PLAYER_STATS_REQUEST"} :
            Plain(id) \in ToServer /\ Plain(id).id # Announcement
      BY PlainType DEF Plain, Announcement
    <3>2. CASE SendIntro(c) \/ Ready(c) \/ Unready(c) \/ Chat(c) \/ Ask(c)
      BY <3>1, <3>2 DEF SendIntro, Ready, Unready, Chat, Ask
    <3>3. CASE ChooseJob(c) \/ TakeAction(c)
      <4>1. PICK m \in ToServer : m.id \in TurnRequests /\ Post(c, m)
        BY <3>3, UsesTurnShape DEF UsesTurn, TurnRequests
      <4> QED BY <4>1 DEF TurnRequests, Announcement
    <3> QED BY <1>6, <3>2, <3>3 DEF InputHandler
  <2> QED BY <1>1, <2>1, <2>2
<1> QED BY <1>2, <1>3, <1>4, <1>5, <1>6

\* What RakNet does to one connection.
LEMMA EnvironmentShape ==
  ASSUME TypeOK, NEW c \in Clients, Environment(c)
  PROVE  /\ UNCHANGED <<serverVars, clientVars>>
         /\ \A k \in Clients : k # c => /\ toServer'[k] = toServer[k]
                                        /\ link'[k] = link[k]
         /\ \/ /\ link[c] = "connecting" /\ link'[c] = "open"
               /\ Cardinality(SlotsInUse) < EXPECTED_PLAYERS
               /\ toServer'[c] = Append(toServer[c], Plain(Announcement))
               /\ toClient'[c] =
                    Append(toClient[c], Plain("ID_CONNECTION_REQUEST_ACCEPTED"))
            \/ /\ link[c] = "connecting" /\ link'[c] = "refused"
               /\ toServer'[c] = toServer[c] /\ toClient'[c] = toClient[c]
            \/ /\ link[c] = "open" /\ link'[c] = "dead"
               /\ toServer'[c] \in Prefixes(toServer[c]) /\ toClient'[c] = <<>>
            \/ /\ link[c] = "dead" /\ link'[c] = "gone"
               /\ toServer'[c] = Append(toServer[c], Plain("ID_CONNECTION_LOST"))
               /\ toClient'[c] = toClient[c]
<1>0. /\ link \in [Clients -> LinkState]
      /\ toServer \in [Clients -> Seq(ToServer)]
      /\ toClient \in [Clients -> Seq(ToClient)]
  BY DEF TypeOK, TransportTypeOK
<1> QED
  BY <1>0 DEF Environment, Accept, Refuse, Vanish, TimeOut, Announcement

-------------------------------------------------------------------------------
(* Nobody is disconnected while nobody is lost.                            *)

\* Sets of clients that grow and shrink by one.
LEMMA Counting ==
  ASSUME NEW S \in SUBSET Clients, NEW T \in SUBSET Clients, NEW c \in Clients
  PROVE  /\ Cardinality(S) \in Nat
         /\ S \subseteq T => Cardinality(S) <= Cardinality(T)
         /\ S \subseteq T \cup {c} => Cardinality(S) <= Cardinality(T) + 1
         /\ c \notin S /\ S \cup {c} \subseteq T =>
              Cardinality(S) + 1 <= Cardinality(T)
<1>1. \A X \in SUBSET Clients : IsFiniteSet(X) /\ Cardinality(X) \in Nat
  BY ClientsAssumption, FS_Subset, FS_CardinalityType
<1>2. \A X, Y \in SUBSET Clients :
        X \subseteq Y => Cardinality(X) <= Cardinality(Y)
  BY <1>1, FS_Subset
<1>3. \A X \in SUBSET Clients :
        Cardinality(X \cup {c}) =
          IF c \in X THEN Cardinality(X) ELSE Cardinality(X) + 1
  BY <1>1, FS_AddElement
<1>4. S \cup {c} \in SUBSET Clients /\ T \cup {c} \in SUBSET Clients
  OBVIOUS
<1>5. S \subseteq T \cup {c} => Cardinality(S) <= Cardinality(T) + 1
  <2>1. Cardinality(T \cup {c}) <= Cardinality(T) + 1
    BY <1>1, <1>3
  <2>2. S \subseteq T \cup {c} => Cardinality(S) <= Cardinality(T \cup {c})
    BY <1>2, <1>4
  <2>3. /\ Cardinality(S) \in Nat /\ Cardinality(T) \in Nat
        /\ Cardinality(T \cup {c}) \in Nat
    BY <1>1, <1>4
  <2> QED BY <2>1, <2>2, <2>3
<1>6. c \notin S /\ S \cup {c} \subseteq T =>
        Cardinality(S) + 1 <= Cardinality(T)
  <2>1. c \notin S => Cardinality(S \cup {c}) = Cardinality(S) + 1
    BY <1>3
  <2>2. S \cup {c} \subseteq T => Cardinality(S \cup {c}) <= Cardinality(T)
    BY <1>2, <1>4
  <2> QED BY <2>1, <2>2
<1> QED BY <1>1, <1>2, <1>5, <1>6

\* An unsigned short is counted up.
LEMMA CountsOn ==
  \A n \in Nat : /\ (n + 1) % 65536 \in Nat
                 /\ (n + 1) % 65536 <= n + 1
                 /\ n + 1 < 65536 => (n + 1) % 65536 = n + 1
<1>1. \A m \in Nat : /\ m % 65536 \in Nat
                     /\ m % 65536 <= m
                     /\ m < 65536 => m % 65536 = m
  BY SMT
<1>2. \A n \in Nat : n + 1 \in Nat
  OBVIOUS
<1> QED BY <1>1, <1>2

\* The first state: nobody is there to be counted.
LEMMA CountInit == Init => CountInv
<1> SUFFICES ASSUME Init
             PROVE  CountInv
  OBVIOUS
<1>1. /\ link = [c \in Clients |-> "none"]
      /\ toServer = [c \in Clients |-> <<>>]
      /\ totalConnections = 0
  BY DEF Init, ServerInit, TransportInit
<1>2. SlotsInUse = {}
  BY <1>1 DEF SlotsInUse
<1>3. Cardinality(SlotsInUse) <= EXPECTED_PLAYERS
  BY <1>2, ClientsAssumption, FS_EmptySet
<1>4. totalConnections <= Cardinality(Met)
  <2>1. IsFiniteSet(Met)
    BY ClientsAssumption, FS_Subset DEF Met
  <2> QED BY <1>1, <2>1, FS_CardinalityType
<1> QED BY <1>1, <1>3, <1>4 DEF CountInv, AnnouncedFirst, At

\* A packet that is handled: an announcement counts whom it is about, and for
\* a kick there would have to be more counted than there are slots.
LEMMA CountHandler ==
  ASSUME TypeOK, FreshInv, CountInv, NEW c \in Clients, PacketHandler(c)
  PROVE  CountInv'
<1>0. /\ link \in [Clients -> LinkState]
      /\ toServer \in [Clients -> Seq(ToServer)]
      /\ totalConnections \in UnsignedShort
  BY DEF TypeOK, TransportTypeOK, ServerTypeOK
<1>1. /\ toServer[c] # <<>>
      /\ \A k \in Clients : k # c => /\ toServer'[k] = toServer[k]
                                     /\ link'[k] = link[k]
      /\ toServer'[c] \in Prefixes(Tail(toServer[c]))
      /\ Kicked(c) => link'[c] = IF Alive(c) THEN "closed" ELSE "gone"
      /\ ~Kicked(c) => UNCHANGED link
      /\ Head(toServer[c]).id # Announcement /\ ~Kicked(c) =>
           UNCHANGED totalConnections
  BY HandlerShape
<1>2. /\ At(toServer'[c], {Announcement}) = {}
      /\ Announced(toServer[c]) <=> Head(toServer[c]).id = Announcement
      /\ ~Announced(toServer'[c])
  <2> DEFINE q == toServer[c]
             r == toServer'[c]
  <2>1. /\ q \in Seq(ToServer) /\ q # <<>> /\ r \in Prefixes(Tail(q))
        /\ At(q, {Announcement}) \subseteq {1}
    BY <1>0, <1>1 DEF CountInv, AnnouncedFirst
  <2> HIDE DEF q, r
  <2>2. /\ At(r, {Announcement}) = {}
        /\ Announced(q) <=> Head(q).id = Announcement
    BY <2>1, AnnouncementMoves
  <2>3. ~Announced(r)
    BY <2>2 DEF Announced
  <2> QED BY <2>2, <2>3 DEF q, r
<1>3. AnnouncedFirst'
  <2>1. \A k \in Clients : At(toServer[k], {Announcement}) \subseteq {1}
    BY DEF CountInv, AnnouncedFirst
  <2>2. \A k \in Clients : At(toServer'[k], {Announcement}) \subseteq {1}
    BY <1>1, <1>2, <2>1
  <2> QED BY <2>2 DEF AnnouncedFirst
<1>4. SlotsInUse' \subseteq SlotsInUse /\ SlotsInUse \subseteq Clients
  BY <1>0, <1>1 DEF SlotsInUse
<1>5. Cardinality(SlotsInUse') <= EXPECTED_PLAYERS
  <2>1. /\ SlotsInUse \in SUBSET Clients /\ SlotsInUse' \in SUBSET Clients
        /\ Cardinality(SlotsInUse) <= EXPECTED_PLAYERS
    BY <1>4 DEF CountInv
  <2>2. /\ Cardinality(SlotsInUse') <= Cardinality(SlotsInUse)
        /\ Cardinality(SlotsInUse') \in Nat /\ Cardinality(SlotsInUse) \in Nat
    BY <1>4, <2>1, Counting
  <2> QED BY <2>1, <2>2, ClientsAssumption
<1>6. ASSUME NobodyLost'
      PROVE  NobodyLost
  BY <1>0, <1>1, <1>6 DEF NobodyLost, Alive
<1>7. ASSUME NobodyLost
      PROVE  ~Kicked(c)
  <2>1. Met \in SUBSET Clients /\ SlotsInUse \in SUBSET Clients
        /\ Met \subseteq SlotsInUse
    BY <1>0 DEF Met, SlotsInUse, Open
  <2>2. /\ Cardinality(Met) <= Cardinality(SlotsInUse)
        /\ Cardinality(Met) \in Nat /\ Cardinality(SlotsInUse) \in Nat
    BY <2>1, Counting
  <2>3. totalConnections <= Cardinality(Met)
        /\ Cardinality(SlotsInUse) <= EXPECTED_PLAYERS
    BY <1>7 DEF CountInv
  <2> QED
    BY <1>0, <2>2, <2>3, ClientsAssumption DEF Kicked, Overfull, UnsignedShort
<1>8. ASSUME NobodyLost'
      PROVE  /\ \A k \in Clients : link'[k] # "closed"
             /\ totalConnections' <= Cardinality(Met')
  <2>1. /\ NobodyLost /\ UNCHANGED link
        /\ totalConnections <= Cardinality(Met)
        /\ \A k \in Clients : link[k] # "closed"
    BY <1>1, <1>6, <1>7, <1>8 DEF CountInv
  <2>2. Met \in SUBSET Clients /\ Met' \in SUBSET Clients
    BY DEF Met
  <2>3. Met \subseteq Met'
    BY <1>1, <1>2, <2>1 DEF Met, Open
  <2>4. Cardinality(Met) \in Nat /\ Cardinality(Met') \in Nat
    BY <2>2, Counting
  <2>5. CASE Head(toServer[c]).id = Announcement
    <3>1. link[c] = "open"
      <4>1. link[c] \notin {"none", "connecting", "refused"}
        BY <1>1 DEF FreshInv, Fresh, Untouched
      <4>2. link[c] \notin {"dead", "gone", "closed"}
        BY <2>1 DEF NobodyLost, Alive
      <4> QED BY <1>0, <4>1, <4>2 DEF LinkState
    <3>2. c \notin Met /\ c \in Met'
      BY <1>2, <2>1, <2>5, <3>1 DEF Met, Open
    <3>3. Cardinality(Met) + 1 <= Cardinality(Met')
      BY <2>2, <2>3, <3>2, Counting
    <3>4. totalConnections' = (totalConnections + 1) % 65536
      BY <2>5, HandlerShape
    <3>5. /\ totalConnections' <= totalConnections + 1
          /\ totalConnections' \in Int /\ totalConnections \in Int
      BY <1>0, <3>4, CountsOn DEF UnsignedShort
    <3> QED BY <2>1, <2>4, <3>3, <3>5
  <2>6. CASE Head(toServer[c]).id # Announcement
    <3>1. totalConnections' = totalConnections
      BY <1>1, <1>7, <2>1, <2>6
    <3>2. Cardinality(Met) <= Cardinality(Met')
      BY <2>2, <2>3, Counting
    <3>3. totalConnections \in Int
      BY <1>0 DEF UnsignedShort
    <3> QED BY <2>1, <2>4, <3>1, <3>2, <3>3
  <2> QED BY <2>1, <2>5, <2>6
<1> QED BY <1>3, <1>5, <1>8 DEF CountInv

\* What clients and RakNet do to a connection, to what is announced of it and
\* to the slots.
LEMMA OtherShape ==
  ASSUME TypeOK, TypeOK', FreshInv, AnnouncedFirst, NEW c \in Clients,
         \/ /\ UNCHANGED serverVars
            /\ \/ Connect(c) \/ SetPending(c) \/ ClientPackets(c)
               \/ InputHandler(c)
         \/ Environment(c)
  PROVE  /\ UNCHANGED serverVars
         /\ \A k \in Clients : k # c => /\ toServer'[k] = toServer[k]
                                        /\ link'[k] = link[k]
         /\ AnnouncedFirst'
         /\ \/ /\ \/ link'[c] = link[c]
                  \/ link[c] = "none" /\ link'[c] = "connecting"
                  \/ link[c] = "connecting" /\ link'[c] = "refused"
                  \/ link[c] = "dead" /\ link'[c] = "gone"
               /\ Announced(toServer'[c]) <=> Announced(toServer[c])
            \/ /\ link[c] = "connecting" /\ link'[c] = "open"
               /\ Announced(toServer'[c])
               /\ Cardinality(SlotsInUse) < EXPECTED_PLAYERS
            \/ /\ link[c] = "open" /\ link'[c] = "dead"
               /\ Announced(toServer'[c]) => Announced(toServer[c])
               /\ toServer'[c] # <<>> =>
                    (Announced(toServer'[c]) <=> Announced(toServer[c]))
<1> DEFINE q == toServer[c]
           r == toServer'[c]
           A(s) == At(s, {Announcement})
<1>0. /\ toServer \in [Clients -> Seq(ToServer)]
      /\ q \in Seq(ToServer) /\ A(q) \subseteq {1}
      /\ link[c] = "connecting" => q = <<>>
  BY DEF TypeOK, TransportTypeOK, AnnouncedFirst, FreshInv, Fresh, Untouched
<1>1. \A s : Announced(s) <=> A(s) # {}
  BY DEF Announced
<1>2. ASSUME \A k \in Clients : k # c => toServer'[k] = toServer[k],
             A(r) \subseteq {1}
      PROVE  AnnouncedFirst'
  BY <1>2 DEF AnnouncedFirst
<1>3. ASSUME NEW m \in ToServer, m.id # Announcement
      PROVE  A(Append(q, m)) = A(q)
  <2> HIDE DEF q
  <2> QED BY <1>0, <1>3, AnnouncementMoves
<1>4. ASSUME NEW p \in Prefixes(q)
      PROVE  A(p) \subseteq A(q) /\ (p # <<>> => A(p) = A(q))
  <2> HIDE DEF q
  <2> QED BY <1>0, <1>4, AnnouncementMoves
<1>5. LET m == Plain(Announcement)
      IN  A(Append(<<>>, m)) = {1}
  <2> DEFINE m == Plain(Announcement)
  <2>1. m \in ToServer /\ m.id = Announcement
    BY PlainType DEF Plain, Announcement
  <2>2. <<>> \in Seq(ToServer) /\ Len(<<>>) = 0 /\ DOMAIN <<>> = {}
    BY EmptySeq
  <2> HIDE DEF m
  <2>3. /\ DOMAIN Append(<<>>, m) = 1..1 /\ Append(<<>>, m)[1] = m
    BY <2>1, <2>2, AppendProperties, LenProperties
  <2> QED BY <2>1, <2>3 DEF At, m
<1>6. CASE /\ UNCHANGED serverVars
           /\ \/ Connect(c) \/ SetPending(c) \/ ClientPackets(c)
              \/ InputHandler(c)
  <2>1. /\ \A k \in Clients : k # c => /\ toServer'[k] = toServer[k]
                                       /\ link'[k] = link[k]
        /\ \/ link'[c] = link[c]
           \/ link[c] = "none" /\ link'[c] = "connecting"
        /\ \/ r = q
           \/ \E m \in ToServer : m.id # Announcement /\ r = Append(q, m)
    BY <1>6, ClientShape
  <2> HIDE DEF q, r
  <2>2. A(r) = A(q)
    <3>1. CASE r = q
      BY <3>1
    <3>2. ASSUME NEW m \in ToServer, m.id # Announcement, r = Append(q, m)
          PROVE  A(r) = A(q)
      <4>1. A(Append(q, m)) = A(q)
        BY <1>3, <3>2
      <4> QED BY <3>2, <4>1
    <3> QED BY <2>1, <3>1, <3>2
  <2> QED BY <1>0, <1>1, <1>2, <1>6, <2>1, <2>2 DEF q, r
<1>7. CASE Environment(c)
  <2>1. /\ UNCHANGED serverVars
        /\ \A k \in Clients : k # c => /\ toServer'[k] = toServer[k]
                                       /\ link'[k] = link[k]
        /\ \/ /\ link[c] = "connecting" /\ link'[c] = "open"
              /\ Cardinality(SlotsInUse) < EXPECTED_PLAYERS
              /\ r = Append(q, Plain(Announcement))
           \/ /\ link[c] = "connecting" /\ link'[c] = "refused"
              /\ r = q
           \/ /\ link[c] = "open" /\ link'[c] = "dead"
              /\ r \in Prefixes(q)
           \/ /\ link[c] = "dead" /\ link'[c] = "gone"
              /\ r = Append(q, Plain("ID_CONNECTION_LOST"))
    BY <1>7, EnvironmentShape
  <2>2. LET m == Plain("ID_CONNECTION_LOST")
        IN  m \in ToServer /\ m.id # Announcement
    BY PlainType DEF Plain, Announcement
  <2> HIDE DEF q, r
  <2>3. CASE link[c] = "connecting" /\ link'[c] = "open"
    <3>1. A(r) = {1} /\ Cardinality(SlotsInUse) < EXPECTED_PLAYERS
      BY <1>0, <1>5, <2>1, <2>3
    <3> QED BY <1>1, <1>2, <2>1, <2>3, <3>1 DEF r
  <2>4. CASE link[c] = "connecting" /\ link'[c] = "refused"
    BY <1>0, <1>1, <1>2, <2>1, <2>4 DEF q, r
  <2>5. CASE link[c] = "open" /\ link'[c] = "dead"
    <3>1. A(r) \subseteq A(q) /\ (r # <<>> => A(r) = A(q))
      BY <1>4, <2>1, <2>5
    <3> QED BY <1>0, <1>1, <1>2, <2>1, <2>5, <3>1 DEF q, r
  <2>6. CASE link[c] = "dead" /\ link'[c] = "gone"
    <3> DEFINE m == Plain("ID_CONNECTION_LOST")
    <3> HIDE DEF m
    <3>1. A(r) = A(q)
      <4>1. m \in ToServer /\ m.id # Announcement
        BY <2>2 DEF m
      <4>2. A(Append(q, m)) = A(q)
        BY <1>3, <4>1
      <4>3. r = Append(q, m)
        BY <2>1, <2>6 DEF m
      <4> QED BY <4>2, <4>3
    <3> QED BY <1>0, <1>1, <1>2, <2>1, <2>6, <3>1 DEF q, r
  <2> QED BY <2>1, <2>3, <2>4, <2>5, <2>6
<1> QED BY <1>6, <1>7

\* Clients and RakNet count nobody; a connection is accepted into a free slot.
LEMMA CountOther ==
  ASSUME TypeOK, TypeOK', FreshInv, CountInv, NEW c \in Clients,
         \/ /\ UNCHANGED serverVars
            /\ \/ Connect(c) \/ SetPending(c) \/ ClientPackets(c)
               \/ InputHandler(c)
         \/ Environment(c)
  PROVE  CountInv'
<1>0. link \in [Clients -> LinkState] /\ totalConnections \in Nat
  BY DEF TypeOK, TransportTypeOK, ServerTypeOK, UnsignedShort
<1>1. /\ UNCHANGED totalConnections
      /\ \A k \in Clients : k # c => /\ toServer'[k] = toServer[k]
                                     /\ link'[k] = link[k]
      /\ AnnouncedFirst'
      /\ \/ /\ \/ link'[c] = link[c]
               \/ link[c] = "none" /\ link'[c] = "connecting"
               \/ link[c] = "connecting" /\ link'[c] = "refused"
               \/ link[c] = "dead" /\ link'[c] = "gone"
            /\ Announced(toServer'[c]) <=> Announced(toServer[c])
         \/ /\ link[c] = "connecting" /\ link'[c] = "open"
            /\ Cardinality(SlotsInUse) < EXPECTED_PLAYERS
         \/ /\ link[c] = "open" /\ link'[c] = "dead"
  BY OtherShape DEF CountInv, serverVars
<1>2. /\ SlotsInUse \in SUBSET Clients /\ SlotsInUse' \in SUBSET Clients
      /\ Met \in SUBSET Clients /\ Met' \in SUBSET Clients
  BY DEF SlotsInUse, Met
<1>3. Cardinality(SlotsInUse') <= EXPECTED_PLAYERS
  <2>1. \/ SlotsInUse' \subseteq SlotsInUse
        \/ /\ SlotsInUse' \subseteq SlotsInUse \cup {c}
           /\ Cardinality(SlotsInUse) < EXPECTED_PLAYERS
    BY <1>1 DEF SlotsInUse
  <2>2. /\ Cardinality(SlotsInUse) \in Nat /\ Cardinality(SlotsInUse') \in Nat
        /\ SlotsInUse' \subseteq SlotsInUse =>
             Cardinality(SlotsInUse') <= Cardinality(SlotsInUse)
        /\ SlotsInUse' \subseteq SlotsInUse \cup {c} =>
             Cardinality(SlotsInUse') <= Cardinality(SlotsInUse) + 1
    BY <1>2, Counting
  <2>3. Cardinality(SlotsInUse) <= EXPECTED_PLAYERS
    BY DEF CountInv
  <2> QED BY <2>1, <2>2, <2>3, ClientsAssumption
<1>4. ASSUME NobodyLost'
      PROVE  /\ \A k \in Clients : link'[k] # "closed"
             /\ totalConnections' <= Cardinality(Met')
  <2>1. link'[c] \notin {"dead", "gone"}
    BY <1>4 DEF NobodyLost, Alive
  <2>2. NobodyLost
    BY <1>1, <1>4, <2>1 DEF NobodyLost, Alive
  <2>3. /\ totalConnections <= Cardinality(Met)
        /\ \A k \in Clients : link[k] # "closed"
    BY <2>2 DEF CountInv
  <2>4. Met \subseteq Met'
    BY <1>1, <2>1 DEF Met, Open
  <2>5. /\ Cardinality(Met) \in Nat /\ Cardinality(Met') \in Nat
        /\ Cardinality(Met) <= Cardinality(Met')
    BY <1>2, <2>4, Counting
  <2> QED BY <1>0, <1>1, <2>3, <2>5
<1> QED BY <1>1, <1>3, <1>4 DEF CountInv

\* CountInv is inductive.
LEMMA CountStep ==
  TypeOK /\ TypeOK' /\ FreshInv /\ CountInv /\ [Next]_vars => CountInv'
<1> SUFFICES ASSUME TypeOK, TypeOK', FreshInv, CountInv, [Next]_vars
             PROVE  CountInv'
  OBVIOUS
<1>1. CASE UNCHANGED <<link, toServer, totalConnections>>
  BY <1>1
     DEF CountInv, AnnouncedFirst, SlotsInUse, NobodyLost, Alive, Met, Open
<1>2. CASE UNCHANGED vars
  BY <1>1, <1>2 DEF vars, serverVars, transportVars
<1>3. CASE GameLoop /\ UNCHANGED clientVars
  BY <1>1, <1>3 DEF GameLoop, transportVars
<1> QED BY <1>2, <1>3, CountHandler, CountOther DEF Next

\* Whoever got a slot keeps it while every process lives: a newcomer's
\* connection is closed only when the count has gone wrong, and it goes wrong
\* only by clients that were lost (server.cpp:166, 191-195).  However many
\* clients come, however their packets interleave, at every EXPECTED_PLAYERS.
THEOREM NoKickWithoutALoss == Spec => []KickNeedsALoss
<1> DEFINE IInv == TypeOK /\ FreshInv /\ CountInv
<1>1. Init => IInv
  BY TypeInit, FreshInit, CountInit
<1>2. IInv /\ [Next]_vars => IInv'
  BY TypeStep, FreshStep, CountStep
<1>3. IInv => KickNeedsALoss
  BY DEF CountInv, NobodyLost, KickNeedsALoss
<1> QED BY <1>1, <1>2, <1>3, PTL DEF Spec

-------------------------------------------------------------------------------
(* Nobody is introduced twice.                                             *)

\* The server's own packets accept nobody.
LEMMA SendAcceptsNobody ==
  ASSUME NEW q \in [Clients -> Seq(ToClient)], NEW m \in ToClient,
         m.id # "ID_CONNECTION_REQUEST_ACCEPTED",
         NEW c \in Clients, NEW k \in Clients,
         NEW r \in {Broadcast(q, m), SendTo(q, c, m)}
  PROVE  Acceptances(r[k]) = Acceptances(q[k])
<1>1. r[k] \in {q[k], Append(q[k], m)} /\ q[k] \in Seq(ToClient)
  BY DEF Broadcast, SendTo
<1>2. Acceptances(Append(q[k], m)) = Acceptances(q[k])
  <2> DEFINE s == q[k]
             K == {"ID_CONNECTION_REQUEST_ACCEPTED"}
  <2>1. s \in Seq(ToClient) /\ m.id \notin K
    BY <1>1
  <2> HIDE DEF s, K
  <2>2. At(Append(s, m), K) = At(s, K) \cup {i \in {Len(s) + 1} : m.id \in K}
    BY <2>1, PlacesMove
  <2>3. At(Append(s, m), K) = At(s, K)
    BY <2>1, <2>2
  <2> QED BY <2>3 DEF s, K, Acceptances
<1> QED BY <1>1, <1>2

\* Nor does NextTurn.
LEMMA NextTurnAcceptsNobody ==
  ASSUME TypeOK, NEW p, NEW gs, NEW q \in [Clients -> Seq(ToClient)],
         NextTurn(gs, p, q), NEW k \in Clients
  PROVE  Acceptances(toClient'[k]) = Acceptances(q[k])
<1>1. PICK n \in Clients : toClient' \in {q, Broadcast(q, Over), GiveTurn(q, n)}
  BY NextTurnEnds
<1>2. Over \in ToClient /\ Over.id = "S_UPDATE_GAME_STATE"
  BY UpdateType DEF Over, TypeOK, ServerTypeOK
<1>3. LET m == Plain("S_TAKE_TURN") IN m \in ToClient /\ m.id = "S_TAKE_TURN"
  BY PlainType DEF Plain
<1> HIDE DEF Over
<1>4. Acceptances(Broadcast(q, Over)[k]) = Acceptances(q[k])
  BY <1>2, SendAcceptsNobody
<1>5. Acceptances(GiveTurn(q, n)[k]) = Acceptances(q[k])
  BY <1>3, SendAcceptsNobody DEF GiveTurn
<1> QED BY <1>1, <1>4, <1>5

\* Nor does any handler.
LEMMA HandlerAcceptsNobody ==
  ASSUME TypeOK, TypeOK', NEW c \in Clients, PacketHandler(c),
         UNCHANGED clientVars, NEW k \in Clients
  PROVE  Acceptances(toClient'[k]) = Acceptances(toClient[k])
<1>0. /\ toClient \in [Clients -> Seq(ToClient)] /\ players \in SUBSET Clients
      /\ Lead[c] \in {"text", "S_GAME_STARTED", "S_TAKE_TURN"}
  BY LeadAssumption DEF TypeOK, TransportTypeOK, ServerTypeOK
<1>1. \A id \in {"text", "S_GAME_STARTED", "S_TAKE_TURN",
                 "S_REPLY_PLAYER_LIST_REQUEST", "S_REPLY_PLAYER_STATS_REQUEST"} :
        /\ Plain(id) \in ToClient
        /\ Plain(id).id # "ID_CONNECTION_REQUEST_ACCEPTED"
  BY PlainType DEF Plain
<1>2. CASE UNCHANGED toClient
  BY <1>2
<1>3. ASSUME NEW id \in {"text", "S_GAME_STARTED", "S_TAKE_TURN",
                         "S_REPLY_PLAYER_LIST_REQUEST",
                         "S_REPLY_PLAYER_STATS_REQUEST"},
             NEW n \in Clients,
             toClient' \in {Broadcast(toClient, Plain(id)),
                            SendTo(toClient, n, Plain(id))}
      PROVE  Acceptances(toClient'[k]) = Acceptances(toClient[k])
  <2>1. /\ Plain(id) \in ToClient
        /\ Plain(id).id # "ID_CONNECTION_REQUEST_ACCEPTED"
    BY <1>1
  <2> QED BY <1>0, <1>3, <2>1, SendAcceptsNobody
<1>4. CASE OnIncomingConnection(c) \/ OnConnectionLost(c) \/ OnClientIntro(c)
           \/ OnPlayerUnready(c)
  BY <1>2, <1>4
     DEF OnIncomingConnection, OnConnectionLost, OnClientIntro,
         OnPlayerUnready, Abort
<1>5. CASE OnClientChatReceived(c)
  BY <1>0, <1>2, <1>3, <1>5 DEF OnClientChatReceived, Abort
<1>6. CASE OnPlayerListRequest(c) \/ OnPlayerStatsRequest(c)
  BY <1>3, <1>6 DEF OnPlayerListRequest, OnPlayerStatsRequest
<1>7. CASE OnPlayerReady(c)
  <2>1. CASE UNCHANGED toClient
    BY <2>1
  <2>2. CASE Starts(c)
    <3> DEFINE q == Broadcast(toClient, Plain("S_GAME_STARTED"))
    <3>1. PICK n \in Clients : /\ q \in [Clients -> Seq(ToClient)]
                               /\ toClient' = GiveTurn(q, n)
      BY <2>2, StartsShape
    <3>2. Acceptances(q[k]) = Acceptances(toClient[k])
      BY <1>0, <1>1, SendAcceptsNobody
    <3> HIDE DEF q
    <3>3. Acceptances(GiveTurn(q, n)[k]) = Acceptances(q[k])
      BY <1>1, <3>1, SendAcceptsNobody DEF GiveTurn
    <3> QED BY <3>1, <3>2, <3>3
  <2> QED BY <1>7, <2>1, <2>2 DEF OnPlayerReady, Abort, Starts, GetsReady
<1>8. CASE OnPlayerJobChosen(c)
  <2>1. CASE c \notin players
    BY <1>2, <1>8, <2>1 DEF OnPlayerJobChosen, Abort
  <2>2. CASE c \in players
    <3> DEFINE q == Broadcast(toClient, Main(player'))
    <3>1. ChoiceArrives(c)
      BY <1>8, <2>2 DEF ChoiceArrives
    <3>2. /\ Main(player') \in ToClient /\ q \in [Clients -> Seq(ToClient)]
          /\ \/ \E n \in Clients : toClient' = GiveTurn(toClient, n)
             \/ NextTurn("GS_MAIN", player', q)
      BY <3>1, ChoiceShape
    <3>3. Main(player').id = "S_UPDATE_GAME_STATE"
      BY DEF Main
    <3>4. Acceptances(q[k]) = Acceptances(toClient[k])
      BY <1>0, <3>2, <3>3, SendAcceptsNobody
    <3> HIDE DEF q
    <3>5. CASE NextTurn("GS_MAIN", player', q)
      BY <3>2, <3>4, <3>5, NextTurnAcceptsNobody
    <3>6. CASE \E n \in Clients : toClient' = GiveTurn(toClient, n)
      BY <1>3, <3>6 DEF GiveTurn
    <3> QED BY <3>2, <3>5, <3>6
  <2> QED BY <2>1, <2>2
<1>9. CASE OnPlayerActionTaken(c)
  <2>1. CASE c \notin players \/ WithName(Head(toServer[c]).target) = {}
    BY <1>2, <1>9, <2>1 DEF OnPlayerActionTaken, Abort
  <2>2. CASE c \in players /\ WithName(Head(toServer[c]).target) # {}
    <3> DEFINE target == GetPlayerWithName(Head(toServer[c]).target)
               m == HealthUpdate(player', target)
               q == Broadcast(toClient, m)
    <3>1. ActionArrives(c)
      BY <1>9, <2>2 DEF ActionArrives
    <3>2. /\ m \in ToClient /\ q \in [Clients -> Seq(ToClient)]
          /\ NextTurn(gameState, player', q)
      BY <3>1, ActionShape
    <3>3. m.id = "S_UPDATE_PLAYER_HP"
      BY DEF HealthUpdate
    <3> HIDE DEF m
    <3>4. Acceptances(q[k]) = Acceptances(toClient[k])
      BY <1>0, <3>2, <3>3, SendAcceptsNobody
    <3> HIDE DEF q
    <3> QED BY <3>2, <3>4, NextTurnAcceptsNobody
  <2> QED BY <2>1, <2>2
<1> QED
  BY <1>4, <1>5, <1>6, <1>7, <1>8, <1>9 DEF PacketHandler


\* A queue of a client's packets, by the places of C_INTRO.
LEMMA IntrosMove ==
  ASSUME NEW q \in Seq(ToServer)
  PROVE  /\ q # <<>> => (1 \in Intros(q) <=> Head(q).id = "C_INTRO")
         /\ Intros(q) \subseteq 1..Len(q) /\ Len(q) \in Nat
         /\ \A m \in ToServer :
              Intros(Append(q, m)) =
                Intros(q) \cup {i \in {Len(q) + 1} : m.id = "C_INTRO"}
         /\ q # <<>> => \A p \in Prefixes(Tail(q)) : \A i \in Intros(p) :
                          i + 1 \in Intros(q) /\ i \in Nat \ {0}
         /\ \A p \in Prefixes(q) : Intros(p) \subseteq Intros(q)
<1> DEFINE K == {"C_INTRO"}
<1>1. \A x : x \in K <=> x = "C_INTRO"
  OBVIOUS
<1>2. \A r : Intros(r) = At(r, K)
  BY DEF Intros
<1> HIDE DEF K
<1>0. At(q, K) \subseteq 1..Len(q) /\ Len(q) \in Nat
  BY PlacesMove
<1>3. q # <<>> => (1 \in At(q, K) <=> Head(q).id \in K)
  BY PlacesMove
<1>5. \A m \in ToServer :
        At(Append(q, m), K) = At(q, K) \cup {i \in {Len(q) + 1} : m.id \in K}
  BY PlacesMove
<1>6. /\ q # <<>> => \A p \in Prefixes(Tail(q)) : \A i \in At(p, K) :
                       i + 1 \in At(q, K) /\ i \in Nat \ {0}
      /\ \A p \in Prefixes(q) : At(p, K) \subseteq At(q, K)
  BY PlacesMove
<1>4. ASSUME NEW m \in ToServer
      PROVE  Intros(Append(q, m)) =
               Intros(q) \cup {i \in {Len(q) + 1} : m.id = "C_INTRO"}
  <2>1. Intros(Append(q, m)) =
          Intros(q) \cup {i \in {Len(q) + 1} : m.id \in K}
    BY <1>2, <1>5
  <2>2. m.id \in K <=> m.id = "C_INTRO"
    BY <1>1
  <2> QED BY <2>1, <2>2
<1> QED BY <1>0, <1>1, <1>2, <1>3, <1>4, <1>6

\* A queue of packets to a client that takes the next one.
LEMMA AcceptancesMove ==
  ASSUME NEW q \in Seq(ToClient), q # <<>>, Acceptances(q) \subseteq {1}
  PROVE  /\ Head(q).id = "ID_CONNECTION_REQUEST_ACCEPTED" => 1 \in Acceptances(q)
         /\ Acceptances(Tail(q)) = {}
<1> DEFINE K == {"ID_CONNECTION_REQUEST_ACCEPTED"}
<1>1. \A x : x \in K <=> x = "ID_CONNECTION_REQUEST_ACCEPTED"
  OBVIOUS
<1>2. \A r : Acceptances(r) = At(r, K)
  BY DEF Acceptances
<1> HIDE DEF K
<1>3. /\ 1 \in At(q, K) <=> Head(q).id \in K
      /\ \A p \in Prefixes(Tail(q)) : \A i \in At(p, K) :
           i + 1 \in At(q, K) /\ i \in Nat \ {0}
      /\ Tail(q) \in Prefixes(Tail(q))
  BY PlacesMove
<1>4. ASSUME NEW i \in At(Tail(q), K)
      PROVE  FALSE
  <2>1. i + 1 \in At(q, K) /\ i \in Nat \ {0}
    BY <1>3
  <2>2. i + 1 = 1
    BY <1>2, <2>1
  <2> QED BY <2>1, <2>2
<1> QED BY <1>1, <1>2, <1>3, <1>4

\* A client the step does nothing for, or only takes from.
LEMMA IntroStays ==
  ASSUME NEW k \in Clients, IntroducedOnce(k),
         Acceptances(toClient'[k]) \subseteq Acceptances(toClient[k]),
         Intros(toServer'[k]) \subseteq Intros(toServer[k]),
         cPacket'[k] = cPacket[k], k \in players' => k \in players
  PROVE  IntroducedOnce(k)'
BY DEF IntroducedOnce

\* The server takes an introduction for good: there is no second one, neither
\* under way nor to come.
LEMMA IntroHandler ==
  ASSUME TypeOK, TypeOK', IntroInv, NEW c \in Clients, PacketHandler(c),
         UNCHANGED clientVars
  PROVE  IntroInv'
<1> DEFINE q == toServer[c]
           r == toServer'[c]
<1>0. q \in Seq(ToServer) /\ cPacket' = cPacket
  BY DEF TypeOK, TransportTypeOK, clientVars
<1>1. /\ q # <<>> /\ r \in Prefixes(Tail(q))
      /\ \A k \in Clients : k # c => toServer'[k] = toServer[k]
      /\ players' = IF Head(q).id = "C_INTRO" THEN players \cup {c} ELSE players
  BY HandlerShape
<1>2. \A k \in Clients : Acceptances(toClient'[k]) = Acceptances(toClient[k])
  BY HandlerAcceptsNobody
<1>3. ASSUME NEW k \in Clients, k # c
      PROVE  IntroducedOnce(k)'
  BY <1>0, <1>1, <1>2, <1>3, IntroStays DEF IntroInv
<1>4. IntroducedOnce(c)'
  <2>1. /\ 1 \in Intros(q) <=> Head(q).id = "C_INTRO"
        /\ \A i \in Intros(r) : i + 1 \in Intros(q) /\ i \in Nat \ {0}
    <3> HIDE DEF q, r
    <3> QED BY <1>0, <1>1, IntrosMove
  <2>2. IntroducedOnce(c)
    BY DEF IntroInv
  <2>3. CASE Head(q).id = "C_INTRO"
    <3>1. \A i \in Intros(q) : i = 1
      BY <2>1, <2>2, <2>3 DEF IntroducedOnce
    <3>2. ASSUME NEW i \in Intros(r)
          PROVE  FALSE
      <4>1. i + 1 = 1 /\ i \in Nat \ {0}
        BY <2>1, <3>1
      <4> QED BY <4>1
    <3>3. Acceptances(toClient[c]) = {} /\ cPacket[c] # "introducing"
      BY <2>1, <2>2, <2>3 DEF IntroducedOnce
    <3> QED BY <1>0, <1>2, <3>2, <3>3 DEF IntroducedOnce
  <2>4. CASE Head(q).id # "C_INTRO"
    <3>1. ASSUME NEW i \in Intros(r), NEW j \in Intros(r)
          PROVE  i = j /\ c \notin players
      <4>1. /\ i + 1 \in Intros(q) /\ j + 1 \in Intros(q)
            /\ i \in Nat /\ j \in Nat
        BY <2>1
      <4>2. i + 1 = j + 1 /\ c \notin players
        BY <2>2, <4>1 DEF IntroducedOnce
      <4> QED BY <4>1, <4>2
    <3>2. Intros(q) = {} => Intros(r) = {}
      BY <2>1
    <3>3. players' = players
      BY <1>1, <2>4
    <3> HIDE DEF q, r
    <3>4. /\ \A i \in Acceptances(toClient[c]) :
               /\ i = 1 /\ cPacket[c] = "idle"
               /\ Intros(q) = {} /\ c \notin players
          /\ cPacket[c] = "introducing" => Intros(q) = {} /\ c \notin players
      BY <2>2 DEF IntroducedOnce, q
    <3>5. /\ \A i \in Acceptances(toClient'[c]) :
               /\ i = 1 /\ cPacket'[c] = "idle"
               /\ Intros(r) = {} /\ c \notin players'
          /\ cPacket'[c] = "introducing" => Intros(r) = {} /\ c \notin players'
          /\ \A i, j \in Intros(r) : i = j /\ c \notin players'
      BY <1>0, <1>2, <3>1, <3>2, <3>3, <3>4
    <3> QED BY <3>5 DEF IntroducedOnce, r
  <2> QED BY <2>3, <2>4
<1> QED BY <1>3, <1>4 DEF IntroInv


\* What a line typed by a player sends: nothing the lobby counts.
LEMMA InputSends ==
  ASSUME TypeOK, TypeOK', NEW c \in Clients, InputHandler(c),
         UNCHANGED serverVars
  PROVE  /\ UNCHANGED <<toClient, cPacket, link>>
         /\ \/ UNCHANGED toServer
            \/ \E m \in ToServer : Post(c, m) /\ m.id \notin {Announcement, "C_INTRO"}
<1>1. UNCHANGED <<toClient, cPacket, link>>
  BY DEF InputHandler, Ready, Unready, Chat, Ask, ChooseJob, TakeAction,
         WasteTurn, transportVars
<1>2. \A id \in {"C_READY", "C_UNREADY", "C_CHAT", "C_PLAYER_LIST_REQUEST",
                 "C_PLAYER_STATS_REQUEST"} :
        Plain(id) \in ToServer /\ Plain(id).id \notin {Announcement, "C_INTRO"}
  BY PlainType DEF Plain, Announcement
<1>3. CASE Ready(c) \/ Unready(c) \/ Chat(c) \/ Ask(c)
  BY <1>1, <1>2, <1>3 DEF Ready, Unready, Chat, Ask
<1>4. CASE ChooseJob(c) \/ TakeAction(c)
  <2>1. PICK m \in ToServer : m.id \in TurnRequests /\ Post(c, m)
    BY <1>4, UsesTurnShape DEF UsesTurn, TurnRequests
  <2> QED BY <1>1, <2>1 DEF TurnRequests, Announcement
<1>5. CASE WasteTurn(c)
  BY <1>1, <1>5 DEF WasteTurn, transportVars
<1> QED BY <1>3, <1>4, <1>5 DEF InputHandler

\* A client introduces itself when it has been accepted, and not again.
LEMMA IntroClient ==
  ASSUME TypeOK, TypeOK', FreshInv, IntroInv, NEW c \in Clients,
         UNCHANGED serverVars,
         \/ Connect(c) \/ SetPending(c) \/ ClientPackets(c)
         \/ InputHandler(c)
  PROVE  IntroInv'
<1> DEFINE q == toServer[c]
           r == toServer'[c]
           a == toClient[c]
           b == toClient'[c]
<1>0. /\ toServer \in [Clients -> Seq(ToServer)] /\ q \in Seq(ToServer)
      /\ toClient \in [Clients -> Seq(ToClient)] /\ a \in Seq(ToClient)
      /\ cPacket \in [Clients -> {"idle", "introducing"}]
      /\ players' = players
  BY DEF TypeOK, TransportTypeOK, ClientTypeOK, serverVars
<1>1. ASSUME NEW k \in Clients, IntroducedOnce(k),
             toClient'[k] = toClient[k], cPacket'[k] = cPacket[k],
             Intros(toServer'[k]) \subseteq Intros(toServer[k])
      PROVE  IntroducedOnce(k)'
  BY <1>0, <1>1, IntroStays
<1>2. ASSUME NEW k \in Clients, k # c
      PROVE  IntroducedOnce(k)'
  <2>1. toServer'[k] = toServer[k]
    BY <1>2, ClientShape
  <2>2. cPacket'[k] = cPacket[k] /\ toClient'[k] = toClient[k]
    <3>1. CASE Connect(c) \/ SetPending(c) \/ InputHandler(c)
      BY <1>0, <1>2, <3>1, InputSends DEF Connect, SetPending, transportVars
    <3>2. CASE ClientPackets(c)
      BY <1>0, <1>2, <3>2
         DEF ClientPackets, OnConnectionAccepted, SendIntro, OnGameStart,
             OnTakeTurn, OnGameStateUpdate, OnPlayersHealthUpdated, ShowReply,
             Take, clientVars
    <3> QED BY <3>1, <3>2
  <2> QED BY <1>1, <2>1, <2>2 DEF IntroInv
<1>3. IntroducedOnce(c)
  BY DEF IntroInv
<1>4. ASSUME Connect(c) \/ SetPending(c)
      PROVE  IntroducedOnce(c)'
  <2>1. UNCHANGED <<toServer, toClient, cPacket>>
    BY <1>4 DEF Connect, SetPending, transportVars
  <2> QED BY <1>1, <1>3, <2>1
<1>5. ASSUME InputHandler(c)
      PROVE  IntroducedOnce(c)'
  <2>1. /\ UNCHANGED <<toClient, cPacket>>
        /\ \/ r = q
           \/ \E m \in ToServer : m.id # "C_INTRO" /\ r = Append(q, m)
    BY <1>0, <1>5, InputSends DEF Post
  <2> HIDE DEF q, r
  <2>2. Intros(r) \subseteq Intros(q)
    <3>1. ASSUME NEW m \in ToServer, m.id # "C_INTRO"
          PROVE  Intros(Append(q, m)) = Intros(q)
      <4>1. Intros(Append(q, m)) =
              Intros(q) \cup {i \in {Len(q) + 1} : m.id = "C_INTRO"}
        BY <1>0, IntrosMove
      <4> QED BY <3>1, <4>1
    <3> QED BY <2>1, <3>1
  <2> QED BY <1>1, <1>3, <2>1, <2>2 DEF q, r
<1>6. ASSUME ClientPackets(c), ~SendIntro(c)
      PROVE  IntroducedOnce(c)'
  <2>1. /\ a # <<>> /\ b = Tail(a) /\ toServer' = toServer
        /\ cPacket[c] = "idle"
        /\ \/ cPacket'[c] = "idle"
           \/ Head(a).id = "ID_CONNECTION_REQUEST_ACCEPTED"
    BY <1>0, <1>6
       DEF ClientPackets, OnConnectionAccepted, OnGameStart, OnTakeTurn,
           OnGameStateUpdate, OnPlayersHealthUpdated, ShowReply, Take,
           clientVars
  <2>2. /\ \A i \in Acceptances(a) : /\ i = 1
                                     /\ Intros(q) = {} /\ c \notin players
        /\ \A i, j \in Intros(q) : i = j /\ c \notin players
    BY <1>3 DEF IntroducedOnce
  <2> HIDE DEF a, b
  <2>3. /\ Acceptances(b) = {}
        /\ Head(a).id = "ID_CONNECTION_REQUEST_ACCEPTED" => 1 \in Acceptances(a)
    BY <1>0, <2>1, <2>2, AcceptancesMove
  <2>4. cPacket'[c] = "idle" \/ (Intros(q) = {} /\ c \notin players)
    BY <2>1, <2>2, <2>3
  <2>5. Intros(r) = Intros(q)
    BY <2>1
  <2> HIDE DEF q, r
  <2>6. /\ \A i \in Acceptances(b) :
             /\ i = 1 /\ cPacket'[c] = "idle"
             /\ Intros(r) = {} /\ c \notin players'
        /\ cPacket'[c] = "introducing" => Intros(r) = {} /\ c \notin players'
        /\ \A i, j \in Intros(r) : i = j /\ c \notin players'
    BY <1>0, <2>2, <2>3, <2>4, <2>5
  <2> QED BY <2>6 DEF IntroducedOnce, r, b
<1>7. ASSUME SendIntro(c)
      PROVE  IntroducedOnce(c)'
  <2> DEFINE m == Plain("C_INTRO")
  <2>1. /\ toClient' = toClient /\ cPacket[c] = "introducing"
        /\ cPacket'[c] = "idle"
        /\ r = q \/ r = Append(q, m)
    BY <1>0, <1>7 DEF SendIntro, Post
  <2>2. Acceptances(a) = {} /\ Intros(q) = {} /\ c \notin players
    BY <1>3, <2>1 DEF IntroducedOnce
  <2>3. m \in ToServer
    BY PlainType
  <2> HIDE DEF m, q, r
  <2>4. Intros(r) \subseteq {Len(q) + 1}
    <3>1. Intros(Append(q, m)) \subseteq Intros(q) \cup {Len(q) + 1}
      BY <1>0, <2>3, IntrosMove
    <3> QED BY <2>1, <2>2, <3>1
  <2>5. /\ Acceptances(toClient'[c]) = {}
        /\ cPacket'[c] # "introducing"
        /\ \A i, j \in Intros(r) : i = j /\ c \notin players'
    BY <1>0, <2>1, <2>2, <2>4
  <2> QED BY <2>5 DEF IntroducedOnce, r
<1>8. IntroducedOnce(c)'
  BY <1>4, <1>5, <1>6, <1>7
<1> QED BY <1>2, <1>8 DEF IntroInv


\* RakNet accepts clients that were never accepted before.
LEMMA IntroEnvironment ==
  ASSUME TypeOK, TypeOK', FreshInv, IntroInv, NEW c \in Clients, Environment(c)
  PROVE  IntroInv'
<1> DEFINE q == toServer[c]
           r == toServer'[c]
           a == toClient[c]
           b == toClient'[c]
<1>0. /\ q \in Seq(ToServer) /\ a \in Seq(ToClient)
      /\ players' = players /\ cPacket' = cPacket
      /\ \A k \in Clients : k # c => toServer'[k] = toServer[k]
  BY EnvironmentShape
     DEF TypeOK, TransportTypeOK, Environment, serverVars, clientVars
<1>1. \A k \in Clients : k # c => toClient'[k] = toClient[k]
  BY DEF TypeOK, TransportTypeOK, Environment, Accept, Refuse, Vanish, TimeOut
<1>2. ASSUME NEW k \in Clients, k # c
      PROVE  IntroducedOnce(k)'
  BY <1>0, <1>1, <1>2, IntroStays DEF IntroInv
<1>3. IntroducedOnce(c)
  BY DEF IntroInv
<1>4. \/ /\ link[c] = "connecting"
         /\ r = Append(q, Plain(Announcement))
         /\ b = Append(a, Plain("ID_CONNECTION_REQUEST_ACCEPTED"))
      \/ /\ \/ r = q
            \/ r \in Prefixes(q)
            \/ r = Append(q, Plain("ID_CONNECTION_LOST"))
         /\ b = a \/ b = <<>>
  BY EnvironmentShape
<1>5. /\ Plain(Announcement) \in ToServer
      /\ Plain(Announcement).id # "C_INTRO"
      /\ Plain("ID_CONNECTION_LOST") \in ToServer
      /\ Plain("ID_CONNECTION_LOST").id # "C_INTRO"
      /\ Plain("ID_CONNECTION_REQUEST_ACCEPTED") \in ToClient
  BY PlainType DEF Plain, Announcement
<1>6. /\ \A m \in ToServer : m.id # "C_INTRO" =>
           Intros(Append(q, m)) = Intros(q)
      /\ \A p \in Prefixes(q) : Intros(p) \subseteq Intros(q)
  <2> HIDE DEF q
  <2>1. ASSUME NEW m \in ToServer, m.id # "C_INTRO"
        PROVE  Intros(Append(q, m)) = Intros(q)
    <3>1. Intros(Append(q, m)) =
            Intros(q) \cup {i \in {Len(q) + 1} : m.id = "C_INTRO"}
      BY <1>0, IntrosMove
    <3> QED BY <2>1, <3>1
  <2> QED BY <1>0, <2>1, IntrosMove
<1>7. Acceptances(<<>>) = {}
  BY DEF Acceptances, At
<1>8. CASE /\ \/ r = q
              \/ r \in Prefixes(q)
              \/ r = Append(q, Plain("ID_CONNECTION_LOST"))
           /\ b = a \/ b = <<>>
  <2> HIDE DEF q, r, a, b
  <2>1. Intros(r) \subseteq Intros(q) /\ Acceptances(b) \subseteq Acceptances(a)
    BY <1>5, <1>6, <1>7, <1>8
  <2>2. IntroducedOnce(c)'
    BY <1>0, <1>3, <2>1, IntroStays DEF q, r, a, b
  <2> QED BY <1>2, <2>2 DEF IntroInv
<1>9. CASE /\ link[c] = "connecting"
           /\ r = Append(q, Plain(Announcement))
           /\ b = Append(a, Plain("ID_CONNECTION_REQUEST_ACCEPTED"))
  <2> DEFINE m == Plain("ID_CONNECTION_REQUEST_ACCEPTED")
  <2>1. q = <<>> /\ a = <<>> /\ cPacket[c] = "idle" /\ c \notin players
    BY <1>9 DEF FreshInv, Fresh, Untouched
  <2>2. b = Append(<<>>, m) /\ m \in ToClient
    BY <1>5, <1>9, <2>1
  <2> HIDE DEF q, r, a, b, m
  <2>3. Acceptances(b) \subseteq {1}
    <3>1. <<>> \in Seq(ToClient) /\ Len(<<>>) = 0
      BY EmptySeq
    <3>2. DOMAIN Append(<<>>, m) = 1..1
      BY <2>2, <3>1, AppendProperties, LenProperties
    <3> QED BY <2>2, <3>2 DEF Acceptances, At
  <2>4. Intros(r) = {}
    <3>1. Intros(<<>>) = {}
      BY DEF Intros, At
    <3> QED BY <1>5, <1>6, <1>9, <2>1, <3>1
  <2>5. IntroducedOnce(c)'
    BY <1>0, <2>1, <2>3, <2>4 DEF IntroducedOnce, r, b
  <2> QED BY <1>2, <2>5 DEF IntroInv
<1> QED BY <1>4, <1>8, <1>9

\* IntroInv is inductive.
LEMMA IntroStep ==
  TypeOK /\ TypeOK' /\ FreshInv /\ IntroInv /\ [Next]_vars => IntroInv'
<1> SUFFICES ASSUME TypeOK, TypeOK', FreshInv, IntroInv, [Next]_vars
             PROVE  IntroInv'
  OBVIOUS
<1>1. CASE UNCHANGED <<toClient, toServer, cPacket, players>>
  BY <1>1 DEF IntroInv, IntroducedOnce
<1>2. CASE UNCHANGED vars
  BY <1>1, <1>2 DEF vars, serverVars, clientVars, transportVars
<1>3. CASE GameLoop /\ UNCHANGED clientVars
  BY <1>1, <1>3 DEF GameLoop, clientVars, transportVars
<1> QED
  BY <1>2, <1>3, IntroHandler, IntroClient, IntroEnvironment DEF Next

\* In the first state nobody has been accepted.
LEMMA IntroInit == Init => IntroInv
BY DEF Init, ServerInit, ClientInit, TransportInit, IntroInv, IntroducedOnce,
       Acceptances, Intros, At


-------------------------------------------------------------------------------
(* The count, while it is below the number of players expected.            *)

\* In the first state nobody is counted and nobody is heard.
LEMMA FullInit == Init => FullInv
<1> SUFFICES ASSUME Init
             PROVE  FullInv
  OBVIOUS
<1>1. /\ link = [c \in Clients |-> "none"]
      /\ toServer = [c \in Clients |-> <<>>]
      /\ totalConnections = 0 /\ players = {}
  BY DEF Init, ServerInit, TransportInit
<1>2. Expected \in SUBSET Clients /\ Clients \in SUBSET Clients
  BY DEF Expected
<1>3. Cardinality(Expected) <= Cardinality(Clients)
  BY <1>2, ClientsAssumption, FS_Subset
<1>4. IsFiniteSet(Expected)
  BY <1>2, ClientsAssumption, FS_Subset
<1>5. Cardinality(Expected) \in Nat
  BY <1>4, FS_CardinalityType
<1>6. Heard = {}
  BY <1>1 DEF Heard, Open, Intros, At
<1>7. Cardinality(Heard) = 0
  BY <1>6, FS_EmptySet
<1> QED BY <1>1, <1>3, <1>5, <1>7 DEF FullInv

\* While clients are few the count does not wrap.
LEMMA AnnouncementCounts ==
  ASSUME FewClients, TypeOK, CountInv, FullInv, NEW c \in Clients,
         OnIncomingConnection(c)
  PROVE  /\ totalConnections' = totalConnections + 1
         /\ totalConnections \in Nat /\ c \in Expected
<1> DEFINE q == toServer[c]
           t == totalConnections
           u == totalConnections'
           E == Cardinality(Expected)
<1>1. q \in Seq(ToServer) /\ q # <<>> /\ Head(q).id = Announcement
  BY DEF TypeOK, TransportTypeOK, OnIncomingConnection, Receive, Announcement
<1>2. t \in Nat
  BY DEF TypeOK, ServerTypeOK, UnsignedShort
<1>3. At(q, {Announcement}) \subseteq {1}
  BY DEF CountInv, AnnouncedFirst
<1>4. Announced(q)
  <2> HIDE DEF q
  <2> QED BY <1>1, <1>3, AnnouncementMoves
<1>5. c \in Expected /\ Expected \in SUBSET Clients
  BY <1>4 DEF Expected
<1>6. E \in Nat /\ 1 <= E
  <2>1. {} \in SUBSET Clients /\ {} \cup {c} \subseteq Expected /\ Cardinality({}) = 0
    BY <1>5, FS_EmptySet
  <2>2. Cardinality({}) + 1 <= E /\ E \in Nat
    BY <1>5, <2>1, Counting
  <2> QED BY <2>1, <2>2
<1>7. t + E <= Cardinality(Clients) /\ Cardinality(Clients) \in Nat
  BY ClientsAssumption, FS_CardinalityType DEF FullInv
<1>8. u = (t + 1) % 65536
  BY DEF OnIncomingConnection
<1> HIDE DEF E, t, u
<1>9. t + 1 < 65536
  BY <1>2, <1>6, <1>7 DEF FewClients
<1>10. u = t + 1
  BY <1>2, <1>8, <1>9, CountsOn
<1> QED BY <1>2, <1>5, <1>10 DEF t, u

\* The server counts a client before it hears of it, and once: no handler but
\* that of the announcement adds to those heard.
LEMMA FullHandler ==
  ASSUME FewClients, TypeOK, FreshInv, CountInv, FullInv, NEW c \in Clients,
         PacketHandler(c)
  PROVE  FullInv'
<1> DEFINE q == toServer[c]
           r == toServer'[c]
<1>0. /\ link \in [Clients -> LinkState] /\ q \in Seq(ToServer)
      /\ totalConnections \in Nat
  BY DEF TypeOK, TransportTypeOK, ServerTypeOK, UnsignedShort
<1>5. At(q, {Announcement}) \subseteq {1}
  BY DEF CountInv, AnnouncedFirst
<1>1. /\ q # <<>> /\ r \in Prefixes(Tail(q))
      /\ \A k \in Clients : k # c => /\ toServer'[k] = toServer[k]
                                     /\ link'[k] = link[k]
      /\ link'[c] \in {link[c], "closed", "gone"}
      /\ Kicked(c) => totalConnections' = totalConnections - 1
      /\ ~Kicked(c) => UNCHANGED link
      /\ Head(q).id # Announcement /\ ~Kicked(c) => UNCHANGED totalConnections
      /\ players' = IF Head(q).id = "C_INTRO" THEN players \cup {c} ELSE players
  BY HandlerShape
<1>2. /\ Announced(q) <=> Head(q).id = Announcement
      /\ ~Announced(r)
      /\ Intros(r) # {} => Intros(q) # {}
      /\ Head(q).id = "C_INTRO" => Intros(q) # {}
  <2> HIDE DEF q, r
  <2>1. /\ At(r, {Announcement}) = {}
        /\ Announced(q) <=> Head(q).id = Announcement
    BY <1>0, <1>5, <1>1, AnnouncementMoves
  <2>2. /\ Intros(r) # {} => Intros(q) # {}
        /\ Head(q).id = "C_INTRO" => Intros(q) # {}
    BY <1>0, <1>1, IntrosMove
  <2> QED BY <2>1, <2>2 DEF Announced
<1>3. link[c] \notin {"none", "connecting"}
  BY <1>1 DEF FreshInv, Fresh, Untouched
<1>4. Expected' \subseteq Expected /\ c \notin Expected'
  BY <1>1, <1>2, <1>3 DEF Expected
<1>6. Heard' \subseteq Heard \cup {c}
  BY <1>1 DEF Heard, Open
<1>7. ASSUME Head(q).id # Announcement, ~Kicked(c)
      PROVE  Heard' \subseteq Heard
  <2>1. c \in players' => c \in players \/ Intros(q) # {}
    BY <1>1, <1>2
  <2>2. c \in Heard' => c \in Heard
    BY <1>1, <1>2, <1>7, <2>1 DEF Heard, Open
  <2> QED BY <1>6, <2>2
<1>8. /\ Expected \in SUBSET Clients /\ Expected' \in SUBSET Clients
      /\ Heard \in SUBSET Clients /\ Heard' \in SUBSET Clients
  BY DEF Expected, Heard
<1> DEFINE E == Cardinality(Expected)
           F == Cardinality(Expected')
           H == Cardinality(Heard)
           I == Cardinality(Heard')
<1>9. /\ E \in Nat /\ F \in Nat /\ F <= E
      /\ c \in Expected => F + 1 <= E
      /\ H \in Nat /\ I \in Nat /\ I <= H + 1
      /\ Heard' \subseteq Heard => I <= H
  <2>1. Expected' \cup {c} \subseteq Expected \/ c \notin Expected
    BY <1>4
  <2> QED BY <1>4, <1>6, <1>8, <2>1, Counting
<1>10. /\ totalConnections + E <= Cardinality(Clients)
       /\ totalConnections < EXPECTED_PLAYERS => H <= totalConnections
  BY DEF FullInv
<1>11. Cardinality(Clients) \in Nat /\ EXPECTED_PLAYERS \in Nat
  BY ClientsAssumption, FS_CardinalityType
<1> DEFINE t == totalConnections
           u == totalConnections'
<1>12. ASSUME u + F <= Cardinality(Clients),
              u < EXPECTED_PLAYERS => I <= u
       PROVE  FullInv'
  BY <1>12 DEF FullInv
<1>13. CASE Head(q).id = Announcement
  <2>1. OnIncomingConnection(c)
    BY <1>13
       DEF PacketHandler, OnConnectionLost, OnClientIntro,
           OnClientChatReceived, OnPlayerListRequest, OnPlayerStatsRequest,
           OnPlayerReady, OnPlayerUnready, OnPlayerJobChosen,
           OnPlayerActionTaken, Receive, Announcement
  <2>2. c \in Expected /\ u = t + 1
    BY <2>1, AnnouncementCounts
  <2> HIDE DEF E, F, H, I, u
  <2>3. u + F <= Cardinality(Clients)
    BY <1>0, <1>9, <1>10, <1>11, <2>2
  <2>4. u < EXPECTED_PLAYERS => I <= u
    BY <1>0, <1>9, <1>10, <1>11, <2>2
  <2> QED BY <1>12, <2>3, <2>4
<1>14. CASE Kicked(c)
  <2>1. u = t - 1 /\ t > EXPECTED_PLAYERS
    BY <1>1, <1>14 DEF Kicked, Overfull
  <2> HIDE DEF E, F, H, I, u
  <2>2. u + F <= Cardinality(Clients) /\ u >= EXPECTED_PLAYERS /\ u \in Nat
    BY <1>0, <1>9, <1>10, <1>11, <2>1
  <2>3. ~(u < EXPECTED_PLAYERS)
    BY <1>11, <2>2
  <2> QED BY <1>12, <2>2, <2>3
<1>15. CASE Head(q).id # Announcement /\ ~Kicked(c)
  <2>1. u = t /\ I <= H
    BY <1>1, <1>7, <1>9, <1>15
  <2> HIDE DEF E, F, H, I, u
  <2>2. u + F <= Cardinality(Clients)
    BY <1>0, <1>9, <1>10, <1>11, <2>1
  <2>3. u < EXPECTED_PLAYERS => I <= u
    BY <1>0, <1>9, <1>10, <1>11, <2>1
  <2> QED BY <1>12, <2>2, <2>3
<1> QED BY <1>13, <1>14, <1>15

\* Only a client that is connected gets a C_INTRO under way.
LEMMA IntrosGrow ==
  ASSUME TypeOK, TypeOK', FreshInv, NEW c \in Clients,
         \/ /\ UNCHANGED serverVars
            /\ \/ Connect(c) \/ SetPending(c) \/ ClientPackets(c)
               \/ InputHandler(c)
         \/ Environment(c)
  PROVE  Intros(toServer'[c]) # {} => Intros(toServer[c]) # {} \/ Open(c)
<1> DEFINE q == toServer[c]
           r == toServer'[c]
<1>0. q \in Seq(ToServer)
  BY DEF TypeOK, TransportTypeOK
<1>1. CASE UNCHANGED serverVars /\ ~Environment(c)
  BY <1>1, ClientShape
<1>2. CASE Environment(c)
  <2>1. \/ r = q
        \/ r \in Prefixes(q)
        \/ r = Append(q, Plain(Announcement))
        \/ r = Append(q, Plain("ID_CONNECTION_LOST"))
    BY <1>2, EnvironmentShape
  <2>2. ASSUME NEW id \in {Announcement, "ID_CONNECTION_LOST"}
        PROVE  Intros(Append(q, Plain(id))) = Intros(q)
    <3> DEFINE m == Plain(id)
    <3>1. m \in ToServer /\ m.id # "C_INTRO"
      BY PlainType DEF Plain, Announcement
    <3> HIDE DEF m, q
    <3>2. Intros(Append(q, m)) =
            Intros(q) \cup {i \in {Len(q) + 1} : m.id = "C_INTRO"}
      BY <1>0, <3>1, IntrosMove
    <3>3. Intros(Append(q, m)) = Intros(q)
      BY <3>1, <3>2
    <3> QED BY <3>3 DEF m
  <2>3. \A p \in Prefixes(q) : Intros(p) \subseteq Intros(q)
    <3> HIDE DEF q
    <3> QED BY <1>0, IntrosMove
  <2> QED BY <2>1, <2>2, <2>3
<1> QED BY <1>1, <1>2

\* Nobody comes to be expected or heard by what clients and RakNet do.
LEMMA FullOther ==
  ASSUME TypeOK, TypeOK', FreshInv, CountInv, FullInv, NEW c \in Clients,
         \/ /\ UNCHANGED serverVars
            /\ \/ Connect(c) \/ SetPending(c) \/ ClientPackets(c)
               \/ InputHandler(c)
         \/ Environment(c)
  PROVE  FullInv'
<1>0. link \in [Clients -> LinkState] /\ totalConnections \in Nat
  BY DEF TypeOK, TransportTypeOK, ServerTypeOK, UnsignedShort
<1>1. /\ UNCHANGED <<totalConnections, players>>
      /\ \A k \in Clients : k # c => /\ toServer'[k] = toServer[k]
                                     /\ link'[k] = link[k]
      /\ \/ /\ \/ link'[c] = link[c]
               \/ link[c] = "none" /\ link'[c] = "connecting"
               \/ link[c] = "connecting" /\ link'[c] = "refused"
               \/ link[c] = "dead" /\ link'[c] = "gone"
            /\ Announced(toServer'[c]) <=> Announced(toServer[c])
         \/ /\ link[c] = "connecting" /\ link'[c] = "open"
            /\ Announced(toServer'[c])
         \/ /\ link[c] = "open" /\ link'[c] = "dead"
            /\ Announced(toServer'[c]) => Announced(toServer[c])
            /\ toServer'[c] # <<>> =>
                 (Announced(toServer'[c]) <=> Announced(toServer[c]))
  BY OtherShape DEF CountInv, serverVars
<1>2. Expected' \subseteq Expected
  BY <1>1 DEF Expected
<1>3. Heard' \subseteq Heard
  <2>1. Intros(toServer'[c]) # {} => Intros(toServer[c]) # {} \/ Open(c)
    BY IntrosGrow
  <2>2. Intros(toServer'[c]) # {} => toServer'[c] # <<>>
    BY DEF Intros, At
  <2>3. c \in Heard' => c \in Heard
    BY <1>1, <2>1, <2>2 DEF Heard, Open
  <2>4. \A k \in Clients : k # c /\ k \in Heard' => k \in Heard
    BY <1>1 DEF Heard, Open
  <2> QED BY <2>3, <2>4 DEF Heard
<1>4. /\ Expected \in SUBSET Clients /\ Expected' \in SUBSET Clients
      /\ Heard \in SUBSET Clients /\ Heard' \in SUBSET Clients
  BY DEF Expected, Heard
<1>5. /\ Cardinality(Expected) \in Nat /\ Cardinality(Expected') \in Nat
      /\ Cardinality(Expected') <= Cardinality(Expected)
      /\ Cardinality(Heard) \in Nat /\ Cardinality(Heard') \in Nat
      /\ Cardinality(Heard') <= Cardinality(Heard)
  BY <1>2, <1>3, <1>4, Counting
<1>6. /\ totalConnections + Cardinality(Expected) <= Cardinality(Clients)
      /\ totalConnections < EXPECTED_PLAYERS
           => Cardinality(Heard) <= totalConnections
      /\ Cardinality(Clients) \in Nat /\ EXPECTED_PLAYERS \in Nat
  BY ClientsAssumption, FS_CardinalityType DEF FullInv
<1>7. /\ totalConnections' + Cardinality(Expected') <= Cardinality(Clients)
      /\ totalConnections' < EXPECTED_PLAYERS
           => Cardinality(Heard') <= totalConnections'
  BY <1>0, <1>1, <1>5, <1>6
<1> QED BY <1>7 DEF FullInv

\* FullInv is inductive.
LEMMA FullStep ==
  ASSUME FewClients, TypeOK, TypeOK', FreshInv, CountInv, FullInv, [Next]_vars
  PROVE  FullInv'
<1>1. CASE UNCHANGED <<link, toServer, totalConnections, players>>
  BY <1>1 DEF FullInv, Expected, Heard, Open
<1>2. CASE UNCHANGED vars
  BY <1>1, <1>2 DEF vars, serverVars, transportVars
<1>3. CASE GameLoop /\ UNCHANGED clientVars
  BY <1>1, <1>3 DEF GameLoop, transportVars
<1> QED BY <1>2, <1>3, FullHandler, FullOther DEF Next


\* A lobby that is not complete.
Incomplete ==
  ~ /\ Cardinality(players) >= EXPECTED_PLAYERS
    /\ \A k \in players : player[k].ready
    /\ totalConnections = EXPECTED_PLAYERS

\* The announcement that completes the count finds too few players joined.
LEMMA IncompleteWhenCounted ==
  ASSUME FewClients, TypeOK, FreshInv, CountInv, FullInv, NEW c \in Clients,
         OnIncomingConnection(c)
  PROVE  Incomplete'
<1>1. /\ totalConnections' = totalConnections + 1
      /\ totalConnections \in Nat /\ UNCHANGED players
  BY AnnouncementCounts DEF OnIncomingConnection
<1>2. players \in SUBSET Clients /\ Heard \in SUBSET Clients /\ players \subseteq Heard
  BY DEF TypeOK, ServerTypeOK, Heard
<1>3. /\ Cardinality(players) \in Nat /\ Cardinality(Heard) \in Nat
      /\ Cardinality(players) <= Cardinality(Heard)
  <2>1. PICK k : k \in Clients
    OBVIOUS
  <2> QED BY <1>2, <2>1, Counting
<1>4. ASSUME totalConnections' = EXPECTED_PLAYERS
      PROVE  Cardinality(players) < EXPECTED_PLAYERS
  <2>1. totalConnections < EXPECTED_PLAYERS /\ EXPECTED_PLAYERS \in Nat
    BY <1>1, <1>4, ClientsAssumption
  <2>2. Cardinality(Heard) <= totalConnections
    BY <2>1 DEF FullInv
  <2> QED BY <1>1, <1>3, <2>1, <2>2
<1>5. totalConnections' = EXPECTED_PLAYERS
        => ~(Cardinality(players') >= EXPECTED_PLAYERS)
  BY <1>1, <1>3, <1>4, ClientsAssumption
<1> QED BY <1>5 DEF Incomplete

\* Whoever joins is not ready yet.
LEMMA IncompleteWhenJoined ==
  ASSUME TypeOK, IntroInv, NEW c \in Clients, OnClientIntro(c)
  PROVE  Incomplete'
<1> DEFINE q == toServer[c]
<1>1. q \in Seq(ToServer) /\ q # <<>> /\ Head(q).id = "C_INTRO"
  BY DEF TypeOK, TransportTypeOK, OnClientIntro, Receive
<1>2. 1 \in Intros(q)
  <2> HIDE DEF q
  <2> QED BY <1>1, IntrosMove
<1>3. c \notin players
  BY <1>2 DEF IntroInv, IntroducedOnce
<1>4. /\ c \in players'
      /\ player' = [player EXCEPT ![c] = NewPlayer]
  BY <1>3 DEF OnClientIntro
<1>5. player'[c] = NewPlayer
  BY <1>4 DEF TypeOK, ServerTypeOK
<1>6. ~player'[c].ready
  BY <1>5 DEF NewPlayer
<1> QED BY <1>4, <1>6 DEF Incomplete

\* The handler that would complete a lobby has started the game.
LEMMA IncompleteStep ==
  ASSUME PlainNames, FewClients, OnceInv, TypeOK', CountInv, FullInv, IntroInv,
         NoMissedStart, [Next]_vars
  PROVE  NoMissedStart'
<1>0. /\ TypeOK /\ FreshInv /\ TokensInv
      /\ players \in SUBSET Clients /\ player \in [Clients -> Player]
      /\ starts \in Nat
  BY DEF OnceInv, TypeOK, ServerTypeOK
<1>1. CASE UNCHANGED <<players, player, totalConnections, starts>>
  BY <1>1 DEF NoMissedStart
<1>2. CASE UNCHANGED serverVars
  BY <1>1, <1>2 DEF serverVars
<1>3. CASE UNCHANGED vars \/ (GameLoop /\ UNCHANGED clientVars)
  BY <1>1, <1>3 DEF GameLoop, vars, serverVars
<1>4. ASSUME NEW c \in Clients, PacketHandler(c), UNCHANGED clientVars
      PROVE  NoMissedStart'
  <2>1. CASE OnIncomingConnection(c)
    BY <1>0, <2>1, IncompleteWhenCounted DEF Incomplete, NoMissedStart
  <2>2. CASE OnClientIntro(c)
    BY <1>0, <2>2, IncompleteWhenJoined DEF Incomplete, NoMissedStart
  <2>3. CASE OnConnectionLost(c) \/ OnPlayerListRequest(c)
             \/ OnPlayerStatsRequest(c) \/ OnClientChatReceived(c)
    BY <1>1, <2>3
       DEF OnConnectionLost, OnPlayerListRequest, OnPlayerStatsRequest,
           OnClientChatReceived, Abort, serverVars
  <2>4. CASE OnPlayerReady(c)
    <3>1. CASE Abort
      BY <1>1, <3>1 DEF Abort
    <3>2. CASE StartGame(GetsReady(c))
      BY <1>0, <3>2 DEF StartGame, NoMissedStart
    <3>3. CASE /\ ~(AllReady(GetsReady(c)) /\ totalConnections = EXPECTED_PLAYERS)
               /\ player' = GetsReady(c)
               /\ UNCHANGED <<players, totalConnections>>
      <4>1. AllReady(GetsReady(c)) <=> \A k \in players' : player'[k].ready
        BY <3>3 DEF AllReady
      <4> QED BY <3>3, <4>1 DEF NoMissedStart
    <3> QED BY <2>4, <3>1, <3>2, <3>3 DEF OnPlayerReady, GetsReady
  <2>5. CASE OnPlayerUnready(c)
    <3>1. CASE Abort
      BY <1>1, <3>1 DEF Abort
    <3>2. CASE /\ c \in players
               /\ player' = [player EXCEPT ![c].ready = FALSE]
               /\ UNCHANGED players
      <4>1. player'[c] = [player[c] EXCEPT !.ready = FALSE] /\ player[c] \in Player
        BY <1>0, <3>2
      <4>2. ~player'[c].ready
        BY <4>1 DEF Player
      <4> QED BY <3>2, <4>2 DEF NoMissedStart
    <3> QED BY <2>5, <3>1, <3>2 DEF OnPlayerUnready
  <2>6. CASE OnPlayerJobChosen(c)
    <3>1. CASE c \notin players
      BY <1>1, <2>6, <3>1 DEF OnPlayerJobChosen, Abort
    <3>2. CASE c \in players
      <4>1. ChoiceArrives(c) /\ UNCHANGED starts
        BY <1>4, <2>6, <3>2 DEF ChoiceArrives, OnPlayerJobChosen
      <4>2. starts # 0
        BY <1>0, <4>1, NobodyMoves
      <4> QED BY <4>1, <4>2 DEF NoMissedStart
    <3> QED BY <3>1, <3>2
  <2>7. CASE OnPlayerActionTaken(c)
    <3>1. CASE c \notin players \/ WithName(Head(toServer[c]).target) = {}
      BY <1>1, <2>7, <3>1 DEF OnPlayerActionTaken, Abort
    <3>2. CASE c \in players /\ WithName(Head(toServer[c]).target) # {}
      <4>1. ActionArrives(c) /\ UNCHANGED starts
        BY <1>4, <2>7, <3>2 DEF ActionArrives, OnPlayerActionTaken
      <4>2. starts # 0
        BY <1>0, <4>1, NobodyMoves
      <4> QED BY <4>1, <4>2 DEF NoMissedStart
    <3> QED BY <3>1, <3>2
  <2> QED
    BY <1>4, <2>1, <2>2, <2>3, <2>4, <2>5, <2>6, <2>7 DEF PacketHandler
<1> QED
  BY <1>2, <1>3, <1>4 DEF Next, Environment

\* A lobby with as many players as expected, all of them ready, and the right
\* count never waits for one more packet: in whatever order connections,
\* introductions, kicks and .ready lines came, the handler that completed it
\* has started the game (server.cpp:251-256).
THEOREM NoStartMissed ==
  ASSUME PlainNames, FewClients
  PROVE  Spec => []NoMissedStart
<1> DEFINE IInv == /\ OnceInv /\ CountInv /\ FullInv /\ IntroInv
                   /\ NoMissedStart
<1>1. Init => IInv
  <2>1. ASSUME Init
        PROVE  NoMissedStart
    <3>1. Cardinality(players) = 0
      BY <2>1, FS_EmptySet DEF Init, ServerInit
    <3> QED BY <3>1, ClientsAssumption DEF NoMissedStart
  <2> QED
    BY <2>1, TypeInit, FreshInit, TokensInit, PhaseInit, CountInit, FullInit,
       IntroInit DEF OnceInv
<1>2. IInv /\ [Next]_vars => IInv'
  <2>1. ASSUME IInv, [Next]_vars
        PROVE  IInv'
    <3>1. OnceInv'
      BY <2>1, OnceStep
    <3>2. TypeOK /\ TypeOK' /\ FreshInv
      BY <2>1, <3>1 DEF OnceInv
    <3>3. CountInv' /\ IntroInv'
      BY <2>1, <3>2, CountStep, IntroStep
    <3>4. FullInv'
      BY <2>1, <3>2, FullStep
    <3>5. NoMissedStart'
      BY <2>1, <3>2, IncompleteStep
    <3> QED BY <3>1, <3>3, <3>4, <3>5
  <2> QED BY <2>1
<1> QED BY <1>1, <1>2, PTL DEF Spec


-------------------------------------------------------------------------------
(* The two copies of the ready flag.                                       *)

\* What is taken from, or added to, a client's packets, and its flags.
LEMMA FlagsMove ==
  ASSUME NEW q \in Seq(ToServer)
  PROVE  /\ q # <<>> =>
              /\ 1 \in Flags(q) <=> Head(q).id \in {"C_READY", "C_UNREADY"}
              /\ \A i \in Flags(Tail(q)) :
                   /\ i + 1 \in Flags(q) /\ Tail(q)[i] = q[i + 1]
                   /\ i \in Nat \ {0}
              /\ \A i \in Flags(q) : i # 1 => i - 1 \in Flags(Tail(q))
              /\ Head(q) = q[1]
         /\ Flags(q) \subseteq 1..Len(q) /\ Len(q) \in Nat
         /\ \A m \in ToServer :
              /\ m.id \notin {"C_READY", "C_UNREADY"} =>
                   Flags(Append(q, m)) = Flags(q)
              /\ m.id \in {"C_READY", "C_UNREADY"} =>
                   Flags(Append(q, m)) = Flags(q) \cup {Len(q) + 1}
              /\ \A i \in Flags(q) : Append(q, m)[i] = q[i]
              /\ Append(q, m)[Len(q) + 1] = m
<1> DEFINE K == {"C_READY", "C_UNREADY"}
<1>1. \A r : Flags(r) = At(r, K)
  BY DEF Flags
<1>0. q # <<>> => Head(q) = q[1]
  BY HeadTailProperties
<1> HIDE DEF K
<1>2. At(q, K) \subseteq 1..Len(q) /\ Len(q) \in Nat
  BY PlacesMove
<1>3. q # <<>> => (1 \in At(q, K) <=> Head(q).id \in K)
  BY PlacesMove
<1>4. \A m \in ToServer :
        /\ At(Append(q, m), K) = At(q, K) \cup {i \in {Len(q) + 1} : m.id \in K}
        /\ \A i \in At(q, K) : Append(q, m)[i] = q[i]
        /\ Append(q, m)[Len(q) + 1] = m
  BY PlacesMove
<1>5. q # <<>> => \A p \in Prefixes(Tail(q)) : \A i \in At(p, K) :
                    i + 1 \in At(q, K) /\ p[i] = q[i + 1] /\ i \in Nat \ {0}
  BY PlacesMove
<1>6. q # <<>> => /\ Tail(q) \in Prefixes(Tail(q))
                  /\ \A i \in At(q, K) : i # 1 => i - 1 \in At(Tail(q), K)
  BY PlacesMove
<1>7. ASSUME NEW m \in ToServer
      PROVE  /\ m.id \notin K => Flags(Append(q, m)) = Flags(q)
             /\ m.id \in K => Flags(Append(q, m)) = Flags(q) \cup {Len(q) + 1}
  <2>1. Flags(Append(q, m)) = Flags(q) \cup {i \in {Len(q) + 1} : m.id \in K}
    BY <1>1, <1>4
  <2> QED BY <2>1
<1>8. q # <<>> => \A i \in Flags(Tail(q)) :
                    /\ i + 1 \in Flags(q) /\ Tail(q)[i] = q[i + 1]
                    /\ i \in Nat \ {0}
  BY <1>1, <1>5, <1>6
<1>9. /\ q # <<>> => (1 \in Flags(q) <=> Head(q).id \in K)
      /\ q # <<>> => \A i \in Flags(q) : i # 1 => i - 1 \in Flags(Tail(q))
      /\ Flags(q) \subseteq 1..Len(q) /\ Len(q) \in Nat
  BY <1>1, <1>2, <1>3, <1>6
<1>10. \A m \in ToServer :
         /\ \A i \in Flags(q) : Append(q, m)[i] = q[i]
         /\ Append(q, m)[Len(q) + 1] = m
  BY <1>1, <1>4
<1> QED BY <1>0, <1>7, <1>8, <1>9, <1>10 DEF K

\* The server takes a packet: the last flag stays the last, unless it was it.
LEMMA LastTaken ==
  ASSUME NEW q \in Seq(ToServer), q # <<>>, NEW b, LastSays(q, b)
  PROVE  /\ LastSays(Tail(q), b)
         /\ Flags(Tail(q)) = {} =>
              IF Head(q).id \in {"C_READY", "C_UNREADY"}
              THEN Head(q).id = "C_READY" <=> b
              ELSE Flags(q) = {}
<1> DEFINE r == Tail(q)
<1>1. /\ 1 \in Flags(q) <=> Head(q).id \in {"C_READY", "C_UNREADY"}
      /\ \A i \in Flags(r) : i + 1 \in Flags(q) /\ r[i] = q[i + 1] /\ i \in Nat \ {0}
      /\ \A i \in Flags(q) : i # 1 => i - 1 \in Flags(r)
      /\ Flags(q) \subseteq 1..Len(q) /\ Len(q) \in Nat
      /\ Head(q) = q[1]
  BY FlagsMove
<1> HIDE DEF r
<1>2. \A i \in Flags(q) : i \in Int /\ 1 <= i
  BY <1>1
<1>3. ASSUME NEW i \in Flags(r), \A j \in Flags(r) : j <= i
      PROVE  r[i].id = "C_READY" <=> b
  <2>1. i + 1 \in Flags(q) /\ r[i] = q[i + 1] /\ i \in Nat \ {0}
    BY <1>1, <1>3
  <2>2. ASSUME NEW j \in Flags(q)
        PROVE  j <= i + 1
    <3>1. CASE j = 1
      BY <2>1, <3>1
    <3>2. CASE j # 1
      <4>1. j - 1 \in Flags(r) /\ j \in Int
        BY <1>1, <1>2, <3>2
      <4>2. j - 1 <= i
        BY <1>3, <4>1
      <4> QED BY <2>1, <4>1, <4>2
    <3> QED BY <3>1, <3>2
  <2> QED BY <2>1, <2>2 DEF LastSays
<1>4. ASSUME Flags(r) = {}
      PROVE  IF Head(q).id \in {"C_READY", "C_UNREADY"}
             THEN Head(q).id = "C_READY" <=> b
             ELSE Flags(q) = {}
  <2>1. \A i \in Flags(q) : i = 1
    BY <1>1, <1>4
  <2>2. CASE 1 \in Flags(q)
    <3>1. \A j \in Flags(q) : j <= 1
      BY <1>2, <2>1
    <3>2. q[1].id = "C_READY" <=> b
      BY <2>2, <3>1 DEF LastSays
    <3> QED BY <1>1, <2>2, <3>2
  <2>3. CASE 1 \notin Flags(q)
    BY <1>1, <2>1, <2>3
  <2> QED BY <2>2, <2>3
<1> QED BY <1>3, <1>4 DEF LastSays, r

\* A client sends a packet: the last flag stays the last, unless this is one.
LEMMA LastSent ==
  ASSUME NEW q \in Seq(ToServer), NEW m \in ToServer
  PROVE  /\ m.id \notin {"C_READY", "C_UNREADY"} =>
              /\ Flags(Append(q, m)) = Flags(q)
              /\ \A b : LastSays(q, b) => LastSays(Append(q, m), b)
         /\ m.id \in {"C_READY", "C_UNREADY"} =>
              /\ Flags(Append(q, m)) # {}
              /\ LastSays(Append(q, m), m.id = "C_READY")
<1> DEFINE r == Append(q, m)
           n == Len(q) + 1
<1>1. /\ Flags(q) \subseteq 1..Len(q) /\ Len(q) \in Nat
      /\ m.id \notin {"C_READY", "C_UNREADY"} => Flags(r) = Flags(q)
      /\ m.id \in {"C_READY", "C_UNREADY"} => Flags(r) = Flags(q) \cup {n}
      /\ \A i \in Flags(q) : r[i] = q[i]
      /\ r[n] = m
  BY FlagsMove
<1> HIDE DEF r
<1>2. CASE m.id \notin {"C_READY", "C_UNREADY"}
  BY <1>1, <1>2 DEF LastSays, r
<1>3. CASE m.id \in {"C_READY", "C_UNREADY"}
  <2>1. ASSUME NEW i \in Flags(r), \A j \in Flags(r) : j <= i
        PROVE  r[i].id = "C_READY" <=> m.id = "C_READY"
    <3>1. i \in 1..n /\ n <= i
      BY <1>1, <1>3, <2>1
    <3>2. i = n
      BY <1>1, <3>1
    <3> QED BY <1>1, <3>2
  <2>2. LastSays(r, m.id = "C_READY")
    BY <2>1 DEF LastSays
  <2> QED BY <1>1, <1>3, <2>2 DEF r
<1> QED BY <1>2, <1>3


\* Before the game is started a handler writes the flag of the client whose
\* packet it handles, and that only for a newcomer and for the two requests.
LEMMA HandlerWritesFlags ==
  ASSUME TypeOK, TypeOK', TokensInv, NEW c \in Clients, PacketHandler(c),
         UNCHANGED clientVars, starts = 0, starts' = 0
  PROVE  LET id == Head(toServer[c]).id
         IN  /\ serverStatus = "running"
             /\ \A k \in Clients : k # c =>
                  /\ k \in players' <=> k \in players
                  /\ player'[k].ready <=> player[k].ready
             /\ id \notin {"C_READY", "C_UNREADY"} =>
                  \/ c \notin players /\ c \in players' /\ ~player'[c].ready
                  \/ /\ c \in players' <=> c \in players
                     /\ player'[c].ready <=> player[c].ready
             /\ id \in {"C_READY", "C_UNREADY"} =>
                  \/ serverStatus' = "aborted" /\ c \notin players'
                  \/ /\ c \in players /\ c \in players'
                     /\ player'[c].ready <=> id = "C_READY"
<1> DEFINE id == Head(toServer[c]).id
<1>0. /\ player \in [Clients -> Player] /\ starts \in Nat
      /\ \A k \in Clients : player[k].ready \in BOOLEAN
  BY DEF TypeOK, ServerTypeOK, Player
<1>1. serverStatus = "running"
  BY DEF PacketHandler, OnIncomingConnection, OnConnectionLost, OnClientIntro,
         OnClientChatReceived, OnPlayerListRequest, OnPlayerStatsRequest,
         OnPlayerReady, OnPlayerUnready, OnPlayerJobChosen,
         OnPlayerActionTaken, Receive
<1>2. CASE UNCHANGED <<players, player>> /\ id \notin {"C_READY", "C_UNREADY"}
  BY <1>1, <1>2
<1>3. CASE OnIncomingConnection(c) \/ OnConnectionLost(c)
           \/ OnPlayerListRequest(c) \/ OnPlayerStatsRequest(c)
           \/ OnClientChatReceived(c)
  BY <1>2, <1>3
     DEF OnIncomingConnection, OnConnectionLost, OnPlayerListRequest,
         OnPlayerStatsRequest, OnClientChatReceived, Abort, serverVars, Receive
<1>4. CASE OnClientIntro(c)
  <2>1. /\ id = "C_INTRO" /\ players' = players \cup {c}
        /\ player' = IF c \in players THEN player
                     ELSE [player EXCEPT ![c] = NewPlayer]
    BY <1>4 DEF OnClientIntro, Receive
  <2>2. ~NewPlayer.ready
    BY DEF NewPlayer
  <2>3. CASE c \in players
    <3>1. UNCHANGED <<players, player>>
      BY <2>1, <2>3
    <3> QED BY <1>2, <2>1, <3>1
  <2>4. CASE c \notin players
    <3>1. \A k \in Clients : player'[k] = IF k = c THEN NewPlayer ELSE player[k]
      BY <1>0, <2>1, <2>4
    <3> HIDE DEF id
    <3>2. /\ \A k \in Clients : k # c =>
               /\ k \in players' <=> k \in players
               /\ player'[k].ready <=> player[k].ready
          /\ c \in players' /\ ~player'[c].ready
      BY <2>1, <2>2, <3>1
    <3> QED BY <1>1, <2>1, <2>4, <3>2 DEF id
  <2> QED BY <2>3, <2>4
<1>5. ASSUME NEW b \in BOOLEAN, player' = [player EXCEPT ![c].ready = b]
      PROVE  \A k \in Clients :
               player'[k].ready <=> IF k = c THEN b ELSE player[k].ready
  <2>1. \A k \in Clients : player'[k] = IF k = c THEN [player[c] EXCEPT !.ready = b]
                                        ELSE player[k]
    BY <1>0, <1>5
  <2>2. \A p \in Player : [p EXCEPT !.ready = b].ready = b
    BY DEF Player
  <2> QED BY <1>0, <2>1, <2>2
<1>6. ASSUME OnPlayerReady(c) \/ OnPlayerUnready(c)
      PROVE  \/ id \in {"C_READY", "C_UNREADY"} /\ UNCHANGED <<player, players>>
                  /\ serverStatus' = "aborted" /\ c \notin players
             \/ /\ c \in players /\ UNCHANGED players
                /\ \/ /\ id = "C_READY"
                      /\ player' = [player EXCEPT ![c].ready = TRUE]
                   \/ /\ id = "C_UNREADY"
                      /\ player' = [player EXCEPT ![c].ready = FALSE]
  <2>1. CASE OnPlayerReady(c)
    <3>1. ~StartGame(GetsReady(c))
      BY <1>0 DEF StartGame
    <3> QED
      BY <2>1, <3>1 DEF OnPlayerReady, Abort, Receive, GetsReady
  <2>2. CASE OnPlayerUnready(c)
    BY <2>2 DEF OnPlayerUnready, Abort, Receive
  <2> QED BY <1>6, <2>1, <2>2
<1>7. CASE OnPlayerReady(c) \/ OnPlayerUnready(c)
  <2>1. CASE /\ id \in {"C_READY", "C_UNREADY"} /\ UNCHANGED <<player, players>>
             /\ serverStatus' = "aborted" /\ c \notin players
    BY <1>1, <2>1
  <2>2. ASSUME NEW b \in BOOLEAN, c \in players, UNCHANGED players,
               player' = [player EXCEPT ![c].ready = b],
               id \in {"C_READY", "C_UNREADY"}, b <=> id = "C_READY"
        PROVE  /\ \A k \in Clients : k # c =>
                    /\ k \in players' <=> k \in players
                    /\ player'[k].ready <=> player[k].ready
               /\ c \in players' /\ (player'[c].ready <=> id = "C_READY")
    <3>1. \A k \in Clients :
            player'[k].ready <=> IF k = c THEN b ELSE player[k].ready
      BY <1>5, <2>2
    <3> QED BY <2>2, <3>1
  <2>3. CASE /\ c \in players /\ UNCHANGED players
             /\ id = "C_READY" /\ player' = [player EXCEPT ![c].ready = TRUE]
    BY <1>1, <2>2, <2>3
  <2>4. CASE /\ c \in players /\ UNCHANGED players
             /\ id = "C_UNREADY" /\ player' = [player EXCEPT ![c].ready = FALSE]
    BY <1>1, <2>2, <2>4
  <2> QED BY <1>6, <1>7, <2>1, <2>3, <2>4
<1>8. CASE OnPlayerJobChosen(c)
  <2>1. c \notin players
    BY <1>8, NobodyMoves DEF ChoiceArrives
  <2> QED BY <1>2, <1>8, <2>1 DEF OnPlayerJobChosen, Abort, Receive
<1>9. CASE OnPlayerActionTaken(c)
  <2>1. c \notin players \/ WithName(Head(toServer[c]).target) = {}
    BY <1>9, NobodyMoves DEF ActionArrives
  <2> QED BY <1>2, <1>9, <2>1 DEF OnPlayerActionTaken, Abort, Receive
<1> QED
  BY <1>3, <1>4, <1>7, <1>8, <1>9 DEF PacketHandler

\* A client the step does nothing for.
LEMMA FlagsStay ==
  ASSUME NEW k \in Clients, FlagsAgree(k), toServer'[k] = toServer[k],
         self'[k].ready <=> self[k].ready,
         k \in players' <=> k \in players,
         player'[k].ready <=> player[k].ready,
         serverStatus' = "running" => serverStatus = "running"
  PROVE  FlagsAgree(k)'
BY DEF FlagsAgree, LastSays

\* A flag the server has handled is the one its client has had since it sent
\* the flag; a newcomer's is off, and so is the client's.
LEMMA FlagsHandler ==
  ASSUME TypeOK, TypeOK', TokensInv, FreshInv, FlagsInv, NEW c \in Clients,
         PacketHandler(c), UNCHANGED clientVars
  PROVE  FlagsInv'
<1> DEFINE q == toServer[c]
           r == toServer'[c]
           b == self[c].ready
<1>0. /\ q \in Seq(ToServer) /\ link \in [Clients -> LinkState]
      /\ self' = self /\ starts \in Nat /\ starts' \in Nat
  BY DEF TypeOK, TransportTypeOK, ServerTypeOK, clientVars
<1>1. /\ q # <<>>
      /\ \A k \in Clients : k # c => /\ toServer'[k] = toServer[k]
                                     /\ link'[k] = link[k]
      /\ link'[c] \in {link[c], "closed", "gone"}
      /\ Open(c)' => Open(c) /\ r = Tail(q)
  BY <1>0, HandlerShape DEF Open
<1>2. \A k \in Clients :
        link'[k] \in {"none", "connecting", "refused"} => ~self'[k].ready
  BY <1>0, <1>1 DEF FlagsInv
<1>3. starts' = 0 => starts = 0
  <2>1. starts' \in {starts, starts + 1}
    BY DEF PacketHandler, OnIncomingConnection, OnConnectionLost,
           OnClientIntro, OnClientChatReceived, OnPlayerListRequest,
           OnPlayerStatsRequest, OnPlayerReady, OnPlayerUnready,
           OnPlayerJobChosen, OnPlayerActionTaken, Abort, StartGame, serverVars
  <2> QED BY <1>0, <2>1
<1>4. ASSUME starts' = 0, NEW k \in Clients, Open(k)', k # c
      PROVE  FlagsAgree(k)'
  <2>1. /\ serverStatus = "running"
        /\ k \in players' <=> k \in players
        /\ player'[k].ready <=> player[k].ready
    BY <1>3, <1>4, HandlerWritesFlags
  <2>2. FlagsAgree(k)
    BY <1>1, <1>3, <1>4 DEF FlagsInv, Open
  <2> QED BY <1>0, <1>1, <1>4, <2>1, <2>2, FlagsStay
<1>5. ASSUME starts' = 0, Open(c)'
      PROVE  FlagsAgree(c)'
  <2> DEFINE id == Head(q).id
  <2>1. FlagsAgree(c) /\ r = Tail(q)
    BY <1>1, <1>3, <1>5 DEF FlagsInv
  <2>2. /\ LastSays(q, b)
        /\ Flags(q) = {} =>
             /\ c \in players => (player[c].ready <=> b)
             /\ c \notin players /\ serverStatus = "running" => ~b
    BY <2>1 DEF FlagsAgree
  <2>3. /\ serverStatus = "running"
        /\ id \notin {"C_READY", "C_UNREADY"} =>
             \/ c \notin players /\ c \in players' /\ ~player'[c].ready
             \/ /\ c \in players' <=> c \in players
                /\ player'[c].ready <=> player[c].ready
        /\ id \in {"C_READY", "C_UNREADY"} =>
             \/ serverStatus' = "aborted" /\ c \notin players'
             \/ /\ c \in players /\ c \in players'
                /\ player'[c].ready <=> id = "C_READY"
    BY <1>3, <1>5, HandlerWritesFlags
  <2> HIDE DEF q, r, b
  <2>4. /\ LastSays(Tail(q), b)
        /\ Flags(Tail(q)) = {} =>
             IF Head(q).id \in {"C_READY", "C_UNREADY"}
             THEN Head(q).id = "C_READY" <=> b
             ELSE Flags(q) = {}
    BY <1>0, <1>1, <2>2, LastTaken
  <2>5. LastSays(r, b)
    BY <2>1, <2>4
  <2>6. ASSUME Flags(r) = {}
        PROVE  /\ c \in players' => (player'[c].ready <=> b)
               /\ c \notin players' /\ serverStatus' = "running" => ~b
    <3>1. CASE id \in {"C_READY", "C_UNREADY"}
      BY <2>1, <2>3, <2>4, <2>6, <3>1
    <3>2. CASE id \notin {"C_READY", "C_UNREADY"}
      BY <2>1, <2>2, <2>3, <2>4, <2>6, <3>2
    <3> QED BY <3>1, <3>2
  <2> QED BY <1>0, <2>5, <2>6 DEF FlagsAgree, LastSays, r, b
<1> QED BY <1>2, <1>4, <1>5 DEF FlagsInv


\* A client changes its own flag by the two lines that also send it.
LEMMA ClientWritesFlags ==
  ASSUME TypeOK, TypeOK', NEW c \in Clients, UNCHANGED serverVars,
         \/ Connect(c) \/ SetPending(c) \/ ClientPackets(c)
         \/ InputHandler(c)
  PROVE  LET q == toServer[c]
             r == toServer'[c]
         IN  /\ \A k \in Clients : k # c => self'[k] = self[k]
             /\ \/ /\ self'[c].ready <=> self[c].ready
                   /\ \/ r = q
                      \/ \E m \in ToServer :
                           /\ m.id \notin {"C_READY", "C_UNREADY"}
                           /\ r = Append(q, m)
                \/ /\ cNetworkState[c] = "NS_LOBBY"
                   /\ \E m \in ToServer :
                        /\ m.id \in {"C_READY", "C_UNREADY"}
                        /\ self'[c].ready <=> m.id = "C_READY"
                        /\ Open(c) => r = Append(q, m)
<1> DEFINE q == toServer[c]
           r == toServer'[c]
           Rec == [ready : BOOLEAN, health : Int, dead : BOOLEAN]
<1>0. /\ self \in [Clients -> Rec]
      /\ toServer \in [Clients -> Seq(ToServer)]
  BY DEF TypeOK, TransportTypeOK, ClientTypeOK
<1>1. ASSUME NEW b \in BOOLEAN, self' = [self EXCEPT ![c].ready = b]
      PROVE  /\ \A k \in Clients : k # c => self'[k] = self[k]
             /\ self'[c].ready <=> b
  <2>1. /\ \A k \in Clients : k # c => self'[k] = self[k]
        /\ self'[c] = [self[c] EXCEPT !.ready = b]
        /\ self[c] \in Rec
    BY <1>0, <1>1
  <2>2. \A p \in Rec : [p EXCEPT !.ready = b].ready = b
    OBVIOUS
  <2> QED BY <2>1, <2>2
<1>2. ASSUME NEW b \in BOOLEAN, NEW id \in {"C_READY", "C_UNREADY"},
             b <=> id = "C_READY", cNetworkState[c] = "NS_LOBBY",
             self' = [self EXCEPT ![c].ready = b], Post(c, Plain(id))
      PROVE  /\ \A k \in Clients : k # c => self'[k] = self[k]
             /\ cNetworkState[c] = "NS_LOBBY"
             /\ \E m \in ToServer :
                  /\ m.id \in {"C_READY", "C_UNREADY"}
                  /\ self'[c].ready <=> m.id = "C_READY"
                  /\ Open(c) => r = Append(q, m)
  <2> DEFINE m == Plain(id)
  <2>1. m \in ToServer /\ m.id = id
    BY PlainType DEF Plain
  <2>2. Open(c) => r = Append(q, m)
    BY <1>0, <1>2 DEF Post, Open
  <2> HIDE DEF m
  <2>3. \A k \in Clients : k # c => self'[k] = self[k]
    BY <1>1, <1>2
  <2>4. self'[c].ready <=> b
    BY <1>1, <1>2
  <2>5. self'[c].ready <=> m.id = "C_READY"
    BY <1>2, <2>1, <2>4
  <2> HIDE DEF r, q
  <2> QED BY <1>2, <2>1, <2>2, <2>3, <2>5
<1>3. ASSUME UNCHANGED self, NEW m \in ToServer,
             m.id \notin {"C_READY", "C_UNREADY"}, Post(c, m)
      PROVE  /\ \A k \in Clients : k # c => self'[k] = self[k]
             /\ self'[c].ready <=> self[c].ready
             /\ \/ r = q
                \/ \E n \in ToServer : /\ n.id \notin {"C_READY", "C_UNREADY"}
                                       /\ r = Append(q, n)
  BY <1>0, <1>3 DEF Post
<1>4. \A id \in {"C_INTRO", "C_CHAT", "C_PLAYER_LIST_REQUEST",
                 "C_PLAYER_STATS_REQUEST"} :
        Plain(id) \in ToServer /\ Plain(id).id \notin {"C_READY", "C_UNREADY"}
  BY PlainType DEF Plain
<1>5. CASE Ready(c)
  BY <1>2, <1>5 DEF Ready, Typing
<1>6. CASE Unready(c)
  BY <1>2, <1>6 DEF Unready, Typing
<1>7. CASE SendIntro(c) \/ Chat(c) \/ Ask(c)
  BY <1>3, <1>4, <1>7 DEF SendIntro, Chat, Ask
<1>8. CASE ChooseJob(c) \/ TakeAction(c)
  <2>1. PICK m \in ToServer : m.id \in TurnRequests /\ Post(c, m)
    BY <1>8, UsesTurnShape DEF UsesTurn, TurnRequests
  <2>2. m.id \notin {"C_READY", "C_UNREADY"} /\ UNCHANGED self
    BY <1>8, <2>1 DEF TurnRequests, ChooseJob, TakeAction
  <2> QED BY <1>3, <2>1, <2>2
<1>9. CASE \/ Connect(c) \/ SetPending(c) \/ WasteTurn(c)
           \/ OnConnectionAccepted(c) \/ OnGameStart(c) \/ OnTakeTurn(c)
           \/ OnGameStateUpdate(c) \/ ShowReply(c)
  <2>1. UNCHANGED <<self, toServer>>
    BY <1>9
       DEF Connect, SetPending, WasteTurn, OnConnectionAccepted, OnGameStart,
           OnTakeTurn, OnGameStateUpdate, ShowReply, clientVars, transportVars
  <2> QED BY <2>1
<1>10. CASE OnPlayersHealthUpdated(c)
  <2>1. /\ UNCHANGED toServer
        /\ \/ UNCHANGED self
           \/ self' = [self EXCEPT ![c] =
                         UpdatedSelf(self[c], Head(toClient[c]).health)]
    BY <1>10 DEF OnPlayersHealthUpdated
  <2>2. \A p \in Rec : \A h : UpdatedSelf(p, h).ready = p.ready
    BY DEF UpdatedSelf
  <2>3. /\ \A k \in Clients : k # c => self'[k] = self[k]
        /\ self'[c].ready <=> self[c].ready
    BY <1>0, <2>1, <2>2
  <2> QED BY <2>1, <2>3
<1> QED
  BY <1>5, <1>6, <1>7, <1>8, <1>9, <1>10 DEF ClientPackets, InputHandler

\* A line that sets a client's flag also puts it at the end of the queue.
LEMMA FlagsClient ==
  ASSUME TypeOK, TypeOK', FreshInv, FlagsInv, NEW c \in Clients,
         UNCHANGED serverVars,
         \/ Connect(c) \/ SetPending(c) \/ ClientPackets(c)
         \/ InputHandler(c)
  PROVE  FlagsInv'
<1> DEFINE q == toServer[c]
           r == toServer'[c]
<1>0. /\ q \in Seq(ToServer) /\ r \in Seq(ToServer)
      /\ UNCHANGED <<starts, players, player, serverStatus>>
  BY DEF TypeOK, TransportTypeOK, serverVars
<1>1. /\ \A k \in Clients : k # c => /\ toServer'[k] = toServer[k]
                                     /\ link'[k] = link[k]
      /\ \/ link'[c] = link[c]
         \/ link[c] = "none" /\ link'[c] = "connecting"
  BY ClientShape
<1>2. /\ \A k \in Clients : k # c => self'[k] = self[k]
      /\ \/ /\ self'[c].ready <=> self[c].ready
            /\ \/ r = q
               \/ \E m \in ToServer : /\ m.id \notin {"C_READY", "C_UNREADY"}
                                      /\ r = Append(q, m)
         \/ /\ cNetworkState[c] = "NS_LOBBY"
            /\ \E m \in ToServer : /\ m.id \in {"C_READY", "C_UNREADY"}
                                   /\ self'[c].ready <=> m.id = "C_READY"
                                   /\ Open(c) => r = Append(q, m)
  BY ClientWritesFlags
<1>3. cNetworkState[c] = "NS_LOBBY"
        => link[c] \notin {"none", "connecting", "refused"}
  BY DEF FreshInv, Fresh, Untouched
<1>4. ASSUME NEW k \in Clients, link'[k] \in {"none", "connecting", "refused"}
      PROVE  ~self'[k].ready
  <2>1. link[k] \in {"none", "connecting", "refused"}
    BY <1>1, <1>4
  <2>2. self'[k].ready <=> self[k].ready
    BY <1>2, <1>3, <2>1
  <2> QED BY <2>1, <2>2 DEF FlagsInv
<1>5. ASSUME starts' = 0, NEW k \in Clients, Open(k)', k # c
      PROVE  FlagsAgree(k)'
  <2>1. FlagsAgree(k)
    BY <1>0, <1>1, <1>5 DEF FlagsInv, Open
  <2> QED BY <1>0, <1>1, <1>2, <1>5, <2>1, FlagsStay
<1>6. ASSUME starts' = 0, Open(c)'
      PROVE  FlagsAgree(c)'
  <2> DEFINE b == self[c].ready
             d == self'[c].ready
  <2>1. Open(c) /\ FlagsAgree(c)
    BY <1>0, <1>1, <1>6 DEF FlagsInv, Open
  <2>2. /\ LastSays(q, b)
        /\ Flags(q) = {} =>
             /\ c \in players => (player[c].ready <=> b)
             /\ c \notin players /\ serverStatus = "running" => ~b
    BY <2>1 DEF FlagsAgree
  <2>3. ASSUME LastSays(r, d),
               Flags(r) = {} =>
                 /\ c \in players => (player[c].ready <=> d)
                 /\ c \notin players /\ serverStatus = "running" => ~d
        PROVE  FlagsAgree(c)'
    BY <1>0, <2>3 DEF FlagsAgree, LastSays
  <2>4. CASE /\ d <=> b
             /\ \/ r = q
                \/ \E m \in ToServer : /\ m.id \notin {"C_READY", "C_UNREADY"}
                                       /\ r = Append(q, m)
    <3> HIDE DEF q, r, b, d
    <3>1. Flags(r) = Flags(q) /\ LastSays(r, b)
      BY <1>0, <2>2, <2>4, LastSent
    <3>2. LastSays(r, d)
      BY <2>4, <3>1 DEF LastSays
    <3> QED BY <2>2, <2>3, <2>4, <3>1, <3>2
  <2>5. ASSUME NEW m \in ToServer, m.id \in {"C_READY", "C_UNREADY"},
               d <=> m.id = "C_READY", r = Append(q, m)
        PROVE  FlagsAgree(c)'
    <3> HIDE DEF q, r, b, d
    <3>1. Flags(r) # {} /\ LastSays(r, m.id = "C_READY")
      BY <1>0, <2>5, LastSent
    <3>2. LastSays(r, d)
      BY <2>5, <3>1 DEF LastSays
    <3> QED BY <2>3, <3>1, <3>2
  <2> QED BY <1>2, <2>1, <2>4, <2>5
<1> QED BY <1>4, <1>5, <1>6 DEF FlagsInv

\* A client that gets its connection has not used its flag.
LEMMA FlagsEnvironment ==
  ASSUME TypeOK, TypeOK', FreshInv, FlagsInv, NEW c \in Clients, Environment(c)
  PROVE  FlagsInv'
<1>0. /\ UNCHANGED <<starts, players, player, serverStatus, self>>
      /\ \A k \in Clients : k # c => /\ toServer'[k] = toServer[k]
                                     /\ link'[k] = link[k]
      /\ \/ /\ link[c] = "connecting" /\ link'[c] = "open"
            /\ toServer'[c] = Append(toServer[c], Plain(Announcement))
         \/ link[c] = "connecting" /\ link'[c] = "refused"
         \/ link'[c] \in {"dead", "gone"}
  BY EnvironmentShape DEF serverVars, clientVars
<1>1. ASSUME NEW k \in Clients, link'[k] \in {"none", "connecting", "refused"}
      PROVE  ~self'[k].ready
  BY <1>0, <1>1 DEF FlagsInv
<1>2. ASSUME starts' = 0, NEW k \in Clients, Open(k)', k # c
      PROVE  FlagsAgree(k)'
  <2>1. FlagsAgree(k)
    BY <1>0, <1>2 DEF FlagsInv, Open
  <2> QED BY <1>0, <1>2, <2>1, FlagsStay
<1>3. ASSUME Open(c)'
      PROVE  FlagsAgree(c)'
  <2> DEFINE m == Plain(Announcement)
             r == toServer'[c]
  <2>1. link[c] = "connecting" /\ r = Append(toServer[c], m)
    BY <1>0, <1>3 DEF Open
  <2>2. toServer[c] = <<>> /\ c \notin players /\ ~self[c].ready
    BY <2>1 DEF FreshInv, Fresh, Untouched, FlagsInv
  <2>3. m \in ToServer /\ m.id \notin {"C_READY", "C_UNREADY"}
    BY PlainType DEF Plain, Announcement
  <2>4. <<>> \in Seq(ToServer) /\ Flags(<<>>) = {}
    BY EmptySeq DEF Flags, At
  <2> HIDE DEF m, r
  <2>5. Flags(r) = {}
    BY <2>1, <2>2, <2>3, <2>4, LastSent
  <2> QED BY <1>0, <2>2, <2>5 DEF FlagsAgree, LastSays, r
<1> QED BY <1>1, <1>2, <1>3 DEF FlagsInv

\* FlagsInv is inductive.
LEMMA FlagsStep ==
  ASSUME TypeOK, TypeOK', TokensInv, FreshInv, FlagsInv, [Next]_vars
  PROVE  FlagsInv'
<1>1. CASE UNCHANGED <<link, toServer, self, players, player, serverStatus,
                       starts>>
  BY <1>1 DEF FlagsInv, FlagsAgree, LastSays, Open
<1>2. CASE UNCHANGED vars
  BY <1>1, <1>2 DEF vars, serverVars, clientVars, transportVars
<1>3. CASE GameLoop /\ UNCHANGED clientVars
  BY <1>1, <1>3 DEF GameLoop, clientVars, transportVars
<1> QED
  BY <1>2, <1>3, FlagsHandler, FlagsClient, FlagsEnvironment DEF Next

\* Before the game is started, once everything a connected player typed has
\* arrived, the server's ready flag is the player's own: the flag C_INTRO
\* carries, which the server reads and drops (server.cpp:203-206), is off.
THEOREM ReadyFlagsAgree ==
  ASSUME PlainNames
  PROVE  Spec => []ReadyAgrees
<1> DEFINE IInv == OnceInv /\ FlagsInv
<1>1. Init => IInv
  <2>1. Init => FlagsInv
    BY DEF Init, ClientInit, TransportInit, FlagsInv, Open
  <2> QED
    BY <2>1, TypeInit, FreshInit, TokensInit, PhaseInit DEF OnceInv
<1>2. IInv /\ [Next]_vars => IInv'
  BY OnceStep, FlagsStep DEF OnceInv
<1>3. IInv => ReadyAgrees
  <2> SUFFICES ASSUME TypeOK, FlagsInv, starts = 0, NEW c \in players, Open(c),
                      Ids(toServer[c]) \cap {"C_READY", "C_UNREADY"} = {}
               PROVE  player[c].ready = self[c].ready
    BY DEF ReadyAgrees, OnceInv
  <2>1. /\ c \in Clients
        /\ player[c].ready \in BOOLEAN /\ self[c].ready \in BOOLEAN
    BY DEF TypeOK, ServerTypeOK, ClientTypeOK, Player
  <2>2. Flags(toServer[c]) = {}
    BY DEF Ids, Range, Flags, At
  <2>3. player[c].ready <=> self[c].ready
    BY <2>1, <2>2 DEF FlagsInv, FlagsAgree
  <2> QED BY <2>1, <2>3
<1> QED BY <1>1, <1>2, <1>3, PTL DEF Spec

===============================================================================
