------------------------------ MODULE Game_proofs ------------------------------
(***************************************************************************)
(* One turn for each start of the game: the kinds of steps there are, and  *)
(* what each of them does to the turns.                                    *)
(***************************************************************************)
EXTENDS RRPG_proofs

-------------------------------------------------------------------------------
(* Queues.  Of the packets a property is about, those with identifiers R,  *)
(* a queue r has none that was not in q, or has all of q; the first d      *)
(* places of q are gone.                                                   *)

Carried(r, q, d, R) ==
  \A i \in DOMAIN r :
    r[i].id \in R => i + d \in DOMAIN q /\ q[i + d] = r[i]

Kept(r, q, d, R) ==
  \A i \in DOMAIN q :
    q[i].id \in R => i - d \in DOMAIN r /\ r[i - d] = q[i]

\* What sending, receiving and cutting a connection do to a queue.
LEMMA QueueSteps ==
  ASSUME NEW S, NEW q \in Seq(S), NEW R
  PROVE  /\ Carried(q, q, 0, R) /\ Kept(q, q, 0, R)
         /\ q # <<>> => Carried(Tail(q), q, 1, R)
         /\ q # <<>> /\ Head(q).id \notin R => Kept(Tail(q), q, 1, R)
         /\ \A m \in S : /\ Kept(Append(q, m), q, 0, R)
                         /\ m.id \notin R => Carried(Append(q, m), q, 0, R)
         /\ \A p \in Prefixes(q) : Carried(p, q, 0, R)
         /\ q # <<>> => \A p \in Prefixes(Tail(q)) : Carried(p, q, 1, R)
<1>1. DOMAIN q = 1..Len(q) /\ Len(q) \in Nat
  BY LenProperties
<1>2. Carried(q, q, 0, R) /\ Kept(q, q, 0, R)
  BY <1>1 DEF Carried, Kept
<1>3. ASSUME q # <<>>
      PROVE  /\ Tail(q) \in Seq(S)
             /\ DOMAIN Tail(q) = 1..(Len(q) - 1)
             /\ \A i \in 1..(Len(q) - 1) : Tail(q)[i] = q[i + 1]
             /\ Head(q) = q[1]
             /\ Len(q) >= 1
  BY <1>1, <1>3, HeadTailProperties, LenProperties
<1>4. q # <<>> => Carried(Tail(q), q, 1, R)
  BY <1>1, <1>3 DEF Carried
<1>5. q # <<>> /\ Head(q).id \notin R => Kept(Tail(q), q, 1, R)
  BY <1>1, <1>3 DEF Kept
<1>6. ASSUME NEW m \in S
      PROVE  /\ Kept(Append(q, m), q, 0, R)
             /\ m.id \notin R => Carried(Append(q, m), q, 0, R)
  <2>1. /\ DOMAIN Append(q, m) = 1..(Len(q) + 1)
        /\ \A i \in 1..Len(q) : Append(q, m)[i] = q[i]
        /\ Append(q, m)[Len(q) + 1] = m
    BY <1>1, AppendProperties, LenProperties
  <2> QED BY <1>1, <2>1 DEF Carried, Kept
<1>7. ASSUME NEW p \in Prefixes(q)
      PROVE  /\ DOMAIN p \subseteq DOMAIN q
             /\ \A i \in DOMAIN p : p[i] = q[i]
  <2>1. PICK n \in 0..Len(q) : p = SubSeq(q, 1, n)
    BY <1>7 DEF Prefixes
  <2> QED BY <1>1, <2>1
<1>8. \A p \in Prefixes(q) : Carried(p, q, 0, R)
  BY <1>1, <1>7 DEF Carried
<1>9. ASSUME q # <<>>, NEW p \in Prefixes(Tail(q))
      PROVE  Carried(p, q, 1, R)
  <2>1. PICK n \in 0..Len(Tail(q)) : p = SubSeq(Tail(q), 1, n)
    BY <1>9 DEF Prefixes
  <2>2. DOMAIN p \subseteq DOMAIN Tail(q) /\ \A i \in DOMAIN p : p[i] = Tail(q)[i]
    BY <1>3, <1>9, <2>1, LenProperties
  <2> QED BY <1>4, <1>9, <2>2 DEF Carried
<1> QED BY <1>2, <1>4, <1>5, <1>6, <1>8, <1>9

-------------------------------------------------------------------------------
(* Turns.  In a step the turns U go and the turns N come; the others stay  *)
(* with their client and are what they were, at most moved in a queue.     *)

TokenStep(U, N) ==
  \E f :
    /\ \A t \in TurnTokens : f[t][1] = t[1] /\ f[t][2][1] = t[2][1]
    /\ TurnTokens' \subseteq N \cup {f[t] : t \in TurnTokens \ U}

Held(c)     == <<c, <<"held", 0>>>>
Given(c, i) == <<c, <<"given", i>>>>
Used(c, i)  == <<c, <<"used", i>>>>

\* The three places a turn can be in.
LEMMA TokensAre ==
  ASSUME NEW t
  PROVE  t \in TurnTokens <=>
           \E c \in Clients : \/ myTurn[c] /\ t = Held(c)
                              \/ \E i \in GivenAt(c) : t = Given(c, i)
                              \/ \E i \in UsedAt(c) : t = Used(c, i)
<1>1. \A c : 0 \in HeldAt(c) <=> myTurn[c]
  BY DEF HeldAt
<1>2. \A c : \A i \in HeldAt(c) : i = 0
  BY DEF HeldAt
<1> QED BY <1>1, <1>2 DEF TurnTokens, Held, Given, Used

\* No more turns after the step than before it and those that came, less one
\* that was replaced.
LEMMA Accounting ==
  ASSUME IsFiniteSet(TurnTokens), NEW U, NEW N, TokenStep(U, N)
  PROVE  /\ N = {} => /\ IsFiniteSet(TurnTokens')
                      /\ Cardinality(TurnTokens') <= Cardinality(TurnTokens)
         /\ \A n : N = {n} =>
              /\ IsFiniteSet(TurnTokens')
              /\ Cardinality(TurnTokens') <= Cardinality(TurnTokens) + 1
              /\ \A u \in TurnTokens : U = {u} =>
                   Cardinality(TurnTokens') <= Cardinality(TurnTokens)
<1> DEFINE S == TurnTokens
           New == TurnTokens'
<1>1. PICK f : New \subseteq N \cup {f[t] : t \in S \ U}
  BY DEF TokenStep
<1> DEFINE R == {f[t] : t \in S \ U}
           g == [t \in S \ U |-> f[t]]
<1>2. /\ IsFiniteSet(S \ U)
      /\ Cardinality(S \ U) <= Cardinality(S)
      /\ Cardinality(S \ U) \in Nat /\ Cardinality(S) \in Nat
  <2>1. (S \ U) \in SUBSET S
    OBVIOUS
  <2> HIDE DEF S
  <2> QED BY <2>1, FS_Subset, FS_CardinalityType DEF S
<1>3. /\ IsFiniteSet(R)
      /\ Cardinality(R) <= Cardinality(S \ U)
      /\ Cardinality(R) \in Nat
  <2>1. g \in Surjection(S \ U, R)
    BY DEF Surjection
  <2> HIDE DEF g, R, S
  <2> QED BY <1>2, <2>1, FS_Surjection, FS_CardinalityType
<1>4. ASSUME N = {}
      PROVE  IsFiniteSet(New) /\ Cardinality(New) <= Cardinality(S)
  <2>1. New \in SUBSET R
    BY <1>1, <1>4
  <2> HIDE DEF New, R, S
  <2>2. IsFiniteSet(New) /\ Cardinality(New) <= Cardinality(R)
    BY <1>3, <2>1, FS_Subset
  <2>3. Cardinality(New) \in Nat
    BY <2>2, FS_CardinalityType
  <2> QED BY <1>2, <1>3, <2>2, <2>3
<1>5. ASSUME NEW n, N = {n}
      PROVE  /\ IsFiniteSet(New)
             /\ Cardinality(New) \in Nat
             /\ Cardinality(New) <= Cardinality(S \ U) + 1
  <2>1. New \in SUBSET (R \cup {n})
    BY <1>1, <1>5
  <2> HIDE DEF New, R, S
  <2>2. /\ IsFiniteSet(R \cup {n})
        /\ Cardinality(R \cup {n}) <= Cardinality(R) + 1
        /\ Cardinality(R \cup {n}) \in Nat
    <3>1. /\ IsFiniteSet(R \cup {n})
          /\ Cardinality(R \cup {n}) =
               IF n \in R THEN Cardinality(R) ELSE Cardinality(R) + 1
      BY <1>3, FS_AddElement
    <3>2. Cardinality(R \cup {n}) \in Nat
      BY <3>1, FS_CardinalityType
    <3> QED BY <1>3, <3>1, <3>2
  <2>3. IsFiniteSet(New) /\ Cardinality(New) <= Cardinality(R \cup {n})
    BY <2>1, <2>2, FS_Subset
  <2>4. Cardinality(New) \in Nat
    BY <2>3, FS_CardinalityType
  <2> QED BY <1>2, <1>3, <2>2, <2>3, <2>4
<1>6. ASSUME NEW u \in S, U = {u}
      PROVE  Cardinality(S \ U) = Cardinality(S) - 1
  BY <1>6, FS_RemoveElement
<1> HIDE DEF S, New, R
<1>7. ASSUME NEW n, N = {n}
      PROVE  /\ IsFiniteSet(New)
             /\ Cardinality(New) <= Cardinality(S) + 1
             /\ \A u \in S : U = {u} => Cardinality(New) <= Cardinality(S)
  <2>1. /\ IsFiniteSet(New)
        /\ Cardinality(New) \in Nat
        /\ Cardinality(New) <= Cardinality(S \ U) + 1
    BY <1>5, <1>7
  <2>2. Cardinality(New) <= Cardinality(S) + 1
    BY <1>2, <2>1
  <2>3. ASSUME NEW u \in S, U = {u}
        PROVE  Cardinality(New) <= Cardinality(S)
    <3>1. Cardinality(S \ U) = Cardinality(S) - 1
      BY <1>6, <2>3
    <3> QED BY <1>2, <2>1, <3>1
  <2> QED BY <2>1, <2>2, <2>3
<1> QED BY <1>4, <1>7 DEF S, New

\* When there is at most one turn and it goes, what is left is what came.
LEMMA OnlyNew ==
  ASSUME IsFiniteSet(TurnTokens), Cardinality(TurnTokens) <= 1,
         NEW u \in TurnTokens, NEW N, TokenStep({u}, N)
  PROVE  TurnTokens' \subseteq N /\ TurnTokens = {u}
<1>1. TurnTokens = {u}
  <2>1. Cardinality(TurnTokens) \in Nat
    BY FS_CardinalityType
  <2>2. Cardinality(TurnTokens) # 0
    BY FS_EmptySet
  <2>3. Cardinality(TurnTokens) = 1
    BY <2>1, <2>2
  <2>4. PICK x : TurnTokens = {x}
    BY <2>3, FS_Singleton
  <2> QED BY <2>4
<1> QED BY <1>1 DEF TokenStep

\* A step that moves queue k by ds[k] and dc[k] places.
LEMMA TokensFrom ==
  ASSUME NEW U, NEW N,
         NEW ds \in [Clients -> Nat], NEW dc \in [Clients -> Nat],
         \A k \in Clients : myTurn'[k] =>
           Held(k) \in N \/ (myTurn[k] /\ Held(k) \notin U),
         \A k \in Clients : \A i \in GivenAt(k)' :
           \/ Given(k, i) \in N
           \/ i + dc[k] \in GivenAt(k) /\ Given(k, i + dc[k]) \notin U,
         \A k \in Clients : \A i \in UsedAt(k)' :
           \/ Used(k, i) \in N
           \/ i + ds[k] \in UsedAt(k) /\ Used(k, i + ds[k]) \notin U,
         \A k \in Clients : GivenAt(k)' \subseteq Nat /\ UsedAt(k)' \subseteq Nat
  PROVE  TokenStep(U, N)
<1> DEFINE d(t) == IF t[2][1] = "used" THEN ds[t[1]]
                   ELSE IF t[2][1] = "given" THEN dc[t[1]] ELSE 0
           f == [t \in TurnTokens |-> <<t[1], <<t[2][1], t[2][2] - d(t)>>>>]
<1>1. \A t \in TurnTokens : f[t][1] = t[1] /\ f[t][2][1] = t[2][1]
  OBVIOUS
<1>2. ASSUME NEW t \in TurnTokens', t \notin N
      PROVE  \E s \in TurnTokens \ U : t = f[s]
  <2>1. PICK c \in Clients : \/ myTurn'[c] /\ t = Held(c)
                             \/ \E i \in GivenAt(c)' : t = Given(c, i)
                             \/ \E i \in UsedAt(c)' : t = Used(c, i)
    <3>1. \E c \in Clients : \/ myTurn'[c] /\ t = Held(c)
                             \/ \E i \in GivenAt(c)' : t = Given(c, i)
                             \/ \E i \in UsedAt(c)' : t = Used(c, i)
      <4>1. \A c : 0 \in HeldAt(c)' <=> myTurn'[c]
        BY DEF HeldAt
      <4>2. \A c : \A i \in HeldAt(c)' : i = 0
        BY DEF HeldAt
      <4> QED BY <1>2, <4>1, <4>2 DEF TurnTokens, Held, Given, Used
    <3> QED BY <3>1
  <2>2. CASE myTurn'[c] /\ t = Held(c)
    <3>1. Held(c) \in TurnTokens /\ Held(c) \notin U
      BY <1>2, <2>2, TokensAre
    <3>2. f[Held(c)] = Held(c)
      BY <3>1 DEF Held
    <3> QED BY <2>2, <3>1, <3>2
  <2>3. ASSUME NEW i \in GivenAt(c)', t = Given(c, i)
        PROVE  \E s \in TurnTokens \ U : t = f[s]
    <3>1. /\ Given(c, i + dc[c]) \in TurnTokens
          /\ Given(c, i + dc[c]) \notin U
      BY <1>2, <2>3, TokensAre
    <3>2. f[Given(c, i + dc[c])] = Given(c, i)
      <4>1. i \in Nat /\ dc[c] \in Nat
        BY <2>3
      <4>2. (i + dc[c]) - dc[c] = i
        BY <4>1
      <4> QED BY <3>1, <4>2 DEF Given
    <3> QED BY <2>3, <3>1, <3>2
  <2>4. ASSUME NEW i \in UsedAt(c)', t = Used(c, i)
        PROVE  \E s \in TurnTokens \ U : t = f[s]
    <3>1. /\ Used(c, i + ds[c]) \in TurnTokens
          /\ Used(c, i + ds[c]) \notin U
      BY <1>2, <2>4, TokensAre
    <3>2. f[Used(c, i + ds[c])] = Used(c, i)
      <4>1. i \in Nat /\ ds[c] \in Nat
        BY <2>4
      <4>2. (i + ds[c]) - ds[c] = i
        BY <4>1
      <4> QED BY <3>1, <4>2 DEF Used
    <3> QED BY <2>4, <3>1, <3>2
  <2> QED BY <2>1, <2>2, <2>3, <2>4
<1> HIDE DEF f
<1> QED BY <1>1, <1>2 DEF TokenStep

-------------------------------------------------------------------------------
(* Steps that have nothing to do with the turn or the state of the game.   *)

Updates == {"S_UPDATE_GAME_STATE", "S_UPDATE_PLAYER_HP"}
Moves   == Updates \cup {"S_GAME_STARTED"}
Signals == Moves \cup {"S_TAKE_TURN"}

\* By how much the queues move: not at all, or that of client c by one.
Zero   == [k \in Clients |-> 0]
One(c) == [k \in Clients |-> IF k = c THEN 1 ELSE 0]

RequestsCarried(d) ==
  \A k \in Clients : Carried(toServer'[k], toServer[k], d[k], TurnRequests)

SignalsCarried(d) ==
  \A k \in Clients : Carried(toClient'[k], toClient[k], d[k], Signals)

SignalsKept(d) ==
  \A k \in Clients :
    link'[k] = "open" => Kept(toClient'[k], toClient[k], d[k], Signals)

\* What the server says of a player but whether it is ready.
SameFate(p, q) == p.health = q.health /\ p.dead = q.dead /\ p.job = q.job

Quiet(ds, dc) ==
  /\ UNCHANGED <<gameState, currentPlayerTurn, starts, cGameState, view>>
  /\ serverStatus' \in {serverStatus, "aborted"}
  /\ players \subseteq players'
  /\ \A k \in Clients :
       IF k \in players' \ players THEN player'[k] = NewPlayer
                                   ELSE SameFate(player'[k], player[k])
  /\ \A k \in Clients :
       /\ myTurn'[k] => myTurn[k]
       /\ cNetworkState'[k] = "NS_GAME_STARTED"
            => cNetworkState[k] = "NS_GAME_STARTED"
       /\ link'[k] = "open" => link[k] \in {"open", "connecting"}
  /\ RequestsCarried(ds)
  /\ SignalsCarried(dc)
  /\ SignalsKept(dc)

QuietStep == \E ds, dc \in [Clients -> Nat] : Quiet(ds, dc)

\* Both are as many places as there are clients.
LEMMA Shifts ==
  /\ Zero \in [Clients -> Nat]
  /\ \A c \in Clients : One(c) \in [Clients -> Nat]
BY DEF Zero, One

\* Queues nobody touches.
LEMMA QueuesStay ==
  ASSUME TypeOK
  PROVE  /\ UNCHANGED toServer => RequestsCarried(Zero)
         /\ UNCHANGED toClient => SignalsCarried(Zero) /\ SignalsKept(Zero)
<1>1. ASSUME NEW k \in Clients
      PROVE  /\ Carried(toServer[k], toServer[k], 0, TurnRequests)
             /\ Carried(toClient[k], toClient[k], 0, Signals)
             /\ Kept(toClient[k], toClient[k], 0, Signals)
  BY QueueSteps DEF TypeOK, TransportTypeOK
<1> QED BY <1>1 DEF RequestsCarried, SignalsCarried, SignalsKept, Zero

\* The server takes a packet.
LEMMA ReceiveCarries ==
  ASSUME TypeOK, NEW c \in Clients, NEW id, Receive(c, id), Consume(c)
  PROVE  RequestsCarried(One(c))
<1>1. ASSUME NEW k \in Clients
      PROVE  /\ Carried(toServer[k], toServer[k], 0, TurnRequests)
             /\ k = c => Carried(Tail(toServer[k]), toServer[k], 1, TurnRequests)
  BY QueueSteps DEF Receive, TypeOK, TransportTypeOK
<1>2. \A k \in Clients :
        toServer'[k] = IF k = c THEN Tail(toServer[k]) ELSE toServer[k]
  BY DEF Consume, TypeOK, TransportTypeOK
<1> QED BY <1>1, <1>2 DEF RequestsCarried, One

\* A client sends a packet that is no request for the turn.
LEMMA PostCarries ==
  ASSUME TypeOK, NEW c \in Clients, NEW m \in ToServer,
         m.id \notin TurnRequests, Post(c, m)
  PROVE  RequestsCarried(Zero)
<1>1. ASSUME NEW k \in Clients
      PROVE  /\ Carried(toServer[k], toServer[k], 0, TurnRequests)
             /\ Carried(Append(toServer[k], m), toServer[k], 0, TurnRequests)
  BY QueueSteps DEF TypeOK, TransportTypeOK
<1>2. \A k \in Clients : toServer'[k] \in {toServer[k], Append(toServer[k], m)}
  BY DEF Post, TypeOK, TransportTypeOK
<1> QED BY <1>1, <1>2 DEF RequestsCarried, Zero

\* The server sends a packet; what it is not comes to nobody.
LEMMA SendCarries ==
  ASSUME NEW q \in [Clients -> Seq(ToClient)], NEW m \in ToClient,
         NEW c \in Clients, NEW k \in Clients, NEW R,
         NEW r \in {Broadcast(q, m), SendTo(q, c, m)}
  PROVE  /\ Kept(r[k], q[k], 0, R)
         /\ m.id \notin R => Carried(r[k], q[k], 0, R)
<1>1. r[k] \in {q[k], Append(q[k], m)}
  BY DEF Broadcast, SendTo
<1> QED BY <1>1, QueueSteps

\* A client takes a packet; if it is no signal no signal is gone.
LEMMA TakeCarries ==
  ASSUME TypeOK, NEW c \in Clients, NEW id, Take(c, id)
  PROVE  SignalsCarried(One(c)) /\ (id \notin Signals => SignalsKept(One(c)))
<1>1. ASSUME NEW k \in Clients
      PROVE  /\ Carried(toClient[k], toClient[k], 0, Signals)
             /\ Kept(toClient[k], toClient[k], 0, Signals)
             /\ k = c => Carried(Tail(toClient[k]), toClient[k], 1, Signals)
             /\ k = c /\ id \notin Signals =>
                  Kept(Tail(toClient[k]), toClient[k], 1, Signals)
  BY QueueSteps DEF Take, TypeOK, TransportTypeOK
<1>2. \A k \in Clients :
        toClient'[k] = IF k = c THEN Tail(toClient[k]) ELSE toClient[k]
  BY DEF Take, TypeOK, TransportTypeOK
<1> QED BY <1>1, <1>2 DEF SignalsCarried, SignalsKept, One

\* What a handler has to show to be quiet; the clients do not move.
LEMMA QuietHandler ==
  ASSUME UNCHANGED clientVars, NEW c \in Clients,
         UNCHANGED <<gameState, currentPlayerTurn, starts>>,
         serverStatus' \in {serverStatus, "aborted"},
         players \subseteq players',
         \A k \in Clients :
           IF k \in players' \ players THEN player'[k] = NewPlayer
                                       ELSE SameFate(player'[k], player[k]),
         \A k \in Clients : link'[k] = "open" => link[k] = "open",
         RequestsCarried(One(c)), SignalsCarried(Zero), SignalsKept(Zero)
  PROVE  QuietStep
<1>1. Quiet(One(c), Zero)
  BY DEF Quiet, clientVars
<1> QED BY <1>1, Shifts DEF QuietStep

\* What an assert that fails leaves.
LEMMA AbortQuiet ==
  ASSUME TypeOK, UNCHANGED clientVars, NEW c \in Clients, NEW id,
         Receive(c, id), Consume(c), UNCHANGED link, Abort
  PROVE  QuietStep
<1>1. SignalsCarried(Zero) /\ SignalsKept(Zero)
  BY QueuesStay DEF Abort
<1>2. RequestsCarried(One(c))
  BY ReceiveCarries
<1>3. \A k \in Clients : SameFate(player'[k], player[k])
  BY DEF Abort, SameFate
<1> QED BY <1>1, <1>2, <1>3, QuietHandler DEF Abort

\* The packet thread takes the packet and sets a ready flag, or nothing.
LEMMA FlagQuiet ==
  ASSUME TypeOK, UNCHANGED clientVars, NEW c \in Clients, NEW id,
         Receive(c, id), Consume(c), UNCHANGED <<link, toClient>>,
         UNCHANGED <<gameState, players, currentPlayerTurn, serverStatus,
                     starts>>,
         \/ UNCHANGED player
         \/ \E b \in BOOLEAN : player' = [player EXCEPT ![c].ready = b]
  PROVE  QuietStep
<1>1. SignalsCarried(Zero) /\ SignalsKept(Zero)
  BY QueuesStay
<1>2. RequestsCarried(One(c))
  BY ReceiveCarries
<1>3. \A k \in Clients : SameFate(player'[k], player[k])
  BY DEF SameFate, TypeOK, ServerTypeOK, Player
<1> QED BY <1>1, <1>2, <1>3, QuietHandler

\* A packet that is no signal is sent, in answer or as a relay.
LEMMA ReplyQuiet ==
  ASSUME TypeOK, UNCHANGED clientVars, NEW c \in Clients, NEW id,
         Receive(c, id), Consume(c), UNCHANGED <<serverVars, link>>,
         NEW m \in ToClient, m.id \notin Signals,
         toClient' \in {Broadcast(toClient, m), SendTo(toClient, c, m)}
  PROVE  QuietStep
<1>1. toClient \in [Clients -> Seq(ToClient)]
  BY DEF TypeOK, TransportTypeOK
<1>2. SignalsCarried(Zero) /\ SignalsKept(Zero)
  BY <1>1, SendCarries DEF SignalsCarried, SignalsKept, Zero
<1>3. RequestsCarried(One(c))
  BY ReceiveCarries
<1>4. \A k \in Clients : SameFate(player'[k], player[k])
  BY DEF SameFate, serverVars
<1> QED BY <1>2, <1>3, <1>4, QuietHandler DEF serverVars

\* A newcomer gets an entry and, kicked or not, nothing else changes in the
\* game.
LEMMA IntroQuiet ==
  ASSUME TypeOK, UNCHANGED clientVars, NEW c \in Clients, OnClientIntro(c)
  PROVE  QuietStep
<1> DEFINE rest == Tail(toServer[c])
<1>1. SignalsCarried(Zero) /\ SignalsKept(Zero)
  BY QueuesStay DEF OnClientIntro
<1>2. RequestsCarried(One(c))
  <2>1. CASE Consume(c)
    BY <2>1, ReceiveCarries DEF OnClientIntro
  <2>2. ASSUME NEW kept \in Prefixes(rest),
               toServer' = [toServer EXCEPT ![c] = kept]
        PROVE  RequestsCarried(One(c))
    <3>1. toServer \in [Clients -> Seq(ToServer)] /\ toServer[c] # <<>>
      BY DEF OnClientIntro, Receive, TypeOK, TransportTypeOK
    <3>2. ASSUME NEW k \in Clients
          PROVE  /\ Carried(toServer[k], toServer[k], 0, TurnRequests)
                 /\ k = c => Carried(kept, toServer[k], 1, TurnRequests)
      BY <2>2, <3>1, QueueSteps
    <3>3. \A k \in Clients :
            toServer'[k] = IF k = c THEN kept ELSE toServer[k]
      BY <2>2, <3>1
    <3> QED BY <3>2, <3>3 DEF RequestsCarried, One
  <2> QED BY <2>1, <2>2 DEF OnClientIntro
<1>3. ASSUME NEW k \in Clients
      PROVE  IF k \in players' \ players THEN player'[k] = NewPlayer
                                         ELSE SameFate(player'[k], player[k])
  BY DEF OnClientIntro, SameFate, TypeOK, ServerTypeOK
<1>4. \A k \in Clients : link'[k] = "open" => link[k] = "open"
  BY DEF OnClientIntro, TypeOK, TransportTypeOK
<1> QED BY <1>1, <1>2, <1>3, <1>4, QuietHandler DEF OnClientIntro

\* The handlers that are quiet.
LEMMA HandlerQuiet ==
  ASSUME PlainNames, TypeOK, UNCHANGED clientVars, NEW c \in Clients,
         \/ OnIncomingConnection(c)
         \/ OnConnectionLost(c)
         \/ OnClientIntro(c)
         \/ OnClientChatReceived(c)
         \/ OnPlayerListRequest(c)
         \/ OnPlayerStatsRequest(c)
         \/ OnPlayerReady(c) /\ UNCHANGED starts
         \/ OnPlayerUnready(c)
         \/ OnPlayerJobChosen(c) /\ c \notin players
         \/ OnPlayerActionTaken(c) /\
              (c \notin players \/ WithName(Head(toServer[c]).target) = {})
  PROVE  QuietStep
<1>1. CASE OnIncomingConnection(c)
  BY <1>1, FlagQuiet DEF OnIncomingConnection
<1>2. CASE OnConnectionLost(c)
  BY <1>2, FlagQuiet DEF OnConnectionLost, serverVars
<1>3. CASE OnClientIntro(c)
  BY <1>3, IntroQuiet
<1>4. CASE OnClientChatReceived(c)
  <2>1. Plain(Lead[c]) \in ToClient /\ Plain(Lead[c]).id \notin Signals
    BY PlainType DEF PlainNames, Plain, Signals, Moves, Updates
  <2> QED BY <1>4, <2>1, AbortQuiet, ReplyQuiet DEF OnClientChatReceived
<1>5. CASE OnPlayerListRequest(c) \/ OnPlayerStatsRequest(c)
  <2>1. PICK id \in {"S_REPLY_PLAYER_LIST_REQUEST",
                     "S_REPLY_PLAYER_STATS_REQUEST"} :
               toClient' = SendTo(toClient, c, Plain(id))
    BY <1>5 DEF OnPlayerListRequest, OnPlayerStatsRequest
  <2>2. Plain(id) \in ToClient /\ Plain(id).id \notin Signals
    BY PlainType DEF Plain, Signals, Moves, Updates
  <2> QED
    BY <1>5, <2>1, <2>2, ReplyQuiet
       DEF OnPlayerListRequest, OnPlayerStatsRequest
<1>6. CASE OnPlayerReady(c) /\ UNCHANGED starts
  <2> DEFINE p == [player EXCEPT ![c].ready = TRUE]
  <2>1. CASE Abort
    BY <1>6, <2>1, AbortQuiet DEF OnPlayerReady
  <2>2. CASE player' = p /\ ~StartGame(p) /\ ~Abort
    BY <1>6, <2>2, FlagQuiet DEF OnPlayerReady
  <2>3. ~StartGame(p)
    BY <1>6 DEF StartGame, TypeOK, ServerTypeOK
  <2> HIDE DEF p
  <2>4. Abort \/ player' = p
    BY <1>6, <2>3 DEF OnPlayerReady, p
  <2> QED BY <2>1, <2>2, <2>3, <2>4
<1>7. CASE OnPlayerUnready(c)
  BY <1>7, AbortQuiet, FlagQuiet DEF OnPlayerUnready
<1>8. CASE OnPlayerJobChosen(c) /\ c \notin players
  BY <1>8, AbortQuiet DEF OnPlayerJobChosen
<1>9. CASE /\ OnPlayerActionTaken(c)
           /\ c \notin players \/ WithName(Head(toServer[c]).target) = {}
  BY <1>9, AbortQuiet DEF OnPlayerActionTaken
<1> QED BY <1>1, <1>2, <1>3, <1>4, <1>5, <1>6, <1>7, <1>8, <1>9

\* What a step of a client has to show to be quiet.
LEMMA QuietClient ==
  ASSUME UNCHANGED serverVars, UNCHANGED <<cGameState, view>>,
         NEW ds \in [Clients -> Nat], NEW dc \in [Clients -> Nat],
         \A k \in Clients :
           /\ myTurn'[k] => myTurn[k]
           /\ cNetworkState'[k] = "NS_GAME_STARTED"
                => cNetworkState[k] = "NS_GAME_STARTED"
           /\ link'[k] = "open" => link[k] \in {"open", "connecting"},
         RequestsCarried(ds), SignalsCarried(dc), SignalsKept(dc)
  PROVE  QuietStep
<1>1. Quiet(ds, dc)
  BY DEF Quiet, serverVars, SameFate
<1> QED BY <1>1 DEF QuietStep

\* Threads of the clients that are quiet.
LEMMA ClientQuiet ==
  ASSUME TypeOK, UNCHANGED serverVars, NEW c \in Clients,
         \/ Connect(c) \/ SetPending(c) \/ OnConnectionAccepted(c)
         \/ SendIntro(c) \/ ShowReply(c) \/ Ready(c) \/ Unready(c)
         \/ Chat(c) \/ Ask(c) \/ WasteTurn(c)
  PROVE  QuietStep
<1>0. /\ link \in [Clients -> LinkState]
      /\ cNetworkState \in [Clients -> NetworkState]
      /\ myTurn \in [Clients -> BOOLEAN]
  BY DEF TypeOK, TransportTypeOK, ClientTypeOK
<1>1. CASE Connect(c) \/ SetPending(c) \/ WasteTurn(c)
  <2>1. RequestsCarried(Zero) /\ SignalsCarried(Zero) /\ SignalsKept(Zero)
    BY <1>1, QueuesStay DEF Connect, SetPending, WasteTurn, transportVars
  <2>2. \A k \in Clients :
          /\ myTurn'[k] => myTurn[k]
          /\ cNetworkState'[k] = "NS_GAME_STARTED"
               => cNetworkState[k] = "NS_GAME_STARTED"
          /\ link'[k] = "open" => link[k] \in {"open", "connecting"}
    BY <1>0, <1>1 DEF Connect, SetPending, WasteTurn, EndTurn, transportVars
  <2> QED
    BY <1>1, <2>1, <2>2, Shifts, QuietClient DEF Connect, SetPending, WasteTurn
<1>2. CASE OnConnectionAccepted(c) \/ ShowReply(c)
  <2>1. PICK id \in {"ID_CONNECTION_REQUEST_ACCEPTED", "text",
                     "S_REPLY_PLAYER_LIST_REQUEST",
                     "S_REPLY_PLAYER_STATS_REQUEST"} : Take(c, id)
    BY <1>2 DEF OnConnectionAccepted, ShowReply
  <2>2. /\ SignalsCarried(One(c)) /\ SignalsKept(One(c))
        /\ RequestsCarried(Zero)
    <3>1. id \notin Signals
      BY DEF Signals, Moves, Updates
    <3> QED
      BY <1>2, <2>1, <3>1, TakeCarries, QueuesStay
         DEF OnConnectionAccepted, ShowReply
  <2>3. /\ \A k \in Clients :
             /\ myTurn'[k] => myTurn[k]
             /\ cNetworkState'[k] = "NS_GAME_STARTED"
                  => cNetworkState[k] = "NS_GAME_STARTED"
             /\ link'[k] = "open" => link[k] \in {"open", "connecting"}
        /\ UNCHANGED <<cGameState, view>>
    BY <1>0, <1>2 DEF OnConnectionAccepted, ShowReply, clientVars
  <2> QED BY <2>2, <2>3, Shifts, QuietClient
<1>3. CASE SendIntro(c) \/ Ready(c) \/ Unready(c) \/ Chat(c) \/ Ask(c)
  <2>1. PICK id \in {"C_INTRO", "C_READY", "C_UNREADY", "C_CHAT",
                     "C_PLAYER_LIST_REQUEST", "C_PLAYER_STATS_REQUEST"} :
               Post(c, Plain(id))
    BY <1>3 DEF SendIntro, Ready, Unready, Chat, Ask
  <2>2. Plain(id) \in ToServer /\ Plain(id).id \notin TurnRequests
    BY PlainType DEF Plain, TurnRequests
  <2>3. UNCHANGED <<myTurn, cNetworkState, cGameState, view, link, toClient>>
    BY <1>3 DEF SendIntro, Ready, Unready, Chat, Ask
  <2> QED
    BY <2>1, <2>2, <2>3, PostCarries, QueuesStay, Shifts, QuietClient
<1> QED BY <1>1, <1>2, <1>3

\* RakNet's own packets are neither requests nor signals, and a connection
\* that is cut is one less.
LEMMA EnvironmentQuiet ==
  ASSUME TypeOK, NEW c \in Clients, Environment(c)
  PROVE  QuietStep
<1>0. /\ link \in [Clients -> LinkState]
      /\ toServer \in [Clients -> Seq(ToServer)]
      /\ toClient \in [Clients -> Seq(ToClient)]
      /\ UNCHANGED <<serverVars, clientVars>>
  BY DEF TypeOK, TransportTypeOK, Environment
<1>1. \A k \in Clients : link'[k] = "open" => link[k] \in {"open", "connecting"}
  BY <1>0 DEF Environment, Accept, Refuse, Vanish, TimeOut
<1>2. RequestsCarried(Zero)
  <2>1. ASSUME NEW k \in Clients
        PROVE  \/ toServer'[k] = toServer[k]
               \/ \E id \in {"ID_NEW_INCOMING_CONNECTION", "ID_CONNECTION_LOST"} :
                    toServer'[k] = Append(toServer[k], Plain(id))
               \/ toServer'[k] \in Prefixes(toServer[k])
    BY <1>0 DEF Environment, Accept, Refuse, Vanish, TimeOut
  <2>2. \A id \in {"ID_NEW_INCOMING_CONNECTION", "ID_CONNECTION_LOST"} :
          Plain(id) \in ToServer /\ Plain(id).id \notin TurnRequests
    BY PlainType DEF Plain, TurnRequests
  <2>3. ASSUME NEW k \in Clients
        PROVE  Carried(toServer'[k], toServer[k], 0, TurnRequests)
    <3>1. toServer[k] \in Seq(ToServer)
      BY <1>0
    <3> QED BY <2>1, <2>2, <3>1, QueueSteps
  <2> QED BY <2>3 DEF RequestsCarried, Zero
<1>3. SignalsCarried(Zero) /\ SignalsKept(Zero)
  <2>1. ASSUME NEW k \in Clients
        PROVE  \/ toClient'[k] = toClient[k]
               \/ toClient'[k] =
                    Append(toClient[k], Plain("ID_CONNECTION_REQUEST_ACCEPTED"))
               \/ toClient'[k] = <<>> /\ link'[k] # "open"
    BY <1>0 DEF Environment, Accept, Refuse, Vanish, TimeOut
  <2>2. LET m == Plain("ID_CONNECTION_REQUEST_ACCEPTED")
        IN  m \in ToClient /\ m.id \notin Signals
    BY PlainType DEF Plain, Signals, Moves, Updates
  <2>3. ASSUME NEW k \in Clients
        PROVE  /\ Carried(toClient'[k], toClient[k], 0, Signals)
               /\ link'[k] = "open" => Kept(toClient'[k], toClient[k], 0, Signals)
    <3>1. toClient[k] \in Seq(ToClient)
      BY <1>0
    <3>2. Carried(<<>>, toClient[k], 0, Signals)
      BY DEF Carried
    <3> QED BY <2>1, <2>2, <3>1, <3>2, QueueSteps
  <2> QED BY <2>3 DEF SignalsCarried, SignalsKept, Zero
<1> QED BY <1>0, <1>1, <1>2, <1>3, Shifts, QuietClient DEF clientVars

-------------------------------------------------------------------------------
(* What every kind of step does to the turns.                              *)

\* The steps that are not quiet, with what they are about.
GetsReady(c) == [player EXCEPT ![c].ready = TRUE]

Starts(c) ==
  /\ OnPlayerReady(c)
  /\ c \in players
  /\ StartGame(GetsReady(c))
  /\ UNCHANGED <<totalConnections, players, serverStatus, clientVars>>

ChoiceArrives(c) ==
  /\ OnPlayerJobChosen(c)
  /\ c \in players
  /\ UNCHANGED clientVars

ActionArrives(c) ==
  /\ OnPlayerActionTaken(c)
  /\ c \in players
  /\ WithName(Head(toServer[c]).target) # {}
  /\ UNCHANGED clientVars

Learns(c) ==
  /\ OnGameStart(c) \/ OnGameStateUpdate(c) \/ OnPlayersHealthUpdated(c)
  /\ UNCHANGED serverVars

TakesTurn(c) == OnTakeTurn(c) /\ UNCHANGED serverVars

UsesTurn(c) == (ChooseJob(c) \/ TakeAction(c)) /\ UNCHANGED serverVars

\* Every step is quiet or one of these.
LEMMA StepKinds ==
  ASSUME PlainNames, TypeOK, [Next]_vars
  PROVE  \/ QuietStep
         \/ \E c \in Clients :
              \/ Starts(c) \/ ChoiceArrives(c) \/ ActionArrives(c)
              \/ Learns(c) \/ TakesTurn(c) \/ UsesTurn(c)
<1>1. CASE (GameLoop /\ UNCHANGED clientVars) \/ UNCHANGED vars
  <2>1. UNCHANGED <<toServer, toClient, link, clientVars>>
    BY <1>1 DEF GameLoop, vars, transportVars
  <2>2. RequestsCarried(Zero) /\ SignalsCarried(Zero) /\ SignalsKept(Zero)
    BY <2>1, QueuesStay
  <2>3. Quiet(Zero, Zero)
    BY <1>1, <2>1, <2>2
       DEF Quiet, GameLoop, vars, serverVars, clientVars, SameFate
  <2> QED BY <2>3, Shifts DEF QuietStep
<1>2. ASSUME NEW c \in Clients, PacketHandler(c), UNCHANGED clientVars
      PROVE  QuietStep \/ Starts(c) \/ ChoiceArrives(c) \/ ActionArrives(c)
  <2>1. CASE OnPlayerReady(c)
    <3> DEFINE p == GetsReady(c)
    <3>1. CASE UNCHANGED starts
      BY <1>2, <2>1, <3>1, HandlerQuiet
    <3>2. CASE /\ c \in players /\ StartGame(p)
               /\ UNCHANGED <<totalConnections, players, serverStatus>>
      BY <1>2, <2>1, <3>2 DEF Starts
    <3> QED BY <2>1, <3>1, <3>2 DEF OnPlayerReady, Abort, GetsReady
  <2>2. CASE OnPlayerJobChosen(c)
    BY <1>2, <2>2, HandlerQuiet DEF ChoiceArrives
  <2>3. CASE OnPlayerActionTaken(c)
    BY <1>2, <2>3, HandlerQuiet DEF ActionArrives
  <2> QED BY <1>2, <2>1, <2>2, <2>3, HandlerQuiet DEF PacketHandler
<1>3. ASSUME NEW c \in Clients, UNCHANGED serverVars,
             \/ Connect(c) \/ SetPending(c) \/ ClientPackets(c)
             \/ InputHandler(c)
      PROVE  QuietStep \/ Learns(c) \/ TakesTurn(c) \/ UsesTurn(c)
  BY <1>3, ClientQuiet
     DEF ClientPackets, InputHandler, Learns, TakesTurn, UsesTurn
<1>4. ASSUME NEW c \in Clients, Environment(c)
      PROVE  QuietStep
  BY <1>4, EnvironmentQuiet
<1> QED BY <1>1, <1>2, <1>3, <1>4 DEF Next

\* Places in queues are numbers.
LEMMA PlacesAreNumbers ==
  ASSUME TypeOK, NEW k \in Clients
  PROVE  /\ GivenAt(k) \subseteq 1..Len(toClient[k])
         /\ UsedAt(k) \subseteq 1..Len(toServer[k])
         /\ Len(toClient[k]) \in Nat /\ Len(toServer[k]) \in Nat
<1>1. toClient[k] \in Seq(ToClient) /\ toServer[k] \in Seq(ToServer)
  BY DEF TypeOK, TransportTypeOK
<1> QED BY <1>1, LenProperties DEF GivenAt, UsedAt

\* Queues from which no request and no turn comes up that was not there.
LEMMA CarriedPlaces ==
  ASSUME NEW k \in Clients, NEW d
  PROVE  /\ Carried(toServer'[k], toServer[k], d, TurnRequests)
              => \A i \in UsedAt(k)' : i + d \in UsedAt(k)
         /\ \A R : "S_TAKE_TURN" \in R
                     /\ Carried(toClient'[k], toClient[k], d, R)
              => \A i \in GivenAt(k)' : i + d \in GivenAt(k)
BY DEF Carried, UsedAt, GivenAt

\* Steps in which turns only go.
LEMMA NoNewTokens ==
  ASSUME TypeOK', NEW ds \in [Clients -> Nat], NEW dc \in [Clients -> Nat],
         \A k \in Clients : myTurn'[k] => myTurn[k],
         RequestsCarried(ds), SignalsCarried(dc)
  PROVE  TokenStep({}, {})
<1>1. \A k \in Clients : /\ \A i \in UsedAt(k)' : i + ds[k] \in UsedAt(k)
                         /\ \A i \in GivenAt(k)' : i + dc[k] \in GivenAt(k)
  BY CarriedPlaces DEF RequestsCarried, SignalsCarried, Signals
<1>2. \A k \in Clients : GivenAt(k)' \subseteq Nat /\ UsedAt(k)' \subseteq Nat
  <2>1. ASSUME NEW k \in Clients
        PROVE  GivenAt(k)' \subseteq Nat /\ UsedAt(k)' \subseteq Nat
    <3>1. toClient'[k] \in Seq(ToClient) /\ toServer'[k] \in Seq(ToServer)
      BY DEF TypeOK, TransportTypeOK
    <3> QED BY <3>1, LenProperties DEF GivenAt, UsedAt
  <2> QED BY <2>1
<1> QED BY <1>1, <1>2, TokensFrom

\* A quiet step brings no turn.
LEMMA QuietTokens ==
  ASSUME TypeOK', QuietStep
  PROVE  TokenStep({}, {})
BY NoNewTokens DEF QuietStep, Quiet

\* Nor does news of the game.
LEMMA LearnsTokens ==
  ASSUME TypeOK, TypeOK', NEW c \in Clients, Learns(c)
  PROVE  TokenStep({}, {})
<1>1. PICK id \in Moves : Take(c, id)
  BY DEF Learns, OnGameStart, OnGameStateUpdate, OnPlayersHealthUpdated,
         Moves, Updates
<1>2. UNCHANGED <<myTurn, toServer>>
  BY DEF Learns, OnGameStart, OnGameStateUpdate, OnPlayersHealthUpdated
<1> QED BY <1>1, <1>2, TakeCarries, QueuesStay, Shifts, NoNewTokens

\* A turn that is taken was given, in the packet at the head of the queue.
LEMMA TakesTurnTokens ==
  ASSUME TypeOK, TypeOK', NEW c \in Clients, TakesTurn(c)
  PROVE  /\ Given(c, 1) \in TurnTokens
         /\ TokenStep({Given(c, 1)}, {Held(c)})
<1>0. /\ Take(c, "S_TAKE_TURN")
      /\ toClient[c] \in Seq(ToClient) /\ toClient[c] # <<>>
      /\ myTurn' = [myTurn EXCEPT ![c] = TRUE]
      /\ myTurn \in [Clients -> BOOLEAN]
      /\ UNCHANGED toServer
  BY DEF TakesTurn, OnTakeTurn, Take, TypeOK, TransportTypeOK, ClientTypeOK
<1>1. Given(c, 1) \in TurnTokens
  <2>1. 1 \in DOMAIN toClient[c] /\ toClient[c][1].id = "S_TAKE_TURN"
    BY <1>0, LenProperties, EmptySeq DEF Take
  <2> QED BY <2>1, TokensAre DEF GivenAt
<1>2. SignalsCarried(One(c)) /\ RequestsCarried(Zero)
  BY <1>0, TakeCarries, QueuesStay
<1>3. \A k \in Clients : GivenAt(k)' \subseteq Nat \ {0} /\ UsedAt(k)' \subseteq Nat
  <2>1. ASSUME NEW k \in Clients
        PROVE  GivenAt(k)' \subseteq Nat \ {0} /\ UsedAt(k)' \subseteq Nat
    <3>1. toClient'[k] \in Seq(ToClient) /\ toServer'[k] \in Seq(ToServer)
      BY DEF TypeOK, TransportTypeOK
    <3> QED BY <3>1, LenProperties DEF GivenAt, UsedAt
  <2> QED BY <2>1
<1>4. ASSUME NEW k \in Clients, NEW i \in GivenAt(k)'
      PROVE  /\ i + One(c)[k] \in GivenAt(k)
             /\ Given(k, i + One(c)[k]) # Given(c, 1)
  <2>1. i + One(c)[k] \in GivenAt(k)
    BY <1>2, CarriedPlaces DEF SignalsCarried, Signals
  <2>2. k = c => i + One(c)[k] # 1
    BY <1>3 DEF One
  <2> QED BY <2>1, <2>2 DEF Given
<1>5. ASSUME NEW k \in Clients, NEW i \in UsedAt(k)'
      PROVE  /\ i + Zero[k] \in UsedAt(k)
             /\ Used(k, i + Zero[k]) # Given(c, 1)
  <2>1. i + Zero[k] \in UsedAt(k)
    BY <1>2, CarriedPlaces DEF RequestsCarried
  <2> QED BY <2>1 DEF Used, Given
<1>6. \A k \in Clients :
        myTurn'[k] => Held(k) = Held(c) \/ (myTurn[k] /\ Held(k) # Given(c, 1))
  BY <1>0 DEF Held, Given
<1>7. TokenStep({Given(c, 1)}, {Held(c)})
  <2> DEFINE U == {Given(c, 1)}
             N == {Held(c)}
  <2>1. /\ \A k \in Clients : myTurn'[k] =>
             Held(k) \in N \/ (myTurn[k] /\ Held(k) \notin U)
        /\ \A k \in Clients : \A i \in GivenAt(k)' :
             \/ Given(k, i) \in N
             \/ i + One(c)[k] \in GivenAt(k) /\ Given(k, i + One(c)[k]) \notin U
        /\ \A k \in Clients : \A i \in UsedAt(k)' :
             \/ Used(k, i) \in N
             \/ i + Zero[k] \in UsedAt(k) /\ Used(k, i + Zero[k]) \notin U
        /\ \A k \in Clients : GivenAt(k)' \subseteq Nat /\ UsedAt(k)' \subseteq Nat
    BY <1>3, <1>4, <1>5, <1>6
  <2> HIDE DEF U, N
  <2>2. TokenStep(U, N)
    BY <2>1, Shifts, TokensFrom
  <2> QED BY <2>2 DEF U, N
<1> QED BY <1>1, <1>7

\* A line typed on turn gives the turn up, for a request at the end of the
\* queue, or for nothing when there is no connection.
LEMMA UsesTurnShape ==
  ASSUME TypeOK, TypeOK', NEW c \in Clients, UsesTurn(c)
  PROVE  /\ \E m \in ToServer :
              /\ Post(c, m)
              /\ m.id = (IF cGameState[c] = "GS_MAIN" THEN "C_ACTION_TAKEN"
                                                      ELSE "C_JOB_CHOSEN")
              /\ m.id = "C_ACTION_TAKEN" => m.target \in Targets(c)
         /\ cNetworkState[c] = "NS_GAME_STARTED" /\ myTurn[c] /\ Alive(c)
         /\ cGameState[c] \in {"GS_MAIN", "GS_CHARACTER_SELECT"}
         /\ myTurn' = [myTurn EXCEPT ![c] = FALSE]
         /\ UNCHANGED <<cNetworkState, cGameState, view, link, toClient>>
<1>1. CASE ChooseJob(c)
  <2>1. PICK job \in CharacterClass :
               Post(c, [id |-> "C_JOB_CHOSEN", job |-> job])
    BY <1>1 DEF ChooseJob
  <2>2. [id |-> "C_JOB_CHOSEN", job |-> job] \in ToServer
    BY DEF ToServer
  <2> QED BY <1>1, <2>1, <2>2 DEF ChooseJob, Typing, EndTurn
<1>2. CASE TakeAction(c)
  <2>1. PICK action \in Action, target \in Targets(c) :
               Post(c, [id |-> "C_ACTION_TAKEN", action |-> action,
                        target |-> target])
    BY <1>2 DEF TakeAction
  <2>2. target \in Names
    BY NamesAssumption DEF Targets
  <2>3. [id |-> "C_ACTION_TAKEN", action |-> action, target |-> target]
          \in ToServer
    BY <2>2 DEF ToServer
  <2> QED BY <1>2, <2>1, <2>3 DEF TakeAction, Typing, EndTurn
<1> QED BY <1>1, <1>2 DEF UsesTurn

\* The turn a player uses was the player's, and travels last of all the
\* player's packets.
LEMMA UsesTurnTokens ==
  ASSUME TypeOK, TypeOK', NEW c \in Clients, UsesTurn(c)
  PROVE  /\ Held(c) \in TurnTokens
         /\ TokenStep({Held(c)}, {Used(c, Len(toServer[c]) + 1)})
<1>1. PICK m \in ToServer : Post(c, m)
  BY UsesTurnShape
<1>2. /\ myTurn[c] /\ myTurn' = [myTurn EXCEPT ![c] = FALSE]
      /\ myTurn \in [Clients -> BOOLEAN]
      /\ UNCHANGED toClient
  BY UsesTurnShape DEF TypeOK, ClientTypeOK
<1>3. Held(c) \in TurnTokens
  BY <1>2, TokensAre
<1> DEFINE last == Len(toServer[c]) + 1
           U == {Held(c)}
           N == {Used(c, last)}
<1>4. \A k \in Clients : GivenAt(k)' \subseteq Nat /\ UsedAt(k)' \subseteq Nat
  <2>1. ASSUME NEW k \in Clients
        PROVE  GivenAt(k)' \subseteq Nat /\ UsedAt(k)' \subseteq Nat
    <3>1. toClient'[k] \in Seq(ToClient) /\ toServer'[k] \in Seq(ToServer)
      BY DEF TypeOK, TransportTypeOK
    <3> QED BY <3>1, LenProperties DEF GivenAt, UsedAt
  <2> QED BY <2>1
<1>5. ASSUME NEW k \in Clients, NEW i \in UsedAt(k)'
      PROVE  Used(k, i) \in N \/ i \in UsedAt(k)
  <2>1. toServer \in [Clients -> Seq(ToServer)] /\ toServer[k] \in Seq(ToServer)
    BY DEF TypeOK, TransportTypeOK
  <2>2. CASE toServer'[k] = toServer[k]
    BY <2>2 DEF UsedAt
  <2>3. CASE k = c /\ toServer'[k] = Append(toServer[k], m)
    <3>1. /\ DOMAIN toServer'[k] = 1..(Len(toServer[k]) + 1)
          /\ \A j \in 1..Len(toServer[k]) : toServer'[k][j] = toServer[k][j]
          /\ DOMAIN toServer[k] = 1..Len(toServer[k])
          /\ Len(toServer[k]) \in Nat
      <4>1. Append(toServer[k], m) \in Seq(ToServer)
        BY <2>1, AppendProperties
      <4> QED BY <2>1, <2>3, <4>1, AppendProperties, LenProperties
    <3> QED BY <2>3, <3>1 DEF UsedAt
  <2> QED BY <1>1, <2>1, <2>2, <2>3 DEF Post
<1>6. TokenStep(U, N)
  <2>1. \A k \in Clients : myTurn'[k] =>
          Held(k) \in N \/ (myTurn[k] /\ Held(k) \notin U)
    BY <1>2 DEF Held
  <2>2. \A k \in Clients : \A i \in GivenAt(k)' :
          \/ Given(k, i) \in N
          \/ i + Zero[k] \in GivenAt(k) /\ Given(k, i + Zero[k]) \notin U
    BY <1>2, <1>4 DEF GivenAt, Zero, Given, Held
  <2>3. \A k \in Clients : \A i \in UsedAt(k)' :
          \/ Used(k, i) \in N
          \/ i + Zero[k] \in UsedAt(k) /\ Used(k, i + Zero[k]) \notin U
    BY <1>4, <1>5 DEF Zero, Used, Held
  <2> HIDE DEF U, N
  <2> QED BY <1>4, <2>1, <2>2, <2>3, Shifts, TokensFrom
<1> QED BY <1>3, <1>6

\* The server hands out a turn with the last packet it sends, q being what it
\* sends before.
LEMMA PassTokens ==
  ASSUME TypeOK, TypeOK', NEW c \in Clients, NEW id, Receive(c, id),
         Consume(c), UNCHANGED myTurn, NEW U, NEW n \in Clients,
         (id \in TurnRequests /\ U = {Used(c, 1)}) \/ U = {},
         NEW q \in [Clients -> Seq(ToClient)],
         \A k \in Clients : Carried(q[k], toClient[k], 0, {"S_TAKE_TURN"})
  PROVE  /\ U \subseteq TurnTokens
         /\ toClient' = q => TokenStep(U, {})
         /\ toClient' = GiveTurn(q, n) =>
              TokenStep(U, {Given(n, Len(q[n]) + 1)})
<1>1. RequestsCarried(One(c))
  BY ReceiveCarries
<1>2. U \subseteq TurnTokens
  <2>1. toServer[c] \in Seq(ToServer) /\ toServer[c] # <<>>
    BY DEF Receive, TypeOK, TransportTypeOK
  <2>2. 1 \in DOMAIN toServer[c] /\ toServer[c][1].id = id
    BY <2>1, LenProperties, EmptySeq DEF Receive
  <2>3. id \in TurnRequests => Used(c, 1) \in TurnTokens
    BY <2>2, TokensAre DEF UsedAt
  <2> QED BY <2>3
<1>3. \A k \in Clients :
        GivenAt(k)' \subseteq Nat /\ UsedAt(k)' \subseteq Nat \ {0}
  <2>1. ASSUME NEW k \in Clients
        PROVE  GivenAt(k)' \subseteq Nat /\ UsedAt(k)' \subseteq Nat \ {0}
    <3>1. toClient'[k] \in Seq(ToClient) /\ toServer'[k] \in Seq(ToServer)
      BY DEF TypeOK, TransportTypeOK
    <3> QED BY <3>1, LenProperties DEF GivenAt, UsedAt
  <2> QED BY <2>1
<1>4. ASSUME NEW k \in Clients, NEW i \in UsedAt(k)'
      PROVE  i + One(c)[k] \in UsedAt(k) /\ Used(k, i + One(c)[k]) \notin U
  <2>1. i + One(c)[k] \in UsedAt(k)
    BY <1>1, CarriedPlaces DEF RequestsCarried
  <2>2. k = c => i + One(c)[k] # 1
    BY <1>3 DEF One
  <2> QED BY <2>1, <2>2 DEF Used
<1>5. ASSUME NEW N, \A k \in Clients : \A i \in GivenAt(k)' :
                      Given(k, i) \in N \/ i \in GivenAt(k)
      PROVE  TokenStep(U, N)
  <2>1. \A k \in Clients : myTurn'[k] =>
          Held(k) \in N \/ (myTurn[k] /\ Held(k) \notin U)
    BY DEF Held, Used
  <2>2. ASSUME NEW k \in Clients, NEW i \in GivenAt(k)'
        PROVE  \/ Given(k, i) \in N
               \/ i + Zero[k] \in GivenAt(k) /\ Given(k, i + Zero[k]) \notin U
    <3>1. i + Zero[k] = i
      BY <1>3 DEF Zero
    <3>2. Given(k, i) \notin U
      BY DEF Given, Used
    <3> QED BY <1>5, <3>1, <3>2
  <2>3. \A k \in Clients : GivenAt(k)' \subseteq Nat /\ UsedAt(k)' \subseteq Nat
    BY <1>3
  <2> QED BY <1>4, <2>1, <2>2, <2>3, Shifts, TokensFrom
<1>6. ASSUME toClient' = q
      PROVE  TokenStep(U, {})
  <2>1. \A k \in Clients : \A i \in GivenAt(k)' : i \in GivenAt(k)
    <3>1. ASSUME NEW k \in Clients, NEW i \in GivenAt(k)'
          PROVE  i + 0 \in GivenAt(k)
      BY <1>6, CarriedPlaces
    <3> QED BY <1>3, <3>1
  <2> QED BY <1>5, <2>1
<1>7. ASSUME toClient' = GiveTurn(q, n)
      PROVE  TokenStep(U, {Given(n, Len(q[n]) + 1)})
  <2>1. ASSUME NEW k \in Clients, NEW i \in GivenAt(k)'
        PROVE  Given(k, i) = Given(n, Len(q[n]) + 1) \/ i \in GivenAt(k)
    <3>1. /\ i \in DOMAIN toClient'[k] /\ toClient'[k][i].id = "S_TAKE_TURN"
          /\ i \in Nat
      BY <1>3 DEF GivenAt
    <3>2. ASSUME i \in DOMAIN q[k], q[k][i] = toClient'[k][i]
          PROVE  i \in GivenAt(k)
      BY <3>1, <3>2 DEF Carried, GivenAt
    <3>3. CASE toClient'[k] = q[k]
      BY <3>1, <3>2, <3>3
    <3>4. CASE k = n /\ toClient'[k] = Append(q[k], Plain("S_TAKE_TURN"))
      <4>1. q[k] \in Seq(ToClient) /\ Plain("S_TAKE_TURN") \in ToClient
        BY PlainType
      <4>2. /\ DOMAIN toClient'[k] = 1..(Len(q[k]) + 1)
            /\ \A j \in 1..Len(q[k]) : toClient'[k][j] = q[k][j]
            /\ DOMAIN q[k] = 1..Len(q[k])
            /\ Len(q[k]) \in Nat
        <5>1. Append(q[k], Plain("S_TAKE_TURN")) \in Seq(ToClient)
          BY <4>1, AppendProperties
        <5> QED BY <3>4, <4>1, <5>1, AppendProperties, LenProperties
      <4> QED BY <3>1, <3>2, <3>4, <4>2
    <3> QED BY <1>7, <3>3, <3>4 DEF GiveTurn, SendTo
  <2> QED BY <1>5, <2>1
<1> QED BY <1>2, <1>6, <1>7

\* The three ways in which NextTurn ends.
LEMMA NextTurnEnds ==
  ASSUME TypeOK, NEW p, NEW gs, NEW q, NextTurn(gs, p, q)
  PROVE  LET living == {k \in players : ~p[k].dead}
             n      == NextAlive(living)
         IN  \/ /\ living = {}
                /\ serverStatus' = "spinning" /\ gameState' = gs
                /\ toClient' = q /\ UNCHANGED currentPlayerTurn
             \/ /\ n \in living /\ n \in Clients
                /\ living = {n}
                /\ currentPlayerTurn' = n /\ gameState' = "GS_GAME_OVER"
                /\ toClient' = Broadcast(q, Over) /\ UNCHANGED serverStatus
             \/ /\ n \in living /\ n \in Clients
                /\ \E k \in living : k # n
                /\ currentPlayerTurn' = n /\ gameState' = gs
                /\ toClient' = GiveTurn(q, n) /\ UNCHANGED serverStatus
<1> DEFINE living == {k \in players : ~p[k].dead}
           n == NextAlive(living)
<1>1. living \in SUBSET Clients
  BY DEF TypeOK, ServerTypeOK
<1>2. living # {} => n \in living /\ n \in Clients
  <2> HIDE DEF living
  <2> QED BY <1>1, NextAliveIsAlive
<1>3. living # {} /\ living # {n} => \E k \in living : k # n
  BY <1>2
<1> HIDE DEF n
<1> QED BY <1>2, <1>3 DEF NextTurn, GameOver, n

\* The choice that arrives is entered, and passes the turn to the next player
\* of the map or opens the main game.
LEMMA ChoiceShape ==
  ASSUME TypeOK, TypeOK', NEW c \in Clients, ChoiceArrives(c)
  PROVE  LET later == Above(players, currentPlayerTurn)
             n     == Begin(later)
             q     == Broadcast(toClient, Main(player'))
         IN  /\ Receive(c, "C_JOB_CHOSEN") /\ Consume(c)
             /\ UNCHANGED <<link, players, starts, clientVars>>
             /\ \A k \in Clients : /\ player'[k].dead = player[k].dead
                                   /\ player'[k].health = player[k].health
             /\ Main(player') \in ToClient
             /\ q \in [Clients -> Seq(ToClient)]
             /\ \/ /\ later # {} /\ n \in players /\ n \in Clients
                   /\ currentPlayerTurn' = n
                   /\ toClient' = GiveTurn(toClient, n)
                   /\ UNCHANGED <<gameState, serverStatus>>
                \/ /\ later = {}
                   /\ NextTurn("GS_MAIN", player', q)
<1> DEFINE later == Above(players, currentPlayerTurn)
           n     == Begin(later)
           p     == [player EXCEPT ![c].ready = TRUE,
                                   ![c].job = Head(toServer[c]).job]
<1>1. /\ players \in SUBSET Clients
      /\ player \in [Clients -> Player] /\ player' \in [Clients -> Player]
      /\ toClient \in [Clients -> Seq(ToClient)]
  BY DEF TypeOK, ServerTypeOK, TransportTypeOK
<1>2. /\ Receive(c, "C_JOB_CHOSEN") /\ Consume(c)
      /\ UNCHANGED <<link, clientVars>>
      /\ c \in players
  BY DEF ChoiceArrives, OnPlayerJobChosen
<1>3. /\ player' = p
      /\ UNCHANGED <<players, starts>>
      /\ \/ /\ later # {}
            /\ currentPlayerTurn' = n
            /\ toClient' = GiveTurn(toClient, n)
            /\ UNCHANGED <<gameState, serverStatus>>
         \/ /\ later = {}
            /\ NextTurn("GS_MAIN", p, Broadcast(toClient, Main(p)))
  <2> HIDE DEF later, n, p
  <2> QED
    BY <1>2 DEF ChoiceArrives, OnPlayerJobChosen, StartMainGame, later, n, p
<1>4. \A k \in Clients : /\ player'[k].dead = player[k].dead
                         /\ player'[k].health = player[k].health
  BY <1>1, <1>3 DEF Player
<1>5. Main(player') \in ToClient
  BY <1>1, UpdateType
<1>6. Broadcast(toClient, Main(player')) \in [Clients -> Seq(ToClient)]
  BY <1>1, <1>2, <1>5, SendType
<1>7. later # {} => n \in players /\ n \in Clients
  <2>1. later \in SUBSET Clients /\ later \subseteq players
    BY <1>1 DEF Above
  <2> HIDE DEF later
  <2> QED BY <1>1, <2>1, BeginIsClient
<1> HIDE DEF later, n, p
<1> QED BY <1>2, <1>3, <1>4, <1>5, <1>6, <1>7 DEF later, n

\* The action that arrives changes the health of the first player who has the
\* name, tells everybody, and NextTurn runs.
LEMMA ActionShape ==
  ASSUME TypeOK, TypeOK', NEW c \in Clients, ActionArrives(c)
  PROVE  LET m      == Head(toServer[c])
             target == GetPlayerWithName(m.target)
             q      == Broadcast(toClient, HealthUpdate(player', target))
         IN  /\ Receive(c, "C_ACTION_TAKEN") /\ Consume(c)
             /\ UNCHANGED <<link, players, starts, clientVars>>
             /\ target \in players /\ Name[target] = m.target
             /\ \A j \in players : Name[j] = m.target => target <= j
             /\ \E diff \in HealthChange(m.action) :
                  player' = ModifyHealth(player, target, diff)
             /\ HealthUpdate(player', target) \in ToClient
             /\ q \in [Clients -> Seq(ToClient)]
             /\ NextTurn(gameState, player', q)
<1> DEFINE m      == Head(toServer[c])
           target == GetPlayerWithName(m.target)
<1>1. /\ players \in SUBSET Clients
      /\ player' \in [Clients -> Player]
      /\ toClient \in [Clients -> Seq(ToClient)]
  BY DEF TypeOK, ServerTypeOK, TransportTypeOK
<1>2. /\ Receive(c, "C_ACTION_TAKEN") /\ Consume(c)
      /\ UNCHANGED <<link, players, starts, clientVars>>
      /\ WithName(m.target) # {}
  BY DEF ActionArrives, OnPlayerActionTaken, Abort
<1>3. /\ target \in players /\ Name[target] = m.target
      /\ \A j \in players : Name[j] = m.target => target <= j
  <2>1. WithName(m.target) \in SUBSET Nat /\ IsFiniteSet(WithName(m.target))
    BY <1>1, ClientsAssumption, FS_Subset DEF WithName
  <2>2. /\ target \in WithName(m.target)
        /\ \A j \in WithName(m.target) : target <= j
    BY <1>2, <2>1, BeginIsLeast DEF GetPlayerWithName
  <2> QED BY <2>2 DEF WithName
<1> HIDE DEF target, m
<1>4. PICK diff \in HealthChange(m.action) :
             /\ player' = ModifyHealth(player, target, diff)
             /\ NextTurn(gameState, player',
                         Broadcast(toClient, HealthUpdate(player', target)))
  BY <1>2 DEF ActionArrives, OnPlayerActionTaken, target, m
<1>5. HealthUpdate(player', target) \in ToClient
  BY <1>1, <1>3, UpdateType
<1>6. Broadcast(toClient, HealthUpdate(player', target))
        \in [Clients -> Seq(ToClient)]
  BY <1>1, <1>3, <1>5, SendType
<1> QED BY <1>2, <1>3, <1>4, <1>5, <1>6 DEF target, m

\* What the server has sent to n when it gives n the turn ends with that.
LEMMA GivenLast ==
  ASSUME NEW q \in [Clients -> Seq(ToClient)], NEW n \in Clients
  PROVE  DOMAIN GiveTurn(q, n)[n] \subseteq 1..(Len(q[n]) + 1)
<1>1. q[n] \in Seq(ToClient) /\ Plain("S_TAKE_TURN") \in ToClient
  BY PlainType
<1>2. Append(q[n], Plain("S_TAKE_TURN")) \in Seq(ToClient)
  BY <1>1, AppendProperties
<1>3. /\ DOMAIN q[n] = 1..Len(q[n]) /\ Len(q[n]) \in Nat
      /\ DOMAIN Append(q[n], Plain("S_TAKE_TURN")) = 1..(Len(q[n]) + 1)
  BY <1>1, <1>2, AppendProperties, LenProperties
<1> QED BY <1>3 DEF GiveTurn, SendTo

\* A request that arrives is a turn, and no more than one comes of it: that of
\* currentPlayerTurn, who is told last of all; none when the game ends here.
LEMMA PassedTokens ==
  ASSUME TypeOK, TypeOK', NEW c \in Clients,
         ChoiceArrives(c) \/ ActionArrives(c)
  PROVE  /\ Used(c, 1) \in TurnTokens
         /\ \E N : /\ TokenStep({Used(c, 1)}, N)
                  /\ \/ N = {}
                     \/ /\ gameState' = "GS_GAME_OVER"
                             => gameState = "GS_GAME_OVER"
                        /\ \E i : /\ N = {Given(currentPlayerTurn', i)}
                                 /\ DOMAIN toClient'[currentPlayerTurn']
                                      \subseteq 1..i
<1> DEFINE Goal == \E N :
             /\ TokenStep({Used(c, 1)}, N)
             /\ \/ N = {}
                \/ /\ gameState' = "GS_GAME_OVER" => gameState = "GS_GAME_OVER"
                   /\ \E i : /\ N = {Given(currentPlayerTurn', i)}
                            /\ DOMAIN toClient'[currentPlayerTurn'] \subseteq 1..i
<1>0. PICK id \in TurnRequests : Receive(c, id) /\ Consume(c) /\ UNCHANGED myTurn
  BY ChoiceShape, ActionShape DEF TurnRequests, clientVars
<1>1. toClient \in [Clients -> Seq(ToClient)] /\ currentPlayerTurn \in Nat
  BY DEF TypeOK, ServerTypeOK, TransportTypeOK
<1>2. ASSUME NEW q \in [Clients -> Seq(ToClient)], NEW n \in Clients,
             \A k \in Clients : Carried(q[k], toClient[k], 0, {"S_TAKE_TURN"})
      PROVE  /\ Used(c, 1) \in TurnTokens
             /\ toClient' = q => Goal
             /\ /\ toClient' = GiveTurn(q, n)
                /\ currentPlayerTurn' = n
                /\ gameState' = "GS_GAME_OVER" => gameState = "GS_GAME_OVER"
                => Goal
  <2>1. /\ {Used(c, 1)} \subseteq TurnTokens
        /\ toClient' = q => TokenStep({Used(c, 1)}, {})
        /\ toClient' = GiveTurn(q, n) =>
             TokenStep({Used(c, 1)}, {Given(n, Len(q[n]) + 1)})
    BY <1>0, <1>2, PassTokens
  <2>2. DOMAIN GiveTurn(q, n)[n] \subseteq 1..(Len(q[n]) + 1)
    BY <1>2, GivenLast
  <2> QED BY <2>1, <2>2
<1>3. ASSUME NEW m \in ToClient, m.id # "S_TAKE_TURN"
      PROVE  LET q == Broadcast(toClient, m)
             IN  /\ q \in [Clients -> Seq(ToClient)]
                 /\ \A k \in Clients :
                      Carried(q[k], toClient[k], 0, {"S_TAKE_TURN"})
  BY <1>1, <1>3, SendType, SendCarries
<1>4. ASSUME NEW m \in ToClient, m.id # "S_TAKE_TURN", NEW gs,
             NextTurn(gs, player', Broadcast(toClient, m)),
             gs = "GS_GAME_OVER" => gameState = "GS_GAME_OVER"
      PROVE  Goal
  <2> DEFINE q == Broadcast(toClient, m)
             n == NextAlive({k \in players : ~player'[k].dead})
  <2>1. /\ q \in [Clients -> Seq(ToClient)]
        /\ \A k \in Clients : Carried(q[k], toClient[k], 0, {"S_TAKE_TURN"})
    BY <1>3, <1>4
  <2> HIDE DEF q, Goal
  <2>2. CASE toClient' = q
    BY <1>2, <2>1, <2>2
  <2>3. CASE n \in Clients /\ toClient' = Broadcast(q, Over)
    <3>1. Over \in ToClient /\ Over.id # "S_TAKE_TURN"
      BY DEF Over, ToClient
    <3> DEFINE r == Broadcast(q, Over)
    <3>2. /\ r \in [Clients -> Seq(ToClient)]
          /\ \A k \in Clients : Carried(r[k], q[k], 0, {"S_TAKE_TURN"})
      BY <2>1, <3>1, SendType, SendCarries
    <3>3. \A k \in Clients : Carried(r[k], toClient[k], 0, {"S_TAKE_TURN"})
      <4>1. ASSUME NEW k \in Clients, NEW i \in DOMAIN r[k],
                   r[k][i].id \in {"S_TAKE_TURN"}
            PROVE  i + 0 \in DOMAIN toClient[k] /\ toClient[k][i + 0] = r[k][i]
        <5>1. i \in Nat
          <6>1. r[k] \in Seq(ToClient)
            BY <3>2
          <6> HIDE DEF r
          <6> QED BY <4>1, <6>1, LenProperties
        <5>2. i + 0 \in DOMAIN q[k] /\ q[k][i + 0] = r[k][i]
          BY <3>2, <4>1 DEF Carried
        <5> QED BY <2>1, <4>1, <5>1, <5>2 DEF Carried
      <4> QED BY <4>1 DEF Carried
    <3> HIDE DEF r
    <3> QED BY <1>2, <2>3, <3>2, <3>3 DEF r
  <2>4. CASE /\ n \in Clients /\ currentPlayerTurn' = n
             /\ gameState' = gs /\ toClient' = GiveTurn(q, n)
    <3> HIDE DEF n
    <3> QED BY <1>2, <1>4, <2>1, <2>4
  <2> QED BY <1>4, <2>2, <2>3, <2>4, NextTurnEnds DEF q
<1>5. Used(c, 1) \in TurnTokens
  <2>1. \A k \in Clients : Carried(toClient[k], toClient[k], 0, {"S_TAKE_TURN"})
    BY <1>1, QueueSteps
  <2> QED BY <1>1, <1>2, <2>1
<1>6. ASSUME ChoiceArrives(c)
      PROVE  Goal
  <2> DEFINE n == Begin(Above(players, currentPlayerTurn))
  <2>1. CASE /\ n \in Clients /\ currentPlayerTurn' = n
             /\ toClient' = GiveTurn(toClient, n) /\ UNCHANGED gameState
    <3>1. \A k \in Clients : Carried(toClient[k], toClient[k], 0, {"S_TAKE_TURN"})
      BY <1>1, QueueSteps
    <3> HIDE DEF Goal, n
    <3> QED BY <1>1, <1>2, <2>1, <3>1
  <2>2. CASE NextTurn("GS_MAIN", player', Broadcast(toClient, Main(player')))
    <3>1. Main(player') \in ToClient /\ Main(player').id # "S_TAKE_TURN"
      BY <1>6, ChoiceShape DEF Main
    <3> HIDE DEF Goal
    <3> QED BY <1>4, <2>2, <3>1
  <2> HIDE DEF Goal
  <2> QED BY <1>6, <2>1, <2>2, ChoiceShape
<1>7. ASSUME ActionArrives(c)
      PROVE  Goal
  <2> DEFINE t == GetPlayerWithName(Head(toServer[c]).target)
  <2>1. HealthUpdate(player', t) \in ToClient
    BY <1>7, ActionShape
  <2>2. HealthUpdate(player', t).id # "S_TAKE_TURN"
    BY DEF HealthUpdate
  <2>3. NextTurn(gameState, player', Broadcast(toClient, HealthUpdate(player', t)))
    BY <1>7, ActionShape
  <2> HIDE DEF Goal, t
  <2> QED BY <1>4, <2>1, <2>2, <2>3
<1> QED BY <1>5, <1>6, <1>7

\* The ready that completes the lobby starts the game: everybody is told, and
\* the first player of the map last of all gets the turn.
LEMMA StartsShape ==
  ASSUME TypeOK, TypeOK', NEW c \in Clients, Starts(c)
  PROVE  LET first == Begin(players)
             q     == Broadcast(toClient, Plain("S_GAME_STARTED"))
         IN  /\ Receive(c, "C_READY") /\ Consume(c)
             /\ UNCHANGED <<link, players, serverStatus, clientVars>>
             /\ starts' = starts + 1
             /\ gameState' = "GS_CHARACTER_SELECT"
             /\ first \in players /\ first \in Clients
             /\ currentPlayerTurn' = first
             /\ \A k \in Clients : SameFate(player'[k], player[k])
             /\ Plain("S_GAME_STARTED") \in ToClient
             /\ q \in [Clients -> Seq(ToClient)]
             /\ toClient' = GiveTurn(q, first)
<1> DEFINE first == Begin(players)
           p     == GetsReady(c)
<1>1. /\ players \in SUBSET Clients /\ c \in players
      /\ player \in [Clients -> Player]
      /\ toClient \in [Clients -> Seq(ToClient)]
  BY DEF Starts, TypeOK, ServerTypeOK, TransportTypeOK
<1>2. /\ Receive(c, "C_READY") /\ Consume(c)
      /\ UNCHANGED <<link, players, serverStatus, clientVars>>
  BY DEF Starts, OnPlayerReady
<1>3. first \in players
  BY <1>1, BeginIsClient
<1>4. /\ starts' = starts + 1
      /\ gameState' = "GS_CHARACTER_SELECT"
      /\ currentPlayerTurn' = first
      /\ toClient' = GiveTurn(Broadcast(toClient, Plain("S_GAME_STARTED")), first)
      /\ player' = [k \in Clients |-> IF k \in players
                                      THEN [p[k] EXCEPT !.ready = FALSE]
                                      ELSE p[k]]
  <2> HIDE DEF p
  <2> QED BY DEF Starts, StartGame, p
<1>5. \A k \in Clients : SameFate(player'[k], player[k])
  <2>1. ASSUME NEW k \in Clients
        PROVE  p[k] \in Player /\ SameFate(p[k], player[k])
    BY <1>1 DEF SameFate, Player, GetsReady
  <2> HIDE DEF p
  <2>2. ASSUME NEW k \in Clients
        PROVE  SameFate(player'[k], p[k])
    <3>1. player'[k] \in {p[k], [p[k] EXCEPT !.ready = FALSE]}
      BY <1>4
    <3> QED BY <2>1, <3>1 DEF SameFate, Player
  <2> QED BY <2>1, <2>2 DEF SameFate
<1>6. Plain("S_GAME_STARTED") \in ToClient
  BY PlainType
<1>7. Broadcast(toClient, Plain("S_GAME_STARTED")) \in [Clients -> Seq(ToClient)]
  BY <1>1, <1>6, SendType
<1> HIDE DEF p, first
<1> QED BY <1>1, <1>2, <1>3, <1>4, <1>5, <1>6, <1>7 DEF first

\* A start of the game brings one turn, the last thing that goes to whom it
\* is given.
LEMMA StartsTokens ==
  ASSUME TypeOK, TypeOK', NEW c \in Clients, Starts(c)
  PROVE  \E i : /\ TokenStep({}, {Given(currentPlayerTurn', i)})
               /\ DOMAIN toClient'[currentPlayerTurn'] \subseteq 1..i
<1> DEFINE q == Broadcast(toClient, Plain("S_GAME_STARTED"))
           first == Begin(players)
<1>1. /\ Receive(c, "C_READY") /\ Consume(c)
      /\ UNCHANGED myTurn
      /\ first \in Clients /\ currentPlayerTurn' = first
      /\ q \in [Clients -> Seq(ToClient)]
      /\ toClient' = GiveTurn(q, first)
      /\ Plain("S_GAME_STARTED") \in ToClient
  BY StartsShape DEF clientVars
<1>2. \A k \in Clients : Carried(q[k], toClient[k], 0, {"S_TAKE_TURN"})
  <2>1. toClient \in [Clients -> Seq(ToClient)]
    BY DEF TypeOK, TransportTypeOK
  <2>2. Plain("S_GAME_STARTED").id # "S_TAKE_TURN"
    BY DEF Plain
  <2> QED BY <1>1, <2>1, <2>2, SendCarries
<1> HIDE DEF q, first
<1>3. TokenStep({}, {Given(first, Len(q[first]) + 1)})
  BY <1>1, <1>2, PassTokens
<1>4. DOMAIN toClient'[first] \subseteq 1..(Len(q[first]) + 1)
  BY <1>1, GivenLast
<1> QED BY <1>1, <1>3, <1>4

-------------------------------------------------------------------------------
(* The bound.                                                              *)

\* The starts of the game pay for the turns: finitely many are out.
TokensInv == IsFiniteSet(TurnTokens) /\ Cardinality(TurnTokens) <= starts

\* Nobody has the turn at first.
LEMMA TokensInit == Init => TokensInv
<1> SUFFICES ASSUME Init PROVE TokensInv
  OBVIOUS
<1>1. \A c \in Clients : ~myTurn[c] /\ GivenAt(c) = {} /\ UsedAt(c) = {}
  BY DEF Init, ClientInit, TransportInit, GivenAt, UsedAt
<1>2. TurnTokens = {}
  BY <1>1, TokensAre
<1> QED BY <1>2, FS_EmptySet DEF TokensInv, Init, ServerInit

\* Only a start of the game brings a turn; whatever else hands one out takes
\* one away.
LEMMA TokensStep ==
  ASSUME PlainNames, TypeOK, TypeOK', TokensInv, [Next]_vars
  PROVE  TokensInv'
<1>0. /\ IsFiniteSet(TurnTokens) /\ Cardinality(TurnTokens) <= starts
      /\ Cardinality(TurnTokens) \in Nat /\ starts \in Nat
  BY FS_CardinalityType DEF TokensInv, TypeOK, ServerTypeOK
<1>1. ASSUME starts' = starts, NEW N, NEW U,
             TokenStep(U, N),
             N = {} \/ \E n : N = {n} /\ \E u \in TurnTokens : U = {u}
      PROVE  TokensInv'
  <2>1. /\ IsFiniteSet(TurnTokens')
        /\ Cardinality(TurnTokens') <= Cardinality(TurnTokens)
    BY <1>0, <1>1, Accounting
  <2>2. Cardinality(TurnTokens') \in Nat
    BY <2>1, FS_CardinalityType
  <2>3. Cardinality(TurnTokens') <= starts'
    BY <1>0, <1>1, <2>1, <2>2
  <2> QED BY <2>1, <2>3 DEF TokensInv
<1>2. CASE QuietStep
  BY <1>1, <1>2, QuietTokens DEF QuietStep, Quiet
<1>3. ASSUME NEW c \in Clients, Starts(c)
      PROVE  TokensInv'
  <2>1. PICK n : TokenStep({}, {n})
    BY <1>3, StartsTokens
  <2>2. /\ IsFiniteSet(TurnTokens')
        /\ Cardinality(TurnTokens') <= Cardinality(TurnTokens) + 1
    BY <1>0, <2>1, Accounting
  <2>3. Cardinality(TurnTokens') \in Nat
    BY <2>2, FS_CardinalityType
  <2>4. starts' = starts + 1
    BY <1>3, StartsShape
  <2>5. Cardinality(TurnTokens') <= starts'
    BY <1>0, <2>2, <2>3, <2>4
  <2> QED BY <2>2, <2>5 DEF TokensInv
<1>4. ASSUME NEW c \in Clients, ChoiceArrives(c) \/ ActionArrives(c)
      PROVE  TokensInv'
  <2>1. starts' = starts
    BY <1>4, ChoiceShape, ActionShape
  <2>2. Used(c, 1) \in TurnTokens
    BY <1>4, PassedTokens
  <2>3. PICK N : TokenStep({Used(c, 1)}, N) /\ (N = {} \/ \E n : N = {n})
    BY <1>4, PassedTokens
  <2> QED BY <1>1, <2>1, <2>2, <2>3
<1>5. ASSUME NEW c \in Clients, Learns(c)
      PROVE  TokensInv'
  BY <1>1, <1>5, LearnsTokens DEF Learns, serverVars
<1>6. ASSUME NEW c \in Clients, TakesTurn(c)
      PROVE  TokensInv'
  BY <1>1, <1>6, TakesTurnTokens DEF TakesTurn, serverVars
<1>7. ASSUME NEW c \in Clients, UsesTurn(c)
      PROVE  TokensInv'
  BY <1>1, <1>7, UsesTurnTokens DEF UsesTurn, serverVars
<1> QED BY <1>2, <1>3, <1>4, <1>5, <1>6, <1>7, StepKinds

\* However late readies, early choices, kicks and lost clients interleave, no
\* more turns are out than the game was started times: every handler that
\* hands a turn out, but StartGame, has consumed one, and no line is acted on
\* twice (server.cpp:251-268, 282-326, 386-427; RRPG.cpp:346-391).
THEOREM TurnsBounded ==
  ASSUME PlainNames
  PROVE  Spec => []TurnTokensBounded
<1>1. TypeOK /\ TypeOK' /\ TokensInv /\ [Next]_vars => TokensInv'
  BY TokensStep
<1>2. TokensInv => TurnTokensBounded
  BY DEF TokensInv, TurnTokensBounded
<1>3. Spec => []TypeOK
  BY TypeCorrect
<1> QED BY <1>1, <1>2, <1>3, TokensInit, PTL DEF Spec

-------------------------------------------------------------------------------
(* Namesakes.                                                              *)

\* Only an action that arrives changes anybody's health, and only that of the
\* first player who has the name it aims at.
LEMMA StruckByName ==
  ASSUME TypeOK, [Next]_vars, NEW k \in players,
         player'[k].health # player[k].health
  PROVE  \A j \in players : Name[j] = Name[k] => k <= j
<1>0. player \in [Clients -> Player] /\ players \in SUBSET Clients
  BY DEF TypeOK, ServerTypeOK
<1>1. CASE UNCHANGED player
  BY <1>1
<1>2. PICK c \in Clients : PacketHandler(c)
  BY <1>1
     DEF Next, vars, serverVars, GameLoop, Connect, SetPending, ClientPackets,
         InputHandler, Environment
<1>3. CASE \E b \in BOOLEAN : player' = [player EXCEPT ![c].ready = b]
  BY <1>0, <1>3 DEF Player
<1>4. CASE OnClientIntro(c)
  BY <1>0, <1>4 DEF OnClientIntro
<1>5. CASE OnPlayerReady(c)
  <2> DEFINE p == [player EXCEPT ![c].ready = TRUE]
  <2>1. \A l \in Clients : p[l] \in Player /\ p[l].health = player[l].health
    BY <1>0 DEF Player
  <2> HIDE DEF p
  <2>2. ASSUME StartGame(p)
        PROVE  player'[k].health = p[k].health
    <3>1. player'[k] = [p[k] EXCEPT !.ready = FALSE]
      BY <1>0, <2>2 DEF StartGame
    <3> QED BY <1>0, <2>1, <3>1 DEF Player
  <2>3. Abort \/ StartGame(p) \/ player' = p
    BY <1>5 DEF OnPlayerReady, p
  <2> QED BY <1>0, <1>1, <2>1, <2>2, <2>3 DEF Abort
<1>6. CASE OnPlayerJobChosen(c)
  <2> DEFINE p == [player EXCEPT ![c].ready = TRUE,
                                 ![c].job = Head(toServer[c]).job]
  <2>1. \A l \in Clients : p[l].health = player[l].health
    BY <1>0 DEF Player
  <2> HIDE DEF p
  <2>2. Abort \/ player' = p
    BY <1>6 DEF OnPlayerJobChosen, p
  <2> QED BY <1>0, <1>1, <2>1, <2>2 DEF Abort
<1>7. CASE OnPlayerActionTaken(c)
  <2> DEFINE n == Head(toServer[c]).target
             t == GetPlayerWithName(n)
  <2>1. CASE Abort
    BY <1>1, <2>1 DEF Abort
  <2>2. ASSUME ~Abort
        PROVE  WithName(n) # {} /\ \E d : player' = ModifyHealth(player, t, d)
    <3> HIDE DEF t
    <3> QED BY <1>7, <2>2 DEF OnPlayerActionTaken, t
  <2>3. ~Abort => k = t
    <3> HIDE DEF t
    <3> QED BY <1>0, <2>2 DEF ModifyHealth
  <2>4. WithName(n) \in SUBSET Nat /\ IsFiniteSet(WithName(n))
    BY <1>0, ClientsAssumption, FS_Subset DEF WithName
  <2>5. ~Abort => t \in WithName(n) /\ \A j \in WithName(n) : t <= j
    BY <2>2, <2>4, BeginIsLeast DEF GetPlayerWithName
  <2> QED BY <2>1, <2>3, <2>5 DEF WithName
<1>8. CASE OnPlayerUnready(c)
  BY <1>1, <1>3, <1>8 DEF OnPlayerUnready, Abort
<1>9. CASE \/ OnIncomingConnection(c) \/ OnConnectionLost(c)
           \/ OnClientChatReceived(c)
           \/ OnPlayerListRequest(c) \/ OnPlayerStatsRequest(c)
  BY <1>1, <1>9
     DEF OnIncomingConnection, OnConnectionLost, OnClientChatReceived,
         OnPlayerListRequest, OnPlayerStatsRequest, serverVars, Abort
<1> QED BY <1>2, <1>4, <1>5, <1>6, <1>7, <1>8, <1>9 DEF PacketHandler

\* Blows and heals aimed at a name all land on the first player in map order
\* who has it at the time (server.cpp:332-344, 483-505).
THEOREM NamesakesUntouched == Spec => NamesakeUntouched
<1>1. TypeOK /\ [Next]_vars =>
        [\A j, k \in players :
           Name[j] = Name[k] /\ player'[k].health # player[k].health
             => k <= j]_vars
  BY StruckByName
<1>2. Spec => [][\A j, k \in players :
                    Name[j] = Name[k] /\ player'[k].health # player[k].health
                      => k <= j]_vars
  BY <1>1, TypeCorrect, PTL DEF Spec
<1> QED BY <1>2 DEF NamesakeUntouched

===============================================================================
