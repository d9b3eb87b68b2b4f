--------------------------- MODULE Refinement_proofs --------------------------
(***************************************************************************)
(* The list of players a client keeps, and what the server says of them;   *)
(* and the programs play the game of TurnGame: step by step, every         *)
(* handler, line typed and event of the network is a move at the table or  *)
(* none.                                                                   *)
(***************************************************************************)
EXTENDS Phase_proofs, Refinement

-------------------------------------------------------------------------------
(* Lists of players, the one a client has and those on their way to it, and *)
(* the blows that are still to come.                                       *)

Lists(q) == {i \in At(q, {"S_UPDATE_GAME_STATE"}) : q[i].state = "GS_MAIN"}

Places(q) == {0} \cup Lists(q)

\* The entries of a client with list v and queue q: place 0 is the list.
Entries(v, q, i) == IF i = 0 THEN v ELSE q[i].players

Blows(q, n, i) ==
  {j \in At(q, {"S_UPDATE_PLAYER_HP"}) : j > i /\ q[j].name = n}

\* An entry at place i comes to say what p says, once the blows have arrived.
ComesTo(q, i, e, p) ==
  LET B == Blows(q, e.name, i)
  IN  /\ B = {} => e.health = p.health
      /\ \A j \in B : (\A l \in B : l <= j) => q[j].health = p.health
      /\ p.dead <=> e.dead \/ \E j \in B : q[j].health <= 0
      /\ e.job = p.job

\* Steps that do not touch lists or blows.
LEMMA ListsMove ==
  ASSUME NEW r \in Seq(ToClient), NEW q \in Seq(ToClient), NEW d \in Nat,
         NEW v, Carried(r, q, d, Updates)
  PROVE  \A i \in Places(r) : \E i_0 \in Places(q) :
           /\ Entries(v, r, i) = Entries(v, q, i_0)
           /\ Kept(r, q, d, Updates) =>
                \A e, p : ComesTo(q, i_0, e, p) => ComesTo(r, i, e, p)
<1>0. /\ DOMAIN r \subseteq Nat \ {0} /\ DOMAIN q \subseteq Nat \ {0}
      /\ "S_UPDATE_GAME_STATE" \in Updates /\ "S_UPDATE_PLAYER_HP" \in Updates
  BY LenProperties DEF Updates
<1>1. ASSUME NEW i \in Places(r)
      PROVE  LET i_0 == IF i = 0 THEN 0 ELSE i + d
             IN  /\ i_0 \in Places(q)
                 /\ Entries(v, r, i) = Entries(v, q, i_0)
                 /\ Kept(r, q, d, Updates) =>
                      \A e, p : ComesTo(q, i_0, e, p) => ComesTo(r, i, e, p)
  <2> DEFINE i_0 == IF i = 0 THEN 0 ELSE i + d
  <2>1. /\ i \in Nat /\ i_0 \in Nat /\ i_0 \in Places(q)
        /\ Entries(v, r, i) = Entries(v, q, i_0)
    BY <1>0 DEF Places, Lists, At, Carried, Entries
  <2>2. ASSUME NEW n, NEW j \in Blows(r, n, i)
        PROVE  j + d \in Blows(q, n, i_0) /\ q[j + d] = r[j] /\ j \in Nat
    BY <1>0, <2>1 DEF Blows, At, Carried
  <2>3. ASSUME Kept(r, q, d, Updates), NEW n, NEW j \in Blows(q, n, i_0)
        PROVE  j - d \in Blows(r, n, i) /\ r[j - d] = q[j] /\ j \in Nat
    <3>1. j \in DOMAIN q /\ q[j].id = "S_UPDATE_PLAYER_HP"
          /\ q[j].name = n /\ j > i_0
      BY DEF Blows, At
    <3>2. j - d \in DOMAIN r /\ r[j - d] = q[j] /\ j \in Nat /\ j - d \in Nat \ {0}
      BY <1>0, <2>3, <3>1 DEF Kept
    <3>3. j - d > i
      BY <2>1, <3>1, <3>2
    <3> QED BY <3>1, <3>2, <3>3 DEF Blows, At
  <2> HIDE DEF i_0
  <2>4. ASSUME Kept(r, q, d, Updates), NEW e, NEW p, ComesTo(q, i_0, e, p)
        PROVE  ComesTo(r, i, e, p)
    <3> DEFINE n == e.name
               B == Blows(r, n, i)
               C == Blows(q, n, i_0)
    <3>1. /\ \A j \in B : j + d \in C /\ q[j + d] = r[j] /\ j \in Nat
          /\ \A j \in C : j - d \in B /\ r[j - d] = q[j] /\ j \in Nat
      <4> HIDE DEF n
      <4> QED BY <2>2, <2>3, <2>4
    <3>2. /\ C = {} => e.health = p.health
          /\ \A j \in C : (\A l \in C : l <= j) => q[j].health = p.health
          /\ p.dead <=> e.dead \/ \E j \in C : q[j].health <= 0
          /\ e.job = p.job
      BY <2>4 DEF ComesTo
    <3> HIDE DEF B, C
    <3>3. B = {} => C = {}
      BY <3>1
    <3>4. ASSUME NEW j \in B, \A l \in B : l <= j
          PROVE  r[j].health = p.health
      <4>1. \A l \in C : l <= j + d
        <5>1. ASSUME NEW l \in C
              PROVE  l <= j + d
          <6>1. l - d <= j /\ l \in Nat /\ j \in Nat
            BY <3>1, <3>4
          <6> QED BY <6>1
        <5> QED BY <5>1
      <4>2. j + d \in C /\ q[j + d] = r[j]
        BY <3>1
      <4> QED BY <3>2, <4>1, <4>2
    <3>5. (\E j \in B : r[j].health <= 0) <=> (\E j \in C : q[j].health <= 0)
      BY <3>1
    <3> QED BY <3>2, <3>3, <3>4, <3>5 DEF ComesTo, B
  <2> QED BY <2>1, <2>4 DEF i_0
<1> QED BY <1>1

\* The last message of a queue.
LEMMA AtEnd ==
  ASSUME NEW q \in Seq(ToClient), NEW m \in ToClient
  PROVE  LET r    == Append(q, m)
             last == Len(q) + 1
         IN  /\ r \in Seq(ToClient)
             /\ last \in Nat
             /\ \A R : \A i : i \in At(r, R) <=>
                  i \in At(q, R) \/ (i = last /\ m.id \in R)
             /\ \A R : \A i \in At(q, R) :
                  i \in Nat \ {0} /\ i < last /\ r[i] = q[i]
             /\ r[last] = m
<1> DEFINE r    == Append(q, m)
           last == Len(q) + 1
<1>1. /\ Len(q) \in Nat /\ DOMAIN q = 1..Len(q)
      /\ DOMAIN r = 1..last
      /\ \A i \in 1..Len(q) : r[i] = q[i]
      /\ r[last] = m
      /\ r \in Seq(ToClient)
  BY AppendProperties, LenProperties
<1>2. \A i : i \in DOMAIN r <=> i \in DOMAIN q \/ i = last
  BY <1>1
<1>3. \A i \in DOMAIN q : i \in Nat \ {0} /\ i < last /\ r[i] = q[i]
  BY <1>1
<1> HIDE DEF r, last
<1>4. last \in Nat
  BY <1>1 DEF last
<1> QED BY <1>1, <1>2, <1>3, <1>4 DEF At, r, last

\* A blow is announced to a client: whoever has the name comes to have the
\* health it gives.
LEMMA BlowSent ==
  ASSUME NEW q \in Seq(ToClient), NEW m \in ToClient,
         m.id = "S_UPDATE_PLAYER_HP", NEW v
  PROVE  LET r == Append(q, m)
         IN  /\ Places(r) = Places(q)
             /\ \A i \in Places(r) :
                  /\ Entries(v, r, i) = Entries(v, q, i)
                  /\ \A e, p : e.name # m.name /\ ComesTo(q, i, e, p)
                                 => ComesTo(r, i, e, p)
                  /\ \A e, p, p_1 :
                       /\ e.name = m.name
                       /\ ComesTo(q, i, e, p)
                       /\ p_1.health = m.health /\ p_1.job = p.job
                       /\ p_1.dead <=> p.dead \/ m.health <= 0
                       => ComesTo(r, i, e, p_1)
<1> DEFINE r    == Append(q, m)
           last == Len(q) + 1
<1>1. /\ last \in Nat
      /\ \A R : \A i : i \in At(r, R) <=>
           i \in At(q, R) \/ (i = last /\ m.id \in R)
      /\ \A R : \A i \in At(q, R) :
           i \in Nat \ {0} /\ i < last /\ r[i] = q[i]
      /\ r[last] = m
      /\ Len(q) \in Nat
  BY AtEnd, LenProperties
<1>9. last > 0
  BY <1>1
<1> HIDE DEF r, last
<1>2. Lists(r) = Lists(q)
  BY <1>1 DEF Lists
<1>3. \A i \in Places(q) : i \in Nat /\ i < last
  BY <1>1, <1>9 DEF Places, Lists
<1>4. ASSUME NEW i \in Places(q)
      PROVE  Entries(v, r, i) = Entries(v, q, i)
  BY <1>1 DEF Entries, Places, Lists
<1>5. ASSUME NEW i \in Places(q), NEW n
      PROVE  /\ n # m.name => Blows(r, n, i) = Blows(q, n, i)
             /\ n = m.name => Blows(r, n, i) = Blows(q, n, i) \cup {last}
             /\ \A j \in Blows(q, n, i) : r[j] = q[j] /\ j \in Nat /\ j < last
  BY <1>1, <1>3 DEF Blows
<1>6. ASSUME NEW i \in Places(q), NEW e, NEW p, NEW p_1,
             e.name = m.name, ComesTo(q, i, e, p),
             p_1.health = m.health, p_1.job = p.job,
             p_1.dead <=> p.dead \/ m.health <= 0
      PROVE  ComesTo(r, i, e, p_1)
  <2> DEFINE B == Blows(q, e.name, i)
             C == Blows(r, e.name, i)
  <2>1. /\ C = B \cup {last}
        /\ \A j \in B : r[j] = q[j] /\ j \in Nat /\ j < last
    BY <1>5, <1>6
  <2>2. /\ p.dead <=> e.dead \/ \E j \in B : q[j].health <= 0
        /\ e.job = p.job
    BY <1>6 DEF ComesTo
  <2> HIDE DEF B, C
  <2>3. ASSUME NEW j \in C, \A l \in C : l <= j
        PROVE  r[j].health = p_1.health
    <3>1. j = last
      BY <1>1, <2>1, <2>3
    <3> QED BY <1>1, <1>6, <3>1
  <2>4. (\E j \in C : r[j].health <= 0) <=>
          (\E j \in B : q[j].health <= 0) \/ m.health <= 0
    BY <1>1, <2>1
  <2> QED BY <1>6, <2>1, <2>2, <2>3, <2>4 DEF ComesTo, C
<1>7. ASSUME NEW i \in Places(q), NEW e, NEW p,
             e.name # m.name, ComesTo(q, i, e, p)
      PROVE  ComesTo(r, i, e, p)
  <2> DEFINE B == Blows(q, e.name, i)
             C == Blows(r, e.name, i)
  <2>1. C = B /\ \A j \in B : r[j] = q[j]
    BY <1>5, <1>7
  <2>2. /\ B = {} => e.health = p.health
        /\ \A j \in B : (\A l \in B : l <= j) => q[j].health = p.health
        /\ p.dead <=> e.dead \/ \E j \in B : q[j].health <= 0
        /\ e.job = p.job
    BY <1>7 DEF ComesTo
  <2> HIDE DEF B, C
  <2> QED BY <2>1, <2>2 DEF ComesTo, C
<1> QED BY <1>2, <1>4, <1>6, <1>7 DEF Places, r

\* A list is announced to a client, the first.
LEMMA ListSent ==
  ASSUME NEW q \in Seq(ToClient), NEW m \in ToClient,
         m.id = "S_UPDATE_GAME_STATE", NEW v
  PROVE  LET r == Append(q, m)
         IN  \A i \in Places(r) :
               \/ i \in Places(q) /\ Entries(v, r, i) = Entries(v, q, i)
               \/ /\ Entries(v, r, i) = m.players
                  /\ \A n : Blows(r, n, i) = {}
<1> DEFINE r    == Append(q, m)
           last == Len(q) + 1
<1>1. /\ last \in Nat
      /\ \A R : \A i : i \in At(r, R) <=>
           i \in At(q, R) \/ (i = last /\ m.id \in R)
      /\ \A R : \A i \in At(q, R) :
           i \in Nat \ {0} /\ i < last /\ r[i] = q[i]
      /\ r[last] = m
      /\ Len(q) \in Nat
  BY AtEnd, LenProperties
<1>2. last # 0
  BY <1>1
<1> HIDE DEF r, last
<1>3. ASSUME NEW i \in Lists(r), i # last
      PROVE  i \in Places(q) /\ Entries(v, r, i) = Entries(v, q, i)
  BY <1>1, <1>3 DEF Places, Entries, Lists
<1>4. Entries(v, r, last) = m.players /\ \A n : Blows(r, n, last) = {}
  BY <1>1, <1>2 DEF Entries, Blows
<1>5. 0 \in Places(q) /\ Entries(v, r, 0) = Entries(v, q, 0)
  BY DEF Places, Entries
<1> QED BY <1>3, <1>4, <1>5 DEF Places, r

\* A client takes the message at the head of its queue: what it says goes
\* into the list, and everything else moves up.
LEMMA HeadTaken ==
  ASSUME NEW q \in Seq(ToClient), q # <<>>
  PROVE  LET m == Head(q)
             r == Tail(q)
         IN  /\ \A i \in Lists(r) : i + 1 \in Lists(q) /\ q[i + 1] = r[i]
                                    /\ i \in Nat \ {0}
             /\ m.id = "S_UPDATE_GAME_STATE" /\ m.state = "GS_MAIN" =>
                  1 \in Lists(q) /\ q[1] = m
             /\ \A i \in Nat : \A e, p :
                  ComesTo(q, i + 1, e, p) => ComesTo(r, i, e, p)
             /\ \A e \in Entry : \A p :
                  ComesTo(q, 0, e, p) =>
                    ComesTo(q, 1,
                            IF m.id = "S_UPDATE_PLAYER_HP" /\ e.name = m.name
                            THEN UpdatedEntry(e, m.health) ELSE e, p)
<1> DEFINE m == Head(q)
           r == Tail(q)
<1>1. /\ Len(q) \in Nat /\ DOMAIN q = 1..Len(q) /\ Len(q) >= 1
      /\ DOMAIN r = 1..(Len(q) - 1)
      /\ \A i \in 1..(Len(q) - 1) : r[i] = q[i + 1]
      /\ m = q[1]
      /\ r \in Seq(ToClient)
  BY LenProperties, HeadTailProperties
<1> HIDE DEF r, m
<1>2. \A R : \A i \in At(r, R) :
        i + 1 \in At(q, R) /\ q[i + 1] = r[i] /\ i \in Nat \ {0}
  BY <1>1 DEF At
<1>3. \A R : \A i \in At(q, R) :
        /\ i \in Nat
        /\ i = 1 \/ (i > 1 /\ i - 1 \in At(r, R) /\ r[i - 1] = q[i])
  <2>1. ASSUME NEW R, NEW i \in At(q, R), i # 1
        PROVE  i > 1 /\ i - 1 \in At(r, R) /\ r[i - 1] = q[i]
    <3>1. i - 1 \in 1..(Len(q) - 1) /\ (i - 1) + 1 = i
      BY <1>1, <2>1 DEF At
    <3> QED BY <1>1, <2>1, <3>1 DEF At
  <2> QED BY <1>1, <2>1 DEF At
<1>4. \A R : 1 \in At(q, R) <=> m.id \in R
  BY <1>1 DEF At
<1>5. ASSUME NEW i \in Nat, NEW e, NEW p, ComesTo(q, i + 1, e, p)
      PROVE  ComesTo(r, i, e, p)
  <2> DEFINE n == e.name
             B == Blows(r, n, i)
             C == Blows(q, n, i + 1)
  <2>1. /\ \A j \in B : j + 1 \in C /\ q[j + 1] = r[j] /\ j \in Nat
        /\ \A j \in C : j - 1 \in B /\ r[j - 1] = q[j] /\ j \in Nat
    <3> HIDE DEF n
    <3>1. ASSUME NEW j \in B
          PROVE  j + 1 \in C /\ q[j + 1] = r[j] /\ j \in Nat
      BY <1>2 DEF Blows
    <3>2. ASSUME NEW j \in C
          PROVE  j - 1 \in B /\ r[j - 1] = q[j] /\ j \in Nat
      <4>1. j \in At(q, {"S_UPDATE_PLAYER_HP"}) /\ j > i + 1 /\ q[j].name = n
        BY DEF Blows
      <4>2. j \in Nat /\ j # 1
        BY <1>3, <4>1
      <4> QED BY <1>3, <4>1, <4>2 DEF Blows
    <3> QED BY <3>1, <3>2
  <2>2. /\ C = {} => e.health = p.health
        /\ \A j \in C : (\A l \in C : l <= j) => q[j].health = p.health
        /\ p.dead <=> e.dead \/ \E j \in C : q[j].health <= 0
        /\ e.job = p.job
    BY <1>5 DEF ComesTo
  <2> HIDE DEF B, C
  <2>3. B = {} => C = {}
    BY <2>1
  <2>4. ASSUME NEW j \in B, \A l \in B : l <= j
        PROVE  r[j].health = p.health
    <3>1. ASSUME NEW l \in C
          PROVE  l <= j + 1
      <4>1. l - 1 <= j /\ l \in Nat /\ j \in Nat
        BY <2>1, <2>4
      <4> QED BY <4>1
    <3> QED BY <2>1, <2>2, <3>1
  <2>5. (\E j \in B : r[j].health <= 0) <=> (\E j \in C : q[j].health <= 0)
    BY <2>1
  <2> QED BY <2>2, <2>3, <2>4, <2>5 DEF ComesTo, B
<1>6. ASSUME NEW e \in Entry, NEW p, ComesTo(q, 0, e, p)
      PROVE  ComesTo(q, 1,
                     IF m.id = "S_UPDATE_PLAYER_HP" /\ e.name = m.name
                     THEN UpdatedEntry(e, m.health) ELSE e, p)
  <2> DEFINE n == e.name
             B == Blows(q, n, 0)
             C == Blows(q, n, 1)
  <2>1. /\ B = {} => e.health = p.health
        /\ \A j \in B : (\A l \in B : l <= j) => q[j].health = p.health
        /\ p.dead <=> e.dead \/ \E j \in B : q[j].health <= 0
        /\ e.job = p.job
    BY <1>6 DEF ComesTo
  <2>2. /\ C = B \ {1}
        /\ 1 \in B <=> m.id = "S_UPDATE_PLAYER_HP" /\ e.name = m.name
        /\ \A j \in B : j \in Nat \ {0}
    <3>1. \A j \in At(q, {"S_UPDATE_PLAYER_HP"}) : j \in Nat /\ j >= 1
      BY <1>3
    <3>2. 1 \in B <=> m.id = "S_UPDATE_PLAYER_HP" /\ e.name = m.name
      BY <1>1, <1>4 DEF Blows
    <3>3. \A j \in B : j \in Nat \ {0}
      BY <3>1 DEF Blows
    <3>4. C = B \ {1}
      BY <3>1 DEF Blows
    <3> QED BY <3>2, <3>3, <3>4
  <2>3. CASE 1 \notin B
    <3>1. C = B
      BY <2>2, <2>3
    <3> QED BY <1>6, <2>2, <2>3, <3>1 DEF ComesTo
  <2>4. CASE 1 \in B
    <3> DEFINE u == UpdatedEntry(e, m.health)
    <3>1. /\ m.id = "S_UPDATE_PLAYER_HP" /\ e.name = m.name
          /\ q[1] = m
      BY <1>1, <2>2, <2>4
    <3>2. /\ u.name = e.name /\ u.job = e.job /\ u.health = m.health
          /\ u.dead <=> e.dead \/ m.health <= 0
      BY DEF UpdatedEntry, Entry
    <3> HIDE DEF u, B, C
    <3>3. ASSUME C = {}
          PROVE  u.health = p.health
      <4>1. B = {1}
        BY <2>2, <2>4, <3>3
      <4> QED BY <2>1, <3>1, <3>2, <4>1
    <3>4. ASSUME NEW j \in C, \A l \in C : l <= j
          PROVE  q[j].health = p.health
      <4>1. \A l \in B : l <= j
        BY <2>2, <3>4
      <4> QED BY <2>1, <2>2, <4>1
    <3>5. p.dead <=> u.dead \/ \E j \in C : q[j].health <= 0
      <4>1. (\E j \in B : q[j].health <= 0) <=>
              m.health <= 0 \/ \E j \in C : q[j].health <= 0
        BY <2>2, <2>4, <3>1
      <4> QED BY <2>1, <3>2, <4>1
    <3> QED BY <2>1, <3>1, <3>2, <3>3, <3>4, <3>5 DEF ComesTo, C, u
  <2> QED BY <2>3, <2>4
<1>7. \A i \in Lists(r) : i + 1 \in Lists(q) /\ q[i + 1] = r[i] /\ i \in Nat \ {0}
  BY <1>2 DEF Lists
<1>8. m.id = "S_UPDATE_GAME_STATE" /\ m.state = "GS_MAIN" =>
        1 \in Lists(q) /\ q[1] = m
  BY <1>1, <1>4 DEF Lists
<1> QED BY <1>5, <1>6, <1>7, <1>8 DEF m, r

-------------------------------------------------------------------------------
(* The invariant.                                                          *)

NoEntries(c) ==
  \A i \in Places(toClient[c]) : Entries(view[c], toClient[c], i) = {}

\* What c knows, or will, of a player nobody shares the name of.
ListsComeTrue(c) ==
  Open(c) =>
    \A i \in Places(toClient[c]) :
      \A e \in Entries(view[c], toClient[c], i), k \in players :
        Name[k] = e.name /\ Unique(k) => ComesTo(toClient[c], i, e, player[k])

\* Whoever an action aims at is alive when it arrives.
AimsAtTheLiving(c) ==
  \A i \in UsedAt(c) :
    toServer[c][i].id = "C_ACTION_TAKEN" =>
      \A k \in players :
        Name[k] = toServer[c][i].target /\ Unique(k) => ~player[k].dead

DeadByHealth ==
  \A k \in players : Unique(k) => (player[k].dead <=> player[k].health <= 0)

Told ==
  /\ DeadByHealth
  /\ \A c \in Clients : ListsComeTrue(c) /\ AimsAtTheLiving(c)

BeforeTheLists ==
  starts = 0 \/ (starts = 1 /\ gameState = "GS_CHARACTER_SELECT")

ListInv ==
  /\ BeforeTheLists => \A c \in Clients : NoEntries(c)
  /\ starts <= 1 => Told

ViewInv == OnceInv /\ TurnInv /\ ListInv

\* In the first state no client has a list and nobody has been struck.
LEMMA ListInit == Init => ListInv
<1> SUFFICES ASSUME Init PROVE ListInv
  OBVIOUS
<1>1. ASSUME NEW c \in Clients
      PROVE  /\ UsedAt(c) = {} /\ Places(toClient[c]) = {0}
             /\ Entries(view[c], toClient[c], 0) = {}
  BY DEF Init, ClientInit, TransportInit, UsedAt, Places, Lists, At, Entries
<1>2. players = {}
  BY DEF Init, ServerInit
<1> QED
  BY <1>1, <1>2
     DEF ListInv, Told, DeadByHealth, NoEntries, ListsComeTrue, AimsAtTheLiving

\* Whoever a client has in a list is in the server's map, or was joined there
\* by somebody of that name.
LEMMA EntriesKnown ==
  ASSUME TypeOK, TurnInv, NEW c \in Clients, NEW i \in Places(toClient[c]),
         NEW e \in Entries(view[c], toClient[c], i)
  PROVE  Known(e.name)
<1>1. CASE i = 0
  BY <1>1 DEF TurnInv, Entries
<1>2. CASE i # 0
  <2>1. /\ i \in DOMAIN toClient[c] /\ toClient[c][i].state = "GS_MAIN"
        /\ toClient[c][i].id = "S_UPDATE_GAME_STATE"
        /\ e \in toClient[c][i].players
    BY <1>2 DEF Places, Lists, At, Entries
  <2>2. toClient[c][i] \in News(c)
    BY <2>1, ElementOfSeq, LenProperties DEF TurnInv
  <2> QED BY <2>1, <2>2 DEF News
<1> QED BY <1>1, <1>2

\* It is by health, death and character that an entry comes to a player.
LEMMA SameComes ==
  ASSUME NEW q, NEW i, NEW e, NEW p, NEW p_1, ComesTo(q, i, e, p),
         SameFate(p_1, p)
  PROVE  ComesTo(q, i, e, p_1)
<1>1. p_1.health = p.health /\ p_1.dead = p.dead /\ p_1.job = p.job
  BY DEF SameFate
<1> DEFINE B == Blows(q, e.name, i)
<1>2. /\ B = {} => e.health = p.health
      /\ \A j \in B : (\A l \in B : l <= j) => q[j].health = p.health
      /\ p.dead <=> e.dead \/ \E j \in B : q[j].health <= 0
      /\ e.job = p.job
  BY DEF ComesTo
<1> HIDE DEF B
<1> QED BY <1>1, <1>2 DEF ComesTo, B

\* Steps in which the server's records stay, but for newcomers.
LEMMA RecordsStay ==
  ASSUME TypeOK, TypeOK', TurnInv,
         players \subseteq players',
         \A k \in Clients :
           IF k \in players' \ players THEN player'[k] = NewPlayer
                                       ELSE SameFate(player'[k], player[k])
  PROVE  /\ DeadByHealth => DeadByHealth'
         /\ \A c \in Clients : \A i \in Places(toClient[c]) :
              \A e \in Entries(view[c], toClient[c], i), k \in players' :
                Name[k] = e.name /\ Unique(k)' =>
                  /\ k \in players /\ Unique(k)
                  /\ SameFate(player'[k], player[k])
         /\ \A k \in players' : Unique(k)' /\ k \in players =>
              Unique(k) /\ SameFate(player'[k], player[k])
         /\ \A k \in players' : k \notin players =>
              ~player'[k].dead /\ player'[k].health > 0
<1>0. players \in SUBSET Clients /\ players' \in SUBSET Clients
  BY DEF TypeOK, ServerTypeOK
<1>1. \A k \in players' : k \notin players =>
        ~player'[k].dead /\ player'[k].health > 0
  BY <1>0, GameAssumption DEF NewPlayer
<1>2. \A k \in players' : Unique(k)' /\ k \in players =>
        Unique(k) /\ SameFate(player'[k], player[k])
  BY <1>0 DEF Unique
<1>3. ASSUME NEW c \in Clients, NEW i \in Places(toClient[c]),
             NEW e \in Entries(view[c], toClient[c], i), NEW k \in players',
             Name[k] = e.name, Unique(k)'
      PROVE  k \in players
  <2>1. PICK j \in players : Name[j] = e.name
    BY EntriesKnown DEF Known, WithName
  <2> QED BY <1>3, <2>1 DEF Unique
<1>4. DeadByHealth => DeadByHealth'
  <2>1. ASSUME DeadByHealth, NEW k \in players', Unique(k)'
        PROVE  player'[k].dead <=> player'[k].health <= 0
    <3>1. CASE k \in players
      BY <1>2, <2>1, <3>1 DEF DeadByHealth, SameFate
    <3>2. CASE k \notin players
      <4>1. player'[k].health \in Int
        BY <1>0 DEF TypeOK, ServerTypeOK, Player
      <4> QED BY <1>1, <3>2, <4>1
    <3> QED BY <3>1, <3>2
  <2> QED BY <2>1 DEF DeadByHealth
<1> QED BY <1>1, <1>2, <1>3, <1>4

\* A quiet step brings no list and no blow.
LEMMA QuietList ==
  ASSUME TypeOK, TypeOK', FreshInv, TurnInv, ListInv, QuietStep
  PROVE  ListInv'
<1>1. PICK ds \in [Clients -> Nat], dc \in [Clients -> Nat] : Quiet(ds, dc)
  BY DEF QuietStep
<1>2. /\ UNCHANGED <<gameState, starts, view>>
      /\ players \subseteq players'
      /\ \A k \in Clients :
           IF k \in players' \ players THEN player'[k] = NewPlayer
                                       ELSE SameFate(player'[k], player[k])
  BY <1>1 DEF Quiet
<1>3. ASSUME NEW c \in Clients
      PROVE  \A i \in Places(toClient'[c]) : \E i_0 \in Places(toClient[c]) :
               /\ Entries(view'[c], toClient'[c], i) =
                    Entries(view[c], toClient[c], i_0)
               /\ link'[c] = "open" => \A e, p :
                    ComesTo(toClient[c], i_0, e, p)
                      => ComesTo(toClient'[c], i, e, p)
  <2> DEFINE q == toClient[c]
             r == toClient'[c]
             d == dc[c]
  <2>1. /\ q \in Seq(ToClient) /\ r \in Seq(ToClient) /\ d \in Nat
        /\ Carried(r, q, d, Signals)
        /\ link'[c] = "open" => Kept(r, q, d, Signals)
    BY <1>1 DEF TypeOK, TransportTypeOK, Quiet, SignalsCarried, SignalsKept
  <2>2. /\ Carried(r, q, d, Updates)
        /\ link'[c] = "open" => Kept(r, q, d, Updates)
    BY <2>1 DEF Carried, Kept, Signals, Moves
  <2> HIDE DEF q, r, d
  <2>3. \A i \in Places(r) : \E i_0 \in Places(q) :
          /\ Entries(view[c], r, i) = Entries(view[c], q, i_0)
          /\ Kept(r, q, d, Updates) =>
               \A e, p : ComesTo(q, i_0, e, p) => ComesTo(r, i, e, p)
    BY <2>1, <2>2, ListsMove
  <2> QED BY <1>2, <2>2, <2>3 DEF q, r
<1>4. BeforeTheLists => \A c \in Clients : NoEntries(c)'
  <2>1. ASSUME NEW c \in Clients, NoEntries(c)
        PROVE  NoEntries(c)'
    BY <1>3, <2>1 DEF NoEntries
  <2> QED BY <2>1 DEF ListInv
<1>5. ASSUME Told
      PROVE  Told'
  <2>1. DeadByHealth'
    BY <1>2, <1>5, RecordsStay DEF Told
  <2>2. ASSUME NEW c \in Clients
        PROVE  ListsComeTrue(c)'
    <3>1. ASSUME link'[c] = "open", NEW i \in Places(toClient'[c]),
                 NEW e \in Entries(view'[c], toClient'[c], i),
                 NEW k \in players', Name[k] = e.name, Unique(k)'
          PROVE  ComesTo(toClient'[c], i, e, player'[k])
      <4>1. PICK i_0 \in Places(toClient[c]) :
                   /\ e \in Entries(view[c], toClient[c], i_0)
                   /\ \A p : ComesTo(toClient[c], i_0, e, p)
                               => ComesTo(toClient'[c], i, e, p)
        BY <1>3, <3>1
      <4>2. /\ k \in players /\ Unique(k)
            /\ SameFate(player'[k], player[k])
        BY <1>2, <3>1, <4>1, RecordsStay
      <4>3. link[c] = "open"
        <5>1. link[c] \in {"open", "connecting"}
          BY <1>1, <3>1 DEF Quiet
        <5>2. link[c] = "connecting" =>
                Places(toClient[c]) = {0} /\ view[c] = {}
          BY DEF FreshInv, Fresh, Untouched, Places, Lists, At
        <5> QED BY <4>1, <5>1, <5>2 DEF Entries
      <4>4. ComesTo(toClient[c], i_0, e, player[k])
        BY <1>5, <3>1, <4>1, <4>2, <4>3 DEF Told, ListsComeTrue, Open
      <4> QED BY <4>1, <4>2, <4>4, SameComes
    <3> QED BY <3>1 DEF ListsComeTrue, Open
  <2>3. ASSUME NEW c \in Clients
        PROVE  AimsAtTheLiving(c)'
    <3>1. Carried(toServer'[c], toServer[c], ds[c], TurnRequests)
      BY <1>1 DEF Quiet, RequestsCarried
    <3>2. \A i \in UsedAt(c)' : /\ i + ds[c] \in UsedAt(c)
                                /\ toServer[c][i + ds[c]] = toServer'[c][i]
      BY <3>1 DEF Carried, UsedAt
    <3>3. ASSUME NEW i \in UsedAt(c)',
                 toServer'[c][i].id = "C_ACTION_TAKEN",
                 NEW k \in players', Name[k] = toServer'[c][i].target, Unique(k)'
          PROVE  ~player'[k].dead
      <4>1. CASE k \in players
        <5>1. Unique(k) /\ SameFate(player'[k], player[k])
          BY <1>2, <3>3, <4>1, RecordsStay
        <5>2. ~player[k].dead
          BY <1>5, <3>2, <3>3, <4>1, <5>1 DEF Told, AimsAtTheLiving
        <5> QED BY <5>1, <5>2 DEF SameFate
      <4>2. CASE k \notin players
        BY <1>2, <3>3, <4>2, RecordsStay
      <4> QED BY <4>1, <4>2
    <3> QED BY <3>3 DEF AimsAtTheLiving
  <2> QED BY <2>1, <2>2, <2>3 DEF Told
<1> QED BY <1>2, <1>4, <1>5 DEF ListInv, BeforeTheLists

\* What a client makes of the message it takes: every entry it then has, or
\* will have, comes from one it had.
LEMMA EntriesTaken ==
  ASSUME TypeOK, NEW c \in Clients,
         \/ OnGameStart(c) \/ OnGameStateUpdate(c)
         \/ OnPlayersHealthUpdated(c) \/ OnTakeTurn(c)
  PROVE  \A k \in Clients :
           \A i \in Places(toClient'[k]) :
             \A e \in Entries(view'[k], toClient'[k], i) :
               \E i_0 \in Places(toClient[k]) :
                 \E e_0 \in Entries(view[k], toClient[k], i_0) :
                   /\ e_0.name = e.name
                   /\ \A p : ComesTo(toClient[k], i_0, e_0, p)
                               => ComesTo(toClient'[k], i, e, p)
<1>0. /\ toClient \in [Clients -> Seq(ToClient)]
      /\ view \in [Clients -> SUBSET Entry]
  BY DEF TypeOK, TransportTypeOK, ClientTypeOK
<1> DEFINE q == toClient[c]
           m == Head(q)
           r == Tail(q)
           After(e) == IF m.id = "S_UPDATE_PLAYER_HP" /\ e.name = m.name
                       THEN UpdatedEntry(e, m.health) ELSE e
<1>1. /\ q \in Seq(ToClient) /\ q # <<>>
      /\ toClient' = [toClient EXCEPT ![c] = r]
  BY <1>0
     DEF OnGameStart, OnGameStateUpdate, OnPlayersHealthUpdated, OnTakeTurn,
         Take
<1>2. /\ \A k \in Clients : k # c => view'[k] = view[k]
      /\ \A e \in view'[c] :
           \/ \E e_0 \in view[c] : e = After(e_0)
           \/ /\ m.id = "S_UPDATE_GAME_STATE" /\ m.state = "GS_MAIN"
              /\ e \in m.players
  <2>1. CASE OnPlayersHealthUpdated(c)
    <3>1. /\ m.id = "S_UPDATE_PLAYER_HP"
          /\ view' = [view EXCEPT ![c] =
               {IF e.name = m.name THEN UpdatedEntry(e, m.health) ELSE e :
                  e \in view[c]}]
      BY <2>1 DEF OnPlayersHealthUpdated, Take
    <3> HIDE DEF m
    <3> QED BY <1>0, <3>1
  <2>2. CASE OnGameStateUpdate(c)
    <3>1. /\ m.id = "S_UPDATE_GAME_STATE"
          /\ view' = IF m.state = "GS_MAIN"
                     THEN [view EXCEPT ![c] = view[c] \cup m.players]
                     ELSE view
      BY <2>2 DEF OnGameStateUpdate, Take
    <3> HIDE DEF m
    <3> QED BY <1>0, <3>1
  <2>3. CASE OnGameStart(c) \/ OnTakeTurn(c)
    <3>1. m.id # "S_UPDATE_PLAYER_HP" /\ view' = view
      BY <2>3 DEF OnGameStart, OnTakeTurn, Take
    <3> HIDE DEF m
    <3> QED BY <1>0, <3>1
  <2> QED BY <2>1, <2>2, <2>3
<1>3. /\ \A i \in Lists(r) : i + 1 \in Lists(q) /\ q[i + 1] = r[i]
                             /\ i \in Nat \ {0}
      /\ m.id = "S_UPDATE_GAME_STATE" /\ m.state = "GS_MAIN" =>
           1 \in Lists(q) /\ q[1] = m
      /\ \A i \in Nat : \A e, p :
           ComesTo(q, i + 1, e, p) => ComesTo(r, i, e, p)
      /\ \A e \in Entry : \A p :
           ComesTo(q, 0, e, p) => ComesTo(q, 1, After(e), p)
  BY <1>1, HeadTaken
<1>4. \A e \in Entry : After(e).name = e.name
  BY DEF UpdatedEntry, Entry
<1> HIDE DEF After
<1>5. ASSUME NEW i \in Places(r), NEW e \in Entries(view'[c], r, i)
      PROVE  \E i_0 \in Places(q) : \E e_0 \in Entries(view[c], q, i_0) :
               /\ e_0.name = e.name
               /\ \A p : ComesTo(q, i_0, e_0, p) => ComesTo(r, i, e, p)
  <2> HIDE DEF q, m, r
  <2>1. CASE i # 0
    <3>1. i + 1 \in Places(q) /\ e \in Entries(view[c], q, i + 1) /\ i \in Nat
      BY <1>3, <1>5, <2>1 DEF Places, Entries
    <3> QED BY <1>3, <3>1
  <2>2. ASSUME i = 0, NEW e_0 \in view[c], e = After(e_0)
        PROVE  \E i_0 \in Places(q) : \E e_1 \in Entries(view[c], q, i_0) :
                 /\ e_1.name = e.name
                 /\ \A p : ComesTo(q, i_0, e_1, p) => ComesTo(r, i, e, p)
    <3>1. e_0 \in Entry /\ 0 \in Places(q) /\ e_0 \in Entries(view[c], q, 0)
      BY <1>0, <2>2 DEF Places, Entries
    <3>2. \A p : ComesTo(q, 0, e_0, p) => ComesTo(q, 1, e, p)
      BY <1>3, <2>2, <3>1
    <3>3. \A p : ComesTo(q, 1, e, p) => ComesTo(r, 0, e, p)
      <4>1. 0 \in Nat /\ 0 + 1 = 1
        OBVIOUS
      <4>2. \A e_2, p : ComesTo(q, 0 + 1, e_2, p) => ComesTo(r, 0, e_2, p)
        BY <1>3, <4>1
      <4> QED BY <4>1, <4>2
    <3>4. e_0.name = e.name
      BY <1>4, <2>2, <3>1
    <3> QED BY <2>2, <3>1, <3>2, <3>3, <3>4
  <2>3. CASE /\ i = 0 /\ e \in m.players
             /\ m.id = "S_UPDATE_GAME_STATE" /\ m.state = "GS_MAIN"
    <3>1. 1 \in Places(q) /\ e \in Entries(view[c], q, 1)
      BY <1>3, <2>3 DEF Places, Entries
    <3>2. \A p : ComesTo(q, 1, e, p) => ComesTo(r, 0, e, p)
      <4>1. 0 \in Nat /\ 0 + 1 = 1
        OBVIOUS
      <4>2. \A e_2, p : ComesTo(q, 0 + 1, e_2, p) => ComesTo(r, 0, e_2, p)
        BY <1>3, <4>1
      <4> QED BY <4>1, <4>2
    <3> QED BY <2>3, <3>1, <3>2
  <2>4. i = 0 => e \in view'[c]
    BY <1>5 DEF Entries
  <2> QED BY <1>2, <2>1, <2>2, <2>3, <2>4
<1>6. ASSUME NEW k \in Clients, k # c
      PROVE  toClient'[k] = toClient[k] /\ view'[k] = view[k]
  BY <1>0, <1>1, <1>2, <1>6
<1>7. toClient'[c] = r
  BY <1>0, <1>1
<1> HIDE DEF q, r
<1> QED BY <1>5, <1>6, <1>7 DEF q

\* Steps of a client after which every entry comes from one before.
LEMMA ListsKept ==
  ASSUME UNCHANGED serverVars, UNCHANGED link,
         NEW c \in Clients,
         \A i \in Places(toClient'[c]) :
           \A e \in Entries(view'[c], toClient'[c], i) :
             \E i_0 \in Places(toClient[c]) :
               \E e_0 \in Entries(view[c], toClient[c], i_0) :
                 /\ e_0.name = e.name
                 /\ \A p : ComesTo(toClient[c], i_0, e_0, p)
                             => ComesTo(toClient'[c], i, e, p)
  PROVE  /\ NoEntries(c) => NoEntries(c)'
         /\ ListsComeTrue(c) => ListsComeTrue(c)'
<1>1. players' = players /\ player' = player
  BY DEF serverVars
<1>2. NoEntries(c) => NoEntries(c)'
  BY DEF NoEntries
<1>3. ASSUME ListsComeTrue(c), link[c] = "open",
             NEW i \in Places(toClient'[c]),
             NEW e \in Entries(view'[c], toClient'[c], i), NEW k \in players,
             Name[k] = e.name, Unique(k)
      PROVE  ComesTo(toClient'[c], i, e, player[k])
  BY <1>3 DEF ListsComeTrue, Open
<1> QED BY <1>1, <1>2, <1>3 DEF ListsComeTrue, Open, Unique

\* A packet that a client takes and that is about the state of the game keeps
\* ListInv: it is the head of the queue that its list is read through.
LEMMA TakenList ==
  ASSUME TypeOK, ListInv, NEW c \in Clients, Learns(c) \/ TakesTurn(c)
  PROVE  ListInv'
<1>1. /\ UNCHANGED serverVars /\ UNCHANGED <<link, toServer>>
      /\ UNCHANGED <<gameState, starts, players, player>>
  BY DEF Learns, OnGameStart, OnGameStateUpdate, OnPlayersHealthUpdated,
         TakesTurn, OnTakeTurn, serverVars
<1>2. ASSUME NEW k \in Clients
      PROVE  /\ NoEntries(k) => NoEntries(k)'
             /\ ListsComeTrue(k) => ListsComeTrue(k)'
             /\ AimsAtTheLiving(k) => AimsAtTheLiving(k)'
  <2>1. \A i \in Places(toClient'[k]) :
          \A e \in Entries(view'[k], toClient'[k], i) :
            \E i_0 \in Places(toClient[k]) :
              \E e_0 \in Entries(view[k], toClient[k], i_0) :
                /\ e_0.name = e.name
                /\ \A p : ComesTo(toClient[k], i_0, e_0, p)
                            => ComesTo(toClient'[k], i, e, p)
    BY EntriesTaken DEF Learns, TakesTurn
  <2> QED BY <1>1, <2>1, ListsKept DEF AimsAtTheLiving, UsedAt, Unique
<1>3. DeadByHealth => DeadByHealth'
  BY <1>1 DEF DeadByHealth, Unique
<1> QED BY <1>1, <1>2, <1>3 DEF ListInv, BeforeTheLists, Told

\* Whom a player on turn can aim at is alive: the player's list is the
\* server's, and so is the player.
LEMMA UsedList ==
  ASSUME TypeOK, TypeOK', TokensInv, PhaseInv, ListInv,
         NEW c \in Clients, UsesTurn(c)
  PROVE  ListInv'
<1>1. /\ UNCHANGED serverVars
      /\ UNCHANGED <<gameState, starts, players, player>>
      /\ UNCHANGED <<view, link, toClient>>
  BY UsesTurnShape DEF UsesTurn, serverVars
<1>2. PICK m \in ToServer :
             /\ Post(c, m)
             /\ m.id = "C_ACTION_TAKEN" => m.target \in Targets(c)
  BY UsesTurnShape
<1>3. starts # 0 /\ (starts <= 1 => starts = 1)
  <2>1. starts \in Nat /\ starts # 0
    BY NobodyMoves DEF TypeOK, ServerTypeOK
  <2> QED BY <2>1
<1>4. \A k \in Clients : NoEntries(k) => NoEntries(k)'
  BY <1>1 DEF NoEntries
<1>5. ASSUME starts = 1, Told
      PROVE  Told'
  <2>1. DeadByHealth'
    BY <1>1, <1>5 DEF Told, DeadByHealth, Unique
  <2>2. \A k \in Clients : ListsComeTrue(k)'
    BY <1>1, <1>5 DEF Told, ListsComeTrue, Unique, Open
  <2>3. /\ c \in players /\ ~player[c].dead
        /\ At(toClient[c], Moves) = {}
    <3>1. Held(c) \in TurnTokens /\ myTurn[c]
      BY UsesTurnTokens, UsesTurnShape
    <3>2. c \in Living
      BY <1>3, <1>5, <3>1 DEF PhaseInv, Playing, InPhase, Held
    <3>3. At(toClient[c], Moves) = {}
      BY <1>5, <3>1 DEF PhaseInv, Playing, Settled
    <3> QED BY <3>2, <3>3 DEF Living
  <2>4. ASSUME NEW k \in players, Unique(k), link[c] = "open",
               m.id = "C_ACTION_TAKEN", m.target = Name[k]
        PROVE  ~player[k].dead
    <3>1. CASE Name[k] = Name[c]
      BY <2>3, <2>4, <3>1 DEF Unique
    <3>2. ASSUME NEW e \in view[c], e.name = Name[k], ~e.dead
          PROVE  ~player[k].dead
      <4>1. Blows(toClient[c], e.name, 0) = {}
        BY <2>3 DEF Blows, At, Moves, Updates
      <4>2. ComesTo(toClient[c], 0, e, player[k])
        BY <1>5, <2>4, <3>2 DEF Told, ListsComeTrue, Open, Places, Entries
      <4> QED BY <3>2, <4>1, <4>2 DEF ComesTo
    <3> QED BY <1>2, <2>4, <3>1, <3>2 DEF Targets
  <2>5. ASSUME NEW k \in Clients
        PROVE  AimsAtTheLiving(k)'
    <3>1. toServer \in [Clients -> Seq(ToServer)]
      BY DEF TypeOK, TransportTypeOK
    <3>2. CASE toServer'[k] = toServer[k]
      BY <1>1, <1>5, <3>2 DEF Told, AimsAtTheLiving, UsedAt, Unique
    <3>3. CASE /\ k = c /\ link[c] = "open"
               /\ toServer'[k] = Append(toServer[k], m)
      <4>1. /\ \A i \in DOMAIN toServer'[k] :
                 \/ i \in DOMAIN toServer[k] /\ toServer'[k][i] = toServer[k][i]
                 \/ toServer'[k][i] = m
        <5>1. /\ toServer[k] \in Seq(ToServer)
              /\ Append(toServer[k], m) \in Seq(ToServer)
          BY <3>1, AppendProperties
        <5>2. /\ DOMAIN toServer'[k] = 1..(Len(toServer[k]) + 1)
              /\ DOMAIN toServer[k] = 1..Len(toServer[k])
              /\ Len(toServer[k]) \in Nat
              /\ \A i \in 1..Len(toServer[k]) : toServer'[k][i] = toServer[k][i]
              /\ toServer'[k][Len(toServer[k]) + 1] = m
          BY <3>3, <5>1, AppendProperties, LenProperties
        <5> QED BY <5>2
      <4> QED
        BY <1>1, <1>5, <2>4, <3>3, <4>1 DEF Told, AimsAtTheLiving, UsedAt, Unique
    <3> QED BY <1>2, <3>1, <3>2, <3>3 DEF Post
  <2> QED BY <2>1, <2>2, <2>5 DEF Told
<1> QED BY <1>1, <1>3, <1>4, <1>5 DEF ListInv, BeforeTheLists

\* Queue r holds the lists and blows of q, at the same places.
SameLists(r, q) ==
  /\ Places(r) = Places(q)
  /\ \A i \in Places(q) :
       /\ \A v : Entries(v, r, i) = Entries(v, q, i)
       /\ \A e, p : ComesTo(q, i, e, p) => ComesTo(r, i, e, p)

\* What the server sends but lists and blows.
LEMMA OtherSent ==
  ASSUME NEW q \in [Clients -> Seq(ToClient)], NEW m \in ToClient,
         m.id # "S_UPDATE_PLAYER_HP",
         m.id = "S_UPDATE_GAME_STATE" => m.state # "GS_MAIN",
         NEW n \in Clients, NEW k \in Clients,
         NEW r \in {Broadcast(q, m), SendTo(q, n, m)}
  PROVE  SameLists(r[k], q[k])
<1>1. r[k] \in {q[k], Append(q[k], m)}
  BY DEF Broadcast, SendTo
<1>2. SameLists(q[k], q[k])
  BY DEF SameLists
<1>3. SameLists(Append(q[k], m), q[k])
  <2> DEFINE s    == Append(q[k], m)
             last == Len(q[k]) + 1
  <2>1. /\ last \in Nat
        /\ \A R : \A i : i \in At(s, R) <=>
             i \in At(q[k], R) \/ (i = last /\ m.id \in R)
        /\ \A R : \A i \in At(q[k], R) :
             i \in Nat \ {0} /\ i < last /\ s[i] = q[k][i]
        /\ s[last] = m
    BY AtEnd
  <2> HIDE DEF s, last
  <2>2. Lists(s) = Lists(q[k])
    BY <2>1 DEF Lists
  <2>3. ASSUME NEW i \in Places(q[k])
        PROVE  \A v : Entries(v, s, i) = Entries(v, q[k], i)
    BY <2>1 DEF Entries, Places, Lists
  <2>4. ASSUME NEW i \in Places(q[k]), NEW e
        PROVE  /\ Blows(s, e.name, i) = Blows(q[k], e.name, i)
               /\ \A j \in Blows(q[k], e.name, i) : s[j] = q[k][j]
    <3> DEFINE a == e.name
    <3> HIDE DEF a
    <3>1. /\ Blows(s, a, i) = Blows(q[k], a, i)
          /\ \A j \in Blows(q[k], a, i) : s[j] = q[k][j]
      BY <2>1 DEF Blows
    <3> QED BY <3>1 DEF a
  <2>5. ASSUME NEW i \in Places(q[k]), NEW e, NEW p, ComesTo(q[k], i, e, p)
        PROVE  ComesTo(s, i, e, p)
    <3> DEFINE B == Blows(q[k], e.name, i)
               C == Blows(s, e.name, i)
    <3>1. C = B /\ \A j \in B : s[j] = q[k][j]
      BY <2>4
    <3>2. /\ B = {} => e.health = p.health
          /\ \A j \in B : (\A l \in B : l <= j) => q[k][j].health = p.health
          /\ p.dead <=> e.dead \/ \E j \in B : q[k][j].health <= 0
          /\ e.job = p.job
      BY <2>5 DEF ComesTo
    <3> HIDE DEF B, C
    <3> QED BY <3>1, <3>2 DEF ComesTo, C
  <2> QED BY <2>2, <2>3, <2>5 DEF SameLists, Places, s
<1> QED BY <1>1, <1>2, <1>3

\* Nor does NextTurn send any.
LEMMA NextTurnLists ==
  ASSUME TypeOK, NEW q \in [Clients -> Seq(ToClient)], NEW gs, NEW p,
         NextTurn(gs, p, q), NEW k \in Clients
  PROVE  SameLists(toClient'[k], q[k]) /\ gameState' \in {gs, "GS_GAME_OVER"}
<1>1. /\ gameState' \in {gs, "GS_GAME_OVER"}
      /\ \/ toClient' = q
         \/ toClient' = Broadcast(q, Over)
         \/ \E n \in Clients : toClient' = SendTo(q, n, Plain("S_TAKE_TURN"))
  BY NextTurnEnds DEF GiveTurn
<1>2. /\ Over \in ToClient /\ Over.id # "S_UPDATE_PLAYER_HP"
      /\ Over.state # "GS_MAIN"
  BY DEF Over, ToClient
<1>3. /\ Plain("S_TAKE_TURN") \in ToClient
      /\ Plain("S_TAKE_TURN").id = "S_TAKE_TURN"
  BY PlainType DEF Plain
<1>4. CASE toClient' = q
  BY <1>1, <1>4 DEF SameLists
<1>5. CASE toClient' = Broadcast(q, Over)
  BY <1>1, <1>2, <1>5, OtherSent
<1>6. CASE \E n \in Clients : toClient' = SendTo(q, n, Plain("S_TAKE_TURN"))
  BY <1>1, <1>3, <1>6, OtherSent
<1> QED BY <1>1, <1>4, <1>5, <1>6

\* The game starts: nobody has a list yet.
LEMMA StartsList ==
  ASSUME TypeOK, TypeOK', TokensInv, PhaseInv, ListInv,
         NEW c \in Clients, Starts(c)
  PROVE  ListInv'
<1> DEFINE m     == Plain("S_GAME_STARTED")
           first == Begin(players)
           q     == Broadcast(toClient, m)
<1>0. toClient \in [Clients -> Seq(ToClient)] /\ starts \in Nat
  BY DEF TypeOK, TransportTypeOK, ServerTypeOK
<1>1. /\ UNCHANGED <<link, players, clientVars>>
      /\ starts' = starts + 1
      /\ first \in Clients
      /\ \A k \in Clients : SameFate(player'[k], player[k])
      /\ m \in ToClient
      /\ q \in [Clients -> Seq(ToClient)]
      /\ toClient' = GiveTurn(q, first)
  BY StartsShape
<1>2. m.id = "S_GAME_STARTED"
  BY DEF Plain
<1>3. /\ Plain("S_TAKE_TURN") \in ToClient
      /\ Plain("S_TAKE_TURN").id = "S_TAKE_TURN"
  BY PlainType DEF Plain
<1> HIDE DEF m, first
<1>4. \A k \in Clients : SameLists(q[k], toClient[k])
  BY <1>0, <1>1, <1>2, OtherSent
<1> HIDE DEF q
<1>5. \A k \in Clients : SameLists(toClient'[k], q[k])
  BY <1>1, <1>3, OtherSent DEF GiveTurn
<1>6. starts = 0 => starts' = 1
  BY <1>1
<1>7. starts # 0 => ~(starts' <= 1) /\ starts' # 0 /\ starts' # 1
  BY <1>0, <1>1
<1>8. ASSUME starts = 0
      PROVE  Told' /\ \A k \in Clients : NoEntries(k)'
  <2>1. ASSUME NEW k \in Clients
        PROVE  NoEntries(k)'
    <3>1. NoEntries(k) /\ view' = view
      BY <1>1, <1>8 DEF ListInv, BeforeTheLists, clientVars
    <3>2. SameLists(toClient'[k], q[k]) /\ SameLists(q[k], toClient[k])
      BY <1>4, <1>5
    <3>3. Places(toClient'[k]) = Places(toClient[k])
      BY <3>2 DEF SameLists
    <3>4. \A i \in Places(toClient[k]) :
            Entries(view[k], toClient'[k], i) = Entries(view[k], toClient[k], i)
      BY <3>2 DEF SameLists
    <3> QED BY <3>1, <3>3, <3>4 DEF NoEntries
  <2>2. \A k \in Clients : ListsComeTrue(k)'
    BY <2>1 DEF NoEntries, ListsComeTrue
  <2>3. \A k \in Clients : UsedAt(k)' = {}
    <3>1. PICK i : /\ TokenStep({}, {Given(currentPlayerTurn', i)})
                   /\ DOMAIN toClient'[currentPlayerTurn'] \subseteq 1..i
      BY StartsTokens
    <3>2. TurnTokens' \subseteq {Given(currentPlayerTurn', i)}
      BY <1>8, <3>1, NobodyMoves DEF TokenStep
    <3> QED BY <3>1, <3>2, HandedOver
  <2>4. DeadByHealth'
    <3>1. players \in SUBSET Clients
      BY DEF TypeOK, ServerTypeOK
    <3> QED
      BY <1>1, <1>8, <3>1 DEF ListInv, Told, DeadByHealth, Unique, SameFate
  <2> QED BY <2>1, <2>2, <2>3, <2>4 DEF Told, AimsAtTheLiving
<1> QED BY <1>6, <1>7, <1>8 DEF ListInv, BeforeTheLists

\* The choice that ends the selection sends the first lists, of the living; no
\* other does.
LEMMA ChoiceList ==
  ASSUME TypeOK, TypeOK', TokensInv, PhaseInv, ListInv,
         NEW c \in Clients, ChoiceArrives(c)
  PROVE  ListInv'
<1> DEFINE m     == Main(player')
           q     == Broadcast(toClient, m)
           later == Above(players, currentPlayerTurn)
           n     == Begin(later)
<1>0. /\ toClient \in [Clients -> Seq(ToClient)]
      /\ players \in SUBSET Clients /\ starts \in Nat
      /\ player' \in [Clients -> Player]
  BY DEF TypeOK, TransportTypeOK, ServerTypeOK
<1>1. /\ UNCHANGED <<link, players, starts, clientVars>>
      /\ \A k \in Clients : /\ player'[k].dead = player[k].dead
                            /\ player'[k].health = player[k].health
      /\ m \in ToClient /\ q \in [Clients -> Seq(ToClient)]
      /\ \/ /\ n \in Clients
            /\ toClient' = GiveTurn(toClient, n)
            /\ UNCHANGED gameState
         \/ NextTurn("GS_MAIN", player', q)
  BY ChoiceShape
<1>2. starts # 0
  BY NobodyMoves
<1>3. starts <= 1 => starts = 1
  BY <1>0, <1>2
<1>4. /\ m.id = "S_UPDATE_GAME_STATE" /\ m.state = "GS_MAIN"
      /\ m.players = Snapshot(player')
  BY DEF Main
<1> HIDE DEF m, n
<1>5. ASSUME starts = 1
      PROVE  Told' /\ (BeforeTheLists' => \A k \in Clients : NoEntries(k)')
  <2>1. Playing
    BY <1>5 DEF PhaseInv
  <2>2. /\ gameState = "GS_CHARACTER_SELECT"
        /\ \A k \in Clients : UsedAt(k)' = {}
    BY <1>5, <2>1, PassedPhase
  <2>3. /\ players = Living /\ Told
        /\ \A k \in Clients : NoEntries(k)
    BY <1>5, <2>1, <2>2 DEF Playing, InPhase, ListInv, BeforeTheLists
  <2>4. DeadByHealth'
    BY <1>0, <1>1, <2>3 DEF Told, DeadByHealth, Unique
  <2>5. CASE n \in Clients /\ toClient' = GiveTurn(toClient, n)
    <3>1. /\ Plain("S_TAKE_TURN") \in ToClient
          /\ Plain("S_TAKE_TURN").id = "S_TAKE_TURN"
      BY PlainType DEF Plain
    <3>2. ASSUME NEW k \in Clients
          PROVE  NoEntries(k)'
      <4>1. SameLists(toClient'[k], toClient[k])
        BY <1>0, <2>5, <3>1, OtherSent DEF GiveTurn
      <4>2. NoEntries(k) /\ view' = view
        BY <1>1, <2>3 DEF clientVars
      <4> QED BY <4>1, <4>2 DEF NoEntries, SameLists
    <3>3. \A k \in Clients : ListsComeTrue(k)'
      BY <3>2 DEF NoEntries, ListsComeTrue
    <3> QED BY <2>2, <2>4, <3>2, <3>3 DEF Told, AimsAtTheLiving
  <2>6. CASE NextTurn("GS_MAIN", player', q)
    <3> HIDE DEF q
    <3>1. /\ \A k \in Clients : SameLists(toClient'[k], q[k])
          /\ gameState' \in {"GS_MAIN", "GS_GAME_OVER"}
      <4> DEFINE p == player'
      <4>1. NextTurn("GS_MAIN", p, q)
        BY <2>6
      <4> HIDE DEF p
      <4>2. ASSUME NEW k \in Clients
            PROVE  /\ SameLists(toClient'[k], q[k])
                   /\ gameState' \in {"GS_MAIN", "GS_GAME_OVER"}
        BY <1>1, <4>1, NextTurnLists
      <4>3. gameState' \in {"GS_MAIN", "GS_GAME_OVER"}
        BY <4>2, <2>1, <1>0 DEF Playing, InPhase, Living
      <4> QED BY <4>2, <4>3
    <3>2. ~BeforeTheLists'
      BY <1>1, <1>5, <3>1 DEF BeforeTheLists
    <3>3. ASSUME NEW k \in Clients, NEW i \in Places(q[k]),
                 NEW e \in Entries(view[k], q[k], i), NEW j \in players,
                 Name[j] = e.name, Unique(j)
          PROVE  ComesTo(q[k], i, e, player'[j])
      <4>1. /\ toClient[k] \in Seq(ToClient)
            /\ q[k] \in {toClient[k], Append(toClient[k], m)}
        BY <1>0 DEF q, Broadcast
      <4>2. \/ i \in Places(toClient[k])
               /\ Entries(view[k], q[k], i) = Entries(view[k], toClient[k], i)
            \/ /\ Entries(view[k], q[k], i) = m.players
               /\ \A a : Blows(q[k], a, i) = {}
        <5>1. CASE q[k] = toClient[k]
          BY <3>3, <5>1
        <5>2. CASE q[k] = Append(toClient[k], m)
          <6> DEFINE s == toClient[k]
                     r == Append(s, m)
                     v == view[k]
          <6>1. s \in Seq(ToClient) /\ m \in ToClient
            BY <1>1, <4>1
          <6>2. i \in Places(r)
            BY <3>3, <5>2
          <6> HIDE DEF s, v
          <6>3. \A i_1 \in Places(r) :
                  \/ i_1 \in Places(s) /\ Entries(v, r, i_1) = Entries(v, s, i_1)
                  \/ /\ Entries(v, r, i_1) = m.players
                     /\ \A a : Blows(r, a, i_1) = {}
            BY <1>4, <6>1, ListSent
          <6>4. r = q[k]
            BY <5>2 DEF s
          <6> HIDE DEF r
          <6>5. \/ i \in Places(s) /\ Entries(v, r, i) = Entries(v, s, i)
                \/ /\ Entries(v, r, i) = m.players
                   /\ \A a : Blows(r, a, i) = {}
            BY <6>2, <6>3
          <6> QED BY <6>4, <6>5 DEF s, v
        <5> QED BY <4>1, <5>1, <5>2
      <4>3. /\ e \in Snapshot(player')
            /\ \A a : Blows(q[k], a, i) = {}
        BY <1>4, <2>3, <4>2 DEF NoEntries
      <4>4. PICK l \in players :
                   e = [name |-> Name[l], health |-> player'[l].health,
                        job |-> player'[l].job, dead |-> FALSE]
        BY <4>3 DEF Snapshot
      <4>5. l = j
        BY <3>3, <4>4 DEF Unique
      <4>6. /\ e.health = player'[j].health /\ e.job = player'[j].job
            /\ e.dead = FALSE
        BY <4>4, <4>5
      <4>7. ~player'[j].dead
        BY <1>0, <1>1, <2>3 DEF Living
      <4> QED BY <4>3, <4>6, <4>7 DEF ComesTo
    <3>4. ASSUME NEW k \in Clients
          PROVE  ListsComeTrue(k)'
      <4>1. ASSUME NEW i \in Places(toClient'[k]),
                   NEW e \in Entries(view'[k], toClient'[k], i),
                   NEW j \in players', Name[j] = e.name, Unique(j)'
            PROVE  ComesTo(toClient'[k], i, e, player'[j])
        <5>1. view' = view /\ players' = players /\ Unique(j)
          BY <1>1, <4>1 DEF clientVars, Unique
        <5>2. i \in Places(q[k]) /\ e \in Entries(view[k], q[k], i)
          BY <3>1, <4>1, <5>1 DEF SameLists
        <5>3. ComesTo(q[k], i, e, player'[j])
          BY <3>3, <4>1, <5>1, <5>2
        <5> QED BY <3>1, <5>2, <5>3 DEF SameLists
      <4> QED BY <4>1 DEF ListsComeTrue
    <3> QED BY <2>2, <2>4, <3>2, <3>4 DEF Told, AimsAtTheLiving
  <2> QED BY <1>1, <2>5, <2>6
<1> HIDE DEF q
<1> QED BY <1>1, <1>2, <1>3, <1>5 DEF ListInv, BeforeTheLists

\* A blow lands on somebody alive and is announced to everybody.
LEMMA ActionList ==
  ASSUME TypeOK, TypeOK', TokensInv, PhaseInv, ListInv,
         NEW c \in Clients, ActionArrives(c)
  PROVE  ListInv'
<1> DEFINE target == GetPlayerWithName(Head(toServer[c]).target)
           m      == HealthUpdate(player', target)
           q      == Broadcast(toClient, m)
<1>0. /\ toClient \in [Clients -> Seq(ToClient)]
      /\ players \in SUBSET Clients /\ starts \in Nat
      /\ player \in [Clients -> Player]
  BY DEF TypeOK, TransportTypeOK, ServerTypeOK
<1>1. /\ UNCHANGED <<link, players, starts, clientVars>>
      /\ target \in players /\ Name[target] = Head(toServer[c]).target
      /\ \E diff \in HealthChange(Head(toServer[c]).action) :
           player' = ModifyHealth(player, target, diff)
      /\ m \in ToClient /\ q \in [Clients -> Seq(ToClient)]
      /\ NextTurn(gameState, player', q)
      /\ Receive(c, "C_ACTION_TAKEN")
  BY ActionShape
<1>2. starts # 0
  BY NobodyMoves
<1>3. starts <= 1 => starts = 1
  BY <1>0, <1>2
<1>4. PICK diff \in HealthChange(Head(toServer[c]).action) :
             player' = ModifyHealth(player, target, diff)
  BY <1>1
<1>5. \E i \in UsedAt(c) : /\ toServer[c][i] = Head(toServer[c])
                           /\ toServer[c][i].id = "C_ACTION_TAKEN"
  <2>1. /\ toServer[c] \in Seq(ToServer) /\ toServer[c] # <<>>
        /\ Head(toServer[c]).id = "C_ACTION_TAKEN"
    BY <1>1 DEF TypeOK, TransportTypeOK, Receive
  <2>2. 1 \in DOMAIN toServer[c] /\ Head(toServer[c]) = toServer[c][1]
    BY <2>1, LenProperties, EmptySeq, HeadTailProperties
  <2> QED BY <2>1, <2>2 DEF UsedAt, TurnRequests
<1> HIDE DEF target
<1>6. /\ m.id = "S_UPDATE_PLAYER_HP" /\ m.name = Name[target]
      /\ m.health = player'[target].health
  BY DEF HealthUpdate
<1>7. /\ \A k \in players : k # target => player'[k] = player[k]
      /\ player'[target].health \in Int
      /\ player'[target].job = player[target].job
      /\ player'[target].dead <=>
           player[target].dead \/ player'[target].health <= 0
  <2>1. /\ target \in Clients /\ player[target] \in Player
        /\ player'[target] \in Player
    BY <1>0, <1>1 DEF TypeOK, ServerTypeOK
  <2>2. player'[target] = Changed(player[target], diff)
    BY <1>0, <1>4, <2>1 DEF ModifyHealth
  <2>3. \A k \in players : k # target => player'[k] = player[k]
    BY <1>0, <1>4 DEF ModifyHealth
  <2>4. /\ player'[target].health = player[target].health + diff
        /\ player'[target].job = player[target].job
        /\ player'[target].dead =
             (player[target].dead \/ player[target].health + diff <= 0)
    BY <2>1, <2>2 DEF Changed, Player
  <2> QED BY <2>1, <2>3, <2>4 DEF Player
<1> HIDE DEF m
<1>8. ASSUME starts = 1
      PROVE  Told' /\ ~BeforeTheLists'
  <2>1. Playing /\ Told
    BY <1>8 DEF PhaseInv, ListInv
  <2>2. /\ gameState = "GS_MAIN"
        /\ \A k \in Clients : UsedAt(k)' = {}
    BY <1>8, <2>1, PassedPhase
  <2>3. Unique(target) => ~player[target].dead
    BY <1>1, <1>5, <2>1 DEF Told, AimsAtTheLiving
  <2>4. DeadByHealth'
    <3>1. ASSUME NEW k \in players, Unique(k)
          PROVE  player'[k].dead <=> player'[k].health <= 0
      <4>1. CASE k = target
        BY <1>7, <2>3, <3>1, <4>1
      <4>2. CASE k # target
        BY <1>7, <2>1, <3>1, <4>2 DEF Told, DeadByHealth
      <4> QED BY <4>1, <4>2
    <3> QED BY <1>1, <3>1 DEF DeadByHealth, Unique
  <2> HIDE DEF q
  <2>5. ASSUME NEW k \in Clients
        PROVE  /\ SameLists(toClient'[k], q[k])
               /\ gameState' \in {"GS_MAIN", "GS_GAME_OVER"}
    <3> DEFINE p == player'
    <3>1. NextTurn(gameState, p, q)
      BY <1>1
    <3> HIDE DEF p
    <3> QED BY <1>1, <2>2, <3>1, NextTurnLists
  <2>6. ~BeforeTheLists'
    BY <1>1, <1>8, <2>5 DEF BeforeTheLists
  <2>7. ASSUME NEW k \in Clients, link[k] = "open", NEW i \in Places(q[k]),
               NEW e \in Entries(view[k], q[k], i), NEW j \in players,
               Name[j] = e.name, Unique(j)
        PROVE  ComesTo(q[k], i, e, player'[j])
    <3>1. /\ toClient[k] \in Seq(ToClient)
          /\ q[k] = Append(toClient[k], m)
      BY <1>0, <2>7 DEF q, Broadcast
    <3> DEFINE s == toClient[k]
               r == Append(s, m)
               v == view[k]
    <3>8. s \in Seq(ToClient) /\ m \in ToClient /\ r = q[k]
      BY <1>1, <3>1
    <3>9. /\ i \in Places(r) /\ e \in Entries(v, r, i)
          /\ \A i_1, d, p : ComesTo(r, i_1, d, p) <=> ComesTo(q[k], i_1, d, p)
      BY <2>7, <3>1
    <3> HIDE DEF s, v
    <3>2. /\ Places(r) = Places(s)
          /\ \A i_1 \in Places(r) :
               /\ Entries(v, r, i_1) = Entries(v, s, i_1)
               /\ \A d, p : d.name # m.name /\ ComesTo(s, i_1, d, p)
                              => ComesTo(r, i_1, d, p)
               /\ \A d, p, p_1 :
                    /\ d.name = m.name
                    /\ ComesTo(s, i_1, d, p)
                    /\ p_1.health = m.health /\ p_1.job = p.job
                    /\ p_1.dead <=> p.dead \/ m.health <= 0
                    => ComesTo(r, i_1, d, p_1)
      BY <1>6, <3>8, BlowSent
    <3> HIDE DEF r
    <3>3. ComesTo(s, i, e, player[j])
      <4>1. i \in Places(s) /\ e \in Entries(v, s, i)
        BY <3>2, <3>9
      <4> QED BY <2>1, <2>7, <4>1 DEF Told, ListsComeTrue, Open, s, v
    <3>4. CASE j = target
      <4>1. e.name = m.name
        BY <1>6, <2>7, <3>4
      <4>2. /\ player'[j].health = m.health
            /\ player'[j].job = player[j].job
            /\ player'[j].dead <=> player[j].dead \/ m.health <= 0
        BY <1>6, <1>7, <3>4
      <4> QED BY <3>2, <3>3, <3>9, <4>1, <4>2
    <3>5. CASE j # target
      <4>1. e.name # m.name
        BY <1>1, <1>6, <2>7, <3>5 DEF Unique
      <4>2. player'[j] = player[j]
        BY <1>7, <3>5
      <4> QED BY <3>2, <3>3, <3>9, <4>1, <4>2
    <3> QED BY <3>4, <3>5
  <2>8. ASSUME NEW k \in Clients
        PROVE  ListsComeTrue(k)'
    <3>1. ASSUME link'[k] = "open", NEW i \in Places(toClient'[k]),
                 NEW e \in Entries(view'[k], toClient'[k], i),
                 NEW j \in players', Name[j] = e.name, Unique(j)'
          PROVE  ComesTo(toClient'[k], i, e, player'[j])
      <4>1. /\ view' = view /\ players' = players /\ Unique(j)
            /\ link[k] = "open"
        BY <1>1, <3>1 DEF clientVars, Unique
      <4>2. i \in Places(q[k]) /\ e \in Entries(view[k], q[k], i)
        BY <2>5, <3>1, <4>1 DEF SameLists
      <4>3. ComesTo(q[k], i, e, player'[j])
        BY <2>7, <3>1, <4>1, <4>2
      <4> QED BY <2>5, <4>2, <4>3 DEF SameLists
    <3> QED BY <3>1 DEF ListsComeTrue, Open
  <2> QED BY <2>2, <2>4, <2>6, <2>8 DEF Told, AimsAtTheLiving
<1>9. starts # 1 => ~BeforeTheLists' /\ ~(starts' <= 1)
  BY <1>1, <1>2, <1>3 DEF BeforeTheLists
<1> HIDE DEF q
<1> QED BY <1>8, <1>9 DEF ListInv

-------------------------------------------------------------------------------
(* The theorems.                                                           *)

\* Every step keeps the invariant.
LEMMA ViewStep == PlainNames /\ ViewInv /\ [Next]_vars => ViewInv'
<1> SUFFICES ASSUME PlainNames, ViewInv, [Next]_vars
             PROVE  ViewInv'
  OBVIOUS
<1>0. OnceInv /\ TurnInv /\ ListInv
  BY DEF ViewInv
<1>1. TypeOK /\ FreshInv /\ TokensInv /\ PhaseInv
  BY <1>0 DEF OnceInv
<1>2. OnceInv' /\ TurnInv'
  BY <1>0, <1>1, OnceStep, TurnStep
<1>3. TypeOK'
  BY <1>2 DEF OnceInv
<1>4. ASSUME QuietStep
      PROVE  ListInv'
  BY <1>0, <1>1, <1>3, <1>4, QuietList
<1>5. ASSUME NEW c \in Clients,
             \/ Starts(c) \/ ChoiceArrives(c) \/ ActionArrives(c)
             \/ Learns(c) \/ TakesTurn(c) \/ UsesTurn(c)
      PROVE  ListInv'
  <2>1. CASE Starts(c) \/ ChoiceArrives(c) \/ ActionArrives(c)
    BY <1>0, <1>1, <1>3, <2>1, StartsList, ChoiceList, ActionList
  <2>2. CASE Learns(c) \/ TakesTurn(c) \/ UsesTurn(c)
    BY <1>0, <1>1, <1>3, <2>2, TakenList, UsedList
  <2> QED BY <1>5, <2>1, <2>2
<1>6. ListInv'
  BY <1>1, <1>4, <1>5, StepKinds
<1> QED BY <1>2, <1>6 DEF ViewInv

\* The invariant that ties the clients' lists to the server's map.
THEOREM ViewHolds ==
  ASSUME PlainNames
  PROVE  Spec => []ViewInv
<1>1. Init => ViewInv
  BY TypeInit, FreshInit, TokensInit, PhaseInit, TurnInit, ListInit
     DEF ViewInv, OnceInv
<1>2. ViewInv /\ [Next]_vars => ViewInv'
  BY ViewStep
<1> QED BY <1>1, <1>2, PTL DEF Spec

\* In a game that was started at most once, the list a client keeps by name is
\* the server's whenever nothing is on its way to the client: no delta is lost,
\* applied twice or applied before the list it changes (RRPG.cpp:389-417).
THEOREM ViewsAgree ==
  ASSUME PlainNames
  PROVE  Spec => []ViewAgrees
<1>1. ViewInv => ViewAgrees
  <2> SUFFICES ASSUME ViewInv, starts <= 1, NEW c \in Clients, Open(c),
                      UpToDate(c), NEW e \in view[c], NEW k \in players,
                      Name[k] = e.name, Unique(k)
               PROVE  /\ e.health = player[k].health
                      /\ e.dead = player[k].dead
                      /\ e.job = player[k].job
    BY DEF ViewAgrees
  <2>1. TypeOK /\ ListsComeTrue(c)
    BY DEF ViewInv, OnceInv, ListInv, Told
  <2>2. ComesTo(toClient[c], 0, e, player[k])
    BY <2>1 DEF ListsComeTrue, Places, Entries
  <2>3. Blows(toClient[c], e.name, 0) = {}
    <3>1. toClient[c] \in Seq(ToClient)
      BY <2>1 DEF TypeOK, TransportTypeOK
    <3>2. At(toClient[c], {"S_UPDATE_PLAYER_HP"}) = {}
      BY <3>1, IdsAreAt DEF UpToDate
    <3> QED BY <3>2 DEF Blows
  <2>4. e.dead \in BOOLEAN /\ player[k].dead \in BOOLEAN
    <3>1. e \in Entry /\ player[k] \in Player
      BY <2>1 DEF TypeOK, ClientTypeOK, ServerTypeOK
    <3> QED BY <3>1 DEF Entry, Player
  <2> QED BY <2>2, <2>3, <2>4 DEF ComesTo
<1> QED BY <1>1, ViewHolds, PTL

\* In a game that was started at most once, nobody who is dead is healed or
\* struck: the client's check against its own list is as good as one of the
\* server's (RRPG.cpp:165-173, server.cpp:338-340).
THEOREM DeadStayDead ==
  ASSUME PlainNames
  PROVE  Spec => []DeathMatchesHealth
<1>1. ViewInv => DeathMatchesHealth
  <2> SUFFICES ASSUME ViewInv, starts <= 1, NEW k \in players, Unique(k)
               PROVE  player[k].dead = (player[k].health <= 0)
    BY DEF DeathMatchesHealth
  <2>1. TypeOK /\ DeadByHealth
    BY DEF ViewInv, OnceInv, ListInv, Told
  <2>2. player[k].dead \in BOOLEAN
    <3>1. player[k] \in Player
      BY <2>1 DEF TypeOK, ServerTypeOK
    <3> QED BY <3>1 DEF Player
  <2> QED BY <2>1, <2>2 DEF DeadByHealth
<1> QED BY <1>1, ViewHolds, PTL

-------------------------------------------------------------------------------
(* The invariant, and the state of the table that it gives.                *)

\* Who has not sat down has lost no health.
UnseatedInv ==
  \A c \in Clients : c \notin players => player[c].health = InitialHealth

TableInv == ViewInv /\ UnseatedInv

\* With one turn or none out, Token says where it is.
TokenKnown ==
  \/ /\ TurnTokens = {}
     /\ Token = IF gameState = "GS_GAME_OVER" THEN "none" ELSE "lost"
  \/ /\ gameState # "GS_GAME_OVER"
     /\ \E t : /\ TurnTokens = {t} /\ t[1] = currentPlayerTurn
               /\ t[2][1] \in {"given", "held", "used"}
               /\ Token = t[2][1]

\* The table before the game, during the first and after it.
Shown ==
  /\ starts \in Nat
  /\ starts = 0 => Phase = "lobby" /\ Token = "none"
  /\ starts = 1 =>
       /\ TokenKnown
       /\ \/ gameState = "GS_CHARACTER_SELECT" /\ Phase = "select"
          \/ gameState = "GS_MAIN" /\ Phase = "main"
          \/ gameState = "GS_GAME_OVER" /\ Phase = "over"
  /\ starts <= 1 =>
       /\ Seats = players /\ Turn = currentPlayerTurn
       /\ Healths = [c \in Clients |-> player[c].health]
       /\ NamesDiffer => Table!Living(Healths) = Living
  /\ starts \notin {0, 1} =>
       /\ Phase = "again" /\ Seats = {} /\ Turn = 0 /\ Token = "none"
       /\ Healths = [c \in Clients |-> InitialHealth]

\* With at most one turn out the token is in one place.
LEMMA TokensKnown ==
  ASSUME TokensInv, starts = 1, Playing
  PROVE  TokenKnown
<1>1. CASE TurnTokens = {}
  BY <1>1 DEF TokenKnown, Token
<1>2. ASSUME NEW t \in TurnTokens
      PROVE  TokenKnown
  <2>1. TurnTokens = {t}
    <3>1. TokenStep({t}, TurnTokens')
      <4>1. \A u \in TurnTokens :
              [x \in TurnTokens |-> x][u][1] = u[1]
              /\ [x \in TurnTokens |-> x][u][2][1] = u[2][1]
        OBVIOUS
      <4> QED BY <4>1 DEF TokenStep
    <3> QED BY <1>2, <3>1, OnlyNew DEF TokensInv
  <2>2. t[1] = currentPlayerTurn /\ gameState # "GS_GAME_OVER"
    BY <1>2 DEF Playing
  <2>3. t[2][1] \in {"given", "held", "used"}
    BY <1>2, TokensAre DEF Held, Given, Used
  <2>4. (CHOOSE u \in TurnTokens : TRUE) = t
    BY <2>1
  <2>5. Token = t[2][1]
    BY <2>1, <2>2, <2>4 DEF Token
  <2> QED BY <2>1, <2>2, <2>3, <2>5 DEF TokenKnown
<1> QED BY <1>1, <1>2

\* What the table shows follows from the invariant.
LEMMA TableShown == ViewInv => Shown
<1> SUFFICES ASSUME ViewInv PROVE Shown
  OBVIOUS
<1>0. TypeOK /\ TokensInv /\ PhaseInv /\ ListInv
  BY DEF ViewInv, OnceInv
<1>1. /\ starts \in Nat /\ players \in SUBSET Clients
      /\ player \in [Clients -> Player]
  BY <1>0 DEF TypeOK, ServerTypeOK
<1>2. ASSUME starts = 0
      PROVE  Phase = "lobby" /\ Token = "none"
  BY <1>0, <1>2 DEF PhaseInv, Waiting, Phase, Token
<1>3. ASSUME starts = 1
      PROVE  /\ TokenKnown
             /\ \/ gameState = "GS_CHARACTER_SELECT" /\ Phase = "select"
                \/ gameState = "GS_MAIN" /\ Phase = "main"
                \/ gameState = "GS_GAME_OVER" /\ Phase = "over"
  <2>1. Playing
    BY <1>0, <1>3 DEF PhaseInv
  <2>2. TokenKnown
    BY <1>0, <1>3, <2>1, TokensKnown
  <2>3. gameState \in {"GS_CHARACTER_SELECT", "GS_MAIN", "GS_GAME_OVER"}
    BY <2>1 DEF Playing, InPhase
  <2>4. ~(starts > 1)
    BY <1>3
  <2>5. CASE gameState = "GS_CHARACTER_SELECT"
    BY <2>2, <2>4, <2>5 DEF Phase
  <2>6. CASE gameState = "GS_MAIN"
    BY <2>2, <2>4, <2>6 DEF Phase
  <2>7. CASE gameState = "GS_GAME_OVER"
    BY <2>2, <2>4, <2>7 DEF Phase
  <2> QED BY <2>3, <2>5, <2>6, <2>7
<1>4. ASSUME starts <= 1
      PROVE  /\ Seats = players /\ Turn = currentPlayerTurn
             /\ Healths = [c \in Clients |-> player[c].health]
             /\ NamesDiffer => Table!Living(Healths) = Living
  <2>1. ~(starts > 1)
    BY <1>1, <1>4
  <2>2. /\ Seats = players /\ Turn = currentPlayerTurn
        /\ Healths = [c \in Clients |-> player[c].health]
    BY <2>1 DEF Seats, Turn, Healths
  <2>3. ASSUME NamesDiffer, NEW k \in players
        PROVE  Healths[k] > 0 <=> ~player[k].dead
    <3>1. Unique(k)
      BY <1>1, <2>3 DEF NamesDiffer, Unique
    <3>2. player[k].dead <=> player[k].health <= 0
      BY <1>0, <1>4, <3>1 DEF ListInv, Told, DeadByHealth
    <3>3. player[k].health \in Int /\ Healths[k] = player[k].health
      BY <1>1, <2>2 DEF Player
    <3> QED BY <3>2, <3>3
  <2> QED BY <2>2, <2>3 DEF Table!Living, Living
<1>5. ASSUME starts \notin {0, 1}
      PROVE  /\ Phase = "again" /\ Seats = {} /\ Turn = 0 /\ Token = "none"
             /\ Healths = [c \in Clients |-> InitialHealth]
  <2>1. starts > 1 /\ starts # 1
    BY <1>1, <1>5
  <2> QED BY <2>1 DEF Phase, Seats, Turn, Token, Healths
<1> QED BY <1>1, <1>2, <1>3, <1>4, <1>5 DEF Shown

-------------------------------------------------------------------------------
(* Every step is a move at the table or none.                              *)

Still == UNCHANGED <<Phase, Seats, Turn, Token, Healths>>

\* Nothing is promised, and nothing shows, once the game was begun again.
LEMMA AgainStays ==
  ASSUME Shown, Shown', starts \notin {0, 1}, starts' \notin {0, 1}
  PROVE  Still
<1>1. /\ Phase = "again" /\ Seats = {} /\ Turn = 0 /\ Token = "none"
      /\ Healths = [c \in Clients |-> InitialHealth]
  BY DEF Shown
<1>2. /\ Phase' = "again" /\ Seats' = {} /\ Turn' = 0 /\ Token' = "none"
      /\ Healths' = [c \in Clients |-> InitialHealth]
  BY DEF Shown
<1> QED BY <1>1, <1>2 DEF Still

\* The one turn there is tells where it is, before a step and after it.
Tells(t) ==
  TokenKnown /\ TurnTokens = {t} =>
    gameState # "GS_GAME_OVER" /\ Token = t[2][1]

\* What a turn of TurnGame is read from.
LEMMA TurnTells == \A t : Tells(t)
<1> SUFFICES ASSUME NEW t, TokenKnown, TurnTokens = {t}
             PROVE  gameState # "GS_GAME_OVER" /\ Token = t[2][1]
  BY DEF Tells
<1>1. PICK u : TurnTokens = {u} /\ gameState # "GS_GAME_OVER" /\ Token = u[2][1]
  BY DEF TokenKnown
<1>2. u = t
  BY <1>1
<1> QED BY <1>1, <1>2

\* And in the next state.
LEMMA TurnTellsAfter == \A t : Tells(t)'
<1>1. (\A t : Tells(t))'
  BY TurnTells, PTL
<1> QED BY <1>1

\* A turn is told apart by where it is.
LEMMA KindsOfTurn ==
  \A c, i : /\ Held(c)[2][1] = "held" /\ Given(c, i)[2][1] = "given"
            /\ Used(c, i)[2][1] = "used"
BY DEF Held, Given, Used

\* A step that brings no turn leaves the one there is where it is, or it is
\* lost.
LEMMA TokenStays ==
  ASSUME TokenKnown, TokenKnown', TokenStep({}, {}),
         UNCHANGED <<gameState, currentPlayerTurn>>
  PROVE  \/ Token' = Token
         \/ /\ Token \in {"given", "held", "used"} /\ Token' = "lost"
            /\ ~(TurnTokens \subseteq TurnTokens')
<1>1. PICK f :
        /\ \A t \in TurnTokens : f[t][1] = t[1] /\ f[t][2][1] = t[2][1]
        /\ TurnTokens' \subseteq {} \cup {f[t] : t \in TurnTokens \ {}}
  BY DEF TokenStep
<1>2. CASE TurnTokens = {}
  <2>1. TurnTokens' = {}
    BY <1>1, <1>2
  <2> QED BY <1>2, <2>1 DEF TokenKnown
<1>3. ASSUME NEW t \in TurnTokens, TurnTokens = {t}, Token = t[2][1],
             t[2][1] \in {"given", "held", "used"},
             gameState # "GS_GAME_OVER"
      PROVE  \/ Token' = Token
             \/ /\ Token \in {"given", "held", "used"} /\ Token' = "lost"
                /\ ~(TurnTokens \subseteq TurnTokens')
  <2>1. CASE TurnTokens' = {}
    BY <1>3, <2>1 DEF TokenKnown
  <2>2. ASSUME NEW u, TurnTokens' = {u}, Token' = u[2][1]
        PROVE  Token' = Token
    <3>1. u = f[t]
      BY <1>1, <1>3, <2>2
    <3> QED BY <1>1, <1>3, <2>2, <3>1
  <2> QED BY <2>1, <2>2 DEF TokenKnown
<1> QED BY <1>2, <1>3 DEF TokenKnown

\* Only OnClientIntro makes the map larger, and it takes no turn away from
\* those who were in it.
LEMMA WhoJoins ==
  ASSUME TypeOK, [Next]_vars, players' # players
  PROVE  \E c \in Clients :
           /\ c \notin players /\ players' = players \cup {c}
           /\ \A t \in TurnTokens : t[1] # c => t \in TurnTokens'
<1>1. PICK c \in Clients : OnClientIntro(c) /\ UNCHANGED clientVars
  <2>1. ASSUME UNCHANGED vars \/ GameLoop
        PROVE  players' = players
    BY <2>1 DEF vars, serverVars, GameLoop
  <2>2. ASSUME NEW c \in Clients, PacketHandler(c), ~OnClientIntro(c)
        PROVE  players' = players
    <3>1. CASE \/ OnIncomingConnection(c) \/ OnConnectionLost(c)
               \/ OnClientChatReceived(c) \/ OnPlayerListRequest(c)
               \/ OnPlayerStatsRequest(c) \/ OnPlayerUnready(c)
      BY <3>1 DEF OnIncomingConnection, OnConnectionLost, OnClientChatReceived,
                  OnPlayerListRequest, OnPlayerStatsRequest, OnPlayerUnready,
                  Abort, serverVars
    <3>2. CASE OnPlayerReady(c)
      BY <3>2 DEF OnPlayerReady, Abort
    <3>3. CASE OnPlayerJobChosen(c)
      BY <3>3 DEF OnPlayerJobChosen, Abort
    <3>4. CASE OnPlayerActionTaken(c)
      BY <3>4 DEF OnPlayerActionTaken, Abort
    <3> QED BY <2>2, <3>1, <3>2, <3>3, <3>4 DEF PacketHandler
  <2>3. ASSUME NEW c \in Clients, Environment(c)
        PROVE  players' = players
    BY <2>3 DEF Environment, serverVars
  <2>4. UNCHANGED serverVars => players' = players
    BY DEF serverVars
  <2> QED BY <2>1, <2>2, <2>3, <2>4 DEF Next
<1>2. /\ c \notin players /\ players' = players \cup {c}
      /\ UNCHANGED <<toClient, myTurn>>
      /\ \A k \in Clients : k # c => toServer'[k] = toServer[k]
  <2>1. toServer \in [Clients -> Seq(ToServer)]
    BY DEF TypeOK, TransportTypeOK
  <2>2. players' = players \cup {c} /\ UNCHANGED <<toClient, myTurn>>
    BY <1>1 DEF OnClientIntro, clientVars
  <2>3. \E q : toServer' = [toServer EXCEPT ![c] = q]
    BY <1>1 DEF OnClientIntro, Consume
  <2> QED BY <2>1, <2>2, <2>3
<1>3. ASSUME NEW t \in TurnTokens, t[1] # c
      PROVE  t \in TurnTokens'
  <2>1. PICK k \in Clients :
          t \in {k} \X (({"held"} \X HeldAt(k)) \cup ({"given"} \X GivenAt(k))
                          \cup ({"used"} \X UsedAt(k)))
    BY DEF TurnTokens
  <2>2. t[1] = k
    BY <2>1
  <2>3. HeldAt(k)' = HeldAt(k) /\ GivenAt(k)' = GivenAt(k) /\ UsedAt(k)' = UsedAt(k)
    BY <1>2, <1>3, <2>2 DEF HeldAt, GivenAt, UsedAt
  <2> QED BY <2>1, <2>3 DEF TurnTokens
<1> QED BY <1>2, <1>3

\* A quiet step: nothing, somebody sits down, or the turn is lost.
LEMMA QuietMoves ==
  ASSUME TableInv, TypeOK', Shown, Shown', QuietStep, [Next]_vars
  PROVE  Table!Next \/ Still
<1>0. TypeOK /\ PhaseInv /\ UnseatedInv
  BY DEF TableInv, ViewInv, OnceInv
<1>1. PICK ds \in [Clients -> Nat], dc \in [Clients -> Nat] : Quiet(ds, dc)
  BY DEF QuietStep
<1>2. /\ UNCHANGED <<gameState, currentPlayerTurn, starts>>
      /\ \A k \in Clients :
           IF k \in players' \ players THEN player'[k] = NewPlayer
                                       ELSE SameFate(player'[k], player[k])
  BY <1>1 DEF Quiet
<1>3. CASE starts \notin {0, 1}
  BY <1>2, <1>3, AgainStays
<1>4. CASE starts \in {0, 1}
  <2>1. /\ Seats = players /\ Turn = currentPlayerTurn
        /\ Healths = [c \in Clients |-> player[c].health]
        /\ Seats' = players' /\ Turn' = currentPlayerTurn'
        /\ Healths' = [c \in Clients |-> player'[c].health]
    <3>1. starts <= 1 /\ starts' <= 1
      BY <1>2, <1>4
    <3> QED BY <3>1 DEF Shown
  <2>2. Healths' = Healths /\ Turn' = Turn
    <3>1. ASSUME NEW c \in Clients
          PROVE  player'[c].health = player[c].health
      BY <1>0, <1>2 DEF UnseatedInv, SameFate, NewPlayer
    <3> QED BY <1>2, <2>1, <3>1
  <2>3. Phase' = Phase /\ Phase # "again"
    BY <1>2, <1>4 DEF Shown
  <2>4. \/ Token' = Token
        \/ /\ starts = 1
           /\ Token \in {"given", "held", "used"} /\ Token' = "lost"
           /\ ~(TurnTokens \subseteq TurnTokens')
    <3>1. CASE starts = 0
      BY <1>2, <3>1 DEF Shown
    <3>2. CASE starts = 1
      <4>1. TokenKnown /\ TokenKnown'
        BY <1>2, <3>2 DEF Shown
      <4>2. TokenStep({}, {})
        BY QuietTokens
      <4> QED BY <1>2, <3>2, <4>1, <4>2, TokenStays
    <3> QED BY <1>4, <3>1, <3>2
  <2>5. CASE players' = players
    BY <2>1, <2>2, <2>3, <2>4, <2>5 DEF Table!Next, Table!Lose, Still
  <2>6. CASE players' # players
    <3>1. PICK c \in Clients :
               /\ c \notin players /\ players' = players \cup {c}
               /\ \A t \in TurnTokens : t[1] # c => t \in TurnTokens'
      BY <1>0, <2>6, WhoJoins
    <3>2. starts = 1 => TurnTokens \subseteq TurnTokens'
      <4>1. ASSUME starts = 1, NEW t \in TurnTokens
            PROVE  t[1] \in players
        BY <1>0, <4>1 DEF PhaseInv, Playing, InPhase, Living
      <4> QED BY <3>1, <4>1
    <3>3. Token' = Token
      BY <2>4, <3>2
    <3>4. Table!Join(c)
      BY <2>1, <2>2, <2>3, <3>1, <3>3 DEF Table!Join
    <3> QED BY <3>4 DEF Table!Next
  <2> QED BY <2>5, <2>6
<1> QED BY <1>3, <1>4

\* Nor does what a client learns of the game move anything.
LEMMA LearnsMoves ==
  ASSUME TableInv, TypeOK', Shown, Shown', NEW c \in Clients, Learns(c)
  PROVE  Table!Next \/ Still
<1>1. TypeOK
  BY DEF TableInv, ViewInv, OnceInv
<1>2. UNCHANGED <<gameState, currentPlayerTurn, starts, players, player>>
  BY DEF Learns, serverVars
<1>3. CASE starts = 1
  <2>1. TokenKnown /\ TokenKnown'
    BY <1>2, <1>3 DEF Shown
  <2>2. TokenStep({}, {})
    BY <1>1, LearnsTokens
  <2>3. Token' = Token \/ (Token \in {"given", "held", "used"} /\ Token' = "lost")
    BY <1>2, <2>1, <2>2, TokenStays
  <2>4. UNCHANGED <<Phase, Seats, Turn, Healths>>
    BY <1>2 DEF Phase, Seats, Turn, Healths
  <2> QED BY <2>3, <2>4 DEF Table!Next, Table!Lose, Still
<1>4. CASE starts = 0
  BY <1>2, <1>4 DEF Shown, Still
<1>5. CASE starts \notin {0, 1}
  BY <1>2, <1>5, AgainStays
<1> QED BY <1>3, <1>4, <1>5

\* The player who was given the turn has it.
LEMMA TakesTurnMoves ==
  ASSUME TableInv, TypeOK', Shown, Shown', NEW c \in Clients, TakesTurn(c)
  PROVE  Table!Next \/ Still
<1>1. TypeOK /\ TokensInv /\ PhaseInv
  BY DEF TableInv, ViewInv, OnceInv
<1>2. UNCHANGED <<gameState, currentPlayerTurn, starts, players, player>>
  BY DEF TakesTurn, serverVars
<1>3. CASE starts = 1
  <2>1. TurnTokens = {Given(c, 1)} /\ TurnTokens' \subseteq {Held(c)}
    BY <1>1, <1>3, TakesTurnTokens, OneTurn
  <2>2. Held(c) \in TurnTokens'
    <3>1. myTurn'[c]
      BY <1>1 DEF TakesTurn, OnTakeTurn, TypeOK, ClientTypeOK
    <3>2. 0 \in HeldAt(c)'
      BY <3>1 DEF HeldAt
    <3> QED BY <3>2 DEF TurnTokens, Held
  <2>3. Token = "given"
    BY <1>3, <2>1, TurnTells, KindsOfTurn DEF Shown, Tells
  <2>4. Token' = "held"
    <3>1. TokenKnown' /\ TurnTokens' = {Held(c)}
      BY <1>2, <1>3, <2>1, <2>2 DEF Shown
    <3> QED BY <3>1, TurnTellsAfter, KindsOfTurn DEF Tells
  <2>5. UNCHANGED <<Phase, Seats, Turn, Healths>>
    BY <1>2 DEF Phase, Seats, Turn, Healths
  <2> QED BY <2>3, <2>4, <2>5 DEF Table!Next, Table!Take
<1>4. starts # 0
  BY <1>1, NobodyMoves
<1>5. CASE starts \notin {0, 1}
  BY <1>2, <1>5, AgainStays
<1> QED BY <1>3, <1>4, <1>5

\* The player on turn uses the turn; without a connection it is lost.
LEMMA UsesTurnMoves ==
  ASSUME TableInv, TypeOK', Shown, Shown', NEW c \in Clients, UsesTurn(c)
  PROVE  Table!Next \/ Still
<1>1. TypeOK /\ TokensInv /\ PhaseInv
  BY DEF TableInv, ViewInv, OnceInv
<1>2. UNCHANGED <<gameState, currentPlayerTurn, starts, players, player>>
  BY DEF UsesTurn, serverVars
<1>3. CASE starts = 1
  <2> DEFINE u == Used(c, Len(toServer[c]) + 1)
  <2>1. TurnTokens = {Held(c)} /\ TurnTokens' \subseteq {u}
    BY <1>1, <1>3, UsesTurnTokens, OneTurn
  <2>2. u[2][1] = "used"
    BY DEF Used
  <2> HIDE DEF u
  <2>3. Token = "held"
    BY <1>3, <2>1, TurnTells, KindsOfTurn DEF Shown, Tells
  <2>4. Token' \in {"used", "lost"}
    <3>1. TokenKnown' /\ gameState # "GS_GAME_OVER"
      BY <1>2, <1>3, <2>1 DEF Shown, TokenKnown
    <3> QED BY <1>2, <2>1, <2>2, <3>1 DEF TokenKnown
  <2>5. UNCHANGED <<Phase, Seats, Turn, Healths>>
    BY <1>2 DEF Phase, Seats, Turn, Healths
  <2> QED BY <2>3, <2>4, <2>5 DEF Table!Next, Table!Use, Table!Lose
<1>4. starts # 0
  BY <1>1, NobodyMoves
<1>5. CASE starts \notin {0, 1}
  BY <1>2, <1>5, AgainStays
<1> QED BY <1>3, <1>4, <1>5

\* The game begins, once; a second time is the end of what is promised.
LEMMA StartsMoves ==
  ASSUME TableInv, TypeOK', Shown, Shown', NEW c \in Clients, Starts(c)
  PROVE  Table!Next \/ Still
<1> DEFINE first == Begin(players)
<1>1. TypeOK /\ TokensInv /\ PhaseInv
  BY DEF TableInv, ViewInv, OnceInv
<1>2. /\ UNCHANGED players
      /\ starts' = starts + 1
      /\ gameState' = "GS_CHARACTER_SELECT"
      /\ first \in players
      /\ currentPlayerTurn' = first
      /\ \A k \in Clients : SameFate(player'[k], player[k])
  BY <1>1, StartsShape
<1>3. starts \in Nat
  BY DEF Shown
<1>4. CASE starts = 0
  <2>1. starts' = 1 /\ starts <= 1 /\ starts' <= 1
    BY <1>2, <1>4
  <2>2. /\ Phase = "lobby" /\ Phase' = "select"
        /\ Seats = players /\ Seats' = players
        /\ Turn' = first
    BY <1>2, <1>4, <2>1 DEF Shown
  <2>3. Healths' = Healths
    <3>1. /\ Healths = [k \in Clients |-> player[k].health]
          /\ Healths' = [k \in Clients |-> player'[k].health]
      BY <2>1 DEF Shown
    <3>2. \A k \in Clients : player'[k].health = player[k].health
      BY <1>2 DEF SameFate
    <3> QED BY <3>1, <3>2
  <2>4. Token' \in {"given", "lost"}
    <3>1. PICK i : TokenStep({}, {Given(currentPlayerTurn', i)})
      BY <1>1, StartsTokens
    <3>2. TurnTokens' \subseteq {Given(currentPlayerTurn', i)}
      BY <1>1, <1>4, <3>1, NobodyMoves DEF TokenStep
    <3>3. TokenKnown'
      BY <2>1 DEF Shown
    <3> QED BY <1>2, <3>2, <3>3 DEF TokenKnown, Given
  <2>5. Table!First(Seats) = first
    BY <2>2 DEF Table!First, Begin
  <2> HIDE DEF first
  <2>6. Table!Begin
    BY <1>2, <2>2, <2>3, <2>4, <2>5 DEF Table!Begin, Table!Pass
  <2> QED BY <2>6 DEF Table!Next
<1>5. CASE starts = 1
  <2>1. starts' \notin {0, 1}
    BY <1>2, <1>5
  <2>2. /\ Phase' = "again" /\ Seats' = {} /\ Turn' = 0 /\ Token' = "none"
        /\ Healths' = [k \in Clients |-> InitialHealth]
    BY <2>1 DEF Shown
  <2>3. Phase \notin {"lobby", "again"}
    BY <1>5 DEF Shown
  <2> QED BY <2>2, <2>3 DEF Table!Next, Table!BeginAgain
<1>6. CASE starts \notin {0, 1}
  <2>1. starts' \notin {0, 1}
    BY <1>2, <1>3, <1>6
  <2> QED BY <1>6, <2>1, AgainStays
<1> QED BY <1>4, <1>5, <1>6

\* A turn that arrives was used, and goes to the next player or is lost, or
\* there is none when the game is over.
LEMMA PassedMoves ==
  ASSUME TableInv, TypeOK', Shown, Shown', starts = 1, starts' = 1,
         NEW c \in Clients, ChoiceArrives(c) \/ ActionArrives(c)
  PROVE  /\ Token = "used"
         /\ IF gameState' = "GS_GAME_OVER" THEN Token' = "none"
                                          ELSE Token' \in {"given", "lost"}
<1>1. TypeOK /\ TokensInv /\ Playing
  BY DEF TableInv, ViewInv, OnceInv, PhaseInv
<1>2. PICK N : /\ TokenStep({Used(c, 1)}, N)
               /\ N = {} \/ \E i : N = {Given(currentPlayerTurn', i)}
  BY <1>1, PassedTokens
<1>3. TurnTokens = {Used(c, 1)} /\ TurnTokens' \subseteq N
  BY <1>1, <1>2, PassedTokens, OneTurn
<1>4. Token = "used"
  BY <1>3, TurnTells, KindsOfTurn DEF Shown, Tells
<1>5. TokenKnown'
  BY DEF Shown
<1>6. CASE TurnTokens' = {}
  BY <1>4, <1>5, <1>6 DEF TokenKnown
<1>7. ASSUME NEW i, TurnTokens' = {Given(currentPlayerTurn', i)}
      PROVE  gameState' # "GS_GAME_OVER" /\ Token' = "given"
  BY <1>5, <1>7, TurnTellsAfter, KindsOfTurn DEF Tells
<1>8. TurnTokens' = {} \/ \E i : TurnTokens' = {Given(currentPlayerTurn', i)}
  BY <1>2, <1>3
<1> QED BY <1>4, <1>6, <1>7, <1>8

\* NextTurn ends a turn at the table.
LEMMA NextTurnMoves ==
  ASSUME NamesDiffer, TypeOK, PhaseInv', Shown, Shown',
         starts = 1, starts' = 1, UNCHANGED players,
         NEW q, NextTurn("GS_MAIN", player', q),
         IF gameState' = "GS_GAME_OVER" THEN Token' = "none"
                                       ELSE Token' \in {"given", "lost"},
         NEW h, h = Healths'
  PROVE  Table!EndTurn(h)
<1> DEFINE living == {k \in players : ~player'[k].dead}
           n      == NextAlive(living)
<1>1. starts <= 1 /\ starts' <= 1
  OBVIOUS
<1>2. /\ Seats = players /\ Seats' = players'
      /\ Turn = currentPlayerTurn /\ Turn' = currentPlayerTurn'
  BY <1>1 DEF Shown
<1>3. living = Living' /\ living # {}
  BY DEF Living, PhaseInv, Playing, InPhase
<1>4. Table!Living(h) = living
  <2>1. (NamesDiffer => Table!Living(Healths) = Living)'
    BY <1>1 DEF Shown
  <2>2. {p \in Seats' : Healths'[p] > 0} = Living'
    BY <2>1 DEF Table!Living, NamesDiffer
  <2> QED BY <1>2, <1>3, <2>2 DEF Table!Living
<1>5. n = Table!After(Table!Living(h), Turn)
  <2> HIDE DEF living
  <2> QED BY <1>2, <1>4 DEF Table!After, Table!First, NextAlive, Above, Begin
<1>6. \/ /\ living = {n} /\ currentPlayerTurn' = n
         /\ gameState' = "GS_GAME_OVER"
      \/ /\ living # {n} /\ currentPlayerTurn' = n
         /\ gameState' = "GS_MAIN"
  <2> DEFINE p == player'
  <2>1. NextTurn("GS_MAIN", p, q)
    OBVIOUS
  <2> HIDE DEF p
  <2>2. LET living_1 == {k \in players : ~p[k].dead}
            n_1      == NextAlive(living_1)
         IN  \/ /\ living_1 = {}
                /\ serverStatus' = "spinning" /\ gameState' = "GS_MAIN"
                /\ toClient' = q /\ UNCHANGED currentPlayerTurn
             \/ /\ n_1 \in living_1 /\ n_1 \in Clients
                /\ living_1 = {n_1}
                /\ currentPlayerTurn' = n_1 /\ gameState' = "GS_GAME_OVER"
                /\ toClient' = Broadcast(q, Over) /\ UNCHANGED serverStatus
             \/ /\ n_1 \in living_1 /\ n_1 \in Clients
                /\ \E k \in living_1 : k # n_1
                /\ currentPlayerTurn' = n_1 /\ gameState' = "GS_MAIN"
                /\ toClient' = GiveTurn(q, n_1) /\ UNCHANGED serverStatus
    BY <2>1, NextTurnEnds
  <2> QED BY <1>3, <2>2 DEF p
<1>7. /\ gameState' = "GS_MAIN" => Phase' = "main"
      /\ gameState' = "GS_GAME_OVER" => Phase' = "over"
  BY DEF Shown
<1> HIDE DEF living, n
<1> QED BY <1>2, <1>3, <1>4, <1>5, <1>6, <1>7 DEF Table!EndTurn, Table!Pass

\* The player on turn has chosen a character.
LEMMA ChoiceMoves ==
  ASSUME NamesDiffer, TableInv, TypeOK', PhaseInv', Shown, Shown',
         NEW c \in Clients, ChoiceArrives(c)
  PROVE  Table!Next \/ Still
<1> DEFINE later == Above(players, currentPlayerTurn)
           n     == Begin(later)
           q     == Broadcast(toClient, Main(player'))
<1>1. TypeOK /\ TokensInv /\ PhaseInv
  BY DEF TableInv, ViewInv, OnceInv
<1>2. /\ UNCHANGED <<players, starts>>
      /\ \A k \in Clients : player'[k].health = player[k].health
      /\ \/ /\ later # {}
            /\ currentPlayerTurn' = n
            /\ UNCHANGED gameState
         \/ /\ later = {}
            /\ NextTurn("GS_MAIN", player', q)
  BY <1>1, ChoiceShape
<1>3. starts # 0
  BY <1>1, NobodyMoves
<1>4. CASE starts \notin {0, 1}
  BY <1>2, <1>4, AgainStays
<1>5. CASE starts = 1
  <2>1. starts' = 1 /\ starts <= 1 /\ starts' <= 1
    BY <1>2, <1>5
  <2>2. /\ Token = "used"
        /\ IF gameState' = "GS_GAME_OVER" THEN Token' = "none"
                                         ELSE Token' \in {"given", "lost"}
    BY <1>5, <2>1, PassedMoves
  <2>3. gameState = "GS_CHARACTER_SELECT"
    BY <1>1, <1>5, PassedPhase DEF PhaseInv
  <2>4. /\ Phase = "select"
        /\ Seats = players /\ Seats' = players'
        /\ Turn = currentPlayerTurn /\ Turn' = currentPlayerTurn'
    BY <1>5, <2>1, <2>3 DEF Shown
  <2>5. Healths' = Healths
    <3>1. /\ Healths = [k \in Clients |-> player[k].health]
          /\ Healths' = [k \in Clients |-> player'[k].health]
      BY <2>1 DEF Shown
    <3> QED BY <1>2, <3>1
  <2>6. (\E p \in Seats : p > Turn) <=> later # {}
    BY <2>4 DEF Above
  <2>7. ASSUME later # {}, currentPlayerTurn' = n, UNCHANGED gameState
        PROVE  Table!Choose
    <3>1. n = Table!After(Seats, Turn)
      BY <2>4, <2>7 DEF Table!After, Table!First, Above, Begin
    <3>2. Phase' = Phase
      BY <2>1, <2>3, <2>4, <2>7 DEF Shown
    <3>3. Token' \in {"given", "lost"}
      BY <2>2, <2>3, <2>7
    <3> HIDE DEF later, n
    <3> QED
      BY <1>2, <2>2, <2>4, <2>5, <2>6, <2>7, <3>1, <3>2, <3>3
         DEF Table!Choose, Table!Pass
  <2>8. ASSUME later = {}, NextTurn("GS_MAIN", player', q)
        PROVE  Table!Choose
    <3> HIDE DEF q, later
    <3>1. Table!EndTurn(Healths)
      <4> DEFINE h == Healths
      <4>1. h = Healths'
        BY <2>5
      <4> HIDE DEF h
      <4>2. Table!EndTurn(h)
        BY <1>1, <1>2, <1>5, <2>1, <2>2, <2>8, <4>1, NextTurnMoves
      <4> QED BY <4>2 DEF h
    <3> QED BY <1>2, <2>2, <2>4, <2>5, <2>6, <2>8, <3>1 DEF Table!Choose
  <2> HIDE DEF later, n, q
  <2> QED BY <1>2, <2>7, <2>8 DEF Table!Next
<1> QED BY <1>3, <1>4, <1>5

\* The player on turn has struck or healed one of the living.
LEMMA ActionMoves ==
  ASSUME NamesDiffer, TableInv, TypeOK', PhaseInv', Shown, Shown',
         NEW c \in Clients, ActionArrives(c)
  PROVE  Table!Next \/ Still
<1> DEFINE target == GetPlayerWithName(Head(toServer[c]).target)
           q      == Broadcast(toClient, HealthUpdate(player', target))
<1>1. TypeOK /\ TokensInv /\ PhaseInv /\ ListInv
  BY DEF TableInv, ViewInv, OnceInv
<1>2. /\ UNCHANGED <<players, starts>>
      /\ target \in players /\ Name[target] = Head(toServer[c]).target
      /\ \E diff \in HealthChange(Head(toServer[c]).action) :
           player' = ModifyHealth(player, target, diff)
      /\ NextTurn(gameState, player', q)
      /\ Receive(c, "C_ACTION_TAKEN")
  BY <1>1, ActionShape
<1> HIDE DEF q, target
<1>3. starts # 0
  BY <1>1, NobodyMoves
<1>4. CASE starts \notin {0, 1}
  BY <1>2, <1>4, AgainStays
<1>5. CASE starts = 1
  <2>1. starts' = 1 /\ starts <= 1 /\ starts' <= 1
    BY <1>2, <1>5
  <2>2. /\ Token = "used"
        /\ IF gameState' = "GS_GAME_OVER" THEN Token' = "none"
                                         ELSE Token' \in {"given", "lost"}
    BY <1>5, <2>1, PassedMoves
  <2>3. gameState = "GS_MAIN"
    BY <1>1, <1>5, PassedPhase DEF PhaseInv
  <2>4. /\ Phase = "main"
        /\ Seats = players /\ Seats' = players'
    BY <1>5, <2>1, <2>3 DEF Shown
  <2>5. /\ players \in SUBSET Clients
        /\ toServer[c] \in Seq(ToServer) /\ toServer[c] # <<>>
        /\ Head(toServer[c]).id = "C_ACTION_TAKEN"
        /\ player \in [Clients -> Player]
    BY <1>1, <1>2 DEF TypeOK, ServerTypeOK, TransportTypeOK, Receive
  <2>6. PICK diff \in HealthChange(Head(toServer[c]).action) :
               player' = ModifyHealth(player, target, diff)
    BY <1>2
  <2>7. diff \in UNION {HealthChange(a) : a \in Action}
    <3>1. Head(toServer[c]) \in ToServer
      BY <2>5, HeadTailProperties
    <3>2. Head(toServer[c]).action \in Action
      BY <2>5, <3>1 DEF ToServer
    <3> QED BY <2>6, <3>2
  <2>8. target \in Table!Living(Healths)
    <3>1. 1 \in DOMAIN toServer[c] /\ Head(toServer[c]) = toServer[c][1]
      BY <2>5, LenProperties, EmptySeq, HeadTailProperties
    <3>2. 1 \in UsedAt(c)
      BY <2>5, <3>1 DEF UsedAt, TurnRequests
    <3>3. Unique(target) /\ Told
      BY <1>1, <1>2, <2>1, <2>5 DEF NamesDiffer, Unique, ListInv
    <3>4. ~player[target].dead
      BY <1>2, <2>5, <3>1, <3>2, <3>3 DEF Told, AimsAtTheLiving
    <3>5. Table!Living(Healths) = Living
      BY <2>1 DEF Shown
    <3> QED BY <1>2, <3>4, <3>5 DEF Living
  <2>9. Healths' = [Healths EXCEPT ![target] = @ + diff]
    <3>1. /\ Healths = [k \in Clients |-> player[k].health]
          /\ Healths' = [k \in Clients |-> player'[k].health]
      BY <2>1 DEF Shown
    <3>2. ASSUME NEW k \in Clients
          PROVE  player'[k].health =
                   IF k = target THEN player[k].health + diff
                                 ELSE player[k].health
      <4>1. k # target => player'[k] = player[k]
        BY <2>5, <2>6 DEF ModifyHealth
      <4>2. k = target => player'[k] = Changed(player[k], diff)
        BY <2>5, <2>6 DEF ModifyHealth
      <4>3. Changed(player[k], diff).health = player[k].health + diff
        <5>1. player[k] \in Player
          BY <2>5
        <5> QED BY <5>1 DEF Changed, Player
      <4> QED BY <4>1, <4>2, <4>3
    <3>3. target \in Clients
      BY <1>2, <2>5
    <3> QED BY <3>1, <3>2, <3>3
  <2>10. Table!EndTurn(Healths')
    <3> DEFINE h == Healths'
    <3>1. h = Healths'
      OBVIOUS
    <3> HIDE DEF h
    <3>2. Table!EndTurn(h)
      BY <1>1, <1>2, <1>5, <2>1, <2>2, <2>3, <3>1, NextTurnMoves
    <3> QED BY <3>2 DEF h
  <2>11. Table!Strike(target, diff)
    BY <1>2, <2>2, <2>4, <2>9, <2>10 DEF Table!Strike
  <2> QED BY <2>7, <2>8, <2>11 DEF Table!Next
<1> QED BY <1>3, <1>4, <1>5

-------------------------------------------------------------------------------
(* The theorems.                                                           *)

\* Nobody's health changes before the player sits at the table.
LEMMA UnseatedStep ==
  ASSUME PlainNames, TypeOK, TypeOK', UnseatedInv, [Next]_vars
  PROVE  UnseatedInv'
<1>1. ASSUME QuietStep
      PROVE  UnseatedInv'
  <2>1. /\ players \subseteq players'
        /\ \A k \in Clients :
             IF k \in players' \ players THEN player'[k] = NewPlayer
                                         ELSE SameFate(player'[k], player[k])
    BY <1>1 DEF QuietStep, Quiet
  <2> QED BY <2>1 DEF UnseatedInv, SameFate
<1>2. ASSUME NEW c \in Clients, Starts(c)
      PROVE  UnseatedInv'
  BY <1>2, StartsShape DEF UnseatedInv, SameFate
<1>3. ASSUME NEW c \in Clients, ChoiceArrives(c)
      PROVE  UnseatedInv'
  <2>1. players' = players /\ \A k \in Clients : player'[k].health = player[k].health
    BY <1>3, ChoiceShape
  <2> QED BY <2>1 DEF UnseatedInv
<1>4. ASSUME NEW c \in Clients, ActionArrives(c)
      PROVE  UnseatedInv'
  <2> DEFINE target == GetPlayerWithName(Head(toServer[c]).target)
  <2>1. /\ players' = players /\ target \in players
        /\ \E diff : player' = ModifyHealth(player, target, diff)
    BY <1>4, ActionShape
  <2> HIDE DEF target
  <2>2. player \in [Clients -> Player]
    BY DEF TypeOK, ServerTypeOK
  <2>3. \A k \in Clients : k # target => player'[k] = player[k]
    BY <2>1, <2>2 DEF ModifyHealth
  <2> QED BY <2>1, <2>3 DEF UnseatedInv
<1>5. ASSUME NEW c \in Clients, Learns(c) \/ TakesTurn(c) \/ UsesTurn(c)
      PROVE  UnseatedInv'
  <2>1. players' = players /\ player' = player
    BY <1>5 DEF Learns, TakesTurn, UsesTurn, serverVars
  <2> QED BY <2>1 DEF UnseatedInv
<1> QED BY <1>1, <1>2, <1>3, <1>4, <1>5, StepKinds

\* The invariant of the refinement.
LEMMA TableStep == PlainNames /\ TableInv /\ [Next]_vars => TableInv'
<1> SUFFICES ASSUME PlainNames, TableInv, [Next]_vars
             PROVE  TableInv'
  OBVIOUS
<1>1. ViewInv /\ UnseatedInv /\ TypeOK
  BY DEF TableInv, ViewInv, OnceInv
<1>2. ViewInv'
  BY <1>1, ViewStep
<1>3. TypeOK'
  BY <1>2 DEF ViewInv, OnceInv
<1>4. UnseatedInv'
  BY <1>1, <1>3, UnseatedStep
<1> QED BY <1>2, <1>4 DEF TableInv

\* What a step of the programs is at the table.
LEMMA StepMoves ==
  ASSUME PlainNames, NamesDiffer, TableInv, TableInv', Shown, Shown',
         [Next]_vars
  PROVE  [Table!Next]_(Table!vars)
<1>0. TypeOK /\ TypeOK' /\ PhaseInv'
  BY DEF TableInv, ViewInv, OnceInv
<1>1. ASSUME QuietStep
      PROVE  Table!Next \/ Still
  BY <1>0, <1>1, QuietMoves
<1>2. ASSUME NEW c \in Clients,
             \/ Starts(c) \/ ChoiceArrives(c) \/ ActionArrives(c)
             \/ Learns(c) \/ TakesTurn(c) \/ UsesTurn(c)
      PROVE  Table!Next \/ Still
  <2>1. CASE Starts(c)
    BY <1>0, <2>1, StartsMoves
  <2>2. CASE ChoiceArrives(c)
    BY <1>0, <2>2, ChoiceMoves
  <2>3. CASE ActionArrives(c)
    BY <1>0, <2>3, ActionMoves
  <2>4. CASE Learns(c)
    BY <1>0, <2>4, LearnsMoves
  <2>5. CASE TakesTurn(c)
    BY <1>0, <2>5, TakesTurnMoves
  <2>6. CASE UsesTurn(c)
    BY <1>0, <2>6, UsesTurnMoves
  <2> QED BY <1>2, <2>1, <2>2, <2>3, <2>4, <2>5, <2>6
<1>3. Table!Next \/ Still
  BY <1>0, <1>1, <1>2, StepKinds
<1> QED BY <1>3 DEF Still, Table!vars

\* The table at the start.
LEMMA TableInit == Init => TableInv /\ Table!Init
<1> SUFFICES ASSUME Init PROVE TableInv /\ Table!Init
  OBVIOUS
<1>1. TableInv
  <2>1. ViewInv
    BY TypeInit, FreshInit, TokensInit, PhaseInit, TurnInit, ListInit
       DEF ViewInv, OnceInv
  <2>2. UnseatedInv
    BY DEF Init, ServerInit, UnseatedInv, NewPlayer
  <2> QED BY <2>1, <2>2 DEF TableInv
<1>2. Table!Init
  <2>1. Shown
    BY <1>1, TableShown DEF TableInv
  <2>2. /\ starts = 0 /\ starts <= 1 /\ players = {} /\ currentPlayerTurn = 0
        /\ \A c \in Clients : player[c].health = InitialHealth
    BY DEF Init, ServerInit, NewPlayer
  <2>3. Healths = [c \in Clients |-> InitialHealth]
    BY <2>1, <2>2 DEF Shown
  <2> QED BY <2>1, <2>2, <2>3 DEF Shown, Table!Init
<1> QED BY <1>1, <1>2

\* Everything the server, its clients and the network between them do is a
\* move of TurnGame or none, up to a second start of the game: there is one
\* turn, only the player it is with uses it, and it goes to the next of the
\* living, whoever is struck is alive, and the last of the living wins.
THEOREM RefinesSteps ==
  ASSUME PlainNames, NamesDiffer
  PROVE  Spec => MovesOfTheTable
<1>1. Init => TableInv
  BY TableInit
<1>2. TableInv /\ [Next]_vars => TableInv'
  BY TableStep
<1>3. TableInv => Shown
  BY TableShown DEF TableInv
<1>4. TableInv /\ TableInv' /\ Shown /\ Shown' /\ [Next]_vars
        => [Table!Next]_(Table!vars)
  BY StepMoves
<1> QED BY <1>1, <1>2, <1>3, <1>4, PTL DEF Spec, MovesOfTheTable

\* And the first state is the table before anybody has sat down: the program
\* implements TurnGame.
THEOREM RefinesTheTable ==
  ASSUME PlainNames, NamesDiffer
  PROVE  Spec => PlaysTheTable
<1>1. Init => Table!Init
  BY TableInit
<1>2. Spec => [][Table!Next]_(Table!vars)
  BY RefinesSteps DEF MovesOfTheTable
<1> QED BY <1>1, <1>2, PTL DEF Spec, PlaysTheTable, Table!Spec

===============================================================================
