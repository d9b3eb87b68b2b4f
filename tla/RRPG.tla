--------------------------------- MODULE RRPG ---------------------------------
(***************************************************************************)
(* The whole game: one server, its clients, and the connections between    *)
(* them.  Every step is one handler, one typed line or one event of the    *)
(* transport; they interleave freely.                                      *)
(***************************************************************************)
EXTENDS Server, Client

CONSTANT
  MaxLosses,  \* bound: clients whose process ends
  Overtaken   \* bound: clients whose packet thread may run before their main
              \* thread is back from Connect

ASSUME LossesAssumption == MaxLosses \in Nat /\ Overtaken \subseteq Clients

vars == <<serverVars, clientVars, transportVars>>

Init == ServerInit /\ ClientInit /\ TransportInit

\* What neither program decides: RakNet's answers, and clients that go away.
Environment(c) ==
  \/ /\ cMain[c] = "done" \/ c \in Overtaken
     /\ Accept(c, Listening)
     /\ UNCHANGED <<serverVars, clientVars>>
  \/ Refuse(c, Listening) /\ UNCHANGED <<serverVars, clientVars>>
  \/ /\ Cardinality({k \in Clients : ~Alive(k)}) < MaxLosses
     /\ Vanish(c)
     /\ UNCHANGED <<serverVars, clientVars>>
  \/ TimeOut(c) /\ UNCHANGED <<serverVars, clientVars>>

Next ==
  \/ GameLoop /\ UNCHANGED clientVars
  \/ \E c \in Clients :
       \/ PacketHandler(c) /\ UNCHANGED clientVars
       \/ Connect(c) /\ UNCHANGED serverVars
       \/ SetPending(c) /\ UNCHANGED serverVars
       \/ ClientPackets(c) /\ UNCHANGED serverVars
       \/ InputHandler(c) /\ UNCHANGED serverVars
       \/ Environment(c)

Spec == Init /\ [][Next]_vars

(***************************************************************************)
(* The threads loop without ever waiting, and RakNet hands every packet of *)
(* a connection over: each of them gets on.  Players need not do anything. *)
(***************************************************************************)
Threads ==
  /\ WF_vars(GameLoop /\ UNCHANGED clientVars)
  /\ \A c \in Clients :
       /\ WF_vars(PacketHandler(c) /\ UNCHANGED clientVars)
       /\ WF_vars(SetPending(c) /\ UNCHANGED serverVars)
       /\ WF_vars(ClientPackets(c) /\ UNCHANGED serverVars)

\* A player who is asked to choose a character does.
PlayersChoose ==
  \A c \in Clients : WF_vars(ChooseJob(c) /\ UNCHANGED serverVars)

FairSpec == Spec /\ Threads /\ PlayersChoose

TypeOK == ServerTypeOK /\ ClientTypeOK /\ TransportTypeOK

===============================================================================
