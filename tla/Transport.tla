------------------------------ MODULE Transport -------------------------------
(***************************************************************************)
(* RakNet as the program uses it: one connection per client, and on it     *)
(* every message goes out RELIABLE_ORDERED on channel 0, so each direction *)
(* is a lossless FIFO queue while the connection lasts.  RakNet itself is  *)
(* a prebuilt library; this module models only what src/ relies on.        *)
(***************************************************************************)
EXTENDS Protocol

VARIABLES
  link,      \* the state of each client's connection, as the server sees it
  toServer,  \* packets from each client the server has not received yet
  toClient   \* packets to each client it has not received yet

transportVars == <<link, toServer, toClient>>

\* "dead" is a connection whose client is gone and that has not timed out,
\* "gone" one that has; "closed" is one the server closed on a live client.
LinkState ==
  {"none", "connecting", "open", "dead", "gone", "closed", "refused"}

TransportTypeOK ==
  /\ link \in [Clients -> LinkState]
  /\ toServer \in [Clients -> Seq(ToServer)]
  /\ toClient \in [Clients -> Seq(ToClient)]

TransportInit ==
  /\ link = [c \in Clients |-> "none"]
  /\ toServer = [c \in Clients |-> <<>>]
  /\ toClient = [c \in Clients |-> <<>>]

\* Send with broadcast = true: to every connected system.
Broadcast(q, m) ==
  [c \in Clients |-> IF link[c] = "open" THEN Append(q[c], m) ELSE q[c]]

\* Send to one address: goes nowhere when that system is not connected.
SendTo(q, c, m) ==
  IF link[c] = "open" THEN [q EXCEPT ![c] = Append(@, m)] ELSE q

\* The client's Send to its only connection.
Post(c, m) ==
  toServer' = IF link[c] = "open"
              THEN [toServer EXCEPT ![c] = Append(@, m)]
              ELSE toServer

\* What a cut connection can leave of a queue: some prefix of it.
Prefixes(q) == {SubSeq(q, 1, n) : n \in 0..Len(q)}

\* Whether the client's process still runs.
Alive(c) == link[c] \notin {"dead", "gone"}

SlotsInUse == {c \in Clients : link[c] \in {"open", "dead"}}

-------------------------------------------------------------------------------

\* RakNet accepts a pending connection while the server listens and a slot of
\* SetMaximumIncomingConnections(EXPECTED_PLAYERS) is free; both ends get an
\* event, the server's ahead of anything the client sends.
Accept(c, listening) ==
  /\ link[c] = "connecting"
  /\ listening
  /\ Cardinality(SlotsInUse) < EXPECTED_PLAYERS
  /\ link' = [link EXCEPT ![c] = "open"]
  /\ toServer' = [toServer EXCEPT
                    ![c] = Append(@, Plain("ID_NEW_INCOMING_CONNECTION"))]
  /\ toClient' = [toClient EXCEPT
                    ![c] = Append(@, Plain("ID_CONNECTION_REQUEST_ACCEPTED"))]

\* No server, or no free slot: the client prints the notice and never retries.
Refuse(c, listening) ==
  /\ link[c] = "connecting"
  /\ ~listening \/ Cardinality(SlotsInUse) >= EXPECTED_PLAYERS
  /\ link' = [link EXCEPT ![c] = "refused"]
  /\ UNCHANGED <<toServer, toClient>>

\* The client's process ends.  It never calls Shutdown, so the server hears
\* nothing, and what the client had sent may have got out only in part.
Vanish(c) ==
  /\ link[c] = "open"
  /\ link' = [link EXCEPT ![c] = "dead"]
  /\ \E kept \in Prefixes(toServer[c]) :
       toServer' = [toServer EXCEPT ![c] = kept]
  /\ toClient' = [toClient EXCEPT ![c] = <<>>]

\* RakNet gives up on a silent client, frees its slot and tells the server.
TimeOut(c) ==
  /\ link[c] = "dead"
  /\ link' = [link EXCEPT ![c] = "gone"]
  /\ toServer' = [toServer EXCEPT
                    ![c] = Append(@, Plain("ID_CONNECTION_LOST"))]
  /\ UNCHANGED toClient

===============================================================================
