------------------------------- MODULE Startup -------------------------------
(***************************************************************************)
(* How a server (server.cpp, Server::Start and GameLoop) and its clients   *)
(* (RRPG.cpp, RRPG::GameLoop) get a UDP port, when they and other programs *)
(* share a machine: each looks for a port nobody uses, counting up from    *)
(* the one typed, and binds it later.  The operating system and            *)
(* RakPeerInterface::Startup are external.                                 *)
(***************************************************************************)
EXTENDS Integers, FiniteSets

CONSTANTS
  Servers, ClientPrograms,  \* the programs on the machine
  Typed,         \* the port each user types, an unsigned int
  PortLimit,     \* 65536 in the code: an unsigned short holds less; at least 2
  NoPort,
  AssertsIn,     \* the programs built with asserts: a client built for
                 \* release defines NDEBUG (RRPG.vcxproj:126, 144)
  MaxOthers      \* bound: how often other programs take or leave a port

Programs == Servers \cup ClientPrograms
Ports == 0 .. PortLimit - 1

VARIABLES
  at,       \* where each program's main thread is
  port,     \* Server::port, an unsigned int, or the client's
            \* socketDescriptor.port, an unsigned short
  said,     \* the port each server has printed
  bound,    \* the port each program's RakPeer has been started on
  others,   \* the ports other programs use
  events    \* bound: what they have done so far

vars == <<at, port, said, bound, others, events>>

\* What a 16 bit parameter makes of a port number.
Short(n) == n % PortLimit

Taken == others \cup {bound[p] : p \in {q \in Programs : bound[q] # NoPort}}

\* IsPortInUse binds the port and lets go of it: port 0 can always be bound.
IsPortInUse(n) == Short(n) \in Taken \ {0}

TypeOK ==
  /\ at \in [Programs -> {"scan", "startup", "connect", "loop", "aborted"}]
  /\ port \in [Programs -> Nat]
  /\ \A p \in ClientPrograms : port[p] \in Ports
  /\ said \in [Servers -> Nat \cup {NoPort}]
  /\ bound \in [Programs -> Ports \cup {NoPort}]
  /\ others \in SUBSET (Ports \ {0})
  /\ events \in 0..MaxOthers

Init ==
  /\ at = [p \in Programs |-> "scan"]
  /\ port = [p \in Programs |-> IF p \in Servers THEN Typed[p]
                                                 ELSE Short(Typed[p])]
  /\ said = [s \in Servers |-> NoPort]
  /\ bound = [p \in Programs |-> NoPort]
  /\ others \in {S \in SUBSET (Ports \ {0}) : Cardinality(S) < PortLimit - 1}
  /\ events = 0

-------------------------------------------------------------------------------

Goto(p, place) == at' = [at EXCEPT ![p] = place]

\* Slip: zero is no port to try.
NextPortNotZero(p) ==
  IF Short(port[p] + 1) = 0 THEN port[p] ELSE port[p] + 1

\* port++, in the server's unsigned int or the client's unsigned short.
NextPort(p) == IF p \in Servers THEN port[p] + 1 ELSE Short(port[p] + 1)

\* One round of the loop that looks for a port.  The server prints the one it
\* has found, before it binds it.
Scan(p) ==
  /\ at[p] = "scan"
  /\ \/ /\ IsPortInUse(port[p])
        /\ port' = [port EXCEPT ![p] = NextPort(p)]
        /\ UNCHANGED <<at, said>>
     \/ /\ ~IsPortInUse(port[p])
        /\ Goto(p, "startup")
        /\ said' = IF p \in Servers THEN [said EXCEPT ![p] = port[p]] ELSE said
        /\ UNCHANGED port
  /\ UNCHANGED <<bound, others, events>>

\* Slip: the port typed, not the one found.
PortTyped(p) == Typed[p]

\* The port of the socket descriptor.
PortToBind(p) == port[p]

\* What Startup can bind when it is asked for port n: zero leaves the choice
\* to the system.
Bindable(n) ==
  IF Short(n) = 0 THEN (Ports \ {0}) \ Taken ELSE {Short(n)} \ Taken

\* The call of Startup stands inside an assert: without asserts there is none.
CallStartup(p) ==
  LET next == IF p \in Servers THEN "loop" ELSE "connect"
  IN
  /\ at[p] = "startup"
  /\ \/ /\ p \in AssertsIn
        /\ \E n \in Bindable(PortToBind(p)) :
             bound' = [bound EXCEPT ![p] = n]
        /\ Goto(p, next)
     \/ /\ p \in AssertsIn
        /\ Bindable(PortToBind(p)) = {}
        /\ Goto(p, "aborted")
        /\ UNCHANGED bound
     \/ /\ p \notin AssertsIn
        /\ Goto(p, next)
        /\ UNCHANGED bound
  /\ UNCHANGED <<port, said, others, events>>

\* The client says that it attempts a connection, and from then on waits.
Connect(p) ==
  /\ at[p] = "connect"
  /\ Goto(p, "loop")
  /\ UNCHANGED <<port, said, bound, others, events>>

\* Another program takes a port, or leaves one.
Other(n) ==
  /\ events < MaxOthers
  /\ events' = events + 1
  /\ \/ n \notin Taken /\ others' = others \cup {n}
     \/ n \in others /\ others' = others \ {n}
  /\ UNCHANGED <<at, port, said, bound>>

MainThread(p) == Scan(p) \/ CallStartup(p) \/ (p \in ClientPrograms /\ Connect(p))

Next ==
  \/ \E p \in Programs : MainThread(p)
  \/ \E n \in Ports \ {0} : Other(n)

Spec == Init /\ [][Next]_vars

\* Nothing in a main thread waits for anything.
Fairness == \A p \in Programs : WF_vars(MainThread(p))

FairSpec == Spec /\ Fairness

-------------------------------------------------------------------------------
(* Properties.                                                             *)

\* The port a server has printed, and a player types to reach it, is the one
\* it listens on, if the port is not counted up to 65536 or given as zero: then
\* the check passes, for the system can always bind port 0, and the server
\* prints 65536 or 0 and listens elsewhere (server.cpp:53-56, 439).
PrintedPortIsOpen ==
  \A s \in Servers :
    bound[s] # NoPort /\ said[s] \in Ports \ {0} => bound[s] = said[s]

\* However other programs come and go, the search for a port ends: in the
\* worst case it counts through to port 0 (server.cpp:53-54, RRPG.cpp:512-513).
SearchEnds == \A p \in Programs : <>(at[p] # "scan")

\* A port is found, and it is the one that was said.
PortsFound == []PrintedPortIsOpen /\ SearchEnds

===============================================================================
