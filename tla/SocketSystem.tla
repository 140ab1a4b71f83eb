---------------------------- MODULE SocketSystem ----------------------------
(***************************************************************************)
(* One process that runs test/serverSocket.js and client processes that    *)
(* run test/clientSocket.js, over TCP.                                     *)
(***************************************************************************)
EXTENDS Integers, Sequences, FiniteSets

CONSTANTS Clients, Fds, MaxSend, MayClose, MaxSignals, None  \* see the two modules

ASSUME ClientsAssumption == IsFiniteSet(Clients) /\ {None, "other"} \cap Clients = {}
ASSUME FdsAssumption == Fds \subseteq Nat /\ IsFiniteSet(Fds)
ASSUME BoundsAssumption == MaxSend \in Nat /\ MaxSignals \in Nat /\ MayClose \in BOOLEAN

VARIABLES
  srv, freed, signals, owner, sockMap, socketEvents,   \* the server, see ServerSocket
  pending, toServer, toClient, gone,          \* the connections
  client, events, typed               \* the clients, see ClientSocket

S == INSTANCE ServerSocket
C == INSTANCE ClientSocket

serverVars == <<srv, freed, signals, owner, sockMap, socketEvents>>
netVars == <<pending, toServer, toClient, gone>>
clientVars == <<client, events, typed>>
vars == <<serverVars, netVars, clientVars>>

TypeOK == S!ServerTypeOK /\ C!ClientTypeOK

Init == S!ServerInit /\ C!ClientInit

ServerSide == S!ServerNext /\ UNCHANGED clientVars
ClientSide(c) == C!ClientNext(c) /\ UNCHANGED serverVars

Next == ServerSide \/ \E c \in Clients : ClientSide(c)

Spec == Init /\ [][Next]_vars

\* The server's loop and each client's loop handle what is ready: libevent runs
\* every active event of a round, so none of several connections is passed over.
\* Nobody is forced to type, to interrupt the server or to connect.
Fairness ==
  /\ \A c \in Clients : WF_vars(S!AcceptConn(c) /\ UNCHANGED clientVars)
  /\ \A f \in Fds : WF_vars(S!OnServerRead(f) /\ UNCHANGED clientVars)
  /\ WF_vars(S!ServerExit /\ UNCHANGED clientVars)
  /\ \A c \in Clients : WF_vars(C!ClientStep(c) /\ UNCHANGED serverVars)

FairSpec == Spec /\ Fairness

-----------------------------------------------------------------------------
(* Properties.                                                             *)

\* Where the server's loop stands, the clients it keeps a Socket for, and all it has
\* ever accepted: a descriptor stays open (serverSocket.cpp:51-58).
Phase == IF srv = "up" THEN "open" ELSE IF srv = "exiting" THEN "closing" ELSE "closed"
Members == {owner[f] : f \in sockMap}
Joined == {c \in Clients : \E f \in Fds : owner[f] = c}

\* Descriptors, events and both tables together are no more than a set of members
\* (ServerContract): what a client sends is answered to it alone or, where line 79
\* loops over sockMap, to each member once, the sender told apart from the others;
\* nobody who is not a member gets anything.
Contract == INSTANCE ServerContract WITH
  phase <- Phase,
  released <- freed,
  waiting <- pending,
  joined <- Joined,
  members <- Members,
  inbox <- toServer,
  outbox <- toClient

ImplementsServerContract == Contract!Spec

\* A client that has gone is forgotten: the server does not keep a Socket for it
\* or wait for it.
EndIsSeen ==
  \A c \in Clients :
    c \in gone ~> srv # "up" \/ freed \/ \A f \in sockMap : owner[f] # c

\* What a client says is received by a server that goes on, in however many pieces
\* and beside whatever other clients, unless the client waits for a descriptor: one
\* of a client that ended stays open (serverSocket.cpp:51-58), so that as many
\* clients as there are free descriptors may ever come.
SaidIsReceived ==
  \A c \in Clients :
    toServer[c] # <<>> ~>
      \/ toServer[c] = <<>> \/ c \in gone \/ srv # "up" \/ freed
      \/ c \in pending /\ \A f \in Fds : owner[f] # None

\* A client that finds the server's notice by itself stops reading and ends
\* (clientSocket.cpp:40); one that finds it in one piece with an earlier answer
\* does not recognise it.
LoneNoticeEndsClient ==
  \A c \in Clients :
    srv = "down" /\ client[c] = "open" /\ toClient[c] = <<"offline">> /\ toServer[c] = <<>>
      ~> client[c] # "open"
=============================================================================
