---------------------------- MODULE ServerSocket ----------------------------
(***************************************************************************)
(* The server side of src/Socket: ServerSocket and the part of Socket it   *)
(* uses.  Its handlers are callbacks of one libevent loop, so each runs to *)
(* its end before the next; what varies is the order of connections, of    *)
(* the bytes that arrive and of the ends of the peers, and what the script *)
(* does in the callbacks that the handlers call.                           *)
(*                                                                         *)
(* A connection is an element of Clients.  TCP is a sequence of messages   *)
(* each way; a recv takes any number of those that have arrived, in one    *)
(* piece.  A message is whole: its bytes are not split between two recvs.  *)
(***************************************************************************)
EXTENDS Integers, Sequences, FiniteSets

CONSTANTS
  Clients,   \* connections
  Fds,       \* descriptors that accept(2) may give out
  MayClose,  \* the script calls close() of the server object
  MaxSignals,\* SIGINTs the process gets
  None       \* no connection

VARIABLES
  srv,          \* "up", "exiting" (event_base_loopexit was called) or "down"
  freed,        \* the ServerSocket object was freed
  signals,      \* SIGINTs handled
  owner,        \* the connection each descriptor is open for, or "other"
  sockMap,      \* keys of ServerSocket::sockMap
  socketEvents, \* descriptors whose read event is in the event base
  pending,      \* connections that wait in the listener's backlog
  toServer,     \* what each client has sent and the server has not received
  toClient,     \* and the other way
  gone          \* connections the client has closed

serverVars == <<srv, freed, signals, owner, sockMap, socketEvents>>
netVars == <<pending, toServer, toClient, gone>>

Requests == {"msg", "all", "close"}
Replies == {"reply", "back", "close", "offline"}

ServerTypeOK ==
  /\ srv \in {"up", "exiting", "down"}
  /\ freed \in BOOLEAN /\ signals \in 0..MaxSignals
  /\ owner \in [Fds -> Clients \cup {None, "other"}]
  /\ sockMap \subseteq Fds /\ socketEvents \subseteq Fds
  /\ pending \subseteq Clients /\ gone \subseteq Clients
  /\ toServer \in [Clients -> Seq(Requests)]
  /\ toClient \in [Clients -> Seq(Replies)]

\* The script has constructed the server and reached the event loop; some of the
\* descriptors are open for other things.
ServerInit ==
  /\ srv = "up" /\ freed = FALSE /\ signals = 0
  /\ \E used \in SUBSET Fds : owner = [f \in Fds |-> IF f \in used THEN "other" ELSE None]
  /\ sockMap = {} /\ socketEvents = {}
  /\ pending = {} /\ gone = {}
  /\ toServer = [c \in Clients |-> <<>>]
  /\ toClient = [c \in Clients |-> <<>>]

LoopRuns == srv \in {"up", "exiting"}

\* The kernel gives out the lowest descriptor that is not open.
IsNextFd(f) == owner[f] = None /\ \A g \in Fds : owner[g] = None => f <= g

\* The first n messages of a stream, and what is left.
Taken(s, n) == SubSeq(s, 1, n)
Left(s, n) == SubSeq(s, n + 1, Len(s))

\* Send say[f] on each descriptor f of fs; a peer that has gone gets nothing.
Send(fs, say) ==
  toClient' = [c \in Clients |->
    IF c \notin gone /\ \E f \in fs : owner[f] = c
    THEN Append(toClient[c], say[CHOOSE f \in fs : owner[f] = c])
    ELSE toClient[c]]

\* A callback of a handler may close the server object.
Callback == freed' = freed \/ (MayClose /\ freed' = TRUE)

\* The handler goes on with the object it was registered with.  If that was freed,
\* before or by its callback, what it reads there is as it was or the process
\* crashes.
Crash ==
  /\ Callback /\ freed'
  /\ srv' = "down" /\ socketEvents' = {}
  /\ UNCHANGED <<signals, owner, sockMap, pending, toClient, gone>>

BadAcceptConn(c) ==
  /\ LoopRuns
  /\ c \in pending
  /\ \E f \in Fds :
       /\ IsNextFd(f)
       /\ owner' = [owner EXCEPT ![f] = c]
       /\ sockMap' = sockMap \cup {f}
  /\ pending' = pending \ {c}
  /\ Callback
  /\ UNCHANGED <<srv, signals, socketEvents, toServer, toClient, gone>>

\* accept_conn_cb: onConnect is called between lines 99 and 107
AcceptConn(c) ==
  /\ LoopRuns
  /\ c \in pending
  /\ \/ Crash /\ UNCHANGED toServer
     \/ /\ \E f \in Fds :
             /\ IsNextFd(f)
             /\ owner' = [owner EXCEPT ![f] = c]
             /\ sockMap' = sockMap \cup {f}
             /\ socketEvents' = socketEvents \cup {f}
        /\ pending' = pending \ {c}
        /\ Callback
        /\ UNCHANGED <<srv, signals, toServer, toClient, gone>>

BadDisconnect(f) ==
  /\ socketEvents' = socketEvents \ {f}
  /\ UNCHANGED <<srv, signals, owner, sockMap, netVars>>

\* onServerRead, recv returned 0 or -1: lines 51-53; the descriptor stays open
Disconnect(f) ==
  /\ sockMap' = sockMap \ {f}
  /\ socketEvents' = socketEvents \ {f}
  /\ UNCHANGED <<srv, signals, owner, netVars>>

BadEcho(f, data) == Send({f}, [g \in Fds |-> Head(data)])

BadReply(f, data) ==
  LET reply == IF data = <<"close">> THEN "close" ELSE "reply"
  IN  Send(sockMap, [g \in Fds |-> IF g = f THEN "back" ELSE reply])

\* onServerRead, lines 67-82: an answer to the sender, or to every connection
Reply(f, data) ==
  LET reply == IF data = <<"close">> THEN "close" ELSE "reply"
  IN  IF Head(data) = "all"
      THEN Send(sockMap, [g \in Fds |-> IF g = f THEN "back" ELSE reply])
      ELSE Send({f}, [g \in Fds |-> reply])

\* n of the messages of c are received
Recv(c, n) == toServer' = [toServer EXCEPT ![c] = Left(@, n)]

\* onServerRead, with onDisconnect after the tables and onData before the answer.
\* The end of the peer may be seen before all it has sent, when the connection was
\* reset.
OnServerRead(f) ==
  /\ LoopRuns
  /\ f \in socketEvents
  /\ LET c == owner[f] IN
       /\ toServer[c] # <<>> \/ c \in gone
       /\ \/ Crash /\ ((freed /\ UNCHANGED toServer) \/ \E n \in 1..Len(toServer[c]) : Recv(c, n))
          \/ c \in gone /\ Disconnect(f) /\ Callback
          \/ /\ \E n \in 1..Len(toServer[c]) :
                  Recv(c, n) /\ Reply(f, Taken(toServer[c], n))
             /\ Callback
             /\ UNCHANGED <<srv, signals, owner, sockMap, socketEvents, pending, gone>>

\* sighup_function, on SIGINT; the loop ends after a round more, in which another
\* SIGINT may come
Sighup ==
  /\ LoopRuns
  /\ signals < MaxSignals
  /\ \/ freed /\ Crash /\ UNCHANGED toServer
     \/ /\ Send(sockMap, [f \in Fds |-> "offline"])
        /\ srv' = "exiting"
        /\ signals' = signals + 1
        /\ UNCHANGED <<freed, owner, sockMap, socketEvents, pending, toServer, gone>>

\* the loop has returned and the process ends: every connection is closed
ServerExit ==
  /\ srv = "exiting"
  /\ srv' = "down"
  /\ socketEvents' = {}
  /\ UNCHANGED <<freed, signals, owner, sockMap, netVars>>

\* Socket::close on the server object, outside of its handlers: whichEvents is
\* empty, m_sock is not the listener's socket, so only the object goes
CloseServer ==
  /\ MayClose /\ LoopRuns
  /\ \/ freed' = TRUE /\ UNCHANGED <<srv, signals, owner, sockMap, socketEvents, pending, toClient, gone>>
     \/ freed /\ Crash
  /\ UNCHANGED toServer

\* what the loop does by itself
ServerStep ==
  \/ \E c \in Clients : AcceptConn(c)
  \/ \E f \in Fds : OnServerRead(f)
  \/ ServerExit

ServerNext == ServerStep \/ Sighup \/ CloseServer
=============================================================================
