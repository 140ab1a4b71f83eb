---------------------------- MODULE ClientSocket ----------------------------
(***************************************************************************)
(* The client side of src/Socket: one process per client, which runs the   *)
(* script of test/clientSocket.js: it connects, and closes the socket when *)
(* it is told to.  Lines typed at the terminal are sent to the server.     *)
(***************************************************************************)
EXTENDS Integers, Sequences

CONSTANTS Clients, MaxSend  \* lines typed at each client

VARIABLES
  client,     \* "new", "open", "closed" (the script closed the socket),
              \* "stale" (so, but an event still points to it), "ended"
  events,     \* ClientSocket::whichEvents that are in the event base
  typed,      \* lines sent
  pending, toServer, toClient, gone,  \* see ServerSocket
  srv

clientVars == <<client, events, typed>>
netVars == <<pending, toServer, toClient, gone>>

ClientTypeOK ==
  /\ client \in [Clients -> {"new", "open", "closed", "stale", "ended"}]
  /\ events \in [Clients -> SUBSET {"stdin", "readEvent"}]
  /\ typed \in [Clients -> 0..MaxSend]

ClientInit ==
  /\ client = [c \in Clients |-> "new"]
  /\ events = [c \in Clients |-> {}]
  /\ typed = [c \in Clients |-> 0]

\* ClientSocket::New and connect; a refused connection throws
Connect(c) ==
  /\ client[c] = "new"
  /\ srv # "down"
  /\ client' = [client EXCEPT ![c] = "open"]
  /\ events' = [events EXCEPT ![c] = {"stdin", "readEvent"}]
  /\ pending' = pending \cup {c}
  /\ UNCHANGED <<typed, toServer, toClient, gone>>

\* readStdin
ReadStdin(c, line) ==
  /\ client[c] = "open"
  /\ "stdin" \in events[c]
  /\ typed[c] < MaxSend
  /\ typed' = [typed EXCEPT ![c] = @ + 1]
  /\ toServer' = [toServer EXCEPT ![c] = IF srv = "down" THEN @ ELSE Append(@, line)]
  /\ UNCHANGED <<client, events, pending, toClient, gone>>

\* Socket::close.  The loop of lines 196-200 erases the element its iterator
\* stands at: it may go on to the next, end early, or crash the process.
Close(c) ==
  /\ \E outcome \in {"closed", "stale", "ended"} :
       client' = [client EXCEPT ![c] = outcome]
  /\ events' = [events EXCEPT ![c] = IF client'[c] = "stale" THEN {"stdin"} ELSE {}]
  /\ gone' = gone \cup {c}

BadIsOffline(data) == FALSE

\* line 40
IsOffline(data) == data = <<"offline">>

\* What recv returns is the end: the server has gone, and all it sent was read
\* or was lost because it had not read all it was sent.
AtEnd(c) == srv = "down" /\ (toClient[c] = <<>> \/ toServer[c] # <<>>)

\* onRead: what has arrived, in one piece, or "" at the end, again and again
OnRead(c) ==
  /\ client[c] = "open"
  /\ "readEvent" \in events[c]
  /\ \E n \in 0..Len(toClient[c]) :
       LET data == SubSeq(toClient[c], 1, n) IN
       /\ n = 0 => AtEnd(c)
       /\ toClient' = [toClient EXCEPT ![c] = IF n = 0 THEN <<>> ELSE SubSeq(@, n + 1, Len(@))]
       /\ IF data = <<"close">>
          THEN Close(c)
          ELSE /\ events' = [events EXCEPT ![c] = IF IsOffline(data) THEN {} ELSE @]
               /\ UNCHANGED <<client, gone>>
  /\ UNCHANGED <<typed, pending, toServer>>

\* the loop has no event left and the process ends; or it is killed
ClientEnds(c) ==
  /\ client[c] \in {"open", "closed"}
  /\ events[c] = {}
  /\ client' = [client EXCEPT ![c] = "ended"]
  /\ gone' = gone \cup {c}
  /\ UNCHANGED <<events, typed, pending, toServer, toClient>>

Killed(c) ==
  /\ client[c] \in {"open", "stale"}
  /\ client' = [client EXCEPT ![c] = "ended"]
  /\ events' = [events EXCEPT ![c] = {}]
  /\ gone' = gone \cup {c}
  /\ UNCHANGED <<typed, pending, toServer, toClient>>

ClientStep(c) == OnRead(c) \/ ClientEnds(c)

ClientNext(c) ==
  \/ ClientStep(c) \/ Connect(c) \/ Killed(c)
  \/ \E line \in {"msg", "all", "close"} : ReadStdin(c, line)
=============================================================================
