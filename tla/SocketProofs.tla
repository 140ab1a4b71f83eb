---------------------------- MODULE SocketProofs ----------------------------
(***************************************************************************)
(* What any number of clients, descriptors and lines keep true of the      *)
(* server, and the proof that it implements ServerContract.                *)
(***************************************************************************)
EXTENDS SocketSystem, SequenceTheorems, TLAPS

\* A connection is open at one descriptor.
OneFd ==
  \A f, g \in Fds : owner[f] \in Clients /\ owner[f] = owner[g] => f = g

\* One that waits in the backlog has none yet.
WaitingIsNew == \A c \in pending, f \in Fds : owner[f] # c

\* A client that has not connected is unknown to the server.
NewIsUnknown ==
  \A c \in Clients :
    client[c] = "new" => c \notin pending /\ \A f \in Fds : owner[f] # c

\* The read events of a running server are of the descriptors in sockMap, each of
\* them open for a client.
SameTables ==
  S!LoopRuns => socketEvents = sockMap /\ \A f \in sockMap : owner[f] \in Clients

IInv == TypeOK /\ OneFd /\ WaitingIsNew /\ NewIsUnknown /\ SameTables

-----------------------------------------------------------------------------
\* What is taken from a stream and what is left of it are streams.
LEMMA PartsType ==
  ASSUME NEW R, NEW s \in Seq(R), NEW n \in 0..Len(s)
  PROVE  SubSeq(s, 1, n) \in Seq(R) /\ SubSeq(s, n + 1, Len(s)) \in Seq(R)
<1>1. Len(s) \in Nat /\ n \in Int
  BY LenProperties
<1>2. \A i \in 1..n : s[i] \in R
  BY <1>1, ElementOfSeq
<1>3. \A i \in (n + 1)..Len(s) : s[i] \in R
  BY <1>1, ElementOfSeq
<1>4. SubSeq(s, 1, n) \in Seq(R)
  BY <1>1, <1>2, SubSeqProperties
<1>5. SubSeq(s, n + 1, Len(s)) \in Seq(R)
  BY <1>1, <1>3, SubSeqProperties
<1>6. QED
  BY <1>4, <1>5

\* Whatever is sent, each client has a stream of replies.
LEMMA SendType ==
  ASSUME TypeOK, NEW fs \in SUBSET Fds, NEW say,
         \A f \in fs : say[f] \in S!Replies, S!Send(fs, say)
  PROVE  toClient' \in [Clients -> Seq(S!Replies)]
<1>1. ASSUME NEW c \in Clients, \E f \in fs : owner[f] = c
      PROVE  Append(toClient[c], say[CHOOSE f \in fs : owner[f] = c]) \in Seq(S!Replies)
  <2>1. (CHOOSE f \in fs : owner[f] = c) \in fs
    BY <1>1
  <2>2. say[CHOOSE f \in fs : owner[f] = c] \in S!Replies
    BY <2>1
  <2>3. toClient[c] \in Seq(S!Replies)
    BY DEF TypeOK, S!ServerTypeOK
  <2>4. QED
    BY <2>2, <2>3, AppendProperties
<1>2. \A c \in Clients : toClient[c] \in Seq(S!Replies)
  BY DEF TypeOK, S!ServerTypeOK
<1>3. QED
  BY <1>1, <1>2 DEF S!Send

\* The initial state.
LEMMA InitInv == Init => IInv
<1> SUFFICES ASSUME Init PROVE IInv
  OBVIOUS
<1> USE DEF Init, S!ServerInit, C!ClientInit
<1>1. 0 \in 0..MaxSend
  BY BoundsAssumption
<1>2. <<>> \in Seq(S!Requests) /\ <<>> \in Seq(S!Replies)
  BY EmptySeq
<1>3. S!ServerTypeOK
  <2>1. 0 \in 0..MaxSignals
    BY BoundsAssumption
  <2>2. owner \in [Fds -> Clients \cup {None, "other"}]
    OBVIOUS
  <2>3. QED
    BY <1>2, <2>1, <2>2 DEF S!ServerTypeOK
<1>4. C!ClientTypeOK
  BY <1>1 DEF C!ClientTypeOK
<1>5. WaitingIsNew /\ SameTables
  BY DEF WaitingIsNew, SameTables
<1>6. OneFd /\ NewIsUnknown
  BY ClientsAssumption DEF OneFd, NewIsUnknown
<1>7. QED
  BY <1>3, <1>4, <1>5, <1>6 DEF IInv, TypeOK

-----------------------------------------------------------------------------
\* The server's steps.
LEMMA CrashInv ==
  ASSUME IInv, S!Crash, toServer' \in [Clients -> Seq(S!Requests)], UNCHANGED clientVars
  PROVE  IInv'
<1> USE DEF IInv, S!Crash, clientVars
<1>1. TypeOK'
  BY DEF TypeOK, S!ServerTypeOK, C!ClientTypeOK, S!Callback
<1>2. OneFd' /\ WaitingIsNew' /\ NewIsUnknown' /\ SameTables'
  BY DEF OneFd, WaitingIsNew, NewIsUnknown, SameTables, S!LoopRuns
<1>3. QED
  BY <1>1, <1>2

LEMMA AcceptConnInv ==
  ASSUME IInv, NEW c \in Clients, S!AcceptConn(c), UNCHANGED clientVars
  PROVE  IInv'
<1>1. CASE S!Crash /\ UNCHANGED toServer
  BY <1>1, CrashInv DEF IInv, TypeOK, S!ServerTypeOK
<1>2. CASE ~S!Crash
  <2> USE DEF IInv, clientVars
  <2>1. PICK f \in Fds :
          /\ S!IsNextFd(f)
          /\ owner' = [owner EXCEPT ![f] = c]
          /\ sockMap' = sockMap \cup {f}
          /\ socketEvents' = socketEvents \cup {f}
    BY <1>2 DEF S!AcceptConn
  <2>2. /\ c \in pending /\ pending' = pending \ {c} /\ S!LoopRuns /\ S!Callback
        /\ UNCHANGED <<srv, signals, toServer, toClient, gone>>
    BY <1>2 DEF S!AcceptConn
  <2>3. owner \in [Fds -> Clients \cup {None, "other"}]
    BY DEF TypeOK, S!ServerTypeOK
  <2>4. owner' \in [Fds -> Clients \cup {None, "other"}]
    BY <2>1, <2>3
  <2>5. TypeOK'
    BY <2>1, <2>2, <2>4 DEF TypeOK, S!ServerTypeOK, C!ClientTypeOK, S!Callback
  <2>6. \A g \in Fds : owner'[g] = IF g = f THEN c ELSE owner[g]
    BY <2>1, <2>3
  <2>7. \A g \in Fds : owner[g] # c
    BY <2>2 DEF WaitingIsNew
  <2>8. OneFd'
    BY <2>6, <2>7 DEF OneFd
  <2>9. WaitingIsNew'
    BY <2>2, <2>6 DEF WaitingIsNew
  <2>10. client[c] # "new"
    BY <2>2 DEF NewIsUnknown
  <2>11. NewIsUnknown'
    BY <2>2, <2>6, <2>10 DEF NewIsUnknown
  <2>12. sockMap \subseteq Fds
    BY DEF TypeOK, S!ServerTypeOK
  <2>13. SameTables'
    BY <2>1, <2>2, <2>6, <2>12 DEF SameTables, S!LoopRuns
  <2>14. QED
    BY <2>5, <2>8, <2>9, <2>11, <2>13
<1>3. QED
  BY <1>1, <1>2 DEF S!AcceptConn

\* An answer leaves the tables alone.
LEMMA ReplyType ==
  ASSUME TypeOK, NEW f \in Fds, NEW data, S!Reply(f, data)
  PROVE  toClient' \in [Clients -> Seq(S!Replies)]
<1> DEFINE reply == IF data = <<"close">> THEN "close" ELSE "reply"
           told == [g \in Fds |-> IF g = f THEN "back" ELSE reply]
           answered == [g \in Fds |-> reply]
<1>1. \A g \in Fds : told[g] \in S!Replies /\ answered[g] \in S!Replies
  BY DEF S!Replies
<1>2. sockMap \in SUBSET Fds /\ {f} \in SUBSET Fds
  BY DEF TypeOK, S!ServerTypeOK
<1>3. S!Send(sockMap, told) \/ S!Send({f}, answered)
  BY DEF S!Reply
<1> HIDE DEF told, answered
<1>4. CASE S!Send(sockMap, told)
  BY <1>1, <1>2, <1>4, SendType
<1>5. CASE S!Send({f}, answered)
  BY <1>1, <1>2, <1>5, SendType
<1>6. QED
  BY <1>3, <1>4, <1>5

\* What is left after a recv.
LEMMA RecvType ==
  ASSUME TypeOK, NEW c, NEW n \in 1..Len(toServer[c]), S!Recv(c, n)
  PROVE  toServer' \in [Clients -> Seq(S!Requests)]
<1>1. toServer \in [Clients -> Seq(S!Requests)]
  BY DEF TypeOK, S!ServerTypeOK
<1>2. toServer' = [toServer EXCEPT ![c] = S!Left(@, n)]
  BY DEF S!Recv
<1>3. CASE c \in Clients
  <2>1. toServer[c] \in Seq(S!Requests)
    BY <1>1, <1>3
  <2>2. Len(toServer[c]) \in Nat
    BY <2>1, LenProperties
  <2>3. n \in 0..Len(toServer[c])
    BY <2>2
  <2>4. S!Left(toServer[c], n) \in Seq(S!Requests)
    BY <2>1, <2>3, PartsType DEF S!Left
  <2>5. QED
    BY <1>1, <1>2, <2>4
<1>4. CASE c \notin Clients
  BY <1>1, <1>2, <1>4
<1>5. QED
  BY <1>3, <1>4

LEMMA OnServerReadInv ==
  ASSUME IInv, NEW f \in Fds, S!OnServerRead(f), UNCHANGED clientVars
  PROVE  IInv'
<1> DEFINE c == owner[f]
<1>1. TypeOK
  BY DEF IInv
<1>2. ASSUME NEW n \in 1..Len(toServer[c]), S!Recv(c, n)
      PROVE  toServer' \in [Clients -> Seq(S!Requests)]
  BY <1>1, <1>2, RecvType
<1>3. CASE S!Crash
  <2>1. toServer' \in [Clients -> Seq(S!Requests)]
    <3>1. CASE UNCHANGED toServer
      BY <1>1, <3>1 DEF TypeOK, S!ServerTypeOK
    <3>2. CASE toServer' # toServer
      <4>1. \E n \in 1..Len(toServer[c]) : S!Recv(c, n)
        BY <1>3, <3>2 DEF S!OnServerRead, S!Disconnect, S!netVars
      <4>2. QED
        BY <1>2, <4>1
    <3>3. QED
      BY <3>1, <3>2
  <2>2. QED
    BY <1>3, <2>1, CrashInv
<1>4. CASE S!Disconnect(f) /\ S!Callback
  <2> USE DEF IInv, clientVars
  <2>1. TypeOK'
    BY <1>4 DEF TypeOK, S!ServerTypeOK, C!ClientTypeOK, S!Disconnect, S!netVars, S!Callback
  <2>2. OneFd' /\ WaitingIsNew' /\ NewIsUnknown' /\ SameTables'
    BY <1>4 DEF OneFd, WaitingIsNew, NewIsUnknown, SameTables, S!LoopRuns, S!Disconnect,
                S!netVars
  <2>3. QED
    BY <2>1, <2>2
<1>5. ASSUME NEW n \in 1..Len(toServer[c]), S!Recv(c, n),
             S!Reply(f, S!Taken(toServer[c], n)), S!Callback,
             UNCHANGED <<srv, signals, owner, sockMap, socketEvents, pending, gone>>
      PROVE  IInv'
  <2>1. toClient' \in [Clients -> Seq(S!Replies)]
    BY <1>1, <1>5, ReplyType
  <2>2. TypeOK'
    BY <1>2, <1>5, <2>1 DEF IInv, TypeOK, S!ServerTypeOK, C!ClientTypeOK, S!Callback, clientVars
  <2>3. OneFd' /\ WaitingIsNew' /\ NewIsUnknown' /\ SameTables'
    BY <1>5 DEF IInv, OneFd, WaitingIsNew, NewIsUnknown, SameTables, S!LoopRuns, clientVars
  <2>4. QED
    BY <2>2, <2>3 DEF IInv
<1>6. QED
  BY <1>3, <1>4, <1>5 DEF S!OnServerRead

LEMMA SighupInv ==
  ASSUME IInv, S!Sighup, UNCHANGED clientVars
  PROVE  IInv'
<1>1. CASE S!Crash /\ UNCHANGED toServer
  BY <1>1, CrashInv DEF IInv, TypeOK, S!ServerTypeOK
<1>2. CASE ~S!Crash
  <2> USE DEF IInv, clientVars
  <2> DEFINE notice == [f \in Fds |-> "offline"]
  <2>1. /\ S!Send(sockMap, notice) /\ S!LoopRuns /\ srv' = "exiting"
        /\ signals < MaxSignals /\ signals' = signals + 1
        /\ UNCHANGED <<freed, owner, sockMap, socketEvents, pending, toServer, gone>>
    BY <1>2 DEF S!Sighup
  <2>2. \A f \in Fds : notice[f] \in S!Replies
    BY DEF S!Replies
  <2>3. sockMap \in SUBSET Fds
    BY DEF TypeOK, S!ServerTypeOK
  <2> HIDE DEF notice
  <2>4. toClient' \in [Clients -> Seq(S!Replies)]
    BY <2>1, <2>2, <2>3, SendType
  <2>5. signals' \in 0..MaxSignals
    BY <2>1, BoundsAssumption DEF TypeOK, S!ServerTypeOK
  <2>6. TypeOK'
    BY <2>1, <2>4, <2>5 DEF TypeOK, S!ServerTypeOK, C!ClientTypeOK
  <2>7. OneFd' /\ WaitingIsNew' /\ NewIsUnknown' /\ SameTables'
    BY <2>1 DEF OneFd, WaitingIsNew, NewIsUnknown, SameTables, S!LoopRuns
  <2>8. QED
    BY <2>6, <2>7
<1>3. QED
  BY <1>1, <1>2 DEF S!Sighup

LEMMA ServerEndInv ==
  ASSUME IInv, S!ServerExit \/ S!CloseServer, UNCHANGED clientVars
  PROVE  IInv'
<1>1. CASE S!Crash /\ UNCHANGED toServer
  BY <1>1, CrashInv DEF IInv, TypeOK, S!ServerTypeOK
<1>2. CASE ~S!Crash
  <2> USE DEF IInv, clientVars
  <2>1. TypeOK'
    BY <1>2 DEF TypeOK, S!ServerTypeOK, C!ClientTypeOK, S!ServerExit, S!CloseServer, S!netVars
  <2>2. OneFd' /\ WaitingIsNew' /\ NewIsUnknown' /\ SameTables'
    BY <1>2 DEF OneFd, WaitingIsNew, NewIsUnknown, SameTables, S!LoopRuns, S!ServerExit,
                S!CloseServer, S!netVars
  <2>3. QED
    BY <2>1, <2>2
<1>3. QED
  BY <1>1, <1>2 DEF S!ServerExit, S!CloseServer, S!netVars

-----------------------------------------------------------------------------
\* A client's step changes no table and lets no connected client become new.
LEMMA ClientTables ==
  ASSUME IInv, UNCHANGED serverVars, pending' = pending,
         \A d \in Clients : client'[d] = "new" => client[d] = "new"
  PROVE  OneFd' /\ WaitingIsNew' /\ NewIsUnknown' /\ SameTables'
BY DEF IInv, serverVars, OneFd, WaitingIsNew, NewIsUnknown, SameTables, S!LoopRuns

LEMMA ConnectInv ==
  ASSUME IInv, NEW c \in Clients, C!Connect(c), UNCHANGED serverVars
  PROVE  IInv'
<1> USE DEF IInv, C!Connect, serverVars
<1>1. S!ServerTypeOK'
  BY DEF TypeOK, S!ServerTypeOK
<1>2. events' \in [Clients -> SUBSET {"stdin", "readEvent"}]
  BY DEF TypeOK, C!ClientTypeOK
<1>3. C!ClientTypeOK'
  BY <1>2 DEF TypeOK, C!ClientTypeOK
<1>4. client[c] = "new" /\ client'[c] = "open"
  BY DEF TypeOK, C!ClientTypeOK
<1>5. \A d \in Clients : d # c => client'[d] = client[d]
  BY DEF TypeOK, C!ClientTypeOK
<1>6. pending' = pending \cup {c}
  OBVIOUS
<1>7. OneFd' /\ SameTables'
  BY DEF OneFd, SameTables, S!LoopRuns
<1>8. WaitingIsNew'
  BY <1>4, <1>6 DEF WaitingIsNew, NewIsUnknown
<1>9. NewIsUnknown'
  BY <1>4, <1>5, <1>6 DEF NewIsUnknown
<1>10. QED
  BY <1>1, <1>3, <1>7, <1>8, <1>9 DEF TypeOK

LEMMA ReadStdinInv ==
  ASSUME IInv, NEW c \in Clients, NEW line \in S!Requests, C!ReadStdin(c, line),
         UNCHANGED serverVars
  PROVE  IInv'
<1> USE DEF C!ReadStdin
<1>1. toServer[c] \in Seq(S!Requests)
  BY DEF IInv, TypeOK, S!ServerTypeOK
<1>2. Append(toServer[c], line) \in Seq(S!Requests)
  BY <1>1, AppendProperties
<1>3. toServer' \in [Clients -> Seq(S!Requests)]
  BY <1>2 DEF IInv, TypeOK, S!ServerTypeOK
<1>4. S!ServerTypeOK'
  BY <1>3 DEF IInv, TypeOK, S!ServerTypeOK, serverVars
<1>5. typed[c] + 1 \in 0..MaxSend
  BY BoundsAssumption DEF IInv, TypeOK, C!ClientTypeOK
<1>6. C!ClientTypeOK'
  BY <1>5 DEF IInv, TypeOK, C!ClientTypeOK
<1>7. OneFd' /\ WaitingIsNew' /\ NewIsUnknown' /\ SameTables'
  BY ClientTables
<1>8. QED
  BY <1>4, <1>6, <1>7 DEF IInv, TypeOK

LEMMA OnReadInv ==
  ASSUME IInv, NEW c \in Clients, C!OnRead(c), UNCHANGED serverVars
  PROVE  IInv'
<1>1. PICK n \in 0..Len(toClient[c]) :
        LET data == SubSeq(toClient[c], 1, n) IN
        /\ toClient' = [toClient EXCEPT ![c] = IF n = 0 THEN <<>> ELSE SubSeq(@, n + 1, Len(@))]
        /\ IF data = <<"close">>
           THEN C!Close(c)
           ELSE /\ events' = [events EXCEPT ![c] = IF C!IsOffline(data) THEN {} ELSE @]
                /\ UNCHANGED <<client, gone>>
  BY DEF C!OnRead
<1>2. UNCHANGED <<typed, pending, toServer>>
  BY DEF C!OnRead
<1>3. toClient[c] \in Seq(S!Replies)
  BY DEF IInv, TypeOK, S!ServerTypeOK
<1>4. SubSeq(toClient[c], n + 1, Len(toClient[c])) \in Seq(S!Replies)
  BY <1>3, PartsType
<1>5. <<>> \in Seq(S!Replies)
  BY EmptySeq
<1>6. toClient' \in [Clients -> Seq(S!Replies)]
  BY <1>1, <1>4, <1>5 DEF IInv, TypeOK, S!ServerTypeOK
<1>8. /\ client' \in [Clients -> {"new", "open", "closed", "stale", "ended"}]
      /\ events' \in [Clients -> SUBSET {"stdin", "readEvent"}]
      /\ gone' \subseteq Clients
      /\ \A d \in Clients : client'[d] = "new" => client[d] = "new"
  <2> USE DEF IInv, TypeOK, S!ServerTypeOK, C!ClientTypeOK
  <2>1. CASE C!Close(c)
    BY <2>1 DEF C!Close
  <2>2. CASE /\ events' = [events EXCEPT ![c] = IF C!IsOffline(SubSeq(toClient[c], 1, n)) THEN {} ELSE @]
             /\ UNCHANGED <<client, gone>>
    BY <2>2
  <2>3. QED
    BY <1>1, <2>1, <2>2
<1>9. TypeOK'
  BY <1>2, <1>6, <1>8 DEF IInv, TypeOK, S!ServerTypeOK, C!ClientTypeOK, serverVars
<1>10. OneFd' /\ WaitingIsNew' /\ NewIsUnknown' /\ SameTables'
  BY <1>2, <1>8, ClientTables
<1>11. QED
  BY <1>9, <1>10 DEF IInv

LEMMA ClientGoneInv ==
  ASSUME IInv, NEW c \in Clients, C!ClientEnds(c) \/ C!Killed(c), UNCHANGED serverVars
  PROVE  IInv'
<1> USE DEF C!ClientEnds, C!Killed
<1>1. TypeOK'
  BY DEF IInv, TypeOK, S!ServerTypeOK, C!ClientTypeOK, serverVars
<1>2. \A d \in Clients : client'[d] = "new" => client[d] = "new"
  BY DEF IInv, TypeOK, C!ClientTypeOK
<1>3. OneFd' /\ WaitingIsNew' /\ NewIsUnknown' /\ SameTables'
  BY <1>2, ClientTables
<1>4. QED
  BY <1>1, <1>3 DEF IInv

-----------------------------------------------------------------------------
\* Every step keeps the invariant.
LEMMA NextInv == IInv /\ [Next]_vars => IInv'
<1> SUFFICES ASSUME IInv, [Next]_vars PROVE IInv'
  OBVIOUS
<1>1. CASE UNCHANGED vars
  BY <1>1 DEF IInv, vars, serverVars, netVars, clientVars, TypeOK, S!ServerTypeOK,
              C!ClientTypeOK, OneFd, WaitingIsNew, NewIsUnknown, SameTables, S!LoopRuns
<1>2. ASSUME NEW c \in Clients, S!AcceptConn(c), UNCHANGED clientVars
      PROVE  IInv'
  BY <1>2, AcceptConnInv
<1>3. ASSUME NEW f \in Fds, S!OnServerRead(f), UNCHANGED clientVars
      PROVE  IInv'
  BY <1>3, OnServerReadInv
<1>4. CASE S!Sighup /\ UNCHANGED clientVars
  BY <1>4, SighupInv
<1>5. CASE (S!ServerExit \/ S!CloseServer) /\ UNCHANGED clientVars
  BY <1>5, ServerEndInv
<1>6. ASSUME NEW c \in Clients, C!Connect(c), UNCHANGED serverVars
      PROVE  IInv'
  BY <1>6, ConnectInv
<1>7. ASSUME NEW c \in Clients, NEW line \in {"msg", "all", "close"},
             C!ReadStdin(c, line), UNCHANGED serverVars
      PROVE  IInv'
  <2>1. line \in S!Requests
    BY <1>7 DEF S!Requests
  <2>2. QED
    BY <1>7, <2>1, ReadStdinInv
<1>8. ASSUME NEW c \in Clients, C!OnRead(c), UNCHANGED serverVars
      PROVE  IInv'
  BY <1>8, OnReadInv
<1>9. ASSUME NEW c \in Clients, C!ClientEnds(c) \/ C!Killed(c), UNCHANGED serverVars
      PROVE  IInv'
  BY <1>9, ClientGoneInv
<1>10. QED
  BY <1>1, <1>2, <1>3, <1>4, <1>5, <1>6, <1>7, <1>8, <1>9
     DEF Next, ServerSide, ClientSide, S!ServerNext, S!ServerStep, C!ClientNext,
         C!ClientStep

\* The invariant holds of every behaviour.
THEOREM Invariance == Spec => []IInv
<1>1. QED
  BY InitInv, NextInv, PTL DEF Spec

\* The tables hold descriptors, the streams messages and each client the events
\* and states of ClientSocket, for any number of clients and lines.
THEOREM TypeCorrect == Spec => []TypeOK
<1>1. IInv => TypeOK
  BY DEF IInv
<1>2. QED
  BY <1>1, Invariance, PTL

-----------------------------------------------------------------------------
\* The action AnsweredOnlyWhenAsked allows each client.
Answered(c) ==
  Len(toClient'[c]) > Len(toClient[c]) /\ signals' = signals =>
    \/ Len(toServer'[c]) < Len(toServer[c])
    \/ \E d \in Clients \ {c} :
         /\ Len(toServer'[d]) < Len(toServer[d])
         /\ Head(toServer[d]) = "all"

\* What is received is no longer in the stream, and begins with its head.
LEMMA LeftIsShorter ==
  ASSUME NEW R, NEW s \in Seq(R), NEW n \in 1..Len(s)
  PROVE  /\ Len(S!Left(s, n)) < Len(s)
         /\ Head(S!Taken(s, n)) = Head(s)
<1>1. Len(s) \in Nat /\ n \in Int /\ 1 \in Int /\ s # <<>>
  BY LenProperties, EmptySeq
<1>2. \A i \in 1..n : s[i] \in R
  BY <1>1, ElementOfSeq
<1>3. \A i \in (n + 1)..Len(s) : s[i] \in R
  BY <1>1, ElementOfSeq
<1>4. /\ SubSeq(s, 1, n) \in Seq(R)
      /\ Len(SubSeq(s, 1, n)) = n
      /\ SubSeq(s, 1, n)[1] = s[1]
  BY <1>1, <1>2, SubSeqProperties
<1>5. Len(SubSeq(s, n + 1, Len(s))) = Len(s) - n
  <2>1. Len(SubSeq(s, n + 1, Len(s))) =
          IF n + 1 <= Len(s) THEN Len(s) - (n + 1) + 1 ELSE 0
    BY <1>1, <1>3, SubSeqProperties
  <2>2. QED
    BY <1>1, <2>1
<1>6. Head(SubSeq(s, 1, n)) = SubSeq(s, 1, n)[1] /\ Head(s) = s[1]
  BY <1>1, <1>4, HeadTailProperties, EmptySeq
<1>7. QED
  BY <1>1, <1>4, <1>5, <1>6 DEF S!Left, S!Taken

\* A piece the server receives is answered to its sender, or to everybody when
\* it begins with "all".
LEMMA ReadAnswers ==
  ASSUME IInv, NEW f \in Fds, S!OnServerRead(f), NEW c \in Clients
  PROVE  Answered(c)
<1> DEFINE d == owner[f]
<1>1. CASE UNCHANGED toClient
  BY <1>1 DEF Answered
<1>2. ASSUME NEW n \in 1..Len(toServer[d]), S!Recv(d, n),
             S!Reply(f, S!Taken(toServer[d], n))
      PROVE  Answered(c)
  <2>1. d \in Clients
    BY DEF IInv, SameTables, S!OnServerRead
  <2>2. /\ Len(toServer'[d]) < Len(toServer[d])
        /\ Head(S!Taken(toServer[d], n)) = Head(toServer[d])
    <3>1. toServer \in [Clients -> Seq(S!Requests)]
      BY DEF IInv, TypeOK, S!ServerTypeOK
    <3>2. toServer[d] \in Seq(S!Requests) /\ toServer'[d] = S!Left(toServer[d], n)
      BY <1>2, <2>1, <3>1 DEF S!Recv
    <3>3. QED
      BY <3>2, LeftIsShorter
  <2>3. CASE Head(toServer[d]) = "all"
    BY <2>1, <2>2, <2>3 DEF Answered
  <2>4. CASE Head(toServer[d]) # "all" /\ c # d
    <3>1. toClient'[c] = toClient[c]
      BY <1>2, <2>2, <2>4 DEF S!Reply, S!Send
    <3>2. Len(toClient[c]) \in Nat
      BY LenProperties DEF IInv, TypeOK, S!ServerTypeOK
    <3>3. QED
      BY <3>1, <3>2 DEF Answered
  <2>5. CASE c = d
    BY <2>2, <2>5 DEF Answered
  <2>6. QED
    BY <2>3, <2>4, <2>5
<1>3. QED
  BY <1>1, <1>2 DEF S!OnServerRead, S!Crash, S!Disconnect, S!netVars

\* A client that reads has less to read.
LEMMA ReadingShortens ==
  ASSUME IInv, NEW r \in Clients, C!OnRead(r), NEW c \in Clients
  PROVE  Answered(c)
<1>1. toClient[c] \in Seq(S!Replies) /\ toClient \in [Clients -> Seq(S!Replies)]
  BY DEF IInv, TypeOK, S!ServerTypeOK
<1>2. Len(toClient[c]) \in Nat /\ Len(<<>>) = 0
  BY <1>1, LenProperties
<1>3. PICK n \in 0..Len(toClient[r]) :
        toClient' = [toClient EXCEPT ![r] =
          IF n = 0 THEN <<>> ELSE SubSeq(@, n + 1, Len(@))]
  BY DEF C!OnRead
<1>4. CASE c # r
  BY <1>1, <1>2, <1>3, <1>4 DEF Answered
<1>5. CASE c = r /\ n = 0
  BY <1>1, <1>2, <1>3, <1>5 DEF Answered
<1>6. CASE c = r /\ n # 0
  <2>1. n \in 1..Len(toClient[c])
    BY <1>2, <1>3, <1>6
  <2>2. toClient'[c] = S!Left(toClient[c], n)
    BY <1>1, <1>3, <1>6 DEF S!Left
  <2>3. Len(toClient'[c]) < Len(toClient[c])
    BY <1>1, <2>1, <2>2, LeftIsShorter
  <2>4. QED
    BY <1>2, <2>2, <2>3, LenProperties DEF Answered
<1>7. QED
  BY <1>4, <1>5, <1>6

\* The other actions add nothing to what is sent to a client, except the notice
\* of Sighup, which counts the signal.
LEMMA OthersAnswerNobody ==
  ASSUME IInv, NEW c \in Clients, toClient' = toClient \/ signals' # signals
  PROVE  Answered(c)
<1>1. Len(toClient[c]) \in Nat
  BY LenProperties DEF IInv, TypeOK, S!ServerTypeOK
<1>2. QED
  BY <1>1 DEF Answered

\* A client gets an answer only when its own message is received or when
\* somebody's message asks for all to be told.
AnsweredOnlyWhenAsked ==
  [][\A c \in Clients :
       Len(toClient'[c]) > Len(toClient[c]) /\ signals' = signals =>
         \/ Len(toServer'[c]) < Len(toServer[c])
         \/ \E d \in Clients \ {c} :
              /\ Len(toServer'[d]) < Len(toServer[d])
              /\ Head(toServer[d]) = "all"]_vars

\* No client is answered unless its own message was received, or one that asks
\* for all to be told (serverSocket.cpp:67-82).
THEOREM AnswersWereAsked == Spec => AnsweredOnlyWhenAsked
<1>1. ASSUME IInv, [Next]_vars, NEW c \in Clients
      PROVE  Answered(c)
  <2>1. ASSUME NEW f \in Fds, S!OnServerRead(f)
        PROVE  Answered(c)
    BY <1>1, <2>1, ReadAnswers
  <2>2. ASSUME NEW r \in Clients, C!OnRead(r)
        PROVE  Answered(c)
    BY <1>1, <2>2, ReadingShortens
  <2>3. CASE S!Sighup
    <3>1. toClient' = toClient \/ signals' # signals
      BY <1>1, <2>3 DEF S!Sighup, S!Crash, IInv, TypeOK, S!ServerTypeOK
    <3>2. QED
      BY <1>1, <3>1, OthersAnswerNobody
  <2>4. CASE S!ServerExit \/ S!CloseServer \/ \E k \in Clients : S!AcceptConn(k)
    <3>1. toClient' = toClient
      BY <2>4 DEF S!ServerExit, S!CloseServer, S!AcceptConn, S!Crash, S!netVars
    <3>2. QED
      BY <1>1, <3>1, OthersAnswerNobody
  <2>5. ASSUME NEW r \in Clients,
               \/ C!Connect(r) \/ C!ClientEnds(r) \/ C!Killed(r)
               \/ \E line \in {"msg", "all", "close"} : C!ReadStdin(r, line)
        PROVE  Answered(c)
    <3>1. toClient' = toClient
      BY <2>5 DEF C!Connect, C!ClientEnds, C!Killed, C!ReadStdin
    <3>2. QED
      BY <1>1, <3>1, OthersAnswerNobody
  <2>6. CASE UNCHANGED vars
    <3>1. toClient' = toClient
      BY <2>6 DEF vars, netVars
    <3>2. QED
      BY <1>1, <3>1, OthersAnswerNobody
  <2>7. QED
    BY <1>1, <2>1, <2>2, <2>3, <2>4, <2>5, <2>6
       DEF Next, ServerSide, ClientSide, S!ServerNext, S!ServerStep, C!ClientNext,
           C!ClientStep
<1>2. IInv /\ [Next]_vars => [\A c \in Clients : Answered(c)]_vars
  BY <1>1
<1>3. [\A c \in Clients : Answered(c)]_vars =>
        [\A c \in Clients :
           Len(toClient'[c]) > Len(toClient[c]) /\ signals' = signals =>
             \/ Len(toServer'[c]) < Len(toServer[c])
             \/ \E d \in Clients \ {c} :
                  /\ Len(toServer'[d]) < Len(toServer[d])
                  /\ Head(toServer[d]) = "all"]_vars
  BY DEF Answered
<1>4. QED
  BY <1>2, <1>3, Invariance, PTL DEF Spec, AnsweredOnlyWhenAsked

-----------------------------------------------------------------------------
(* SocketSystem implements ServerContract.                                 *)

\* A client that has connected is in the backlog or was accepted; one that has
\* gone does not take part any more.
ClientInv ==
  /\ \A c \in Clients : client[c] # "new" => c \in pending \cup Joined
  /\ \A c \in gone : client[c] \notin {"new", "open"}

LEMMA ClientNext == IInv /\ ClientInv /\ [Next]_vars => ClientInv'
<1> SUFFICES ASSUME IInv, ClientInv, [Next]_vars PROVE ClientInv'
  OBVIOUS
<1>1. /\ client \in [Clients -> {"new", "open", "closed", "stale", "ended"}]
      /\ gone \subseteq Clients /\ pending \subseteq Clients
      /\ owner \in [Fds -> Clients \cup {None, "other"}]
  BY DEF IInv, TypeOK, S!ServerTypeOK, C!ClientTypeOK
<1>2. ASSUME UNCHANGED <<client, gone, pending, owner>> PROVE ClientInv'
  BY <1>2 DEF ClientInv, Joined
<1>3. ASSUME NEW c \in Clients, S!AcceptConn(c), UNCHANGED clientVars
      PROVE  ClientInv'
  <2>1. CASE S!Crash
    BY <1>2, <1>3, <2>1 DEF S!Crash, clientVars
  <2>2. CASE ~S!Crash
    <3>1. PICK f \in Fds : owner[f] = None /\ owner' = [owner EXCEPT ![f] = c]
      BY <1>3, <2>2 DEF S!AcceptConn, S!IsNextFd
    <3>2. UNCHANGED <<client, gone>> /\ pending' = pending \ {c}
      BY <1>3, <2>2 DEF S!AcceptConn, clientVars
    <3>3. Joined' = Joined \cup {c}
      BY <1>1, <3>1, ClientsAssumption DEF Joined
    <3>4. QED
      BY <3>2, <3>3 DEF ClientInv
  <2>3. QED
    BY <2>1, <2>2
<1>4. ASSUME \/ \E f \in Fds : S!OnServerRead(f)
             \/ S!Sighup \/ S!ServerExit \/ S!CloseServer,
             UNCHANGED clientVars
      PROVE  ClientInv'
  BY <1>2, <1>4 DEF S!OnServerRead, S!Crash, S!Disconnect, S!Sighup, S!ServerExit,
                    S!CloseServer, S!netVars, clientVars
<1>5. ASSUME NEW c \in Clients, UNCHANGED serverVars, C!Connect(c) PROVE ClientInv'
  BY <1>1, <1>5 DEF C!Connect, ClientInv, Joined, serverVars
<1>6. ASSUME NEW c \in Clients, UNCHANGED serverVars, client[c] # "new",
             pending' = pending,
             \/ UNCHANGED <<client, gone>>
             \/ /\ gone' = gone \cup {c}
                /\ \E end \in {"closed", "stale", "ended"} : client' = [client EXCEPT ![c] = end]
      PROVE  ClientInv'
  BY <1>1, <1>6 DEF ClientInv, Joined, serverVars
<1>7. ASSUME NEW c \in Clients, UNCHANGED serverVars,
             \/ \E line \in {"msg", "all", "close"} : C!ReadStdin(c, line)
             \/ C!ClientEnds(c) \/ C!Killed(c)
      PROVE  ClientInv'
  BY <1>6, <1>7 DEF C!ReadStdin, C!ClientEnds, C!Killed
<1>8. ASSUME NEW c \in Clients, UNCHANGED serverVars, C!OnRead(c) PROVE ClientInv'
  <2>1. client[c] = "open" /\ pending' = pending
    BY <1>8 DEF C!OnRead
  <2>2. \/ UNCHANGED <<client, gone>>
        \/ /\ gone' = gone \cup {c}
           /\ \E end \in {"closed", "stale", "ended"} : client' = [client EXCEPT ![c] = end]
    BY <1>8 DEF C!OnRead, C!Close
  <2>3. QED
    BY <1>6, <1>8, <2>1, <2>2
<1>9. CASE UNCHANGED vars
  BY <1>2, <1>9 DEF vars, clientVars, netVars, serverVars
<1>10. QED
  BY <1>3, <1>4, <1>5, <1>7, <1>8, <1>9
  DEF Next, ServerSide, ClientSide, S!ServerNext, S!ServerStep, C!ClientNext, C!ClientStep

\* What is sent on descriptors is told to the clients they are open for.
LEMMA SendTells ==
  ASSUME NEW fs, NEW say, NEW words, S!Send(fs, say),
         \A f \in fs : say[f] = words[owner[f]]
  PROVE  Contract!Tell({owner[f] : f \in fs}, words)
<1>1. ASSUME NEW c \in Clients, \E f \in fs : owner[f] = c
      PROVE  say[CHOOSE f \in fs : owner[f] = c] = words[c]
  BY <1>1
<1>2. \A c \in Clients :
        (c \notin gone /\ \E f \in fs : owner[f] = c) <=> c \in {owner[f] : f \in fs} \ gone
  OBVIOUS
<1>3. QED
  BY <1>1, <1>2 DEF S!Send, Contract!Tell

\* A running server knows the client of each of its events.
LEMMA MemberOfEvent ==
  ASSUME IInv, S!LoopRuns, NEW f \in Fds, f \in socketEvents
  PROVE  f \in sockMap /\ owner[f] \in Clients /\ owner[f] \in Members
BY DEF IInv, SameTables, Members

\* What a callback may do to the server object is what the contract lets it do.
LEMMA CallbackReleases == S!Callback => Contract!Callback
<1>1. freed' = freed \/ freed' = TRUE => freed' \in {freed, TRUE}
  OBVIOUS
<1>2. QED
  BY <1>1 DEF S!Callback, Contract!Callback

LEMMA AcceptConnJoins ==
  ASSUME IInv, NEW c \in Clients, S!AcceptConn(c), ~S!Crash
  PROVE  Contract!Join(c)
<1>1. PICK f \in Fds : /\ owner[f] = None
                       /\ owner' = [owner EXCEPT ![f] = c]
                       /\ sockMap' = sockMap \cup {f}
  BY DEF S!AcceptConn, S!IsNextFd
<1>2. /\ S!LoopRuns /\ c \in pending /\ pending' = pending \ {c}
      /\ UNCHANGED <<srv, toServer, toClient, gone>>
  BY DEF S!AcceptConn
<1>3. owner \in [Fds -> Clients \cup {None, "other"}] /\ sockMap \subseteq Fds
  BY DEF IInv, TypeOK, S!ServerTypeOK
<1>4. f \notin sockMap
  BY <1>1, <1>2, ClientsAssumption DEF IInv, SameTables
<1>5. Members' = Members \cup {c}
  BY <1>1, <1>3, <1>4 DEF Members
<1>6. Joined' = Joined \cup {c}
  BY <1>1, <1>3, ClientsAssumption DEF Joined
<1>7. c \notin Joined
  BY <1>2 DEF IInv, WaitingIsNew, Joined
<1>8. Phase # "closed" /\ Phase' = Phase
  BY <1>2 DEF Phase, S!LoopRuns
<1>9. Contract!Callback
  BY CallbackReleases DEF S!AcceptConn
<1>10. QED
  BY <1>2, <1>5, <1>6, <1>7, <1>8, <1>9 DEF Contract!Join, Contract!Serves

LEMMA DisconnectLetsGo ==
  ASSUME IInv, NEW f \in Fds, S!LoopRuns, f \in socketEvents,
         owner[f] \in gone, S!Disconnect(f), S!Callback
  PROVE  Contract!LetGo(owner[f])
<1>1. f \in sockMap /\ owner[f] \in Members /\ owner[f] \in Clients
  BY MemberOfEvent
<1>2. /\ sockMap' = sockMap \ {f}
      /\ UNCHANGED <<srv, owner, pending, toServer, toClient, gone>>
  BY DEF S!Disconnect, S!netVars
<1>3. \A g \in sockMap : owner[g] = owner[f] => g = f
  BY <1>1 DEF IInv, OneFd, TypeOK, S!ServerTypeOK
<1>4. Members' = Members \ {owner[f]}
  BY <1>2, <1>3 DEF Members
<1>5. Phase # "closed" /\ Phase' = Phase /\ Joined' = Joined
  BY <1>2 DEF Phase, S!LoopRuns, Joined
<1>6. Contract!Callback
  BY CallbackReleases
<1>7. QED
  BY <1>1, <1>2, <1>4, <1>5, <1>6 DEF Contract!LetGo, Contract!Serves

LEMMA ReplyAnswers ==
  ASSUME IInv, NEW f \in Fds, S!LoopRuns, f \in socketEvents,
         NEW data, S!Reply(f, data)
  PROVE  Contract!AnswerTo(owner[f], data)
<1> DEFINE c == owner[f]
           reply == IF data = <<"close">> THEN "close" ELSE "reply"
<1>1. f \in sockMap /\ c \in Clients /\ sockMap \subseteq Fds
  BY MemberOfEvent DEF IInv, TypeOK, S!ServerTypeOK
<1>2. CASE Head(data) = "all"
  <2> DEFINE say == [g \in Fds |-> IF g = f THEN "back" ELSE reply]
             words == [d \in Clients |-> IF d = c THEN "back" ELSE "reply"]
  <2>1. Head(<<"close">>) = "close"
    OBVIOUS
  <2>2. reply = "reply"
    BY <1>2, <2>1
  <2>3. \A g \in sockMap : owner[g] \in Clients /\ (owner[g] = c => g = f)
    BY <1>1 DEF IInv, SameTables, OneFd
  <2>4. \A g \in sockMap : say[g] = words[owner[g]]
    BY <1>1, <2>2, <2>3
  <2>5. S!Send(sockMap, say)
    BY <1>2 DEF S!Reply
  <2> HIDE DEF say, words
  <2>6. Contract!Tell(Members, words)
    BY <2>4, <2>5, SendTells DEF Members
  <2>7. QED
    BY <1>2, <2>6 DEF Contract!AnswerTo, words
<1>3. CASE Head(data) # "all"
  <2> DEFINE say == [g \in Fds |-> reply]
             words == [d \in Clients |-> reply]
  <2>1. \A g \in {f} : say[g] = words[owner[g]]
    BY <1>1
  <2>2. S!Send({f}, say)
    BY <1>3 DEF S!Reply
  <2> HIDE DEF say, words
  <2>3. Contract!Tell({owner[g] : g \in {f}}, words)
    BY <2>1, <2>2, SendTells
  <2>4. {owner[g] : g \in {f}} = {c}
    OBVIOUS
  <2>5. QED
    BY <1>3, <2>3, <2>4 DEF Contract!AnswerTo, words
<1>4. QED
  BY <1>2, <1>3

LEMMA OnServerReadAnswers ==
  ASSUME IInv, NEW f \in Fds, S!OnServerRead(f), ~S!Crash
  PROVE  Contract!LetGo(owner[f]) \/ Contract!Answer(owner[f])
<1> DEFINE c == owner[f]
<1>1. S!LoopRuns /\ f \in socketEvents
  BY DEF S!OnServerRead
<1>2. CASE c \in gone /\ S!Disconnect(f) /\ S!Callback
  BY <1>1, <1>2, DisconnectLetsGo
<1>3. ASSUME NEW n \in 1..Len(toServer[c]), S!Recv(c, n),
             S!Reply(f, S!Taken(toServer[c], n)), S!Callback,
             UNCHANGED <<srv, signals, owner, sockMap, socketEvents, pending, gone>>
      PROVE  Contract!Answer(c)
  <2>1. Contract!AnswerTo(c, SubSeq(toServer[c], 1, n))
    BY <1>1, <1>3, ReplyAnswers DEF S!Taken
  <2>2. Phase # "closed" /\ Phase' = Phase /\ Joined' = Joined /\ Members' = Members
    BY <1>1, <1>3 DEF Phase, S!LoopRuns, Joined, Members
  <2>3. c \in Members /\ Contract!Callback
    BY <1>1, <1>3, MemberOfEvent, CallbackReleases
  <2>4. QED
    BY <1>1, <1>3, <2>1, <2>2, <2>3
       DEF Contract!Answer, Contract!Serves, S!Recv, S!Left
<1>4. QED
  BY <1>2, <1>3 DEF S!OnServerRead

LEMMA SighupNotifies ==
  ASSUME IInv, S!Sighup, ~S!Crash
  PROVE  Contract!Notice
<1> DEFINE say == [f \in Fds |-> "offline"]
           words == [c \in Clients |-> "offline"]
<1>1. /\ S!LoopRuns /\ srv' = "exiting" /\ S!Send(sockMap, say)
      /\ UNCHANGED <<freed, owner, sockMap, pending, toServer, gone>>
  BY DEF S!Sighup
<1>2. \A f \in sockMap : owner[f] \in Clients /\ f \in Fds
  BY <1>1 DEF IInv, TypeOK, S!ServerTypeOK, SameTables
<1>3. \A f \in sockMap : say[f] = words[owner[f]]
  BY <1>2
<1> HIDE DEF say, words
<1>4. Contract!Tell(Members, words)
  BY <1>1, <1>3, SendTells DEF Members
<1>5. Phase # "closed" /\ Phase' = "closing" /\ Joined' = Joined /\ Members' = Members
  BY <1>1 DEF Phase, S!LoopRuns, Joined, Members
<1>6. QED
  BY <1>1, <1>4, <1>5 DEF Contract!Notice, Contract!Serves, words

\* The end of the loop, or of a process that used the freed object.
LEMMA CrashShuts ==
  ASSUME S!LoopRuns, S!Crash,
         \/ UNCHANGED toServer
         \/ \E c \in Members : \E n \in 1..Len(toServer[c]) : S!Recv(c, n)
  PROVE  Contract!Shut
<1>1. /\ freed' /\ UNCHANGED <<owner, sockMap, pending, toClient, gone>>
      /\ Contract!Callback
  BY CallbackReleases DEF S!Crash
<1>2. Joined' = Joined /\ Members' = Members /\ Phase # "closed" /\ Phase' = "closed"
  BY <1>1 DEF Joined, Members, Phase, S!LoopRuns, S!Crash
<1>3. \/ UNCHANGED toServer
      \/ \E c \in Members : \E n \in 1..Len(toServer[c]) :
           toServer' = [toServer EXCEPT ![c] = SubSeq(@, n + 1, Len(@))]
  BY DEF S!Recv, S!Left
<1>4. QED
  BY <1>1, <1>2, <1>3 DEF Contract!Shut, Contract!Serves

LEMMA ExitShuts == S!ServerExit => Contract!Shut
<1> SUFFICES ASSUME S!ServerExit PROVE Contract!Shut
  OBVIOUS
<1>1. UNCHANGED <<freed, owner, sockMap, pending, toServer, toClient, gone>>
  BY DEF S!ServerExit, S!netVars
<1>2. Joined' = Joined /\ Members' = Members /\ Phase = "closing" /\ Phase' = "closed"
  BY <1>1 DEF Joined, Members, Phase, S!ServerExit
<1>3. QED
  BY <1>1, <1>2 DEF Contract!Shut, Contract!Serves, Contract!Callback

LEMMA ServerStepIsContract ==
  ASSUME IInv, S!ServerNext
  PROVE  [Contract!Next]_(Contract!vars)
<1>1. ASSUME NEW c \in Clients, S!AcceptConn(c) PROVE Contract!Next
  <2>1. CASE S!Crash
    <3>1. S!LoopRuns /\ UNCHANGED toServer
      BY <1>1 DEF S!AcceptConn
    <3>2. QED
      BY <2>1, <3>1, CrashShuts DEF Contract!Next
  <2>2. CASE ~S!Crash
    BY <1>1, <2>2, AcceptConnJoins DEF Contract!Next
  <2>3. QED
    BY <2>1, <2>2
<1>2. ASSUME NEW f \in Fds, S!OnServerRead(f) PROVE Contract!Next
  <2>1. S!LoopRuns /\ owner[f] \in Clients /\ owner[f] \in Members
    BY <1>2, MemberOfEvent DEF S!OnServerRead
  <2>2. CASE S!Crash
    <3>1. \/ UNCHANGED toServer
          \/ \E n \in 1..Len(toServer[owner[f]]) : S!Recv(owner[f], n)
      BY <1>2 DEF S!OnServerRead, S!Disconnect, S!netVars
    <3>2. QED
      BY <2>1, <2>2, <3>1, CrashShuts DEF Contract!Next
  <2>3. CASE ~S!Crash
    BY <1>2, <2>1, <2>3, OnServerReadAnswers DEF Contract!Next
  <2>4. QED
    BY <2>2, <2>3
<1>3. CASE S!Sighup
  <2>1. CASE S!Crash
    <3>1. CASE UNCHANGED toServer
      <4>1. S!LoopRuns
        BY <1>3 DEF S!Sighup
      <4>2. QED
        BY <2>1, <3>1, <4>1, CrashShuts DEF Contract!Next
    <3>2. QED
      BY <1>3, <3>1 DEF S!Sighup
  <2>2. CASE ~S!Crash
    BY <1>3, <2>2, SighupNotifies DEF Contract!Next
  <2>3. QED
    BY <2>1, <2>2
<1>4. CASE S!ServerExit
  BY <1>4, ExitShuts DEF Contract!Next
<1>5. CASE S!CloseServer
  <2>1. S!LoopRuns /\ UNCHANGED toServer
    BY <1>5 DEF S!CloseServer
  <2>2. CASE S!Crash
    BY <2>1, <2>2, CrashShuts DEF Contract!Next
  <2>3. CASE ~S!Crash
    <3>1. /\ freed' = TRUE
          /\ UNCHANGED <<srv, owner, sockMap, pending, toClient, gone>>
      BY <1>5, <2>3 DEF S!CloseServer
    <3>2. Phase # "closed" /\ Phase' = Phase /\ Joined' = Joined /\ Members' = Members
      BY <2>1, <3>1 DEF Phase, S!LoopRuns, Joined, Members
    <3>3. Contract!Release
      BY <2>1, <3>1, <3>2 DEF Contract!Release, Contract!Serves
    <3>4. QED
      BY <3>3 DEF Contract!Next
  <2>4. QED
    BY <2>2, <2>3
<1>6. QED
  BY <1>1, <1>2, <1>3, <1>4, <1>5 DEF S!ServerNext, S!ServerStep

\* A client is what its part in the streams shows.
LEMMA ClientStepIsContract ==
  ASSUME IInv, ClientInv, NEW c \in Clients, C!ClientNext(c), UNCHANGED serverVars
  PROVE  [Contract!Next]_(Contract!vars)
<1>1. /\ Phase' = Phase /\ freed' = freed /\ Joined' = Joined /\ Members' = Members
  BY DEF serverVars, Phase, Joined, Members
<1>2. client[c] = "open" => Contract!Connected(c)
  BY DEF ClientInv, Contract!Connected
<1>3. CASE C!Connect(c)
  <2>1. client[c] = "new" /\ pending' = pending \cup {c}
        /\ UNCHANGED <<toServer, toClient, gone>>
    BY <1>3 DEF C!Connect
  <2>2. c \notin pending \cup Joined \cup gone
    BY <2>1 DEF IInv, NewIsUnknown, ClientInv, Joined
  <2>3. QED
    BY <1>1, <2>1, <2>2 DEF Contract!Next, Contract!Connect
<1>4. ASSUME NEW line \in {"msg", "all", "close"}, C!ReadStdin(c, line)
      PROVE  Contract!Say(c) \/ UNCHANGED Contract!vars
  <2>1. /\ client[c] = "open" /\ UNCHANGED <<pending, toClient, gone>>
        /\ toServer' = [toServer EXCEPT ![c] = IF srv = "down" THEN @ ELSE Append(@, line)]
    BY <1>4 DEF C!ReadStdin
  <2>2. CASE srv = "down"
    <3>1. toServer' = toServer
      BY <2>1, <2>2 DEF IInv, TypeOK, S!ServerTypeOK
    <3>2. QED
      BY <1>1, <2>1, <3>1 DEF Contract!vars
  <2>3. CASE srv # "down"
    BY <1>1, <1>2, <2>1, <2>3 DEF Contract!Say
  <2>4. QED
    BY <2>2, <2>3
<1>5. CASE C!OnRead(c)
  <2>1. client[c] = "open" /\ UNCHANGED <<pending, toServer>>
    BY <1>5 DEF C!OnRead
  <2>2. PICK n \in 0..Len(toClient[c]) :
          LET data == SubSeq(toClient[c], 1, n) IN
          /\ n = 0 => C!AtEnd(c)
          /\ toClient' = [toClient EXCEPT ![c] = IF n = 0 THEN <<>> ELSE SubSeq(@, n + 1, Len(@))]
          /\ IF data = <<"close">>
             THEN C!Close(c)
             ELSE UNCHANGED <<client, gone>>
    BY <1>5 DEF C!OnRead
  <2>3. gone' = IF SubSeq(toClient[c], 1, n) = <<"close">> THEN gone \cup {c} ELSE gone
    BY <2>2 DEF C!Close
  <2>4. Len(toClient[c]) \in Nat /\ toClient[c] \in Seq(S!Replies)
    BY LenProperties DEF IInv, TypeOK, S!ServerTypeOK
  <2>5. CASE n = 0
    <3>1. Len(SubSeq(toClient[c], 1, 0)) = 0 /\ Len(<<"close">>) = 1
      BY <2>4
    <3>2. gone' = gone
      BY <2>3, <2>5, <3>1
    <3>3. Phase = "closed"
      BY <2>2, <2>5 DEF C!AtEnd, Phase
    <3>4. Contract!Lose(c)
      BY <1>1, <1>2, <2>1, <2>2, <2>5, <3>2, <3>3 DEF Contract!Lose
    <3>5. QED
      BY <3>4 DEF Contract!Next
  <2>6. CASE n # 0
    <3>1. n \in 1..Len(toClient[c])
      BY <2>4, <2>6
    <3>2. toClient' = [toClient EXCEPT ![c] = SubSeq(@, n + 1, Len(@))]
      BY <2>2, <2>6
    <3>3. Contract!Read(c)
      BY <1>1, <1>2, <2>1, <2>3, <3>1, <3>2 DEF Contract!Read
    <3>4. QED
      BY <3>3 DEF Contract!Next
  <2>7. QED
    BY <2>5, <2>6
<1>6. CASE C!ClientEnds(c) \/ C!Killed(c)
  <2>1. /\ client[c] # "new" /\ gone' = gone \cup {c}
        /\ UNCHANGED <<pending, toServer, toClient>>
    BY <1>6 DEF C!ClientEnds, C!Killed
  <2>2. CASE c \in gone
    <3>1. gone' = gone
      BY <2>1, <2>2
    <3>2. QED
      BY <1>1, <2>1, <3>1 DEF Contract!vars
  <2>3. CASE c \notin gone
    BY <1>1, <2>1, <2>3 DEF ClientInv, Contract!Next, Contract!Leave, Contract!Connected
  <2>4. QED
    BY <2>2, <2>3
<1>7. QED
  BY <1>3, <1>4, <1>5, <1>6 DEF C!ClientNext, C!ClientStep, Contract!Next

\* Descriptors and tables together are a set of members, and each member is told
\* what ServerContract says, for any number of clients, descriptors and lines.
THEOREM Refinement == Spec => ImplementsServerContract
<1>1. Init => ClientInv
  BY ClientsAssumption DEF Init, S!ServerInit, C!ClientInit, ClientInv
<1>2. IInv /\ ClientInv /\ [Next]_vars => ClientInv'
  BY ClientNext
<1>3. Init => Contract!Init
  <2> SUFFICES ASSUME Init PROVE Contract!Init
    OBVIOUS
  <2>1. Members = {} /\ Phase = "open"
    BY DEF Init, S!ServerInit, Members, Phase
  <2>2. Joined = {}
    BY ClientsAssumption DEF Init, S!ServerInit, Joined
  <2>3. QED
    BY <2>1, <2>2 DEF Init, S!ServerInit, Contract!Init
<1>4. IInv /\ ClientInv /\ [Next]_vars => [Contract!Next]_(Contract!vars)
  <2>1. ASSUME UNCHANGED vars PROVE UNCHANGED Contract!vars
    BY <2>1 DEF vars, serverVars, netVars, Contract!vars, Phase, Joined, Members
  <2>2. QED
    BY <2>1, ServerStepIsContract, ClientStepIsContract DEF Next, ServerSide, ClientSide
<1>5. QED
  BY <1>1, <1>2, <1>3, <1>4, Invariance, PTL DEF Spec, ImplementsServerContract, Contract!Spec
=============================================================================
