---------------------------- MODULE HttpReceive ----------------------------
(***************************************************************************)
(* One HTTP request: Http::getGetData and Http::getPostData of             *)
(* src/Http/client.cpp, which the thread pool runs as a job and the        *)
(* script calls directly.  They differ in the text they send; the loops    *)
(* that read the response are the same.                                    *)
(*                                                                         *)
(* The loop reads byte by byte and looks for its end in the text `tada' it *)
(* has so far.  Here the text is a sequence of                             *)
(*   "c"  the text "Content-Length: " and Length, in the header            *)
(*   "e"  the same with no number                                          *)
(*   "x"  any other text of a header line                                  *)
(*   "n"  the end of a line                                                *)
(*   "b"  a byte of the body that is not blank                             *)
(*   "0"  a NUL byte                                                       *)
(* The pieces of several bytes are read as one: no decision of the loop    *)
(* changes inside them.                                                    *)
(***************************************************************************)
EXTENDS Integers, Sequences

CONSTANTS
  Streams,  \* what a server may send
  Length,   \* the number in its Content-Length header
  MaxTada   \* bound: the text grows no further after the end of the stream

Tokens == {"c", "e", "x", "n", "b", "0"}

ASSUME StreamsAssumption == Streams \subseteq Seq(Tokens)
\* Past the bound the text is too long to end the loop, see Recv.
ASSUME LengthAssumption ==
  /\ Length \in Nat /\ MaxTada \in Nat
  /\ \A s \in Streams : Len(s) + Length < MaxTada

VARIABLES
  pc,      \* "setup", "recv", "returned", "error" or "crashed" (an exception
           \* of std::string that nothing catches)
  tada,    \* the text received
  buffer,  \* buffer[0], or the piece it ends; not initialised
  before,  \* the byte that buffer[-1] reads
  sock,    \* the socket is open
  stream,  \* what the server sends, given time
  sent,    \* how much of it has arrived
  read,    \* how much of that was received
  closed   \* no more will arrive

vars == <<pc, tada, buffer, before, sock, stream, sent, read, closed>>

TypeOK ==
  /\ pc \in {"setup", "recv", "returned", "error", "crashed"}
  /\ tada \in Seq(Tokens) /\ Len(tada) <= MaxTada
  /\ buffer \in Tokens /\ before \in Tokens
  /\ sock \in BOOLEAN /\ closed \in BOOLEAN
  /\ stream \in Streams
  /\ sent \in 0..Len(stream)
  /\ read \in 0..sent
  /\ pc = "recv" => sock
  /\ pc = "returned" => ~sock

Init ==
  /\ pc = "setup"
  /\ tada = <<>>
  /\ buffer \in {"b", "n", "0"} /\ before \in {"b", "0"}
  /\ sock = FALSE /\ closed = FALSE
  /\ stream \in Streams /\ sent = 0 /\ read = 0

-----------------------------------------------------------------------------
(* The server and the network.                                             *)

Arrive ==
  /\ pc = "recv" /\ ~closed
  /\ sent < Len(stream)
  /\ sent' = sent + 1
  /\ UNCHANGED <<pc, tada, buffer, before, sock, stream, read, closed>>

\* the server closes; a reset loses what was not received yet
ServerCloses ==
  /\ pc = "recv" /\ ~closed
  /\ closed' = TRUE
  /\ sent' \in {read, sent}
  /\ UNCHANGED <<pc, tada, buffer, before, sock, stream, read>>

-----------------------------------------------------------------------------
(* What the loop finds in a text t.                                        *)

\* a Content-Length header whose line has ended
HasLength(t, header) ==
  \E i, j \in DOMAIN t :
    /\ i < j /\ t[i] = header /\ t[j] = "n"
    /\ \A k \in 1..(i - 1) : t[k] \notin {"c", "e"}

\* substr(npos): there is nothing but blanks after "Content-Length:"
Throws(t) == HasLength(t, "e")

ContentLength(t) == IF HasLength(t, "c") THEN Length ELSE 0

BadBodyStarts(t) ==
  {k \in DOMAIN t : t[k] # "n" /\ \E e \in 2..(k - 1) : t[e] = "n"}

\* after two ends of line with nothing but blanks between
BodyStarts(t) ==
  {k \in DOMAIN t : t[k] # "n" /\ \E e \in 2..(k - 2) : t[e] = "n" /\ t[e + 1] = "n"}

\* `msg': the first of these places, 0 if there is none
Msg(t) ==
  IF BodyStarts(t) = {} THEN 0
  ELSE CHOOSE k \in BodyStarts(t) : \A l \in BodyStarts(t) : k <= l

BadBodyComplete(t) ==
  ContentLength(t) > 0 /\ Msg(t) > 0 /\ Len(t) - Msg(t) = ContentLength(t)

\* the break of lines 122-127 and 231-237
BodyComplete(t) ==
  ContentLength(t) > 0 /\ Msg(t) > 0 /\ Len(t) - Msg(t) + 1 = ContentLength(t)

-----------------------------------------------------------------------------
(* The request.                                                            *)

\* socket, gethostbyname, connect; the last two return without closing
SetUp ==
  /\ pc = "setup"
  /\ \/ pc' = "error" /\ sock' \in BOOLEAN
     \/ pc' = "recv" /\ sock' = TRUE
  /\ UNCHANGED <<tada, buffer, before, stream, sent, read, closed>>

BadTurn(t, last) ==
  /\ tada' = t
  /\ IF Throws(t) THEN pc' = "crashed" /\ UNCHANGED sock
     ELSE IF BodyComplete(t) \/ last = "0" THEN pc' = "returned" /\ UNCHANGED sock
     ELSE UNCHANGED <<pc, sock>>

\* One turn of the loop with the text t, of which the byte `last' is tested.
Turn(t, last) ==
  /\ tada' = t
  /\ IF Throws(t) THEN pc' = "crashed" /\ UNCHANGED sock
     ELSE IF BodyComplete(t) \/ last = "0" THEN pc' = "returned" /\ sock' = FALSE
     ELSE UNCHANGED <<pc, sock>>

BadRecv ==
  /\ pc = "recv"
  /\ read < sent
  /\ read' = read + 1
  /\ buffer' = stream[read']
  /\ Turn(Append(tada, buffer'), "b")
  /\ UNCHANGED <<before, stream, sent, closed>>

\* recv returned a byte
Recv ==
  /\ pc = "recv"
  /\ read < sent
  /\ read' = read + 1
  /\ buffer' = stream[read']
  /\ Turn(Append(tada, buffer'), buffer')
  /\ UNCHANGED <<before, stream, sent, closed>>

\* recv returned 0 or -1: the byte received before is appended again, and the
\* byte before the buffer is tested
RecvEnd ==
  /\ pc = "recv"
  /\ closed /\ read = sent
  /\ Len(tada) < MaxTada
  /\ Turn(Append(tada, buffer), before)
  /\ UNCHANGED <<buffer, before, stream, sent, read, closed>>

Client == SetUp \/ Recv \/ RecvEnd

Next == Client \/ Arrive \/ ServerCloses

Spec == Init /\ [][Next]_vars

\* The thread that runs the request goes on; the server need not send.
FairSpec == Spec /\ WF_vars(Client)

-----------------------------------------------------------------------------
(* Properties.                                                             *)

\* The first empty line of s begins after the end i of a line.
EmptyLineAt(s, i) ==
  /\ i \in 2..(Len(s) - 1)
  /\ s[i] = "n" /\ s[i + 1] = "n"
  /\ \A k \in 2..(i - 1) : s[k] # "n" \/ s[k + 1] # "n"

\* The end of the response s as HTTP has it: Length bytes after its empty line.
EmptyLine(s) == CHOOSE i \in DOMAIN s : EmptyLineAt(s, i)
End(s) == EmptyLine(s) + 1 + Length

\* A clean response has this, a good Content-Length header, none that is bad, no
\* NUL, and a body that does not begin with a blank.
Clean(s) ==
  /\ \A i \in DOMAIN s : s[i] \notin {"0", "e"}
  /\ \E i \in DOMAIN s : EmptyLineAt(s, i)
  /\ \E i \in 1..(EmptyLine(s) - 1) : s[i] = "c" /\ \A k \in 1..(i - 1) : s[k] # "c"
  /\ Length > 0 /\ End(s) <= Len(s)
  /\ s[EmptyLine(s) + 2] = "b"

\* What is returned for a clean response has its length, and no byte after it is
\* taken from the connection; what was received of it is unchanged.  If the
\* server closed early the rest is not from the server.
CleanIsComplete ==
  pc = "returned" /\ Clean(stream) =>
    /\ read <= End(stream)
    /\ SubSeq(tada, 1, read) = SubSeq(stream, 1, read)
    /\ Len(tada) = End(stream) \/ (closed /\ read = sent /\ before = "0")

\* A NUL byte that was received ends the request wherever it is (line 128): the
\* text returned to the script has none inside.
EndsAtNul ==
  read > 0 => \A i \in 1..(Len(tada) - 1) : tada[i] # "0"

\* An open connection does not hide the end of a clean response.  It is not so of
\* a closed one: after recv returned 0 (lines 78, 187) the loop goes on.
CleanEnds ==
  Clean(stream) /\ sent >= End(stream) /\ pc = "recv" ~> pc = "returned" \/ closed
=============================================================================
