------------------------- MODULE HttpReceiveProofs -------------------------
(***************************************************************************)
(* What the loop of HttpReceive keeps true for every response, length and  *)
(* bound.                                                                  *)
(***************************************************************************)
EXTENDS HttpReceive, SequenceTheorems, TLAPS

\* The text is what was received, until the stream has ended; so the bound is
\* not what ends the loop.
LengthInv == Len(tada) = read \/ (closed /\ read = sent)

\* No byte that was received while the loop goes on is NUL: EndsAtNul is not
\* inductive because the byte received last is appended again at the end.
NoNulInside ==
  pc = "recv" /\ read > 0 =>
    buffer # "0" /\ \A i \in 1..Len(tada) : tada[i] # "0"

\* Nothing is received before the connection is set up.
Untouched == pc = "setup" => read = 0 /\ tada = <<>>

IInv == TypeOK /\ LengthInv /\ Untouched /\ NoNulInside /\ EndsAtNul

-----------------------------------------------------------------------------
\* A token appended to a text.
LEMMA AppendToken ==
  ASSUME NEW t \in Seq(Tokens), NEW x \in Tokens
  PROVE  /\ Append(t, x) \in Seq(Tokens)
         /\ Len(Append(t, x)) = Len(t) + 1
         /\ \A i \in 1..Len(t) : Append(t, x)[i] = t[i]
         /\ Append(t, x)[Len(t) + 1] = x
  OBVIOUS

\* What the server sends is a sequence of tokens shorter than the bound.
LEMMA StreamType ==
  ASSUME TypeOK
  PROVE  /\ stream \in Seq(Tokens) /\ Len(stream) \in Nat
         /\ Len(stream) < MaxTada
  BY StreamsAssumption, LengthAssumption DEF TypeOK

LEMMA InitInv == Init => IInv
<1> SUFFICES ASSUME Init PROVE IInv
  OBVIOUS
<1>1. stream \in Seq(Tokens) /\ Len(stream) \in Nat
  BY StreamsAssumption DEF Init
<1>2. tada \in Seq(Tokens) /\ Len(tada) <= MaxTada
  BY LengthAssumption DEF Init
<1>3. sock \in BOOLEAN /\ closed \in BOOLEAN
  BY Zenon DEF Init
<1>4. buffer \in Tokens /\ before \in Tokens
  BY DEF Init, Tokens
<1>5. TypeOK
  BY <1>1, <1>2, <1>3, <1>4 DEF Init, TypeOK
<1>6. QED
  BY <1>5 DEF Init, IInv, LengthInv, Untouched, NoNulInside, EndsAtNul

\* One turn with the text t keeps what TypeOK says of pc, tada and the socket.
LEMMA TurnType ==
  ASSUME TypeOK, pc = "recv", NEW t \in Seq(Tokens), Len(t) <= MaxTada,
         NEW last \in Tokens, Turn(t, last)
  PROVE  /\ pc' \in {"recv", "returned", "crashed"}
         /\ tada' \in Seq(Tokens) /\ Len(tada') <= MaxTada
         /\ sock' \in BOOLEAN
         /\ pc' = "recv" => sock' /\ last # "0"
         /\ pc' = "returned" => ~sock'
<1>1. CASE Throws(t)
  BY <1>1 DEF Turn, TypeOK
<1>2. CASE ~Throws(t) /\ (BodyComplete(t) \/ last = "0")
  BY <1>2 DEF Turn, TypeOK
<1>3. CASE ~Throws(t) /\ ~(BodyComplete(t) \/ last = "0")
  BY <1>3 DEF Turn, TypeOK
<1>4. QED
  BY <1>1, <1>2, <1>3

\* A received byte, line 187 onward.
LEMMA RecvInv ==
  ASSUME IInv, Recv
  PROVE  IInv'
<1>1. TypeOK /\ pc = "recv" /\ stream \in Seq(Tokens) /\ Len(stream) < MaxTada
      /\ Len(stream) \in Nat /\ MaxTada \in Nat
  BY StreamType, LengthAssumption DEF IInv, Recv
<1>2. /\ read' = read + 1 /\ read' \in 1..sent /\ sent \in 0..Len(stream)
      /\ buffer' = stream[read'] /\ buffer' \in Tokens
  BY <1>1 DEF Recv, TypeOK
<1>3. Len(tada) = read
  BY <1>1, <1>2 DEF IInv, LengthInv, TypeOK, Recv
<1> DEFINE t == Append(tada, buffer')
<1>4. tada \in Seq(Tokens) /\ Len(tada) \in Nat
  BY <1>1 DEF TypeOK
<1>5. /\ t \in Seq(Tokens) /\ Len(t) = read' /\ t[Len(tada) + 1] = buffer'
      /\ \A i \in 1..Len(tada) : t[i] = tada[i]
  BY <1>2, <1>3, <1>4, AppendToken
<1>6. Turn(t, buffer') /\ tada' = t
  BY DEF Recv, Turn
<1>7. Len(t) <= MaxTada
  BY <1>1, <1>2, <1>5
<1> HIDE DEF t
<1>8. /\ pc' \in {"recv", "returned", "crashed"}
      /\ sock' \in BOOLEAN
      /\ pc' = "recv" => sock' /\ buffer' # "0"
      /\ pc' = "returned" => ~sock'
  BY <1>1, <1>2, <1>5, <1>6, <1>7, TurnType
<1>9. UNCHANGED <<before, stream, sent, closed>>
  BY DEF Recv
<1>10. TypeOK'
  BY <1>1, <1>2, <1>5, <1>6, <1>7, <1>8, <1>9 DEF TypeOK
<1>11. \A i \in 1..Len(tada) : tada[i] # "0"
  BY <1>1, <1>3, <1>4 DEF IInv, NoNulInside
<1>12. EndsAtNul'
  BY <1>2, <1>3, <1>4, <1>5, <1>6, <1>11 DEF EndsAtNul
<1>13. NoNulInside'
  BY <1>2, <1>3, <1>4, <1>5, <1>6, <1>8, <1>11 DEF NoNulInside
<1>14. LengthInv' /\ Untouched'
  BY <1>5, <1>6, <1>8 DEF LengthInv, Untouched
<1>15. QED
  BY <1>10, <1>12, <1>13, <1>14 DEF IInv

\* The end of the stream: the last byte once more.
LEMMA RecvEndInv ==
  ASSUME IInv, RecvEnd
  PROVE  IInv'
<1>1. /\ TypeOK /\ pc = "recv" /\ closed /\ read = sent
      /\ MaxTada \in Nat /\ Len(tada) < MaxTada
  BY LengthAssumption DEF IInv, RecvEnd
<1>2. /\ tada \in Seq(Tokens) /\ Len(tada) \in Nat /\ buffer \in Tokens
      /\ before \in Tokens
  BY <1>1 DEF TypeOK
<1> DEFINE t == Append(tada, buffer)
<1>3. /\ t \in Seq(Tokens) /\ Len(t) = Len(tada) + 1 /\ t[Len(tada) + 1] = buffer
      /\ \A i \in 1..Len(tada) : t[i] = tada[i]
  BY <1>2, AppendToken
<1>4. Turn(t, before) /\ tada' = t
  BY DEF RecvEnd, Turn
<1>5. Len(t) <= MaxTada
  BY <1>1, <1>2, <1>3
<1> HIDE DEF t
<1>6. /\ pc' \in {"recv", "returned", "crashed"}
      /\ sock' \in BOOLEAN
      /\ pc' = "recv" => sock'
      /\ pc' = "returned" => ~sock'
  BY <1>1, <1>2, <1>3, <1>4, <1>5, TurnType
<1>7. UNCHANGED <<buffer, before, stream, sent, read, closed>>
  BY DEF RecvEnd
<1>8. TypeOK'
  BY <1>1, <1>3, <1>4, <1>5, <1>6, <1>7 DEF TypeOK
<1>9. read > 0 => \A i \in 1..Len(t) : t[i] # "0"
  BY <1>1, <1>2, <1>3 DEF IInv, NoNulInside
<1>10. EndsAtNul' /\ NoNulInside'
  BY <1>1, <1>2, <1>3, <1>4, <1>7, <1>9 DEF EndsAtNul, NoNulInside, IInv
<1>11. LengthInv' /\ Untouched'
  BY <1>1, <1>6, <1>7 DEF LengthInv, Untouched
<1>12. QED
  BY <1>8, <1>10, <1>11 DEF IInv

\* Every step keeps the invariant.
LEMMA NextInv == IInv /\ [Next]_vars => IInv'
<1> SUFFICES ASSUME IInv, [Next]_vars PROVE IInv'
  OBVIOUS
<1>1. CASE SetUp
  <2>1. TypeOK'
    BY <1>1 DEF SetUp, IInv, TypeOK
  <2>2. QED
    BY <1>1, <2>1 DEF SetUp, IInv, LengthInv, Untouched, NoNulInside, EndsAtNul
<1>2. CASE Recv
  BY <1>2, RecvInv
<1>3. CASE RecvEnd
  BY <1>3, RecvEndInv
<1>4. CASE Arrive
  <2>1. TypeOK'
    BY <1>4, StreamType DEF Arrive, IInv, TypeOK
  <2>2. QED
    BY <1>4, <2>1 DEF Arrive, IInv, LengthInv, Untouched, NoNulInside, EndsAtNul
<1>5. CASE ServerCloses
  <2>1. TypeOK'
    BY <1>5, StreamType DEF ServerCloses, IInv, TypeOK
  <2>2. LengthInv'
    BY <1>5 DEF ServerCloses, IInv, LengthInv
  <2>3. QED
    BY <1>5, <2>1, <2>2 DEF ServerCloses, IInv, Untouched, NoNulInside, EndsAtNul
<1>6. CASE UNCHANGED vars
  BY <1>6 DEF vars, IInv, TypeOK, LengthInv, Untouched, NoNulInside, EndsAtNul
<1>7. QED
  BY <1>1, <1>2, <1>3, <1>4, <1>5, <1>6 DEF Next, Client

-----------------------------------------------------------------------------
\* Type correctness: the indices of the stream stay in order, the text within
\* its bound, and the socket is open exactly while it is read and closed after.
THEOREM TypeCorrect == Spec => []TypeOK
<1>1. IInv => TypeOK
  BY DEF IInv
<1>2. QED
  BY <1>1, InitInv, NextInv, PTL DEF Spec

\* For every response: a NUL byte that was received ends the request.
THEOREM NulEndsTheText == Spec => []EndsAtNul
<1>1. IInv => EndsAtNul
  BY DEF IInv
<1>2. QED
  BY <1>1, InitInv, NextInv, PTL DEF Spec

-----------------------------------------------------------------------------
(* A clean response is returned whole.  The text is what was received of the *)
(* stream s, its first r tokens, and then x, the last of them, repeated.     *)
Shape(t, s, r, x) ==
  /\ t \in Seq(Tokens) /\ s \in Seq(Tokens)
  /\ r \in 0..Len(s) /\ r <= Len(t)
  /\ \A i \in 1..r : t[i] = s[i]
  /\ \A i \in (r + 1)..Len(t) : t[i] = x
  /\ r > 0 => x = s[r]

TextInv == Shape(tada, stream, read, buffer)

\* The loop never goes on with all of a clean response received.
NotPast == Clean(stream) /\ pc \in {"setup", "recv"} => read < End(stream)

Complete ==
  pc = "returned" /\ Clean(stream) =>
    /\ read <= End(stream)
    /\ Len(tada) = End(stream) \/ (closed /\ read = sent /\ before = "0")

CInv == IInv /\ TextInv /\ NotPast /\ Complete

\* The empty line of a clean response is its first.
LEMMA CleanHead ==
  ASSUME NEW s \in Seq(Tokens), Clean(s)
  PROVE  /\ EmptyLineAt(s, EmptyLine(s))
         /\ EmptyLine(s) \in Nat /\ Len(s) \in Nat
         /\ EmptyLine(s) >= 2 /\ EmptyLine(s) + 2 <= End(s) /\ End(s) <= Len(s)
         /\ End(s) = EmptyLine(s) + 1 + Length
<1>1. \E i \in DOMAIN s : EmptyLineAt(s, i)
  BY DEF Clean
<1>2. EmptyLine(s) \in DOMAIN s /\ EmptyLineAt(s, EmptyLine(s))
  BY <1>1 DEF EmptyLine
<1>3. Len(s) \in Nat
  OBVIOUS
<1>4. EmptyLine(s) \in 2..(Len(s) - 1)
  BY <1>2 DEF EmptyLineAt
<1>5. Length \in Nat /\ Length > 0 /\ End(s) <= Len(s)
  BY LengthAssumption DEF Clean
<1>6. QED
  BY <1>2, <1>3, <1>4, <1>5 DEF End

\* A body is found in the text only where it begins in the response, and only
\* once that was received: repeating a token makes no empty line and no body.
LEMMA StartIsReceived ==
  ASSUME NEW t, NEW s, NEW r, NEW x, Shape(t, s, r, x), Clean(s), NEW k \in BodyStarts(t)
  PROVE  k >= EmptyLine(s) + 2 /\ r >= EmptyLine(s) + 2
<1> DEFINE m == EmptyLine(s)
<1>1. /\ s \in Seq(Tokens) /\ t \in Seq(Tokens) /\ r \in Nat /\ r <= Len(s) /\ r <= Len(t)
      /\ Len(s) \in Nat /\ Len(t) \in Nat
  BY DEF Shape
<1>2. m \in Nat /\ m >= 2 /\ m + 2 <= Len(s) /\ s[m + 1] = "n"
      /\ \A e \in 2..(m - 1) : s[e] # "n" \/ s[e + 1] # "n"
  <2>1. EmptyLineAt(s, m) /\ m \in Nat /\ m >= 2 /\ m + 2 <= Len(s)
    BY <1>1, CleanHead, LengthAssumption DEF End
  <2> HIDE DEF m
  <2>2. QED
    BY <2>1 DEF EmptyLineAt
<1> HIDE DEF m
<1>3. k \in Nat /\ k <= Len(t) /\ t[k] # "n"
  BY <1>1 DEF BodyStarts
<1>4. PICK e \in 2..(k - 2) : t[e] = "n" /\ t[e + 1] = "n"
  BY DEF BodyStarts
<1>5. e \in Nat /\ e >= 2 /\ e + 2 <= k
  BY <1>3, <1>4
<1>6. /\ \A i \in Nat : i > 0 /\ i <= r => t[i] = s[i]
      /\ \A i \in Nat : i > r /\ i <= Len(t) => t[i] = x
      /\ r > 0 => x = s[r]
  BY <1>1 DEF Shape
<1>7. e < m => e + 1 > r
  <2> SUFFICES ASSUME e < m, e + 1 <= r PROVE FALSE
    BY <1>1, <1>5
  <2>1. t[e] = s[e] /\ t[e + 1] = s[e + 1]
    BY <1>1, <1>5, <1>6
  <2>2. e \in 2..(m - 1)
    BY <1>2, <1>5
  <2>3. QED
    BY <1>2, <1>4, <2>1, <2>2
<1>8. r >= m + 2
  <2> SUFFICES ASSUME r <= m + 1 PROVE FALSE
    BY <1>1, <1>2
  <2>1. k > r
    <3> SUFFICES ASSUME k <= r PROVE FALSE
      BY <1>1, <1>3
    <3>1. e < m /\ e + 1 <= r
      BY <1>1, <1>2, <1>3, <1>5
    <3>2. QED
      BY <1>1, <1>5, <1>7, <3>1
  <2>2. x # "n"
    BY <1>3, <1>6, <2>1
  <2>3. e + 1 <= r
    <3> SUFFICES ASSUME e + 1 > r PROVE FALSE
      BY <1>1, <1>5
    <3>1. t[e + 1] = x
      BY <1>1, <1>3, <1>5, <1>6
    <3>2. QED
      BY <1>4, <2>2, <3>1
  <2>4. ~(e < m)
    BY <1>1, <1>5, <1>7, <2>3
  <2>5. r = m + 1
    BY <1>1, <1>2, <1>5, <2>3, <2>4
  <2>6. x = s[m + 1]
    BY <1>2, <1>6, <2>5
  <2>7. QED
    BY <1>2, <2>2, <2>6
<1>9. e >= m
  <2> SUFFICES ASSUME e < m PROVE FALSE
    BY <1>2, <1>5
  <2>1. e + 1 <= r
    BY <1>1, <1>2, <1>5, <1>8
  <2>2. QED
    BY <1>1, <1>5, <1>7, <2>1
<1>10. QED
  BY <1>2, <1>3, <1>5, <1>8, <1>9 DEF m

\* Once the first byte of the body was received its place is found.
LEMMA MsgFound ==
  ASSUME NEW t, NEW s, NEW r, NEW x, Shape(t, s, r, x), Clean(s), r >= EmptyLine(s) + 2
  PROVE  Msg(t) = EmptyLine(s) + 2 /\ HasLength(t, "c")
<1> DEFINE m == EmptyLine(s)
<1>1. /\ s \in Seq(Tokens) /\ t \in Seq(Tokens) /\ r \in Nat /\ r <= Len(s) /\ r <= Len(t)
      /\ Len(s) \in Nat /\ Len(t) \in Nat /\ DOMAIN t = 1..Len(t)
      /\ DOMAIN s = 1..Len(s)
  BY DEF Shape
<1>2. \A i \in 1..r : t[i] = s[i]
  BY DEF Shape
<1>3. m \in Nat /\ m >= 2 /\ s[m] = "n" /\ s[m + 1] = "n"
  <2>1. EmptyLineAt(s, m) /\ m \in Nat /\ m >= 2
    BY <1>1, CleanHead
  <2> HIDE DEF m
  <2>2. QED
    BY <2>1 DEF EmptyLineAt
<1>4. s[m + 2] = "b" /\ r >= m + 2
  BY DEF Clean
<1>5. PICK i \in 1..(m - 1) : s[i] = "c" /\ \A k \in 1..(i - 1) : s[k] # "c"
  BY DEF Clean
<1>6. \A k \in DOMAIN s : s[k] # "e"
  BY DEF Clean
<1>7. \A k \in BodyStarts(t) : m + 2 <= k
  BY <1>1, <1>3, StartIsReceived DEF BodyStarts
<1> HIDE DEF m
<1>8. t[m] = "n" /\ t[m + 1] = "n" /\ t[m + 2] = "b"
  BY <1>1, <1>2, <1>3, <1>4
<1>9. m + 2 \in DOMAIN t /\ m \in 2..(m + 2 - 2)
  BY <1>1, <1>3, <1>4
<1>10. m + 2 \in BodyStarts(t)
  BY <1>8, <1>9 DEF BodyStarts
<1>11. \A k \in BodyStarts(t) : k \in Nat
  BY <1>1 DEF BodyStarts
<1>12. Msg(t) = m + 2
  <2> DEFINE least == CHOOSE k \in BodyStarts(t) : \A l \in BodyStarts(t) : k <= l
  <2>1. Msg(t) = least
    BY <1>10 DEF Msg
  <2>2. least \in BodyStarts(t) /\ \A l \in BodyStarts(t) : least <= l
    BY <1>7, <1>10
  <2> HIDE DEF least
  <2>3. least <= m + 2 /\ m + 2 <= least /\ least \in Nat
    BY <1>7, <1>10, <1>11, <2>2
  <2>4. QED
    BY <1>3, <2>1, <2>3
<1>13. HasLength(t, "c")
  <2>1. i \in DOMAIN t /\ m \in DOMAIN t /\ i < m /\ i \in 1..r
    BY <1>1, <1>3, <1>4, <1>5
  <2>2. t[i] = "c"
    BY <1>2, <1>5, <2>1
  <2>3. \A k \in 1..(i - 1) : t[k] \notin {"c", "e"}
    BY <1>1, <1>2, <1>5, <1>6, <2>1
  <2>4. QED
    BY <1>8, <2>1, <2>2, <2>3 DEF HasLength
<1>14. QED
  BY <1>12, <1>13 DEF m

\* The body of a clean response is complete at its end and nowhere else.
LEMMA CompleteAtEnd ==
  ASSUME NEW t, NEW s, NEW r, NEW x, Shape(t, s, r, x), Clean(s)
  PROVE  /\ BodyComplete(t) => Len(t) = End(s)
         /\ r = End(s) /\ Len(t) = r => BodyComplete(t)
<1>1. /\ EmptyLine(s) \in Nat /\ EmptyLine(s) + 2 <= End(s)
      /\ End(s) = EmptyLine(s) + 1 + Length
  BY CleanHead DEF Shape
<1>2. Len(t) \in Nat /\ Length \in Nat /\ Length > 0 /\ r \in Nat
  BY LengthAssumption DEF Shape, Clean
<1>3. ASSUME r >= EmptyLine(s) + 2
      PROVE  Msg(t) = EmptyLine(s) + 2 /\ ContentLength(t) = Length
  BY <1>3, MsgFound DEF ContentLength
<1>4. ASSUME BodyComplete(t) PROVE Len(t) = End(s)
  <2>1. BodyStarts(t) # {}
    BY <1>4 DEF BodyComplete, Msg
  <2>2. r >= EmptyLine(s) + 2
    BY <2>1, StartIsReceived
  <2>3. Len(t) - (EmptyLine(s) + 2) + 1 = Length
    BY <1>3, <1>4, <2>2 DEF BodyComplete
  <2>4. QED
    BY <1>1, <1>2, <2>3
<1>5. ASSUME r = End(s), Len(t) = r PROVE BodyComplete(t)
  <2>1. r >= EmptyLine(s) + 2
    BY <1>1, <1>2, <1>5
  <2>2. Len(t) - (EmptyLine(s) + 2) + 1 = Length
    BY <1>1, <1>2, <1>5
  <2>3. EmptyLine(s) + 2 > 0
    BY <1>1
  <2>4. QED
    BY <1>2, <1>3, <2>1, <2>2, <2>3 DEF BodyComplete
<1>6. QED
  BY <1>4, <1>5

-----------------------------------------------------------------------------
LEMMA CInitInv == Init => CInv
<1> SUFFICES ASSUME Init PROVE CInv
  OBVIOUS
<1>1. IInv
  BY InitInv
<1>2. tada = <<>> /\ read = 0 /\ pc = "setup" /\ stream \in Seq(Tokens) /\ Len(stream) \in Nat
  BY StreamsAssumption DEF Init
<1>3. tada \in Seq(Tokens) /\ Len(tada) = 0
  BY <1>2
<1>4. TextInv
  BY <1>2, <1>3 DEF TextInv, Shape
<1>5. ASSUME Clean(stream) PROVE End(stream) > 0
  BY <1>2, <1>5, CleanHead, LengthAssumption
<1>6. QED
  BY <1>1, <1>2, <1>4, <1>5 DEF CInv, NotPast, Complete

\* One turn of the loop with the text t, of which r tokens were received.
LEMMA TurnComplete ==
  ASSUME NEW t, NEW r, NEW x, NEW last, Shape(t, stream, r, x), pc = "recv",
         Turn(t, last), r = Len(t) \/ r < End(stream), Clean(stream), r <= End(stream)
  PROVE  /\ pc' = "recv" => r < End(stream)
         /\ pc' = "returned" => Len(tada') = End(stream) \/ last = "0"
<1>1. tada' = t
  BY DEF Turn
<1>2. BodyComplete(t) => Len(t) = End(stream)
  BY CompleteAtEnd
<1>3. r = End(stream) /\ Len(t) = r => BodyComplete(t)
  BY CompleteAtEnd
<1>4. pc' = "recv" => ~BodyComplete(t)
  BY DEF Turn
<1>5. pc' = "returned" => BodyComplete(t) \/ last = "0"
  BY DEF Turn
<1>6. r \in Nat /\ End(stream) \in Nat
  <2>1. stream \in Seq(Tokens) /\ r \in Nat
    BY DEF Shape
  <2>2. QED
    BY <2>1, CleanHead, LengthAssumption
<1>7. QED
  BY <1>1, <1>2, <1>3, <1>4, <1>5, <1>6

LEMMA RecvComplete ==
  ASSUME CInv, Recv
  PROVE  CInv'
<1> DEFINE t == Append(tada, buffer')
<1>1. IInv'
  BY RecvInv DEF CInv
<1>2. /\ TypeOK /\ pc = "recv" /\ stream \in Seq(Tokens) /\ Len(stream) \in Nat
      /\ read \in Nat /\ read < sent /\ sent \in Nat /\ sent <= Len(stream)
  BY StreamType DEF CInv, IInv, Recv, TypeOK
<1>3. read' = read + 1 /\ buffer' = stream[read + 1] /\ Turn(t, buffer') /\ tada' = t
      /\ UNCHANGED <<before, stream, sent, closed>>
  BY DEF Recv, Turn
<1>4. Len(tada) = read /\ tada \in Seq(Tokens)
  BY <1>2 DEF CInv, IInv, LengthInv, TypeOK
<1>5. buffer' \in Tokens
  BY <1>2, <1>3
<1>6. /\ t \in Seq(Tokens) /\ Len(t) = read + 1 /\ t[read + 1] = buffer'
      /\ \A i \in 1..read : t[i] = tada[i]
  BY <1>4, <1>5, AppendToken
<1>7. \A i \in 1..read : tada[i] = stream[i]
  BY DEF CInv, TextInv, Shape
<1> HIDE DEF t
<1>8. \A i \in 1..(read + 1) : t[i] = stream[i]
  BY <1>2, <1>3, <1>6, <1>7
<1>9. Shape(t, stream, read + 1, buffer')
  BY <1>2, <1>3, <1>6, <1>8 DEF Shape
<1>10. TextInv'
  BY <1>3, <1>9 DEF TextInv
<1>11. ASSUME Clean(stream)
       PROVE  /\ read + 1 <= End(stream)
              /\ pc' = "recv" => read + 1 < End(stream)
              /\ pc' = "returned" => Len(tada') = End(stream)
  <2>1. End(stream) \in Nat
    BY <1>2, <1>11, CleanHead, LengthAssumption
  <2>2. read < End(stream)
    BY <1>2, <1>11 DEF CInv, NotPast
  <2>3. read + 1 <= End(stream)
    BY <1>2, <2>1, <2>2
  <2>4. buffer' # "0"
    BY <1>2, <1>3, <1>11 DEF Clean
  <2>5. QED
    BY <1>2, <1>3, <1>6, <1>9, <1>11, <2>3, <2>4, TurnComplete
<1>12. pc' # "setup"
  BY <1>2, <1>3 DEF Turn
<1>13. NotPast' /\ Complete'
  BY <1>3, <1>11, <1>12 DEF NotPast, Complete
<1>14. QED
  BY <1>1, <1>10, <1>13 DEF CInv

LEMMA RecvEndComplete ==
  ASSUME CInv, RecvEnd
  PROVE  CInv'
<1> DEFINE t == Append(tada, buffer)
<1>1. IInv'
  BY RecvEndInv DEF CInv
<1>2. /\ TypeOK /\ pc = "recv" /\ tada \in Seq(Tokens) /\ Len(tada) \in Nat
      /\ buffer \in Tokens /\ read \in Nat /\ closed /\ read = sent
  BY StreamType DEF CInv, IInv, RecvEnd, TypeOK
<1>3. Turn(t, before) /\ tada' = t
      /\ UNCHANGED <<buffer, before, stream, sent, read, closed>>
  BY DEF RecvEnd, Turn
<1>4. /\ t \in Seq(Tokens) /\ Len(t) = Len(tada) + 1 /\ t[Len(tada) + 1] = buffer
      /\ \A i \in 1..Len(tada) : t[i] = tada[i]
  BY <1>2, AppendToken
<1>5. Shape(tada, stream, read, buffer)
  BY DEF CInv, TextInv
<1> HIDE DEF t
<1>6. \A i \in 1..read : t[i] = stream[i]
  BY <1>2, <1>4, <1>5 DEF Shape
<1>7. \A i \in (read + 1)..Len(t) : t[i] = buffer
  BY <1>2, <1>4, <1>5 DEF Shape
<1>8. Shape(t, stream, read, buffer)
  <2>1. /\ stream \in Seq(Tokens) /\ read \in 0..Len(stream)
        /\ read <= Len(tada) /\ (read > 0 => buffer = stream[read])
    BY <1>5 DEF Shape
  <2>2. read <= Len(t)
    BY <1>2, <1>4, <2>1
  <2>3. QED
    BY <1>4, <1>6, <1>7, <2>1, <2>2 DEF Shape
<1>9. TextInv'
  BY <1>3, <1>8 DEF TextInv
<1>10. ASSUME Clean(stream)
       PROVE  /\ read < End(stream) /\ read <= End(stream)
              /\ pc' = "returned" => Len(tada') = End(stream) \/ before = "0"
  <2>1. read < End(stream)
    BY <1>2, <1>10 DEF CInv, NotPast
  <2>2. End(stream) \in Nat
    <3>1. stream \in Seq(Tokens)
      BY <1>5 DEF Shape
    <3>2. QED
      BY <1>10, <3>1, CleanHead, LengthAssumption
  <2>3. read <= End(stream)
    BY <1>2, <2>1, <2>2
  <2>4. QED
    BY <1>2, <1>3, <1>8, <1>10, <2>1, <2>3, TurnComplete
<1>11. NotPast' /\ Complete'
  BY <1>2, <1>3, <1>10 DEF NotPast, Complete
<1>12. QED
  BY <1>1, <1>9, <1>11 DEF CInv

LEMMA CNextInv == CInv /\ [Next]_vars => CInv'
<1> SUFFICES ASSUME CInv, [Next]_vars PROVE CInv'
  OBVIOUS
<1>1. IInv'
  BY NextInv DEF CInv
<1>2. CASE Recv
  BY <1>2, RecvComplete
<1>3. CASE RecvEnd
  BY <1>3, RecvEndComplete
<1>4. CASE SetUp
  BY <1>1, <1>4 DEF CInv, SetUp, TextInv, NotPast, Complete
<1>5. CASE Arrive
  BY <1>1, <1>5 DEF CInv, Arrive, TextInv, NotPast, Complete
<1>6. CASE ServerCloses
  BY <1>1, <1>6 DEF CInv, ServerCloses, TextInv, NotPast, Complete
<1>7. CASE UNCHANGED vars
  BY <1>1, <1>7 DEF CInv, vars, TextInv, NotPast, Complete
<1>8. QED
  BY <1>2, <1>3, <1>4, <1>5, <1>6, <1>7 DEF Next, Client

\* For every clean response, length and split of its arrival: what is returned
\* is the response whole and unchanged, none of what follows it is taken, and
\* only a server that closed early can cut it.
THEOREM CleanIsWhole == Spec => []CleanIsComplete
<1>1. CInv => CleanIsComplete
  <2> SUFFICES ASSUME CInv, pc = "returned", Clean(stream)
               PROVE  /\ read <= End(stream)
                      /\ SubSeq(tada, 1, read) = SubSeq(stream, 1, read)
                      /\ Len(tada) = End(stream) \/ (closed /\ read = sent /\ before = "0")
    BY DEF CleanIsComplete
  <2>1. /\ tada \in Seq(Tokens) /\ stream \in Seq(Tokens) /\ read \in Nat
        /\ read <= Len(tada) /\ read <= Len(stream)
        /\ \A i \in 1..read : tada[i] = stream[i]
    BY DEF CInv, TextInv, Shape
  <2>2. \A i \in 1..read : tada[i] \in Tokens /\ stream[i] \in Tokens
    BY <2>1
  <2>3. /\ SubSeq(tada, 1, read) \in Seq(Tokens) /\ Len(SubSeq(tada, 1, read)) = read
        /\ \A i \in 1..read : SubSeq(tada, 1, read)[i] = tada[i]
    BY <2>1, <2>2, SubSeqProperties
  <2>4. /\ SubSeq(stream, 1, read) \in Seq(Tokens) /\ Len(SubSeq(stream, 1, read)) = read
        /\ \A i \in 1..read : SubSeq(stream, 1, read)[i] = stream[i]
    BY <2>1, <2>2, SubSeqProperties
  <2>5. SubSeq(tada, 1, read) = SubSeq(stream, 1, read)
    BY <2>1, <2>3, <2>4, SeqEqual
  <2>6. QED
    BY <2>5 DEF CInv, Complete
<1>2. QED
  BY <1>1, CInitInv, CNextInv, PTL DEF Spec
=============================================================================
