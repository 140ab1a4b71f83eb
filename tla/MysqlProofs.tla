---------------------------- MODULE MysqlProofs ----------------------------
(***************************************************************************)
(* What every order of the calls of a Mysql object keeps true, for any     *)
(* tables and bounds.                                                      *)
(***************************************************************************)
EXTENDS Mysql, SequenceTheorems, WellFoundedInduction, TLAPS

\* The last result is kept as long as the process lives.
ResultInv ==
  crashed = "no" =>
    \/ results = <<>> /\ result \in {Junk, Null}
    \/ results # <<>> /\ result = Len(results)

\* Each result is of a statement.
CountInv == Len(results) <= statements

\* What a MYSQL says of a statement without rows is the truth or nothing.
InsertInv == ~fieldCount => insertId \in {0, newId}

\* Nothing is answered before there is an object.
AnswerInv == ~made => id = 0

IInv ==
  /\ TypeOK /\ ResultInv /\ CountInv /\ InsertInv /\ AnswerInv
  /\ SelectedRowsAreServed /\ InsertIdIsOfLast

-----------------------------------------------------------------------------
\* A row that was looked at was of a result.
LEMMA AnswersType ==
  ASSUME TypeOK, NEW n \in 0..MaxStatements, NEW C, Answers(n, C),
         \A s \in C : s.cell \in Cells
  PROVE  /\ id' \in 0..MaxStatements
         /\ \A s \in shown' : s.cell \in Cells
         /\ given' \subseteq (1..MaxStatements) \X Nat
<1>1. ASSUME NEW x \in RowsOf(shown) PROVE x \in (1..MaxStatements) \X Nat
  <2>1. PICK s \in shown : x = <<s.cell[1], s.cell[2]>>
    BY DEF RowsOf
  <2>2. s.cell \in Cells
    BY DEF TypeOK
  <2>3. s.cell[1] \in 1..MaxStatements /\ s.cell[2] \in Nat
    BY <2>2 DEF Cells
  <2>4. QED
    BY <2>1, <2>3
<1>2. given \subseteq (1..MaxStatements) \X Nat
  BY DEF TypeOK
<1>3. id' = n /\ given' = given \cup RowsOf(shown) /\ shown' = C
  BY DEF Answers
<1>4. QED
  BY <1>1, <1>2, <1>3

LEMMA CrashType ==
  ASSUME TypeOK, NEW c \in {"connection", "rows", "unstored", "cell"}, Crash(c)
  PROVE  /\ crashed' \in {"no", "connection", "rows", "unstored", "cell"}
         /\ id' = 0 /\ \A s \in shown' : s.cell \in Cells
         /\ given' \subseteq (1..MaxStatements) \X Nat
<1>1. 0 \in 0..MaxStatements
  BY BoundsAssumption
<1>2. Answers(0, {}) /\ crashed' = c
  BY DEF Crash
<1>3. id' = 0
  BY <1>2 DEF Answers
<1>4. QED
  BY <1>1, <1>2, <1>3, AnswersType

LEMMA InitInv == Init => IInv
<1> SUFFICES ASSUME Init PROVE IInv
  OBVIOUS
<1>1. 0 \in 0..MaxStatements /\ 0 \in 0..MaxConnects
  BY BoundsAssumption
<1>2. results \in Seq([table : Tables, next : Nat]) /\ DOMAIN results = {} /\ Len(results) = 0
  BY DEF Init
<1>3. made = FALSE /\ fieldCount = FALSE /\ crashed = "no"
  BY DEF Init
<1>4. TypeOK
  BY <1>1, <1>2, <1>3 DEF Init, TypeOK
<1>5. ResultInv /\ CountInv
  BY <1>2 DEF Init, ResultInv, CountInv
<1>6. InsertInv /\ AnswerInv /\ SelectedRowsAreServed /\ InsertIdIsOfLast
  BY <1>3 DEF Init, InsertInv, AnswerInv, SelectedRowsAreServed, InsertIdIsOfLast
<1>7. QED
  BY <1>4, <1>5, <1>6 DEF IInv

-----------------------------------------------------------------------------
(* One lemma for each action.                                              *)

LEMMA OpenType ==
  ASSUME TypeOK, NEW a \in Outcomes, Open(a)
  PROVE  /\ connection' \in {"junk", "null", "failed", "up"}
         /\ connects' \in 0..MaxConnects
         /\ fieldCount' \in BOOLEAN
         /\ insertId' \in 0..MaxStatements /\ newId' \in 0..MaxStatements
         /\ insertId' \in {0, newId'}
<1>1. a = "failed" \/ a = "up"
  BY DEF Outcomes
<1>2. connection' \in {"junk", "null", "failed", "up"}
  BY <1>1 DEF Open
<1>3. connects' \in 0..MaxConnects
  BY BoundsAssumption DEF Open, TypeOK
<1>4. fieldCount' = FALSE /\ insertId' = 0 /\ newId' = 0
  BY DEF Open
<1>5. 0 \in 0..MaxStatements
  BY BoundsAssumption
<1>6. QED
  BY <1>2, <1>3, <1>4, <1>5

LEMMA NewStep ==
  ASSUME IInv, New
  PROVE  IInv'
<1> USE DEF IInv
<1>1. /\ made' \in BOOLEAN /\ connection' \in {"junk", "null", "failed", "up"}
      /\ connects' \in 0..MaxConnects
      /\ fieldCount' \in BOOLEAN
      /\ insertId' \in 0..MaxStatements /\ newId' \in 0..MaxStatements
      /\ InsertInv'
  <2>1. CASE Open("up") /\ made'
    BY <2>1, OpenType DEF Outcomes, InsertInv
  <2>2. CASE made' /\ UNCHANGED <<connection, libraryVars, connects>>
    BY <2>2 DEF TypeOK, InsertInv, libraryVars
  <2>3. CASE /\ connects < MaxConnects /\ connects' = connects + 1
             /\ UNCHANGED <<made, connection, libraryVars>>
    BY <2>3, BoundsAssumption DEF TypeOK, InsertInv, libraryVars
  <2>4. QED
    BY <2>1, <2>2, <2>3 DEF New
<1>2. UNCHANGED <<result, results, crashed, statements, id, shown, given>>
  BY DEF New, answerVars
<1>3. TypeOK'
  BY <1>1, <1>2 DEF TypeOK
<1>4. id = 0
  BY DEF New, AnswerInv
<1>5. ResultInv' /\ CountInv' /\ AnswerInv' /\ SelectedRowsAreServed' /\ InsertIdIsOfLast'
  BY <1>2, <1>4
  DEF ResultInv, CountInv, AnswerInv, SelectedRowsAreServed, HasSelected, InsertIdIsOfLast
<1>6. QED
  BY <1>1, <1>3, <1>5

LEMMA ConnectStep ==
  ASSUME IInv, Connect
  PROVE  IInv'
<1> USE DEF IInv
<1>1. PICK a \in Outcomes : Open(a)
  BY DEF Connect
<1>2. /\ Answers(0, {})
      /\ UNCHANGED <<made, result, results, crashed, statements>>
  BY DEF Connect
<1>3. 0 \in 0..MaxStatements
  BY BoundsAssumption
<1>4. /\ id' \in 0..MaxStatements /\ \A s \in shown' : s.cell \in Cells
      /\ given' \subseteq (1..MaxStatements) \X Nat
  BY <1>2, <1>3, AnswersType
<1>5. TypeOK'
  BY <1>1, <1>2, <1>4, OpenType DEF TypeOK
<1>6. id' = 0
  BY <1>2 DEF Answers
<1>7. InsertInv'
  BY <1>1, OpenType DEF InsertInv
<1>8. ResultInv' /\ CountInv' /\ AnswerInv' /\ SelectedRowsAreServed' /\ InsertIdIsOfLast'
  BY <1>2, <1>6
  DEF ResultInv, CountInv, AnswerInv, SelectedRowsAreServed, HasSelected, InsertIdIsOfLast
<1>9. QED
  BY <1>5, <1>7, <1>8

LEMMA DisconnectStep ==
  ASSUME IInv, Disconnect
  PROVE  IInv'
<1> USE DEF IInv
<1>1. UNCHANGED <<made, result, results, fieldCount, insertId, newId, statements, connects>>
  BY DEF Disconnect, libraryVars, boundVars
<1>2. 0 \in 0..MaxStatements
  BY BoundsAssumption
<1>3. CASE connection = "junk"
  <2>1. Crash("connection") /\ UNCHANGED connection
    BY <1>3 DEF Disconnect
  <2>2. /\ crashed' \in {"no", "connection", "rows", "unstored", "cell"} /\ crashed' = "connection"
        /\ id' = 0 /\ \A s \in shown' : s.cell \in Cells
        /\ given' \subseteq (1..MaxStatements) \X Nat
    BY <2>1, CrashType DEF Crash
  <2>3. TypeOK'
    BY <1>1, <1>2, <2>1, <2>2 DEF TypeOK
  <2>4. QED
    BY <1>1, <2>1, <2>2, <2>3
    DEF ResultInv, CountInv, InsertInv, AnswerInv, SelectedRowsAreServed, InsertIdIsOfLast
<1>4. CASE connection # "junk"
  <2>1. connection' = "null" /\ Answers(0, {}) /\ crashed' = crashed
    BY <1>4 DEF Disconnect, TypeOK
  <2>2. /\ id' \in 0..MaxStatements /\ \A s \in shown' : s.cell \in Cells
        /\ given' \subseteq (1..MaxStatements) \X Nat
    BY <1>2, <2>1, AnswersType
  <2>3. id' = 0
    BY <2>1 DEF Answers
  <2>4. TypeOK'
    BY <1>1, <2>1, <2>2 DEF TypeOK
  <2>5. QED
    BY <1>1, <2>1, <2>3, <2>4
    DEF ResultInv, CountInv, InsertInv, AnswerInv, SelectedRowsAreServed, HasSelected, InsertIdIsOfLast
<1>5. QED
  BY <1>3, <1>4

\* A statement that returns: what the three ways of query have in common.
LEMMA ReturnedStep ==
  ASSUME IInv, Query, Answers(0, {}),
         crashed' \in {"no", "unstored"},
         fieldCount' \in BOOLEAN, insertId' \in 0..MaxStatements,
         newId' \in 0..MaxStatements, statements' \in 0..MaxStatements,
         results' \in Seq([table : Tables, next : Nat]),
         \A r \in DOMAIN results' : results'[r].next \in 1..(results'[r].table.rows + 1),
         result' \in {Junk, Null} \cup DOMAIN results',
         ResultInv', CountInv', InsertInv'
  PROVE  IInv'
<1> USE DEF IInv
<1>1. 0 \in 0..MaxStatements
  BY BoundsAssumption
<1>2. /\ id' \in 0..MaxStatements /\ \A s \in shown' : s.cell \in Cells
      /\ given' \subseteq (1..MaxStatements) \X Nat
  BY <1>1, AnswersType
<1>3. UNCHANGED <<made, connection, connects>>
  BY DEF Query
<1>4. TypeOK'
  BY <1>2, <1>3 DEF TypeOK
<1>5. id' = 0
  BY DEF Answers
<1>6. AnswerInv' /\ InsertIdIsOfLast' /\ SelectedRowsAreServed'
  BY <1>5 DEF AnswerInv, InsertIdIsOfLast, SelectedRowsAreServed
<1>7. QED
  BY <1>4, <1>6

\* A call that a bad pointer ends.
LEMMA CrashStep ==
  ASSUME IInv, Calls, NEW cause \in {"connection", "rows"}, Crash(cause),
         cause = "rows" => ~HasSelected,
         UNCHANGED <<made, connection, result, results, fieldCount, insertId, newId,
                     statements, connects>>
  PROVE  IInv'
<1> USE DEF IInv
<1>1. /\ crashed' \in {"no", "connection", "rows", "unstored", "cell"} /\ crashed' = cause
      /\ id' = 0 /\ \A s \in shown' : s.cell \in Cells
      /\ given' \subseteq (1..MaxStatements) \X Nat
  BY CrashType DEF Crash
<1>2. 0 \in 0..MaxStatements
  BY BoundsAssumption
<1>3. TypeOK'
  BY <1>1, <1>2 DEF TypeOK
<1>4. SelectedRowsAreServed'
  BY <1>1 DEF SelectedRowsAreServed, HasSelected
<1>5. QED
  BY <1>1, <1>3, <1>4 DEF ResultInv, CountInv, InsertInv, AnswerInv, InsertIdIsOfLast

LEMMA QueryStep ==
  ASSUME IInv, Query
  PROVE  IInv'
<1> USE DEF IInv
<1>1. Calls /\ UNCHANGED <<made, connection, connects>>
  BY DEF Query
<1>2. crashed = "no"
  BY <1>1 DEF Calls
<1>3. CASE ~Linked
  <2>1. Crash("connection")
    BY <1>3 DEF Query
  <2>2. UNCHANGED <<result, results, fieldCount, insertId, newId, statements>>
    BY <1>3 DEF Query, libraryVars
  <2>3. QED
    BY <1>1, <2>1, <2>2, CrashStep
<1>4. CASE Linked
  <2>1. Answers(0, {})
    BY <1>4 DEF Query, TypeOK
  <2>2. CASE Refused
    <3>1. UNCHANGED <<result, results, newId, crashed, statements>>
      BY <2>2 DEF Refused
    <3>2. /\ fieldCount' \in BOOLEAN /\ insertId' \in 0..MaxStatements
          /\ InsertInv'
      <4>1. CASE UNCHANGED <<fieldCount, insertId>>
        BY <3>1, <4>1 DEF TypeOK, InsertInv
      <4>2. CASE fieldCount' = FALSE /\ insertId' = 0
        <5>1. 0 \in 0..MaxStatements
          BY BoundsAssumption
        <5>2. QED
          BY <4>2, <5>1 DEF InsertInv
      <4>3. QED
        BY <2>2, <4>1, <4>2 DEF Refused
    <3>3. ResultInv' /\ CountInv'
      BY <3>1 DEF ResultInv, CountInv
    <3>4. QED
      BY <1>2, <2>1, <3>1, <3>2, <3>3, ReturnedStep DEF TypeOK
  <2>3. CASE NoRows
    <3>1. /\ statements' = statements + 1 /\ statements' \in 0..MaxStatements
          /\ insertId' \in {0, statements'} /\ newId' = insertId' /\ fieldCount' = FALSE
          /\ UNCHANGED <<result, results, crashed>>
      BY <2>3, BoundsAssumption DEF NoRows, Execute, TypeOK
    <3>2. insertId' \in 0..MaxStatements /\ newId' \in 0..MaxStatements
      BY <3>1, BoundsAssumption
    <3>3. ResultInv' /\ InsertInv'
      BY <3>1 DEF ResultInv, InsertInv
    <3>4. CountInv'
      BY <3>1 DEF CountInv, TypeOK
    <3>5. QED
      BY <1>2, <2>1, <3>1, <3>2, <3>3, <3>4, ReturnedStep DEF TypeOK
  <2>4. CASE Select
    <3>1. /\ statements' = statements + 1 /\ statements' \in 0..MaxStatements
          /\ insertId' \in 0..MaxStatements /\ newId' = 0 /\ newId' \in 0..MaxStatements
          /\ fieldCount' = TRUE
      BY <2>4, BoundsAssumption DEF Select, Execute, TypeOK
    <3>2. InsertInv'
      BY <3>1 DEF InsertInv
    <3>3. CASE /\ \E t \in Tables : results' = Append(results, [table |-> t, next |-> 1])
               /\ result' = Len(results') /\ UNCHANGED crashed
      <4>1. PICK t \in Tables : results' = Append(results, [table |-> t, next |-> 1])
        BY <3>3
      <4>2. t.rows \in Nat
        BY TablesAssumption
      <4>3. /\ results' \in Seq([table : Tables, next : Nat])
            /\ Len(results') = Len(results) + 1
            /\ \A r \in DOMAIN results :
                 r \in DOMAIN results' /\ results'[r] = results[r]
            /\ results'[Len(results')] = [table |-> t, next |-> 1]
            /\ \A r \in DOMAIN results' : r \in DOMAIN results \/ r = Len(results')
        BY <4>1 DEF TypeOK
      <4>4. \A r \in DOMAIN results' : results'[r].next \in 1..(results'[r].table.rows + 1)
        <5>1. TAKE r \in DOMAIN results'
        <5>2. CASE r \in DOMAIN results
          BY <4>3, <5>2 DEF TypeOK
        <5>3. CASE r = Len(results')
          BY <4>2, <4>3, <5>3
        <5>4. QED
          BY <4>3, <5>2, <5>3
      <4>5. result' \in DOMAIN results' /\ ResultInv' /\ CountInv'
        BY <3>1, <3>3, <4>3 DEF TypeOK, ResultInv, CountInv
      <4>6. crashed' \in {"no", "unstored"}
        BY <1>2, <3>3
      <4>7. QED
        BY <2>1, <3>1, <3>2, <4>3, <4>4, <4>5, <4>6, ReturnedStep
    <3>4. CASE crashed' = "unstored" /\ result' = Null /\ UNCHANGED results
      <4>1. ResultInv' /\ CountInv'
        BY <3>1, <3>4 DEF ResultInv, CountInv, TypeOK
      <4>2. QED
        BY <2>1, <3>1, <3>2, <3>4, <4>1, ReturnedStep DEF TypeOK
    <3>5. QED
      BY <2>4, <3>3, <3>4 DEF Select
  <2>5. QED
    BY <1>4, <2>2, <2>3, <2>4 DEF Query
<1>5. QED
  BY <1>3, <1>4

\* A call that leaves all but its answer as it was.
LEMMA AnswerStep ==
  ASSUME IInv, Calls, NEW n \in 0..MaxStatements, Answers(n, {}),
         n # 0 => n = newId /\ ~HasSelected,
         UNCHANGED <<made, connection, result, results, fieldCount, insertId, newId,
                     statements, connects, crashed>>
  PROVE  IInv'
<1> USE DEF IInv
<1>1. /\ id' \in 0..MaxStatements /\ \A s \in shown' : s.cell \in Cells
      /\ given' \subseteq (1..MaxStatements) \X Nat
  BY AnswersType
<1>2. TypeOK'
  BY <1>1 DEF TypeOK
<1>3. id' = n
  BY DEF Answers
<1>4. crashed = "no" /\ made
  BY DEF Calls
<1>5. ResultInv' /\ CountInv' /\ InsertInv'
  BY DEF ResultInv, CountInv, InsertInv
<1>6. AnswerInv' /\ SelectedRowsAreServed' /\ InsertIdIsOfLast'
  BY <1>3, <1>4 DEF AnswerInv, SelectedRowsAreServed, InsertIdIsOfLast, HasSelected
<1>7. QED
  BY <1>2, <1>5, <1>6

LEMMA LastInsertIdStep ==
  ASSUME IInv, LastInsertId
  PROVE  IInv'
<1> USE DEF IInv
<1>1. /\ Calls
      /\ UNCHANGED <<made, connection, result, results, fieldCount, insertId, newId,
                     statements, connects>>
  BY DEF LastInsertId, ObjectFrame, objectVars, boundVars, libraryVars
<1>3. 0 \in 0..MaxStatements
  BY BoundsAssumption
<1>4. CASE result # Null
  <2>1. Answers(0, {}) /\ UNCHANGED crashed
    BY <1>4 DEF LastInsertId
  <2>2. QED
    BY <1>1, <1>3, <2>1, AnswerStep
<1>5. CASE result = Null /\ Linked
  <2>1. Answers(Newest, {}) /\ UNCHANGED crashed
    BY <1>5 DEF LastInsertId
  <2>2. Newest \in 0..MaxStatements
    BY <1>3 DEF Newest, TypeOK
  <2>3. Newest # 0 => Newest = newId
    BY DEF Newest, InsertInv
  <2>4. ~HasSelected
    BY <1>1, <1>5 DEF HasSelected, ResultInv, Calls, Null, TypeOK
  <2>5. QED
    BY <1>1, <2>1, <2>2, <2>3, <2>4, AnswerStep
<1>6. CASE result = Null /\ ~Linked
  <2>1. Crash("connection")
    BY <1>6 DEF LastInsertId
  <2>2. QED
    BY <1>1, <1>6, <2>1, CrashStep
<1>7. QED
  BY <1>4, <1>5, <1>6

LEMMA AskConnectionStep ==
  ASSUME IInv, AskConnection
  PROVE  IInv'
<1>1. /\ Calls
      /\ UNCHANGED <<made, connection, result, results, fieldCount, insertId, newId,
                     statements, connects>>
  BY DEF AskConnection, ObjectFrame, objectVars, boundVars, libraryVars
<1>3. 0 \in 0..MaxStatements
  BY BoundsAssumption
<1>4. CASE Linked
  BY <1>1, <1>3, <1>4, AnswerStep DEF AskConnection
<1>5. CASE ~Linked
  BY <1>1, <1>5, CrashStep DEF AskConnection
<1>6. QED
  BY <1>4, <1>5

\* What a SELECT stored is there to be asked about.
LEMMA SelectedLemma ==
  ASSUME IInv, Calls
  PROVE  HasSelected => Selected
<1>1. HasSelected => result = Len(results) /\ Len(results) \in DOMAIN results
  BY DEF IInv, TypeOK, ResultInv, Calls, HasSelected
<1>2. QED
  BY <1>1 DEF Selected

LEMMA NumRowsStep ==
  ASSUME IInv, NumRows
  PROVE  IInv'
<1>1. /\ Calls
      /\ UNCHANGED <<made, connection, result, results, fieldCount, insertId, newId,
                     statements, connects>>
  BY DEF NumRows, ObjectFrame, objectVars, boundVars, libraryVars
<1>3. 0 \in 0..MaxStatements
  BY BoundsAssumption
<1>4. CASE Selected
  BY <1>1, <1>3, <1>4, AnswerStep DEF NumRows
<1>5. CASE ~Selected
  <2>1. ~HasSelected
    BY <1>1, <1>5, SelectedLemma
  <2>2. QED
    BY <1>1, <1>5, <2>1, CrashStep DEF NumRows
<1>6. QED
  BY <1>4, <1>5

LEMMA ElementType ==
  ASSUME NEW S, NEW s \in Seq(S), NEW i \in 1..Len(s)
  PROVE  s[i] \in S
  OBVIOUS

LEMMA FetchRowsStep ==
  ASSUME IInv, FetchRows
  PROVE  IInv'
<1> DEFINE t == results[result].table
           next == results[result].next
           cells == {[cell |-> <<result, p[1], p[2]>>,
                      source |-> <<result>> \o Source(t, next, p)] :
                       p \in Positions(t, next)}
<1>1. /\ Calls
      /\ UNCHANGED <<made, connection, result, fieldCount, insertId, newId,
                     statements, connects>>
  BY DEF FetchRows, boundVars, libraryVars
<1>2. crashed = "no"
  BY <1>1 DEF Calls
<1>3. 0 \in 0..MaxStatements
  BY BoundsAssumption
<1>4. CASE ~Selected
  <2>1. ~HasSelected
    BY <1>1, <1>4, SelectedLemma
  <2>2. QED
    BY <1>1, <1>4, <2>1, CrashStep DEF FetchRows
<1>5. CASE Selected /\ Fetchable(t, next)
  <2>1. /\ results' = [results EXCEPT ![result].next = t.rows + 1]
        /\ Answers(0, cells) /\ UNCHANGED crashed
    BY <1>5 DEF FetchRows, Fetch
  <2>2. /\ result \in DOMAIN results /\ t \in Tables /\ next \in Nat
        /\ result \in 1..MaxStatements
    <3>1. result \in 1..Len(results) /\ results \in Seq([table : Tables, next : Nat])
      BY <1>5 DEF Selected, IInv, TypeOK
    <3>2. Len(results) \in Nat /\ Len(results) <= MaxStatements
      BY <3>1, BoundsAssumption DEF IInv, TypeOK, CountInv
    <3>3. results[result] \in [table : Tables, next : Nat]
      BY <3>1, ElementType, Zenon
    <3>4. QED
      BY <3>1, <3>2, <3>3, BoundsAssumption
  <2>3. t.rows \in Nat /\ t.cols \in Seq({"text", "null", "number"})
    BY <2>2, TablesAssumption
  <2>4. \A s \in cells : s.cell \in Cells
    BY <2>2, <2>3 DEF Cells, Positions
  <2>5. /\ results' \in Seq([table : Tables, next : Nat])
        /\ DOMAIN results' = DOMAIN results /\ Len(results') = Len(results)
        /\ \A r \in DOMAIN results : results'[r].table = results[r].table
        /\ \A r \in DOMAIN results \ {result} : results'[r].next = results[r].next
        /\ results'[result].next = t.rows + 1
    <3> DEFINE fetched == [results[result] EXCEPT !.next = t.rows + 1]
    <3>1. results \in Seq([table : Tables, next : Nat])
      BY DEF IInv, TypeOK
    <3>2. results[result] \in [table : Tables, next : Nat]
      <4>1. result \in 1..Len(results)
        BY <2>2, <3>1
      <4>2. QED
        BY <3>1, <4>1, ElementType, Zenon
    <3>3. /\ fetched \in [table : Tables, next : Nat]
          /\ fetched.table = t /\ fetched.next = t.rows + 1
      BY <2>3, <3>2
    <3>4. results' = [results EXCEPT ![result] = fetched]
      BY <2>1
    <3>5. QED
      BY <2>2, <3>1, <3>3, <3>4
  <2>6. \A r \in DOMAIN results' : results'[r].next \in 1..(results'[r].table.rows + 1)
    <3>1. TAKE r \in DOMAIN results'
    <3>2. CASE r = result
      <4>1. t.rows + 1 \in 1..(t.rows + 1)
        BY <2>3
      <4>2. QED
        BY <2>2, <2>5, <3>2, <4>1
    <3>3. CASE r # result
      BY <2>5, <3>3 DEF IInv, TypeOK
    <3>4. QED
      BY <3>2, <3>3
  <2>7. /\ id' = 0 /\ \A s \in shown' : s.cell \in Cells
        /\ given' \subseteq (1..MaxStatements) \X Nat
    BY <1>3, <2>1, <2>4, AnswersType DEF IInv, Answers
  <2>8. TypeOK'
    BY <1>1, <1>2, <1>3, <2>1, <2>5, <2>6, <2>7 DEF IInv, TypeOK
  <2>9. ResultInv' /\ CountInv' /\ InsertInv'
    BY <1>1, <1>2, <2>1, <2>5 DEF IInv, ResultInv, CountInv, InsertInv, TypeOK
  <2>10. AnswerInv' /\ SelectedRowsAreServed' /\ InsertIdIsOfLast'
    BY <1>1, <1>2, <2>1, <2>7
    DEF Calls, AnswerInv, SelectedRowsAreServed, InsertIdIsOfLast
  <2>11. QED
    BY <2>8, <2>9, <2>10 DEF IInv
<1>6. CASE Selected /\ ~Fetchable(t, next)
  <2>1. Crash("cell") /\ UNCHANGED results
    BY <1>6 DEF FetchRows, Fetch
  <2>2. /\ crashed' \in {"no", "connection", "rows", "unstored", "cell"} /\ crashed' = "cell"
        /\ id' = 0 /\ \A s \in shown' : s.cell \in Cells
        /\ given' \subseteq (1..MaxStatements) \X Nat
    BY <2>1, CrashType DEF Crash, IInv
  <2>3. TypeOK'
    BY <1>1, <1>2, <1>3, <2>1, <2>2 DEF IInv, TypeOK
  <2>4. PICK p \in Positions(t, next) :
          \/ NeverReturns(t, p)
          \/ ~\E q \in Positions(t, next) : Assigns(t, q) /\ UpTo(q, p)
    BY <1>6 DEF Fetchable
  <2>5. next \in Nat /\ t.rows \in Nat
    <3>1. result \in 1..Len(results) /\ results \in Seq([table : Tables, next : Nat])
      BY <1>6 DEF Selected, IInv, TypeOK
    <3>2. results[result] \in [table : Tables, next : Nat]
      BY <3>1, ElementType, Zenon
    <3>3. QED
      BY <3>2, TablesAssumption
  <2>6. p \in t.nulls
    <3>1. UpTo(p, p)
      BY <2>5 DEF UpTo, Positions
    <3>2. QED
      BY <2>4, <3>1 DEF NeverReturns, Assigns
  <2>7. p[1] >= next
    BY <2>5 DEF Positions
  <2>8. SelectedRowsAreServed'
    BY <1>1, <2>1, <2>2, <2>6, <2>7 DEF SelectedRowsAreServed
  <2>9. QED
    BY <1>1, <2>1, <2>2, <2>3, <2>8
    DEF IInv, ResultInv, CountInv, InsertInv, AnswerInv, InsertIdIsOfLast
<1>7. QED
  BY <1>4, <1>5, <1>6

-----------------------------------------------------------------------------
THEOREM Invariance == Spec => []IInv
<1>1. Init => IInv
  BY InitInv
<1>2. IInv /\ [Next]_vars => IInv'
  <2> SUFFICES ASSUME IInv, [Next]_vars PROVE IInv'
    OBVIOUS
  <2>1. CASE New
    BY <2>1, NewStep
  <2>2. CASE Connect
    BY <2>2, ConnectStep
  <2>3. CASE Disconnect
    BY <2>3, DisconnectStep
  <2>4. CASE Query
    BY <2>4, QueryStep
  <2>5. CASE LastInsertId
    BY <2>5, LastInsertIdStep
  <2>6. CASE AskConnection
    BY <2>6, AskConnectionStep
  <2>7. CASE NumRows
    BY <2>7, NumRowsStep
  <2>8. CASE FetchRows
    BY <2>8, FetchRowsStep
  <2>9. CASE UNCHANGED vars
    BY <2>9
    DEF vars, objectVars, libraryVars, boundVars, answerVars, IInv, TypeOK, ResultInv,
        CountInv, InsertInv, AnswerInv, SelectedRowsAreServed, InsertIdIsOfLast, HasSelected
  <2>10. QED
    BY <2>1, <2>2, <2>3, <2>4, <2>5, <2>6, <2>7, <2>8, <2>9 DEF Next
<1>3. QED
  BY <1>1, <1>2, PTL DEF Spec

\* The variables of a Mysql object keep their types, whatever the script calls.
THEOREM TypeCorrect == Spec => []TypeOK
<1>1. IInv => TypeOK
  BY DEF IInv
<1>2. QED
  BY <1>1, Invariance, PTL

\* What a SELECT has stored is there for numRows and the fetches whatever follows:
\* a failed query, a statement without rows, a disconnect.  Only a NULL among the
\* rows to be fetched can end them.
THEOREM SelectedRowsAreThere == Spec => []SelectedRowsAreServed
<1>1. IInv => SelectedRowsAreServed
  BY DEF IInv
<1>2. QED
  BY <1>1, Invariance, PTL

\* lastInsertId (mysql.cpp:188) never answers with the id of an older statement
\* or of an older connection.
THEOREM InsertIdsAreNew == Spec => []InsertIdIsOfLast
<1>1. IInv => InsertIdIsOfLast
  BY DEF IInv
<1>2. QED
  BY <1>1, Invariance, PTL

-----------------------------------------------------------------------------
(* No row is returned twice.                                               *)

\* The rows that were returned of a result are those before the one it stands at.
Fetched == RowsOf(shown) \cup given
Known ==
  \A r, n : <<r, n>> \in Fetched <=>
             r \in DOMAIN results /\ n \in 1..(results[r].next - 1)

RowsInv == Known /\ FetchedRowsAreNew

\* A set of numbers that is not empty has a least one.
LEMMA LeastExists ==
  ASSUME NEW T \in SUBSET Nat, T # {}
  PROVE  \E x \in T : \A y \in T : x <= y
<1> DEFINE R == {ss \in Nat \X Nat : ss[1] < ss[2]}
<1>1. OpToRel(<, Nat) = R
  BY DEF OpToRel
<1>2. IsWellFoundedOn(R, Nat)
  BY <1>1, NatLessThanWellFounded
<1>3. \A x, y \in Nat : <<y, x>> \in R <=> y < x
  OBVIOUS
<1> HIDE DEF R
<1>4. PICK x \in T : \A y \in T : ~(<<y, x>> \in R)
  BY <1>2, WFMin
<1>5. \A y \in T : x <= y
  <2>1. TAKE y \in T
  <2>2. x \in Nat /\ y \in Nat
    OBVIOUS
  <2>3. ~(y < x)
    BY <1>3, <1>4, <2>2
  <2>4. QED
    BY <2>2, <2>3
<1>6. QED
  BY <1>5

LEMMA JoinedTuple ==
  ASSUME NEW a \in Nat, NEW b \in Nat, NEW c \in Nat
  PROVE  <<a>> \o <<b, c>> = <<a, b, c>>
<1> DEFINE s == <<a>>
           q == <<b, c>>
           r == <<a, b, c>>
<1>1. s \in Seq(Nat) /\ Len(s) = 1 /\ s[1] = a
  OBVIOUS
<1>2. q \in Seq(Nat) /\ Len(q) = 2 /\ q[1] = b /\ q[2] = c
  OBVIOUS
<1>3. r \in Seq(Nat) /\ Len(r) = 3 /\ r[1] = a /\ r[2] = b /\ r[3] = c
  OBVIOUS
<1> HIDE DEF s, q, r
<1> DEFINE j == s \o q
<1>4. /\ j \in Seq(Nat) /\ Len(j) = Len(s) + Len(q)
      /\ \A i \in 1..(Len(s) + Len(q)) : j[i] = IF i <= Len(s) THEN s[i] ELSE q[i - Len(s)]
  BY <1>1, <1>2, ConcatProperties
<1> HIDE DEF j
<1>5. \A i \in 1..3 : j[i] = IF i <= 1 THEN s[i] ELSE q[i - 1]
  BY <1>1, <1>2, <1>4
<1>6. j[1] = s[1] /\ j[2] = q[2 - 1] /\ j[3] = q[3 - 1]
  BY <1>5
<1>7. \A i \in 1..3 : j[i] = r[i]
  BY <1>1, <1>2, <1>3, <1>6
<1>8. j = r
  <2>1. Len(j) = 3
    BY <1>1, <1>2, <1>4
  <2>2. QED
    BY <1>3, <1>4, <1>7, <2>1, SeqEqual
<1>9. QED
  BY <1>8 DEF j, s, q, r

\* The value a cell shows is assigned at it or before it, in the same fetch, and
\* at the cell itself unless that is NULL.
LEMMA SourceFound ==
  ASSUME NEW t \in Tables, NEW next \in Nat, Fetchable(t, next), NEW p \in Positions(t, next)
  PROVE  /\ Source(t, next, p) \in Positions(t, next)
         /\ p \notin t.nulls => Source(t, next, p) = p
<1> DEFINE C == {x \in Positions(t, next) : Assigns(t, x) /\ UpTo(x, p)}
<1>1. t.rows \in Nat /\ Len(t.cols) \in Nat
  BY TablesAssumption
<1>2. ASSUME NEW x \in C
      PROVE  x \in Nat \X Nat /\ x[1] <= t.rows /\ x[2] <= Len(t.cols) /\ x = <<x[1], x[2]>>
  BY <1>1 DEF Positions
<1>3. C # {}
  BY DEF Fetchable
<1> DEFINE after == {t.rows - x[1] : x \in C}
<1>4. after \in SUBSET Nat /\ after # {}
  BY <1>1, <1>2, <1>3
<1>5. PICK a \in after : \A b \in after : a <= b
  BY <1>4, LeastExists
<1>6. PICK y \in C : a = t.rows - y[1]
  BY <1>5
<1>7. \A x \in C : x[1] <= y[1]
  <2>1. TAKE x \in C
  <2>2. t.rows - y[1] <= t.rows - x[1]
    BY <1>5, <1>6
  <2>3. x[1] \in Nat /\ y[1] \in Nat
    BY <1>2
  <2>4. QED
    BY <1>1, <2>2, <2>3
<1> DEFINE besides == {Len(t.cols) - x[2] : x \in {z \in C : z[1] = y[1]}}
<1>8. besides \in SUBSET Nat /\ besides # {}
  BY <1>1, <1>2
<1>9. PICK c \in besides : \A b \in besides : c <= b
  BY <1>8, LeastExists
<1>10. PICK q \in C : q[1] = y[1] /\ c = Len(t.cols) - q[2]
  BY <1>9
<1>11. \A x \in C : UpTo(x, q)
  <2>1. TAKE x \in C
  <2>2. x[1] \in Nat /\ y[1] \in Nat /\ x[2] \in Nat /\ q[2] \in Nat /\ x[1] <= y[1]
    BY <1>2, <1>7, <1>10
  <2>3. CASE x[1] = y[1]
    <3>1. Len(t.cols) - q[2] <= Len(t.cols) - x[2]
      BY <1>9, <1>10, <2>3
    <3>2. x[2] <= q[2]
      BY <1>1, <2>2, <3>1
    <3>3. QED
      BY <1>10, <2>3, <3>2 DEF UpTo
  <2>4. CASE x[1] # y[1]
    BY <1>10, <2>2, <2>4 DEF UpTo
  <2>5. QED
    BY <2>3, <2>4
<1>12. \A x \in Positions(t, next) : Assigns(t, x) /\ UpTo(x, p) => UpTo(x, q)
  BY <1>11
<1> DEFINE found == Source(t, next, p)
<1>13. /\ found \in C
       /\ \A x \in Positions(t, next) : Assigns(t, x) /\ UpTo(x, p) => UpTo(x, found)
  BY <1>10, <1>12 DEF Source
<1>14. ASSUME p \notin t.nulls PROVE found = p
  <2>1. p \in Nat \X Nat /\ p = <<p[1], p[2]>>
    BY <1>1 DEF Positions
  <2>2. Assigns(t, p) /\ UpTo(p, p)
    BY <1>14, <2>1 DEF Assigns, UpTo
  <2>3. UpTo(p, found)
    BY <1>13, <2>2
  <2>4. UpTo(found, p) /\ found \in Nat \X Nat /\ found = <<found[1], found[2]>>
    BY <1>2, <1>13
  <2> HIDE DEF found
  <2>5. found[1] = p[1] /\ found[2] = p[2]
    BY <2>1, <2>3, <2>4 DEF UpTo
  <2>6. QED
    BY <2>1, <2>4, <2>5
<1>15. QED
  BY <1>13, <1>14

\* Every call but a fetch forgets what the fetch before it showed.
LEMMA LookedAt ==
  ASSUME IInv, RowsInv, NEW n, Answers(n, {}),
         \/ results' = results
         \/ \E t \in Tables : results' = Append(results, [table |-> t, next |-> 1])
  PROVE  RowsInv'
<1>1. shown' = {} /\ given' = Fetched
  BY DEF Answers, Fetched
<1>2. RowsOf({}) = {}
  BY DEF RowsOf
<1>3. Fetched' = Fetched
  BY <1>1, <1>2 DEF Fetched
<1>4. FetchedRowsAreNew'
  BY <1>1, <1>2 DEF FetchedRowsAreNew
<1>5. Known'
  <2>1. CASE results' = results
    BY <1>3, <2>1 DEF RowsInv, Known
  <2>2. ASSUME NEW t \in Tables, results' = Append(results, [table |-> t, next |-> 1])
        PROVE  Known'
    <3>1. results \in Seq([table : Tables, next : Nat])
      BY DEF IInv, TypeOK
    <3>2. [table |-> t, next |-> 1] \in [table : Tables, next : Nat]
      OBVIOUS
    <3> DEFINE stored == [table |-> t, next |-> 1]
    <3>3. stored.next = 1
      OBVIOUS
    <3> HIDE DEF stored
    <3>4. Len(results) \in Nat /\ DOMAIN results = 1..Len(results)
      BY <3>1
    <3>5. /\ DOMAIN results' = 1..(Len(results) + 1)
          /\ \A r \in 1..Len(results) : results'[r] = results[r]
          /\ results'[Len(results) + 1] = stored
      BY <2>2, <3>1, <3>2 DEF stored
    <3>6. ASSUME NEW r, NEW k
          PROVE  (r \in DOMAIN results /\ k \in 1..(results[r].next - 1)) <=>
                 (r \in DOMAIN results' /\ k \in 1..(results'[r].next - 1))
      <4>1. CASE r \in DOMAIN results
        <5>1. results'[r] = results[r] /\ r \in DOMAIN results'
          BY <3>4, <3>5, <4>1
        <5>2. QED
          BY <4>1, <5>1
      <4>2. CASE r = Len(results) + 1
        <5>1. r \notin DOMAIN results
          BY <3>4, <4>2
        <5>2. results'[r].next = 1
          BY <3>3, <3>5, <4>2
        <5>3. 1..(results'[r].next - 1) = {}
          BY <5>2
        <5>4. QED
          BY <5>1, <5>3
      <4>3. CASE r \notin DOMAIN results /\ r # Len(results) + 1
        BY <3>4, <3>5, <4>3
      <4>4. QED
        BY <4>1, <4>2, <4>3
    <3>7. QED
      BY <1>3, <3>6 DEF RowsInv, Known
  <2>3. QED
    BY <2>1, <2>2
<1>6. QED
  BY <1>4, <1>5 DEF RowsInv

\* What a fetch returns.
LEMMA FetchedRows ==
  ASSUME IInv, RowsInv, FetchRows
  PROVE  RowsInv'
<1> DEFINE t == results[result].table
           next == results[result].next
           cellAt(p) == [cell |-> <<result, p[1], p[2]>>,
                         source |-> <<result>> \o Source(t, next, p)]
           cells == {cellAt(p) : p \in Positions(t, next)}
<1>1. CASE ~(Selected /\ Fetchable(t, next))
  <2>1. results' = results /\ Answers(0, {})
    BY <1>1 DEF FetchRows, Fetch, Crash
  <2>2. QED
    BY <2>1, LookedAt
<1>2. CASE Selected /\ Fetchable(t, next)
  <2>1. /\ results' = [results EXCEPT ![result].next = t.rows + 1]
        /\ shown' = cells /\ given' = Fetched /\ crashed = "no"
    BY <1>2 DEF FetchRows, Fetch, Answers, Fetched, Calls
  <2>2. /\ results \in Seq([table : Tables, next : Nat]) /\ result \in DOMAIN results
        /\ result = Len(results) /\ Len(results) \in Nat
        /\ DOMAIN results = 1..Len(results)
    <3>1. results \in Seq([table : Tables, next : Nat]) /\ result \in DOMAIN results
      BY <1>2 DEF IInv, TypeOK, Selected
    <3>2. DOMAIN results = 1..Len(results) /\ Len(results) \in Nat
      BY <3>1
    <3>3. results # <<>>
      BY <3>1
    <3>4. result \notin {Junk, Null}
      BY <3>1, <3>2 DEF Junk, Null
    <3>5. result = Len(results)
      BY <2>1, <3>3, <3>4 DEF IInv, ResultInv
    <3>6. QED
      BY <3>1, <3>2, <3>5
  <2>3. results[result] \in [table : Tables, next : Nat]
    BY <2>2, ElementType, Zenon
  <2>4. t \in Tables /\ next \in Nat /\ next \in 1..(t.rows + 1)
    BY <2>2, <2>3 DEF IInv, TypeOK
  <2>5. t.rows \in Nat /\ Len(t.cols) \in Nat /\ Len(t.cols) > 0
    BY <2>4, TablesAssumption
  <2>6. /\ DOMAIN results' = DOMAIN results /\ Len(results') = Len(results)
        /\ \A r \in DOMAIN results \ {result} : results'[r] = results[r]
        /\ results'[result].next = t.rows + 1 /\ results'[result].table = t
    BY <2>1, <2>2, <2>3
  <2>7. ASSUME NEW r, NEW n
        PROVE  <<r, n>> \in RowsOf(cells) <=> r = result /\ n \in next..t.rows
    <3>1. ASSUME <<r, n>> \in RowsOf(cells) PROVE r = result /\ n \in next..t.rows
      <4>1. PICK p \in Positions(t, next) : <<r, n>> = <<cellAt(p).cell[1], cellAt(p).cell[2]>>
        BY <3>1 DEF RowsOf
      <4>2. cellAt(p).cell = <<result, p[1], p[2]>>
        OBVIOUS
      <4>3. r = result /\ n = p[1]
        BY <4>1, <4>2
      <4>4. QED
        BY <4>3 DEF Positions
    <3>2. ASSUME r = result, n \in next..t.rows PROVE <<r, n>> \in RowsOf(cells)
      <4> DEFINE p == <<n, 1>>
      <4>1. p \in Positions(t, next)
        BY <2>5, <3>2 DEF Positions
      <4>2. cellAt(p) \in cells /\ cellAt(p).cell = <<result, n, 1>>
        BY <4>1
      <4>3. <<cellAt(p).cell[1], cellAt(p).cell[2]>> = <<r, n>>
        BY <3>2, <4>2
      <4>4. QED
        BY <4>2, <4>3 DEF RowsOf
    <3>3. QED
      BY <3>1, <3>2
  <2>8. \A s \in cells : s.cell[1] = result
    OBVIOUS
  <2>9. ASSUME NEW s \in cells, s.source # s.cell
        PROVE  /\ <<s.cell[2], s.cell[3]>> \in t.nulls
               /\ \E other \in cells : other.cell = s.source
    <3>1. PICK p \in Positions(t, next) : s = cellAt(p)
      OBVIOUS
    <3> DEFINE q == Source(t, next, p)
    <3>2. q \in Positions(t, next) /\ (p \notin t.nulls => q = p)
      BY <1>2, <2>4, SourceFound
    <3>3. p = <<p[1], p[2]>> /\ q = <<q[1], q[2]>>
      BY <3>2 DEF Positions
    <3>4. s.cell = <<result, p[1], p[2]>> /\ s.source = <<result>> \o q
      BY <3>1
    <3> HIDE DEF q
    <3>5. <<result>> \o q = <<result, q[1], q[2]>>
      <4>1. result \in Nat /\ q[1] \in Nat /\ q[2] \in Nat
        BY <2>2, <2>4, <3>2 DEF Positions
      <4>2. <<result>> \o <<q[1], q[2]>> = <<result, q[1], q[2]>>
        BY <4>1, JoinedTuple
      <4>3. QED
        BY <3>3, <4>2
    <3>6. p \in t.nulls
      BY <2>9, <3>2, <3>4, <3>5
    <3>7. <<s.cell[2], s.cell[3]>> = p
      BY <3>3, <3>4
    <3>8. cellAt(q) \in cells /\ cellAt(q).cell = s.source
      BY <3>2, <3>4, <3>5
    <3>9. QED
      BY <3>6, <3>7, <3>8
  <2> HIDE DEF cells, t, next
  <2>10. Fetched' = RowsOf(cells) \cup Fetched
    BY <2>1 DEF Fetched
  <2>11. \A n : n \in next..t.rows => <<result, n>> \notin Fetched
    BY <2>4, <2>5 DEF RowsInv, Known, next
  <2>12. Known'
    <3>1. ASSUME NEW r, NEW n
          PROVE  <<r, n>> \in Fetched' <=> r \in DOMAIN results' /\ n \in 1..(results'[r].next - 1)
      <4>1. CASE r = result
        <5>1. <<r, n>> \in Fetched <=> n \in 1..(next - 1)
          BY <2>2, <4>1 DEF RowsInv, Known, next
        <5>2. (n \in 1..(next - 1) \/ n \in next..t.rows) <=> n \in 1..(t.rows + 1 - 1)
          BY <2>4, <2>5
        <5>3. <<r, n>> \in Fetched' <=> n \in 1..(t.rows + 1 - 1)
          BY <2>7, <2>10, <4>1, <5>1, <5>2
        <5>4. r \in DOMAIN results' /\ results'[r].next = t.rows + 1
          BY <2>2, <2>6, <4>1
        <5> DEFINE limit == results'[r].next
        <5>5. limit = t.rows + 1
          BY <5>4
        <5> HIDE DEF limit
        <5>6. <<r, n>> \in Fetched' <=> n \in 1..(limit - 1)
          <6>1. t.rows + 1 - 1 = limit - 1
            BY <2>5, <5>5
          <6>2. QED
            BY <5>3, <6>1, Zenon
        <5>7. <<r, n>> \in Fetched' <=> r \in DOMAIN results' /\ n \in 1..(limit - 1)
          BY <5>4, <5>6
        <5>8. QED
          BY <5>7 DEF limit
      <4>2. CASE r # result
        BY <2>6, <2>7, <2>10, <4>2 DEF RowsInv, Known
      <4>3. QED
        BY <4>1, <4>2
    <3>2. QED
      BY <3>1 DEF Known
  <2>13. RowsOf(shown') \cap given' = {}
    <3>1. ASSUME NEW x \in RowsOf(cells) PROVE x \notin Fetched
      <4>1. PICK s \in cells : x = <<s.cell[1], s.cell[2]>>
        BY DEF RowsOf
      <4>2. s.cell[2] \in next..t.rows /\ s.cell[1] = result
        BY <2>7, <4>1
      <4>3. QED
        BY <2>11, <4>1, <4>2
    <3>2. QED
      BY <2>1, <3>1
  <2>14. \A n \in 1..t.rows : <<result, n>> \in RowsOf(shown') \cup given'
    <3>1. TAKE n \in 1..t.rows
    <3>2. n \in 1..(results'[result].next - 1)
      BY <2>5, <2>6
    <3>3. <<result, n>> \in Fetched'
      BY <2>2, <2>6, <2>12, <3>2 DEF Known
    <3>4. QED
      BY <3>3 DEF Fetched
  <2>15. ASSUME NEW s \in shown'
         PROVE  LET table == results'[s.cell[1]].table IN
                /\ s.cell[1] = Len(results')
                /\ \A n \in 1..table.rows : <<s.cell[1], n>> \in RowsOf(shown') \cup given'
                /\ s.source # s.cell =>
                     /\ <<s.cell[2], s.cell[3]>> \in table.nulls
                     /\ \E other \in shown' : other.cell = s.source
    BY <2>1, <2>2, <2>6, <2>8, <2>9, <2>14, <2>15
  <2>16. FetchedRowsAreNew'
    BY <2>13, <2>15 DEF FetchedRowsAreNew
  <2>17. QED
    BY <2>12, <2>16 DEF RowsInv
<1>3. QED
  BY <1>1, <1>2

\* For tables of any size, any place of NULLs and every order of the calls: no row
\* is returned twice, none of the last result is passed over, and a NULL that
\* shows the value of another cell (mysql.cpp:109) shows one of its own fetch.
THEOREM RowsAreNew == Spec => []FetchedRowsAreNew
<1>1. Init => RowsInv
  <2> SUFFICES ASSUME Init PROVE RowsInv
    OBVIOUS
  <2>1. RowsOf({}) = {} /\ DOMAIN results = {} /\ shown = {} /\ given = {}
    BY DEF RowsOf, Init
  <2>2. QED
    BY <2>1 DEF RowsInv, Known, Fetched, FetchedRowsAreNew
<1>2. IInv /\ RowsInv /\ [Next]_vars => RowsInv'
  <2> SUFFICES ASSUME IInv, RowsInv, [Next]_vars PROVE RowsInv'
    OBVIOUS
  <2>1. CASE UNCHANGED <<results, shown, given>>
    BY <2>1 DEF RowsInv, Known, Fetched, FetchedRowsAreNew, RowsOf
  <2>2. CASE Connect
    BY <2>2, LookedAt DEF Connect
  <2>3. CASE Disconnect
    BY <2>3, LookedAt DEF Disconnect, Crash
  <2>4. CASE Query
    BY <2>4, LookedAt DEF Query, Refused, NoRows, Select, Crash
  <2>5. CASE LastInsertId
    <3>1. (\E n : Answers(n, {})) /\ results' = results
      BY <2>5 DEF LastInsertId, Crash, ObjectFrame, objectVars
    <3>2. QED
      BY <3>1, LookedAt
  <2>6. CASE AskConnection
    BY <2>6, LookedAt DEF AskConnection, Crash, ObjectFrame, objectVars
  <2>7. CASE NumRows
    BY <2>7, LookedAt DEF NumRows, Crash, ObjectFrame, objectVars
  <2>8. CASE FetchRows
    BY <2>8, FetchedRows
  <2>9. CASE New
    BY <2>1, <2>9 DEF New, answerVars
  <2>10. CASE UNCHANGED vars
    BY <2>1, <2>10 DEF vars, objectVars, answerVars
  <2>11. QED
    BY <2>2, <2>3, <2>4, <2>5, <2>6, <2>7, <2>8, <2>9, <2>10 DEF Next
<1>3. RowsInv => FetchedRowsAreNew
  BY DEF RowsInv
<1>4. QED
  BY <1>1, <1>2, <1>3, Invariance, PTL DEF Spec
=============================================================================
