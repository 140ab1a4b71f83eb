------------------------------- MODULE Mysql -------------------------------
(***************************************************************************)
(* The object a script gets from modules/Mysql/mysql.cpp, and what it asks *)
(* of libmysqlclient: the life of `connection' and `result', the insert id *)
(* and the rows that the fetch methods take from a stored result.          *)
(*                                                                         *)
(* A result is a matrix of cells, each NULL or not, over columns of three  *)
(* types: "text" (the default case of DeclareRowObject, line 107), "null"  *)
(* (line 63) and "number" (the cases that convert a string, lines 67-96).  *)
(* A value is named by its cell, <<result, row, column>>; column names and *)
(* the wording of errors are left out.                                     *)
(***************************************************************************)
EXTENDS Integers, Sequences

CONSTANTS
  Tables,         \* results a SELECT can have: [cols, rows, nulls]
  MaxConnects,    \* bound: calls of mysql_init
  MaxStatements   \* bound: statements the server executes

ASSUME BoundsAssumption == MaxConnects \in Nat /\ MaxStatements \in Nat
ASSUME TablesAssumption ==
  \A t \in Tables :
    /\ t.cols \in Seq({"text", "null", "number"}) /\ t.cols # <<>>
    /\ t.rows \in Nat
    /\ t.nulls \subseteq (1..t.rows) \X (1..Len(t.cols))

Junk == -1   \* a pointer that was never assigned
Null == 0

VARIABLES
  made,          \* the script has its object
  connection,    \* "junk", "null", "failed" (mysql_init, then no server) or "up"
  result,        \* Mysql::result: Junk, Null or an index of `results'
  results,       \* the stored results: [table, next], `next' the row to fetch
  fieldCount, insertId,  \* what the MYSQL says of its last statement
  crashed,       \* "no", or what ended the process: a bad MYSQL ("connection") or
                 \* MYSQL_RES ("rows"), or the NULL of rows that could not be
                 \* stored ("unstored") or of a value ("cell")
  statements, connects,  \* counters for the bounds
  id,            \* what lastInsertId returned, 0 after any other call
  shown,         \* what a fetch returned: [cell, source], source the cell whose
                 \* value it shows; empty after any other call
  given,         \* history: the rows earlier fetches returned
  newId          \* history: the id the connection's last statement made, or 0

libraryVars == <<fieldCount, insertId, newId>>
objectVars == <<made, connection, result, results>>
answerVars == <<id, shown, given>>
boundVars == <<statements, connects>>
vars == <<objectVars, libraryVars, crashed, boundVars, answerVars>>

Cells == (1..MaxStatements) \X Nat \X Nat

TypeOK ==
  /\ made \in BOOLEAN
  /\ connection \in {"junk", "null", "failed", "up"}
  /\ results \in Seq([table : Tables, next : Nat])
  /\ \A r \in DOMAIN results : results[r].next \in 1..(results[r].table.rows + 1)
  /\ result \in {Junk, Null} \cup DOMAIN results
  /\ fieldCount \in BOOLEAN /\ insertId \in 0..MaxStatements
  /\ newId \in 0..MaxStatements /\ id \in 0..MaxStatements
  /\ crashed \in {"no", "connection", "rows", "unstored", "cell"}
  /\ statements \in 0..MaxStatements /\ connects \in 0..MaxConnects
  /\ \A s \in shown : s.cell \in Cells
  /\ given \subseteq (1..MaxStatements) \X Nat

\* new Mysql() does not set its members (line 21); New makes one object, here.
Init ==
  /\ made = FALSE
  /\ connection \in {"junk", "null"} /\ result \in {Junk, Null}
  /\ results = <<>>
  /\ fieldCount = FALSE /\ insertId = 0 /\ newId = 0
  /\ crashed = "no" /\ statements = 0 /\ connects = 0
  /\ id = 0 /\ shown = {} /\ given = {}

-----------------------------------------------------------------------------
(* Calls.                                                                  *)

Calls == made /\ crashed = "no"

Linked == connection \in {"failed", "up"}
Selected == result \in DOMAIN results
HasSelected == results # <<>>

RowsOf(cells) == {<<s.cell[1], s.cell[2]>> : s \in cells}

\* what the previous call returned has been looked at
Answers(newid, cells) ==
  /\ id' = newid
  /\ given' = given \cup RowsOf(shown)
  /\ shown' = cells

Crash(cause) == crashed' = cause /\ Answers(0, {})

ObjectFrame == UNCHANGED <<objectVars, boundVars>>

\* mysql_init and mysql_real_connect: the MYSQL that `connection' held is lost
BadOpen(answer) ==
  /\ connects < MaxConnects /\ connects' = connects + 1
  /\ connection' = answer
  /\ fieldCount' = FALSE /\ newId' = 0 /\ UNCHANGED insertId

Open(answer) ==
  /\ connects < MaxConnects /\ connects' = connects + 1
  /\ connection' = answer
  /\ fieldCount' = FALSE /\ insertId' = 0 /\ newId' = 0

Outcomes == {"failed", "up"}

\* new Mysql(), and with arguments a connection; when that fails New throws and
\* the script has no object
New ==
  /\ ~made /\ crashed = "no"
  /\ \/ made' = TRUE /\ UNCHANGED <<connection, libraryVars, connects>>
     \/ Open("up") /\ made' = TRUE
     \/ /\ connects < MaxConnects /\ connects' = connects + 1
        /\ UNCHANGED <<made, connection, libraryVars>>
  /\ UNCHANGED <<result, results, crashed, statements, answerVars>>

Connect ==
  /\ Calls
  /\ \E answer \in Outcomes : Open(answer)
  /\ Answers(0, {})
  /\ UNCHANGED <<made, result, results, crashed, statements>>

BadDisconnect ==
  /\ Calls
  /\ IF connection = "junk"
     THEN Crash("connection") /\ UNCHANGED connection
     ELSE connection' = "closed" /\ Answers(0, {}) /\ UNCHANGED crashed
  /\ UNCHANGED <<made, result, results, libraryVars, boundVars>>

\* A connection that was never assigned is closed too.
Disconnect ==
  /\ Calls
  /\ IF connection = "junk"
     THEN Crash("connection") /\ UNCHANGED connection
     ELSE connection' = "null" /\ Answers(0, {}) /\ UNCHANGED crashed
  /\ UNCHANGED <<made, result, results, libraryVars, boundVars>>

-----------------------------------------------------------------------------
(* query, line 43.                                                         *)

\* The server executes a statement.
Execute ==
  /\ connection = "up"
  /\ statements < MaxStatements /\ statements' = statements + 1

\* no server, an error of it, or a connection that it has closed: what the
\* MYSQL then says of its last statement is undefined
Refused ==
  /\ Linked
  /\ \/ UNCHANGED <<fieldCount, insertId>>
     \/ fieldCount' = FALSE /\ insertId' = 0
  /\ UNCHANGED <<result, results, newId, crashed, statements>>

BadNoRows ==
  /\ Execute
  /\ fieldCount' = FALSE
  /\ insertId' \in {0, statements'} /\ newId' = insertId'
  /\ result' = Null
  /\ UNCHANGED <<results, crashed>>

\* line 50: a statement without rows leaves `result' as it was
NoRows ==
  /\ Execute
  /\ fieldCount' = FALSE
  /\ insertId' \in {0, statements'} /\ newId' = insertId'
  /\ UNCHANGED <<result, results, crashed>>

\* lines 53-54: the result before is not freed; no memory or no server for the
\* rows, and mysql_fetch_fields is given NULL
Select ==
  /\ Execute
  /\ fieldCount' = TRUE /\ insertId' \in {0, insertId} /\ newId' = 0
  /\ \/ /\ \E t \in Tables : results' = Append(results, [table |-> t, next |-> 1])
        /\ result' = Len(results')
        /\ UNCHANGED crashed
     \/ crashed' = "unstored" /\ result' = Null /\ UNCHANGED results

Query ==
  /\ Calls
  /\ IF Linked
     THEN (Refused \/ NoRows \/ Select) /\ Answers(0, {})
     ELSE Crash("connection") /\ UNCHANGED <<result, results, libraryVars, statements>>
  /\ UNCHANGED <<made, connection, connects>>

-----------------------------------------------------------------------------
(* Answers.                                                                *)

\* line 188
Newest == IF fieldCount THEN 0 ELSE insertId

\* The first test saves the others from a connection that is NULL.
LastInsertId ==
  /\ Calls
  /\ CASE result # Null -> Answers(0, {}) /\ UNCHANGED crashed
       [] result = Null /\ Linked -> Answers(Newest, {}) /\ UNCHANGED crashed
       [] OTHER -> Crash("connection")
  /\ ObjectFrame /\ UNCHANGED libraryVars

\* error and escapeString
AskConnection ==
  /\ Calls
  /\ IF Linked THEN Answers(0, {}) /\ UNCHANGED crashed ELSE Crash("connection")
  /\ ObjectFrame /\ UNCHANGED libraryVars

NumRows ==
  /\ Calls
  /\ IF Selected THEN Answers(0, {}) /\ UNCHANGED crashed ELSE Crash("rows")
  /\ ObjectFrame /\ UNCHANGED libraryVars

\* Positions of a table's rows from `next' on, in the order they are visited,
\* and the order itself.
Positions(t, next) == (next..t.rows) \X (1..Len(t.cols))
UpTo(p, q) == p[1] < q[1] \/ (p[1] = q[1] /\ p[2] <= q[2])

\* DeclareRowObject assigns jsField, which outlives the cell, unless the value
\* is NULL and the column is text; a conversion of NULL never returns.
Assigns(t, p) == t.cols[p[2]] # "text" \/ p \notin t.nulls
NeverReturns(t, p) == t.cols[p[2]] = "number" /\ p \in t.nulls

\* the position whose value position p shows
Source(t, next, p) ==
  CHOOSE q \in {x \in Positions(t, next) : Assigns(t, x) /\ UpTo(x, p)} :
    \A x \in Positions(t, next) : Assigns(t, x) /\ UpTo(x, p) => UpTo(x, q)

\* an empty jsField is not a value to set, either
Fetchable(t, next) ==
  \A p \in Positions(t, next) :
    /\ ~NeverReturns(t, p)
    /\ \E q \in Positions(t, next) : Assigns(t, q) /\ UpTo(q, p)

\* the loops of fetchArray and fetchObject, lines 225 and 257
BadFetch ==
  LET t == results[result].table
      next == results[result].next
  IN  IF Fetchable(t, next)
      THEN /\ Answers(0, {[cell |-> <<result, p[1], p[2]>>,
                           source |-> <<result>> \o Source(t, next, p)] :
                            p \in Positions(t, next)})
           /\ UNCHANGED <<results, crashed>>
      ELSE Crash("cell") /\ UNCHANGED results

Fetch ==
  LET t == results[result].table
      next == results[result].next
  IN  IF Fetchable(t, next)
      THEN /\ results' = [results EXCEPT ![result].next = t.rows + 1]
           /\ Answers(0, {[cell |-> <<result, p[1], p[2]>>,
                           source |-> <<result>> \o Source(t, next, p)] :
                            p \in Positions(t, next)})
           /\ UNCHANGED crashed
      ELSE Crash("cell") /\ UNCHANGED results

\* fetchArray and fetchObject; only the first asks whether there are rows at
\* all, and without rows there is nothing to fetch
FetchRows ==
  /\ Calls
  /\ IF Selected THEN Fetch ELSE Crash("rows") /\ UNCHANGED results
  /\ UNCHANGED <<made, connection, result, libraryVars, boundVars>>

Next ==
  \/ New \/ Connect \/ Disconnect \/ Query
  \/ LastInsertId \/ AskConnection \/ NumRows \/ FetchRows

Spec == Init /\ [][Next]_vars

-----------------------------------------------------------------------------
(* Properties.                                                             *)

\* Once a SELECT has returned true, whatever comes after it (queries that fail,
\* statements without rows, connect and disconnect: lines 25-57), numRows and the
\* fetches have its rows to ask for, and never a pointer that is not one.  All
\* that can end them is a NULL among the rows still to be fetched (lines 74-108).
SelectedRowsAreServed ==
  /\ crashed = "rows" => ~HasSelected
  /\ crashed = "cell" =>
       \E p \in results[result].table.nulls : p[1] >= results[result].next

\* What a fetch returns is of the last SELECT and all of it that no fetch has
\* returned yet; and a cell that shows the value of another one (line 108) is a
\* NULL, and the other is of the same fetch.
FetchedRowsAreNew ==
  /\ RowsOf(shown) \cap given = {}
  /\ \A s \in shown :
       LET t == results[s.cell[1]].table IN
       /\ s.cell[1] = Len(results)
       /\ \A n \in 1..t.rows : <<s.cell[1], n>> \in RowsOf(shown) \cup given
       /\ s.source # s.cell =>
            /\ <<s.cell[2], s.cell[3]>> \in t.nulls
            /\ \E other \in shown : other.cell = s.source

\* lastInsertId answers with the id made by the last statement this connection
\* executed, or with 0; and with 0 for ever after a SELECT, whose result line 188
\* takes for the last statement's.
InsertIdIsOfLast == id # 0 => id = newId /\ ~HasSelected
=============================================================================
