------------------------ MODULE LoaderContractProofs ------------------------
(***************************************************************************)
(* ModuleLoader implements LoaderContract, for any tree, programs, names   *)
(* and depth: the one working directory of the process is, whenever a      *)
(* script looks at it, the directory the script is at home in.             *)
(***************************************************************************)
EXTENDS ModuleLoaderProofs

-----------------------------------------------------------------------------
(* Both specifications have the same tree.                                 *)

LEMMA SameWalk ==
  /\ Contract!Up = Up /\ Contract!Nowhere = Nowhere /\ Contract!Broken = Broken
  /\ Contract!Files = Files
  /\ \A s : Contract!Last(s) = Last(s)
  /\ \A p, q : Contract!IsPrefix(p, q) <=> IsPrefix(p, q)
  /\ \A p : Contract!Parent(p) = Parent(p)
  /\ \A p : Contract!Walk(p) = Walk(p)
  /\ \A at, name : Contract!From(at, name) = From(at, name)
  /\ \A name : Contract!OfDirectory(name) <=> OfDirectory(name)
<1>1. /\ Contract!Up = Up /\ Contract!Nowhere = Nowhere /\ Contract!Broken = Broken
      /\ Contract!Files = Files
  BY DEF Contract!Up, Up, Contract!Nowhere, Nowhere, Contract!Broken, Broken,
         Contract!Files, Files
<1>2. \A p : Contract!Parent(p) = Parent(p)
  BY DEF Contract!Parent, Parent
<1>3. \A p : Contract!Walk(p) = Walk(p)
  BY DEF Contract!Walk, Walk, Contract!Entered, Entered, Contract!Parent, Parent,
         Contract!Up, Up, Contract!Here, Here
<1>4. \A at, name : Contract!From(at, name) = From(at, name)
  BY DEF Contract!From, From
<1>5. /\ \A s : Contract!Last(s) = Last(s)
      /\ \A p, q : Contract!IsPrefix(p, q) <=> IsPrefix(p, q)
  BY DEF Contract!Last, Last, Contract!IsPrefix, IsPrefix
<1>6. \A name : Contract!OfDirectory(name) <=> OfDirectory(name)
  BY DEF Contract!OfDirectory, OfDirectory, Contract!Last, Last, Contract!Up, Up,
         Contract!Here, Here
<1> QED
  BY <1>1, <1>2, <1>3, <1>4, <1>5, <1>6

LEMMA SameNames ==
  /\ \A at, name : Contract!Named(at, name) = Named(at, name)
  /\ \A at, name : Contract!CommonJS(at, name) = CommonJS(at, name)
<1>1. ASSUME NEW at, NEW name
      PROVE  /\ Contract!Named(at, name) = Named(at, name)
             /\ Contract!CommonJS(at, name) = CommonJS(at, name)
  <2> DEFINE dir == Walk(From(at, name) \o Parent(name.path))
             Dir == Contract!Walk(Contract!From(at, name) \o Contract!Parent(name.path))
             js == Walk(at \o Parent(name.path))
             Js == Contract!Walk(at \o Contract!Parent(name.path))
  <2>1. Dir = dir /\ Js = js
    BY SameWalk
  <2>2. /\ Contract!Named(at, name) =
             IF Dir \in dirs /\ ~Contract!OfDirectory(name)
             THEN {Append(Dir, Last(name.path))} ELSE {}
        /\ Named(at, name) =
             IF dir \in dirs /\ ~OfDirectory(name)
             THEN {Append(dir, Last(name.path))} ELSE {}
    BY DEF Contract!Named, Named, Contract!Last, Last
  <2>3. /\ Contract!CommonJS(at, name) =
             IF Js \notin dirs THEN {}
             ELSE IF Last(name.path)[2] # ""
                  THEN {f \in {Append(Js, Last(name.path))} \cap Contract!Files :
                          Last(f)[2] \in {"fm", "js"}}
             ELSE IF Append(Js, <<Last(name.path)[1], "fm">>) \in Contract!Files
                  THEN {Append(Js, <<Last(name.path)[1], "fm">>)}
             ELSE {Append(Js, <<Last(name.path)[1], "js">>)} \cap Contract!Files
        /\ CommonJS(at, name) =
             IF js \notin dirs THEN {}
             ELSE IF Last(name.path)[2] # ""
                  THEN {f \in {Append(js, Last(name.path))} \cap Files :
                          Last(f)[2] \in {"fm", "js"}}
             ELSE IF Append(js, <<Last(name.path)[1], "fm">>) \in Files
                  THEN {Append(js, <<Last(name.path)[1], "fm">>)}
             ELSE {Append(js, <<Last(name.path)[1], "js">>)} \cap Files
    BY DEF Contract!CommonJS, CommonJS, Contract!Last, Last
  <2> HIDE DEF dir, Dir, js, Js
  <2> QED
    BY <2>1, <2>2, <2>3, SameWalk
<1> QED
  BY <1>1

LEMMA SameCalls ==
  /\ \A p : Mkdir(p) => Contract!Mkdir(p)
  /\ \A p : Rmdir(p) => Contract!Rmdir(p)
  /\ \A p, q : Rename(p, q) => Contract!Rename(p, q)
<1>1. \A p : Mkdir(p) => Contract!Mkdir(p)
  BY DEF Contract!Mkdir, Mkdir, Contract!Files, Files
<1>2. \A p : Contract!Within(p) = Within(p)
  BY SameWalk DEF Contract!Within, Within
<1>3. \A x, p, q : Contract!Replaced(x, p, q) = Replaced(x, p, q)
  BY SameWalk DEF Contract!Replaced, Replaced
<1>4. \A p : Rmdir(p) => Contract!Rmdir(p)
  BY <1>2 DEF Contract!Rmdir, Rmdir
<1>5. \A p, q : CanTake(p, q) => Contract!CanTake(p, q)
  BY <1>2, SameWalk DEF Contract!CanTake, CanTake
<1>6. ASSUME NEW p, NEW q, Rename(p, q)
      PROVE  Contract!Rename(p, q)
  <2>1. Contract!CanTake(p, q)
    BY <1>5, <1>6 DEF Rename
  <2>2. dirs' = {Contract!Replaced(x, p, q) : x \in dirs \ {q}}
    BY <1>3, <1>6 DEF Rename
  <2>3. program' = [f \in {Contract!Replaced(x, p, q) : x \in Contract!Files \ {q}} |->
                      program[Contract!Replaced(f, q, p)]]
    <3>1. program' = [f \in {Replaced(x, p, q) : x \in Files \ {q}} |->
                        program[Replaced(f, q, p)]]
      BY <1>6 DEF Rename
    <3>2. {Contract!Replaced(x, p, q) : x \in Contract!Files \ {q}}
            = {Replaced(x, p, q) : x \in Files \ {q}}
      BY <1>3, SameWalk
    <3> QED
      BY <1>3, <3>1, <3>2
  <2>4. lost' = lost \cup {x \in dirs : x = q \/ IsPrefix(p, x)}
    BY <1>6 DEF Rename
  <2> QED
    BY <2>1, <2>2, <2>3, <2>4, SameWalk DEF Contract!Rename
<1> QED
  BY <1>1, <1>4, <1>6

-----------------------------------------------------------------------------
(* The frames of the contract.                                             *)

View(frame) == [file |-> frame.file, todo |-> frame.todo, home |-> frame.home]
Views(s) == [i \in DOMAIN s |-> View(s[i])]
Scene == [file : Path, todo : Seq(Statement), home : Path \cup {Nowhere}]

LEMMA SeenIsViews == Seen = Views(stack) /\ Seen' = Views(stack')
  BY DEF Seen, Views, View

LEMMA ViewsFacts ==
  ASSUME NEW s \in Seq(Frame)
  PROVE  /\ Views(s) \in Seq(Scene) /\ Len(Views(s)) = Len(s) /\ Len(s) \in Nat
         /\ \A i \in 1..Len(s) : /\ s[i] \in Frame /\ View(s[i]) \in Scene
                                 /\ Views(s)[i] = View(s[i])
         /\ Views(s) = <<>> <=> s = <<>>
<1>1. Len(s) \in Nat /\ DOMAIN s = 1..Len(s) /\ \A i \in 1..Len(s) : s[i] \in Frame
  BY LenProperties, ElementOfSeq
<1>2. \A f \in Frame : View(f) \in Scene
  BY DEF View, Frame, Scene
<1>3. Views(s) = [i \in 1..Len(s) |-> View(s[i])]
  BY <1>1 DEF Views
<1>4. Views(s) \in Seq(Scene) /\ Len(Views(s)) = Len(s)
  BY <1>1, <1>2, <1>3
<1>5. \A i \in 1..Len(s) : Views(s)[i] = View(s[i])
  BY <1>3
<1>6. (Views(s) = <<>> <=> Len(Views(s)) = 0) /\ (s = <<>> <=> Len(s) = 0)
  BY <1>4, EmptySeq
<1> QED
  BY <1>1, <1>2, <1>4, <1>5, <1>6

LEMMA ViewsLast ==
  ASSUME NEW s \in Seq(Frame), s # <<>>
  PROVE  Last(Views(s)) = View(Last(s)) /\ Last(s) \in Frame
<1>1. Len(s) \in Nat /\ Len(s) # 0 /\ Len(Views(s)) = Len(s)
  BY ViewsFacts, EmptySeq
<1>2. Len(s) \in 1..Len(s)
  BY <1>1
<1> QED
  BY <1>1, <1>2, ViewsFacts DEF Last

LEMMA ViewsAppend ==
  ASSUME NEW s \in Seq(Frame), NEW f \in Frame
  PROVE  Views(Append(s, f)) = Append(Views(s), View(f))
<1> DEFINE n == Len(s)
<1>1. /\ Append(s, f) \in Seq(Frame) /\ Len(Append(s, f)) = n + 1 /\ n \in Nat
      /\ Append(s, f)[n + 1] = f /\ \A i \in 1..n : Append(s, f)[i] = s[i]
  BY AppendProperties, LenProperties
<1>2. /\ Views(s) \in Seq(Scene) /\ Len(Views(s)) = n
      /\ \A i \in 1..n : Views(s)[i] = View(s[i])
  BY ViewsFacts
<1>3. View(f) \in Scene
  BY DEF View, Frame, Scene
<1>4. /\ Append(Views(s), View(f)) \in Seq(Scene)
      /\ Len(Append(Views(s), View(f))) = n + 1
      /\ Append(Views(s), View(f))[n + 1] = View(f)
      /\ \A i \in 1..n : Append(Views(s), View(f))[i] = Views(s)[i]
  BY <1>2, <1>3, AppendProperties
<1>5. /\ Views(Append(s, f)) \in Seq(Scene) /\ Len(Views(Append(s, f))) = n + 1
      /\ \A i \in 1..(n + 1) : Views(Append(s, f))[i] = View(Append(s, f)[i])
  BY <1>1, ViewsFacts
<1> HIDE DEF n
<1>6. \A i \in 1..(n + 1) : Views(Append(s, f))[i] = Append(Views(s), View(f))[i]
  <2>1. TAKE i \in 1..(n + 1)
  <2>2. i = n + 1 \/ i \in 1..n
    BY <1>1
  <2> QED
    BY <1>1, <1>2, <1>4, <1>5, <2>2
<1> QED
  BY <1>4, <1>5, <1>6, SeqEqual

LEMMA ViewsParent ==
  ASSUME NEW s \in Seq(Frame), s # <<>>
  PROVE  Views(Parent(s)) = Parent(Views(s)) /\ Parent(s) \in Seq(Frame)
<1>1. Parent(s) \in Seq(Frame) /\ Last(s) \in Frame /\ s = Append(Parent(s), Last(s))
  BY Split
<1>2. Views(s) = Append(Views(Parent(s)), View(Last(s)))
  BY <1>1, ViewsAppend
<1>3. Views(Parent(s)) \in Seq(Scene) /\ View(Last(s)) \in Scene
  <2>1. View(Last(s)) \in Scene
    BY <1>1 DEF View, Frame, Scene
  <2> QED
    BY <1>1, <2>1, ViewsFacts
<1> QED
  BY <1>1, <1>2, <1>3, Appended

\* Replacing what is left to do of the last frame.
LEMMA ViewsTodo ==
  ASSUME NEW s \in Seq(Frame), s # <<>>, NEW todo \in Seq(Statement)
  PROVE  /\ [s EXCEPT ![Len(s)].todo = todo] \in Seq(Frame)
         /\ Views([s EXCEPT ![Len(s)].todo = todo])
              = Append(Parent(Views(s)), [Last(Views(s)) EXCEPT !.todo = todo])
<1> DEFINE n == Len(s)
           top == [s[n] EXCEPT !.todo = todo]
           r == [s EXCEPT ![n] = top]
<1>1. n \in Nat /\ n \in 1..n /\ s[n] \in Frame /\ Last(s) = s[n]
  <2>1. n \in Nat /\ n # 0
    BY LenProperties, EmptySeq
  <2> QED
    BY <2>1, ElementOfSeq DEF Last
<1>2. top \in Frame /\ View(top) = [View(s[n]) EXCEPT !.todo = todo]
  <2> DEFINE f == s[n]
  <2>1. f \in [kind : {"main", "callback", "module"}, file : Path, todo : Seq(Statement),
               back : Path \cup {Nowhere}, home : Path \cup {Nowhere}]
    BY <1>1 DEF Frame
  <2> HIDE DEF f
  <2>2. [f EXCEPT !.todo = todo] \in Frame
    BY <2>1 DEF Frame
  <2>3. /\ [f EXCEPT !.todo = todo].file = f.file
        /\ [f EXCEPT !.todo = todo].todo = todo
        /\ [f EXCEPT !.todo = todo].home = f.home
    BY <2>1
  <2>4. [View(f) EXCEPT !.todo = todo] = [file |-> f.file, todo |-> todo, home |-> f.home]
    BY DEF View
  <2>5. View([f EXCEPT !.todo = todo]) = [View(f) EXCEPT !.todo = todo]
    BY <2>3, <2>4 DEF View
  <2> QED
    BY <2>2, <2>5 DEF f
<1>3. r = [s EXCEPT ![Len(s)].todo = todo]
  OBVIOUS
<1> HIDE DEF top
<1>4. r \in Seq(Frame) /\ Len(r) = n /\ \A j \in 1..n : r[j] = IF j = n THEN top ELSE s[j]
  BY <1>1, <1>2, ExceptSeq
<1> HIDE DEF r
<1>5. /\ Parent(s) \in Seq(Frame) /\ Len(Parent(s)) = n - 1
      /\ \A j \in 1..(n - 1) : Parent(s)[j] = s[j]
  <2>1. Parent(s) \in Seq(Frame) /\ Len(Parent(s)) = n - 1 /\ s = Append(Parent(s), Last(s))
    BY Split
  <2>2. \A j \in 1..Len(Parent(s)) : Append(Parent(s), Last(s))[j] = Parent(s)[j]
    BY <1>1, <2>1, AppendProperties
  <2> QED
    BY <2>1, <2>2
<1>6. r = Append(Parent(s), top)
  <2>1. /\ Append(Parent(s), top) \in Seq(Frame) /\ Len(Append(Parent(s), top)) = n
        /\ Append(Parent(s), top)[n] = top
        /\ \A j \in 1..(n - 1) : Append(Parent(s), top)[j] = s[j]
    BY <1>1, <1>2, <1>5, AppendProperties
  <2>2. \A j \in 1..n : r[j] = Append(Parent(s), top)[j]
    <3>1. TAKE j \in 1..n
    <3>2. j = n \/ j \in 1..(n - 1)
      BY <1>1
    <3> QED
      BY <1>1, <1>4, <2>1, <3>2
  <2> QED
    BY <1>4, <2>1, <2>2, SeqEqual
<1>7. Views(r) = Append(Parent(Views(s)), View(top))
  BY <1>2, <1>5, <1>6, ViewsAppend, ViewsParent
<1> QED
  BY <1>1, <1>2, <1>3, <1>4, <1>7, ViewsLast

-----------------------------------------------------------------------------
(* The script that runs, and where it is.                                  *)

LEMMA ScriptIsTop ==
  ASSUME TypeOK, stack # <<>>
  PROVE  /\ Contract!Script = View(Top) /\ Top \in Frame
         /\ Contract!Script.file = Top.file /\ Contract!Script.todo = Top.todo
         /\ Contract!Script.home = Top.home
         /\ Contract!Now = Now
         /\ Contract!Parent(Seen) = Views(Parent(stack)) /\ Parent(stack) \in Seq(Frame)
         /\ \A todo \in Seq(Statement) :
              Contract!GoesOn(todo) = Views([stack EXCEPT ![Len(stack)].todo = todo])
<1>1. stack \in Seq(Frame) /\ Seen = Views(stack)
  BY SeenIsViews DEF TypeOK
<1>2. Contract!Script = View(Top) /\ Top \in Frame /\ Contract!Script = Last(Views(stack))
  BY <1>1, SameWalk, ViewsLast DEF Contract!Script, Top
<1>3. /\ Contract!Script.file = Top.file /\ Contract!Script.todo = Top.todo
      /\ Contract!Script.home = Top.home
  BY <1>2 DEF View
<1>4. Contract!Now = Now
  BY <1>3 DEF Contract!Now, Now
<1>5. Contract!Parent(Seen) = Views(Parent(stack)) /\ Parent(stack) \in Seq(Frame)
  BY <1>1, SameWalk, ViewsParent
<1>6. ASSUME NEW todo \in Seq(Statement)
      PROVE  Contract!GoesOn(todo) = Views([stack EXCEPT ![Len(stack)].todo = todo])
  <2>1. Contract!GoesOn(todo)
          = Append(Parent(Views(stack)), [Last(Views(stack)) EXCEPT !.todo = todo])
    BY <1>1, <1>2, SameWalk DEF Contract!GoesOn
  <2> QED
    BY <1>1, <2>1, ViewsTodo
<1> QED
  BY <1>2, <1>3, <1>4, <1>5, <1>6

LEMMA SameStatement ==
  ASSUME TypeOK, NEW ops, Running(ops)
  PROVE  /\ Contract!Running(ops)
         /\ Contract!Advance = Views(Advance) /\ Contract!Abort = Views(Abort)
         /\ Advance \in Seq(Frame)
<1>1. /\ state = "run" /\ stack # <<>> /\ Top \in Frame /\ Top.todo # <<>> /\ Now.op \in ops
      /\ SameFrames(Advance)
  BY RunningFacts DEF Running
<1>2. Top.todo \in Seq(Statement) /\ Top = stack[Len(stack)]
  BY <1>1 DEF Frame, Top, Last
<1>3. Tail(Top.todo) \in Seq(Statement) /\ <<>> \in Seq(Statement)
  BY <1>1, <1>2, HeadTailProperties, EmptySeq
<1>4. /\ Advance = [stack EXCEPT ![Len(stack)].todo = Tail(Top.todo)]
      /\ Abort = [stack EXCEPT ![Len(stack)].todo = <<>>]
  BY <1>2 DEF Advance, Abort
<1>5. Contract!Running(ops)
  BY <1>1, ScriptIsTop DEF Contract!Running
<1>6. Contract!Advance = Contract!GoesOn(Tail(Top.todo)) /\ Contract!Abort = Contract!GoesOn(<<>>)
  BY <1>1, ScriptIsTop DEF Contract!Advance, Contract!Abort
<1>7. Contract!Advance = Views(Advance)
  BY <1>1, <1>3, <1>4, <1>6, ScriptIsTop
<1>8. Contract!Abort = Views(Abort)
  BY <1>1, <1>3, <1>4, <1>6, ScriptIsTop
<1> QED
  BY <1>1, <1>5, <1>7, <1>8 DEF SameFrames

\* The process is where the contract has the script, and so is what it takes for
\* its working directory.
LEMMA ProcessIsInPlace ==
  ASSUME IInv, state = "run"
  PROVE  cwd \in Contract!Places /\ CurrentPath \subseteq Contract!Places
<1>1. /\ TypeOK /\ HomesExist /\ CwdFollowsStack /\ stack # <<>>
      /\ cwd \in dirs \cup {Nowhere}
  BY DEF IInv, TypeOK
<1>2. Top.home \in dirs \cup lost
  <2>1. Len(stack) \in DOMAIN stack /\ Top = stack[Len(stack)]
    BY <1>1, StackFacts DEF Top, Last
  <2> QED
    BY <1>1, <2>1 DEF HomesExist
<1>3. Contract!Places = IF Top.home \notin lost THEN {Top.home} ELSE dirs \cup {Nowhere}
  BY <1>1, ScriptIsTop, SameWalk DEF Contract!Places
<1>4. CASE Top.home \notin lost
  BY <1>1, <1>2, <1>3, <1>4 DEF CwdFollowsStack, CurrentPath
<1>5. CASE Top.home \in lost
  BY <1>1, <1>3, <1>5 DEF CurrentPath
<1> QED
  BY <1>4, <1>5

-----------------------------------------------------------------------------
(* What require() finds.                                                   *)

LEMMA AppendBehind ==
  ASSUME NEW S, NEW a \in Seq(S), NEW b \in Seq(S), NEW c \in S
  PROVE  a \o Append(b, c) = Append(a \o b, c) /\ a \o b \in Seq(S)
<1>1. <<c>> \in Seq(S)
  OBVIOUS
<1>2. a \o b \in Seq(S)
  BY ConcatProperties
<1>3. (a \o b) \o <<c>> = a \o (b \o <<c>>)
  BY <1>1, ConcatAssociative
<1>4. Append(b, c) = b \o <<c>>
  BY AppendIsConcat
<1>5. Append(a \o b, c) = (a \o b) \o <<c>>
  BY <1>2, AppendIsConcat
<1> QED
  BY <1>2, <1>3, <1>4, <1>5

LEMMA NowhereIsNoPath ==
  Nowhere \notin Path
<1> SUFFICES ASSUME Nowhere \in Seq(Components) PROVE FALSE
  BY DEF Path
<1>1. Len(Nowhere) = 1 /\ Nowhere[1] = Gone
  BY DEF Nowhere
<1>2. Nowhere[1] \in Components
  BY <1>1, ElementOfSeq
<1> QED
  BY <1>1, <1>2, NamesAssumption

\* Nothing is found from a directory that was removed.
LEMMA WalkFromNowhere ==
  ASSUME Tree(dirs, Files), NEW p \in Text
  PROVE  Walk(Nowhere \o p) = Nowhere
<1>1. Nowhere \in Text /\ Nowhere \notin dirs /\ Walk(Nowhere) = Nowhere
  <2>1. Gone \in All /\ <<>> \in Text /\ Nowhere = Append(<<>>, Gone)
    BY EmptySeq DEF All, Nowhere, Text
  <2>2. Nowhere \in Text
    BY <2>1, AppendProperties DEF Text
  <2>3. Nowhere \notin Path
    BY NowhereIsNoPath
  <2>4. Walk(Nowhere) = Entered(<<>>, Gone)
    BY <2>1, WalkNowhere, WalkOn DEF Text
  <2>5. Entered(<<>>, Gone) = Nowhere
    BY <2>1, NamesAssumption DEF Entered, Tree
  <2> QED
    BY <2>2, <2>3, <2>4, <2>5 DEF Tree
<1>2. /\ SubSeq(p, 1, 0) = <<>> /\ SubSeq(p, 1, Len(p)) = p /\ Len(p) \in Nat
      /\ \A n \in 0..Len(p) : SubSeq(p, 1, n) \in Text
      /\ \A n \in 1..Len(p) : /\ p[n] \in All
                             /\ SubSeq(p, 1, n) = Append(SubSeq(p, 1, n - 1), p[n])
  BY Beginnings DEF Text
<1> DEFINE T == {n \in 0..Len(p) : Walk(Nowhere \o SubSeq(p, 1, n)) # Nowhere}
<1>3. T = {}
  <2>1. T \in SUBSET Nat /\ 0 \notin T
    <3>1. Nowhere \o <<>> = Nowhere
      BY <1>1, ConcatEmptySeq DEF Text
    <3>2. Walk(Nowhere \o SubSeq(p, 1, 0)) = Nowhere
      <4> HIDE DEF T
      <4> QED
        BY <1>1, <1>2, <3>1
    <3>3. T \in SUBSET Nat
      BY <1>2
    <3> QED
      BY <3>2, <3>3
  <2>2. ASSUME NEW n \in T \ {0}, n - 1 \notin T
        PROVE  FALSE
    <3>1. n \in 1..Len(p) /\ n - 1 \in 0..Len(p)
      BY <1>2
    <3> DEFINE b == SubSeq(p, 1, n - 1)
               c == p[n]
    <3>2. b \in Text /\ Walk(Nowhere \o b) = Nowhere /\ SubSeq(p, 1, n) = Append(b, c)
          /\ c \in All
      BY <1>2, <2>2, <3>1
    <3> HIDE DEF b, c
    <3>3. Nowhere \o Append(b, c) = Append(Nowhere \o b, c) /\ Nowhere \o b \in Text
      BY <1>1, <3>2, AppendBehind DEF Text
    <3>4. Walk(Append(Nowhere \o b, c)) = Entered(Nowhere, c)
      BY <3>2, <3>3, WalkOn DEF Text
    <3>5. Entered(Nowhere, c) = Nowhere
      BY <1>1 DEF Entered
    <3> QED
      BY <3>2, <3>3, <3>4, <3>5
  <2> HIDE DEF T
  <2> QED
    BY <2>1, <2>2, NoneIsFirst
<1>4. Len(p) \in 0..Len(p) /\ Len(p) \notin T
  BY <1>2, <1>3
<1> QED
  BY <1>2, <1>4

\* Where the contract looks the name up that is required.
Place(current) == IF Now.req.abs THEN cwd ELSE current

\* realpath(), which leaves names half-done, and FileExtension, which does not ask,
\* find what the contract has for the name.
LEMMA FoundIsPromised ==
  ASSUME IInv, Running({"require", "try"}), NEW current \in CurrentPath
  PROVE  Found(current) \in Contract!Finds(Place(current), Contract!Now.req)
<1> DEFINE name == Now.req
           from == From(Place(current), name)
           f == Found(current)
           u == UsingPath(current, name)
<1>1. /\ TypeOK /\ Tree(dirs, Files) /\ stack # <<>> /\ name \in Names
      /\ current \in dirs \cup {Nowhere} /\ <<>> \in dirs
      /\ f # <<>> => f \in Files
      /\ f = FileExtension(u)
  BY RunningFacts, FoundFacts DEF IInv, TypeOK, Tree, CurrentPath, Found
<1>2. from = IF name.abs THEN <<>> ELSE current
  BY DEF From, Place
<1>3. /\ name.path \in Text /\ Parent(name.path) \in Text
      /\ current \o name.path \in Text
  <2>1. name.path \in Text /\ name.path # <<>> /\ current \o name.path \in Text
    BY <1>1, TextOfName
  <2> QED
    BY <2>1, Split DEF Text
<1>4. Walk(u) = Walk(from \o name.path)
  <2>1. CASE name.abs
    <3>1. <<>> \o name.path = name.path
      BY <1>3, ConcatEmptySeq DEF Text
    <3> QED
      BY <1>2, <2>1, <3>1 DEF UsingPath
  <2>2. CASE ~name.abs
    BY <1>1, <1>2, <1>3, <2>2, WalkTwice DEF UsingPath, Normalize
  <2> QED
    BY <2>1, <2>2
<1> HIDE DEF u
<1>5. Contract!Finds(Place(current), Contract!Now.req) =
        IF ~OfDirectory(name) /\ Walk(from \o Parent(name.path)) \in dirs
        THEN IF CommonJS(from, name) = {} THEN {<<>>} ELSE CommonJS(from, name)
        ELSE Files \cup {<<>>}
  <2>1. Contract!Now = Now
    BY <1>1, ScriptIsTop
  <2> QED
    BY <2>1, SameWalk, SameNames DEF Contract!Finds
<1> HIDE DEF f, from, name
<1>6. CASE ~OfDirectory(name) /\ Walk(from \o Parent(name.path)) \in dirs
  <2>1. from \in dirs
    <3>1. Nowhere \notin dirs
      BY <1>1, NowhereIsNoPath DEF Tree
    <3>2. from # Nowhere
      BY <1>1, <1>3, <1>6, <3>1, WalkFromNowhere
    <3> QED
      BY <1>1, <1>2, <3>2
  <2>2. {FileExtension(u)} \ {<<>>} = CommonJS(from, name)
    BY <1>1, <1>4, <1>6, <2>1, Resolved
  <2> QED
    BY <1>1, <1>5, <1>6, <2>2 DEF f, name
<1>7. CASE ~(~OfDirectory(name) /\ Walk(from \o Parent(name.path)) \in dirs)
  BY <1>1, <1>5, <1>7 DEF f, name
<1> QED
  BY <1>6, <1>7

\* The module that begins is at home where the contract has it.
LEMMA HomeIsPromised ==
  ASSUME IInv, Running({"require", "try"}), NEW current \in CurrentPath, NEW f
  PROVE  Contract!Home(Place(current), f, Contract!Now.req) = HomeOf(f, Now.req)
<1>1. Contract!Now = Now
  BY RunningFacts, ScriptIsTop DEF IInv
<1> DEFINE name == Now.req
           dir == Walk(Parent(name.path))
<1>2. Contract!Home(Place(current), f, name) =
        IF name.abs /\ (OfDirectory(name) \/ dir \notin dirs)
        THEN IF dir \in dirs THEN dir ELSE Place(current)
        ELSE Parent(f)
  BY SameWalk DEF Contract!Home
<1>3. HomeOf(f, name) =
        IF name.abs /\ (OfDirectory(name) \/ dir \notin dirs)
        THEN IF dir \in dirs THEN dir ELSE cwd
        ELSE Parent(f)
  BY DEF HomeOf, Chdir
<1> HIDE DEF dir
<1> QED
  BY <1>1, <1>2, <1>3 DEF Place

LEMMA PlaceIsPromised ==
  ASSUME IInv, Running({"require", "try"}), NEW current \in CurrentPath
  PROVE  Place(current) \in Contract!Places
  BY ProcessIsInPlace DEF Place, Running

-----------------------------------------------------------------------------
(* Each step of the loader is one of the contract's.                       *)

LEMMA SameTree ==
  /\ Contract!tree = tree /\ Contract!tree' = tree'
  BY DEF Contract!tree, tree

\* throw, later and exit.
LEMMA OwnStep ==
  ASSUME IInv, Throw \/ Later \/ Exit
  PROVE  Contract!Throw \/ Contract!Later \/ Contract!Exit
<1>1. TypeOK
  BY DEF IInv
<1>2. CASE Throw
  <2>1. Running({"throw"}) /\ stack' = Abort /\ UNCHANGED <<state, tree, callbacks>>
    BY <1>2 DEF Throw
  <2>2. Contract!Running({"throw"}) /\ Seen' = Contract!Abort
    BY <1>1, <2>1, SameStatement, SeenIsViews
  <2> QED
    BY <2>1, <2>2, SameTree DEF Contract!Throw
<1>3. CASE Later
  <2>1. /\ Running({"later"}) /\ stack' = Advance /\ UNCHANGED <<state, tree>>
        /\ callbacks' = callbacks \cup {[file |-> Top.file, req |-> Now.req]}
    BY <1>3 DEF Later
  <2>2. Contract!Running({"later"}) /\ Seen' = Contract!Advance
    BY <1>1, <2>1, SameStatement, SeenIsViews
  <2>3. Contract!Script.file = Top.file /\ Contract!Now = Now
    BY <1>1, <2>1, RunningFacts, ScriptIsTop
  <2> QED
    BY <2>1, <2>2, <2>3, SameTree DEF Contract!Later
<1>4. CASE Exit
  <2>1. Running({"exit"}) /\ state' = "ended" /\ UNCHANGED <<tree, stack, callbacks>>
    BY <1>4 DEF Exit
  <2>2. Contract!Running({"exit"}) /\ Seen' = Seen
    BY <1>1, <2>1, SameStatement, SeenIsViews
  <2> QED
    BY <2>1, <2>2, SameTree DEF Contract!Exit
<1> QED
  BY <1>2, <1>3, <1>4

\* A require that finds nothing, a file or a broken one is the contract's, with the
\* place the process is in and the file it finds.
LEMMA RequireStep ==
  ASSUME IInv, NotFound \/ LoadJs \/ LoadDso \/ ReadFails \/ LoadFails
  PROVE  Contract!Require
<1>1. /\ TypeOK /\ Running({"require", "try"}) /\ UNCHANGED <<tree, callbacks>>
      /\ stack # <<>>
  BY RunningFacts DEF IInv, NotFound, LoadJs, LoadDso, ReadFails, LoadFails
<1>2. /\ Contract!Running({"require", "try"}) /\ Contract!Now = Now
      /\ Contract!Advance = Views(Advance) /\ Contract!Abort = Views(Abort)
      /\ Advance \in Seq(Frame) /\ Contract!Broken = Broken
      /\ UNCHANGED Contract!tree
  BY <1>1, SameStatement, ScriptIsTop, SameWalk, SameTree
<1>3. ASSUME NEW current \in CurrentPath,
             \/ Contract!RequireFails(Found(current))
             \/ Contract!RequireRuns(Place(current), Found(current))
             \/ Contract!RequireEnds(Found(current))
      PROVE  Contract!Require
  BY <1>1, <1>2, <1>3, PlaceIsPromised, FoundIsPromised DEF Contract!Require
<1>4. CASE NotFound
  <2>1. PICK current \in CurrentPath : Found(current) = <<>>
    BY <1>4 DEF NotFound
  <2>2. Seen' = IF Now.op = "try" THEN Contract!Advance ELSE Contract!Abort
    BY <1>2, <1>4, SeenIsViews DEF NotFound
  <2>3. UNCHANGED state
    BY <1>4 DEF NotFound
  <2> QED
    BY <1>2, <1>3, <2>1, <2>2, <2>3 DEF Contract!RequireFails
<1>5. CASE LoadJs
  <2>1. PICK current \in CurrentPath :
          /\ Found(current) # <<>> /\ program[Found(current)] # Broken
          /\ Last(Found(current))[2] = "js"
          /\ stack' = Append(Advance,
               [kind |-> "module", file |-> Found(current), todo |-> program[Found(current)],
                back |-> current, home |-> HomeOf(Found(current), Now.req)])
    BY <1>5 DEF LoadJs
  <2> DEFINE f == Found(current)
             home == HomeOf(f, Now.req)
             frame == [kind |-> "module", file |-> f, todo |-> program[f],
                       back |-> current, home |-> home]
  <2>2. frame \in Frame /\ View(frame) = [file |-> f, todo |-> program[f], home |-> home]
    <3>1. f \in Files /\ f \in Path /\ Parent(f) \in dirs /\ current \in dirs \cup {Nowhere}
      BY <1>1, <2>1, FoundFacts
    <3>2. program[f] \in Seq(Statement)
      BY <1>1, <2>1, <3>1 DEF TypeOK
    <3>3. home \in dirs \cup {Nowhere}
      <4>1. cwd \in dirs \cup {Nowhere}
        BY <1>1 DEF TypeOK
      <4> QED
        BY <3>1, <4>1, ChdirType DEF HomeOf
    <3>4. dirs \cup {Nowhere} \subseteq Path \cup {Nowhere}
      BY <1>1 DEF TypeOK, Tree
    <3> HIDE DEF f, home
    <3> QED
      BY <3>1, <3>2, <3>3, <3>4 DEF Frame, View
  <2>3. Seen' = Append(Contract!Advance, View(frame))
    <3> HIDE DEF frame
    <3>1. stack' = Append(Advance, frame)
      BY <2>1 DEF frame
    <3> QED
      BY <1>2, <2>2, <3>1, SeenIsViews, ViewsAppend
  <2>4. Contract!Home(Place(current), f, Contract!Now.req) = home
    BY <1>1, HomeIsPromised
  <2>5. Contract!RequireRuns(Place(current), f)
    <3>1. UNCHANGED state /\ f # <<>> /\ program[f] # Contract!Broken
          /\ Contract!Last(f)[2] = "js"
      BY <1>2, <1>5, <2>1, SameWalk DEF LoadJs
    <3>2. Seen' = Append(Contract!Advance,
                    [file |-> f, todo |-> program[f],
                     home |-> Contract!Home(Place(current), f, Contract!Now.req)])
      BY <2>2, <2>3, <2>4
    <3> QED
      BY <3>1, <3>2 DEF Contract!RequireRuns
  <2> QED
    BY <1>3, <2>5
<1>6. CASE LoadDso
  <2>1. PICK current \in CurrentPath :
          /\ Found(current) # <<>> /\ program[Found(current)] # Broken
          /\ Last(Found(current))[2] = "fm"
    BY <1>6 DEF LoadDso
  <2>2. Seen' = Contract!Advance /\ UNCHANGED state
    BY <1>2, <1>6, SeenIsViews DEF LoadDso
  <2>3. Contract!RequireRuns(Place(current), Found(current))
    BY <1>2, <2>1, <2>2, SameWalk DEF Contract!RequireRuns
  <2> QED
    BY <1>3, <2>3
<1>7. CASE LoadFails
  <2>1. PICK current \in CurrentPath :
          Found(current) # <<>> /\ program[Found(current)] = Broken
    BY <1>7 DEF LoadFails
  <2>2. state' = "ended" /\ Seen' = Seen
    BY <1>7, SeenIsViews DEF LoadFails
  <2> QED
    BY <1>2, <1>3, <2>1, <2>2 DEF Contract!RequireEnds
<1>8. CASE ReadFails
  <2>1. PICK current \in CurrentPath :
          Found(current) # <<>> /\ Last(Found(current))[2] = "js"
    BY <1>8 DEF ReadFails
  <2>2. state' = "ended" /\ Seen' = Seen /\ Contract!Last(Found(current))[2] = "js"
    BY <1>8, <2>1, SeenIsViews, SameWalk DEF ReadFails
  <2> QED
    BY <1>3, <2>1, <2>2 DEF Contract!RequireEnds
<1> QED
  BY <1>4, <1>5, <1>6, <1>7, <1>8

\* A script goes on behind a module that ended, wherever the process then is.
LEMMA ReturnStep ==
  ASSUME IInv, Return
  PROVE  Contract!Return
<1>1. /\ TypeOK /\ state = "run" /\ stack # <<>> /\ Top.todo = <<>> /\ stack' = Parent(stack)
      /\ state' = (IF stack' = <<>> THEN "loop" ELSE "run")
      /\ UNCHANGED <<tree, callbacks>>
  BY DEF IInv, TypeOK, Return
<1>2. /\ Contract!Script.todo = <<>> /\ Parent(stack) \in Seq(Frame)
      /\ Seen' = Contract!Parent(Seen)
  BY <1>1, ScriptIsTop, SeenIsViews
<1>3. Seen' = <<>> <=> stack' = <<>>
  BY <1>1, <1>2, SeenIsViews, ViewsFacts
<1> QED
  BY <1>1, <1>2, <1>3, SameTree DEF Contract!Return

LEMMA CallbackStep ==
  ASSUME IInv, Callback
  PROVE  Contract!Callback
<1>1. /\ TypeOK /\ state = "loop" /\ state' = "run" /\ UNCHANGED tree
  BY DEF IInv, Callback
<1>2. PICK c \in callbacks :
        /\ callbacks' = callbacks \ {c}
        /\ stack' = <<[kind |-> "callback", file |-> c.file,
                       todo |-> <<[op |-> "require", req |-> c.req]>>,
                       back |-> Start, home |-> Start]>>
  BY DEF Callback
<1> DEFINE todo == <<[op |-> "require", req |-> c.req]>>
           frame == [kind |-> "callback", file |-> c.file, todo |-> todo,
                     back |-> Start, home |-> Start]
<1>3. View(frame) = [file |-> c.file, todo |-> todo, home |-> Start]
  <2> HIDE DEF todo
  <2> QED
    BY DEF View
<1>4. Seen' = <<View(frame)>>
  <2> HIDE DEF frame
  <2>1. stack' = <<frame>>
    BY <1>2 DEF frame
  <2>2. DOMAIN stack' = 1..1 /\ stack'[1] = frame
    BY <2>1
  <2>3. Views(stack') = [i \in 1..1 |-> View(frame)]
    BY <2>2 DEF Views
  <2>4. [i \in 1..1 |-> View(frame)] = <<View(frame)>>
    OBVIOUS
  <2> QED
    BY <2>3, <2>4, SeenIsViews
<1> QED
  BY <1>1, <1>2, <1>3, <1>4, SameTree DEF Contract!Callback

LEMMA RefusedStep ==
  ASSUME IInv, NEW op \in {"mkdir", "rmdir", "mv"}, Refused(op)
  PROVE  Contract!Refuse
<1>1. /\ TypeOK /\ Running({op}) /\ stack' \in {Advance, Abort}
      /\ UNCHANGED <<state, tree, callbacks>>
  BY DEF IInv, Refused
<1>2. Running({"mkdir", "rmdir", "mv"})
  BY <1>1 DEF Running
<1>3. Contract!Running({"mkdir", "rmdir", "mv"}) /\ Seen' \in {Contract!Advance, Contract!Abort}
  BY <1>1, <1>2, SameStatement, SeenIsViews
<1> QED
  BY <1>1, <1>3, SameTree DEF Contract!Refuse

\* The kernel looks the names up where the process is, and that is where the contract
\* has the script.
LEMMA ChangeStep ==
  ASSUME IInv, Create \/ RemoveDir \/ Mv
  PROVE  Contract!Change \/ Contract!Refuse
<1>1. CASE Refused("mkdir") \/ Refused("rmdir") \/ Refused("mv")
  BY <1>1, RefusedStep
<1>2. ASSUME NEW op \in {"mkdir", "rmdir", "mv"}, Done(op)
      PROVE  /\ Contract!Running({op}) /\ Contract!Now = Now /\ cwd \in Contract!Places
             /\ Seen' = Contract!Advance /\ UNCHANGED <<state, callbacks>>
  <2>1. TypeOK /\ Running({op}) /\ stack' = Advance /\ UNCHANGED <<state, callbacks>>
    BY <1>2 DEF IInv, Done
  <2>2. state = "run" /\ stack # <<>>
    BY <2>1, RunningFacts
  <2> QED
    BY <2>1, <2>2, SameStatement, ScriptIsTop, SeenIsViews, ProcessIsInPlace
<1>3. CASE Create /\ ~Refused("mkdir")
  <2>1. Done("mkdir")
    BY <1>3 DEF Create
  <2>2. PICK p \in Named(cwd, Now.req) : Mkdir(p)
    BY <1>3 DEF Create
  <2>3. p \in Contract!Named(cwd, Now.req) /\ Contract!Mkdir(p)
    BY <2>2, SameNames, SameCalls
  <2> QED
    BY <1>2, <2>1, <2>3 DEF Contract!Change
<1>4. CASE RemoveDir /\ ~Refused("rmdir")
  <2>1. Done("rmdir")
    BY <1>4 DEF RemoveDir
  <2>2. PICK p \in Named(cwd, Now.req) : Rmdir(p)
    BY <1>4 DEF RemoveDir
  <2>3. p \in Contract!Named(cwd, Now.req) /\ Contract!Rmdir(p)
    BY <2>2, SameNames, SameCalls
  <2> QED
    BY <1>2, <2>1, <2>3 DEF Contract!Change
<1>5. CASE Mv /\ ~Refused("mv")
  <2>1. Done("mv")
    BY <1>5 DEF Mv
  <2>2. PICK p \in Named(cwd, Now.req), q \in Named(cwd, Now.to) : Rename(p, q)
    BY <1>5 DEF Mv
  <2>3. /\ p \in Contract!Named(cwd, Now.req) /\ q \in Contract!Named(cwd, Now.to)
        /\ Contract!Rename(p, q)
    BY <2>2, SameNames, SameCalls
  <2> QED
    BY <1>2, <2>1, <2>3 DEF Contract!Change
<1> QED
  BY <1>1, <1>3, <1>4, <1>5

LEMMA StepIsPromised ==
  ASSUME IInv, [Next]_vars
  PROVE  [Contract!Next]_Contract!contractVars
<1>1. CASE UNCHANGED vars
  <2>1. UNCHANGED <<state, tree, stack, callbacks>>
    BY <1>1 DEF vars
  <2>2. Seen' = Seen
    BY <2>1, SeenIsViews
  <2> QED
    BY <2>1, <2>2, SameTree DEF Contract!contractVars
<1>2. CASE Throw \/ Later \/ Exit
  BY <1>2, OwnStep DEF Contract!Next
<1>3. CASE NotFound \/ LoadJs \/ LoadDso \/ ReadFails \/ LoadFails
  BY <1>3, RequireStep DEF Contract!Next
<1>4. CASE Return \/ Callback
  BY <1>4, ReturnStep, CallbackStep DEF Contract!Next
<1>5. CASE Create \/ RemoveDir \/ Mv
  BY <1>5, ChangeStep DEF Contract!Next
<1> QED
  BY <1>1, <1>2, <1>3, <1>4, <1>5 DEF Next

LEMMA InitIsPromised ==
  ASSUME Init
  PROVE  Contract!Init
<1> DEFINE frame == [kind |-> "main", file |-> Main, todo |-> program[Main],
                     back |-> Start, home |-> Start]
<1>1. /\ Start \in dirs /\ Main \in Files /\ lost = {Nowhere}
      /\ stack = <<frame>> /\ callbacks = {} /\ state = "run"
  BY DirsAssumption, FilesAssumption DEF Init, Files
<1>2. View(frame) = [file |-> Main, todo |-> program[Main], home |-> Start]
  BY DEF View
<1> HIDE DEF frame
<1>3. Seen = <<View(frame)>>
  <2>1. DOMAIN stack = 1..1 /\ stack[1] = frame
    BY <1>1
  <2>2. Views(stack) = [i \in 1..1 |-> View(frame)]
    BY <2>1 DEF Views
  <2>3. [i \in 1..1 |-> View(frame)] = <<View(frame)>>
    OBVIOUS
  <2> QED
    BY <2>2, <2>3, SeenIsViews
<1> QED
  BY <1>1, <1>2, <1>3, SameWalk DEF Contract!Init

\* Scripts that require each other, or a working directory that chdir() did not
\* change, cannot be told from scripts that each are in a directory of their own:
\* every step of the loader is one of the contract's, whatever the scripts do to the
\* tree meanwhile.
THEOREM Refinement == Spec => ImplementsLoaderContract
<1>1. Init => Contract!Init
  BY InitIsPromised
<1>2. IInv /\ [Next]_vars => [Contract!Next]_Contract!contractVars
  BY StepIsPromised
<1> QED
  BY <1>1, <1>2, Invariance, PTL DEF Spec, ImplementsLoaderContract, Contract!Spec
=============================================================================
