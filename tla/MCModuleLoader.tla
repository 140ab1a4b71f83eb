--------------------------- MODULE MCModuleLoader ---------------------------
(* A small tree for ModuleLoader:                                          *)
(*    /.js  /d.js  /d/m.js  /d/a.js  /d/s.js  /d/n.js                     *)
(*    /d/s/b.js  /d/s/c.fm  /d/s/c.js  /d/s/k.fm  /d/e/x.js                *)
(* There are directories /d and /d/s beside /d.js and /d/s.js, and none    *)
(* beside /d/n.js until a script makes one or moves one there.             *)
EXTENDS ModuleLoader

C(name) == <<name, "">>
Js(name) == <<name, "js">>
Fm(name) == <<name, "fm">>

D == <<C("d")>>
S == <<C("d"), C("s")>>

E == <<C("d"), C("e")>>
Deleted == C("(deleted)")

TheComponents ==
  {"d", "m", "a", "s", "n", "b", "c", "k", "e", "x", "y"} \X {"", "js", "fm", "txt"}
    \cup {<<"", "js">>, <<"", "fm">>}

TheDirs == {<<>>, D, S, E}
TheMain == D \o <<Js("m")>>

A == D \o <<Js("a")>>
B == S \o <<Js("b")>>
X == E \o <<Js("x")>>
Library == S \o <<Fm("k")>>
Leaves == {<<Js("")>>, <<Js("d")>>, D \o <<Js("s")>>, D \o <<Js("n")>>, S \o <<Fm("c")>>, S \o <<Js("c")>>}

Rel(path) == [abs |-> FALSE, path |-> path]
Abs(path) == [abs |-> TRUE, path |-> path]
Do(op, req) == [op |-> op, req |-> req]
Move(from, to) == [op |-> "mv", req |-> from, to |-> to]

Requests ==
  {Rel(<<C("a")>>), Rel(<<C("s")>>), Rel(<<C("s"), C("b")>>), Rel(<<Up, C("a")>>),
   Rel(<<C("n"), C("b")>>), Rel(<<C("c")>>), Rel(<<Up, C("s"), Js("c")>>),
   Rel(<<<<"a", "txt">>>>), Rel(<<C("e"), C("x")>>), Abs(S \o <<C("b")>>),
   Abs(<<C("d"), C("n"), C("b")>>), Abs(S \o <<Up>>), Rel(<<Up>>), Abs(S \o <<Here>>)}

Statements ==
  {Do("require", r) : r \in Requests}
    \cup {Do(op, Rel(<<C("a")>>)) : op \in {"try", "later", "throw", "exit"}}
    \cup {Do("require", Rel(<<C("s"), C("k")>>)), Do("mkdir", Rel(<<C("n")>>)),
          Move(Rel(<<Up, C("s")>>), Rel(<<Up, C("n")>>)),
          Move(Rel(<<C("s")>>), Rel(<<C("n")>>)), Move(Abs(D), Abs(<<C("n")>>)),
          Do("rmdir", Abs(E)), Move(Abs(B), Abs(A))}

Short == {<<>>} \cup {<<t>> : t \in Statements}

\* A module that moves itself away and removes its directory.
Homeless ==
  <<Move(Abs(X), Abs(D \o <<Js("y")>>)), Do("rmdir", Abs(E)),
    Do("try", Rel(<<C("a")>>)), Do("mkdir", Abs(E))>>

ThePrograms ==
  {[f \in {TheMain, A, B, X, Library} \cup Leaves |->
      CASE f = TheMain -> <<t, Do("require", Rel(<<C("s"), C("b")>>))>>
        [] f = A -> a [] f = B -> b \o a [] f = X -> Homeless
        [] f = Library -> Broken [] OTHER -> <<>>] :
      t \in Statements, a \in Short, b \in Short}
=============================================================================
