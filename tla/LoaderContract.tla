--------------------------- MODULE LoaderContract ---------------------------
(***************************************************************************)
(* What a script may rely on of require() and of the names it gives: each  *)
(* script is in a directory of its own, its home, from its first statement *)
(* to its last.  A module is at home where its file is; the main script    *)
(* and callbacks are where the program was started.                        *)
(*                                                                         *)
(* There is no working directory of the process here, no chdir, no getcwd  *)
(* and nothing to go back to.  A script whose home was moved away or       *)
(* removed may be anywhere.                                                *)
(***************************************************************************)
EXTENDS FileTree

CONSTANTS
  Start,  \* the directory the program was started in
  Main    \* the file it was started with

VARIABLES
  state,     \* "run", "loop" or "ended"
  frames,    \* the scripts that wait for each other's require, [file, todo, home]
  callbacks  \* callbacks that wait for their event, [file, req]

contractVars == <<state, tree, frames, callbacks>>

Init ==
  /\ Start \in dirs /\ Main \in Files /\ lost = {Nowhere}
  /\ frames = <<[file |-> Main, todo |-> program[Main], home |-> Start]>>
  /\ callbacks = {}
  /\ state = "run"

Script == Last(frames)
Now == Head(Script.todo)

Running(ops) == state = "run" /\ Script.todo # <<>> /\ Now.op \in ops

\* The script goes on with `todo', with its next statement, or ends.
GoesOn(todo) == Append(Parent(frames), [Script EXCEPT !.todo = todo])
Advance == GoesOn(Tail(Script.todo))
Abort == GoesOn(<<>>)

\* Where the script is.
Places == IF Script.home \notin lost THEN {Script.home} ELSE dirs \cup {Nowhere}

Throw ==
  /\ Running({"throw"})
  /\ frames' = Abort
  /\ UNCHANGED <<state, tree, callbacks>>

Later ==
  /\ Running({"later"})
  /\ callbacks' = callbacks \cup {[file |-> Script.file, req |-> Now.req]}
  /\ frames' = Advance
  /\ UNCHANGED <<state, tree>>

Exit ==
  /\ Running({"exit"})
  /\ state' = "ended"
  /\ UNCHANGED <<tree, frames, callbacks>>

\* What a name finds, <<>> for nothing.  If its directory does not exist, or it
\* is that of a directory, nothing is promised.
Finds(at, name) ==
  IF ~OfDirectory(name) /\ Walk(From(at, name) \o Parent(name.path)) \in dirs
  THEN LET found == CommonJS(From(at, name), name)
       IN  IF found = {} THEN {<<>>} ELSE found
  ELSE Files \cup {<<>>}

\* Only by an absolute name may a module come to another home than its file's
\* directory: one that names a directory, or has a directory that does not exist.
Home(at, f, name) ==
  LET dir == Walk(Parent(name.path))
  IN  IF name.abs /\ (OfDirectory(name) \/ dir \notin dirs)
      THEN IF dir \in dirs THEN dir ELSE at
      ELSE Parent(f)

RequireFails(f) ==
  /\ f = <<>>
  /\ frames' = IF Now.op = "try" THEN Advance ELSE Abort
  /\ UNCHANGED state

RequireRuns(at, f) ==
  /\ f # <<>> /\ program[f] # Broken
  /\ \/ /\ Last(f)[2] = "js"
        /\ frames' = Append(Advance,
             [file |-> f, todo |-> program[f], home |-> Home(at, f, Now.req)])
     \/ Last(f)[2] = "fm" /\ frames' = Advance
  /\ UNCHANGED state

\* A file that is broken ends the program, and so does a script that cannot be read.
RequireEnds(f) ==
  /\ f # <<>> /\ (program[f] = Broken \/ Last(f)[2] = "js")
  /\ state' = "ended"
  /\ UNCHANGED frames

Require ==
  /\ Running({"require", "try"})
  /\ \E at \in Places : \E f \in Finds(at, Now.req) :
       RequireFails(f) \/ RequireRuns(at, f) \/ RequireEnds(f)
  /\ UNCHANGED <<tree, callbacks>>

\* What required a script goes on behind it, whether it threw or not.
Return ==
  /\ state = "run" /\ Script.todo = <<>>
  /\ frames' = Parent(frames)
  /\ state' = IF frames' = <<>> THEN "loop" ELSE "run"
  /\ UNCHANGED <<tree, callbacks>>

Callback ==
  /\ state = "loop"
  /\ \E c \in callbacks :
       /\ callbacks' = callbacks \ {c}
       /\ frames' = <<[file |-> c.file, todo |-> <<[op |-> "require", req |-> c.req]>>,
                       home |-> Start]>>
  /\ state' = "run"
  /\ UNCHANGED tree

\* Directory.create, Directory.remove and System.mv take names from the home too.
Change ==
  /\ \E at \in Places :
       \/ Running({"mkdir"}) /\ \E p \in Named(at, Now.req) : Mkdir(p)
       \/ Running({"rmdir"}) /\ \E p \in Named(at, Now.req) : Rmdir(p)
       \/ Running({"mv"}) /\ \E p \in Named(at, Now.req) : \E q \in Named(at, Now.to) :
                               Rename(p, q)
  /\ frames' = Advance
  /\ UNCHANGED <<state, callbacks>>

Refuse ==
  /\ Running({"mkdir", "rmdir", "mv"})
  /\ frames' \in {Advance, Abort}
  /\ UNCHANGED <<state, tree, callbacks>>

Next ==
  \/ Throw \/ Later \/ Exit \/ Require \/ Return \/ Callback \/ Change \/ Refuse

Spec == Init /\ [][Next]_contractVars
=============================================================================
