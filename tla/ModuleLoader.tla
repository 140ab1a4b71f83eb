---------------------------- MODULE ModuleLoader ----------------------------
(***************************************************************************)
(* require(): src/Module/module.cpp with the part of src/Path/path.cpp it  *)
(* uses.  A relative name is resolved against the working directory of the *)
(* process; so resolveModule changes to the directory of the module while  *)
(* the module runs, and back.  Nothing is kept: a module that is required  *)
(* again runs again.                                                       *)
(*                                                                         *)
(* The scripts also change the tree under the loader: mv and Exit of       *)
(* src/System/system.cpp, create and remove of src/Directory/directory.cpp. *)
(* The process stays in a directory that is moved; resolveModule keeps the *)
(* text of its path.                                                       *)
(***************************************************************************)
EXTENDS FileTree

CONSTANTS
  Dirs,      \* the directories at the start
  Start,     \* the one the program was started in
  Main,      \* the file it was started with
  Programs,  \* what the files may hold: functions from paths to sequences of
             \* statements, or Broken
  MaxDepth   \* bound: modules that wait for each other's require

\* A statement is one of these:
\*   "require"  an error ends the script
\*   "try"      the script catches it
\*   "later"    a callback that requires, called by the event loop
\*   "mkdir", "rmdir", "throw", "exit"
\*   "mv"       from `req' to `to'
Ops == {"require", "try", "later", "mkdir", "rmdir", "throw", "exit"}
Statement == [op : Ops, req : Names] \cup [op : {"mv"}, req : Names, to : Names]

ASSUME DirsAssumption == Start \in Dirs
ASSUME FilesAssumption ==
  \A p \in Programs :
    /\ Tree(Dirs, DOMAIN p)
    /\ \A f \in DOMAIN p : p[f] \in Seq(Statement) \cup {Broken}
    /\ Main \in DOMAIN p /\ p[Main] # Broken
ASSUME DepthAssumption == MaxDepth \in Nat \ {0}

VARIABLES
  state,      \* "run" (a script or a callback), "loop" (event_base_dispatch)
              \* or "ended"
  cwd,        \* the working directory, or Nowhere
  stack,      \* the activations of resolveModule, above the main script or a
              \* callback
  callbacks   \* callbacks that wait for their event, [file, req]

vars == <<state, tree, cwd, stack, callbacks>>

Top == Last(stack)

\* todo: the statements left; back: `originalPath' of resolveModule; home: history,
\* where the script is to run
Frame ==
  [kind : {"main", "callback", "module"}, file : Path, todo : Seq(Statement),
   back : Path \cup {Nowhere}, home : Path \cup {Nowhere}]

TypeOK ==
  /\ state \in {"run", "loop", "ended"}
  /\ Tree(dirs, Files)
  /\ \A f \in Files : program[f] \in Seq(Statement) \cup {Broken}
  /\ cwd \in dirs \cup {Nowhere}
  /\ stack \in Seq(Frame) /\ Len(stack) <= MaxDepth
  /\ callbacks \subseteq [file : Path, req : Names]
  /\ lost \subseteq Path \cup {Nowhere}
  /\ state = "run" <=> stack # <<>> /\ state # "ended"

Init ==
  /\ dirs = Dirs /\ program \in Programs /\ lost = {Nowhere}
  /\ cwd = Start
  /\ stack = <<[kind |-> "main", file |-> Main, todo |-> program[Main],
               back |-> Start, home |-> Start]>>
  /\ callbacks = {}
  /\ state = "run"

-----------------------------------------------------------------------------
(* Path.                                                                   *)

\* realpath(): its result, or, when it fails, what it leaves in the buffer, the
\* path up to the component it did not find.  The code does not ask which.
Normalize(p) == Walk(p)

BadExts == <<"js", "fm">>

\* lines 91-92
Exts == <<"fm", "js">>

\* FileExtension: the file it finds, or <<>>.  In the root it looks for /.fm, /.js.
FileExtension(p) ==
  LET full == Normalize(p)
      last == IF full = <<>> THEN Here ELSE Last(full)
      With(ext) == Append(Parent(full), <<last[1], ext>>)
      found == {i \in DOMAIN Exts : With(Exts[i]) \in Files}
  IN  CASE last[2] # "" /\ last[2] \in Range(Exts) /\ full \in Files -> full
        [] last[2] = "" /\ found # {} ->
             With(Exts[CHOOSE i \in found : \A k \in found : i <= k])
        [] OTHER -> <<>>

BadChdir(at, p) == Walk(p)

\* chdir(), whose failure is not looked at: the process stays `at'
Chdir(at, p) == IF Walk(p) \in dirs THEN Walk(p) ELSE at

\* `currentPath' of line 69.  getcwd fails in a directory that was removed, which
\* nobody looks at either: the buffer then holds any text.
CurrentPath == IF cwd \in dirs THEN {cwd} ELSE dirs \cup {Nowhere}

\* `usingPath' of line 79
UsingPath(current, name) ==
  IF name.abs THEN name.path ELSE Normalize(current \o name.path)

-----------------------------------------------------------------------------
(* Scripts.                                                                *)

\* the statement in hand; Module::Require passes its argument on as it is
Now == Head(Top.todo)

Running(ops) == state = "run" /\ Top.todo # <<>> /\ Now.op \in ops

\* The script goes on with its next statement.
Advance == [stack EXCEPT ![Len(stack)].todo = Tail(@)]

\* The script ends: an exception it does not catch, reported by ExecuteString
\* (system.cpp:64) or dropped by the TryCatch of module.cpp:172.
Abort == [stack EXCEPT ![Len(stack)].todo = <<>>]

Throw ==
  /\ Running({"throw"})
  /\ stack' = Abort
  /\ UNCHANGED <<state, tree, cwd, callbacks>>

Later ==
  /\ Running({"later"})
  /\ callbacks' = callbacks \cup {[file |-> Top.file, req |-> Now.req]}
  /\ stack' = Advance
  /\ UNCHANGED <<state, tree, cwd>>

\* System.Exit
Exit ==
  /\ Running({"exit"})
  /\ state' = "ended"
  /\ UNCHANGED <<tree, cwd, stack, callbacks>>

Found(current) == FileExtension(UsingPath(current, Now.req))

\* lines 84-91
NotFound ==
  /\ Running({"require", "try"})
  /\ \E current \in CurrentPath : Found(current) = <<>>
  /\ stack' = IF Now.op = "try" THEN Advance ELSE Abort
  /\ UNCHANGED <<state, tree, cwd, callbacks>>

\* Required as `name', file f is to run in its directory; one that was asked for by
\* an absolute name runs where chdir goes, which is another directory when the
\* name ends in ".." or in a slash, or its own directory does not exist.
HomeOf(f, name) ==
  IF name.abs /\ (OfDirectory(name) \/ Walk(Parent(name.path)) \notin dirs)
  THEN Chdir(cwd, Parent(name.path)) ELSE Parent(f)

\* lines 98-104: the module's script begins
LoadJs ==
  /\ Running({"require", "try"}) /\ Len(stack) < MaxDepth
  /\ \E current \in CurrentPath :
       /\ Found(current) # <<>> /\ program[Found(current)] # Broken
       /\ Last(Found(current))[2] = "js"
       /\ cwd' = Chdir(cwd, Parent(UsingPath(current, Now.req)))
       /\ stack' = Append(Advance,
            [kind |-> "module", file |-> Found(current), todo |-> program[Found(current)],
             back |-> current, home |-> HomeOf(Found(current), Now.req)])
  /\ UNCHANGED <<state, tree, callbacks>>

\* lines 98 and 105-109: a shared library; its CoreInit requires nothing
LoadDso ==
  /\ Running({"require", "try"})
  /\ \E current \in CurrentPath :
       /\ Found(current) # <<>> /\ program[Found(current)] # Broken
       /\ Last(Found(current))[2] = "fm"
       /\ cwd' = Chdir(Chdir(cwd, Parent(UsingPath(current, Now.req))), current)
  /\ stack' = Advance
  /\ UNCHANGED <<state, tree, callbacks>>

\* CReadFile (line 176) cannot open the file; the NULL it returns is made a
\* string at line 183, which ends the program
ReadFails ==
  /\ Running({"require", "try"})
  /\ \E current \in CurrentPath : Found(current) # <<>> /\ Last(Found(current))[2] = "js"
  /\ state' = "ended"
  /\ UNCHANGED <<tree, cwd, stack, callbacks>>

\* exit(0) of line 151; an empty script is run at line 190
LoadFails ==
  /\ Running({"require", "try"})
  /\ \E current \in CurrentPath : Found(current) # <<>> /\ program[Found(current)] = Broken
  /\ state' = "ended"
  /\ UNCHANGED <<tree, cwd, stack, callbacks>>

BadReturn ==
  /\ state = "run" /\ Top.todo = <<>>
  /\ stack' = Parent(stack)
  /\ state' = IF stack' = <<>> THEN "loop" ELSE "run"
  /\ UNCHANGED <<tree, cwd, callbacks>>

\* line 109: also when the module threw; the exception stops at the TryCatch of
\* line 172, and the script that required goes on
Return ==
  /\ state = "run" /\ Top.todo = <<>>
  /\ stack' = Parent(stack)
  /\ state' = IF stack' = <<>> THEN "loop" ELSE "run"
  /\ cwd' = IF Top.kind = "module" THEN Chdir(cwd, Top.back) ELSE cwd
  /\ UNCHANGED <<tree, callbacks>>

\* the event loop calls a callback
Callback ==
  /\ state = "loop"
  /\ \E c \in callbacks :
       /\ callbacks' = callbacks \ {c}
       /\ stack' = <<[kind |-> "callback", file |-> c.file,
                     todo |-> <<[op |-> "require", req |-> c.req]>>,
                     back |-> Start, home |-> Start]>>
  /\ state' = "run"
  /\ UNCHANGED <<tree, cwd>>

-----------------------------------------------------------------------------
(* System.mv, Directory.create and Directory.remove.                       *)

\* The call is refused, for any reason; the script catches that or it does not.
Refused(op) ==
  /\ Running({op})
  /\ stack' \in {Advance, Abort}
  /\ UNCHANGED <<state, tree, cwd, callbacks>>

Done(op) == Running({op}) /\ stack' = Advance /\ UNCHANGED <<state, callbacks>>

Create ==
  \/ /\ Done("mkdir") /\ UNCHANGED cwd
     /\ \E p \in Named(cwd, Now.req) : Mkdir(p)
  \/ Refused("mkdir")

RemoveDir ==
  \/ /\ Done("rmdir")
     /\ \E p \in Named(cwd, Now.req) :
          /\ Rmdir(p)
          /\ cwd' = IF cwd = p THEN Nowhere ELSE cwd
  \/ Refused("rmdir")

Mv ==
  \/ /\ Done("mv")
     /\ \E p \in Named(cwd, Now.req) : \E q \in Named(cwd, Now.to) :
          /\ Rename(p, q)
          /\ cwd' = IF cwd = q THEN Nowhere ELSE Replaced(cwd, p, q)
  \/ Refused("mv")

Next ==
  \/ Throw \/ Later \/ Exit \/ NotFound \/ LoadJs \/ LoadDso \/ ReadFails \/ LoadFails
  \/ Return \/ Callback \/ Create \/ RemoveDir \/ Mv

Spec == Init /\ [][Next]_vars

-----------------------------------------------------------------------------
(* Properties.                                                             *)

\* Each module runs in its own directory and everything else where the program
\* was started: module.cpp:98 and :109 keep in step through nested requires,
\* errors and exceptions, and line 109 has the right place to return to.  A
\* directory that is moved or removed takes this from the scripts that are at
\* home there, and from no other one.
CwdFollowsStack ==
  /\ LET home == IF stack = <<>> THEN Start ELSE Top.home
     IN  home \notin lost => cwd = home
  /\ \A i \in DOMAIN stack :
       i > 1 /\ stack[i - 1].home \notin lost => stack[i].back = stack[i - 1].home

\* A relative name whose directory exists finds the file CommonJS has for it, or none
\* if there is none.
FindsCommonJS(module, req) ==
  ~req.abs /\ ~OfDirectory(req) /\ Walk(Parent(module) \o Parent(req.path)) \in dirs =>
    \A current \in CurrentPath : {Found(current)} \ {<<>>} = CommonJS(Parent(module), req)

\* Each script acts as if it were in a directory of its own, whatever it requires
\* and whatever that does: the one working directory, which chdir may fail to
\* change, and the names that realpath() leaves half-done, do not show.
Seen ==
  [i \in DOMAIN stack |->
     [file |-> stack[i].file, todo |-> stack[i].todo, home |-> stack[i].home]]

Contract == INSTANCE LoaderContract WITH frames <- Seen

ImplementsLoaderContract == Contract!Spec

\* module.h:28 has `require' follow "the CommonJS spec for relative path": the
\* same of a callback that a module registered.
CallbackNamesResolve ==
  Running({"require", "try"}) /\ Top.kind = "callback" => FindsCommonJS(Top.file, Now.req)
=============================================================================
