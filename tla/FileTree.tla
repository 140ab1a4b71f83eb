------------------------------ MODULE FileTree ------------------------------
(***************************************************************************)
(* The files and directories that require() and the scripts see, as the    *)
(* kernel and realpath() have them.                                        *)
(*                                                                         *)
(* A path is a sequence of components from the root; a component is a pair *)
(* of what stands before its first dot and what stands after, which is not *)
(* empty when there is a dot.                                              *)
(***************************************************************************)
EXTENDS Integers, Sequences, SequencesExt

CONSTANTS
  Components,  \* what a path is made of, Up and Here apart
  Gone         \* what stands for the path of a directory that was removed

VARIABLES
  dirs,     \* the directories
  program,  \* what the files hold
  lost      \* history: paths at which a directory was moved away or removed

Up == <<"..", "">>
Here == <<"", "">>   \* nothing, as behind the slash at the end of a name

Path == Seq(Components)
Nowhere == <<Gone>>

\* a path without its last component; a stack without its top
Parent(p) == SubSeq(p, 1, Len(p) - 1)

\* A name that a script gives.
Names == [abs : BOOLEAN, path : Seq(Components \cup {Up, Here}) \ {<<>>}]

\* Its last component tells no file: it is the name of a directory.
OfDirectory(name) == Last(name.path) \in {Up, Here}

ASSUME NamesAssumption ==
  /\ {Up, Here} \cap (Components \cup {Gone}) = {} /\ Gone \notin Components
  /\ \A c \in Components : \A ext \in {"fm", "js"} : <<c[1], ext>> \in Components

\* Every file and directory is in a directory, but for the root.
Tree(directories, files) ==
  /\ directories \subseteq Path /\ files \subseteq Path
  /\ <<>> \in directories
  /\ directories \cap files = {}
  /\ \A p \in directories \cup files : \A n \in 0..(Len(p) - 1) :
       SubSeq(p, 1, n) \in directories

tree == <<dirs, program, lost>>
Files == DOMAIN program

\* a .js file that does not compile, a .fm file that is no library or has no CoreInit
Broken == <<[op |-> "broken"]>>

-----------------------------------------------------------------------------
(* Names.                                                                  *)

Entered(at, c) ==
  IF at \notin dirs \/ c = Here THEN at ELSE IF c = Up THEN Parent(at) ELSE Append(at, c)

\* From the root along a path, until a component is not a directory.
Walk(p) ==
  LET walk[i \in 0..Len(p)] == IF i = 0 THEN <<>> ELSE Entered(walk[i - 1], p[i])
  IN  walk[Len(p)]

\* Where a process that is `at' looks names up.
From(at, name) == IF name.abs THEN <<>> ELSE at

\* Where the kernel finds a name to make, remove or move; nowhere if its directory
\* does not exist.  Names with a slash at their end are left to Refused.
Named(at, name) ==
  LET directory == Walk(From(at, name) \o Parent(name.path))
  IN  IF directory \in dirs /\ ~OfDirectory(name)
      THEN {Append(directory, Last(name.path))} ELSE {}

\* What a name means to a script that is `at', as CommonJS has it (module.h:28): the
\* file of that name, or of that name with an extension.
CommonJS(at, name) ==
  LET dir == Walk(at \o Parent(name.path))
      With(ext) == Append(dir, <<Last(name.path)[1], ext>>)
  IN  IF dir \notin dirs THEN {}
      ELSE IF Last(name.path)[2] # ""
           THEN {f \in {Append(dir, Last(name.path))} \cap Files :
                   Last(f)[2] \in {"fm", "js"}}
      ELSE IF With("fm") \in Files THEN {With("fm")} ELSE {With("js")} \cap Files

-----------------------------------------------------------------------------
(* mkdir(2), rmdir(2) and rename(2), where they succeed.                   *)

Within(p) == {x \in dirs \cup Files : x # p /\ IsPrefix(p, x)}

Mkdir(p) ==
  /\ p \notin dirs \cup Files /\ dirs' = dirs \cup {p}
  /\ UNCHANGED <<program, lost>>

Rmdir(p) ==
  /\ p \in dirs /\ Within(p) = {}
  /\ dirs' = dirs \ {p} /\ lost' = lost \cup {p}
  /\ UNCHANGED program

\* The path x with its beginning p changed to q.
Replaced(x, p, q) == IF IsPrefix(p, x) THEN q \o SubSeq(x, Len(p) + 1, Len(x)) ELSE x

\* A file may take the place of a file, a directory that of an empty directory.
CanTake(p, q) ==
  \/ p \in Files /\ q \notin dirs \cup {p}
  \/ p \in dirs /\ q \notin Files /\ ~IsPrefix(p, q) /\ Within(q) = {}

Rename(p, q) ==
  /\ CanTake(p, q)
  /\ dirs' = {Replaced(x, p, q) : x \in dirs \ {q}}
  /\ program' = [f \in {Replaced(x, p, q) : x \in Files \ {q}} |->
                   program[Replaced(f, q, p)]]
  /\ lost' = lost \cup {x \in dirs : x = q \/ IsPrefix(p, x)}
=============================================================================
