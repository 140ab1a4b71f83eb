----------------------------- MODULE Environment -----------------------------
(***************************************************************************)
(* The object Env of src/Env/env.cpp: assigning to a member calls putenv,  *)
(* reading one calls getenv.  putenv does not copy its argument: environ    *)
(* then points into the string `build' of the setter, whose memory is freed *)
(* when the setter returns and is used again by any later string.           *)
(*                                                                          *)
(* The heap is a few blocks, all of them free between two calls.  A block   *)
(* holds an entry name=value as long as nothing else was written there.     *)
(***************************************************************************)
EXTENDS Integers, Sequences

CONSTANTS
  Names, Values,
  Blocks,  \* blocks of the heap
  Junk,    \* text that is no entry
  None

Entry == [name : Names, value : Values]

VARIABLES
  environ,   \* the entries that putenv added, in order: a sequence of blocks
  text,      \* what a block holds: an entry or Junk
  read,      \* what the last read of a member gave: [name, value], or None
  crashed,   \* String::New was given NULL
  assigned   \* history: the value each member was assigned last, or None

vars == <<environ, text, read, crashed, assigned>>

Init ==
  /\ environ = <<>>
  /\ text = [b \in Blocks |-> Junk]
  /\ read = None /\ crashed = FALSE
  /\ assigned = [n \in Names |-> None]

\* The other strings of a call, here or in the script, are written to blocks
\* that nobody else holds.
Scribbled(blocks) == [b \in Blocks |-> IF b \in blocks THEN Junk ELSE text[b]]

Holds(memory, b, n) == memory[b] \in Entry /\ memory[b].name = n

\* the positions of environ where a name is found
Positions(memory, n) == {i \in DOMAIN environ : Holds(memory, environ[i], n)}
First(S) == CHOOSE i \in S : \A j \in S : i <= j

\* putenv: the entry of that name is replaced, or there is a new one
Put(memory, b) ==
  LET found == Positions(memory, memory[b].name)
  IN  environ' = IF found = {} THEN Append(environ, b)
                 ELSE [environ EXCEPT ![First(found)] = b]

\* EnvSetter and Env::Set: `build' is block b, which is given back on return,
\* and the allocator may write to it then
Set(n, v) ==
  /\ ~crashed
  /\ \E b \in Blocks : \E others \in SUBSET (Blocks \ {b}) :
       LET memory == [Scribbled(others) EXCEPT ![b] = [name |-> n, value |-> v]]
       IN  /\ Put(memory, b)
           /\ text' \in {memory, [memory EXCEPT ![b] = Junk]}
  /\ assigned' = [assigned EXCEPT ![n] = v]
  /\ read' = None /\ UNCHANGED crashed

\* EnvGetter: the name is copied to a string of its own before getenv looks
Get(n) ==
  /\ ~crashed
  /\ \E others \in SUBSET Blocks :
       LET memory == Scribbled(others)
           found == Positions(memory, n)
       IN  /\ text' = memory
           /\ read' = [name |-> n, value |-> IF found = {} THEN None
                                             ELSE memory[environ[First(found)]].value]
           /\ crashed' = (found = {})
  /\ UNCHANGED <<environ, assigned>>

Next == \E n \in Names : Get(n) \/ \E v \in Values : Set(n, v)

Spec == Init /\ [][Next]_vars

\* test/env.js:3-4 assigns `Env.TEST = "this is a test"' and prints `Env.TEST':
\* a member reads as what it was assigned last (env.cpp:60-75, :47-53).
AssignedIsRead ==
  read # None /\ assigned[read.name] # None => read.value = assigned[read.name]
=============================================================================
