----------------------------- MODULE FileObject -----------------------------
(***************************************************************************)
(* One File object of src/File/file.cpp, used by two threads: the main     *)
(* thread, in its JavaScript methods, and the worker of the pool that runs *)
(* readFileCb for onReadCb.  Both go through the same FILE, one stdio call *)
(* at a time: stdio locks the FILE for a call, and nothing locks it for    *)
(* more.  Only a callback runs with threadLock held, so only there are the *)
(* methods kept apart from the worker.  The functions readFile, writeFile  *)
(* and removeFile take the same path, through FILEs of their own.          *)
(*                                                                         *)
(* A file is a sequence of blocks, one for each write; it lives on when    *)
(* its name is removed.  A block is text or it begins with a NUL byte,     *)
(* which ends a C string.  What a FILE has buffered for output reaches the *)
(* file when it is positioned or closed.                                   *)
(* Of the pool there is JobContract, which ThreadPool implements for each  *)
(* object: jobs and callbacks exclude each other, and a callback follows a *)
(* job of the object.                                                      *)
(***************************************************************************)
EXTENDS Integers, Sequences, FiniteSets

CONSTANTS
  Modes,      \* modes the script uses: "r", "r+", "w" or "w+"
  MaxFiles,   \* bound: files that are created
  MaxWrites,  \* bound: calls of write and writeFile
  MaxInt      \* how many blocks of a file an int can count the bytes of

ASSUME ModesAssumption == Modes \subseteq {"r", "r+", "w", "w+"}
ASSUME BoundsAssumption == MaxFiles \in Nat \ {0} /\ MaxWrites \in Nat
ASSUME MaxIntAssumption == MaxInt \in Nat

Threads == {"main", "worker"}
Other(t) == CHOOSE u \in Threads : u # t

VARIABLES
  path, files,    \* the file of that name, 0 if there is none; the blocks of each
  mode,           \* File::filemode, "none" if the object was made without a path
  file,           \* File::file: Null or the FILE it points at, [open, mode,
                  \* inode, pos, out]; no other FILE of the object is reachable
  own,            \* the file that readFile or writeFile has open, or 0
  pc, size, got,  \* of readFileCb and of read: the next call, its `size', and
                  \* the blocks of `chars' it has filled or, at the end, what
                  \* it makes of them to return it
  lock, asked, ready,  \* see JobContract
  crashed,        \* NULL or a closed FILE was passed to stdio, or memory of a size
                  \* below zero was asked for
  writes,         \* counter for its bound
  alone,          \* history: no step of the other thread since the read began
  closes, fails   \* history: the script has called close; an fopen has failed
                  \* since the read began

Pool == INSTANCE JobContract

diskVars == <<path, files>>
objectVars == <<mode, file>>
readVars == <<pc, size, got>>
poolVars == <<lock, asked, ready>>
noteVars == <<writes, closes, fails>>
vars == <<diskVars, objectVars, own, readVars, poolVars, crashed, alone, noteVars>>

Nul == 0                \* what a gap in a file is filled with, too
Old == MaxWrites + 1    \* text of a file that was there before
Block == 0..Old

Stream ==
  [open : BOOLEAN, mode : Modes, inode : 1..MaxFiles, pos : Nat, out : Seq(Block)]
Null == [open |-> FALSE, mode |-> "none", inode |-> 0, pos |-> 0, out |-> <<>>]
ReadSteps == {"check", "fopen", "fseek", "ftell", "rewind", "fread", "return"}
OwnSteps == {"ownfread", "ownreturn", "sysfread", "sysreturn", "ownfwrite"}
Steps == {"idle", "unread"} \cup ReadSteps \cup OwnSteps

DiskType ==
  /\ files \in Seq(Seq(Block)) /\ Len(files) <= MaxFiles
  /\ path \in 0..Len(files) /\ own \in 0..Len(files)

FileType ==
  /\ mode \in Modes \cup {"none"}
  /\ file \in Stream \cup {Null} /\ file.inode <= Len(files)

ReadType ==
  /\ pc \in [Threads -> Steps] /\ size \in [Threads -> Int]
  /\ got \in [Threads -> Seq(Block)]
  /\ \A t \in Threads : pc[t] \in {"fread", "return"} => Len(got[t]) <= size[t]
  /\ pc["worker"] \notin OwnSteps
  /\ (pc["main"] \in OwnSteps <=> own # 0)

PoolType ==
  /\ lock \in {"free", "worker", "main"}
  /\ (pc["worker"] # "idle" => lock = "worker")
  /\ asked \in BOOLEAN /\ ready \in BOOLEAN

NoteType ==
  /\ crashed \in BOOLEAN /\ closes \in BOOLEAN /\ writes \in 0..MaxWrites
  /\ alone \in [Threads -> BOOLEAN] /\ fails \in [Threads -> BOOLEAN]

TypeOK == DiskType /\ FileType /\ ReadType /\ PoolType /\ NoteType

-----------------------------------------------------------------------------
(* stdio.                                                                  *)

Readable(m) == m # "w"
Writable(m) == m # "r"

\* File contents after the blocks `out' are written at `pos'.
Overwritten(disk, pos, out) ==
  [i \in 1..(IF pos + Len(out) > Len(disk) THEN pos + Len(out) ELSE Len(disk)) |->
     CASE i \in (pos + 1)..(pos + Len(out)) -> out[i - pos]
       [] i <= Len(disk) /\ i \notin (pos + 1)..(pos + Len(out)) -> disk[i]
       [] OTHER -> Nul]

\* What the file of the object's FILE holds when that is flushed.
Flushed ==
  IF file.out = <<>> THEN files[file.inode]
  ELSE Overwritten(files[file.inode], file.pos, file.out)

At == file.pos + Len(file.out)

Unreadable == file # Null /\ ~Readable(file.mode)

\* What fread can give of n blocks.
Available(n) ==
  LET held == IF Unreadable THEN 0 ELSE Len(Flushed) - At
  IN  CASE held < 0 -> 0 [] n < held -> n [] OTHER -> held

\* A stdio call that leaves the FILE at pos with nothing buffered.
Position(pos) ==
  IF file.open
  THEN /\ files' = [files EXCEPT ![file.inode] = Flushed]
       /\ file' = [file EXCEPT !.pos = pos, !.out = <<>>]
       /\ UNCHANGED crashed
  ELSE crashed' = TRUE /\ UNCHANGED <<files, file>>

Truncates(m) == m \in {"w", "w+"}

\* fopen of the path opens file i.
OpensFile(m, i) ==
  \/ /\ path # 0 /\ i = path
     /\ files' = IF Truncates(m) THEN [files EXCEPT ![i] = <<>>] ELSE files
     /\ UNCHANGED path
  \/ /\ path = 0 /\ Truncates(m)
     /\ Len(files) < MaxFiles /\ i = Len(files) + 1
     /\ files' = Append(files, <<>>)
     /\ path' = i

\* fopen(filepath, m) or its failure; the result is assigned to File::file at once
Fopen(m) ==
  \/ /\ \E i \in 1..MaxFiles :
          /\ OpensFile(m, i)
          /\ file' = [open |-> TRUE, mode |-> m, inode |-> i, pos |-> 0, out |-> <<>>]
     /\ UNCHANGED fails
  \/ /\ file' = Null
     /\ fails' = [t \in Threads |-> fails[t] \/ pc[t] \in ReadSteps]
     /\ UNCHANGED diskVars

\* `int size = ftell()' of n blocks: what the bits of a longer file give
IntsOf(n) == IF n <= MaxInt THEN {n} ELSE (-MaxInt - 1)..MaxInt

\* The C string that begins with the blocks s: it ends at the first NUL.
CString(s) == SubSeq(s, 1, Cardinality({i \in DOMAIN s : \A j \in 1..i : s[j] # Nul}))

-----------------------------------------------------------------------------
(* new File().  new File(path, mode) is that and then Open(mode).          *)

Init ==
  /\ \/ path = 0 /\ files = <<>>
     \/ path = 1 /\ files = << <<Old, Nul>> >>
  /\ mode = "none" /\ file = Null /\ own = 0
  /\ pc = [t \in Threads |-> "idle"] /\ size = [t \in Threads |-> 0]
  /\ got = [t \in Threads |-> <<>>]
  /\ Pool!Init
  /\ crashed = FALSE /\ writes = 0
  /\ alone = [t \in Threads |-> TRUE] /\ closes = FALSE
  /\ fails = [t \in Threads |-> FALSE]

-----------------------------------------------------------------------------
(* Reading: readFileCb on the worker, read on the main thread.             *)

\* A read of the other thread than t is no longer alone.
Touch(t) == alone' = [alone EXCEPT ![Other(t)] = @ /\ pc[Other(t)] = "idle"]

\* Thread t goes on to step `next'.
Step(t, next) ==
  /\ pc' = [pc EXCEPT ![t] = next]
  /\ Touch(t)

Stands(t, step) == ~crashed /\ pc[t] = step
ReadFrame == UNCHANGED <<path, own, mode, poolVars, noteVars>>

BadCheck(t) ==
  /\ Stands(t, "check") /\ Step(t, "fseek")
  /\ ReadFrame /\ UNCHANGED <<files, file, size, got, crashed>>

\* lines 24 and 186
Check(t) ==
  /\ Stands(t, "check") /\ Step(t, IF file = Null THEN "fopen" ELSE "fseek")
  /\ ReadFrame /\ UNCHANGED <<files, file, size, got, crashed>>

\* lines 25, 187: the other thread may have opened it since
Reopen(t) ==
  /\ Stands(t, "fopen") /\ Step(t, "fseek")
  /\ Fopen(mode)
  /\ UNCHANGED <<mode, own, size, got, poolVars, crashed, writes, closes>>

\* lines 27, 189
SeekEnd(t) ==
  /\ Stands(t, "fseek") /\ Step(t, "ftell")
  /\ Position(Len(Flushed))
  /\ ReadFrame /\ UNCHANGED <<size, got>>

\* lines 28, 190
Tell(t) ==
  /\ Stands(t, "ftell") /\ Step(t, "rewind")
  /\ crashed' = ~file.open
  /\ IF file.open
     THEN \E n \in IntsOf(At) : size' = [size EXCEPT ![t] = n]
     ELSE UNCHANGED size
  /\ ReadFrame /\ UNCHANGED <<files, file, got>>

BadRewind(t) ==
  /\ Stands(t, "rewind") /\ Step(t, "fread")
  /\ ReadFrame /\ UNCHANGED <<files, file, size, got, crashed>>

\* lines 29, 191
Rewind(t) ==
  /\ Stands(t, "rewind") /\ Step(t, "fread")
  /\ size[t] >= 0
  /\ Position(0)
  /\ ReadFrame /\ UNCHANGED <<size, got>>

\* lines 31, 193: new char[] of a size below zero throws, and nothing catches it
NoMemory(t) ==
  /\ Stands(t, "rewind") /\ size[t] < 0
  /\ crashed' = TRUE
  /\ UNCHANGED <<files, file, readVars, alone>> /\ ReadFrame

\* A std::string is made of the char pointer (line 39), a String of `size' bytes
\* (line 202).
Returned(t, chars) == IF t = "worker" THEN CString(chars) ELSE chars

\* fread of what is missing, and where t goes on
FreadTo(t, next) ==
  LET n == IF file.open THEN Available(size[t] - Len(got[t])) ELSE 0 IN
  /\ Step(t, next)
  /\ got' = [got EXCEPT ![t] = IF file.open THEN @ \o SubSeq(Flushed, At + 1, At + n) ELSE @]
  /\ Position(IF file.open THEN At + n ELSE 0)
  /\ ReadFrame /\ UNCHANGED size

BadFread(t) == Stands(t, "fread") /\ FreadTo(t, "return")

\* lines 34-39, 196-202: a turn of the loop, or its end; a turn that reads
\* nothing is followed by another
Fread(t) ==
  /\ Stands(t, "fread")
  /\ IF Len(got[t]) < size[t]
     THEN FreadTo(t, "fread")
     ELSE /\ Step(t, "return")
          /\ got' = [got EXCEPT ![t] = Returned(t, @)]
          /\ ReadFrame /\ UNCHANGED <<files, file, size, crashed>>

ReadStep(t) ==
  \/ Check(t) \/ Reopen(t) \/ SeekEnd(t) \/ Tell(t) \/ Rewind(t) \/ NoMemory(t)
  \/ Fread(t)

Start(t) ==
  /\ pc' = [pc EXCEPT ![t] = "check"]
  /\ UNCHANGED <<size, got, alone>>

\* `size' and `chars' are locals
Leave(t) ==
  /\ pc' = [pc EXCEPT ![t] = "idle"]
  /\ got' = [got EXCEPT ![t] = <<>>]
  /\ size' = [size EXCEPT ![t] = 0]
  /\ alone' = [alone EXCEPT ![t] = TRUE]
  /\ fails' = [fails EXCEPT ![t] = FALSE]

-----------------------------------------------------------------------------
(* The worker: `initialized' of threadPool.cpp.                            *)

WorkerFrame == UNCHANGED <<diskVars, objectVars, own, crashed, writes, closes>>

BadBegin ==
  /\ Stands("worker", "idle")
  /\ asked /\ mode # "none"
  /\ lock' = IF lock = "free" THEN "worker" ELSE lock
  /\ Start("worker")
  /\ WorkerFrame /\ UNCHANGED <<asked, ready, fails>>

\* line 107 there and lines 20-22: an object without a path is not read
Begin ==
  /\ Stands("worker", "idle")
  /\ Pool!Begin
  /\ pc' = [pc EXCEPT !["worker"] = IF mode = "none" THEN "unread" ELSE "check"]
  /\ WorkerFrame /\ UNCHANGED <<size, got, alone, fails>>

\* lines 108-113 there, with what readFileCb has returned
Finish ==
  /\ \/ Stands("worker", "unread")
     \/ Stands("worker", "return")
  /\ Pool!Finish
  /\ Leave("worker")
  /\ WorkerFrame

-----------------------------------------------------------------------------
(* The main thread: the methods of File.                                   *)

Calls == Stands("main", "idle")
FileFrame == UNCHANGED <<diskVars, objectVars, own, crashed, writes, closes>>
PoolFrame == FileFrame /\ UNCHANGED <<readVars, alone, fails>>

\* onNotify calls a callback: any time after the object was ready once
Callback ==
  /\ Calls
  /\ Pool!Call
  /\ PoolFrame

Return ==
  /\ Calls
  /\ Pool!Return
  /\ PoolFrame

\* onReadCb
OnReadCb ==
  /\ Calls
  /\ Pool!Ask
  /\ PoolFrame

\* open(path, mode), or open() with those the object has; a FILE that is open
\* stays so, out of reach, with what it has buffered
Open(m) ==
  /\ Calls /\ Touch("main")
  /\ mode' = m
  /\ Fopen(m)
  /\ UNCHANGED <<own, readVars, poolVars, crashed, writes, closes>>

\* close: File::file keeps its value
Close ==
  /\ Calls /\ Touch("main")
  /\ closes' = TRUE
  /\ IF file.open
     THEN /\ files' = [files EXCEPT ![file.inode] = Flushed]
          /\ file' = [file EXCEPT !.open = FALSE, !.pos = 0, !.out = <<>>]
          /\ UNCHANGED crashed
     ELSE crashed' = TRUE /\ UNCHANGED <<files, file>>
  /\ UNCHANGED <<path, own, mode, readVars, poolVars, writes, fails>>

\* read, lines 175-184
Read ==
  /\ Calls
  /\ mode # "none"
  /\ Start("main")
  /\ FileFrame /\ UNCHANGED <<poolVars, fails>>

\* lines 204-206
ReadReturns ==
  /\ Stands("main", "return") /\ Leave("main")
  /\ FileFrame /\ UNCHANGED poolVars

\* write, of text or of a NUL: it does not look at what fwrite returns
Write ==
  /\ Calls /\ Touch("main")
  /\ file # Null
  /\ writes < MaxWrites /\ writes' = writes + 1
  /\ crashed' = ~file.open
  /\ IF file.open /\ Writable(file.mode)
     THEN \E b \in {Nul, writes'} : file' = [file EXCEPT !.out = Append(@, b)]
     ELSE UNCHANGED file
  /\ UNCHANGED <<diskVars, own, mode, readVars, poolVars, closes, fails>>

\* rewind, the method
RewindMethod ==
  /\ Calls /\ Touch("main")
  /\ file # Null
  /\ Position(0)
  /\ UNCHANGED <<path, own, mode, readVars, poolVars, noteVars>>

\* unlink; the file stays for the FILEs that have it open
Unlink ==
  /\ Calls
  /\ path # 0 /\ path' = 0
  /\ UNCHANGED <<files, objectVars, own, readVars, poolVars, crashed, alone,
                 noteVars>>

\* remove, the method of an object that has a path, and the function removeFile
Remove == mode # "none" /\ Unlink
RemoveFile == Unlink

-----------------------------------------------------------------------------
(* The functions readFile, writeFile and System.readfile, which open a FILE *)
(* of their own.                                                           *)

OwnFrame == UNCHANGED <<path, objectVars, poolVars, closes>>

\* A step of readFile disturbs nobody.
OwnReads(next) ==
  /\ pc' = [pc EXCEPT !["main"] = next]
  /\ OwnFrame /\ UNCHANGED <<files, alone, writes>>

\* Opens the file and takes its size; lines 52, 220: the memory for it
OwnOpen(next) ==
  /\ Calls
  /\ path # 0 /\ own' = path
  /\ \E n \in IntsOf(Len(files[path])) :
       /\ size' = [size EXCEPT !["main"] = n]
       /\ crashed' = (n < 0)
  /\ OwnReads(next)
  /\ UNCHANGED <<got, fails>>

\* without a file it returns at line 214, with nothing done
SystemReadfile == OwnOpen("sysfread")

\* lines 70-73 and 43-52: without a file ReadFile returns NULL, which goes to
\* strlen
ReadFile ==
  \/ OwnOpen("ownfread")
  \/ /\ Calls
     /\ crashed' = TRUE /\ fails' = [fails EXCEPT !["main"] = TRUE]
     /\ OwnReads("idle")
     /\ UNCHANGED <<own, size, got>>

\* what one fread can give
OwnAvailable ==
  LET end == IF size["main"] < Len(files[own]) THEN size["main"] ELSE Len(files[own])
  IN  SubSeq(files[own], Len(got["main"]) + 1, end)

\* A turn of the loop at `from', or its end and what is returned.
OwnFreadTo(from, next, returned) ==
  /\ Stands("main", from)
  /\ IF Len(got["main"]) < size["main"]
     THEN /\ OwnReads(from)
          /\ got' = [got EXCEPT !["main"] = @ \o OwnAvailable]
     ELSE /\ OwnReads(next)
          /\ got' = [got EXCEPT !["main"] = returned]
  /\ UNCHANGED <<own, size, crashed, fails>>

\* lines 54-63, and strlen at line 73
OwnFread == OwnFreadTo("ownfread", "ownreturn", CString(got["main"]))

\* lines 223-231 of system.cpp: a String of `size' bytes
SystemFread == OwnFreadTo("sysfread", "sysreturn", got["main"])

\* line 73, line 234 of system.cpp
ReadFileReturns ==
  /\ Stands("main", "ownreturn") \/ Stands("main", "sysreturn")
  /\ Leave("main") /\ own' = 0
  /\ OwnFrame /\ UNCHANGED <<files, crashed, writes>>

\* lines 79-96: the mode is "w+", since line 79 refuses a third argument; a file
\* that cannot be opened throws
WriteFile ==
  /\ Calls /\ Touch("main")
  /\ writes < MaxWrites /\ writes' = writes + 1
  /\ \E i \in 1..MaxFiles : OpensFile("w+", i) /\ own' = i
  /\ pc' = [pc EXCEPT !["main"] = "ownfwrite"]
  /\ UNCHANGED <<objectVars, size, got, poolVars, crashed, closes, fails>>

\* lines 100-101: what was written reaches the file
WriteFileEnds ==
  /\ Stands("main", "ownfwrite")
  /\ pc' = [pc EXCEPT !["main"] = "idle"]
  /\ alone' = [t \in Threads |-> t = "main" \/ (alone[t] /\ pc[t] = "idle")]
  /\ \E b \in {Nul, writes} :
       files' = [files EXCEPT ![own] = Overwritten(@, 0, <<b>>)]
  /\ own' = 0
  /\ OwnFrame /\ UNCHANGED <<size, got, crashed, writes, fails>>

OwnStep == OwnFread \/ SystemFread \/ ReadFileReturns \/ WriteFileEnds

Method ==
  \/ Callback \/ Return \/ OnReadCb \/ Close \/ Read \/ Write \/ RewindMethod
  \/ Remove \/ RemoveFile \/ ReadFile \/ SystemReadfile
  \/ WriteFile
  \/ \E m \in Modes : Open(m)

Next ==
  \/ Method \/ ReadReturns \/ OwnStep \/ Begin \/ Finish
  \/ \E t \in Threads : ReadStep(t)

Spec == Init /\ [][Next]_vars

\* Both threads go on with a read and return from it.
Fairness ==
  /\ \A t \in Threads : WF_vars(ReadStep(t))
  /\ WF_vars(ReadReturns) /\ WF_vars(Finish) /\ WF_vars(OwnStep)

FairSpec == Spec /\ Fairness

-----------------------------------------------------------------------------
(* Properties.                                                             *)

\* A read that no step of the other thread came between, of a file that an int
\* can measure: size, position and buffer agree (file.cpp:27-38, :47-58, :189-200),
\* and the read returns the file with all the object has written.  That is true of
\* read and of System.readfile; onReadCb and readFile return the file only up to
\* its first NUL (:39, :73).  Removing the file is no step between.
LoneReadIsWhole ==
  \A t \in Threads :
    alone[t] /\ ~crashed =>
      /\ pc[t] = "return" /\ Len(Flushed) <= MaxInt =>
           got[t] = IF t = "worker" THEN CString(Flushed) ELSE Flushed
      /\ pc[t] = "ownreturn" /\ Len(files[own]) <= MaxInt => got[t] = CString(files[own])
      /\ pc[t] = "sysreturn" /\ Len(files[own]) <= MaxInt => got[t] = files[own]

\* The fread loops (lines 34, 54, 196) have nothing left to read only if the other
\* thread moved, replaced or emptied the file, or if the FILE cannot be read:
\* there they never end, the worker with threadLock held.
SpinNeedsAnother ==
  \A t \in Threads :
    alone[t] /\ ~crashed /\ Len(got[t]) < size[t] =>
      /\ pc[t] = "fread" => Unreadable \/ Available(size[t] - Len(got[t])) > 0
      /\ pc[t] \in {"ownfread", "sysfread"} => OwnAvailable # <<>>

\* NULL or a closed FILE reaches stdio only in a program that has called close,
\* which keeps the pointer (line 169), or when an fopen fails in a read (lines 25,
\* 43, 187): a File that could not be opened before is opened by the read.  The
\* one other end is that of a file too long for an int.
CrashNeedsCause == crashed => closes \/ \E t \in Threads : fails[t] \/ size[t] < 0

\* What a callback does with the file the worker does not come between: the
\* callback runs with threadLock held.
CallbackIsAlone == lock = "main" /\ pc["main"] # "idle" => alone["main"]

\* A read that is left alone ends, unless the FILE cannot be read; on the worker
\* its hold of threadLock ends with it.
LoneReadEnds ==
  \A t \in Threads :
    pc[t] \in {"check", "ownfread", "sysfread"} ~>
      pc[t] = "idle" \/ crashed \/ ~alone[t] \/ (pc[t] \in ReadSteps /\ Unreadable)
=============================================================================
