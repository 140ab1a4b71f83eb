-------------------------- MODULE FileObjectProofs --------------------------
(***************************************************************************)
(* Theorems about FileObject, for any modes and bounds: its types, what a  *)
(* read that is left alone returns, what a crash or an endless read loop   *)
(* needs, and that the worker stays away from what a callback does.        *)
(***************************************************************************)
EXTENDS FileObject, FiniteSetTheorems, SequenceTheorems, TLAPS

Reading == {"fread", "return", "ownfread", "ownreturn", "sysfread", "sysreturn"}

\* Before the fread loop nothing has been read.
GotInv ==
  \A t \in Threads :
    pc[t] \notin Reading => got[t] = <<>>

\* Only an object that was given a path is read.
HasPath == \A t \in Threads : pc[t] \in ReadSteps => mode \in Modes

\* A read of the main thread begins alone.
BeginsAlone == pc["main"] = "idle" => alone["main"] = TRUE

\* The read itself opens a File that is not open: without one past that step,
\* an fopen failed.
NullHasCause ==
  \A t \in Threads :
    pc[t] \in {"fseek", "ftell", "rewind", "fread", "return"} /\ file = Null => fails[t]
ClosedHasCause == file # Null /\ ~file.open => closes

\* What `size' says of the file: its length, if an int can.
Sized(n, disk) == n <= Len(disk) /\ (Len(disk) <= MaxInt => n = Len(disk))

\* How far a read that is left alone has come.
Progress(t) ==
  LET disk == files[file.inode] IN
  /\ pc[t] \in {"ftell", "rewind", "fread", "return"} => file.open /\ file.out = <<>>
  /\ pc[t] = "ftell" => file.pos = Len(disk)
  /\ pc[t] \in {"rewind", "fread"} => Sized(size[t], disk)
  /\ pc[t] = "fread" => file.pos = Len(got[t]) /\ got[t] = SubSeq(disk, 1, Len(got[t]))
  /\ pc[t] = "return" /\ Len(disk) <= MaxInt => got[t] = Returned(t, disk)

\* The same of readFile.
OwnProgress(t) ==
  /\ pc[t] \in {"ownfread", "sysfread"} =>
       /\ Sized(size[t], files[own]) /\ Len(got[t]) <= size[t]
       /\ got[t] = SubSeq(files[own], 1, Len(got[t]))
  /\ pc[t] = "ownreturn" /\ Len(files[own]) <= MaxInt => got[t] = CString(files[own])
  /\ pc[t] = "sysreturn" /\ Len(files[own]) <= MaxInt => got[t] = files[own]

Whole(t) == alone[t] /\ ~crashed => Progress(t) /\ OwnProgress(t)

IInv ==
  /\ TypeOK /\ GotInv /\ HasPath
  /\ BeginsAlone /\ CallbackIsAlone
  /\ NullHasCause /\ ClosedHasCause /\ CrashNeedsCause
  /\ \A t \in Threads : Whole(t)

-----------------------------------------------------------------------------
(* stdio.                                                                  *)

LEMMA OverwrittenType ==
  ASSUME NEW disk \in Seq(Block), NEW out \in Seq(Block), NEW pos \in Nat
  PROVE  Overwritten(disk, pos, out) \in Seq(Block)
<1> DEFINE n == IF pos + Len(out) > Len(disk) THEN pos + Len(out) ELSE Len(disk)
           block(i) == CASE i \in (pos + 1)..(pos + Len(out)) -> out[i - pos]
                         [] i <= Len(disk) /\ i \notin (pos + 1)..(pos + Len(out)) -> disk[i]
                         [] OTHER -> Nul
<1>1. n \in Nat
  BY LenProperties
<1>2. Nul \in Block
  BY BoundsAssumption DEF Block, Nul, Old
<1>3. ASSUME NEW i \in 1..n PROVE block(i) \in Block
  <2>1. CASE i \in (pos + 1)..(pos + Len(out))
    <3>1. i - pos \in 1..Len(out)
      BY <2>1, LenProperties
    <3> QED
      BY <2>1, <3>1, ElementOfSeq
  <2>2. CASE i <= Len(disk) /\ i \notin (pos + 1)..(pos + Len(out))
    <3>1. i \in 1..Len(disk)
      BY <2>2, <1>1, LenProperties
    <3> QED
      BY <2>2, <3>1, ElementOfSeq
  <2>3. CASE ~(i <= Len(disk)) /\ i \notin (pos + 1)..(pos + Len(out))
    BY <2>3, <1>2
  <2> QED
    BY <2>1, <2>2, <2>3
<1>4. Overwritten(disk, pos, out) = [i \in 1..n |-> block(i)]
  BY DEF Overwritten
<1> HIDE DEF n, block
<1>5. [i \in 1..n |-> block(i)] \in [1..n -> Block]
  BY <1>3
<1> QED
  BY <1>1, <1>4, <1>5

\* A C string is no longer than what it begins.
LEMMA CStringType ==
  ASSUME NEW s \in Seq(Block)
  PROVE  CString(s) \in Seq(Block) /\ Len(CString(s)) <= Len(s)
<1> DEFINE before == {i \in DOMAIN s : \A j \in 1..i : s[j] # Nul}
           n == Cardinality(before)
<1>1. Len(s) \in Nat /\ DOMAIN s = 1..Len(s)
  BY LenProperties
<1>2. IsFiniteSet(1..Len(s)) /\ Cardinality(1..Len(s)) = Len(s)
  BY <1>1, FS_Interval
<1>3. before \subseteq 1..Len(s)
  BY <1>1
<1> HIDE DEF before
<1>4. IsFiniteSet(before) /\ n <= Len(s)
  BY <1>2, <1>3, FS_Subset
<1>5. n \in Nat
  BY <1>4, FS_CardinalityType
<1>6. CString(s) = SubSeq(s, 1, n)
  BY DEF CString, before
<1> HIDE DEF n
<1>7. \A i \in 1..n : s[i] \in Block
  BY <1>1, <1>4, <1>5, ElementOfSeq
<1>8. CString(s) \in Seq(Block)
  BY <1>5, <1>6, <1>7, SubSeqProperties
<1>9. Len(CString(s)) <= Len(s)
  BY <1>1, <1>4, <1>5, <1>6
<1> QED
  BY <1>8, <1>9

LEMMA NullFields == Null.open = FALSE /\ Null.inode = 0
  BY DEF Null

\* An open FILE is on a file of the disk.
LEMMA OpenFile ==
  ASSUME DiskType, FileType, file.open
  PROVE  /\ file \in Stream /\ file # Null
         /\ file.inode \in 1..Len(files) /\ files[file.inode] \in Seq(Block)
         /\ file.pos \in Nat /\ file.out \in Seq(Block)
         /\ Flushed \in Seq(Block) /\ At \in Nat
<1>1. file \in Stream /\ file # Null
  BY NullFields DEF FileType
<1>2. /\ file.inode \in 1..MaxFiles /\ file.pos \in Nat /\ file.out \in Seq(Block)
      /\ file.inode <= Len(files)
  BY <1>1 DEF Stream, FileType
<1>3. file.inode \in 1..Len(files)
  BY <1>2, LenProperties DEF DiskType
<1>4. files[file.inode] \in Seq(Block)
  BY <1>3, ElementOfSeq DEF DiskType
<1>5. Flushed \in Seq(Block)
  BY <1>2, <1>4, OverwrittenType DEF Flushed
<1>6. At \in Nat
  <2>1. Len(file.out) \in Nat
    BY <1>2, LenProperties
  <2> QED
    BY <1>2, <2>1 DEF At
<1> QED
  BY <1>1, <1>2, <1>3, <1>4, <1>5, <1>6

\* A file of the disk is given other blocks.
LEMMA DiskWrite ==
  ASSUME DiskType, NEW i \in 1..Len(files), NEW disk \in Seq(Block),
         files' = [files EXCEPT ![i] = disk]
  PROVE  files' \in Seq(Seq(Block)) /\ Len(files') = Len(files) /\ files'[i] = disk
<1>1. files \in Seq(Seq(Block))
  BY DEF DiskType
<1> QED
  BY <1>1, ExceptSeq

\* stdio positions the FILE and empties its buffer, or crashes.
LEMMA PositionEffect ==
  ASSUME DiskType, FileType, NoteType, NEW pos, file.open => pos \in Nat, Position(pos),
         path' = path, own' = own, mode' = mode
  PROVE  /\ DiskType' /\ FileType' /\ crashed' \in BOOLEAN
         /\ file'.open = file.open /\ (file' = Null <=> file = Null)
         /\ ~crashed' => file.open
         /\ file.open => /\ files' = [files EXCEPT ![file.inode] = Flushed]
                         /\ files'[file'.inode] = Flushed
                         /\ file'.out = <<>> /\ file'.pos = pos
                         /\ crashed' = crashed
<1>1. CASE file.open
  <2>1. /\ file \in Stream /\ file # Null /\ file.inode \in 1..Len(files)
        /\ Flushed \in Seq(Block) /\ pos \in Nat
    BY <1>1, OpenFile
  <2>2. /\ files' = [files EXCEPT ![file.inode] = Flushed]
        /\ file' = [file EXCEPT !.pos = pos, !.out = <<>>] /\ crashed' = crashed
    BY <1>1 DEF Position
  <2>3. files' \in Seq(Seq(Block)) /\ Len(files') = Len(files) /\ files'[file.inode] = Flushed
    BY <2>1, <2>2, DiskWrite
  <2>4. <<>> \in Seq(Block)
    BY EmptySeq
  <2>5. /\ file' \in Stream /\ file'.open = file.open /\ file'.inode = file.inode
        /\ file'.out = <<>> /\ file'.pos = pos
    BY <2>1, <2>2, <2>4 DEF Stream
  <2>6. file' # Null
    BY <1>1, <2>5, NullFields
  <2>7. DiskType' /\ FileType' /\ crashed' \in BOOLEAN
    BY <2>2, <2>3, <2>5 DEF DiskType, FileType, NoteType
  <2> QED
    BY <1>1, <2>1, <2>2, <2>3, <2>5, <2>6, <2>7
<1>2. CASE ~file.open
  BY <1>2 DEF Position, DiskType, FileType
<1> QED
  BY <1>1, <1>2

LEMMA OpensFileEffect ==
  ASSUME DiskType, NEW m, NEW i \in 1..MaxFiles, OpensFile(m, i)
  PROVE  /\ files' \in Seq(Seq(Block)) /\ Len(files') <= MaxFiles
         /\ Len(files) <= Len(files') /\ i <= Len(files')
         /\ path' \in 0..Len(files')
<1> USE DEF DiskType
<1>1. <<>> \in Seq(Block) /\ Len(files) \in Nat
  BY EmptySeq, LenProperties
<1>2. CASE path # 0 /\ i = path /\ path' = path
  <2>1. i \in 1..Len(files)
    BY <1>1, <1>2
  <2>2. files' = files \/ files' = [files EXCEPT ![i] = <<>>]
    BY <1>1, <1>2 DEF OpensFile
  <2>3. files' \in Seq(Seq(Block)) /\ Len(files') = Len(files)
    BY <1>1, <2>1, <2>2, DiskWrite
  <2> QED
    BY <1>1, <1>2, <2>1, <2>3
<1>3. CASE Len(files) < MaxFiles /\ i = Len(files) + 1 /\ files' = Append(files, <<>>) /\ path' = i
  <2>1. files' \in Seq(Seq(Block)) /\ Len(files') = Len(files) + 1
    BY <1>1, <1>3, AppendProperties
  <2> QED
    BY <1>1, <1>3, <2>1, BoundsAssumption
<1> QED
  BY <1>2, <1>3 DEF OpensFile

\* fopen gives an open FILE, or Null and a note of its failure.
LEMMA FopenEffect ==
  ASSUME DiskType, FileType, ReadType, NoteType, NEW m \in Modes, Fopen(m), own' = own,
         mode' \in Modes \cup {"none"}
  PROVE  /\ DiskType' /\ FileType' /\ fails' \in [Threads -> BOOLEAN]
         /\ \A t \in Threads : fails[t] => fails'[t]
         /\ file' # Null => file'.open
         /\ file' = Null => \A t \in Threads : pc[t] \in ReadSteps => fails'[t]
<1>1. CASE file' = Null /\ fails' = [t \in Threads |-> fails[t] \/ pc[t] \in ReadSteps]
           /\ UNCHANGED diskVars
  <2>1. file'.inode <= Len(files')
    <3>1. Len(files) \in Nat /\ files' = files
      BY <1>1, LenProperties DEF DiskType, diskVars
    <3> QED
      BY <1>1, <3>1, NullFields
  <2>2. DiskType' /\ FileType'
    BY <1>1, <2>1 DEF DiskType, FileType, diskVars
  <2>3. /\ fails' \in [Threads -> BOOLEAN]
        /\ \A t \in Threads : fails[t] \/ pc[t] \in ReadSteps => fails'[t]
    BY <1>1
  <2> QED
    BY <1>1, <2>2, <2>3
<1>2. CASE fails' = fails /\ \E i \in 1..MaxFiles :
        /\ OpensFile(m, i)
        /\ file' = [open |-> TRUE, mode |-> m, inode |-> i, pos |-> 0, out |-> <<>>]
  <2>1. PICK i \in 1..MaxFiles :
          /\ OpensFile(m, i)
          /\ file' = [open |-> TRUE, mode |-> m, inode |-> i, pos |-> 0, out |-> <<>>]
    BY <1>2
  <2>2. <<>> \in Seq(Block)
    BY EmptySeq
  <2>3. file' \in Stream /\ file'.inode = i /\ file'.open
    BY <2>1, <2>2 DEF Stream
  <2>4. /\ files' \in Seq(Seq(Block)) /\ Len(files') <= MaxFiles
        /\ Len(files) <= Len(files') /\ i <= Len(files')
        /\ path' \in 0..Len(files')
    BY <2>1, OpensFileEffect
  <2>5. own' \in 0..Len(files')
    <3>1. Len(files) \in Nat /\ Len(files') \in Nat /\ own \in 0..Len(files)
      BY <2>4, LenProperties DEF DiskType
    <3>2. Len(files) <= Len(files')
      BY <2>4
    <3> QED
      BY <3>1, <3>2
  <2>6. DiskType' /\ FileType'
    BY <2>3, <2>4, <2>5 DEF DiskType, FileType
  <2>7. file' # Null
    BY <2>3, NullFields
  <2> QED
    BY <1>2, <2>3, <2>6, <2>7 DEF NoteType
<1> QED
  BY <1>1, <1>2 DEF Fopen

-----------------------------------------------------------------------------
(* Two threads.                                                            *)

LEMMA Others ==
  /\ Other("main") = "worker" /\ Other("worker") = "main"
  /\ \A t \in Threads : Other(t) \in Threads /\ Other(t) # t
                        /\ \A u \in Threads : u = t \/ u = Other(t)
<1>1. \E u \in Threads : u # "main"
  BY DEF Threads
<1>2. \E u \in Threads : u # "worker"
  BY DEF Threads
<1>3. Other("main") \in Threads /\ Other("main") # "main"
  BY <1>1 DEF Other
<1>4. Other("worker") \in Threads /\ Other("worker") # "worker"
  BY <1>2 DEF Other
<1>5. QED
  BY <1>3, <1>4 DEF Threads

\* A step that touches the file ends what is known of a read of the other thread.
LEMMA TouchEffect ==
  ASSUME NoteType, NEW t \in Threads, Touch(t),
         pc'[Other(t)] = pc[Other(t)]
  PROVE  /\ alone' \in [Threads -> BOOLEAN] /\ alone'[t] = alone[t]
         /\ alone'[Other(t)] = (alone[Other(t)] /\ pc[Other(t)] = "idle")
         /\ Whole(Other(t))'
<1>1. Other(t) \in Threads /\ Other(t) # t
  BY Others
<1>2. alone' = [alone EXCEPT ![Other(t)] = alone[Other(t)] /\ pc[Other(t)] = "idle"]
  BY DEF Touch
<1>3. alone'[Other(t)] = (alone[Other(t)] /\ pc[Other(t)] = "idle")
  BY <1>1, <1>2 DEF NoteType
<1>4. alone' \in [Threads -> BOOLEAN]
  <2>1. alone[Other(t)] \in BOOLEAN
    BY <1>1 DEF NoteType
  <2> QED
    BY <1>1, <1>2, <2>1, Zenon DEF NoteType
<1>5. alone'[t] = alone[t]
  BY <1>1, <1>2 DEF NoteType
<1>6. Whole(Other(t))'
  BY <1>3 DEF Whole, Progress, OwnProgress
<1> QED
  BY <1>3, <1>4, <1>5, <1>6

-----------------------------------------------------------------------------
(* A step of a read.                                                       *)

\* Steps that are past the opening of the file.
Opened == {"fseek", "ftell", "rewind", "fread", "return"}

LEMMA CauseKept ==
  ASSUME IInv, NEW t \in Threads, ~crashed, pc[t] \in Opened \/ file # Null,
         pc'[Other(t)] = pc[Other(t)],
         file'.open = file.open, file' = Null <=> file = Null,
         UNCHANGED <<fails, closes>>, crashed' => ~file.open /\ pc[t] \in Opened
  PROVE  NullHasCause' /\ ClosedHasCause' /\ CrashNeedsCause'
<1> USE DEF Opened
<1>1. NullHasCause'
  BY Others DEF IInv, NullHasCause
<1>2. ClosedHasCause'
  BY DEF IInv, ClosedHasCause
<1>3. CrashNeedsCause'
  BY DEF IInv, NullHasCause, ClosedHasCause, CrashNeedsCause
<1> QED
  BY <1>1, <1>2, <1>3

LEMMA ReadStepKeeps ==
  ASSUME IInv, NEW t \in Threads, ~crashed, pc[t] \in ReadSteps,
         NEW next \in ReadSteps, Step(t, next),
         DiskType', FileType', UNCHANGED <<own, mode, poolVars, writes, closes>>,
         size' \in [Threads -> Int], got' \in [Threads -> Seq(Block)],
         size'[Other(t)] = size[Other(t)], got'[Other(t)] = got[Other(t)],
         IF next \in {"fread", "return"} THEN Len(got'[t]) <= size'[t] ELSE got'[t] = <<>>,
         crashed' \in BOOLEAN, fails' \in [Threads -> BOOLEAN],
         NullHasCause', ClosedHasCause', CrashNeedsCause', Whole(t)'
  PROVE  IInv'
<1>1. TypeOK
  BY DEF IInv
<1>2. pc' = [pc EXCEPT ![t] = next] /\ Touch(t)
  BY DEF Step
<1>3. pc' \in [Threads -> Steps] /\ pc'[t] = next /\ pc'[Other(t)] = pc[Other(t)]
  BY <1>1, <1>2, Others DEF TypeOK, ReadType, Steps
<1>4. /\ alone' \in [Threads -> BOOLEAN] /\ alone'[t] = alone[t]
      /\ alone'[Other(t)] = (alone[Other(t)] /\ pc[Other(t)] = "idle")
      /\ Whole(Other(t))'
  BY <1>1, <1>2, <1>3, TouchEffect DEF TypeOK
<1>5. next # "idle" /\ pc[t] # "idle" /\ next \notin OwnSteps /\ pc[t] \notin OwnSteps
  BY DEF ReadSteps, OwnSteps
<1>6. \A u \in Threads : /\ pc'[u] \in OwnSteps <=> pc[u] \in OwnSteps
                         /\ pc'[u] = "idle" <=> pc[u] = "idle"
                         /\ pc'[u] \in ReadSteps <=> pc[u] \in ReadSteps
  BY <1>3, <1>5, Others
<1>7. ReadType'
  <2>1. \A u \in Threads : pc'[u] \in {"fread", "return"} => Len(got'[u]) <= size'[u]
    BY <1>1, <1>3, Others DEF TypeOK, ReadType
  <2>2. pc'["worker"] \notin OwnSteps /\ (pc'["main"] \in OwnSteps <=> own' # 0)
    BY <1>1, <1>6 DEF TypeOK, ReadType, Threads
  <2> QED
    BY <1>3, <2>1, <2>2 DEF ReadType
<1>8. PoolType' /\ NoteType'
  BY <1>1, <1>4, <1>6 DEF TypeOK, PoolType, NoteType, poolVars, Threads
<1>9. GotInv'
  <2>1. pc'[t] \notin Reading => got'[t] = <<>>
    BY <1>3 DEF Reading
  <2>2. pc'[Other(t)] \notin Reading => got'[Other(t)] = <<>>
    BY <1>3, Others DEF IInv, GotInv
  <2> QED
    BY <2>1, <2>2, Others DEF GotInv
<1>10. HasPath'
  BY <1>6 DEF IInv, HasPath
<1>11. BeginsAlone' /\ CallbackIsAlone'
  <2>1. CASE t = "main"
    BY <1>4, <1>6, <2>1 DEF IInv, BeginsAlone, CallbackIsAlone, poolVars
  <2>2. CASE t = "worker"
    <3>1. lock' = "worker"
      BY <1>1, <1>5, <2>2 DEF TypeOK, PoolType, poolVars
    <3>2. pc'["main"] = "idle" => alone'["main"] = TRUE
      BY <1>3, <1>4, <2>2, Others DEF IInv, BeginsAlone
    <3> QED
      BY <3>1, <3>2 DEF BeginsAlone, CallbackIsAlone
  <2> QED
    BY <2>1, <2>2 DEF Threads
<1>12. ASSUME NEW u \in Threads PROVE Whole(u)'
  <2>1. u = t \/ u = Other(t)
    BY Others
  <2> QED
    BY <1>4, <2>1 DEF Whole, Progress, OwnProgress
<1> QED
  BY <1>7, <1>8, <1>9, <1>10, <1>11, <1>12 DEF IInv, TypeOK

LEMMA CheckInv ==
  ASSUME IInv, NEW t \in Threads, Check(t)
  PROVE  IInv'
<1> DEFINE next == IF file = Null THEN "fopen" ELSE "fseek"
<1>1. TypeOK /\ got[t] = <<>>
  BY DEF IInv, GotInv, Reading, Check, Stands
<1>2. /\ ~crashed /\ pc[t] = "check" /\ Step(t, next) /\ next \in ReadSteps
      /\ UNCHANGED <<files, file, size, got, crashed, path, own, mode, poolVars, noteVars>>
  BY DEF Check, Stands, ReadFrame, ReadSteps
<1>3. pc' = [pc EXCEPT ![t] = next]
  BY <1>2 DEF Step
<1>4. pc'[t] = next /\ pc'[Other(t)] = pc[Other(t)]
  BY <1>1, <1>3, Others DEF TypeOK, ReadType
<1>5. NullHasCause' /\ ClosedHasCause' /\ CrashNeedsCause'
  <2>1. CASE file # Null
    BY <1>2, <1>4, <2>1, CauseKept DEF noteVars
  <2>2. CASE file = Null
    BY <1>2, <1>4, <2>2, Others
    DEF IInv, NullHasCause, ClosedHasCause, CrashNeedsCause, noteVars
  <2> QED
    BY <2>1, <2>2
<1>6. Whole(t)'
  BY <1>4 DEF Whole, Progress, OwnProgress
<1>7. DiskType' /\ FileType'
  BY <1>1, <1>2 DEF TypeOK, DiskType, FileType
<1>8. /\ size' \in [Threads -> Int] /\ got' \in [Threads -> Seq(Block)]
      /\ crashed' \in BOOLEAN /\ fails' \in [Threads -> BOOLEAN]
  BY <1>1, <1>2 DEF TypeOK, ReadType, NoteType, noteVars
<1>9. next \notin {"fread", "return"} /\ pc[t] \in ReadSteps
  BY <1>2 DEF ReadSteps
<1> HIDE DEF next
<1> QED
  BY <1>1, <1>2, <1>5, <1>6, <1>7, <1>8, <1>9, ReadStepKeeps DEF noteVars

LEMMA ReopenInv ==
  ASSUME IInv, NEW t \in Threads, Reopen(t)
  PROVE  IInv'
<1>1. TypeOK /\ got[t] = <<>>
  BY DEF IInv, GotInv, Reading, Reopen, Stands
<1>2. /\ ~crashed /\ pc[t] = "fopen" /\ Step(t, "fseek") /\ Fopen(mode)
      /\ UNCHANGED <<mode, own, size, got, poolVars, crashed, writes, closes>>
  BY DEF Reopen, Stands
<1>3. pc[t] \in ReadSteps /\ "fseek" \in ReadSteps /\ mode \in Modes
  BY <1>2 DEF ReadSteps, IInv, HasPath
<1>4. pc' = [pc EXCEPT ![t] = "fseek"]
  BY <1>2 DEF Step
<1>5. pc'[t] = "fseek" /\ pc'[Other(t)] = pc[Other(t)]
  BY <1>1, <1>4, Others DEF TypeOK, ReadType
<1>6. /\ DiskType' /\ FileType' /\ fails' \in [Threads -> BOOLEAN]
      /\ file' # Null => file'.open
      /\ file' = Null => \A u \in Threads : pc[u] \in ReadSteps => fails'[u]
  BY <1>1, <1>2, <1>3, FopenEffect DEF TypeOK
<1>7. NullHasCause' /\ ClosedHasCause' /\ CrashNeedsCause'
  <2>1. \A u \in Threads : pc'[u] \in Opened => pc[u] \in ReadSteps
    BY <1>3, <1>5, Others DEF Opened, ReadSteps
  <2> QED
    BY <1>2, <1>6, <2>1 DEF NullHasCause, ClosedHasCause, CrashNeedsCause, Opened
<1>8. Whole(t)'
  BY <1>5 DEF Whole, Progress, OwnProgress
<1>9. /\ size' \in [Threads -> Int] /\ got' \in [Threads -> Seq(Block)] /\ crashed' \in BOOLEAN
  BY <1>1, <1>2 DEF TypeOK, ReadType, NoteType
<1> QED
  BY <1>1, <1>2, <1>3, <1>6, <1>7, <1>8, <1>9, ReadStepKeeps

LEMMA SeekEndInv ==
  ASSUME IInv, NEW t \in Threads, SeekEnd(t)
  PROVE  IInv'
<1>1. TypeOK /\ got[t] = <<>>
  BY DEF IInv, GotInv, Reading, SeekEnd, Stands
<1>2. /\ ~crashed /\ pc[t] = "fseek" /\ Step(t, "ftell") /\ Position(Len(Flushed))
      /\ UNCHANGED <<path, own, mode, poolVars, noteVars, size, got>>
  BY DEF SeekEnd, Stands, ReadFrame
<1>3. pc[t] \in Opened /\ pc[t] \in ReadSteps /\ "ftell" \in ReadSteps
  BY <1>2 DEF Opened, ReadSteps
<1>4. pc' = [pc EXCEPT ![t] = "ftell"]
  BY <1>2 DEF Step
<1>5. pc'[t] = "ftell" /\ pc'[Other(t)] = pc[Other(t)]
  BY <1>1, <1>4, Others DEF TypeOK, ReadType
<1>6. file.open => Len(Flushed) \in Nat
  BY <1>1, OpenFile, LenProperties DEF TypeOK
<1>7. /\ DiskType' /\ FileType' /\ crashed' \in BOOLEAN
      /\ file'.open = file.open /\ (file' = Null <=> file = Null)
      /\ ~crashed' => file.open
      /\ file.open => /\ files'[file'.inode] = Flushed /\ file'.out = <<>>
                      /\ file'.pos = Len(Flushed) /\ crashed' = crashed
  BY <1>1, <1>2, <1>6, PositionEffect DEF TypeOK
<1>8. NullHasCause' /\ ClosedHasCause' /\ CrashNeedsCause'
  BY <1>2, <1>3, <1>5, <1>7, CauseKept DEF noteVars
<1>9. Whole(t)'
  BY <1>5, <1>7 DEF Whole, Progress, OwnProgress
<1>10. /\ size' \in [Threads -> Int] /\ got' \in [Threads -> Seq(Block)]
       /\ fails' \in [Threads -> BOOLEAN]
  BY <1>1, <1>2 DEF TypeOK, ReadType, NoteType, noteVars
<1> QED
  BY <1>1, <1>2, <1>3, <1>7, <1>8, <1>9, <1>10, ReadStepKeeps DEF noteVars

LEMMA IntsOfRange ==
  ASSUME NEW n \in Nat
  PROVE  \A k \in IntsOf(n) : k \in Int /\ k <= n /\ (n <= MaxInt => k = n)
  BY MaxIntAssumption DEF IntsOf

LEMMA TellInv ==
  ASSUME IInv, NEW t \in Threads, Tell(t)
  PROVE  IInv'
<1>1. TypeOK /\ got[t] = <<>>
  BY DEF IInv, GotInv, Reading, Tell, Stands
<1>2. /\ ~crashed /\ pc[t] = "ftell" /\ Step(t, "rewind")
      /\ crashed' = ~file.open
      /\ UNCHANGED <<path, own, mode, poolVars, noteVars, files, file, got>>
  BY DEF Tell, Stands, ReadFrame
<1>3. pc[t] \in Opened /\ pc[t] \in ReadSteps /\ "rewind" \in ReadSteps
  BY <1>2 DEF Opened, ReadSteps
<1>4. pc' = [pc EXCEPT ![t] = "rewind"]
  BY <1>2 DEF Step
<1>5. pc'[t] = "rewind" /\ pc'[Other(t)] = pc[Other(t)] /\ alone'[t] = alone[t]
  <2>1. pc'[t] = "rewind" /\ pc'[Other(t)] = pc[Other(t)]
    BY <1>1, <1>4, Others DEF TypeOK, ReadType
  <2> QED
    BY <1>1, <1>2, <2>1, TouchEffect DEF TypeOK, Step
<1>6. file.open => At \in Nat
  BY <1>1, OpenFile DEF TypeOK
<1>7. size' \in [Threads -> Int] /\ size'[Other(t)] = size[Other(t)]
      /\ (file.open => size'[t] \in IntsOf(At))
  <2>1. CASE file.open
    <3>1. PICK n \in IntsOf(At) : size' = [size EXCEPT ![t] = n]
      BY <2>1 DEF Tell
    <3>2. n \in Int
      BY <1>6, <2>1, IntsOfRange
    <3> QED
      BY <1>1, <3>1, <3>2, Others DEF TypeOK, ReadType
  <2>2. CASE ~file.open
    BY <1>1, <2>2 DEF Tell, TypeOK, ReadType
  <2> QED
    BY <2>1, <2>2
<1>8. NullHasCause' /\ ClosedHasCause' /\ CrashNeedsCause'
  BY <1>2, <1>3, <1>5, CauseKept DEF noteVars
<1>9. Whole(t)'
  <2> SUFFICES ASSUME alone'[t], ~crashed' PROVE Progress(t)' /\ OwnProgress(t)'
    BY DEF Whole
  <2>1. file.open /\ file.out = <<>> /\ file.pos = Len(files[file.inode])
    BY <1>2, <1>5 DEF IInv, Whole, Progress
  <2>2. At = Len(files[file.inode])
    BY <1>1, <2>1, OpenFile DEF At, TypeOK
  <2>3. Sized(size'[t], files[file.inode])
    BY <1>6, <1>7, <2>1, <2>2, IntsOfRange DEF Sized
  <2> QED
    BY <1>2, <1>5, <2>1, <2>3 DEF Progress, OwnProgress
<1>10. got' \in [Threads -> Seq(Block)] /\ fails' \in [Threads -> BOOLEAN] /\ crashed' \in BOOLEAN
  <2>1. file.open \in BOOLEAN
    BY <1>1, NullFields DEF TypeOK, FileType, Stream
  <2> QED
    BY <1>1, <1>2, <2>1 DEF TypeOK, ReadType, NoteType, noteVars
<1>11. DiskType' /\ FileType'
  BY <1>1, <1>2 DEF TypeOK, DiskType, FileType
<1> QED
  BY <1>1, <1>2, <1>3, <1>7, <1>8, <1>9, <1>10, <1>11, ReadStepKeeps DEF noteVars

LEMMA RewindInv ==
  ASSUME IInv, NEW t \in Threads, Rewind(t)
  PROVE  IInv'
<1>1. TypeOK /\ got[t] = <<>>
  BY DEF IInv, GotInv, Reading, Rewind, Stands
<1>2. /\ ~crashed /\ pc[t] = "rewind" /\ Step(t, "fread") /\ Position(0)
      /\ size[t] >= 0 /\ UNCHANGED <<path, own, mode, poolVars, noteVars, size, got>>
  BY DEF Rewind, Stands, ReadFrame
<1>3. pc[t] \in Opened /\ pc[t] \in ReadSteps /\ "fread" \in ReadSteps
  BY <1>2 DEF Opened, ReadSteps
<1>4. pc' = [pc EXCEPT ![t] = "fread"]
  BY <1>2 DEF Step
<1>5. pc'[t] = "fread" /\ pc'[Other(t)] = pc[Other(t)] /\ alone'[t] = alone[t]
  <2>1. pc'[t] = "fread" /\ pc'[Other(t)] = pc[Other(t)]
    BY <1>1, <1>4, Others DEF TypeOK, ReadType
  <2> QED
    BY <1>1, <1>2, <2>1, TouchEffect DEF TypeOK, Step
<1>6. /\ DiskType' /\ FileType' /\ crashed' \in BOOLEAN
      /\ file'.open = file.open /\ (file' = Null <=> file = Null)
      /\ ~crashed' => file.open
      /\ file.open => /\ files'[file'.inode] = Flushed /\ file'.out = <<>>
                      /\ file'.pos = 0 /\ crashed' = crashed
  BY <1>1, <1>2, PositionEffect DEF TypeOK
<1>7. NullHasCause' /\ ClosedHasCause' /\ CrashNeedsCause'
  BY <1>2, <1>3, <1>5, <1>6, CauseKept DEF noteVars
<1>8. got'[t] = <<>> /\ Len(got'[t]) = 0 /\ Len(got'[t]) <= size'[t]
  <2>1. got'[t] = <<>> /\ size'[t] \in Int /\ size'[t] >= 0
    BY <1>1, <1>2 DEF TypeOK, ReadType
  <2> QED
    BY <2>1, EmptySeq
<1>9. Whole(t)'
  <2> SUFFICES ASSUME alone'[t], ~crashed' PROVE Progress(t)' /\ OwnProgress(t)'
    BY DEF Whole
  <2>1. file.open /\ file.out = <<>> /\ Sized(size[t], files[file.inode])
    BY <1>2, <1>5 DEF IInv, Whole, Progress
  <2>2. files'[file'.inode] = files[file.inode]
    BY <1>6, <2>1 DEF Flushed
  <2>3. SubSeq(files'[file'.inode], 1, 0) = <<>>
    BY SubSeqEmpty
  <2> QED
    BY <1>2, <1>5, <1>6, <1>8, <2>1, <2>2, <2>3 DEF Progress, OwnProgress
<1>10. /\ size' \in [Threads -> Int] /\ got' \in [Threads -> Seq(Block)]
       /\ fails' \in [Threads -> BOOLEAN]
  BY <1>1, <1>2 DEF TypeOK, ReadType, NoteType, noteVars
<1> QED
  BY <1>1, <1>2, <1>3, <1>6, <1>7, <1>8, <1>9, <1>10, ReadStepKeeps DEF noteVars

LEMMA NoMemoryInv ==
  ASSUME IInv, NEW t \in Threads, NoMemory(t)
  PROVE  IInv'
<1>1. /\ crashed' = TRUE /\ size[t] < 0
      /\ UNCHANGED <<path, files, file, mode, own, readVars, alone, poolVars, noteVars>>
  BY DEF NoMemory, ReadFrame
<1> USE DEF readVars, poolVars, noteVars
<1>2. TypeOK'
  BY <1>1 DEF IInv, TypeOK, DiskType, FileType, ReadType, PoolType, NoteType
<1>3. GotInv' /\ HasPath' /\ BeginsAlone' /\ CallbackIsAlone'
  BY <1>1 DEF IInv, GotInv, HasPath, BeginsAlone, CallbackIsAlone
<1>4. NullHasCause' /\ ClosedHasCause' /\ CrashNeedsCause'
  BY <1>1 DEF IInv, NullHasCause, ClosedHasCause, CrashNeedsCause
<1>5. \A u \in Threads : Whole(u)'
  BY <1>1 DEF Whole
<1> QED
  BY <1>2, <1>3, <1>4, <1>5 DEF IInv

\* What fread can give is within the file.
LEMMA AvailableBounds ==
  ASSUME DiskType, FileType, file.open, NEW n \in Nat
  PROVE  /\ Available(n) \in 0..n
         /\ Available(n) > 0 => At + Available(n) <= Len(Flushed)
<1>1. Flushed \in Seq(Block) /\ At \in Nat
  BY OpenFile
<1>2. Len(Flushed) \in Nat
  BY <1>1, LenProperties
<1> DEFINE held == IF Unreadable THEN 0 ELSE Len(Flushed) - At
<1>3. held \in Int /\ held <= (IF At > Len(Flushed) THEN 0 ELSE Len(Flushed) - At)
  BY <1>1, <1>2
<1>4. Available(n) = CASE held < 0 -> 0 [] n < held -> n [] OTHER -> held
  BY DEF Available
<1> HIDE DEF held
<1>5. \/ held < 0 /\ Available(n) = 0
      \/ held >= 0 /\ n < held /\ Available(n) = n
      \/ held >= 0 /\ n >= held /\ Available(n) = held
  BY <1>3, <1>4
<1> QED
  BY <1>1, <1>2, <1>3, <1>5

\* A turn of the loop that asks fread for what is missing.
LEMMA FreadMore ==
  ASSUME IInv, NEW t \in Threads, Stands(t, "fread"), Len(got[t]) < size[t],
         FreadTo(t, "fread")
  PROVE  IInv'
<1> DEFINE n == Available(size[t] - Len(got[t]))
           pos == IF file.open THEN At + n ELSE 0
           more == SubSeq(Flushed, At + 1, At + n)
<1>1. TypeOK
  BY DEF IInv
<1>2. /\ ~crashed /\ pc[t] = "fread" /\ Step(t, "fread") /\ Position(pos)
      /\ UNCHANGED <<path, own, mode, poolVars, noteVars, size>>
      /\ got' = [got EXCEPT ![t] = IF file.open THEN got[t] \o more ELSE got[t]]
  BY DEF Stands, FreadTo, ReadFrame
<1>3. /\ pc[t] \in Opened /\ pc[t] \in ReadSteps /\ "fread" \in ReadSteps
      /\ got[t] \in Seq(Block) /\ Len(got[t]) \in Nat /\ size[t] \in Nat
  BY <1>1, <1>2, LenProperties DEF Opened, ReadSteps, TypeOK, ReadType
<1>4. pc' = [pc EXCEPT ![t] = "fread"]
  BY <1>2 DEF Step
<1>5. pc'[t] = "fread" /\ pc'[Other(t)] = pc[Other(t)] /\ alone'[t] = alone[t]
  <2>1. pc'[t] = "fread" /\ pc'[Other(t)] = pc[Other(t)]
    BY <1>1, <1>4, Others DEF TypeOK, ReadType
  <2> QED
    BY <1>1, <1>2, <2>1, TouchEffect DEF TypeOK, Step
<1>6. file.open => /\ At \in Nat /\ Flushed \in Seq(Block) /\ Len(Flushed) \in Nat
                   /\ n \in 0..(size[t] - Len(got[t])) /\ (n > 0 => At + n <= Len(Flushed))
  <2>1. size[t] - Len(got[t]) \in Nat
    BY <1>3
  <2> QED
    BY <1>1, <2>1, OpenFile, AvailableBounds, LenProperties DEF TypeOK
<1>7. file.open => more \in Seq(Block) /\ Len(more) = n
  <2> SUFFICES ASSUME file.open PROVE more \in Seq(Block) /\ Len(more) = n
    OBVIOUS
  <2>1. CASE n = 0
    <3>1. At + 1 \in Int /\ At + n \in Int /\ At + n < At + 1
      BY <1>6, <2>1
    <3> QED
      BY <2>1, <3>1, SubSeqEmpty, EmptySeq
  <2>2. CASE n > 0
    <3>1. At + 1 \in Int /\ At + n \in Int /\ At + 1 <= At + n /\ (At + n) - (At + 1) + 1 = n
      BY <1>6, <2>2
    <3>2. \A i \in (At + 1)..(At + n) : i \in 1..Len(Flushed)
      BY <1>6, <2>2
    <3>3. \A i \in (At + 1)..(At + n) : Flushed[i] \in Block
      BY <1>6, <3>2, ElementOfSeq
    <3> QED
      BY <3>1, <3>3, SubSeqProperties
  <2> QED
    BY <1>6, <2>1, <2>2
<1>8. /\ got' \in [Threads -> Seq(Block)] /\ got'[Other(t)] = got[Other(t)]
      /\ got'[t] = IF file.open THEN got[t] \o more ELSE got[t]
      /\ got'[t] \in Seq(Block) /\ Len(got'[t]) <= size'[t]
      /\ file.open => Len(got'[t]) = Len(got[t]) + n
  <2>1. file.open => got[t] \o more \in Seq(Block) /\ Len(got[t] \o more) = Len(got[t]) + n
    BY <1>3, <1>7, ConcatProperties
  <2>2. /\ got' \in [Threads -> Seq(Block)] /\ got'[Other(t)] = got[Other(t)]
        /\ got'[t] = IF file.open THEN got[t] \o more ELSE got[t]
    BY <1>1, <1>2, <1>3, <2>1, Others DEF TypeOK, ReadType
  <2>3. CASE file.open
    <3>1. got'[t] \in Seq(Block) /\ Len(got'[t]) = Len(got[t]) + n /\ size'[t] = size[t]
      BY <1>2, <2>1, <2>2, <2>3
    <3>2. n \in 0..(size[t] - Len(got[t]))
      BY <1>6, <2>3
    <3>3. Len(got[t]) + n <= size[t]
      <4> HIDE DEF n
      <4> QED
        BY <1>3, <3>2
    <3> HIDE DEF n, more
    <3> QED
      BY <2>2, <3>1, <3>3
  <2>4. CASE ~file.open
    BY <1>2, <1>3, <2>2, <2>4
  <2> QED
    BY <2>2, <2>3, <2>4
<1>9. file.open => pos \in Nat
  BY <1>6
<1> HIDE DEF n, pos, more
<1>10. /\ DiskType' /\ FileType' /\ crashed' \in BOOLEAN
       /\ file'.open = file.open /\ (file' = Null <=> file = Null)
       /\ ~crashed' => file.open
       /\ file.open => /\ files'[file'.inode] = Flushed /\ file'.out = <<>>
                       /\ file'.pos = pos /\ crashed' = crashed
  BY <1>1, <1>2, <1>9, PositionEffect DEF TypeOK
<1>11. NullHasCause' /\ ClosedHasCause' /\ CrashNeedsCause'
  BY <1>2, <1>3, <1>5, <1>10, CauseKept DEF noteVars
<1>12. Whole(t)'
  <2> SUFFICES ASSUME alone'[t], ~crashed' PROVE Progress(t)' /\ OwnProgress(t)'
    BY DEF Whole
  <2> DEFINE disk == files[file.inode]
  <2>1. /\ file.open /\ file.out = <<>> /\ Sized(size[t], disk)
        /\ file.pos = Len(got[t]) /\ got[t] = SubSeq(disk, 1, Len(got[t]))
    BY <1>2, <1>5 DEF IInv, Whole, Progress
  <2>2. Flushed = disk /\ disk \in Seq(Block) /\ files'[file'.inode] = disk
    BY <1>1, <1>10, <2>1, OpenFile DEF Flushed, TypeOK
  <2>3. At = Len(got[t]) /\ pos = Len(got'[t])
    <3>1. Len(file.out) = 0
      BY <2>1, EmptySeq
    <3> QED
      BY <1>3, <1>6, <1>8, <2>1, <3>1 DEF At, pos
  <2>4. got'[t] = SubSeq(disk, 1, Len(got'[t]))
    <3> HIDE DEF disk
    <3>1. /\ 1 \in 1..(Len(disk) + 1) /\ Len(got[t]) \in (1 - 1)..Len(disk)
          /\ Len(got[t]) + n \in Len(got[t])..Len(disk)
      <4>1. size[t] <= Len(disk) /\ Len(disk) \in Nat
        BY <2>1, <2>2, LenProperties DEF Sized
      <4> QED
        BY <1>3, <1>6, <2>1, <4>1
    <3>2. SubSeq(disk, 1, Len(got[t])) \o SubSeq(disk, Len(got[t]) + 1, Len(got[t]) + n)
            = SubSeq(disk, 1, Len(got[t]) + n)
      BY <2>2, <3>1, ConcatAdjacentSubSeq
    <3>3. got'[t] = got[t] \o SubSeq(disk, Len(got[t]) + 1, Len(got[t]) + n)
      BY <1>8, <2>1, <2>2, <2>3 DEF more
    <3> QED
      BY <1>8, <2>1, <3>2, <3>3
  <2> QED
    BY <1>2, <1>5, <1>10, <2>1, <2>2, <2>3, <2>4 DEF Progress, OwnProgress
<1>13. size' \in [Threads -> Int] /\ fails' \in [Threads -> BOOLEAN]
  BY <1>1, <1>2 DEF TypeOK, ReadType, NoteType, noteVars
<1> QED
  BY <1>1, <1>2, <1>3, <1>8, <1>10, <1>11, <1>12, <1>13, ReadStepKeeps DEF noteVars

\* The end of the loop: all of it was read.
LEMMA FreadEnds ==
  ASSUME IInv, NEW t \in Threads, Stands(t, "fread"), ~(Len(got[t]) < size[t]),
         Step(t, "return"), ReadFrame, UNCHANGED <<files, file, size, crashed>>,
         got' = [got EXCEPT ![t] = Returned(t, got[t])]
  PROVE  IInv'
<1>1. TypeOK
  BY DEF IInv
<1>2. /\ ~crashed /\ pc[t] = "fread"
      /\ UNCHANGED <<path, own, mode, poolVars, noteVars>>
  BY DEF Stands, ReadFrame
<1>3. pc[t] \in Opened /\ pc[t] \in ReadSteps /\ "return" \in ReadSteps
  BY <1>2 DEF Opened, ReadSteps
<1>4. pc' = [pc EXCEPT ![t] = "return"]
  BY DEF Step
<1>5. pc'[t] = "return" /\ pc'[Other(t)] = pc[Other(t)] /\ alone'[t] = alone[t]
  <2>1. pc'[t] = "return" /\ pc'[Other(t)] = pc[Other(t)]
    BY <1>1, <1>4, Others DEF TypeOK, ReadType
  <2> QED
    BY <1>1, <1>2, <2>1, TouchEffect DEF TypeOK, Step
<1>6. NullHasCause' /\ ClosedHasCause' /\ CrashNeedsCause'
  BY <1>2, <1>3, <1>5, CauseKept DEF noteVars
<1>7. /\ Len(got[t]) <= size[t] /\ got[t] \in Seq(Block) /\ size[t] \in Int
      /\ Len(got[t]) \in Nat
  BY <1>1, <1>2, LenProperties DEF TypeOK, ReadType
<1>8. /\ got' \in [Threads -> Seq(Block)] /\ got'[t] = Returned(t, got[t])
      /\ got'[Other(t)] = got[Other(t)] /\ Len(got'[t]) <= size'[t]
  <2>1. Returned(t, got[t]) \in Seq(Block) /\ Len(Returned(t, got[t])) <= Len(got[t])
    BY <1>7, CStringType DEF Returned
  <2>2. Len(Returned(t, got[t])) <= size[t]
    BY <1>7, <2>1, LenProperties
  <2> QED
    BY <1>1, <2>1, <2>2, Others DEF TypeOK, ReadType
<1>11. Whole(t)'
  <2> SUFFICES ASSUME alone'[t], ~crashed' PROVE Progress(t)' /\ OwnProgress(t)'
    BY DEF Whole
  <2> DEFINE disk == files[file.inode]
  <2>1. /\ file.open /\ file.out = <<>> /\ Sized(size[t], disk)
        /\ got[t] = SubSeq(disk, 1, Len(got[t]))
    BY <1>2, <1>5 DEF IInv, Whole, Progress
  <2>2. disk \in Seq(Block)
    BY <1>1, <2>1, OpenFile DEF TypeOK
  <2>3. ASSUME Len(disk) <= MaxInt PROVE got[t] = disk
    <3>1. Len(got[t]) = Len(disk)
      BY <1>7, <2>1, <2>3 DEF Sized
    <3> QED
      BY <2>1, <2>2, <3>1, SubSeqFull
  <2> QED
    BY <1>5, <1>8, <2>1, <2>3 DEF Progress, OwnProgress
<1>9. DiskType' /\ FileType'
  BY <1>1, <1>2 DEF TypeOK, DiskType, FileType
<1>10. /\ size' \in [Threads -> Int] /\ crashed' \in BOOLEAN /\ fails' \in [Threads -> BOOLEAN]
  BY <1>1, <1>2 DEF TypeOK, ReadType, NoteType, noteVars
<1> QED
  BY <1>1, <1>2, <1>3, <1>6, <1>8, <1>9, <1>10, <1>11, ReadStepKeeps DEF noteVars

LEMMA ReadStepInv ==
  ASSUME IInv, NEW t \in Threads, ReadStep(t)
  PROVE  IInv'
<1>1. CASE Fread(t)
  BY <1>1, FreadMore, FreadEnds DEF Fread
<1> QED
  BY <1>1, CheckInv, ReopenInv, SeekEndInv, TellInv, RewindInv, NoMemoryInv DEF ReadStep

-----------------------------------------------------------------------------
(* Steps that leave the file's blocks and the FILE alone.                  *)

LEMMA QuietKeeps ==
  ASSUME IInv, ~crashed, NEW t \in Threads, NEW next \in Steps \ Opened,
         pc' = [pc EXCEPT ![t] = next],
         UNCHANGED <<files, file, mode, closes, writes>>,
         path' \in 0..Len(files), own' \in 0..Len(files),
         IF t = "main" THEN next \in OwnSteps <=> own' # 0
                       ELSE next \notin OwnSteps /\ own' = own,
         size' \in [Threads -> Int], got' \in [Threads -> Seq(Block)],
         alone' \in [Threads -> BOOLEAN], fails' \in [Threads -> BOOLEAN],
         size'[Other(t)] = size[Other(t)], got'[Other(t)] = got[Other(t)],
         alone'[Other(t)] = alone[Other(t)], fails'[Other(t)] = fails[Other(t)],
         PoolType', crashed' \in BOOLEAN, crashed' => fails'[t] \/ size'[t] < 0,
         next \notin Reading => got'[t] = <<>>,
         next \in ReadSteps => mode \in Modes,
         (t = "main" /\ next = "idle") => alone'["main"] = TRUE,
         CallbackIsAlone', alone'[t] /\ ~crashed' => OwnProgress(t)'
  PROVE  IInv'
<1>1. TypeOK
  BY DEF IInv
<1>2. pc' \in [Threads -> Steps] /\ pc'[t] = next /\ pc'[Other(t)] = pc[Other(t)]
  BY <1>1, Others DEF TypeOK, ReadType
<1>3. DiskType' /\ FileType' /\ NoteType'
  BY <1>1 DEF TypeOK, DiskType, FileType, NoteType
<1>4. ReadType'
  <2>1. ASSUME NEW u \in Threads, pc'[u] \in {"fread", "return"} PROVE Len(got'[u]) <= size'[u]
    <3>1. u = Other(t)
      BY <1>2, <2>1, Others DEF Opened
    <3> QED
      BY <1>1, <1>2, <2>1, <3>1 DEF TypeOK, ReadType
  <2>2. pc'["worker"] \notin OwnSteps /\ (pc'["main"] \in OwnSteps <=> own' # 0)
    BY <1>1, <1>2, Others DEF TypeOK, ReadType, Threads
  <2> QED
    BY <1>2, <2>1, <2>2 DEF ReadType
<1>5. GotInv'
  <2>1. pc'[t] \notin Reading => got'[t] = <<>>
    BY <1>2
  <2>2. pc'[Other(t)] \notin Reading => got'[Other(t)] = <<>>
    BY <1>2, Others DEF IInv, GotInv
  <2> QED
    BY <2>1, <2>2, Others DEF GotInv
<1>6. HasPath'
  BY <1>2, Others DEF IInv, HasPath
<1>7. BeginsAlone'
  <2>1. CASE t = "main"
    BY <1>2, <2>1 DEF BeginsAlone
  <2>2. CASE t = "worker"
    BY <1>2, <2>2, Others DEF IInv, BeginsAlone
  <2> QED
    BY <2>1, <2>2 DEF Threads
<1>8. NullHasCause' /\ ClosedHasCause' /\ CrashNeedsCause'
  BY <1>2, Others DEF IInv, NullHasCause, ClosedHasCause, CrashNeedsCause, Opened
<1>9. ASSUME NEW u \in Threads PROVE Whole(u)'
  <2>1. CASE u = t
    BY <1>2, <2>1 DEF Whole, Progress, OwnProgress, Opened
  <2>2. CASE u = Other(t)
    <3>1. pc[u] \in OwnSteps => own' = own
      BY <1>1, <2>2, Others DEF TypeOK, ReadType, Threads
    <3>2. /\ pc'[u] = pc[u] /\ size'[u] = size[u] /\ got'[u] = got[u]
          /\ alone'[u] = alone[u] /\ Whole(u)
      BY <1>2, <2>2 DEF IInv
    <3>3. alone'[u] /\ ~crashed' => Progress(u)'
      BY <3>2 DEF Whole, Progress
    <3>4. alone'[u] /\ ~crashed' => OwnProgress(u)'
      BY <3>1, <3>2 DEF Whole, OwnProgress, OwnSteps
    <3> QED
      BY <3>3, <3>4 DEF Whole
  <2> QED
    BY <2>1, <2>2, Others
<1> QED
  BY <1>3, <1>4, <1>5, <1>6, <1>7, <1>8, <1>9 DEF IInv, TypeOK

LEMMA Names ==
  /\ "main" \in Threads /\ "worker" \in Threads
  /\ {"idle", "unread", "check"} \subseteq Steps \ (Opened \cup OwnSteps) /\ "check" \in ReadSteps
  /\ OwnSteps \subseteq Steps \ (Opened \cup ReadSteps \cup {"idle"})
  /\ {"ownfread", "ownreturn", "sysfread", "sysreturn", "ownfwrite"} \subseteq OwnSteps
  /\ {"idle", "unread"} \cap (ReadSteps \cup Reading) = {}
  /\ "check" \notin Reading /\ "ownfwrite" \notin Reading
  /\ {"ownfread", "ownreturn", "sysfread", "sysreturn"} \subseteq Reading
  BY DEF Threads, Steps, Opened, OwnSteps, ReadSteps, Reading

\* The callbacks, a request and the removal of the file.
LEMMA CallbackInv ==
  ASSUME IInv, Callback \/ Return \/ OnReadCb \/ Remove \/ RemoveFile
  PROVE  IInv'
<1>1. /\ TypeOK /\ ~crashed /\ pc["main"] = "idle" /\ got["main"] = <<>>
      /\ UNCHANGED <<files, file, mode, own, readVars, crashed, alone, fails, closes, writes>>
      /\ path' \in {path, 0}
  BY Names DEF IInv, GotInv, Callback, Return, OnReadCb, Remove, RemoveFile, Unlink, Calls,
       Stands, PoolFrame, FileFrame, diskVars, objectVars, noteVars
<1>2. pc' = [pc EXCEPT !["main"] = "idle"] /\ pc' = pc
  BY <1>1 DEF TypeOK, ReadType, readVars
<1>3. PoolType'
  <2>1. CASE Callback \/ Return
    BY <1>1, <1>2, <2>1 DEF Callback, Return, Pool!Call, Pool!Return, TypeOK, PoolType
  <2>2. CASE OnReadCb
    BY <1>1, <1>2, <2>2 DEF OnReadCb, Pool!Ask, TypeOK, PoolType
  <2>3. CASE Remove \/ RemoveFile
    BY <1>1, <1>2, <2>3 DEF Remove, RemoveFile, Unlink, poolVars, TypeOK, PoolType
  <2> QED
    BY <2>1, <2>2, <2>3
<1>4. path' \in 0..Len(files) /\ own' \in 0..Len(files) /\ own' = 0
  BY <1>1, LenProperties, Names DEF TypeOK, DiskType, ReadType
<1>5. alone'["main"] = TRUE
  BY <1>1 DEF IInv, BeginsAlone
<1>6. /\ size' \in [Threads -> Int] /\ got' \in [Threads -> Seq(Block)]
      /\ alone' \in [Threads -> BOOLEAN] /\ fails' \in [Threads -> BOOLEAN]
      /\ crashed' \in BOOLEAN
  BY <1>1 DEF TypeOK, ReadType, NoteType, readVars
<1>7. CallbackIsAlone' /\ OwnProgress("main")'
  BY <1>1, <1>2, <1>5 DEF CallbackIsAlone, OwnProgress
<1> QED
  BY <1>1, <1>2, <1>3, <1>4, <1>5, <1>6, <1>7, Names, QuietKeeps DEF readVars

\* A read of the main thread begins.
LEMMA ReadInv ==
  ASSUME IInv, Read
  PROVE  IInv'
<1>1. /\ TypeOK /\ ~crashed /\ pc["main"] = "idle" /\ got["main"] = <<>> /\ mode # "none"
      /\ UNCHANGED <<path, files, file, mode, own, size, got, crashed, alone, fails, closes,
                     writes, poolVars>>
      /\ pc' = [pc EXCEPT !["main"] = "check"]
  BY Names DEF IInv, GotInv, Read, Start, Calls, Stands, FileFrame, diskVars, objectVars
<1>2. pc'["main"] = "check" /\ pc'["worker"] = pc["worker"]
  BY <1>1, Names DEF TypeOK, ReadType
<1>3. PoolType'
  BY <1>1, <1>2 DEF poolVars, TypeOK, PoolType
<1>4. path' \in 0..Len(files) /\ own' \in 0..Len(files) /\ own' = 0 /\ mode \in Modes
  BY <1>1, Names DEF TypeOK, DiskType, FileType, ReadType
<1>5. alone'["main"] = TRUE
  BY <1>1 DEF IInv, BeginsAlone
<1>6. /\ size' \in [Threads -> Int] /\ got' \in [Threads -> Seq(Block)]
      /\ alone' \in [Threads -> BOOLEAN] /\ fails' \in [Threads -> BOOLEAN]
      /\ crashed' \in BOOLEAN
  BY <1>1 DEF TypeOK, ReadType, NoteType
<1>7. CallbackIsAlone' /\ OwnProgress("main")'
  BY <1>2, <1>5 DEF CallbackIsAlone, OwnProgress
<1> QED
  BY <1>1, <1>3, <1>4, <1>5, <1>6, <1>7, Names, QuietKeeps

\* The locals of a read are gone when it returns.
LEMMA LeaveEffect ==
  ASSUME TypeOK, NEW t \in Threads, Leave(t)
  PROVE  /\ pc' = [pc EXCEPT ![t] = "idle"] /\ got'[t] = <<>> /\ alone'[t] = TRUE
         /\ pc'[t] = "idle" /\ pc'[Other(t)] = pc[Other(t)]
         /\ size' \in [Threads -> Int] /\ got' \in [Threads -> Seq(Block)]
         /\ alone' \in [Threads -> BOOLEAN] /\ fails' \in [Threads -> BOOLEAN]
         /\ size'[Other(t)] = size[Other(t)] /\ got'[Other(t)] = got[Other(t)]
         /\ alone'[Other(t)] = alone[Other(t)] /\ fails'[Other(t)] = fails[Other(t)]
<1>1. pc' = [pc EXCEPT ![t] = "idle"] /\ pc'[t] = "idle" /\ pc'[Other(t)] = pc[Other(t)]
  BY Others DEF Leave, TypeOK, ReadType
<1>2. /\ got' \in [Threads -> Seq(Block)] /\ got'[t] = <<>>
      /\ got'[Other(t)] = got[Other(t)]
  <2>1. <<>> \in Seq(Block)
    BY EmptySeq
  <2> QED
    BY <2>1, Others DEF Leave, TypeOK, ReadType
<1>3. size' \in [Threads -> Int] /\ size'[Other(t)] = size[Other(t)]
  <2>1. 0 \in Nat
    OBVIOUS
  <2> QED
    BY <2>1, Others DEF Leave, TypeOK, ReadType
<1>4. /\ alone' \in [Threads -> BOOLEAN] /\ alone'[t] = TRUE
      /\ alone'[Other(t)] = alone[Other(t)]
  BY Others DEF Leave, TypeOK, NoteType
<1>5. fails' \in [Threads -> BOOLEAN] /\ fails'[Other(t)] = fails[Other(t)]
  BY Others DEF Leave, TypeOK, NoteType
<1> QED
  BY <1>1, <1>2, <1>3, <1>4, <1>5

\* read and readFile return.
LEMMA ReadReturnsInv ==
  ASSUME IInv, ReadReturns \/ ReadFileReturns
  PROVE  IInv'
<1>1. /\ TypeOK /\ ~crashed /\ Leave("main")
      /\ UNCHANGED <<path, files, file, mode, crashed, closes, writes, poolVars>>
  BY DEF IInv, ReadReturns, ReadFileReturns, Stands, FileFrame, OwnFrame, diskVars, objectVars
<1>2. pc' = [pc EXCEPT !["main"] = "idle"] /\ pc'["main"] = "idle"
      /\ pc'["worker"] = pc["worker"]
  BY <1>1, Names, Others, LeaveEffect
<1>3. PoolType'
  BY <1>1, <1>2 DEF poolVars, TypeOK, PoolType
<1>4. own' = 0
  BY <1>1, Names
  DEF ReadReturns, ReadFileReturns, Stands, FileFrame, TypeOK, ReadType, OwnSteps
<1>5. path' \in 0..Len(files) /\ own' \in 0..Len(files)
  BY <1>1, <1>4, LenProperties DEF TypeOK, DiskType
<1>6. CallbackIsAlone' /\ OwnProgress("main")' /\ crashed' \in BOOLEAN
  BY <1>1, <1>2 DEF CallbackIsAlone, OwnProgress, TypeOK, NoteType
<1> QED
  BY <1>1, <1>2, <1>3, <1>4, <1>5, <1>6, Names, LeaveEffect, QuietKeeps

\* The worker takes a job, which it reads for only if the object has a path.
LEMMA BeginInv ==
  ASSUME IInv, Begin
  PROVE  IInv'
<1> DEFINE next == IF mode = "none" THEN "unread" ELSE "check"
<1>1. /\ TypeOK /\ ~crashed /\ pc["worker"] = "idle" /\ got["worker"] = <<>> /\ lock = "free"
      /\ UNCHANGED <<path, files, file, mode, own, size, got, crashed, alone, fails, closes,
                     writes>>
      /\ lock' = "worker" /\ asked' = asked /\ ready' = ready
      /\ pc' = [pc EXCEPT !["worker"] = next]
  BY Names
  DEF IInv, GotInv, Begin, Pool!Begin, Stands, WorkerFrame, diskVars, objectVars
<1>2. pc'["main"] = pc["main"] /\ pc'["worker"] = next
  BY <1>1, Names DEF TypeOK, ReadType
<1>3. PoolType'
  BY <1>1, <1>2 DEF TypeOK, PoolType
<1>4. path' \in 0..Len(files) /\ own' \in 0..Len(files) /\ (next = "check" => mode \in Modes)
  BY <1>1 DEF TypeOK, DiskType, FileType
<1>5. /\ size' \in [Threads -> Int] /\ got' \in [Threads -> Seq(Block)]
      /\ alone' \in [Threads -> BOOLEAN] /\ fails' \in [Threads -> BOOLEAN]
      /\ crashed' \in BOOLEAN
  BY <1>1 DEF TypeOK, ReadType, NoteType
<1>6. CallbackIsAlone' /\ OwnProgress("worker")'
  BY <1>1, <1>2 DEF CallbackIsAlone, OwnProgress
<1>7. next \in Steps \ Opened /\ next \notin OwnSteps
      /\ next \notin Reading /\ (next \in ReadSteps => next = "check")
  BY Names
<1> HIDE DEF next
<1> QED
  BY <1>1, <1>3, <1>4, <1>5, <1>6, <1>7, Names, QuietKeeps

LEMMA FinishInv ==
  ASSUME IInv, Finish
  PROVE  IInv'
<1>1. /\ TypeOK /\ ~crashed /\ Leave("worker")
      /\ lock' = "free" /\ ready' = TRUE /\ asked' = asked
      /\ UNCHANGED <<path, files, file, mode, own, crashed, closes, writes>>
  BY DEF IInv, Finish, Pool!Finish, Stands, WorkerFrame, diskVars, objectVars
<1>2. pc' = [pc EXCEPT !["worker"] = "idle"] /\ pc'["worker"] = "idle"
      /\ pc'["main"] = pc["main"]
  BY <1>1, Names, Others, LeaveEffect
<1>3. PoolType'
  BY <1>1, <1>2 DEF TypeOK, PoolType
<1>4. path' \in 0..Len(files) /\ own' \in 0..Len(files) /\ crashed' \in BOOLEAN
  BY <1>1 DEF TypeOK, DiskType, NoteType
<1>5. CallbackIsAlone' /\ OwnProgress("worker")'
  BY <1>1, <1>2 DEF CallbackIsAlone, OwnProgress
<1> QED
  BY <1>1, <1>2, <1>3, <1>4, <1>5, Names, LeaveEffect, QuietKeeps

-----------------------------------------------------------------------------
(* The function readFile.                                                  *)

LEMMA OwnFile ==
  ASSUME DiskType, NEW i \in 0..Len(files), i # 0
  PROVE  i \in 1..Len(files) /\ files[i] \in Seq(Block) /\ Len(files[i]) \in Nat
<1>1. i \in 1..Len(files)
  BY LenProperties DEF DiskType
<1>2. files[i] \in Seq(Block)
  BY <1>1, ElementOfSeq DEF DiskType
<1> QED
  BY <1>1, <1>2, LenProperties

LEMMA ReadFileInv ==
  ASSUME IInv, ReadFile \/ SystemReadfile
  PROVE  IInv'
<1>1. /\ TypeOK /\ ~crashed /\ pc["main"] = "idle" /\ got["main"] = <<>> /\ own = 0
      /\ alone["main"] = TRUE
      /\ UNCHANGED <<path, files, file, mode, got, alone, closes, writes, poolVars>>
  BY Names
  DEF IInv, GotInv, BeginsAlone, ReadFile, SystemReadfile, OwnOpen, Calls, Stands, OwnReads,
      OwnFrame, objectVars, TypeOK, ReadType
<1>2. /\ got' \in [Threads -> Seq(Block)] /\ alone' \in [Threads -> BOOLEAN]
      /\ path' \in 0..Len(files)
  BY <1>1 DEF TypeOK, DiskType, ReadType, NoteType
<1>3. ASSUME NEW next \in {"ownfread", "sysfread"}, OwnOpen(next)
      PROVE  IInv'
  <2>1. /\ path # 0 /\ own' = path /\ fails' = fails
        /\ pc' = [pc EXCEPT !["main"] = next]
    BY <1>3 DEF OwnOpen, OwnReads
  <2>2. files[path] \in Seq(Block) /\ Len(files[path]) \in Nat
    BY <1>1, <2>1, OwnFile DEF TypeOK, DiskType
  <2>3. PICK n \in IntsOf(Len(files[path])) :
          size' = [size EXCEPT !["main"] = n] /\ crashed' = (n < 0)
    BY <1>3 DEF OwnOpen
  <2>11. (~crashed' => ~(n < 0)) /\ (crashed' => n < 0) /\ crashed' \in BOOLEAN
    <3> DEFINE below == n < 0
    <3>1. crashed' = below /\ below \in BOOLEAN
      BY <2>3
    <3> HIDE DEF below
    <3>2. (~crashed' => ~below) /\ (crashed' => below) /\ crashed' \in BOOLEAN
      BY <3>1, Zenon
    <3> QED
      BY <3>2 DEF below
  <2>4. n \in Int /\ n <= Len(files[path]) /\ (Len(files[path]) <= MaxInt => n = Len(files[path]))
    BY <2>2, IntsOfRange
  <2>5. /\ size' \in [Threads -> Int] /\ size'["worker"] = size["worker"]
        /\ size'["main"] = n
    BY <1>1, <2>3, <2>4, Names DEF TypeOK, ReadType
  <2>6. pc'["main"] = next /\ pc'["worker"] = pc["worker"]
    BY <1>1, <2>1, Names DEF TypeOK, ReadType
  <2>7. PoolType'
    BY <1>1, <2>6 DEF poolVars, TypeOK, PoolType
  <2>8. ASSUME ~crashed' PROVE OwnProgress("main")'
    <3>1. got'["main"] = <<>> /\ Len(got'["main"]) = 0
      BY <1>1, EmptySeq
    <3>2. SubSeq(files'[own'], 1, 0) = <<>>
      BY SubSeqEmpty
    <3>3. Sized(size'["main"], files'[own'])
      BY <1>1, <2>1, <2>4, <2>5 DEF Sized
    <3>4. n >= 0
      BY <2>4, <2>8, <2>11
    <3>5. Len(got'["main"]) <= size'["main"]
      BY <2>4, <2>5, <3>1, <3>4
    <3>6. got'["main"] = SubSeq(files'[own'], 1, Len(got'["main"]))
      BY <3>1, <3>2
    <3> QED
      BY <2>6, <3>3, <3>5, <3>6 DEF OwnProgress
  <2>9. CallbackIsAlone' /\ fails' \in [Threads -> BOOLEAN] /\ own' \in 0..Len(files)
    BY <1>1, <2>1 DEF CallbackIsAlone, TypeOK, NoteType, DiskType
  <2>10. crashed' \in BOOLEAN /\ (crashed' => size'["main"] < 0)
    BY <2>5, <2>11
  <2> QED
    BY <1>1, <1>2, <2>1, <2>5, <2>7, <2>8, <2>9, <2>10, Names, Others, QuietKeeps
<1>4. CASE /\ crashed' = TRUE /\ fails' = [fails EXCEPT !["main"] = TRUE]
           /\ pc' = [pc EXCEPT !["main"] = "idle"] /\ UNCHANGED <<own, size>>
  <2>1. pc'["main"] = "idle" /\ pc'["worker"] = pc["worker"]
    BY <1>1, <1>4, Names DEF TypeOK, ReadType
  <2>2. /\ fails' \in [Threads -> BOOLEAN] /\ fails'["main"] = TRUE
        /\ fails'["worker"] = fails["worker"] /\ size' \in [Threads -> Int]
    BY <1>1, <1>4, Names DEF TypeOK, ReadType, NoteType
  <2>3. PoolType'
    BY <1>1, <2>1 DEF poolVars, TypeOK, PoolType
  <2>4. CallbackIsAlone' /\ own' \in 0..Len(files)
    BY <1>1, <1>4, <2>1 DEF CallbackIsAlone, TypeOK, DiskType
  <2> QED
    BY <1>1, <1>2, <1>4, <2>2, <2>3, <2>4, Names, Others, QuietKeeps
<1> QED
  BY <1>3, <1>4 DEF ReadFile, SystemReadfile, OwnReads

\* What one fread of readFile gives continues what was read.
LEMMA OwnMore ==
  ASSUME IInv, Stands("main", "ownfread") \/ Stands("main", "sysfread"),
         Len(got["main"]) < size["main"]
  PROVE  /\ OwnAvailable \in Seq(Block) /\ got["main"] \in Seq(Block)
         /\ alone["main"] =>
              /\ Len(got["main"] \o OwnAvailable) = size["main"]
              /\ got["main"] \o OwnAvailable = SubSeq(files[own], 1, size["main"])
              /\ OwnAvailable # <<>>
<1> DEFINE disk == files[own]
           have == Len(got["main"])
           end == IF size["main"] < Len(disk) THEN size["main"] ELSE Len(disk)
<1>1. /\ TypeOK /\ ~crashed /\ pc["main"] \in {"ownfread", "sysfread"} /\ own # 0
  BY Names DEF IInv, Stands, TypeOK, ReadType
<1>2. disk \in Seq(Block) /\ Len(disk) \in Nat
  BY <1>1, OwnFile DEF TypeOK, DiskType
<1>3. got["main"] \in Seq(Block) /\ have \in Nat /\ size["main"] \in Nat
  BY <1>1, Names, LenProperties DEF TypeOK, ReadType
<1>4. end \in Nat /\ end <= Len(disk)
  BY <1>2, <1>3
<1>5. OwnAvailable = SubSeq(disk, have + 1, end)
  BY DEF OwnAvailable
<1>6. alone["main"] => size["main"] <= Len(disk) /\ got["main"] = SubSeq(disk, 1, have)
  BY <1>1, Names DEF IInv, Whole, OwnProgress, Sized
<1> HIDE DEF disk, have
<1>7. OwnAvailable \in Seq(Block)
  <2>1. \A i \in (have + 1)..end : i \in 1..Len(disk)
    BY <1>2, <1>3, <1>4
  <2>2. \A i \in (have + 1)..end : disk[i] \in Block
    BY <1>2, <2>1, ElementOfSeq
  <2> HIDE DEF end
  <2>3. have + 1 \in Int /\ end \in Int
    BY <1>3, <1>4
  <2> QED
    BY <1>5, <2>2, <2>3, SubSeqProperties
<1>8. ASSUME alone["main"]
      PROVE  /\ Len(got["main"] \o OwnAvailable) = size["main"]
             /\ got["main"] \o OwnAvailable = SubSeq(disk, 1, size["main"])
             /\ OwnAvailable # <<>>
  <2>1. end = size["main"] /\ size["main"] <= Len(disk) /\ have < size["main"]
    BY <1>2, <1>3, <1>6, <1>8 DEF have
  <2>2. /\ 1 \in 1..(Len(disk) + 1) /\ have \in (1 - 1)..Len(disk) /\ end \in have..Len(disk)
    BY <1>2, <1>3, <2>1
  <2> HIDE DEF end
  <2>3. got["main"] \o OwnAvailable = SubSeq(disk, 1, end)
    BY <1>2, <1>5, <1>6, <1>8, <2>2, ConcatAdjacentSubSeq
  <2>4. Len(SubSeq(disk, 1, end)) = end
    <3>1. \A i \in 1..end : disk[i] \in Block
      BY <1>2, <2>1, <2>2, ElementOfSeq
    <3> QED
      BY <1>3, <2>1, <3>1, SubSeqProperties
  <2>5. Len(OwnAvailable) = end - have
    <3>1. \A i \in (have + 1)..end : i \in 1..Len(disk)
      BY <1>2, <1>3, <2>1
    <3>2. \A i \in (have + 1)..end : disk[i] \in Block
      BY <1>2, <3>1, ElementOfSeq
    <3>3. have + 1 \in Int /\ end \in Int /\ have + 1 <= end /\ end - (have + 1) + 1 = end - have
      BY <1>2, <1>3, <2>1
    <3> QED
      BY <1>5, <3>2, <3>3, SubSeqProperties
  <2>6. OwnAvailable # <<>>
    <3>1. end - have # 0
      BY <1>2, <1>3, <2>1
    <3> QED
      BY <2>5, <3>1, EmptySeq
  <2> QED
    BY <2>1, <2>3, <2>4, <2>6
<1> QED
  BY <1>3, <1>7, <1>8 DEF disk

\* The two readings of files that are not the object's.
Readings == {<<"ownfread", "ownreturn">>, <<"sysfread", "sysreturn">>}

LEMMA OwnFreadInv ==
  ASSUME IInv, NEW from, NEW next, <<from, next>> \in Readings, NEW returned,
         returned = IF from = "ownfread" THEN CString(got["main"]) ELSE got["main"],
         OwnFreadTo(from, next, returned)
  PROVE  IInv'
<1>1. /\ TypeOK /\ ~crashed /\ pc["main"] = from /\ own # 0
      /\ from \in {"ownfread", "sysfread"} /\ next \in {"ownreturn", "sysreturn"}
      /\ (next = "ownreturn" <=> from = "ownfread")
      /\ UNCHANGED <<path, files, file, mode, alone, closes, writes, poolVars, own, size,
                     crashed, fails>>
  BY Names
  DEF IInv, OwnFreadTo, Stands, OwnReads, OwnFrame, objectVars, TypeOK, ReadType, Readings
<1>2. /\ size' \in [Threads -> Int] /\ alone' \in [Threads -> BOOLEAN]
      /\ fails' \in [Threads -> BOOLEAN] /\ crashed' \in BOOLEAN
      /\ path' \in 0..Len(files) /\ own' \in 0..Len(files) /\ own' # 0
  BY <1>1 DEF TypeOK, DiskType, ReadType, NoteType
<1>3. ASSUME NEW step \in {from, next}, pc' = [pc EXCEPT !["main"] = step]
      PROVE  pc'["main"] = step /\ PoolType' /\ CallbackIsAlone'
  <2>1. pc'["main"] = step /\ pc'["worker"] = pc["worker"]
    BY <1>1, <1>3, Names DEF TypeOK, ReadType
  <2>2. PoolType'
    BY <1>1, <2>1 DEF poolVars, TypeOK, PoolType
  <2>3. CallbackIsAlone'
    BY <1>1 DEF IInv, CallbackIsAlone, poolVars
  <2> QED
    BY <2>1, <2>2, <2>3
<1>4. CASE /\ Len(got["main"]) < size["main"]
           /\ pc' = [pc EXCEPT !["main"] = from]
           /\ got' = [got EXCEPT !["main"] = got["main"] \o OwnAvailable]
  <2>1. /\ OwnAvailable \in Seq(Block) /\ got["main"] \in Seq(Block)
        /\ alone["main"] =>
             /\ Len(got["main"] \o OwnAvailable) = size["main"]
             /\ got["main"] \o OwnAvailable = SubSeq(files[own], 1, size["main"])
    BY <1>1, <1>4, OwnMore DEF Stands
  <2>2. got["main"] \o OwnAvailable \in Seq(Block)
    BY <2>1, ConcatProperties
  <2>3. /\ got' \in [Threads -> Seq(Block)] /\ got'["worker"] = got["worker"]
        /\ got'["main"] = got["main"] \o OwnAvailable
    BY <1>1, <1>4, <2>2, Names DEF TypeOK, ReadType
  <2>4. alone["main"] => Sized(size["main"], files[own])
    BY <1>1, Names DEF IInv, Whole, OwnProgress
  <2>5. pc'["main"] = from /\ size["main"] \in Int
    BY <1>1, <1>3, <1>4, Names DEF TypeOK, ReadType
  <2>6. alone'["main"] => OwnProgress("main")'
    BY <1>1, <2>1, <2>3, <2>4, <2>5 DEF OwnProgress
  <2> QED
    BY <1>1, <1>2, <1>3, <1>4, <2>3, <2>6, Names, Others, QuietKeeps
<1>5. CASE /\ ~(Len(got["main"]) < size["main"])
           /\ pc' = [pc EXCEPT !["main"] = next]
           /\ got' = [got EXCEPT !["main"] = returned]
  <2>1. got["main"] \in Seq(Block) /\ Len(got["main"]) \in Nat /\ size["main"] \in Int
    BY <1>1, Names, LenProperties DEF TypeOK, ReadType
  <2>2. files[own] \in Seq(Block)
    BY <1>1, OwnFile DEF TypeOK, DiskType
  <2>3. ASSUME alone["main"], Len(files[own]) <= MaxInt PROVE got["main"] = files[own]
    <3>1. /\ size["main"] = Len(files[own]) /\ Len(got["main"]) <= size["main"]
          /\ got["main"] = SubSeq(files[own], 1, Len(got["main"]))
      BY <1>1, <2>3, Names DEF IInv, Whole, OwnProgress, Sized
    <3>2. Len(got["main"]) = Len(files[own])
      BY <1>5, <2>1, <3>1
    <3> QED
      BY <2>2, <3>1, <3>2, SubSeqFull
  <2>4. pc'["main"] = next
    BY <1>3, <1>5
  <2>5. returned \in Seq(Block)
    BY <2>1, CStringType
  <2>6. /\ got' \in [Threads -> Seq(Block)] /\ got'["worker"] = got["worker"]
        /\ got'["main"] = returned
    BY <1>1, <1>5, <2>5, Names DEF TypeOK, ReadType
  <2>7. alone'["main"] => OwnProgress("main")'
    BY <1>1, <2>3, <2>4, <2>6 DEF OwnProgress
  <2> QED
    BY <1>1, <1>2, <1>3, <1>5, <2>6, <2>7, Names, Others, QuietKeeps
<1> QED
  BY <1>4, <1>5 DEF OwnFreadTo, OwnReads

-----------------------------------------------------------------------------
(* Methods that change the file or the FILE, and writeFile.                *)

LEMMA MainKeeps ==
  ASSUME IInv, ~crashed, pc["main"] \notin ReadSteps,
         NEW next \in {"idle", "ownfwrite"}, pc' = [pc EXCEPT !["main"] = next],
         alone' \in [Threads -> BOOLEAN], alone'["main"] = TRUE,
         alone'["worker"] = (alone["worker"] /\ pc["worker"] = "idle"),
         UNCHANGED <<size, got, poolVars>>, got["main"] = <<>>,
         DiskType', FileType', next = "ownfwrite" <=> own' # 0,
         crashed' \in BOOLEAN, closes' \in BOOLEAN, writes' \in 0..MaxWrites,
         fails' \in [Threads -> BOOLEAN], mode' = mode \/ mode' \in Modes,
         NullHasCause', ClosedHasCause', CrashNeedsCause'
  PROVE  IInv'
<1>1. TypeOK
  BY DEF IInv
<1>2. pc' \in [Threads -> Steps] /\ pc'["main"] = next /\ pc'["worker"] = pc["worker"]
  BY <1>1, Names DEF TypeOK, ReadType
<1>3. ReadType'
  BY <1>1, <1>2, Names DEF TypeOK, ReadType, Opened, Threads
<1>4. PoolType' /\ NoteType'
  BY <1>1, <1>2 DEF TypeOK, PoolType, NoteType, poolVars
<1>5. GotInv' /\ HasPath'
  <2>1. next \notin ReadSteps
    BY DEF ReadSteps
  <2> QED
    BY <1>2, <2>1 DEF IInv, GotInv, HasPath, Threads
<1>6. BeginsAlone' /\ CallbackIsAlone'
  BY DEF BeginsAlone, CallbackIsAlone
<1>7. \A u \in Threads : Whole(u)'
  BY <1>2 DEF Threads, Whole, Progress, OwnProgress
<1> QED
  BY <1>3, <1>4, <1>5, <1>6, <1>7 DEF IInv, TypeOK

\* What MainKeeps needs of a method that returns at once.
LEMMA MethodKeeps ==
  ASSUME IInv, Calls, Touch("main"), UNCHANGED <<own, readVars, poolVars>>,
         DiskType', FileType',
         crashed' \in BOOLEAN, closes' \in BOOLEAN, writes' \in 0..MaxWrites,
         fails' \in [Threads -> BOOLEAN], mode' = mode \/ mode' \in Modes,
         NullHasCause', ClosedHasCause', CrashNeedsCause'
  PROVE  IInv'
<1>1. TypeOK /\ ~crashed /\ pc["main"] = "idle" /\ got["main"] = <<>> /\ alone["main"] = TRUE
  BY Names DEF IInv, Calls, Stands, GotInv, BeginsAlone
<1>2. /\ pc' = [pc EXCEPT !["main"] = "idle"] /\ own' = 0
      /\ UNCHANGED <<size, got>> /\ pc["main"] \notin ReadSteps
  BY <1>1, Names DEF TypeOK, ReadType, readVars
<1>3. /\ alone' \in [Threads -> BOOLEAN] /\ alone'["main"] = TRUE
      /\ alone'["worker"] = (alone["worker"] /\ pc["worker"] = "idle")
  BY <1>1, Names, Others, TouchEffect DEF TypeOK, readVars
<1> QED
  BY <1>1, <1>2, <1>3, MainKeeps

LEMMA CloseInv ==
  ASSUME IInv, Close
  PROVE  IInv'
<1>1. /\ TypeOK /\ Calls /\ Touch("main") /\ closes' = TRUE /\ ~crashed
      /\ UNCHANGED <<path, own, mode, readVars, poolVars, writes, fails>>
  BY DEF IInv, Close, Calls, Stands
<1>2. /\ DiskType' /\ FileType' /\ crashed' \in BOOLEAN
      /\ (file' = Null <=> file = Null)
  <2>1. CASE file.open
    <3>1. /\ file \in Stream /\ file # Null /\ file.inode \in 1..Len(files)
          /\ Flushed \in Seq(Block)
      BY <1>1, <2>1, OpenFile DEF TypeOK
    <3>2. /\ files' = [files EXCEPT ![file.inode] = Flushed]
          /\ file' = [file EXCEPT !.open = FALSE, !.pos = 0, !.out = <<>>]
          /\ crashed' = crashed
      BY <2>1 DEF Close
    <3>3. files' \in Seq(Seq(Block)) /\ Len(files') = Len(files)
      BY <1>1, <3>1, <3>2, DiskWrite DEF TypeOK
    <3>4. file' \in Stream /\ file'.inode = file.inode
      BY <3>1, <3>2, EmptySeq DEF Stream
    <3>5. file' # Null
      <4>1. file'.inode # 0
        BY <3>1, <3>4
      <4> QED
        BY <4>1, NullFields
    <3> QED
      BY <1>1, <3>1, <3>2, <3>3, <3>4, <3>5 DEF TypeOK, DiskType, FileType, NoteType
  <2>2. CASE ~file.open
    BY <1>1, <2>2 DEF Close, TypeOK, DiskType, FileType
  <2> QED
    BY <2>1, <2>2
<1>3. NullHasCause' /\ ClosedHasCause' /\ CrashNeedsCause'
  BY <1>1, <1>2 DEF IInv, NullHasCause, ClosedHasCause, CrashNeedsCause, readVars
<1>4. closes' \in BOOLEAN /\ writes' \in 0..MaxWrites /\ fails' \in [Threads -> BOOLEAN]
  BY <1>1 DEF TypeOK, NoteType
<1> QED
  BY <1>1, <1>2, <1>3, <1>4, MethodKeeps

LEMMA OpenInv ==
  ASSUME IInv, NEW m \in Modes, Open(m)
  PROVE  IInv'
<1>1. /\ TypeOK /\ Calls /\ Touch("main") /\ ~crashed /\ Fopen(m) /\ mode' = m
      /\ UNCHANGED <<own, readVars, poolVars, crashed, writes, closes>>
  BY DEF IInv, Open, Calls, Stands
<1>2. /\ DiskType' /\ FileType' /\ fails' \in [Threads -> BOOLEAN]
      /\ file' # Null => file'.open
      /\ file' = Null => \A t \in Threads : pc[t] \in ReadSteps => fails'[t]
  BY <1>1, FopenEffect DEF TypeOK
<1>3. NullHasCause' /\ ClosedHasCause' /\ CrashNeedsCause'
  BY <1>1, <1>2
  DEF NullHasCause, ClosedHasCause, CrashNeedsCause, ReadSteps, readVars
<1>4. closes' \in BOOLEAN /\ writes' \in 0..MaxWrites /\ crashed' \in BOOLEAN
  BY <1>1 DEF TypeOK, NoteType
<1> QED
  BY <1>1, <1>2, <1>3, <1>4, MethodKeeps

LEMMA NextWrite ==
  ASSUME NoteType, writes < MaxWrites, writes' = writes + 1
  PROVE  writes' \in 0..MaxWrites /\ writes' \in Block /\ Nul \in Block
  BY BoundsAssumption DEF NoteType, Block, Nul, Old

LEMMA WriteInv ==
  ASSUME IInv, Write
  PROVE  IInv'
<1>1. /\ TypeOK /\ Calls /\ Touch("main") /\ ~crashed /\ file # Null
      /\ writes < MaxWrites /\ writes' = writes + 1 /\ crashed' = ~file.open
      /\ UNCHANGED <<path, files, own, mode, readVars, poolVars, closes, fails>>
  BY DEF IInv, Write, Calls, Stands, diskVars
<1>2. writes' \in 0..MaxWrites /\ writes' \in Block /\ Nul \in Block
  BY <1>1, NextWrite DEF TypeOK
<1>3. /\ file' \in Stream \cup {Null} /\ file'.inode = file.inode /\ file'.open = file.open
      /\ file' # Null
  <2>1. CASE file.open /\ Writable(file.mode)
    <3>1. file \in Stream /\ file.out \in Seq(Block)
      BY <1>1, <2>1, OpenFile DEF TypeOK
    <3>2. PICK b \in {Nul, writes'} : file' = [file EXCEPT !.out = Append(file.out, b)]
      BY <2>1 DEF Write
    <3>3. Append(file.out, b) \in Seq(Block)
      BY <1>2, <3>1, <3>2, AppendProperties
    <3>4. file' \in Stream /\ file'.inode = file.inode /\ file'.open = file.open
      BY <3>1, <3>2, <3>3 DEF Stream
    <3> QED
      BY <2>1, <3>4, NullFields
  <2>2. CASE ~(file.open /\ Writable(file.mode))
    BY <1>1, <2>2 DEF Write, TypeOK, FileType
  <2> QED
    BY <2>1, <2>2
<1>4. DiskType' /\ FileType'
  BY <1>1, <1>3 DEF TypeOK, DiskType, FileType
<1>5. NullHasCause' /\ ClosedHasCause' /\ CrashNeedsCause'
  BY <1>1, <1>3 DEF IInv, NullHasCause, ClosedHasCause, CrashNeedsCause
<1>6. closes' \in BOOLEAN /\ crashed' \in BOOLEAN /\ fails' \in [Threads -> BOOLEAN]
  <2>1. file.open \in BOOLEAN
    BY <1>1, NullFields DEF TypeOK, FileType, Stream
  <2> QED
    BY <1>1, <2>1 DEF TypeOK, NoteType
<1> QED
  BY <1>1, <1>2, <1>4, <1>5, <1>6, MethodKeeps

LEMMA RewindMethodInv ==
  ASSUME IInv, RewindMethod
  PROVE  IInv'
<1>1. /\ TypeOK /\ Calls /\ Touch("main") /\ ~crashed /\ file # Null /\ Position(0)
      /\ UNCHANGED <<path, own, mode, readVars, poolVars, writes, closes, fails>>
  BY DEF IInv, RewindMethod, Calls, Stands, noteVars
<1>2. /\ DiskType' /\ FileType' /\ crashed' \in BOOLEAN
      /\ file'.open = file.open /\ (file' = Null <=> file = Null)
      /\ file.open => crashed' = crashed
  BY <1>1, PositionEffect DEF TypeOK
<1>3. NullHasCause' /\ ClosedHasCause' /\ CrashNeedsCause'
  BY <1>1, <1>2 DEF IInv, NullHasCause, ClosedHasCause, CrashNeedsCause
<1>4. closes' \in BOOLEAN /\ writes' \in 0..MaxWrites /\ fails' \in [Threads -> BOOLEAN]
  BY <1>1 DEF TypeOK, NoteType
<1> QED
  BY <1>1, <1>2, <1>3, <1>4, MethodKeeps

LEMMA WriteFileInv ==
  ASSUME IInv, WriteFile
  PROVE  IInv'
<1>1. /\ TypeOK /\ Touch("main") /\ ~crashed /\ pc["main"] = "idle"
      /\ got["main"] = <<>> /\ alone["main"] = TRUE
      /\ writes < MaxWrites /\ writes' = writes + 1
      /\ pc' = [pc EXCEPT !["main"] = "ownfwrite"]
      /\ UNCHANGED <<mode, file, size, got, poolVars, crashed, closes, fails>>
  BY Names DEF IInv, GotInv, BeginsAlone, WriteFile, Calls, Stands, objectVars
<1>2. PICK i \in 1..MaxFiles : OpensFile("w+", i) /\ own' = i
  BY DEF WriteFile
<1>3. /\ files' \in Seq(Seq(Block)) /\ Len(files') <= MaxFiles
      /\ Len(files) <= Len(files') /\ i <= Len(files') /\ path' \in 0..Len(files')
  BY <1>1, <1>2, OpensFileEffect DEF TypeOK
<1>4. DiskType' /\ own' # 0
  BY <1>2, <1>3 DEF DiskType
<1>5. FileType'
  <2>1. file.inode \in Nat /\ Len(files) \in Nat /\ Len(files') \in Nat
    BY <1>1, <1>3, NullFields, LenProperties DEF TypeOK, DiskType, FileType, Stream
  <2>2. file.inode <= Len(files')
    BY <1>1, <1>3, <2>1 DEF TypeOK, FileType
  <2> QED
    BY <1>1, <2>2 DEF TypeOK, FileType
<1>6. pc'["worker"] = pc["worker"] /\ pc'["main"] = "ownfwrite"
  BY <1>1, Names DEF TypeOK, ReadType
<1>7. /\ alone' \in [Threads -> BOOLEAN] /\ alone'["main"] = TRUE
      /\ alone'["worker"] = (alone["worker"] /\ pc["worker"] = "idle")
  BY <1>1, <1>6, Names, Others, TouchEffect DEF TypeOK
<1>8. NullHasCause' /\ ClosedHasCause' /\ CrashNeedsCause'
  BY <1>1, <1>6 DEF IInv, NullHasCause, ClosedHasCause, CrashNeedsCause, Threads
<1>9. writes' \in 0..MaxWrites
  BY <1>1, NextWrite DEF TypeOK
<1>10. crashed' \in BOOLEAN /\ closes' \in BOOLEAN /\ fails' \in [Threads -> BOOLEAN]
  BY <1>1 DEF TypeOK, NoteType
<1> QED
  BY <1>1, <1>4, <1>5, <1>7, <1>8, <1>9, <1>10, Names, MainKeeps

LEMMA WriteFileEndsInv ==
  ASSUME IInv, WriteFileEnds
  PROVE  IInv'
<1>1. /\ TypeOK /\ ~crashed /\ pc["main"] = "ownfwrite" /\ got["main"] = <<>>
      /\ own # 0 /\ own' = 0 /\ pc["main"] \notin ReadSteps
      /\ pc' = [pc EXCEPT !["main"] = "idle"]
      /\ alone' = [t \in Threads |-> t = "main" \/ (alone[t] /\ pc[t] = "idle")]
      /\ UNCHANGED <<path, mode, file, size, got, poolVars, crashed, closes, writes, fails>>
  BY Names
  DEF IInv, GotInv, WriteFileEnds, Stands, OwnFrame, objectVars, TypeOK, ReadType
<1>2. own \in 1..Len(files) /\ files[own] \in Seq(Block)
  BY <1>1, OwnFile DEF TypeOK, DiskType
<1>3. PICK b \in {Nul, writes} :
        files' = [files EXCEPT ![own] = Overwritten(files[own], 0, <<b>>)]
  BY DEF WriteFileEnds
<1>4. Overwritten(files[own], 0, <<b>>) \in Seq(Block)
  <2>1. 0 \in Nat
    OBVIOUS
  <2>2. b \in Block
    BY <1>1, <1>3, BoundsAssumption DEF TypeOK, NoteType, Block, Nul, Old
  <2>3. <<b>> \in Seq(Block)
    BY <2>2
  <2> QED
    BY <1>2, <2>1, <2>3, OverwrittenType
<1>5. files' \in Seq(Seq(Block)) /\ Len(files') = Len(files)
  BY <1>1, <1>2, <1>3, <1>4, DiskWrite DEF TypeOK
<1>6. DiskType' /\ FileType'
  BY <1>1, <1>5, LenProperties DEF TypeOK, DiskType, FileType
<1>7. pc'["worker"] = pc["worker"] /\ pc'["main"] = "idle"
  BY <1>1, Names DEF TypeOK, ReadType
<1>8. /\ alone' \in [Threads -> BOOLEAN] /\ alone'["main"] = TRUE
      /\ alone'["worker"] = (alone["worker"] /\ pc["worker"] = "idle")
  <2>1. alone' \in [Threads -> BOOLEAN]
    BY <1>1, Zenon
  <2> QED
    BY <1>1, <2>1, Names
<1>9. NullHasCause' /\ ClosedHasCause' /\ CrashNeedsCause'
  BY <1>1, <1>7 DEF IInv, NullHasCause, ClosedHasCause, CrashNeedsCause, Threads
<1>10. /\ crashed' \in BOOLEAN /\ closes' \in BOOLEAN /\ fails' \in [Threads -> BOOLEAN]
       /\ writes' \in 0..MaxWrites
  BY <1>1 DEF TypeOK, NoteType
<1> QED
  BY <1>1, <1>6, <1>8, <1>9, <1>10, MainKeeps

-----------------------------------------------------------------------------
LEMMA InitInv == Init => IInv
<1> SUFFICES ASSUME Init PROVE IInv
  OBVIOUS
<1>1. files \in Seq(Seq(Block)) /\ Len(files) <= MaxFiles /\ path \in 0..Len(files)
  <2>1. <<>> \in Seq(Seq(Block)) /\ Len(<<>>) = 0
    BY EmptySeq
  <2>2. Old \in Block /\ Nul \in Block
    BY BoundsAssumption DEF Block, Nul, Old
  <2>3. << <<Old, Nul>> >> \in Seq(Seq(Block)) /\ Len(<< <<Old, Nul>> >>) = 1
    BY <2>2
  <2>4. CASE path = 0 /\ files = <<>>
    BY <2>1, <2>4, BoundsAssumption
  <2>5. CASE path = 1 /\ files = << <<Old, Nul>> >>
    BY <2>3, <2>5, BoundsAssumption
  <2> QED
    BY <2>4, <2>5 DEF Init
<1>2. DiskType
  BY <1>1, LenProperties DEF Init, DiskType
<1>3. FileType
  <2>1. Len(files) \in Nat
    BY <1>1, LenProperties
  <2> QED
    BY <2>1, NullFields DEF Init, FileType
<1>4. ReadType
  <2>1. <<>> \in Seq(Block)
    BY EmptySeq
  <2> QED
    BY <2>1 DEF Init, ReadType, Steps, OwnSteps, Threads
<1>5. PoolType /\ NoteType
  <2>1. 0 \in 0..MaxWrites
    BY BoundsAssumption
  <2> QED
    BY <2>1 DEF Init, Pool!Init, PoolType, NoteType, Threads
<1>6. GotInv /\ HasPath /\ BeginsAlone /\ CallbackIsAlone
  BY DEF Init, GotInv, HasPath, BeginsAlone, CallbackIsAlone, ReadSteps, Threads
<1>7. NullHasCause /\ ClosedHasCause /\ CrashNeedsCause
  BY DEF Init, NullHasCause, ClosedHasCause, CrashNeedsCause
<1>8. \A t \in Threads : Whole(t)
  BY DEF Init, Whole, Progress, OwnProgress
<1> QED
  BY <1>2, <1>3, <1>4, <1>5, <1>6, <1>7, <1>8 DEF IInv, TypeOK

LEMMA Stutter ==
  ASSUME IInv, UNCHANGED vars
  PROVE  IInv'
<1> USE DEF vars, diskVars, objectVars, readVars, poolVars, noteVars
<1>1. TypeOK'
  BY DEF IInv, TypeOK, DiskType, FileType, ReadType, PoolType, NoteType
<1>2. GotInv' /\ HasPath' /\ BeginsAlone' /\ CallbackIsAlone'
  BY DEF IInv, GotInv, HasPath, BeginsAlone, CallbackIsAlone
<1>3. NullHasCause' /\ ClosedHasCause' /\ CrashNeedsCause'
  BY DEF IInv, NullHasCause, ClosedHasCause, CrashNeedsCause
<1>4. \A t \in Threads : Whole(t)'
  BY DEF IInv, Whole, Progress, OwnProgress
<1> QED
  BY <1>1, <1>2, <1>3, <1>4 DEF IInv

\* A read that is left alone knows how far it has come, the worker holds the lock
\* while it reads, and a pointer that cannot be used has a cause.
THEOREM Invariance == Spec => []IInv
<1>1. IInv /\ [Next]_vars => IInv'
  <2> SUFFICES ASSUME IInv, [Next]_vars PROVE IInv'
    OBVIOUS
  <2>1. CASE Method
    BY <2>1, CallbackInv, CloseInv, ReadInv, WriteInv, RewindMethodInv, ReadFileInv,
       WriteFileInv, OpenInv DEF Method
  <2>2. CASE ReadReturns \/ OwnStep
    BY <2>2, ReadReturnsInv, OwnFreadInv, WriteFileEndsInv
    DEF OwnStep, OwnFread, SystemFread, Readings
  <2>3. CASE Begin \/ Finish
    BY <2>3, BeginInv, FinishInv
  <2>4. CASE \E t \in Threads : ReadStep(t)
    BY <2>4, ReadStepInv
  <2>5. CASE UNCHANGED vars
    BY <2>5, Stutter
  <2> QED
    BY <2>1, <2>2, <2>3, <2>4, <2>5 DEF Next
<1> QED
  BY InitInv, <1>1, PTL DEF Spec

-----------------------------------------------------------------------------
(* Theorems.                                                               *)

\* The variables keep their types, and the worker reads with threadLock held.
THEOREM TypeCorrect == Spec => []TypeOK
  BY Invariance, PTL DEF IInv

\* No step of the worker comes between those of a read in a callback: onNotify
\* holds threadLock around it, and the worker around readFileCb
\* (threadPool.cpp:47-52, 107-113).
THEOREM CallbackStaysAlone == Spec => []CallbackIsAlone
  BY Invariance, PTL DEF IInv

\* Only a script that has called close, a failed fopen, or a file whose length an
\* int cannot hold ends a program in stdio or for want of memory.
THEOREM CrashHasCause == Spec => []CrashNeedsCause
  BY Invariance, PTL DEF IInv

\* A read of a file that an int can measure, if no step of the other thread came
\* between, returns the file; onReadCb and readFile return it up to its first NUL.
THEOREM LoneReadReturnsAll == Spec => []LoneReadIsWhole
<1>1. IInv => LoneReadIsWhole
  <2> SUFFICES ASSUME IInv, NEW t \in Threads, alone[t], ~crashed
               PROVE  /\ pc[t] = "return" /\ Len(Flushed) <= MaxInt =>
                           got[t] = IF t = "worker" THEN CString(Flushed) ELSE Flushed
                      /\ pc[t] = "ownreturn" /\ Len(files[own]) <= MaxInt =>
                           got[t] = CString(files[own])
                      /\ pc[t] = "sysreturn" /\ Len(files[own]) <= MaxInt =>
                           got[t] = files[own]
    BY DEF LoneReadIsWhole
  <2>1. Progress(t) /\ OwnProgress(t)
    BY DEF IInv, Whole
  <2>2. pc[t] = "return" => Flushed = files[file.inode]
    BY <2>1 DEF Progress, Flushed
  <2> QED
    BY <2>1, <2>2 DEF Progress, OwnProgress, Returned
<1> QED
  BY Invariance, <1>1, PTL

\* A fread loop that is left alone gets something in each turn.
THEOREM LoneReadAdvances == Spec => []SpinNeedsAnother
<1>1. IInv => SpinNeedsAnother
  <2> SUFFICES ASSUME IInv, NEW t \in Threads, alone[t], ~crashed, Len(got[t]) < size[t]
               PROVE  /\ pc[t] = "fread" =>
                           Unreadable \/ Available(size[t] - Len(got[t])) > 0
                      /\ pc[t] \in {"ownfread", "sysfread"} => OwnAvailable # <<>>
    BY DEF SpinNeedsAnother
  <2>1. TypeOK /\ got[t] \in Seq(Block) /\ size[t] \in Int /\ Len(got[t]) \in Nat
    BY LenProperties DEF IInv, TypeOK, ReadType
  <2>2. ASSUME pc[t] = "fread", ~Unreadable PROVE Available(size[t] - Len(got[t])) > 0
    <3>1. /\ file.open /\ file.out = <<>> /\ size[t] <= Len(files[file.inode])
          /\ file.pos = Len(got[t])
      BY <2>2 DEF IInv, Whole, Progress, Sized
    <3>2. Flushed = files[file.inode] /\ At = Len(got[t])
      <4>1. Len(file.out) = 0
        BY <3>1, EmptySeq
      <4> QED
        BY <2>1, <3>1, <4>1 DEF Flushed, At
    <3> DEFINE held == IF Unreadable THEN 0 ELSE Len(Flushed) - At
    <3>3. held \in Int /\ held >= size[t] - Len(got[t])
      <4>1. Len(files[file.inode]) \in Int
        BY <2>1, <3>1, OpenFile, LenProperties DEF TypeOK
      <4>2. held = Len(files[file.inode]) - Len(got[t])
        BY <2>2, <3>2
      <4>3. size[t] <= Len(files[file.inode]) /\ size[t] \in Int /\ Len(got[t]) \in Int
        BY <2>1, <3>1
      <4>4. \A a, b, c \in Int : c <= a => a - b \in Int /\ a - b >= c - b
        OBVIOUS
      <4> HIDE DEF held
      <4> QED
        BY <4>1, <4>2, <4>3, <4>4, Zenon
    <3>4. Available(size[t] - Len(got[t]))
            = CASE held < 0 -> 0 [] size[t] - Len(got[t]) < held -> size[t] - Len(got[t])
                [] OTHER -> held
      BY DEF Available
    <3> HIDE DEF held
    <3> QED
      BY <2>1, <3>3, <3>4
  <2>3. ASSUME pc[t] \in {"ownfread", "sysfread"} PROVE OwnAvailable # <<>>
    <3>1. t = "main"
      BY <2>1, <2>3, Names DEF TypeOK, ReadType, Threads
    <3> QED
      BY <2>3, <3>1, OwnMore DEF Stands
  <2> QED
    BY <2>2, <2>3
<1> QED
  BY Invariance, <1>1, PTL
=============================================================================
