-------------------------- MODULE ThreadPoolProofs --------------------------
(***************************************************************************)
(* Proofs about ThreadPool, for any number of workers, jobs and objects.   *)
(***************************************************************************)
EXTENDS ThreadPool, FiniteSetTheorems, TLAPS

-----------------------------------------------------------------------------
(* The inductive invariant, in named parts.                                *)

\* Who holds threadLock: the worker that registers or runs a job, or main in a callback.
LockInv ==
  /\ \A w \in Workers : wpc[w] \in {"insert", "run"} => threadLock = w
  /\ InCallback => threadLock = Main

\* onNotify runs only while its event is registered.
InNotify ==
  mpc \in {"scan", "call", "callback", "next", "signal", "final"} \/ InCallback

\* In the script, or in a dispatch the script makes.
InScript == mpc = "script" \/ (mpc = "push" /\ ret = "script")

\* Jobs that are in the queue or on their way into it.
Queued == Len(wqueue) + (IF mpc = "push" THEN 1 ELSE 0)

\* eventCnt with the callback that has just returned and whose worker has not
\* yet been given the next job.
Credit == eventCnt + (IF mpc = "next" THEN 1 ELSE 0)

\* While the event is registered eventCnt exceeds the queue by at least the one
\* worker that will notify; this is why a scan never takes it below 0.
CountInv ==
  /\ InNotify => registered
  /\ Credit >= Queued
  /\ Queued > 0 => numThreads >= maxThreads
  /\ InScript => eventCnt >= Queued + numThreads
  /\ registered => ~InScript /\ (Queued > 0 => Credit > Queued)
  /\ registered /\ mpc \notin {"next", "final"} => eventCnt > 0
  /\ eventCnt >= 0
  /\ \A w \in Workers : wpc[w] = "run" => eventCnt > 0
  /\ finished => ~registered /\ ~InScript

\* Without sockets nothing is dispatched once eventCnt is 0.
EndInv ==
  ~Sockets =>
    /\ mpc # "push" \/ ret # "loop"
    /\ mpc = "loop" /\ ~registered => eventCnt = 0
    /\ Ending => eventCnt = 0 /\ ~registered
    /\ finished => eventCnt = 0 /\ (mpc = "loop" \/ Ending)

\* What is known of a job where it is held, when each has an object of its own.
DeliveryInv ==
  OwnObjects =>
    /\ mpc = "next" \/ InCallback => called[tb[it]] > 0
    /\ \A j \in Jobs : ready[Obj[j]] => ran[j] > 0
    /\ \A j \in Jobs : callback[Obj[j]] = IF j \in issued THEN j ELSE None
    /\ \A j \in Jobs : called[j] > 0 => ran[j] > 0

\* Every worker holds a job that was dispatched.
HoldInv ==
  /\ \A w \in Workers : IF wpc[w] = "none" THEN tb[w] = None ELSE tb[w] \in issued
  /\ \A w \in wk : wpc[w] # "none"
  /\ \A i \in 1..Len(wqueue) : wqueue[i] \in issued
  /\ mpc = "push" => arg \in issued
  /\ mpc \in {"call", "callback", "next", "signal"} \/ InCallback => it \in wk
  /\ mpc = "call" => ready[Obj[tb[it]]]

IInv ==
  /\ TypeOK /\ LockInv /\ CountInv /\ EndInv /\ DeliveryInv /\ HoldInv
  /\ NoJobOverwritten

-----------------------------------------------------------------------------
(* Type correctness.                                                       *)

LEMMA MaxThreadsType == maxThreads \in Nat \ {0}
<1>1. Cardinality(Workers) \in Nat
  BY WorkersAssumption, FS_CardinalityType
<1>2. QED
  BY <1>1, maxThreadsAssumption

LEMMA TypeInit == Init => TypeOK
<1> SUFFICES ASSUME Init PROVE TypeOK
  OBVIOUS
<1>1. wqueue \in Seq(Jobs)
  BY DEF Init
<1>2. ran \in [Jobs -> 0..2] /\ called \in [Jobs -> Nat]
  BY DEF Init
<1>3. ready \in [Objects -> BOOLEAN] /\ callback \in [Objects -> Jobs \cup {None}]
  BY DEF Init
<1>4. wpc \in [Workers -> WorkerPC] /\ tb \in [Workers -> Jobs \cup {None}]
  BY DEF Init, WorkerPC
<1>5. /\ mpc \in MainPC /\ ret \in {"script", "callback", "loop"}
      /\ arg \in Jobs \cup {None} /\ (mpc = "push" => arg \in Jobs)
      /\ it \in Workers \cup {0} /\ threadLock \in Workers \cup {Main, Free}
  BY DEF Init, MainPC
<1>6. /\ eventCnt \in Int /\ numThreads \in 0..maxThreads /\ pipe \in Nat
      /\ wk \subseteq Workers /\ issued \subseteq Jobs /\ dropped \subseteq Jobs
  BY MaxThreadsType DEF Init
<1>7. finished \in BOOLEAN /\ pipeOpen \in BOOLEAN /\ registered \in BOOLEAN
  BY Zenon DEF Init
<1>8. QED
  BY <1>1, <1>2, <1>3, <1>4, <1>5, <1>6, <1>7 DEF TypeOK

\* Line 50 counts one callback; line 107 one run, up to 2.
LEMMA CountCallType ==
  ASSUME NEW S, NEW f \in [S -> Nat], NEW x
  PROVE  [f EXCEPT ![x] = @ + 1] \in [S -> Nat]
<1>1. CASE x \in S
  BY <1>1
<1>2. CASE x \notin S
  BY <1>2
<1>3. QED
  BY <1>1, <1>2

LEMMA CountRunType ==
  ASSUME NEW S, NEW f \in [S -> 0..2], NEW x
  PROVE  [f EXCEPT ![x] = IF @ < 2 THEN @ + 1 ELSE @] \in [S -> 0..2]
<1>1. CASE x \in S
  BY <1>1
<1>2. CASE x \notin S
  BY <1>2
<1>3. QED
  BY <1>1, <1>2

LEMMA CountRunKeeps ==
  ASSUME NEW S, NEW f \in [S -> 0..2], NEW x,
         NEW g, g = [f EXCEPT ![x] = IF @ < 2 THEN @ + 1 ELSE @]
  PROVE  g \in [S -> 0..2] /\ \A j \in S : f[j] > 0 => g[j] > 0
<1>1. g \in [S -> 0..2]
  BY CountRunType
<1>2. CASE x \in S
  <2>1. \A j \in S : j # x => g[j] = f[j]
    BY <1>2
  <2>2. f[x] \in 0..2 /\ g[x] = IF f[x] < 2 THEN f[x] + 1 ELSE f[x]
    BY <1>2
  <2>3. QED
    BY <1>1, <2>1, <2>2
<1>3. CASE x \notin S
  BY <1>1, <1>3
<1>4. QED
  BY <1>1, <1>2, <1>3

\* What a wait that ends by chance, or a worker that outlives the pool, leaves alone.
LEMMA ChanceKeeps ==
  ASSUME NEW w \in Workers, Chance(w), ran \in [Jobs -> 0..2], wpc \in [Workers -> WorkerPC]
  PROVE  /\ UNCHANGED <<ret, arg, it, threadLock, countVars, wqueue, tb, wk, objectVars,
                         pipeVars, issued, dropped, called>>
         /\ mpc' = mpc \/ (mpc = "freed" /\ mpc' = "exit")
         /\ \A v \in Workers : wpc'[v] = wpc[v] \/ (wpc[v] # "none" /\ wpc'[v] \in {"loop", "stray"})
         /\ wpc' \in [Workers -> WorkerPC]
         /\ ran' \in [Jobs -> 0..2]
         /\ \A j \in Jobs : ran[j] > 0 => ran'[j] > 0
<1> USE DEF mainVars, historyVars, workerVars
<1>1. CASE Spurious(w)
  BY <1>1 DEF Spurious, WorkerPC
<1>2. CASE Stray(w)
  <2>1. \/ ran' = [ran EXCEPT ![tb[w]] = IF @ < 2 THEN @ + 1 ELSE @]
        \/ ran' = [ran EXCEPT ![tb[w]] = @]
    <3>1. CASE wpc[w] = "run"
      BY <1>2, <3>1 DEF Stray
    <3>2. CASE wpc[w] # "run"
      BY <1>2, <3>2 DEF Stray
    <3>3. QED
      BY <3>1, <3>2
  <2>2. ran' \in [Jobs -> 0..2] /\ \A j \in Jobs : ran[j] > 0 => ran'[j] > 0
    <3>1. [ran EXCEPT ![tb[w]] = @] = ran
      OBVIOUS
    <3>2. ran' = ran \/ ran' = [ran EXCEPT ![tb[w]] = IF @ < 2 THEN @ + 1 ELSE @]
      BY <2>1, <3>1
    <3>3. QED
      BY <3>2, CountRunKeeps
  <2>3. QED
    BY <1>2, <2>2 DEF Stray, WorkerPC
<1>3. CASE StrayGoesOn(w)
  <2>1. ran' = ran \/ ran' = [ran EXCEPT ![tb[w]] = IF @ < 2 THEN @ + 1 ELSE @]
    BY <1>3 DEF StrayGoesOn
  <2>2. ran' \in [Jobs -> 0..2] /\ \A j \in Jobs : ran[j] > 0 => ran'[j] > 0
    BY <2>1, CountRunKeeps
  <2>3. QED
    BY <1>3, <2>2 DEF StrayGoesOn
<1>4. QED
  BY <1>1, <1>2, <1>3 DEF Chance

\* Every step keeps the type of every variable.
LEMMA TypeNext == TypeOK /\ [Next]_vars => TypeOK'
<1> SUFFICES ASSUME TypeOK, [Next]_vars PROVE TypeOK'
  OBVIOUS
<1> USE JobsAssumption, OriginAssumption DEF TypeOK, MainPC, WorkerPC, mainVars,
      countVars, workerVars, objectVars, pipeVars, historyVars
<1>1. ASSUME NEW j \in Jobs, DispatchToThread(j) PROVE TypeOK'
  <2>1. numThreads' \in 0..maxThreads
    BY <1>1, MaxThreadsType DEF DispatchToThread, MayStart
  <2>2. QED
    BY <1>1, <2>1 DEF DispatchToThread, Issue, Owe
<1>2. ASSUME NEW j \in Jobs, DispatchFails(j) PROVE TypeOK'
  BY <1>2 DEF DispatchFails, Issue, Owe, MayStart
<1>3. ASSUME NEW j \in Jobs, DispatchToQueue(j) PROVE TypeOK'
  BY <1>3 DEF DispatchToQueue, Issue, Owe, MayStart
<1>4. CASE Push
  BY <1>4 DEF Push
<1>5. CASE Setup
  BY <1>5 DEF Setup
<1>6. CASE LoopEnds
  BY <1>6 DEF LoopEnds
<1>7. CASE ClosePipe \/ Delete \/ Exit
  BY <1>7 DEF ClosePipe, Delete, Exit
<1>8. CASE OnNotify
  BY <1>8 DEF OnNotify
<1>9. CASE Scan
  BY <1>9 DEF Scan, IsReady, IsNextKey
<1>10. CASE ScanEnds
  BY <1>10 DEF ScanEnds
<1>11. CASE Call
  <2>1. called' \in [Jobs -> Nat]
    BY <1>11, CountCallType DEF Call
  <2>2. QED
    BY <1>11, <2>1 DEF Call, Main, Free
<1>12. CASE Return
  BY <1>12 DEF Return, Main, Free
<1>13. CASE Assign
  <2>1. Head(wqueue) \in Jobs /\ Tail(wqueue) \in Seq(Jobs)
    BY <1>13 DEF Assign
  <2>2. tb' \in [Workers -> Jobs \cup {None}]
    BY <1>13, <2>1 DEF Assign, NextJob
  <2>3. QED
    BY <1>13, <2>1, <2>2 DEF Assign
<1>14. CASE Signal
  BY <1>14 DEF Signal
<1>15. CASE NothingQueued
  BY <1>15 DEF NothingQueued, AllDelivered
<1>16. CASE Final
  BY <1>16 DEF Final, AllDelivered
<1>17. CASE SetupFails
  BY <1>17 DEF SetupFails, Main, Free
<1>18. CASE Interrupt \/ Crash
  BY <1>18 DEF Interrupt, Crash
<1>19. ASSUME NEW w \in Workers, Register(w) \/ Registered(w) PROVE TypeOK'
  <2>1. CASE Register(w)
    BY <2>1 DEF Register
  <2>2. CASE Registered(w)
    BY <2>2 DEF Registered
  <2>3. QED
    BY <1>19, <2>1, <2>2
<1>20. ASSUME NEW w \in Workers, Begin(w) PROVE TypeOK'
  BY <1>20 DEF Begin, AllDelivered
<1>21. ASSUME NEW w \in Workers, Finish(w) PROVE TypeOK'
  <2>1. ran' \in [Jobs -> 0..2]
    BY <1>21, CountRunType DEF Finish
  <2>2. ready' \in [Objects -> BOOLEAN] /\ wpc' \in [Workers -> WorkerPC]
    BY <1>21 DEF Finish
  <2>3. threadLock' \in Workers \cup {Main, Free}
    BY <1>21 DEF Finish
  <2>4. QED
    BY <1>21, <2>1, <2>2, <2>3 DEF Finish
<1>22. ASSUME NEW w \in Workers, Notify(w) PROVE TypeOK'
  BY <1>22 DEF Notify
<1>23. ASSUME NEW w \in Workers, NotifyLost(w) PROVE TypeOK'
  BY <1>23 DEF NotifyLost
<1>24. ASSUME NEW w \in Workers, Wait(w) PROVE TypeOK'
  BY <1>24 DEF Wait
<1>25. ASSUME NEW w \in Workers, Chance(w) PROVE TypeOK'
  BY <1>25, ChanceKeeps
<1>26. CASE UNCHANGED vars
  BY <1>26 DEF vars
<1>27. QED
  BY <1>1, <1>2, <1>3, <1>4, <1>5, <1>6, <1>7, <1>8, <1>9, <1>10, <1>11, <1>12, <1>13, <1>14, <1>15, <1>16, <1>17, <1>18, <1>19, <1>20, <1>21, <1>22, <1>23, <1>24, <1>25, <1>26 DEF Next, Dispatch, MainStep, WorkerStep

\* The type invariant of ThreadPool: every variable keeps the values that the
\* members of ThreadPool, WorkerThread and ThreadBase can hold.
THEOREM TypeCorrect == Spec => []TypeOK
<1>1. Init => TypeOK
  BY TypeInit
<1>2. TypeOK /\ [Next]_vars => TypeOK'
  BY TypeNext
<1>3. QED
  BY <1>1, <1>2, PTL DEF Spec

-----------------------------------------------------------------------------
(* The lock.                                                               *)

\* A step keeps the lock with the worker that runs or the callback.
LEMMA LockNext == TypeOK /\ LockInv /\ [Next]_vars => LockInv'
<1> SUFFICES ASSUME TypeOK, LockInv, [Next]_vars PROVE LockInv'
  OBVIOUS
<1> USE WorkersAssumption DEF TypeOK, LockInv, InCallback, MainPC, Main, Free, mainVars, countVars,
      workerVars, objectVars, pipeVars, historyVars
<1>1. ASSUME NEW j \in Jobs, DispatchToThread(j) PROVE LockInv'
  BY <1>1 DEF DispatchToThread, Issue, Owe, MayStart
<1>2. ASSUME NEW j \in Jobs, DispatchFails(j) PROVE LockInv'
  BY <1>2 DEF DispatchFails, Issue, Owe, MayStart
<1>3. ASSUME NEW j \in Jobs, DispatchToQueue(j) PROVE LockInv'
  BY <1>3 DEF DispatchToQueue, Issue, Owe, MayStart
<1>4. CASE Push
  BY <1>4 DEF Push
<1>5. CASE Setup
  BY <1>5 DEF Setup
<1>6. CASE LoopEnds
  BY <1>6 DEF LoopEnds
<1>7. CASE ClosePipe \/ Delete \/ Exit
  BY <1>7 DEF ClosePipe, Delete, Exit
<1>8. CASE OnNotify
  BY <1>8 DEF OnNotify
<1>9. CASE Scan
  BY <1>9 DEF Scan, IsReady, IsNextKey
<1>10. CASE ScanEnds
  BY <1>10 DEF ScanEnds
<1>11. CASE Call
  BY <1>11 DEF Call
<1>12. CASE Return
  BY <1>12 DEF Return
<1>13. CASE Assign
  BY <1>13 DEF Assign, NextJob
<1>14. CASE Signal
  BY <1>14 DEF Signal
<1>15. CASE NothingQueued
  BY <1>15 DEF NothingQueued, AllDelivered
<1>16. CASE Final
  BY <1>16 DEF Final, AllDelivered
<1>17. CASE SetupFails
  BY <1>17 DEF SetupFails
<1>18. CASE Interrupt \/ Crash
  BY <1>18 DEF Interrupt, Crash
<1>19. ASSUME NEW w \in Workers, Register(w) \/ Registered(w) PROVE LockInv'
  BY <1>19 DEF Register, Registered
<1>20. ASSUME NEW w \in Workers, Begin(w) PROVE LockInv'
  BY <1>20 DEF Begin, AllDelivered
<1>21. ASSUME NEW w \in Workers, Finish(w) PROVE LockInv'
  BY <1>21 DEF Finish
<1>22. ASSUME NEW w \in Workers, Notify(w) PROVE LockInv'
  BY <1>22 DEF Notify
<1>23. ASSUME NEW w \in Workers, NotifyLost(w) PROVE LockInv'
  BY <1>23 DEF NotifyLost
<1>24. ASSUME NEW w \in Workers, Wait(w) PROVE LockInv'
  BY <1>24 DEF Wait
<1>25. ASSUME NEW w \in Workers, Chance(w) PROVE LockInv'
  BY <1>25 DEF Chance, Spurious, Stray, StrayGoesOn
<1>26. CASE UNCHANGED vars
  BY <1>26 DEF vars
<1>27. QED
  BY <1>1, <1>2, <1>3, <1>4, <1>5, <1>6, <1>7, <1>8, <1>9, <1>10, <1>11, <1>12, <1>13, <1>14,
     <1>15, <1>16, <1>17, <1>18, <1>19, <1>20, <1>21, <1>22, <1>23, <1>24, <1>25, <1>26
  DEF Next, Dispatch, MainStep, WorkerStep


-----------------------------------------------------------------------------
(* The count of callbacks owed.                                            *)

\* A step keeps the relation of eventCnt, the queue and the registered event.
LEMMA CountNext == TypeOK /\ LockInv /\ CountInv /\ [Next]_vars => CountInv'
<1> SUFFICES ASSUME TypeOK, LockInv, CountInv, [Next]_vars PROVE CountInv'
  OBVIOUS
<1> USE WorkersAssumption, maxThreadsAssumption, OriginAssumption DEF TypeOK, LockInv, CountInv, InCallback, InNotify, InScript, Queued, Credit,
      MainPC, Main, Free, mainVars, countVars,
      workerVars, objectVars, pipeVars, historyVars
<1>1. ASSUME NEW j \in Jobs, DispatchToThread(j) PROVE CountInv'
  <2>1. /\ eventCnt' = eventCnt + 1 /\ numThreads' = numThreads + 1
        /\ numThreads < maxThreads
        /\ UNCHANGED <<mpc, ret, wqueue, registered, finished>>
    BY <1>1 DEF DispatchToThread, Issue, Owe, MayStart
  <2>2. mpc # "push" /\ mpc # "next" /\ mpc # "final"
    BY <1>1 DEF DispatchToThread, Issue
  <2>3. QED
    BY <2>1, <2>2
<1>2. ASSUME NEW j \in Jobs, DispatchFails(j) PROVE CountInv'
  BY <1>2 DEF DispatchFails, Issue, Owe, MayStart
<1>3. ASSUME NEW j \in Jobs, DispatchToQueue(j) PROVE CountInv'
  BY <1>3 DEF DispatchToQueue, Issue, Owe, MayStart
<1>4. CASE Push
  BY <1>4 DEF Push
<1>5. CASE Setup
  BY <1>5 DEF Setup
<1>6. CASE LoopEnds
  BY <1>6 DEF LoopEnds
<1>7. CASE ClosePipe \/ Delete \/ Exit
  BY <1>7 DEF ClosePipe, Delete, Exit
<1>8. CASE OnNotify
  BY <1>8 DEF OnNotify
<1>9. CASE Scan
  BY <1>9 DEF Scan, IsReady, IsNextKey
<1>10. CASE ScanEnds
  BY <1>10 DEF ScanEnds
<1>11. CASE Call
  BY <1>11 DEF Call
<1>12. CASE Return
  BY <1>12 DEF Return
<1>13. CASE Assign
  BY <1>13 DEF Assign, NextJob
<1>14. CASE Signal
  BY <1>14 DEF Signal
<1>15. CASE NothingQueued
  BY <1>15 DEF NothingQueued, AllDelivered
<1>16. CASE Final
  <2>1. CASE eventCnt = 0
    BY <1>16, <2>1 DEF Final, AllDelivered
  <2>2. CASE eventCnt # 0
    BY <1>16, <2>2 DEF Final, AllDelivered
  <2>3. QED
    BY <2>1, <2>2
<1>17. CASE SetupFails
  BY <1>17 DEF SetupFails
<1>18. CASE Interrupt \/ Crash
  BY <1>18 DEF Interrupt, Crash
<1>19. ASSUME NEW w \in Workers, Register(w) \/ Registered(w) PROVE CountInv'
  BY <1>19 DEF Register, Registered
<1>20. ASSUME NEW w \in Workers, Begin(w) PROVE CountInv'
  BY <1>20 DEF Begin, AllDelivered
<1>21. ASSUME NEW w \in Workers, Finish(w) PROVE CountInv'
  BY <1>21 DEF Finish
<1>22. ASSUME NEW w \in Workers, Notify(w) PROVE CountInv'
  BY <1>22 DEF Notify
<1>23. ASSUME NEW w \in Workers, NotifyLost(w) PROVE CountInv'
  BY <1>23 DEF NotifyLost
<1>24. ASSUME NEW w \in Workers, Wait(w) PROVE CountInv'
  BY <1>24 DEF Wait
<1>25. ASSUME NEW w \in Workers, Chance(w) PROVE CountInv'
  BY <1>25 DEF Chance, Spurious, Stray, StrayGoesOn
<1>26. CASE UNCHANGED vars
  BY <1>26 DEF vars
<1>27. QED
  BY <1>1, <1>2, <1>3, <1>4, <1>5, <1>6, <1>7, <1>8, <1>9, <1>10, <1>11, <1>12, <1>13, <1>14,
     <1>15, <1>16, <1>17, <1>18, <1>19, <1>20, <1>21, <1>22, <1>23, <1>24, <1>25, <1>26
  DEF Next, Dispatch, MainStep, WorkerStep


-----------------------------------------------------------------------------
(* The end of a program without sockets.                                   *)

\* Without sockets a step keeps what is known once no callback is owed.
LEMMA EndNext == TypeOK /\ LockInv /\ CountInv /\ EndInv /\ [Next]_vars => EndInv'
<1> SUFFICES ASSUME TypeOK, LockInv, CountInv, EndInv, [Next]_vars PROVE EndInv'
  OBVIOUS
<1> USE WorkersAssumption, OriginAssumption DEF TypeOK, LockInv, CountInv, EndInv, Ending, InCallback, InNotify, InScript,
      MainPC, Main, Free, mainVars, countVars,
      workerVars, objectVars, pipeVars, historyVars
<1>1. ASSUME NEW j \in Jobs, DispatchToThread(j) PROVE EndInv'
  BY <1>1 DEF DispatchToThread, Issue, Owe, MayStart
<1>2. ASSUME NEW j \in Jobs, DispatchFails(j) PROVE EndInv'
  BY <1>2 DEF DispatchFails, Issue, Owe, MayStart
<1>3. ASSUME NEW j \in Jobs, DispatchToQueue(j) PROVE EndInv'
  BY <1>3 DEF DispatchToQueue, Issue, Owe, MayStart
<1>4. CASE Push
  BY <1>4 DEF Push
<1>5. CASE Setup
  BY <1>5 DEF Setup
<1>6. CASE LoopEnds
  BY <1>6 DEF LoopEnds
<1>7. CASE ClosePipe \/ Delete \/ Exit
  BY <1>7 DEF ClosePipe, Delete, Exit
<1>8. CASE OnNotify
  BY <1>8 DEF OnNotify
<1>9. CASE Scan
  BY <1>9 DEF Scan, IsReady, IsNextKey
<1>10. CASE ScanEnds
  BY <1>10 DEF ScanEnds
<1>11. CASE Call
  BY <1>11 DEF Call
<1>12. CASE Return
  BY <1>12 DEF Return
<1>13. CASE Assign
  BY <1>13 DEF Assign, NextJob
<1>14. CASE Signal
  BY <1>14 DEF Signal
<1>15. CASE NothingQueued
  BY <1>15 DEF NothingQueued, AllDelivered
<1>16. CASE Final
  BY <1>16 DEF Final, AllDelivered
<1>17. CASE SetupFails
  BY <1>17 DEF SetupFails
<1>18. CASE Interrupt \/ Crash
  BY <1>18 DEF Interrupt, Crash
<1>19. ASSUME NEW w \in Workers, Register(w) \/ Registered(w) PROVE EndInv'
  BY <1>19 DEF Register, Registered
<1>20. ASSUME NEW w \in Workers, Begin(w) PROVE EndInv'
  BY <1>20 DEF Begin, AllDelivered
<1>21. ASSUME NEW w \in Workers, Finish(w) PROVE EndInv'
  BY <1>21 DEF Finish
<1>22. ASSUME NEW w \in Workers, Notify(w) PROVE EndInv'
  BY <1>22 DEF Notify
<1>23. ASSUME NEW w \in Workers, NotifyLost(w) PROVE EndInv'
  BY <1>23 DEF NotifyLost
<1>24. ASSUME NEW w \in Workers, Wait(w) PROVE EndInv'
  BY <1>24 DEF Wait
<1>25. ASSUME NEW w \in Workers, Chance(w) PROVE EndInv'
  BY <1>25 DEF Chance, Spurious, Stray, StrayGoesOn
<1>26. CASE UNCHANGED vars
  BY <1>26 DEF vars
<1>27. QED
  BY <1>1, <1>2, <1>3, <1>4, <1>5, <1>6, <1>7, <1>8, <1>9, <1>10, <1>11, <1>12, <1>13, <1>14,
     <1>15, <1>16, <1>17, <1>18, <1>19, <1>20, <1>21, <1>22, <1>23, <1>24, <1>25, <1>26
  DEF Next, Dispatch, MainStep, WorkerStep


-----------------------------------------------------------------------------
(* What the workers hold.                                                  *)

\* A step gives a worker only jobs that were dispatched.
LEMMA HoldNext == TypeOK /\ HoldInv /\ [Next]_vars => HoldInv'
<1> SUFFICES ASSUME TypeOK, HoldInv, [Next]_vars PROVE HoldInv'
  OBVIOUS
<1> USE WorkersAssumption, JobsAssumption, OriginAssumption DEF TypeOK, HoldInv, InCallback, MainPC, WorkerPC, mainVars, countVars,
      workerVars, objectVars, pipeVars, historyVars
<1>1. ASSUME NEW j \in Jobs, DispatchToThread(j) PROVE HoldInv'
  BY <1>1 DEF DispatchToThread, Issue, Owe, MayStart
<1>2. ASSUME NEW j \in Jobs, DispatchFails(j) PROVE HoldInv'
  BY <1>2 DEF DispatchFails, Issue, Owe, MayStart
<1>3. ASSUME NEW j \in Jobs, DispatchToQueue(j) PROVE HoldInv'
  BY <1>3 DEF DispatchToQueue, Issue, Owe, MayStart
<1>4. CASE Push
  BY <1>4 DEF Push
<1>5. CASE Setup
  BY <1>5 DEF Setup
<1>6. CASE LoopEnds
  BY <1>6 DEF LoopEnds
<1>7. CASE ClosePipe \/ Delete \/ Exit
  BY <1>7 DEF ClosePipe, Delete, Exit
<1>8. CASE OnNotify
  BY <1>8 DEF OnNotify
<1>9. CASE Scan
  BY <1>9 DEF Scan, IsReady, IsNextKey
<1>10. CASE ScanEnds
  BY <1>10 DEF ScanEnds
<1>11. CASE Call
  BY <1>11 DEF Call
<1>12. CASE Return
  BY <1>12 DEF Return
<1>13. CASE Assign
  BY <1>13 DEF Assign, NextJob
<1>14. CASE Signal
  BY <1>14 DEF Signal
<1>15. CASE NothingQueued
  BY <1>15 DEF NothingQueued, AllDelivered
<1>16. CASE Final
  BY <1>16 DEF Final, AllDelivered
<1>17. CASE SetupFails
  BY <1>17 DEF SetupFails
<1>18. CASE Interrupt \/ Crash
  BY <1>18 DEF Interrupt, Crash
<1>19. ASSUME NEW w \in Workers, Register(w) \/ Registered(w) PROVE HoldInv'
  BY <1>19 DEF Register, Registered
<1>20. ASSUME NEW w \in Workers, Begin(w) PROVE HoldInv'
  BY <1>20 DEF Begin, AllDelivered
<1>21. ASSUME NEW w \in Workers, Finish(w) PROVE HoldInv'
  BY <1>21 DEF Finish
<1>22. ASSUME NEW w \in Workers, Notify(w) PROVE HoldInv'
  BY <1>22 DEF Notify
<1>23. ASSUME NEW w \in Workers, NotifyLost(w) PROVE HoldInv'
  BY <1>23 DEF NotifyLost
<1>24. ASSUME NEW w \in Workers, Wait(w) PROVE HoldInv'
  BY <1>24 DEF Wait
<1>25. ASSUME NEW w \in Workers, Chance(w) PROVE HoldInv'
  <2>1. /\ UNCHANGED <<arg, it, wqueue, tb, wk, ready, issued>>
        /\ mpc' = mpc \/ mpc' = "exit"
        /\ InCallback' => InCallback
        /\ \A v \in Workers : wpc'[v] = "none" <=> wpc[v] = "none"
    BY <1>25, ChanceKeeps
  <2>2. /\ \A v \in Workers : IF wpc'[v] = "none" THEN tb'[v] = None ELSE tb'[v] \in issued'
        /\ \A v \in wk' : wpc'[v] # "none"
    BY <2>1
  <2>3. \A i \in 1..Len(wqueue') : wqueue'[i] \in issued'
    BY <2>1
  <2>4. QED
    BY <2>1, <2>2, <2>3
<1>26. CASE UNCHANGED vars
  BY <1>26 DEF vars
<1>27. QED
  BY <1>1, <1>2, <1>3, <1>4, <1>5, <1>6, <1>7, <1>8, <1>9, <1>10, <1>11, <1>12, <1>13, <1>14,
     <1>15, <1>16, <1>17, <1>18, <1>19, <1>20, <1>21, <1>22, <1>23, <1>24, <1>25, <1>26
  DEF Next, Dispatch, MainStep, WorkerStep

\* A step marks ready, and calls back, only jobs that were run.
LEMMA DeliveryNext == TypeOK /\ LockInv /\ HoldInv /\ DeliveryInv /\ [Next]_vars => DeliveryInv'
<1> SUFFICES ASSUME TypeOK, LockInv, HoldInv, DeliveryInv, [Next]_vars PROVE DeliveryInv'
  OBVIOUS
<1> USE WorkersAssumption, JobsAssumption, OriginAssumption DEF TypeOK, LockInv, HoldInv, DeliveryInv, OwnObjects, InCallback, MainPC, WorkerPC, mainVars, countVars,
      workerVars, objectVars, pipeVars, historyVars
<1>1. ASSUME NEW j \in Jobs, DispatchToThread(j) PROVE DeliveryInv'
  BY <1>1 DEF DispatchToThread, Issue, Owe, MayStart
<1>2. ASSUME NEW j \in Jobs, DispatchFails(j) PROVE DeliveryInv'
  BY <1>2 DEF DispatchFails, Issue, Owe, MayStart
<1>3. ASSUME NEW j \in Jobs, DispatchToQueue(j) PROVE DeliveryInv'
  BY <1>3 DEF DispatchToQueue, Issue, Owe, MayStart
<1>4. CASE Push
  BY <1>4 DEF Push
<1>5. CASE Setup
  BY <1>5 DEF Setup
<1>6. CASE LoopEnds
  BY <1>6 DEF LoopEnds
<1>7. CASE ClosePipe \/ Delete \/ Exit
  BY <1>7 DEF ClosePipe, Delete, Exit
<1>8. CASE OnNotify
  BY <1>8 DEF OnNotify
<1>9. CASE Scan
  BY <1>9 DEF Scan, IsReady, IsNextKey
<1>10. CASE ScanEnds
  BY <1>10 DEF ScanEnds
<1>11. CASE Call
  BY <1>11 DEF Call
<1>12. CASE Return
  BY <1>12 DEF Return
<1>13. CASE Assign
  BY <1>13 DEF Assign, NextJob
<1>14. CASE Signal
  BY <1>14 DEF Signal
<1>15. CASE NothingQueued
  BY <1>15 DEF NothingQueued, AllDelivered
<1>16. CASE Final
  BY <1>16 DEF Final, AllDelivered
<1>17. CASE SetupFails
  BY <1>17 DEF SetupFails
<1>18. CASE Interrupt \/ Crash
  BY <1>18 DEF Interrupt, Crash
<1>19. ASSUME NEW w \in Workers, Register(w) \/ Registered(w) PROVE DeliveryInv'
  BY <1>19 DEF Register, Registered
<1>20. ASSUME NEW w \in Workers, Begin(w) PROVE DeliveryInv'
  BY <1>20 DEF Begin, AllDelivered
<1>21. ASSUME NEW w \in Workers, Finish(w) PROVE DeliveryInv'
  <2>1. tb[w] \in Jobs
    BY <1>21 DEF Finish
  <2>2. ran' = [ran EXCEPT ![tb[w]] = IF @ < 2 THEN @ + 1 ELSE @]
    BY <1>21 DEF Finish
  <2>3. \A i \in Jobs : (ran[i] > 0 => ran'[i] > 0) /\ ran'[tb[w]] > 0
    <3>1. ran[tb[w]] \in 0..2
      BY <2>1
    <3>2. ran'[tb[w]] = IF ran[tb[w]] < 2 THEN ran[tb[w]] + 1 ELSE ran[tb[w]]
      BY <2>1, <2>2
    <3>3. ran'[tb[w]] > 0
      BY <3>1, <3>2
    <3>4. \A i \in Jobs : i # tb[w] => ran'[i] = ran[i]
      BY <2>2
    <3>5. QED
      BY <3>3, <3>4
  <2>4. UNCHANGED <<mpc, ret, it, tb, called, callback, issued>>
    BY <1>21 DEF Finish
  <2>5. ASSUME NEW i \in Jobs, OwnObjects, ready'[Obj[i]] PROVE ran'[i] > 0
    <3>1. CASE i = tb[w]
      BY <2>3, <3>1
    <3>2. CASE i # tb[w]
      <4>1. Obj[i] # Obj[tb[w]]
        BY <2>1, <2>5, <3>2
      <4>2. ready[Obj[i]]
        BY <1>21, <2>5, <4>1 DEF Finish
      <4>3. QED
        BY <2>3, <2>5, <4>2
    <3>3. QED
      BY <3>1, <3>2
  <2>6. OwnObjects' = OwnObjects
    OBVIOUS
  <2>7. QED
    BY <2>3, <2>4, <2>5
<1>22. ASSUME NEW w \in Workers, Notify(w) PROVE DeliveryInv'
  BY <1>22 DEF Notify
<1>23. ASSUME NEW w \in Workers, NotifyLost(w) PROVE DeliveryInv'
  BY <1>23 DEF NotifyLost
<1>24. ASSUME NEW w \in Workers, Wait(w) PROVE DeliveryInv'
  BY <1>24 DEF Wait
<1>25. ASSUME NEW w \in Workers, Chance(w) PROVE DeliveryInv'
  BY <1>25, ChanceKeeps
<1>26. CASE UNCHANGED vars
  BY <1>26 DEF vars
<1>27. QED
  BY <1>1, <1>2, <1>3, <1>4, <1>5, <1>6, <1>7, <1>8, <1>9, <1>10, <1>11, <1>12, <1>13, <1>14,
     <1>15, <1>16, <1>17, <1>18, <1>19, <1>20, <1>21, <1>22, <1>23, <1>24, <1>25, <1>26
  DEF Next, Dispatch, MainStep, WorkerStep

\* A step never overwrites a job whose callback was not called.
LEMMA OwnedNext == TypeOK /\ HoldInv /\ DeliveryInv /\ NoJobOverwritten /\ [Next]_vars => NoJobOverwritten'
<1> SUFFICES ASSUME TypeOK, HoldInv, DeliveryInv, NoJobOverwritten, [Next]_vars PROVE NoJobOverwritten'
  OBVIOUS
<1> USE JobsAssumption DEF TypeOK, HoldInv, NoJobOverwritten, mainVars, countVars,
      workerVars, objectVars, pipeVars, historyVars
<1>1. ASSUME NEW j \in Jobs, DispatchToThread(j) PROVE NoJobOverwritten'
  BY <1>1 DEF DispatchToThread, Issue, Owe, MayStart
<1>2. ASSUME NEW j \in Jobs, DispatchFails(j) PROVE NoJobOverwritten'
  BY <1>2 DEF DispatchFails, Issue, Owe, MayStart
<1>3. ASSUME NEW j \in Jobs, DispatchToQueue(j) PROVE NoJobOverwritten'
  <2>1. mpc # "push" /\ mpc' = "push" /\ arg' = j
    BY <1>3, OriginAssumption DEF DispatchToQueue, Issue
  <2>2. issued' = issued \cup {j} /\ UNCHANGED <<dropped, called, wqueue, tb>>
    BY <1>3 DEF DispatchToQueue, Issue
  <2>3. QED
    BY <2>1, <2>2
<1>4. CASE Push
  <2>1. wqueue' = Append(wqueue, arg) /\ arg \in Jobs
    BY <1>4 DEF Push
  <2>2. /\ Len(wqueue') = Len(wqueue) + 1 /\ Len(wqueue) \in Nat
        /\ \A i \in 1..Len(wqueue) : wqueue'[i] = wqueue[i]
        /\ wqueue'[Len(wqueue')] = arg
    BY <2>1
  <2>3. \A j \in Jobs :
          (\E i \in 1..Len(wqueue) : wqueue[i] = j) \/ arg = j
            => \E i \in 1..Len(wqueue') : wqueue'[i] = j
    <3>1. 1..Len(wqueue) \subseteq 1..Len(wqueue') /\ Len(wqueue') \in 1..Len(wqueue')
      BY <2>2
    <3>2. QED
      BY <2>2, <3>1
  <2>4. UNCHANGED <<issued, dropped, called, tb>>
    BY <1>4 DEF Push
  <2>5. QED
    BY <2>3, <2>4
<1>5. CASE Setup
  BY <1>5 DEF Setup
<1>6. CASE LoopEnds
  BY <1>6 DEF LoopEnds
<1>7. CASE ClosePipe \/ Delete \/ Exit
  BY <1>7 DEF ClosePipe, Delete, Exit
<1>8. CASE OnNotify
  BY <1>8 DEF OnNotify
<1>9. CASE Scan
  BY <1>9 DEF Scan, IsReady, IsNextKey
<1>10. CASE ScanEnds
  BY <1>10 DEF ScanEnds
<1>11. CASE Call
  <2>1. UNCHANGED <<issued, dropped, wqueue, tb>> /\ mpc = "call"
    BY <1>11 DEF Call
  <2>2. \A j \in Jobs : called[j] > 0 => called'[j] > 0
    BY <1>11 DEF Call
  <2>3. QED
    BY <2>1, <2>2
<1>12. CASE Return
  BY <1>12 DEF Return
<1>13. CASE Assign
  <2>1. UNCHANGED <<issued, dropped, called>> /\ mpc = "next" /\ it \in Workers
    BY <1>13 DEF Assign
  <2>2. tb' = [tb EXCEPT ![it] = Head(wqueue)] /\ wqueue' = Tail(wqueue) /\ wqueue # <<>>
    BY <1>13 DEF Assign, NextJob
  <2>3. ASSUME NEW j \in Jobs, NEW i \in 1..Len(wqueue), wqueue[i] = j
        PROVE  tb'[it] = j \/ \E k \in 1..Len(wqueue') : wqueue'[k] = j
    <3>1. CASE i = 1
      BY <2>1, <2>2, <2>3, <3>1
    <3>2. CASE i # 1
      <4>1. i - 1 \in 1..Len(wqueue') /\ wqueue'[i - 1] = j
        BY <2>2, <2>3, <3>2
      <4>2. QED
        BY <4>1
    <3>3. QED
      BY <3>1, <3>2
  <2>4. ASSUME NEW j \in Jobs, NEW w \in Workers, tb[w] = j, OwnObjects
        PROVE  tb'[w] = j \/ called'[j] > 0
    BY <2>1, <2>2, <2>4 DEF DeliveryInv
  <2>5. QED
    BY <2>1, <2>3, <2>4
<1>14. CASE Signal
  BY <1>14 DEF Signal
<1>15. CASE NothingQueued
  BY <1>15 DEF NothingQueued, AllDelivered
<1>16. CASE Final
  BY <1>16 DEF Final, AllDelivered
<1>17. CASE SetupFails
  BY <1>17 DEF SetupFails
<1>18. CASE Interrupt \/ Crash
  BY <1>18 DEF Interrupt, Crash
<1>19. ASSUME NEW w \in Workers, Register(w) \/ Registered(w) PROVE NoJobOverwritten'
  <2>1. CASE Register(w)
    BY <2>1 DEF Register
  <2>2. CASE Registered(w)
    BY <2>2 DEF Registered
  <2>3. QED
    BY <1>19, <2>1, <2>2
<1>20. ASSUME NEW w \in Workers, Begin(w) PROVE NoJobOverwritten'
  BY <1>20 DEF Begin, AllDelivered
<1>21. ASSUME NEW w \in Workers, Finish(w) PROVE NoJobOverwritten'
  BY <1>21 DEF Finish
<1>22. ASSUME NEW w \in Workers, Notify(w) PROVE NoJobOverwritten'
  BY <1>22 DEF Notify
<1>23. ASSUME NEW w \in Workers, NotifyLost(w) PROVE NoJobOverwritten'
  BY <1>23 DEF NotifyLost
<1>24. ASSUME NEW w \in Workers, Wait(w) PROVE NoJobOverwritten'
  BY <1>24 DEF Wait
<1>25. ASSUME NEW w \in Workers, Chance(w) PROVE NoJobOverwritten'
  BY <1>25, ChanceKeeps
<1>26. CASE UNCHANGED vars
  BY <1>26 DEF vars
<1>27. QED
  BY <1>1, <1>2, <1>3, <1>4, <1>5, <1>6, <1>7, <1>8, <1>9, <1>10, <1>11, <1>12, <1>13, <1>14,
     <1>15, <1>16, <1>17, <1>18, <1>19, <1>20, <1>21, <1>22, <1>23, <1>24, <1>25, <1>26
  DEF Next, Dispatch, MainStep, WorkerStep

-----------------------------------------------------------------------------
(* The invariant and what follows from it.                                 *)

LEMMA InvInit == Init => IInv
<1> SUFFICES ASSUME Init PROVE IInv
  OBVIOUS
<1>1. TypeOK
  BY TypeInit
<1>2. LockInv
  BY DEF Init, LockInv, InCallback
<1>3. CountInv
  <2>1. Len(wqueue) = 0
    BY DEF Init
  <2>2. QED
    BY <2>1, maxThreadsAssumption
    DEF Init, CountInv, InNotify, InScript, InCallback, Queued, Credit
<1>4. EndInv
  BY DEF Init, EndInv, Ending
<1>5. HoldInv
  BY DEF Init, HoldInv, InCallback
<1>6. DeliveryInv
  BY JobsAssumption DEF Init, DeliveryInv, InCallback
<1>7. NoJobOverwritten
  BY DEF Init, NoJobOverwritten
<1>8. QED
  BY <1>1, <1>2, <1>3, <1>4, <1>5, <1>6, <1>7 DEF IInv

LEMMA InvNext == IInv /\ [Next]_vars => IInv'
  BY TypeNext, LockNext, CountNext, EndNext, HoldNext, DeliveryNext, OwnedNext DEF IInv

LEMMA Invariance == Spec => []IInv
  BY InvInit, InvNext, PTL DEF Spec

\* Jobs and JavaScript callbacks exclude each other, although onNotify reads
\* `ready' and iterates over wk without the lock.
THEOREM MutualExclusion == Spec => []Exclusive
<1>1. IInv => Exclusive
  BY WorkersAssumption DEF IInv, LockInv, Exclusive, Main
<1>2. QED
  BY <1>1, Invariance, PTL

\* A callback is called only after its own job was run.  It needs an object per
\* job: `ready' of one that is dispatched again (file.cpp:343) is stale.
CallbackAfterRun == OwnObjects => \A j \in Jobs : called[j] > 0 => ran[j] > 0
THEOREM CalledOnlyAfterRun == Spec => []CallbackAfterRun
<1>1. IInv => CallbackAfterRun
  BY DEF IInv, DeliveryInv, CallbackAfterRun
<1>2. QED
  BY <1>1, Invariance, PTL

\* No dispatched job is overwritten in its worker or lost from the queue.
THEOREM JobsAreKept == Spec => []NoJobOverwritten
<1>1. IInv => NoJobOverwritten
  BY DEF IInv
<1>2. QED
  BY <1>1, Invariance, PTL

\* Every queued job is owed a callback, so onNotify (lines 65 and 76) cannot
\* declare the pool finished while a job is still queued.
EventCntCoversQueue ==
  eventCnt + (IF mpc = "next" THEN 1 ELSE 0)
    >= Len(wqueue) + (IF mpc = "push" THEN 1 ELSE 0)
THEOREM QueueIsCovered == Spec => []EventCntCoversQueue
<1>1. IInv => EventCntCoversQueue
  BY DEF IInv, CountInv, Credit, Queued, EventCntCoversQueue
<1>2. QED
  BY <1>1, Invariance, PTL

\* The only step that sets `finished' is line 78, and it finds nothing to do.
LEMMA OnlyFinalFinishes ==
  ASSUME IInv, Next, finished' # finished PROVE Final /\ AllDelivered
<1> USE DEF mainVars, countVars, workerVars, objectVars, pipeVars, historyVars
<1>1. ASSUME NEW j \in Jobs, Dispatch(j) PROVE finished' = finished
  BY <1>1 DEF Dispatch, DispatchToThread, DispatchFails, DispatchToQueue, Issue
<1>2. ASSUME NEW w \in Workers, WorkerStep(w) \/ Chance(w) PROVE finished' = finished
  BY <1>2 DEF WorkerStep, Chance, Register, Registered, Begin, Finish, Notify,
                 NotifyLost, Wait, Spurious, Stray, StrayGoesOn
<1>3. ASSUME SetupFails \/ Interrupt \/ Crash PROVE finished' = finished
  BY <1>3 DEF SetupFails, Interrupt, Crash
<1>4. CASE MainStep
  <2>1. Final
    BY <1>4 DEF MainStep, Push, Setup, LoopEnds, ClosePipe, Delete, Exit, OnNotify, Scan, ScanEnds,
                Call, Return, Assign, Signal, NothingQueued
  <2>2. AllDelivered
    BY <2>1 DEF Final
  <2>3. QED
    BY <2>1, <2>2
<1>5. QED
  BY <1>1, <1>2, <1>3, <1>4 DEF Next

\* The pool declares itself finished only when it is quiescent.
THEOREM FinishesAtQuiescence == Spec => FinishAtQuiescence
<1>1. IInv /\ [Next]_vars
        => [finished' # finished =>
              /\ eventCnt = 0 /\ wqueue = <<>> /\ ~registered'
              /\ \A w \in Workers : wpc[w] # "run"]_vars
  <2> SUFFICES ASSUME IInv, Next, finished' # finished
               PROVE  /\ eventCnt = 0 /\ wqueue = <<>> /\ ~registered'
                      /\ \A w \in Workers : wpc[w] # "run"
    OBVIOUS
  <2>1. Final /\ AllDelivered
    BY OnlyFinalFinishes
  <2>2. eventCnt = 0 /\ ~registered' /\ mpc = "final"
    BY <2>1 DEF Final, AllDelivered
  <2>3. \A w \in Workers : wpc[w] # "run"
    BY <2>2 DEF IInv, CountInv
  <2>4. Len(wqueue) = 0
    BY <2>2 DEF IInv, TypeOK, CountInv, Credit, Queued
  <2>5. QED
    BY <2>2, <2>3, <2>4 DEF IInv, TypeOK
<1>2. QED
  BY <1>1, Invariance, PTL DEF Spec, FinishAtQuiescence

\* Once finished, onNotify is never entered again and no callback is called.
THEOREM NothingAfterFinished == Spec => FinishedIsFinal
<1>1. IInv /\ [Next]_vars => [finished => called' = called]_vars
  <2> SUFFICES ASSUME IInv, Next, finished PROVE called' = called
    OBVIOUS
  <2> USE DEF mainVars, countVars, workerVars, objectVars, pipeVars, historyVars
  <2>1. ~InNotify
    BY DEF IInv, CountInv
  <2>2. mpc # "call"
    BY <2>1 DEF InNotify
  <2>3. ASSUME NEW j \in Jobs, Dispatch(j) PROVE called' = called
    BY <2>3 DEF Dispatch, DispatchToThread, DispatchFails, DispatchToQueue, Issue
  <2>4. ASSUME NEW w \in Workers, WorkerStep(w) \/ Chance(w) PROVE called' = called
    BY <2>4 DEF WorkerStep, Chance, Register, Registered, Begin, Finish, Notify,
                 NotifyLost, Wait, Spurious, Stray, StrayGoesOn
  <2>5. ASSUME SetupFails \/ Interrupt \/ Crash PROVE called' = called
    BY <2>5 DEF SetupFails, Interrupt, Crash
  <2>6. CASE MainStep
    BY <2>2, <2>6 DEF MainStep, Push, Setup, LoopEnds, ClosePipe, Delete, Exit, OnNotify, Scan, ScanEnds,
                      Call, Return, Assign, Signal, NothingQueued, Final
  <2>7. QED
    BY <2>3, <2>4, <2>5, <2>6 DEF Next
<1>2. QED
  BY <1>1, Invariance, PTL DEF Spec, FinishedIsFinal

-----------------------------------------------------------------------------
(* ThreadPool implements PoolContract when each job has an object of its   *)
(* own and no socket keeps the loop alive.                                 *)

\* The state of the contract, spelled out.
ContractVars ==
  <<issued, ran, called, Outstanding, Ending>>

LEMMA ContractStep ==
  ASSUME OwnObjects, ~Sockets, IInv, Next
  PROVE  Contract!Next \/ UNCHANGED ContractVars
<1> USE DEF mainVars, countVars, workerVars, objectVars, pipeVars, historyVars
<1> DEFINE Closed == Ending
<1> USE DEF Ending
<1>1. TypeOK /\ LockInv /\ CountInv /\ EndInv /\ HoldInv /\ DeliveryInv
  BY DEF IInv
<1>2. ASSUME NEW j \in Jobs, Dispatch(j) PROVE Contract!Ask(j)
  <2>1. /\ mpc = Origin[j] /\ j \notin issued /\ issued' = issued \cup {j}
        /\ eventCnt' = eventCnt + 1 /\ UNCHANGED <<ran, called>>
    BY <1>2 DEF Dispatch, DispatchToThread, DispatchFails, DispatchToQueue, Issue, Owe
  <2>2. mpc' = mpc \/ (mpc' = "push" /\ ret' = mpc)
    BY <1>2 DEF Dispatch, DispatchToThread, DispatchFails, DispatchToQueue
  <2>3. mpc \in {"script", "callback", "loop"}
    BY <2>1, OriginAssumption
  <2>4. InCallback' = InCallback /\ ~Closed /\ ~Closed'
    BY <2>2, <2>3 DEF InCallback
  <2>5. Outstanding' = Outstanding + 1
    BY <1>1, <2>1, <2>4 DEF Outstanding, TypeOK
  <2>6. QED
    BY <2>1, <2>4, <2>5 DEF Contract!Ask
<1>3. ASSUME NEW w \in Workers, Finish(w) PROVE \E j \in Jobs : Contract!Run(j)
  <2>1. wpc[w] = "run" /\ tb[w] \in issued /\ issued \subseteq Jobs
    BY <1>1, <1>3 DEF Finish, HoldInv, TypeOK
  <2>2. threadLock = w /\ eventCnt > 0 /\ ~InCallback
    BY <1>1, <2>1, WorkersAssumption DEF LockInv, CountInv, Main
  <2>3. Outstanding > 0 /\ ~Closed
    BY <1>1, <2>2 DEF Outstanding, EndInv, TypeOK
  <2>4. UNCHANGED <<mpc, ret, eventCnt, issued, called>>
    BY <1>3 DEF Finish
  <2>5. Outstanding' = Outstanding /\ Closed' = Closed
    BY <2>4 DEF Outstanding, InCallback
  <2>6. \E n \in 1..2 : ran' = [ran EXCEPT ![tb[w]] = n]
    <3>1. ran[tb[w]] \in 0..2
      BY <1>1, <2>1 DEF TypeOK
    <3>2. CASE ran[tb[w]] < 2
      <4>1. ran' = [ran EXCEPT ![tb[w]] = ran[tb[w]] + 1]
        BY <1>3, <3>2 DEF Finish
      <4>2. ran[tb[w]] + 1 \in 1..2
        BY <3>1, <3>2
      <4>3. QED
        BY <4>1, <4>2
    <3>3. CASE ran[tb[w]] = 2
      BY <1>3, <3>3 DEF Finish
    <3>4. QED
      BY <3>1, <3>2, <3>3
  <2>7. QED
    BY <2>1, <2>3, <2>4, <2>5, <2>6 DEF Contract!Run
<1>4. CASE Call
  <2>1. it \in wk /\ tb[it] \in issued /\ issued \subseteq Jobs
    BY <1>1, <1>4 DEF Call, HoldInv, TypeOK
  <2>2. callback[Obj[tb[it]]] = tb[it] /\ ran[tb[it]] > 0
    BY <1>1, <1>4, <2>1 DEF Call, HoldInv, DeliveryInv
  <2>3. mpc = "call" /\ mpc' = "callback" /\ UNCHANGED <<eventCnt, issued, ran>>
    BY <1>4 DEF Call
  <2>4. eventCnt > 0
    BY <1>1, <2>3 DEF CountInv, InNotify
  <2>5. Outstanding > 0 /\ Outstanding' = Outstanding - 1
    BY <1>1, <2>3, <2>4 DEF Outstanding, InCallback, TypeOK
  <2>6. called' = [called EXCEPT ![tb[it]] = @ + 1]
    BY <1>4, <2>2 DEF Call
  <2>7. Contract!Call(tb[it])
    BY <2>2, <2>3, <2>5, <2>6 DEF Contract!Call
  <2>8. QED
    BY <2>1, <2>7 DEF Contract!Next
<1>5. CASE LoopEnds
  <2>1. eventCnt = 0 /\ mpc = "loop" /\ mpc' = "dispose"
    BY <1>1, <1>5 DEF LoopEnds, EndInv
  <2>2. UNCHANGED <<eventCnt, issued, ran, called>>
    BY <1>5 DEF LoopEnds
  <2>3. Outstanding = 0 /\ Outstanding' = 0
    BY <2>1, <2>2 DEF Outstanding, InCallback
  <2>4. Contract!Close
    BY <2>1, <2>2, <2>3 DEF Contract!Close
  <2>5. QED
    BY <2>4 DEF Contract!Next
<1>6. ASSUME NEW w \in Workers,
             \/ Register(w) \/ Registered(w) \/ Begin(w)
             \/ Notify(w) \/ NotifyLost(w) \/ Wait(w) \/ Spurious(w)
      PROVE  UNCHANGED ContractVars
  BY <1>6 DEF Register, Registered, Begin, Notify, NotifyLost, Wait, Spurious, ContractVars,
              Outstanding, InCallback
<1>7. CASE Return
  BY <1>1, <1>7 DEF Return, ContractVars, Outstanding, InCallback, TypeOK
<1>8. CASE Push
  BY <1>1, <1>8 DEF Push, ContractVars, Outstanding, InCallback, TypeOK
<1>9. CASE \/ Setup \/ ClosePipe \/ Delete \/ Exit \/ OnNotify \/ Scan \/ ScanEnds
           \/ Assign \/ Signal \/ NothingQueued \/ Final \/ SetupFails \/ Crash
  <2>1. UNCHANGED <<eventCnt, issued, ran, called>>
    BY <1>9 DEF Setup, Crash, ClosePipe, Delete, Exit, OnNotify, Scan, ScanEnds, Assign, Signal, NothingQueued,
                Final, SetupFails
  <2>2. ~InCallback /\ ~InCallback' /\ Closed' = Closed
    BY <1>9 DEF InCallback, Setup, Crash, ClosePipe, Delete, Exit, OnNotify, Scan, ScanEnds, Assign, Signal,
                NothingQueued, Final, SetupFails
  <2>3. QED
    BY <2>1, <2>2 DEF ContractVars, Outstanding
<1>10. ~Interrupt
  BY DEF Interrupt
<1>11. ASSUME NEW w \in Workers, Stray(w) \/ StrayGoesOn(w)
       PROVE  (\E j \in Jobs : Contract!Linger(j)) \/ UNCHANGED ContractVars
  <2>1. wpc[w] # "none" /\ tb[w] \in issued /\ issued \subseteq Jobs
    BY <1>1, <1>11 DEF Stray, StrayGoesOn, HoldInv, TypeOK
  <2>2. /\ Closed /\ Closed' /\ ~InCallback /\ ~InCallback'
        /\ UNCHANGED <<eventCnt, issued, called>>
    BY <1>11 DEF Stray, StrayGoesOn, InCallback
  <2>3. Outstanding' = Outstanding
    BY <2>2 DEF Outstanding
  <2>4. ran' = ran \/ \E n \in 1..2 : ran' = [ran EXCEPT ![tb[w]] = n]
    <3>1. ran[tb[w]] \in 0..2 /\ ran \in [Jobs -> 0..2]
      BY <1>1, <2>1 DEF TypeOK
    <3>2. \/ ran' = ran
          \/ ran' = [ran EXCEPT ![tb[w]] = IF ran[tb[w]] < 2 THEN ran[tb[w]] + 1 ELSE ran[tb[w]]]
          \/ ran' = [ran EXCEPT ![tb[w]] = ran[tb[w]]]
      BY <1>11 DEF Stray, StrayGoesOn
    <3>3. [ran EXCEPT ![tb[w]] = ran[tb[w]]] = ran
      BY <3>1
    <3>4. (IF ran[tb[w]] < 2 THEN ran[tb[w]] + 1 ELSE ran[tb[w]]) \in 1..2
      BY <3>1
    <3>5. QED
      BY <3>2, <3>3, <3>4
  <2>5. CASE ran' = ran
    BY <2>2, <2>3, <2>5 DEF ContractVars
  <2>6. CASE \E n \in 1..2 : ran' = [ran EXCEPT ![tb[w]] = n]
    BY <2>1, <2>2, <2>3, <2>6 DEF Contract!Linger
  <2>7. QED
    BY <2>4, <2>5, <2>6
<1>12. QED
  BY <1>2, <1>3, <1>4, <1>5, <1>6, <1>7, <1>8, <1>9, <1>10, <1>11
  DEF Next, MainStep, WorkerStep, Chance, Contract!Next

\* The pool implements its contract.
THEOREM Refinement ==
  ASSUME OwnObjects, ~Sockets PROVE Spec => ImplementsContract
<1>1. Init => Contract!Init
  BY DEF Init, Contract!Init, Outstanding, InCallback, Ending
<1>2. IInv /\ [Next]_vars => [Contract!Next]_(Contract!vars)
  <2>1. ASSUME IInv, Next PROVE Contract!Next \/ UNCHANGED ContractVars
    BY <2>1, ContractStep
  <2>2. ASSUME UNCHANGED vars PROVE UNCHANGED ContractVars
    BY <2>2 DEF vars, mainVars, countVars, historyVars, ContractVars, Outstanding, InCallback, Ending
  <2>3. UNCHANGED ContractVars => UNCHANGED Contract!vars
    BY DEF ContractVars, Contract!vars
  <2>4. QED
    BY <2>1, <2>2, <2>3
<1>3. QED
  BY <1>1, <1>2, Invariance, PTL DEF Spec, ImplementsContract, Contract!Spec

-----------------------------------------------------------------------------
(* The count.                                                              *)

\* Every job that was dispatched has set the callback of its object.
TotalInv ==
  /\ \A j \in issued : callback[Obj[j]] # None
  /\ IsFiniteSet(issued) /\ IsFiniteSet(Calls)
  /\ CountIsExact

\* One more call of a job is one more element of Calls.
LEMMA CallCounts ==
  ASSUME TypeOK, NEW c \in Jobs, called' = [called EXCEPT ![c] = @ + 1], IsFiniteSet(Calls)
  PROVE  IsFiniteSet(Calls') /\ Cardinality(Calls') = Cardinality(Calls) + 1
<1> DEFINE turn == <<c, called[c] + 1>>
<1>1. called \in [Jobs -> Nat]
  BY DEF TypeOK
<1>2. \A j \in Jobs : called'[j] = IF j = c THEN called[j] + 1 ELSE called[j]
  BY <1>1
<1>3. 1..(called[c] + 1) = (1..called[c]) \cup {called[c] + 1}
  BY <1>1
<1>4. Calls' = Calls \cup {turn}
  <2>1. \A x : x \in Calls <=> \E j \in Jobs : x \in {j} \X (1..called[j])
    BY DEF Calls
  <2>2. \A x : x \in Calls' <=> \E j \in Jobs : x \in {j} \X (1..called'[j])
    BY DEF Calls
  <2>3. ASSUME NEW x, NEW j \in Jobs
        PROVE  x \in {j} \X (1..called'[j]) <=> x \in {j} \X (1..called[j]) \/ (j = c /\ x = turn)
    BY <1>1, <1>2, <1>3
  <2> HIDE DEF turn
  <2>4. \A x : x \in Calls' <=> x \in Calls \/ x = turn
    BY <2>1, <2>2, <2>3
  <2>5. QED
    BY <2>4
<1>5. turn \notin Calls
  BY <1>1 DEF Calls
<1> HIDE DEF turn
<1>6. QED
  BY <1>4, <1>5, FS_AddElement

LEMMA IssueCounts ==
  ASSUME TypeOK, TotalInv, NEW j \in Jobs, issued' = issued \cup {j}, j \notin issued,
         called' = called, callback' = [callback EXCEPT ![Obj[j]] = j],
         eventCnt' = eventCnt + 1, InCallback' = InCallback
  PROVE  TotalInv'
<1>1. Calls' = Calls
  BY DEF Calls
<1>2. IsFiniteSet(issued') /\ Cardinality(issued') = Cardinality(issued) + 1
  BY FS_AddElement DEF TotalInv
<1>3. Outstanding' = Outstanding + 1 /\ Outstanding \in Int
  BY DEF Outstanding, TypeOK
<1>4. Cardinality(issued) \in Nat /\ Cardinality(Calls) \in Nat
  BY FS_CardinalityType DEF TotalInv
<1>5. CountIsExact'
  BY <1>1, <1>2, <1>3, <1>4 DEF TotalInv, CountIsExact
<1>6. \A i \in issued' : callback'[Obj[i]] # None
  BY JobsAssumption DEF TotalInv, TypeOK
<1>7. QED
  BY <1>1, <1>2, <1>5, <1>6 DEF TotalInv

LEMMA NothingCounted ==
  ASSUME TotalInv, UNCHANGED <<issued, called, callback>>, Outstanding' = Outstanding
  PROVE  TotalInv'
<1>1. Calls' = Calls
  BY DEF Calls
<1>2. QED
  BY <1>1 DEF TotalInv, CountIsExact

\* Only dispatch and the begin of a callback change what is owed, and they change
\* the count alike.
LEMMA TotalNext == TypeOK /\ HoldInv /\ TotalInv /\ [Next]_vars => TotalInv'
<1> SUFFICES ASSUME TypeOK, HoldInv, TotalInv, [Next]_vars PROVE TotalInv'
  OBVIOUS
<1> USE DEF mainVars, countVars,
      workerVars, objectVars, pipeVars, historyVars, TypeOK
<1>1. ASSUME NEW j \in Jobs, DispatchToThread(j) PROVE TotalInv'
  <2>1. /\ issued' = issued \cup {j} /\ j \notin issued /\ called' = called
        /\ callback' = [callback EXCEPT ![Obj[j]] = j] /\ eventCnt' = eventCnt + 1
    BY <1>1 DEF DispatchToThread, Issue, Owe
  <2>2. InCallback' = InCallback
    BY <1>1 DEF DispatchToThread, Issue, InCallback
  <2>3. QED
    BY <2>1, <2>2, IssueCounts
<1>2. ASSUME NEW j \in Jobs, DispatchFails(j) PROVE TotalInv'
  <2>1. /\ issued' = issued \cup {j} /\ j \notin issued /\ called' = called
        /\ callback' = [callback EXCEPT ![Obj[j]] = j] /\ eventCnt' = eventCnt + 1
    BY <1>2 DEF DispatchFails, Issue, Owe
  <2>2. InCallback' = InCallback
    BY <1>2 DEF DispatchFails, Issue, InCallback
  <2>3. QED
    BY <2>1, <2>2, IssueCounts
<1>3. ASSUME NEW j \in Jobs, DispatchToQueue(j) PROVE TotalInv'
  <2>1. /\ issued' = issued \cup {j} /\ j \notin issued /\ called' = called
        /\ callback' = [callback EXCEPT ![Obj[j]] = j] /\ eventCnt' = eventCnt + 1
    BY <1>3 DEF DispatchToQueue, Issue, Owe
  <2>2. InCallback' = InCallback
    BY <1>3, OriginAssumption DEF DispatchToQueue, Issue, InCallback
  <2>3. QED
    BY <2>1, <2>2, IssueCounts
<1>4. CASE Push
  BY <1>4, NothingCounted DEF Outstanding, InCallback, Push
<1>5. CASE Setup
  BY <1>5, NothingCounted DEF Outstanding, InCallback, Setup
<1>6. CASE LoopEnds
  BY <1>6, NothingCounted DEF Outstanding, InCallback, LoopEnds
<1>7. CASE ClosePipe \/ Delete \/ Exit
  BY <1>7, NothingCounted DEF Outstanding, InCallback, ClosePipe, Delete, Exit
<1>8. CASE OnNotify
  BY <1>8, NothingCounted DEF Outstanding, InCallback, OnNotify
<1>9. CASE Scan
  BY <1>9, NothingCounted DEF Outstanding, InCallback, Scan, IsReady, IsNextKey
<1>10. CASE ScanEnds
  BY <1>10, NothingCounted DEF Outstanding, InCallback, ScanEnds
<1>11. CASE Call
  <2>1. it \in Workers /\ tb[it] \in issued /\ issued \subseteq Jobs
    BY <1>11 DEF HoldInv, TypeOK, Call
  <2>2. callback[Obj[tb[it]]] \in Jobs
    BY <2>1, JobsAssumption DEF TypeOK, TotalInv
  <2>3. /\ called' = [called EXCEPT ![callback[Obj[tb[it]]]] = @ + 1]
        /\ UNCHANGED <<issued, callback, eventCnt>>
    BY <1>11 DEF Call, countVars, objectVars
  <2>4. InCallback' /\ ~InCallback
    BY <1>11 DEF Call, InCallback
  <2>5. IsFiniteSet(Calls') /\ Cardinality(Calls') = Cardinality(Calls) + 1
    BY <2>2, <2>3, CallCounts DEF TotalInv
  <2>6. Outstanding' = Outstanding - 1
    BY <2>3, <2>4 DEF Outstanding, TypeOK
  <2>7. Outstanding \in Int /\ Cardinality(issued) \in Nat /\ Cardinality(Calls) \in Nat
    BY FS_CardinalityType DEF TotalInv, Outstanding, TypeOK
  <2>8. CountIsExact'
    BY <2>3, <2>5, <2>6, <2>7 DEF TotalInv, CountIsExact
  <2>9. QED
    BY <2>3, <2>5, <2>8 DEF TotalInv
<1>12. CASE Return
  BY <1>12, NothingCounted DEF Outstanding, InCallback, Return
<1>13. CASE Assign
  BY <1>13, NothingCounted DEF Outstanding, InCallback, Assign, NextJob
<1>14. CASE Signal
  BY <1>14, NothingCounted DEF Outstanding, InCallback, Signal
<1>15. CASE NothingQueued
  BY <1>15, NothingCounted DEF Outstanding, InCallback, NothingQueued, AllDelivered
<1>16. CASE Final
  BY <1>16, NothingCounted DEF Outstanding, InCallback, Final, AllDelivered
<1>17. CASE SetupFails
  BY <1>17, NothingCounted DEF Outstanding, InCallback, SetupFails
<1>18. CASE Interrupt \/ Crash
  BY <1>18, NothingCounted DEF Outstanding, InCallback, Interrupt, Crash
<1>19. ASSUME NEW w \in Workers, Register(w) \/ Registered(w) PROVE TotalInv'
  BY <1>19, NothingCounted DEF Outstanding, InCallback, Register, Registered
<1>20. ASSUME NEW w \in Workers, Begin(w) PROVE TotalInv'
  BY <1>20, NothingCounted DEF Outstanding, InCallback, Begin, AllDelivered
<1>21. ASSUME NEW w \in Workers, Finish(w) PROVE TotalInv'
  BY <1>21, NothingCounted DEF Outstanding, InCallback, Finish
<1>22. ASSUME NEW w \in Workers, Notify(w) PROVE TotalInv'
  BY <1>22, NothingCounted DEF Outstanding, InCallback, Notify
<1>23. ASSUME NEW w \in Workers, NotifyLost(w) PROVE TotalInv'
  BY <1>23, NothingCounted DEF Outstanding, InCallback, NotifyLost
<1>24. ASSUME NEW w \in Workers, Wait(w) PROVE TotalInv'
  BY <1>24, NothingCounted DEF Outstanding, InCallback, Wait
<1>25. ASSUME NEW w \in Workers, Chance(w) PROVE TotalInv'
  BY <1>25, NothingCounted DEF Outstanding, InCallback, Chance, Spurious, Stray, StrayGoesOn
<1>26. CASE UNCHANGED vars
  BY <1>26, NothingCounted DEF Outstanding, InCallback, vars
<1>27. QED
  BY <1>1, <1>2, <1>3, <1>4, <1>5, <1>6, <1>7, <1>8, <1>9, <1>10, <1>11, <1>12, <1>13, <1>14,
     <1>15, <1>16, <1>17, <1>18, <1>19, <1>20, <1>21, <1>22, <1>23, <1>24, <1>25, <1>26
  DEF Next, Dispatch, MainStep, WorkerStep

LEMMA TotalInvariance == Spec => []TotalInv
<1>1. Init => TotalInv
  <2> SUFFICES ASSUME Init PROVE TotalInv
    OBVIOUS
  <2>1. Calls = {}
    <3>1. \A j \in Jobs : 1..called[j] = {}
      BY DEF Init
    <3>2. QED
      BY <3>1 DEF Calls
  <2>2. IsFiniteSet({}) /\ Cardinality({}) = 0
    BY FS_EmptySet
  <2>3. QED
    BY <2>1, <2>2 DEF Init, TotalInv, CountIsExact, Outstanding, InCallback
<1>2. IInv /\ TotalInv /\ [Next]_vars => TotalInv'
  BY TotalNext DEF IInv
<1>3. QED
  BY <1>1, <1>2, Invariance, PTL DEF Spec

\* eventCnt is the number of requests less the number of callbacks called,
\* although it is raised without the lock.
THEOREM CountStaysExact == Spec => []CountIsExact
<1>1. TotalInv => CountIsExact
  BY DEF TotalInv
<1>2. QED
  BY <1>1, TotalInvariance, PTL

-----------------------------------------------------------------------------
(* How a request is lost.                                                  *)

\* Only callbacks of jobs that were dispatched are set, and called.
CalledInv ==
  /\ \A o \in Objects : callback[o] \in issued \cup {None}
  /\ \A j \in Jobs : called[j] > 0 => j \in issued

LEMMA CalledNext ==
  TypeOK /\ HoldInv /\ TotalInv /\ CalledInv /\ [Next]_vars => CalledInv'
<1> SUFFICES ASSUME TypeOK, HoldInv, TotalInv, CalledInv, [Next]_vars PROVE CalledInv'
  OBVIOUS
<1> USE DEF objectVars, historyVars
<1>1. ASSUME NEW j \in Jobs, Dispatch(j) PROVE CalledInv'
  <2>1. /\ issued' = issued \cup {j} /\ called' = called
        /\ callback' = [callback EXCEPT ![Obj[j]] = j]
    BY <1>1 DEF Dispatch, DispatchToThread, DispatchFails, DispatchToQueue, Issue
  <2>2. QED
    BY <2>1 DEF CalledInv, TypeOK
<1>2. CASE Call
  <2>1. tb[it] \in issued /\ issued \subseteq Jobs
    BY <1>2 DEF HoldInv, TypeOK, Call
  <2>2. callback[Obj[tb[it]]] \in issued
    BY <2>1, JobsAssumption DEF CalledInv, TotalInv
  <2>3. /\ called' = [called EXCEPT ![callback[Obj[tb[it]]]] = @ + 1]
        /\ UNCHANGED <<issued, callback>>
    BY <1>2 DEF Call
  <2>4. QED
    BY <2>2, <2>3 DEF CalledInv, TypeOK
<1>3. ASSUME UNCHANGED <<issued, called, callback>> PROVE CalledInv'
  BY <1>3 DEF CalledInv
<1>4. CASE MainStep
  BY <1>2, <1>3, <1>4 DEF MainStep, Push, Setup, LoopEnds, ClosePipe, Delete, Exit, OnNotify, Scan, ScanEnds,
                          Return, Assign, Signal, NothingQueued, Final
<1>5. CASE SetupFails \/ Interrupt \/ Crash
  BY <1>3, <1>5 DEF SetupFails, Interrupt, Crash
<1>6. ASSUME NEW w \in Workers, WorkerStep(w) \/ Chance(w) PROVE CalledInv'
  BY <1>3, <1>6 DEF WorkerStep, Chance, Register, Registered, Begin, Finish, Notify,
                 NotifyLost, Wait, Spurious, Stray, StrayGoesOn
<1>7. CASE UNCHANGED vars
  BY <1>3, <1>7 DEF vars
<1>8. QED
  BY <1>1, <1>4, <1>5, <1>6, <1>7 DEF Next

LEMMA CalledInvariance == Spec => []CalledInv
<1>1. Init => CalledInv
  BY DEF Init, CalledInv
<1>2. IInv /\ TotalInv /\ CalledInv /\ [Next]_vars => CalledInv'
  BY CalledNext DEF IInv
<1>3. QED
  BY <1>1, <1>2, Invariance, TotalInvariance, PTL DEF Spec

\* A program without sockets that ends with a callback not called has called
\* another one twice: the count at its end is 0, and of as many calls as requests
\* that spare one request, two are of the same.
THEOREM LostOnlyByRepetition == Spec => []LossIsRepetition
<1>1. IInv /\ TotalInv /\ CalledInv => LossIsRepetition
  <2> SUFFICES ASSUME IInv, TotalInv, CalledInv, ~Sockets, ~AllCallbacksCalled
               PROVE  \E j \in issued : called[j] > 1
    BY DEF LossIsRepetition
  <2>1. TypeOK
    BY DEF IInv
  <2>2. PICK lost \in issued : Ending /\ called[lost] = 0
    BY <2>1 DEF AllCallbacksCalled, TypeOK
  <2>3. eventCnt = 0
    BY <2>2 DEF IInv, EndInv
  <2>4. Outstanding = 0
    <3>1. ~InCallback
      BY <2>2 DEF InCallback, Ending
    <3>2. Outstanding = eventCnt - 0
      BY <3>1, Zenon DEF Outstanding
    <3>3. QED
      BY <2>3, <3>2
  <2>5. IsFiniteSet(issued) /\ IsFiniteSet(Calls)
    BY DEF TotalInv
  <2>6. Cardinality(issued) = Cardinality(Calls)
    BY <2>4, <2>5, FS_CardinalityType DEF TotalInv, CountIsExact
  <2> DEFINE others == issued \ {lost}
             job == [x \in Calls |-> x[1]]
  <2>7. IsFiniteSet(others) /\ Cardinality(others) < Cardinality(Calls)
    <3>1. IsFiniteSet(others) /\ Cardinality(others) = Cardinality(issued) - 1
      BY <2>2, <2>5, FS_RemoveElement
    <3>2. Cardinality(issued) \in Nat
      BY <2>5, FS_CardinalityType
    <3>3. QED
      BY <2>6, <3>1, <3>2
  <2>8. \A x \in Calls : /\ x[1] \in Jobs /\ x[2] \in 1..called[x[1]]
                         /\ x = <<x[1], x[2]>>
    BY DEF Calls
  <2>9. \A x \in Calls : x[1] \in others
    BY <2>1, <2>2, <2>8 DEF CalledInv, TypeOK
  <2>10. job \in [Calls -> others]
    BY <2>9
  <2> HIDE DEF others
  <2>11. PICK x, y \in Calls : x # y /\ job[x] = job[y]
    <3> HIDE DEF job
    <3>1. QED
      BY <2>5, <2>7, <2>10, FS_PigeonHole
  <2>12. x[1] = y[1] /\ x[2] # y[2]
    BY <2>8, <2>11
  <2>13. called[x[1]] > 1
    BY <2>1, <2>8, <2>12 DEF TypeOK
  <2>14. QED
    BY <2>9, <2>13 DEF others
<1>2. QED
  BY <1>1, Invariance, TotalInvariance, CalledInvariance, PTL

\* A program without sockets deletes the pool with nothing queued, no job running
\* and, unless a callback was called twice, only workers whose job was run: what
\* they do with the deleted pool is not the work of a request.
THEOREM StraysLoseNothing == Spec => []StraysHaveRun
<1>1. IInv /\ LossIsRepetition => StraysHaveRun
  <2> SUFFICES ASSUME IInv, LossIsRepetition, ~Sockets, OwnObjects, Ending
               PROVE  /\ wqueue = <<>>
                      /\ \A w \in Workers : wpc[w] # "run"
                      /\ \/ \A w \in Workers : wpc[w] # "none" => ran[tb[w]] > 0
                         \/ \E j \in issued : called[j] > 1
    BY DEF StraysHaveRun
  <2>1. eventCnt = 0 /\ mpc # "push"
    BY DEF IInv, EndInv, Ending
  <2>2. \A w \in Workers : wpc[w] # "run"
    BY <2>1 DEF IInv, CountInv
  <2>3. Len(wqueue) = 0
    BY <2>1 DEF IInv, TypeOK, CountInv, Credit, Queued, Ending
  <2>4. wqueue = <<>>
    BY <2>3 DEF IInv, TypeOK
  <2>5. ASSUME AllCallbacksCalled, NEW w \in Workers, wpc[w] # "none" PROVE ran[tb[w]] > 0
    <3>1. tb[w] \in issued /\ issued \subseteq Jobs
      BY <2>5 DEF IInv, HoldInv, TypeOK
    <3>2. QED
      BY <2>5, <3>1 DEF AllCallbacksCalled, IInv, DeliveryInv
  <2>6. QED
    BY <2>2, <2>4, <2>5 DEF LossIsRepetition
<1>2. QED
  BY <1>1, Invariance, LostOnlyByRepetition, PTL

-----------------------------------------------------------------------------
(* The lock that is not given back.                                        *)

LEMMA KeptNext == IInv /\ LockKeptAfterEndOnly /\ [Next]_vars => LockKeptAfterEndOnly'
<1> SUFFICES ASSUME IInv, LockKeptAfterEndOnly, [Next]_vars PROVE LockKeptAfterEndOnly'
  OBVIOUS
<1> USE WorkersAssumption DEF LockKeptAfterEndOnly, PoolExists, Main, Free, mainVars,
      countVars, workerVars, objectVars, pipeVars, historyVars
<1>1. TypeOK /\ LockInv /\ CountInv
  BY DEF IInv
<1>2. ASSUME NEW j \in Jobs, Dispatch(j) PROVE LockKeptAfterEndOnly'
  <2>1. /\ UNCHANGED <<threadLock, finished>> /\ eventCnt' = eventCnt + 1 /\ eventCnt \in Int
        /\ mpc \in {"script", "callback", "loop"}
    BY <1>1, <1>2, OriginAssumption
    DEF Dispatch, DispatchToThread, DispatchFails, DispatchToQueue, Issue, Owe, TypeOK
  <2>2. \A w \in Workers : wpc[w] \in {"insert", "run"} => wpc'[w] = wpc[w]
    BY <1>1, <1>2 DEF Dispatch, DispatchToThread, DispatchFails, DispatchToQueue, TypeOK
  <2>3. QED
    BY <2>1, <2>2
<1>3. CASE Return
  <2>1. ~finished
    BY <1>1, <1>3 DEF Return, CountInv, InNotify
  <2>2. QED
    BY <1>1, <1>3, <2>1 DEF Return, TypeOK
<1>4. CASE Call
  BY <1>4 DEF Call
<1>5. CASE Push \/ Setup \/ LoopEnds \/ ClosePipe \/ Delete \/ Exit \/ Interrupt \/ Crash
  BY <1>5 DEF Push, Setup, LoopEnds, ClosePipe, Delete, Exit, Interrupt, Crash
<1>6. CASE OnNotify \/ Scan \/ ScanEnds \/ Assign \/ NothingQueued
  BY <1>6 DEF OnNotify, Scan, ScanEnds, Assign, NothingQueued
<1>7. CASE SetupFails
  BY <1>7 DEF SetupFails
<1>8. CASE Signal
  BY <1>1, <1>8 DEF Signal, TypeOK
<1>9. CASE Final
  BY <1>9 DEF Final
<1>10. ASSUME NEW w \in Workers, Register(w) \/ Registered(w) PROVE LockKeptAfterEndOnly'
  BY <1>1, <1>10 DEF Register, Registered, LockInv, TypeOK
<1>11. ASSUME NEW w \in Workers, Begin(w) PROVE LockKeptAfterEndOnly'
  BY <1>1, <1>11 DEF Begin, TypeOK
<1>12. ASSUME NEW w \in Workers, Finish(w) PROVE LockKeptAfterEndOnly'
  BY <1>1, <1>12 DEF Finish, LockInv, CountInv, TypeOK
<1>13. ASSUME NEW w \in Workers, Notify(w) \/ NotifyLost(w) \/ Wait(w)
       PROVE  LockKeptAfterEndOnly'
  BY <1>1, <1>13 DEF Notify, NotifyLost, Wait, TypeOK
<1>14. ASSUME NEW w \in Workers, Chance(w) PROVE LockKeptAfterEndOnly'
  BY <1>1, <1>14 DEF Chance, Spurious, Stray, StrayGoesOn, TypeOK
<1>15. CASE UNCHANGED vars
  BY <1>15 DEF vars
<1>16. QED
  BY <1>2, <1>3, <1>4, <1>5, <1>6, <1>7, <1>8, <1>9, <1>10, <1>11, <1>12, <1>13, <1>14, <1>15
  DEF Next, MainStep, WorkerStep

\* A worker takes threadLock to its end only when a request was made after the pool
\* had finished: as long as `finished' is not set the lock always comes back.
THEOREM LockIsKeptAfterEndOnly == Spec => []LockKeptAfterEndOnly
<1>1. Init => LockKeptAfterEndOnly
  BY WorkersAssumption DEF Init, LockKeptAfterEndOnly, Free
<1>2. QED
  BY <1>1, KeptNext, Invariance, PTL DEF Spec

-----------------------------------------------------------------------------
(* No job is run twice.                                                    *)

\* A job is in one place: in the queue once, on its way to it, or held by one
\* worker.
PlaceInv ==
  /\ \A i, k \in 1..Len(wqueue) : wqueue[i] = wqueue[k] => i = k
  /\ \A v, w \in Workers : tb[v] = tb[w] /\ tb[v] # None => v = w
  /\ \A w \in Workers, i \in 1..Len(wqueue) : tb[w] # wqueue[i]
  /\ mpc = "push" =>
       /\ \A i \in 1..Len(wqueue) : wqueue[i] # arg
       /\ \A w \in Workers : tb[w] # arg

\* What is still to be run was not run: a worker that is given a job at line 58
\* is past its own (write to exited) and stays there until line 60.
OnceInv ==
  "spurious" \notin Env /\ OwnObjects /\ PoolExists =>
    /\ \A j \in Jobs : ran[j] <= 1 /\ (j \notin issued => ran[j] = 0)
    /\ \A i \in 1..Len(wqueue) : ran[wqueue[i]] = 0
    /\ mpc = "push" => ran[arg] = 0
    /\ \A w \in Workers : wpc[w] \in {"start", "insert", "loop", "run"} => ran[tb[w]] = 0
    /\ mpc = "signal" =>
         ran[tb[it]] = 0 /\ wpc[it] \in {"write", "prewait", "waiting", "exited", "stray"}

LEMMA PlaceNext == TypeOK /\ HoldInv /\ PlaceInv /\ [Next]_vars => PlaceInv'
<1> SUFFICES ASSUME TypeOK, HoldInv, PlaceInv, [Next]_vars PROVE PlaceInv'
  OBVIOUS
<1> USE WorkersAssumption, JobsAssumption, OriginAssumption DEF TypeOK, HoldInv, PlaceInv, MainPC, WorkerPC, mainVars, countVars,
      workerVars, objectVars, pipeVars, historyVars
<1>1. ASSUME NEW j \in Jobs, DispatchToThread(j) PROVE PlaceInv'
  <2>1. PICK v \in Workers : wpc[v] = "none" /\ tb' = [tb EXCEPT ![v] = j]
    BY <1>1 DEF DispatchToThread
  <2>2. j \notin issued /\ wqueue' = wqueue /\ mpc' = mpc /\ arg' = arg /\ mpc # "push"
    BY <1>1 DEF DispatchToThread, Issue
  <2>3. \A w \in Workers : tb[w] # j
    BY <2>2
  <2>4. \A w \in Workers : tb'[w] = IF w = v THEN j ELSE tb[w]
    BY <2>1
  <2>5. \A i \in 1..Len(wqueue) : wqueue[i] # j
    BY <2>2
  <2>6. QED
    BY <2>2, <2>3, <2>4, <2>5
<1>2. ASSUME NEW j \in Jobs, DispatchFails(j) PROVE PlaceInv'
  BY <1>2 DEF DispatchFails, Issue, Owe, MayStart
<1>3. ASSUME NEW j \in Jobs, DispatchToQueue(j) PROVE PlaceInv'
  BY <1>3 DEF DispatchToQueue, Issue, Owe, MayStart
<1>4. CASE Push
  BY <1>4 DEF Push
<1>5. CASE Setup
  BY <1>5 DEF Setup
<1>6. CASE LoopEnds
  BY <1>6 DEF LoopEnds
<1>7. CASE ClosePipe \/ Delete \/ Exit
  BY <1>7 DEF ClosePipe, Delete, Exit
<1>8. CASE OnNotify
  BY <1>8 DEF OnNotify
<1>9. CASE Scan
  BY <1>9 DEF Scan, IsReady, IsNextKey
<1>10. CASE ScanEnds
  BY <1>10 DEF ScanEnds
<1>11. CASE Call
  BY <1>11 DEF Call
<1>12. CASE Return
  BY <1>12 DEF Return
<1>13. CASE Assign
  BY <1>13 DEF Assign, NextJob
<1>14. CASE Signal
  BY <1>14 DEF Signal
<1>15. CASE NothingQueued
  BY <1>15 DEF NothingQueued, AllDelivered
<1>16. CASE Final
  BY <1>16 DEF Final, AllDelivered
<1>17. CASE SetupFails
  BY <1>17 DEF SetupFails
<1>18. CASE Interrupt \/ Crash
  BY <1>18 DEF Interrupt, Crash
<1>19. ASSUME NEW w \in Workers, Register(w) \/ Registered(w) PROVE PlaceInv'
  <2>1. CASE Register(w)
    BY <2>1 DEF Register
  <2>2. CASE Registered(w)
    BY <2>2 DEF Registered
  <2>3. QED
    BY <1>19, <2>1, <2>2
<1>20. ASSUME NEW w \in Workers, Begin(w) PROVE PlaceInv'
  BY <1>20 DEF Begin, AllDelivered
<1>21. ASSUME NEW w \in Workers, Finish(w) PROVE PlaceInv'
  BY <1>21 DEF Finish
<1>22. ASSUME NEW w \in Workers, Notify(w) PROVE PlaceInv'
  BY <1>22 DEF Notify
<1>23. ASSUME NEW w \in Workers, NotifyLost(w) PROVE PlaceInv'
  BY <1>23 DEF NotifyLost
<1>24. ASSUME NEW w \in Workers, Wait(w) PROVE PlaceInv'
  BY <1>24 DEF Wait
<1>25. ASSUME NEW w \in Workers, Chance(w) PROVE PlaceInv'
  <2>1. UNCHANGED <<arg, wqueue, tb>> /\ (mpc' = mpc \/ mpc' = "exit")
    BY <1>25, ChanceKeeps
  <2>2. QED
    BY <2>1
<1>26. CASE UNCHANGED vars
  BY <1>26 DEF vars
<1>27. QED
  BY <1>1, <1>2, <1>3, <1>4, <1>5, <1>6, <1>7, <1>8, <1>9, <1>10, <1>11, <1>12, <1>13, <1>14,
     <1>15, <1>16, <1>17, <1>18, <1>19, <1>20, <1>21, <1>22, <1>23, <1>24, <1>25, <1>26
  DEF Next, Dispatch, MainStep, WorkerStep

LEMMA OnceNext ==
  TypeOK /\ HoldInv /\ DeliveryInv /\ PlaceInv /\ OnceInv /\ [Next]_vars => OnceInv'
<1> SUFFICES ASSUME TypeOK, HoldInv, DeliveryInv, PlaceInv, OnceInv, [Next]_vars PROVE OnceInv'
  OBVIOUS
<1> USE WorkersAssumption, JobsAssumption, OriginAssumption DEF TypeOK, HoldInv, OnceInv, PoolExists, MainPC, WorkerPC, mainVars, countVars,
      workerVars, objectVars, pipeVars, historyVars
<1>1. ASSUME NEW j \in Jobs, DispatchToThread(j) PROVE OnceInv'
  BY <1>1 DEF DispatchToThread, Issue, Owe, MayStart
<1>2. ASSUME NEW j \in Jobs, DispatchFails(j) PROVE OnceInv'
  BY <1>2 DEF DispatchFails, Issue, Owe, MayStart
<1>3. ASSUME NEW j \in Jobs, DispatchToQueue(j) PROVE OnceInv'
  BY <1>3 DEF DispatchToQueue, Issue, Owe, MayStart
<1>4. CASE Push
  BY <1>4 DEF Push
<1>5. CASE Setup
  BY <1>5 DEF Setup
<1>6. CASE LoopEnds
  BY <1>6 DEF LoopEnds
<1>7. CASE ClosePipe \/ Delete \/ Exit
  BY <1>7 DEF ClosePipe, Delete, Exit
<1>8. CASE OnNotify
  BY <1>8 DEF OnNotify
<1>9. CASE Scan
  BY <1>9 DEF Scan, IsReady, IsNextKey
<1>10. CASE ScanEnds
  BY <1>10 DEF ScanEnds
<1>11. CASE Call
  BY <1>11 DEF Call
<1>12. CASE Return
  BY <1>12 DEF Return
<1>13. CASE Assign
  <2> SUFFICES ASSUME "spurious" \notin Env, OwnObjects, PoolExists PROVE OnceInv'
    BY <1>13 DEF Assign, PoolExists
  <2> DEFINE job == Head(wqueue)
  <2>1. /\ wqueue # <<>> /\ tb' = [tb EXCEPT ![it] = job] /\ wqueue' = Tail(wqueue)
        /\ mpc = "next" /\ mpc' = "signal"
        /\ UNCHANGED <<it, wpc, ran, issued>>
    BY <1>13 DEF Assign, NextJob
  <2>2. it \in Workers /\ wpc[it] # "none"
    BY <2>1
  <2>3. ran[tb[it]] > 0
    BY <2>1, <2>2 DEF DeliveryInv
  <2>4. wpc[it] \in {"write", "prewait", "waiting", "exited", "stray"}
    <3>1. ran[tb[it]] # 0
      BY <2>3
    <3>2. wpc[it] \notin {"start", "insert", "loop", "run"}
      BY <2>2, <3>1
    <3>3. wpc[it] \in WorkerPC
      BY <2>2
    <3>4. QED
      BY <2>2, <3>2, <3>3
  <2>5. Len(wqueue) \in Nat /\ Len(wqueue) > 0 /\ job = wqueue[1]
    BY <2>1
  <2>6. ran[job] = 0
    BY <2>5
  <2>7. /\ Len(Tail(wqueue)) = Len(wqueue) - 1
        /\ \A i \in 1..(Len(wqueue) - 1) : Tail(wqueue)[i] = wqueue[i + 1]
    BY <2>1
  <2> HIDE DEF job
  <2>8. \A i \in 1..Len(wqueue') : ran'[wqueue'[i]] = 0
    BY <2>1, <2>5, <2>7
  <2>9. \A w \in Workers : w # it => tb'[w] = tb[w]
    BY <2>1
  <2>10. tb'[it] = job
    BY <2>1, <2>2
  <2>11. \A w \in Workers : wpc'[w] \in {"start", "insert", "loop", "run"} => ran'[tb'[w]] = 0
    BY <2>1, <2>4, <2>9
  <2>12. ran'[tb'[it']] = 0 /\ wpc'[it'] \in {"write", "prewait", "waiting", "exited", "stray"}
    BY <2>1, <2>4, <2>6, <2>10
  <2>13. \A j \in Jobs : ran'[j] <= 1 /\ (j \notin issued' => ran'[j] = 0)
    BY <2>1
  <2>14. QED
    BY <2>1, <2>8, <2>11, <2>12, <2>13
<1>14. CASE Signal
  BY <1>14 DEF Signal
<1>15. CASE NothingQueued
  BY <1>15 DEF NothingQueued, AllDelivered
<1>16. CASE Final
  BY <1>16 DEF Final, AllDelivered
<1>17. CASE SetupFails
  BY <1>17 DEF SetupFails
<1>18. CASE Interrupt \/ Crash
  BY <1>18 DEF Interrupt, Crash
<1>19. ASSUME NEW w \in Workers, Register(w) \/ Registered(w) PROVE OnceInv'
  BY <1>19 DEF Register, Registered
<1>20. ASSUME NEW w \in Workers, Begin(w) PROVE OnceInv'
  BY <1>20 DEF Begin, AllDelivered
<1>21. ASSUME NEW w \in Workers, Finish(w) PROVE OnceInv'
  <2> SUFFICES ASSUME "spurious" \notin Env, OwnObjects, PoolExists PROVE OnceInv'
    BY <1>21 DEF Finish, PoolExists
  <2> DEFINE job == tb[w]
  <2>1. /\ wpc[w] = "run" /\ ran' = [ran EXCEPT ![job] = IF @ < 2 THEN @ + 1 ELSE @]
        /\ UNCHANGED <<mpc, arg, it, wqueue, tb, issued>>
    BY <1>21 DEF Finish
  <2>2. wpc' \in [Workers -> WorkerPC] /\ wpc'[w] \in {"write", "exited"}
        /\ \A v \in Workers : v # w => wpc'[v] = wpc[v]
    BY <1>21 DEF Finish
  <2>3. job \in issued /\ job \in Jobs /\ ran[job] = 0 /\ job # None
    <3>1. tb[w] \in issued
      BY <2>1
    <3>2. ran[tb[w]] = 0
      BY <2>1
    <3>3. QED
      BY <3>1, <3>2
  <2>4. \A v \in Workers : v # w => tb[v] # job
    BY <2>3 DEF PlaceInv
  <2>5. \A i \in 1..Len(wqueue) : wqueue[i] # job
    BY DEF PlaceInv
  <2>6. mpc = "push" => arg # job
    BY DEF PlaceInv
  <2> HIDE DEF job
  <2>7. ran'[job] = 1 /\ \A j \in Jobs : j # job => ran'[j] = ran[j]
    BY <2>1, <2>3
  <2>8. \A j \in Jobs : ran'[j] <= 1 /\ (j \notin issued' => ran'[j] = 0)
    BY <2>1, <2>3, <2>7
  <2>9. \A i \in 1..Len(wqueue') : ran'[wqueue'[i]] = 0
    <3>1. \A i \in 1..Len(wqueue) : wqueue[i] \in Jobs
      OBVIOUS
    <3>2. QED
      BY <2>1, <2>5, <2>7, <3>1
  <2>10. mpc' = "push" => ran'[arg'] = 0
    BY <2>1, <2>6, <2>7
  <2>11. \A v \in Workers : wpc'[v] \in {"start", "insert", "loop", "run"} => ran'[tb'[v]] = 0
    BY <2>1, <2>2, <2>4, <2>7
  <2>12. ASSUME mpc' = "signal"
         PROVE  ran'[tb'[it']] = 0 /\ wpc'[it'] \in {"write", "prewait", "waiting", "exited", "stray"}
    <3>1. it \in Workers /\ it # w
      BY <2>1, <2>12
    <3>2. tb[it] \in Jobs /\ tb[it] # job
      BY <2>1, <2>4, <2>12, <3>1
    <3>3. QED
      BY <2>1, <2>2, <2>7, <2>12, <3>1, <3>2
  <2>13. QED
    BY <2>1, <2>8, <2>9, <2>10, <2>11, <2>12
<1>22. ASSUME NEW w \in Workers, Notify(w) PROVE OnceInv'
  BY <1>22 DEF Notify
<1>23. ASSUME NEW w \in Workers, NotifyLost(w) PROVE OnceInv'
  BY <1>23 DEF NotifyLost
<1>24. ASSUME NEW w \in Workers, Wait(w) PROVE OnceInv'
  BY <1>24 DEF Wait
<1>25. ASSUME NEW w \in Workers, Chance(w) PROVE OnceInv'
  BY <1>25 DEF Chance, Spurious, Stray, StrayGoesOn
<1>26. CASE UNCHANGED vars
  BY <1>26 DEF vars
<1>27. QED
  BY <1>1, <1>2, <1>3, <1>4, <1>5, <1>6, <1>7, <1>8, <1>9, <1>10, <1>11, <1>12, <1>13, <1>14,
     <1>15, <1>16, <1>17, <1>18, <1>19, <1>20, <1>21, <1>22, <1>23, <1>24, <1>25, <1>26
  DEF Next, Dispatch, MainStep, WorkerStep

\* Where a wait ends only by a signal and each request has its own object, every
\* job is run at most once, in spite of the signals that are lost.
THEOREM JobsRunOnce == Spec => []RunOnce
<1>1. Init => PlaceInv /\ OnceInv
  <2> SUFFICES ASSUME Init PROVE PlaceInv /\ OnceInv
    OBVIOUS
  <2>1. Len(wqueue) = 0
    BY DEF Init
  <2>2. QED
    BY <2>1 DEF Init, PlaceInv, OnceInv
<1>2. IInv /\ PlaceInv /\ OnceInv /\ [Next]_vars => PlaceInv' /\ OnceInv'
  BY PlaceNext, OnceNext DEF IInv
<1>3. OnceInv => RunOnce
  BY DEF OnceInv, RunOnce
<1>4. QED
  BY <1>1, <1>2, <1>3, Invariance, PTL DEF Spec

-----------------------------------------------------------------------------
(* Each object is used as JobContract says.                                *)

\* A job of object o runs; a callback of it runs.
RunsJobOf(o) == \E w \in Workers : wpc[w] = "run" /\ Obj[tb[w]] = o
InCallbackOf(o) == InCallback /\ Obj[tb[it]] = o
WasAsked(o) == \E j \in issued : Obj[j] = o

\* The contract sees only these and `ready'.
LEMMA SameForJob ==
  ASSUME NEW o \in Objects,
         RunsJobOf(o)' <=> RunsJobOf(o), InCallbackOf(o)' <=> InCallbackOf(o),
         WasAsked(o)' <=> WasAsked(o), ready'[o] = ready[o]
  PROVE  Job(o)!Step
<1>1. HeldFor(o)' = HeldFor(o)
  BY DEF HeldFor, RunsJobOf, InCallbackOf
<1>2. QED
  BY <1>1 DEF Job!Step, Job!jobVars, WasAsked

\* What holds threadLock for one object.
LEMMA HeldForJob ==
  ASSUME NEW o \in Objects
  PROVE  /\ RunsJobOf(o) => HeldFor(o) = "worker"
         /\ ~RunsJobOf(o) /\ InCallbackOf(o) => HeldFor(o) = "main"
         /\ ~RunsJobOf(o) /\ ~InCallbackOf(o) => HeldFor(o) = "free"
         /\ RunsJobOf(o)' => HeldFor(o)' = "worker"
         /\ ~RunsJobOf(o)' /\ InCallbackOf(o)' => HeldFor(o)' = "main"
         /\ ~RunsJobOf(o)' /\ ~InCallbackOf(o)' => HeldFor(o)' = "free"
  BY DEF HeldFor, RunsJobOf, InCallbackOf

LEMMA NobodyRuns ==
  ASSUME LockInv, threadLock \in {Main, Free}
  PROVE  (\A w \in Workers : wpc[w] # "run") /\ (threadLock = Free => ~InCallback)
  BY WorkersAssumption DEF LockInv, Main, Free

\* A request of o is asked for; one of another object changes nothing.
LEMMA DispatchIsAsked ==
  ASSUME TypeOK, HoldInv, NEW j \in Jobs, Dispatch(j), NEW o \in Objects
  PROVE  Job(o)!Step
<1>1. /\ issued' = issued \cup {j} /\ ready' = ready /\ it' = it
      /\ mpc = Origin[j]
  BY DEF Dispatch, DispatchToThread, DispatchFails, DispatchToQueue, Issue
<1>2. \/ wpc' = wpc /\ tb' = tb
      \/ \E v \in Workers : /\ wpc[v] = "none"
                            /\ wpc' = [wpc EXCEPT ![v] = "start"]
                            /\ tb' = [tb EXCEPT ![v] = j]
  BY DEF Dispatch, DispatchToThread, DispatchFails, DispatchToQueue
<1>3. \A w \in Workers : wpc[w] # "none" => tb'[w] = tb[w] /\ wpc'[w] = wpc[w]
  BY <1>2 DEF TypeOK
<1>4. \A w \in Workers : wpc'[w] = "run" => wpc[w] = "run"
  BY <1>2 DEF TypeOK
<1>5. (RunsJobOf(o)' <=> RunsJobOf(o))
  BY <1>3, <1>4 DEF RunsJobOf
<1>6. InCallback' = InCallback
  BY <1>1, OriginAssumption
  DEF InCallback, Dispatch, DispatchToThread, DispatchFails, DispatchToQueue
<1>7. InCallback => it \in Workers /\ wpc[it] # "none"
  BY DEF HoldInv, TypeOK
<1>8. (InCallbackOf(o)' <=> InCallbackOf(o))
  BY <1>1, <1>3, <1>6, <1>7 DEF InCallbackOf
<1>9. HeldFor(o)' = HeldFor(o)
  BY <1>5, <1>8 DEF HeldFor, RunsJobOf, InCallbackOf
<1>10. CASE Obj[j] = o
  <2>1. WasAsked(o)' = TRUE
    BY <1>1, <1>10 DEF WasAsked
  <2>2. QED
    BY <1>1, <1>9, <2>1 DEF Job!Step, Job!Next, Job!Ask, WasAsked
<1>11. CASE Obj[j] # o
  <2>1. (WasAsked(o)' <=> WasAsked(o))
    BY <1>1, <1>11 DEF WasAsked
  <2>2. QED
    BY <1>1, <1>5, <1>8, <2>1, SameForJob
<1>12. QED
  BY <1>10, <1>11

\* A worker begins a job of o, which was asked for, with threadLock free.
LEMMA BeginIsBegin ==
  ASSUME TypeOK, HoldInv, LockInv, NEW w \in Workers, Begin(w), NEW o \in Objects
  PROVE  Job(o)!Step
<1>1. /\ threadLock = Free /\ wpc[w] = "loop"
      /\ UNCHANGED <<mpc, ret, it, tb, ready, issued>>
      /\ \/ wpc' = [wpc EXCEPT ![w] = "exited"]
         \/ wpc' = [wpc EXCEPT ![w] = "run"]
  BY DEF Begin, mainVars, objectVars, historyVars
<1>2. ~RunsJobOf(o) /\ ~InCallbackOf(o)
  BY <1>1, NobodyRuns DEF RunsJobOf, InCallbackOf
<1>3. ~InCallbackOf(o)' /\ (WasAsked(o)' <=> WasAsked(o))
  BY <1>1, <1>2 DEF InCallbackOf, InCallback, WasAsked
<1>4. CASE wpc' = [wpc EXCEPT ![w] = "run"] /\ Obj[tb[w]] = o
  <2>1. RunsJobOf(o)'
    BY <1>1, <1>4 DEF RunsJobOf, TypeOK
  <2>2. WasAsked(o)
    BY <1>1, <1>4 DEF WasAsked, HoldInv
  <2>3. HeldFor(o) = "free"
    BY <1>2, HeldForJob
  <2>4. HeldFor(o)' = "worker"
    BY <2>1, HeldForJob
  <2>5. QED
    BY <1>1, <1>3, <2>2, <2>3, <2>4 DEF Job!Step, Job!Next, Job!Begin, WasAsked
<1>5. CASE ~(wpc' = [wpc EXCEPT ![w] = "run"] /\ Obj[tb[w]] = o)
  <2>1. ~RunsJobOf(o)'
    BY <1>1, <1>2, <1>5 DEF RunsJobOf, TypeOK
  <2>2. QED
    BY <1>1, <1>2, <1>3, <2>1, SameForJob
<1>6. QED
  BY <1>4, <1>5

\* A worker ends the job of its object and gives threadLock back, or takes it to
\* its end: either way nobody has it for the object any more.
LEMMA FinishIsFinish ==
  ASSUME TypeOK, HoldInv, LockInv, NEW w \in Workers, Finish(w), NEW o \in Objects
  PROVE  Job(o)!Step
<1>1. /\ wpc[w] = "run"
      /\ UNCHANGED <<mpc, ret, it, tb, issued>>
      /\ \E p \in {"write", "exited"} : wpc' = [wpc EXCEPT ![w] = p]
      /\ ready' = [ready EXCEPT ![Obj[tb[w]]] = TRUE]
  BY DEF Finish, mainVars
<1>2. threadLock = w /\ w # Main
  BY <1>1, WorkersAssumption DEF LockInv, Main
<1>3. \A v \in Workers : wpc[v] = "run" => v = w
  BY <1>2 DEF LockInv
<1>4. ~InCallback
  BY <1>2 DEF LockInv
<1>5. ~RunsJobOf(o)' /\ ~InCallbackOf(o)' /\ (WasAsked(o)' <=> WasAsked(o))
  BY <1>1, <1>3, <1>4 DEF RunsJobOf, InCallbackOf, InCallback, WasAsked, TypeOK
<1>6. ~InCallbackOf(o)
  BY <1>4 DEF InCallbackOf
<1>7. CASE Obj[tb[w]] = o
  <2>1. HeldFor(o) = "worker"
    BY <1>1, <1>7, HeldForJob DEF RunsJobOf
  <2>2. HeldFor(o)' = "free"
    BY <1>5, HeldForJob
  <2>3. ready'[o] = TRUE
    BY <1>1, <1>7 DEF TypeOK
  <2>4. QED
    BY <1>5, <2>1, <2>2, <2>3 DEF Job!Step, Job!Next, Job!Finish, WasAsked
<1>8. CASE Obj[tb[w]] # o
  <2>1. ~RunsJobOf(o)
    BY <1>3, <1>8 DEF RunsJobOf
  <2>2. ready'[o] = ready[o]
    BY <1>1, <1>8 DEF TypeOK
  <2>3. QED
    BY <1>5, <1>6, <2>1, <2>2, SameForJob
<1>9. QED
  BY <1>7, <1>8

\* The loop calls the callback of an object that is ready, with threadLock taken.
LEMMA CallIsCall ==
  ASSUME HoldInv, LockInv, Call, NEW o \in Objects
  PROVE  Job(o)!Step
<1>1. /\ mpc = "call" /\ mpc' = "callback" /\ threadLock = Free
      /\ UNCHANGED <<it, tb, wpc, ready, issued>>
  BY DEF Call, workerVars, objectVars
<1>2. ~RunsJobOf(o) /\ ~InCallbackOf(o)
  BY <1>1, NobodyRuns DEF RunsJobOf, InCallbackOf
<1>3. ~RunsJobOf(o)' /\ (WasAsked(o)' <=> WasAsked(o))
  BY <1>1, <1>2 DEF RunsJobOf, WasAsked
<1>4. CASE Obj[tb[it]] = o
  <2>1. ready[o]
    BY <1>1, <1>4 DEF HoldInv
  <2>2. InCallbackOf(o)'
    BY <1>1, <1>4 DEF InCallbackOf, InCallback
  <2>3. HeldFor(o) = "free"
    BY <1>2, HeldForJob
  <2>4. HeldFor(o)' = "main"
    BY <1>3, <1>2, <2>2, HeldForJob
  <2>5. QED
    BY <1>1, <1>3, <2>1, <2>3, <2>4 DEF Job!Step, Job!Next, Job!Call, WasAsked
<1>5. CASE Obj[tb[it]] # o
  <2>1. ~InCallbackOf(o)'
    BY <1>1, <1>5 DEF InCallbackOf
  <2>2. QED
    BY <1>1, <1>2, <1>3, <2>1, SameForJob
<1>6. QED
  BY <1>4, <1>5

LEMMA ReturnIsReturn ==
  ASSUME LockInv, Return, NEW o \in Objects
  PROVE  Job(o)!Step
<1>1. /\ mpc = "callback" /\ mpc' = "next"
      /\ UNCHANGED <<it, tb, wpc, ready, issued>>
  BY DEF Return, workerVars, objectVars, historyVars
<1>2. InCallback /\ ~InCallback'
  BY <1>1 DEF InCallback
<1>3. ~RunsJobOf(o)
  BY <1>2, NobodyRuns DEF RunsJobOf, LockInv
<1>4. ~RunsJobOf(o)' /\ ~InCallbackOf(o)' /\ (WasAsked(o)' <=> WasAsked(o))
  BY <1>1, <1>2, <1>3 DEF RunsJobOf, InCallbackOf, WasAsked
<1>5. CASE InCallbackOf(o)
  <2>1. HeldFor(o) = "main"
    BY <1>3, <1>5, HeldForJob
  <2>2. HeldFor(o)' = "free"
    BY <1>4, HeldForJob
  <2>3. QED
    BY <1>1, <1>4, <2>1, <2>2 DEF Job!Step, Job!Next, Job!Return, WasAsked
<1>6. CASE ~InCallbackOf(o)
  BY <1>1, <1>3, <1>4, <1>6, SameForJob
<1>7. QED
  BY <1>5, <1>6

\* A worker is given its next job while none runs, so nothing of what runs is
\* changed under it.
LEMMA AssignIsHidden ==
  ASSUME LockInv, Assign, NEW o \in Objects
  PROVE  Job(o)!Step
<1>1. /\ threadLock = Free /\ mpc' = "signal"
      /\ UNCHANGED <<wpc, ready, issued>>
  BY DEF Assign, objectVars, historyVars
<1>2. /\ ~RunsJobOf(o) /\ ~InCallbackOf(o)
      /\ ~RunsJobOf(o)' /\ ~InCallbackOf(o)' /\ (WasAsked(o)' <=> WasAsked(o))
  BY <1>1, NobodyRuns DEF RunsJobOf, InCallbackOf, InCallback, WasAsked
<1>3. QED
  BY <1>1, <1>2, SameForJob

\* The other steps leave all of this alone.
LEMMA OthersAreHidden ==
  ASSUME TypeOK, NEW o \in Objects, UNCHANGED <<tb, ready, issued>>,
         InCallback' = InCallback, InCallback => it' = it,
         \A w \in Workers : wpc'[w] = "run" <=> wpc[w] = "run"
  PROVE  Job(o)!Step
<1>1. /\ (RunsJobOf(o)' <=> RunsJobOf(o)) /\ (InCallbackOf(o)' <=> InCallbackOf(o))
      /\ (WasAsked(o)' <=> WasAsked(o))
  BY DEF RunsJobOf, InCallbackOf, WasAsked
<1>2. QED
  BY <1>1, SameForJob

LEMMA JobStep ==
  ASSUME IInv, [Next]_vars, PoolExists, NEW o \in Objects
  PROVE  Job(o)!Step
<1> DEFINE same ==
  /\ UNCHANGED <<tb, ready, issued>> /\ InCallback' = InCallback
  /\ InCallback => it' = it
  /\ \A w \in Workers : wpc'[w] = "run" <=> wpc[w] = "run"
<1> USE DEF mainVars, workerVars, objectVars, historyVars
<1>1. ASSUME NEW j \in Jobs, Dispatch(j) PROVE Job(o)!Step
  BY <1>1, DispatchIsAsked DEF IInv
<1>2. CASE Call
  BY <1>2, CallIsCall DEF IInv
<1>3. CASE Return
  BY <1>3, ReturnIsReturn DEF IInv
<1>4. CASE Assign
  BY <1>4, AssignIsHidden DEF IInv
<1>5. ASSUME NEW w \in Workers, Begin(w) PROVE Job(o)!Step
  BY <1>5, BeginIsBegin DEF IInv
<1>6. ASSUME NEW w \in Workers, Finish(w) PROVE Job(o)!Step
  BY <1>6, FinishIsFinish DEF IInv
<1>7. CASE Push
  <2>1. same
    BY <1>7 DEF Push, InCallback
  <2>2. QED
    BY <2>1, OthersAreHidden DEF IInv
<1>8. CASE Setup \/ SetupFails \/ LoopEnds \/ Interrupt \/ ClosePipe \/ Delete \/ Exit \/ Crash
  <2>1. same
    BY <1>8 DEF Setup, SetupFails, LoopEnds, Interrupt, ClosePipe, Delete, Exit, Crash, InCallback
  <2>2. QED
    BY <2>1, OthersAreHidden DEF IInv
<1>9. CASE OnNotify \/ Scan \/ ScanEnds \/ NothingQueued \/ Final
  <2>1. same
    BY <1>9 DEF OnNotify, Scan, ScanEnds, NothingQueued, Final, InCallback
  <2>2. QED
    BY <2>1, OthersAreHidden DEF IInv
<1>10. CASE Signal
  <2>1. same
    BY <1>10 DEF Signal, InCallback, IInv, TypeOK
  <2>2. QED
    BY <2>1, OthersAreHidden DEF IInv
<1>11. ASSUME NEW w \in Workers,
              \/ Register(w) \/ Registered(w)
              \/ Notify(w) \/ NotifyLost(w) \/ Wait(w) \/ Spurious(w)
       PROVE  Job(o)!Step
  <2>1. same
    BY <1>11 DEF Register, Registered, Notify, NotifyLost, Wait, Spurious, InCallback, IInv, TypeOK
  <2>2. QED
    BY <2>1, OthersAreHidden DEF IInv
<1>12. CASE UNCHANGED vars
  <2>1. same
    BY <1>12 DEF vars, InCallback
  <2>2. QED
    BY <2>1, OthersAreHidden DEF IInv
<1>13. \A w \in Workers : ~Stray(w) /\ ~StrayGoesOn(w)
  BY DEF Stray, StrayGoesOn, PoolExists
<1>14. QED
  BY <1>1, <1>2, <1>3, <1>4, <1>5, <1>6, <1>7, <1>8, <1>9, <1>10, <1>11, <1>12, <1>13
  DEF Next, MainStep, WorkerStep, Chance

\* Whatever the platform does and however objects are shared, the pool, as long as
\* it exists, uses each
\* object as JobContract says, on which FileObject is built: file.cpp:342 passes
\* one File to dispatch each time.
THEOREM ObjectsAreServed == Spec => ServesEachObject
<1>1. Init => \A o \in Objects : Job(o)!Init
  <2> SUFFICES ASSUME Init, NEW o \in Objects PROVE Job(o)!Init
    OBVIOUS
  <2>1. HeldFor(o) = "free"
    BY DEF Init, HeldFor, InCallback
  <2>2. QED
    BY <2>1 DEF Init, Job!Init
<1>2. IInv /\ [Next]_vars => [PoolExists => \A o \in Objects : Job(o)!Step]_vars
  BY JobStep
<1>3. QED
  BY <1>1, <1>2, Invariance, PTL DEF Spec, ServesEachObject
=============================================================================
