----------------------------- MODULE ThreadPool -----------------------------
(***************************************************************************)
(* The thread pool of CoreJS (src/Threading) and the part of RunCore       *)
(* (src/core.cpp) that owns it.                                            *)
(*                                                                         *)
(* One main thread runs the script, then libevent's loop.  Asynchronous    *)
(* requests are handed to `dispatch', which starts a worker thread or, if  *)
(* maxThreads were started, queues the request.  A worker runs its request *)
(* while it holds threadLock, sets `ready', writes a byte to the wake-up   *)
(* pipe and sleeps on its own condition variable.  The main thread reads   *)
(* the byte in `onNotify', calls the JavaScript callback of every worker   *)
(* it finds ready, gives that worker the next queued request and signals   *)
(* it.  When eventCnt, the number of callbacks owed, is 0 it removes the   *)
(* pipe's event, the loop ends and the pool is deleted.                    *)
(*                                                                         *)
(* A job is one call of dispatch.  Obj[j] is the ThreadBase object it      *)
(* passes: a new object for each HTTP request, but the same object each    *)
(* time for File::onReadCb on one File.                                    *)
(***************************************************************************)
EXTENDS Integers, Sequences, FiniteSets

CONSTANTS
  Workers,     \* thread ids, ordered as std::map<pthread_t, ...> orders them
  maxThreads,  \* ThreadPool::maxThreads (2 in the code)
  Jobs,        \* calls of dispatch the program may make
  Objects,     \* ThreadBase objects
  Obj,         \* the object each job passes to dispatch
  Origin,      \* where the program makes the call: the value of mpc there
  PipeCap,     \* bytes the wake-up pipe holds before a write blocks
  Sockets,     \* the script opened a socket, whose event keeps the loop alive
  Env,         \* what the platform may do, see EnvFaults
  None         \* no job

\* "early"    a worker may finish a job before core.cpp:121 sets the pipe
\* "spurious" pthread_cond_wait may return unsignalled: nothing tests a condition
\*            and nothing initialises wCond (workerThread.h:16)
\* "create"   pthread_create may fail
\* "pipe"     pipe() or fcntl() may fail
\* "race"     a std::map read while it is changed may give wrong answers
EnvFaults == {"early", "spurious", "create", "pipe", "race"}

Main == 0    \* threadLock is held by the main thread
Free == -1   \* threadLock is not held

ASSUME WorkersAssumption == Workers \subseteq Nat \ {0} /\ IsFiniteSet(Workers)
ASSUME maxThreadsAssumption == maxThreads \in 1..Cardinality(Workers)
ASSUME PipeCapAssumption == PipeCap \in Nat \ {0}
ASSUME JobsAssumption == None \notin Jobs /\ Obj \in [Jobs -> Objects]
ASSUME OriginAssumption ==
  /\ Origin \in [Jobs -> {"script", "callback", "loop"}]
  /\ Sockets \in BOOLEAN
  /\ ~Sockets => \A j \in Jobs : Origin[j] # "loop"
ASSUME EnvAssumption == Env \subseteq EnvFaults

VARIABLES
  mpc,         \* the main thread: "script" (running the script), "loop" (in
               \* event_base_dispatch), the steps of onNotify and dispatch,
               \* "dispose", "closed" (pipe closed), "freed" (pool deleted), "exit"
               \* (process gone); "failed" (RunCore returned false, the threads
               \* still run), "crashed" (by the race on wk)
  ret,         \* where the interrupted dispatch returns to
  arg,         \* the job it is pushing
  it,          \* onNotify's iterator: the key it stands at, 0 before the first
  threadLock, eventCnt, finished, numThreads, wqueue,
  wk,          \* keys of ThreadPool::wk: the workers that registered
  wpc,         \* where each worker thread is
  tb,          \* WorkerThread::tb: the job whose object it holds
  ready,       \* ThreadBase::ready of each object
  callback,    \* ThreadBase::callback of each object, as the job that set it
  pipe,        \* bytes in the wake-up pipe
  pipeOpen,    \* wakeup_pipe_in is a descriptor of that pipe
  registered,  \* wakeup_event is in the event base
  issued,      \* history: jobs dispatched
  dropped,     \* history: jobs whose thread could not be created
  ran,         \* history: how often each job was run (2 stands for more)
  called       \* history: how often each job's callback was called

mainVars    == <<mpc, ret, arg, it>>
countVars   == <<eventCnt, finished, numThreads>>
workerVars  == <<wpc, tb, wk>>
objectVars  == <<ready, callback>>
pipeVars    == <<pipe, pipeOpen, registered>>
historyVars == <<issued, dropped, ran, called>>
vars == <<mainVars, threadLock, countVars, wqueue, workerVars, objectVars,
          pipeVars, historyVars>>

MainPC   == {"script", "push", "loop", "scan", "call", "callback", "next",
             "signal", "final", "dispose", "closed", "freed", "exit",
             "failed", "crashed"}

\* "insert": inside wk[threadID] = thread; "stray": used the pool once it was deleted
WorkerPC == {"none", "start", "insert", "loop", "run", "write", "prewait", "waiting",
             "exited", "stray"}

TypeOK ==
  /\ mpc \in MainPC
  /\ ret \in {"script", "callback", "loop"}
  /\ arg \in Jobs \cup {None} /\ (mpc = "push" => arg \in Jobs)
  /\ it \in Workers \cup {0}
  /\ threadLock \in Workers \cup {Main, Free}
  /\ eventCnt \in Int /\ finished \in BOOLEAN /\ numThreads \in 0..maxThreads
  /\ wqueue \in Seq(Jobs)
  /\ wk \subseteq Workers
  /\ wpc \in [Workers -> WorkerPC]
  /\ tb \in [Workers -> Jobs \cup {None}]
  /\ ready \in [Objects -> BOOLEAN]
  /\ callback \in [Objects -> Jobs \cup {None}]
  /\ pipe \in Nat /\ pipeOpen \in BOOLEAN /\ registered \in BOOLEAN
  /\ issued \subseteq Jobs /\ dropped \subseteq Jobs
  /\ ran \in [Jobs -> 0..2]
  /\ called \in [Jobs -> Nat]

Init ==
  /\ mpc = "script" /\ ret = "script" /\ arg = None /\ it = 0
  /\ threadLock = Free
  /\ eventCnt = 0 /\ finished = FALSE /\ numThreads = 0
  /\ wqueue = <<>>
  /\ wk = {} /\ wpc = [w \in Workers |-> "none"] /\ tb = [w \in Workers |-> None]
  /\ ready = [o \in Objects |-> FALSE] /\ callback = [o \in Objects |-> None]
  /\ pipe = 0 /\ pipeOpen = FALSE /\ registered = FALSE
  /\ issued = {} /\ dropped = {}
  /\ ran = [j \in Jobs |-> 0] /\ called = [j \in Jobs |-> 0]

\* The process runs and the pool is not deleted.
PoolExists == mpc \notin {"freed", "exit", "crashed"}

\* A worker changes the std::map, which onNotify reads without the lock.
Racing == "race" \in Env /\ \E w \in Workers : wpc[w] = "insert"

-----------------------------------------------------------------------------
(* The decisions of the code, each with the wrong forms (Bad...) that show *)
(* which property depends on it.                                           *)

BadOwe == IF numThreads < maxThreads THEN eventCnt + 1 ELSE eventCnt

\* line 128: every dispatch is counted, before it is known what becomes of it
Owe == eventCnt + 1

\* line 129
MayStart == numThreads < maxThreads

BadAllDelivered == wqueue = <<>>

\* lines 65, 76, 103: no callback is owed
AllDelivered == eventCnt = 0

BadIsReady(w) == TRUE

\* line 45: read without the lock
IsReady(w) == ready[Obj[tb[w]]]

BadNextJob == wqueue[Len(wqueue)]

\* line 56
NextJob == Head(wqueue)

BadIsNextKey(w) == w \in wk /\ w >= it /\ \A v \in wk : v >= it => w <= v

\* the entry of std::map the iterator moves to; wk is read without the lock
IsNextKey(w) ==
  /\ w \in wk /\ w > it
  /\ \A v \in wk : v > it => w <= v

-----------------------------------------------------------------------------
(* dispatch, called by the main thread from the script, from a callback    *)
(* that onNotify runs (with threadLock held), or from a socket's callback. *)

\* Http::Get, Post, GetObj and PostObj with an object made for the request, or
\* onReadCb of a File with the File itself: setCallback and the start of dispatch.
\* ready keeps the value it had.
Issue(j) ==
  /\ mpc = Origin[j]
  /\ j \notin issued
  /\ issued' = issued \cup {j}
  /\ callback' = [callback EXCEPT ![Obj[j]] = j]
  /\ eventCnt' = Owe
  /\ UNCHANGED <<it, threadLock, finished, wk, ready, pipeVars, ran, called>>

DispatchToThread(j) ==
  /\ Issue(j)
  /\ MayStart
  /\ \E w \in Workers :
       /\ wpc[w] = "none"
       /\ wpc' = [wpc EXCEPT ![w] = "start"]
       /\ tb' = [tb EXCEPT ![w] = j]
  /\ numThreads' = numThreads + 1
  /\ UNCHANGED <<mpc, ret, arg, wqueue, dropped>>

DispatchFails(j) ==
  /\ Issue(j)
  /\ MayStart
  /\ "create" \in Env
  /\ dropped' = dropped \cup {j}
  /\ UNCHANGED <<mpc, ret, arg, numThreads, wqueue, wpc, tb>>

BadDispatchToQueue(j) ==
  /\ Issue(j)
  /\ ~MayStart
  /\ mpc' = "push" /\ ret' = mpc
  /\ UNCHANGED <<arg, numThreads, wqueue, wpc, tb, dropped>>

DispatchToQueue(j) ==
  /\ Issue(j)
  /\ ~MayStart
  /\ mpc' = "push" /\ ret' = mpc /\ arg' = j
  /\ UNCHANGED <<numThreads, wqueue, wpc, tb, dropped>>

\* lines 131-133; a mutex is not recursive: from a callback this never returns
Push ==
  /\ mpc = "push"
  /\ threadLock = Free
  /\ wqueue' = Append(wqueue, arg)
  /\ mpc' = ret
  /\ UNCHANGED <<ret, arg, it, threadLock, countVars, workerVars, objectVars,
                 pipeVars, historyVars>>

-----------------------------------------------------------------------------
(* RunCore after the script.                                               *)

Setup ==
  /\ mpc = "script"
  /\ threadLock = Free
  /\ mpc' = "loop"
  /\ IF eventCnt > 0
     THEN pipeOpen' = TRUE /\ registered' = TRUE
     ELSE UNCHANGED <<pipeOpen, registered>>
  /\ UNCHANGED <<ret, arg, it, threadLock, countVars, wqueue, workerVars,
                 objectVars, pipe, historyVars>>

\* `return false' with threadLock held: the workers go on until the process ends
SetupFails ==
  /\ mpc = "script"
  /\ threadLock = Free
  /\ eventCnt > 0
  /\ "pipe" \in Env
  /\ mpc' = "failed" /\ threadLock' = Main
  /\ UNCHANGED <<ret, arg, it, countVars, wqueue, workerVars, objectVars,
                 pipeVars, historyVars>>

\* event_base_dispatch returns when no event is left
LoopEnds ==
  /\ mpc = "loop"
  /\ ~registered /\ ~Sockets
  /\ mpc' = "dispose"
  /\ UNCHANGED <<ret, arg, it, threadLock, countVars, wqueue, workerVars,
                 objectVars, pipeVars, historyVars>>

\* the server socket's SIGINT handler calls event_base_loopexit
Interrupt ==
  /\ mpc = "loop"
  /\ Sockets
  /\ mpc' = "dispose"
  /\ UNCHANGED <<ret, arg, it, threadLock, countVars, wqueue, workerVars,
                 objectVars, pipeVars, historyVars>>

\* lines 138-139
ClosePipe ==
  /\ mpc = "dispose"
  /\ mpc' = "closed"
  /\ pipeOpen' = FALSE
  /\ UNCHANGED <<ret, arg, it, threadLock, countVars, wqueue, workerVars,
                 objectVars, pipe, registered, historyVars>>

\* line 140: nothing stops or joins the workers
Delete ==
  /\ mpc = "closed"
  /\ mpc' = "freed"
  /\ UNCHANGED <<ret, arg, it, threadLock, countVars, wqueue, workerVars,
                 objectVars, pipeVars, historyVars>>

\* RunCore and main return
Exit ==
  /\ mpc = "freed"
  /\ mpc' = "exit"
  /\ UNCHANGED <<ret, arg, it, threadLock, countVars, wqueue, workerVars,
                 objectVars, pipeVars, historyVars>>

-----------------------------------------------------------------------------
(* ThreadPool::onNotify, the callback of wakeup_event.                     *)

OnNotify ==
  /\ mpc = "loop"
  /\ registered /\ pipe > 0
  /\ pipe' = pipe - 1
  /\ it' = 0
  /\ mpc' = IF eventCnt > 0 THEN "scan" ELSE "final"
  /\ UNCHANGED <<ret, arg, threadLock, countVars, wqueue, workerVars,
                 objectVars, pipeOpen, registered, historyVars>>

\* Moved while the tree is being rebalanced, the iterator may come to any node.
Scan ==
  /\ mpc = "scan"
  /\ \E w \in wk :
       /\ IsNextKey(w) \/ Racing
       /\ it' = w
       /\ mpc' = IF IsReady(w) THEN "call" ELSE "scan"
  /\ UNCHANGED <<ret, arg, threadLock, countVars, wqueue, workerVars,
                 objectVars, pipeVars, historyVars>>

ScanEnds ==
  /\ mpc = "scan"
  /\ (\A w \in wk : w <= it) \/ Racing
  /\ mpc' = "final"
  /\ UNCHANGED <<ret, arg, it, threadLock, countVars, wqueue, workerVars,
                 objectVars, pipeVars, historyVars>>

\* The entry of a key being inserted holds NULL until line 98 assigns it, and a
\* look-up that misses its key makes one: lines 45 and 60 follow that pointer.
Crash ==
  /\ mpc \in {"scan", "signal"}
  /\ Racing
  /\ mpc' = "crashed"
  /\ UNCHANGED <<ret, arg, it, threadLock, countVars, wqueue, workerVars,
                 objectVars, pipeVars, historyVars>>

\* lines 47-50: the callback starts, with threadLock held
Call ==
  /\ mpc = "call"
  /\ threadLock = Free
  /\ threadLock' = Main
  /\ mpc' = "callback"
  /\ called' = [called EXCEPT ![callback[Obj[tb[it]]]] = @ + 1]
  /\ UNCHANGED <<ret, arg, it, countVars, wqueue, workerVars, objectVars,
                 pipeVars, issued, dropped, ran>>

BadReturn ==
  /\ mpc = "callback"
  /\ eventCnt' = eventCnt
  /\ threadLock' = Free
  /\ mpc' = "next"
  /\ UNCHANGED <<ret, arg, it, finished, numThreads, wqueue, workerVars,
                 objectVars, pipeVars, historyVars>>

\* lines 51-52: it returned
Return ==
  /\ mpc = "callback"
  /\ eventCnt' = eventCnt - 1
  /\ threadLock' = Free
  /\ mpc' = "next"
  /\ UNCHANGED <<ret, arg, it, finished, numThreads, wqueue, workerVars,
                 objectVars, pipeVars, historyVars>>

\* lines 54-59
Assign ==
  /\ mpc = "next"
  /\ wqueue # <<>>
  /\ threadLock = Free
  /\ tb' = [tb EXCEPT ![it] = NextJob]
  /\ wqueue' = Tail(wqueue)
  /\ mpc' = "signal"
  /\ UNCHANGED <<ret, arg, it, threadLock, countVars, wk, wpc, objectVars,
                 pipeVars, historyVars>>

\* line 60: a signal finds the worker waiting or is lost
Signal ==
  /\ mpc = "signal"
  /\ wpc' = [wpc EXCEPT ![it] = IF @ = "waiting" THEN "loop" ELSE @]
  /\ mpc' = "scan"
  /\ UNCHANGED <<ret, arg, it, threadLock, countVars, wqueue, tb, wk,
                 objectVars, pipeVars, historyVars>>

\* lines 64-69
NothingQueued ==
  /\ mpc = "next"
  /\ wqueue = <<>>
  /\ threadLock = Free
  /\ mpc' = IF AllDelivered THEN "final" ELSE "scan"
  /\ UNCHANGED <<ret, arg, it, threadLock, countVars, wqueue, workerVars,
                 objectVars, pipeVars, historyVars>>

BadFinal ==
  /\ mpc = "final"
  /\ threadLock = Free
  /\ mpc' = "loop"
  /\ finished' = (finished \/ AllDelivered)
  /\ UNCHANGED <<ret, arg, it, threadLock, eventCnt, numThreads, wqueue,
                 workerVars, objectVars, pipeVars, historyVars>>

\* lines 75-84
Final ==
  /\ mpc = "final"
  /\ threadLock = Free
  /\ mpc' = "loop"
  /\ IF AllDelivered
     THEN finished' = TRUE /\ registered' = FALSE
     ELSE UNCHANGED <<finished, registered>>
  /\ UNCHANGED <<ret, arg, it, threadLock, eventCnt, numThreads, wqueue,
                 workerVars, objectVars, pipe, pipeOpen, historyVars>>

-----------------------------------------------------------------------------
(* A worker thread: `initialized'.                                         *)

\* lines 96-98
Register(w) ==
  /\ PoolExists
  /\ wpc[w] = "start"
  /\ threadLock = Free
  /\ threadLock' = w
  /\ wpc' = [wpc EXCEPT ![w] = "insert"]
  /\ UNCHANGED <<mainVars, countVars, wqueue, tb, wk, objectVars, pipeVars,
                 historyVars>>

\* lines 98-99
Registered(w) ==
  /\ PoolExists
  /\ wpc[w] = "insert"
  /\ wk' = wk \cup {w}
  /\ threadLock' = Free
  /\ wpc' = [wpc EXCEPT ![w] = "loop"]
  /\ UNCHANGED <<mainVars, countVars, wqueue, tb, objectVars, pipeVars, historyVars>>

BadBegin(w) ==
  /\ PoolExists
  /\ wpc[w] = "loop"
  /\ pipeOpen \/ "early" \in Env
  /\ wpc' = [wpc EXCEPT ![w] = IF AllDelivered THEN "exited" ELSE "run"]
  /\ UNCHANGED <<mainVars, threadLock, countVars, wqueue, tb, wk, objectVars,
                 pipeVars, historyVars>>

BadStart(w) ==
  /\ PoolExists
  /\ wpc[w] = "loop"
  /\ threadLock = Free
  /\ pipeOpen \/ "early" \in Env
  /\ wpc' = [wpc EXCEPT ![w] = "run"]
  /\ threadLock' = w
  /\ UNCHANGED <<mainVars, countVars, wqueue, tb, wk, objectVars, pipeVars,
                 historyVars>>

\* lines 102-107: start the job, or leave when nothing is owed
Begin(w) ==
  /\ PoolExists
  /\ wpc[w] = "loop"
  /\ threadLock = Free
  /\ pipeOpen \/ "early" \in Env
  /\ IF AllDelivered
     THEN /\ wpc' = [wpc EXCEPT ![w] = "exited"]
          /\ UNCHANGED threadLock
     ELSE /\ wpc' = [wpc EXCEPT ![w] = "run"]
          /\ threadLock' = w
  /\ UNCHANGED <<mainVars, countVars, wqueue, tb, wk, objectVars, pipeVars,
                 historyVars>>

\* lines 108-113; the break of line 111 leaves threadLock locked
Finish(w) ==
  /\ PoolExists
  /\ wpc[w] = "run"
  /\ ready' = [ready EXCEPT ![Obj[tb[w]]] = TRUE]
  /\ ran' = [ran EXCEPT ![tb[w]] = IF @ < 2 THEN @ + 1 ELSE @]
  /\ IF finished
     THEN /\ wpc' = [wpc EXCEPT ![w] = "exited"]
          /\ UNCHANGED threadLock
     ELSE /\ wpc' = [wpc EXCEPT ![w] = "write"]
          /\ threadLock' = Free
  /\ UNCHANGED <<mainVars, countVars, wqueue, tb, wk, callback, pipeVars,
                 issued, dropped, called>>

\* line 115: only the read end is non-blocking
Notify(w) ==
  /\ PoolExists
  /\ wpc[w] = "write"
  /\ pipeOpen /\ pipe < PipeCap
  /\ pipe' = pipe + 1
  /\ wpc' = [wpc EXCEPT ![w] = "prewait"]
  /\ UNCHANGED <<mainVars, threadLock, countVars, wqueue, tb, wk, objectVars,
                 pipeOpen, registered, historyVars>>

\* lines 115-118 with wakeup_pipe_in unset or closed: the write goes
\* elsewhere, or fails and the thread ends
NotifyLost(w) ==
  /\ PoolExists
  /\ wpc[w] = "write"
  /\ ~pipeOpen
  /\ \E p \in {"prewait", "exited"} : wpc' = [wpc EXCEPT ![w] = p]
  /\ UNCHANGED <<mainVars, threadLock, countVars, wqueue, tb, wk, objectVars,
                 pipeVars, historyVars>>

BadWait(w) ==
  /\ PoolExists
  /\ wpc[w] = "prewait"
  /\ threadLock = Free
  /\ wpc' = [wpc EXCEPT ![w] = "loop"]
  /\ UNCHANGED <<mainVars, threadLock, countVars, wqueue, tb, wk, objectVars,
                 pipeVars, historyVars>>

\* lines 119-120
Wait(w) ==
  /\ PoolExists
  /\ wpc[w] = "prewait"
  /\ threadLock = Free
  /\ wpc' = [wpc EXCEPT ![w] = "waiting"]
  /\ UNCHANGED <<mainVars, threadLock, countVars, wqueue, tb, wk, objectVars,
                 pipeVars, historyVars>>

\* there is no predicate to re-check after line 120
Spurious(w) ==
  /\ PoolExists
  /\ "spurious" \in Env
  /\ wpc[w] = "waiting"
  /\ wpc' = [wpc EXCEPT ![w] = "loop"]
  /\ UNCHANGED <<mainVars, threadLock, countVars, wqueue, tb, wk, objectVars,
                 pipeVars, historyVars>>

\* A worker that goes on once the pool is deleted uses a mutex that was destroyed
\* and members that were freed, as does one whose wait ends by chance.
Stray(w) ==
  /\ mpc = "freed"
  /\ \/ wpc[w] \in {"start", "insert", "loop", "run", "write", "prewait"}
     \/ wpc[w] = "waiting" /\ "spurious" \in Env
  /\ wpc' = [wpc EXCEPT ![w] = "stray"]
  /\ ran' = [ran EXCEPT ![tb[w]] = IF wpc[w] = "run" /\ @ < 2 THEN @ + 1 ELSE @]
  /\ UNCHANGED <<mainVars, threadLock, countVars, wqueue, tb, wk, objectVars,
                 pipeVars, issued, dropped, called>>

\* That is undefined: the process crashes, or the worker runs its job again (if
\* it ends instead nothing more is seen of it).
StrayGoesOn(w) ==
  /\ mpc = "freed"
  /\ wpc[w] = "stray"
  /\ \/ mpc' = "exit" /\ UNCHANGED ran
     \/ /\ ran' = [ran EXCEPT ![tb[w]] = IF @ < 2 THEN @ + 1 ELSE @]
        /\ UNCHANGED mpc
  /\ UNCHANGED <<ret, arg, it, threadLock, countVars, wqueue, workerVars, objectVars,
                 pipeVars, issued, dropped, called>>

-----------------------------------------------------------------------------
Dispatch(j) == DispatchToThread(j) \/ DispatchFails(j) \/ DispatchToQueue(j)

MainStep ==
  \/ Push \/ Setup \/ LoopEnds \/ ClosePipe \/ Delete \/ Exit
  \/ OnNotify \/ Scan \/ ScanEnds \/ Call \/ Return
  \/ Assign \/ Signal \/ NothingQueued \/ Final

WorkerStep(w) ==
  \/ Register(w) \/ Registered(w) \/ Begin(w) \/ Finish(w)
  \/ Notify(w) \/ NotifyLost(w) \/ Wait(w)

Chance(w) == Spurious(w) \/ Stray(w) \/ StrayGoesOn(w)

Next ==
  \/ \E j \in Jobs : Dispatch(j)
  \/ MainStep
  \/ SetupFails
  \/ Interrupt
  \/ Crash
  \/ \E w \in Workers : WorkerStep(w) \/ Chance(w)

Spec == Init /\ [][Next]_vars

\* The script ends, callbacks and jobs return, and a thread that can take the
\* mutex eventually does.  Nothing forces a call of dispatch or a signal.
Fairness == WF_vars(MainStep) /\ \A w \in Workers : WF_vars(WorkerStep(w))

FairSpec == Spec /\ Fairness

-----------------------------------------------------------------------------
(* Properties.                                                             *)

OwnObjects == \A i, j \in Jobs : Obj[i] = Obj[j] => i = j

\* onNotify is inside a JavaScript callback, which may be calling dispatch.
InCallback == mpc = "callback" \/ (mpc = "push" /\ ret = "callback")

\* Callbacks owed that the loop has not begun: line 51 counts a callback only
\* after it returned.
Outstanding == eventCnt - (IF InCallback THEN 1 ELSE 0)

\* Jobs run one at a time, and never at the same time as a JavaScript callback:
\* threadPool.cpp:107 and :50 both run with threadLock held, so V8 and the
\* objects jobs share are never entered by two threads.
Exclusive ==
  /\ \A v, w \in Workers : wpc[v] = "run" /\ wpc[w] = "run" => v = w
  /\ InCallback => \A w \in Workers : wpc[w] # "run"

\* A worker whose object is replaced at threadPool.cpp:58 has had its callback
\* called: no job that was dispatched is overwritten or falls out of the queue.
NoJobOverwritten ==
  OwnObjects =>
    \A j \in issued \ dropped :
      \/ called[j] > 0
      \/ \E i \in 1..Len(wqueue) : wqueue[i] = j
      \/ mpc = "push" /\ arg = j
      \/ \E w \in Workers : tb[w] = j

\* The callbacks called, each with its turn among those of its job.
Calls == UNION {{j} \X (1..called[j]) : j \in Jobs}

\* eventCnt is what it stands for although main updates it without the lock at
\* line 128: dispatches minus callbacks called.
CountIsExact == Outstanding = Cardinality(issued) - Cardinality(Calls)

\* Unless pthread_cond_wait returns unsignalled, no job is run twice: a worker
\* is only woken after it was given a job it has not run.  A worker whose object
\* is shared may look ready while it runs, and be signalled after it.  This holds
\* while the pool exists.
RunOnce ==
  "spurious" \notin Env /\ OwnObjects /\ PoolExists => \A j \in Jobs : ran[j] <= 1

\* core.cpp:138-140 neither stops nor joins the workers, so a program may crash as
\* it ends.  A program without sockets loses no work by that: when the pool is
\* deleted no request is queued, no job runs and each worker that is left has run
\* the job it holds, unless the count was spent on a callback called twice.
Ending == mpc \in {"dispose", "closed", "freed", "exit"}

StraysHaveRun ==
  ~Sockets /\ OwnObjects /\ Ending =>
    /\ wqueue = <<>>
    /\ \A w \in Workers : wpc[w] # "run"
    /\ \/ \A w \in Workers : wpc[w] # "none" => ran[tb[w]] > 0
       \/ \E j \in issued : called[j] > 1

\* `finished' and the removal of wakeup_event happen when no callback is owed,
\* nothing is queued and no job is running.
FinishAtQuiescence ==
  [][finished' # finished =>
       /\ eventCnt = 0 /\ wqueue = <<>> /\ ~registered'
       /\ \A w \in Workers : wpc[w] # "run"]_vars

\* Once the pool is finished (line 78) no callback is called any more: a request
\* that a socket's callback makes after that is never answered.
FinishedIsFinal == [][finished => called' = called]_vars

\* onNotify returns to the loop, or the process crashes: the main thread is not
\* stuck in a scan, although workers insert into the map it iterates over and hold
\* the mutex it takes.
NotifyReturns == mpc = "scan" ~> mpc \in {"loop", "crashed"}

\* A worker keeps threadLock after its job (line 111 leaves without unlocking it,
\* and every later request that is queued waits for it for ever) only when a request
\* was made after the pool had finished.
LockKeptAfterEndOnly ==
  PoolExists =>
    \A w \in Workers :
      threadLock = w =>
        \/ wpc[w] \in {"insert", "run"}
        \/ finished /\ eventCnt > 0

\* A program that never queues a request ends, unless a thread or the pipe could
\* not be made or a worker was done before there was a pipe to tell it through:
\* every other worker's byte arrives and is worth at least one callback.
BeforeThePipe(w) == ~pipeOpen /\ wpc[w] \in {"prewait", "waiting", "exited"}

SmallProgramsEnd ==
  <>(\/ mpc \in {"exit", "failed", "crashed"}
     \/ Cardinality(issued) > maxThreads
     \/ dropped # {}
     \/ \E w \in Workers : BeforeThePipe(w))

\* The pool keeps the weaker promise of PoolContract.
Contract == INSTANCE PoolContract WITH
  asked <- issued,
  runs <- ran,
  calls <- called,
  outstanding <- Outstanding,
  closed <- Ending

ImplementsContract == Contract!Spec

\* What is held of threadLock for object o: its job runs, or its callback.
HeldFor(o) ==
  IF \E w \in Workers : wpc[w] = "run" /\ Obj[tb[w]] = o THEN "worker"
  ELSE IF InCallback /\ Obj[tb[it]] = o THEN "main"
  ELSE "free"

\* Each object, shared or not and whatever the platform does, is used as
\* JobContract says: a callback is called only after a job of its object ran, and
\* the job and the callback of an object exclude each other while the pool exists.
Job(o) == INSTANCE JobContract WITH
  lock <- HeldFor(o),
  asked <- \E j \in issued : Obj[j] = o,
  ready <- ready[o]

ServesEachObject ==
  /\ \A o \in Objects : Job(o)!Init
  /\ [][PoolExists => \A o \in Objects : Job(o)!Step]_vars

\* test/http.js:4-17: each asynchronous request has a callback; when the program
\* ends every one of them was called.
AllCallbacksCalled ==
  Ending => \A j \in issued : called[j] > 0

\* ... which fails in one way only: the count is spent on a callback that is called
\* again.  No request is lost with a thread that could not be made, a signal or a
\* byte: these keep the program from its end.
LossIsRepetition ==
  ~Sockets /\ ~AllCallbacksCalled => \E j \in issued : called[j] > 1

\* The same, as progress: a request that was accepted is run ...
DispatchedIsRun == \A j \in Jobs : j \in issued ~> ran[j] > 0

\* ... and its callback is called.
DispatchedIsCalled == \A j \in Jobs : j \in issued ~> called[j] > 0
=============================================================================
