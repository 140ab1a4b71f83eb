# CoreJS in TLA+

CoreJS (FrenzyLabs) is a small server-side JavaScript runtime: V8, libevent's
loop, a thread pool for requests that would block, sockets, an HTTP client,
files, a module loader and loadable modules. This directory holds TLA+ models of
the parts whose behaviour depends on order: who runs when, what is read after it
changed, what happens when a call in the middle fails. TLC checks them on small
instances; TLAPS proves the central facts about each of them for every value of
the constants.

    tlc -config pool_script.cfg MCThreadPool      # a run
    tlapm ThreadPoolProofs.tla                    # the proofs

## 1. The system

| component | state it keeps | operations | interacts with |
|---|---|---|---|
| Thread pool, `src/Threading` | `eventCnt`, `finished`, `numThreads`, `wqueue`, map `wk` of workers, each worker's `tb`, each object's `ready`, `data`, `callback`; `threadLock`; the wake-up pipe | `dispatch`, `onNotify`, the worker loop `initialized` | HTTP client and files dispatch to it; RunCore makes the pipe and deletes the pool; libevent calls `onNotify` |
| RunCore, `src/core.cpp`, `src/Events` | the event base, the V8 context | run the script, make the pipe, dispatch events, tear down | everything |
| Server sockets, `src/Socket/serverSocket.cpp`, `Socket.cpp` | `sockMap`, `socketEvents`, callbacks | accept, read, answer one or all, SIGINT, close | client processes over TCP; script callbacks |
| Client sockets, `src/Socket/clientSocket.cpp` | its connection, `whichEvents` | connect, read, send from the terminal, close | a server process |
| HTTP client, `src/Http` | host, path, parameters; the text received | `get`, `post`, and their asynchronous forms | the pool; a server |
| Module loader, `src/Module`, `src/Path` | only the working directory of the process, and on the stack the text of the one to return to | `require` of scripts and shared libraries | the file system; scripts call it recursively and change the tree under it |
| File objects, `src/File` | `filepath`, `filemode`, a `FILE *` | open, close, read, write, rewind, remove, `onReadCb` | the pool: `readFileCb` uses the same `FILE` on a worker |
| Mysql module, `modules/Mysql` | `connection`, `result`, `fields` | connect, disconnect, query, fetch, `numRows`, `lastInsertId` | libmysqlclient |
| Memcache module, `modules/Memcache` | one global `client` that every object uses | make, reset, domain key, servers, set, add, replace, delete, get, flush | libmemcached |
| Env, `src/Env` | the process's `environ` | read a member, assign one | getenv, putenv, the allocator |
| System, Directory | none | one system call each; `mv`, `create`, `remove`, `Exit` and `readfile` change or read what other parts use | the module loader's tree, the files |

What is hard here:

- *Concurrency.* The main thread and up to two workers share the pool. Only some
  accesses take `threadLock`: `ready` (threadPool.cpp:45) and the map `wk` (:43) are
  used without it. The mutex is not recursive, a condition variable is waited for
  without a predicate (:120), and the pool is deleted (core.cpp:140) under workers
  that nobody stops or joins. A `FILE` is shared call by call.
- *Ordering.* The pipe is made after the script ran, messages run together in a
  TCP stream, statements and fetches of a Mysql object come in any order.
- *Failure.* `pthread_create`, `pipe`, `fopen`, `realpath`, `getcwd`, `chdir`,
  `connect` and `mysql_store_result` may fail, and most callers go on. A callback may
  close the object whose handler calls it (serverSocket.cpp:56, 64, 103).
- *Stale state.* `ready`, a closed `FILE`, the text of a path whose directory was
  moved, a freed `client`, a string that `environ` still points into.
- *Progress.* Every callback that is owed should come, every read should end.

`PROJECT.json` lists the hazards at their lines with the properties about them.

What makes each part correct: the pool runs and answers every request once, one
at a time with callbacks, and ends only when nothing is owed; the server hears and answers
its clients and forgets those that went; a response is returned whole and ends;
a relative name is the one CommonJS gives it, and the working directory follows
the modules; a read returns the whole file and ends; a Mysql object serves the rows
of its last result and never an old row or an old id; Memcached objects do not
disturb each other unless one changes the client they share; a member of Env reads as it was assigned. Not
all of that is so: see the findings (5).

## 2. Modules

| module | models | used by |
|---|---|---|
| `ThreadPool` | `threadPool.cpp`, `ThreadBase.h`, the pool's part of `core.cpp` | `MCThreadPool`, `ThreadPoolProofs` |
| `PoolContract` | nothing: what the pool promises a script | `ThreadPool` (refinement) |
| `JobContract` | nothing: what the pool does with the requests of one object | `ThreadPool` (refinement), `FileObject` (composed of it) |
| `ServerSocket`, `ClientSocket` | the two ends | `SocketSystem` |
| `ServerContract` | nothing: a set of members that are told things | `SocketSystem` (refinement) |
| `SocketSystem` | one server process, several clients, TCP between | `SocketProofs` |
| `HttpReceive` | the receive loops of `Http/client.cpp` | `MCHttpReceive`, `HttpReceiveProofs` |
| `FileTree` | the kernel and realpath: directories, files, how a name is looked up, mkdir, rmdir, rename; and what CommonJS has for a name | `ModuleLoader`, `LoaderContract` |
| `ModuleLoader` | `module.cpp`, the `Path` operations it uses, and what scripts do to the tree (`system.cpp`, `directory.cpp`) | `MCModuleLoader`, `ModuleLoaderProofs` |
| `LoaderContract` | nothing: scripts that each are in a directory of their own | `ModuleLoader` (refinement), `LoaderContractProofs` |
| `FileObject` | one object of `file.cpp`, the worker that reads it, and the functions on its path | `FileObjectProofs` |
| `Mysql` | one object of `mysql.cpp` | `MCExtensions`, `MysqlProofs` |
| `Memcache` | the objects of `memcache.cpp` and their one client | `MCExtensions`, `MemcacheProofs` |
| `Environment` | `env.cpp` over putenv and the heap | |
| `MCExtensions` | a script that uses one of the two extension modules | |
| `...Proofs` (8 modules) | theorems | |

Operators named `Bad...` are wrong variants of the definition that follows them,
each a plausible slip. No specification uses them; `PROJECT.json` ("mutants")
says which property notices which.

### ThreadPool

An action is a stretch of code between two accesses to something threads share.
`mpc` is where the main thread is, `wpc[w]` where worker `w` is.

| actions | code |
|---|---|
| `DispatchToThread`, `DispatchFails`, `DispatchToQueue`, `Push` | `dispatch`, and the method that calls it (`Issue`: `setCallback` replaces the callback, `eventCnt++`, nothing resets `ready`) |
| `Setup`, `SetupFails`, `LoopEnds`, `Interrupt`, `ClosePipe`, `Delete`, `Exit` | `RunCore` from the end of the script |
| `OnNotify`, `Scan`, `ScanEnds`, `Call`, `Return`, `Assign`, `Signal`, `NothingQueued`, `Final`, `Crash` | `onNotify` |
| `Register`, `Registered`, `Begin`, `Finish`, `Notify`, `NotifyLost`, `Wait`, `Spurious` | `initialized` |
| `Stray`, `StrayGoesOn` | `initialized` once the pool is deleted |

`Origin[j]` says where the program makes request `j`: in the script, in a callback
the pool runs (with the mutex held: `Push` then never returns), or in a callback
of a socket. `Obj[j]` is the object it passes: HTTP makes one per request, a
`File` passes itself each time. The set `Env` switches on what the platform may
do: a worker that finishes before the pipe exists, spurious wake-ups (`wCond` is
not even initialised), `pthread_create` and `pipe` that fail, and the race on the map
`wk`. While a worker is inside its insertion (between `Register` and `Registered`,
line 98), the walk of `onNotify`, which takes no lock, may come to any worker, end
too soon, or follow a NULL entry and end the process (`Crash`). Other reads without
the lock see the current value.

`RunCore` closes the pipe, deletes the pool and returns, and stops no worker on the
way. Until the pool is deleted they go on as before, with writes that are lost in the
closed pipe. One that goes on after that (`Stray`) uses a destroyed mutex and freed
members, which is undefined: it crashes the process, runs its job again or stays where
it is, until the process is gone. So the exclusion of jobs is promised only while the
pool exists (`PoolExists`), and `StraysHaveRun` says what this can cost: in a program
without sockets no request, because each worker that is left has run what it holds.

`PoolContract` is what a script may rely on: a callback only after its request
ran, as many callbacks as requests, the end exactly when that many were called.
It promises neither that *each* callback is called nor that it is called once,
because the code does not. `ThreadPool` implements it (`ImplementsContract`), where
each request has its own object.

`JobContract` is the same seen from one object: asked, its job runs; once that ran,
its callback is called; never two of these together. `ThreadPool` implements it for
every object at the same time, shared objects and every fault included
(`ServesEachObject`) as long as the pool exists: the lock of an object is the mutex as
far as its own job or callback holds it.

### SocketSystem

`ServerSocket` follows `onServerRead`, `accept_conn_cb`, `sighup_function` and
`close()` with the tables `sockMap` and `socketEvents`. accept(2) gives out the lowest
free descriptor, some are in other use from the start (`"other"`), and none comes back:
nobody closes that of an ended client, so when all are taken who connects stays in the
backlog. Each handler calls a callback of the script in its middle, which may close
the server object: `free` leaves the loop its pointer, so from then on each step goes
on as before or crashes (`Crash`). That a crash may come in the middle of the loop of
line 73, with some told and others not, is not told apart from one before it. SIGINT
may come again in the round that the loop still makes after the first one, and then
the notice is sent again. `ClientSocket` follows `onRead`, `readStdin` and `close()`. TCP keeps order and
may deliver several messages in one piece; clients may be killed.

`ServerContract` has no descriptors, events or tables: a client that connects is
taken in once, stays a member until it is gone, gets the answer to what it said, what
is for all comes to each member once, and so does the notice of each interruption.
The script may release the server, which may then end at any step. `SocketSystem`
implements it
(`ImplementsServerContract`), with `Members`, the owners of the descriptors in `sockMap`, for its
members.

### HttpReceive

Tokens stand for bytes: `"n"` a line end, `"c"` a good Content-Length line, `"e"`
one without a value, `"0"` NUL, `"b"` and `"x"` others. One action is one turn of the
loop: `recv` of a byte, or of nothing when the connection has ended (then the old
byte of `buffer` is appended again and `buffer[-1]`, the variable `before`, decides
whether the loop ends). `MaxTada` bounds the text of the endless loop after an
early close; `LengthInv` in the proofs shows that the bound is not what ends any
other run.

### ModuleLoader

A state is the tree (`dirs`, and `program`: the files and what they hold), the
working directory and the stack of activations of `resolveModule`, above the main
script or a callback. Files hold short programs: `require`, `try { require }`, a
callback that requires later, `throw`, `exit`, and the calls that change the tree.

| actions | code |
|---|---|
| `LoadJs`, `LoadDso`, `LoadFails`, `ReadFails`, `NotFound`, `Return` | `resolveModule` with `loadJsModule` and `loadDsoModule` |
| `Throw`, `Later`, `Callback`, `Exit` | a script's end, `System::Exit`, the event loop |
| `Create`, `RemoveDir`, `Mv` | `Directory::Create`, `Directory::Remove`, `System::Mv`: mkdir, rmdir and rename as the kernel does them, or refused (`Refused`) |

A path is a sequence of components, each split at its first dot; `Here`, the empty one,
stands behind the slash at the end of a name. An absolute name is not normalised
before line 81 looks for its last slash, so that `require("/d/s/")` finds `/d/s.js` and
runs it in `/d/s`: `HomeOf` has such a module at home where the code goes. In the root
the loader looks for `/.fm` and `/.js`. A file that was found may be unreadable by the
time it is opened: the NULL of `CReadFile` ends the program (`ReadFails`).

`Normalize` keeps what `realpath` leaves in the buffer when it fails, `Chdir` may
fail in silence, and in a directory that was removed (`cwd = Nowhere`) `getcwd`
fails too, so that `CurrentPath` may be any text. A directory that is moved takes the
process along; the text of `originalPath` stays. Nothing is cached, so cyclic
requires recurse until `MaxDepth`. Two history variables carry the properties:
`home` of a frame is where the script should run, `lost` are the paths at which a
directory was moved or removed. A script whose home is lost is promised
nothing; every other one everything.

`LoaderContract` says what that is worth to a script. It has the same tree, but no
working directory, no chdir and nothing to return to: a frame is a file, what is
left of its program and its home, and a name is looked up from the home. Where the
home is lost the script may be anywhere, and a name whose directory does not exist
may find anything. Which extensions a name may take, and in which order, it has from
the loader (`CommonJS`): no document says. `ModuleLoader` implements it (`ImplementsLoaderContract`), with
the stack without its `back` and `kind` for the frames.

### FileObject

The methods of the script's thread and `readFileCb` on a worker, one stdio call
per action where both may be under way. A file is a sequence of blocks, text or one
that begins with a NUL; it has an
inode of its own, so it lives on when `Remove` takes its name, and opening with
`w` makes a new one. A `FILE` has a mode, a position and a buffer of blocks
written. `readFile`, `writeFile` and `System.readfile` open a `FILE` of their own
(`own`): they share no position with the object, but `writeFile` empties the file
under a read of the worker. What a read returns is cut as the code cuts it: `read` and
`System.readfile` make a string of `size` bytes, `onReadCb` (file.cpp:39) and
`readFile` (:73) a C string, which ends at the first NUL (`CString`). `size` is an
`int`: of a file longer than `MaxInt` blocks it may be any number (`IntsOf`), and for
one below zero the memory asked for, or the byte written before it, ends the program.
The pool is `JobContract`: what the worker and the
callback begin and end are its `Begin`, `Finish`, `Call` and `Return`, `onReadCb` is
its `Ask`, and its exclusion holds because the pool exists as long as the loop runs. So
`FileObject` uses of the pool what is proved of it for every object
(`ObjectsAreServed`) and no more: a job may run again and a callback come twice.

### Memcache and Environment

A Memcached object has no state: every method works on the global `client`. The
model has that pointer, whether what it points at was freed, its domain and
whether it has servers; of a stored value it has the domain and the key its writer
meant, unknown if another object had changed its client. The
history variable `mine` is what the client would be if the object had it for
itself, until another object changes it. The servers know a value by one name, domain
and key written together with nothing between: a domain and a key are sequences of
characters, and "d" with "ek" is the same name as "de" with "k".

`Environment` has a heap of blocks: `EnvSetter` builds its string in one, putenv
makes `environ` point at it, and the block is free again when the setter returns.

### Mysql

Every method of one object. Members are not initialised (mysql.cpp:21), so the
first values are NULL or junk. The library is external: a statement is refused,
has no rows, or has a result from `Tables`; what an `MYSQL` says of its last
statement after an error is undefined. A fetched cell shows its own value or, for
a NULL in a text column, that of the cell before it (lines 107-109).

## 3. Runs

| run | checks | what it shows, and its bounds |
|---|---|---|
| `pool_script` | `TypeOK` `NoJobOverwritten` `RunOnce` `StraysHaveRun` `LossIsRepetition` `ImplementsContract` `NotifyReturns` `SmallProgramsEnd` | 4 requests, 2 threads, a pipe of 2 bytes: two run at once, two are queued, one thread can fail and be replaced, the pipe can be full, and a worker can insert itself under a scan. A program that ends without a callback called another twice, and a worker that outlives the pool has run its job. Under fairness a scan ends or the race ends the process, and a program that queues nothing ends |
| `pool_late` | `Exclusive` `CountIsExact` `LockKeptAfterEndOnly` `FinishAtQuiescence` `FinishedIsFinal` `ServesEachObject` | the hard uses: one `File` dispatched twice, a request from a callback (self-deadlock), one from a socket's callback after the pool has finished, which is the one way to leave the loop with the mutex; all faults. The pool is used as each object's `JobContract` |
| `pool_lost_callback`, `pool_lost_startup`, `pool_lost_signal` | one finding each | see 5 |
| `sockets` | `TypeOK` `ImplementsServerContract` `EndIsSeen` `SaidIsReceived` `LoneNoticeEndsClient` | 2 clients, 2 descriptors of which some may be taken, one message of each, 2 SIGINTs, `close()` by the script: broadcast, kill, the second signal, and a close inside and outside of the handlers meet in every order, and a client can find no descriptor. Every step is one of `ServerContract` |
| `http` | `TypeOK` `CleanIsComplete` `EndsAtNul` `CleanEnds` | 520 responses of up to two header lines and three bytes, length 2: a body shorter, equal and longer, blank lines in it, NULs, a connection cut at each byte |
| `files` | `TypeOK` `LoneReadIsWhole` `SpinNeedsAnother` `CrashNeedsCause` `CallbackIsAlone` `LoneReadEnds` | modes `r+` and `w` (reads and writes, one that cannot be read), 2 files, 1 write, files of up to 3 blocks with `MaxInt` 2, a file that ends in a NUL, any number of `onReadCb`: two readers, a removal, a truncation and a method between any two of their calls |
| `modules` | `TypeOK` `CwdFollowsStack` `ImplementsLoaderContract` | 16,900 programs over four directories, depth 5: a module that requires one that requires one, `..`, a slash at the end, the root, files that cannot be read, a directory and a file of one name, a missing directory, a broken library, cycles; a directory made, removed or moved, with the running module in it, and a file put in its place. Every step is one of `LoaderContract` |
| `modules_callback` | one finding | see 5 |
| `extensions` | `TypeOK` `SelectedRowsAreServed` `FetchedRowsAreNew` `InsertIdIsOfLast` `MemcacheTypeOK` `OwnClient` `DomainsKeepApart` | Mysql: 2 connections, 4 statements, 6 tables with NULLs in text and numbers: reconnection after an insert, a SELECT after another, an insert between SELECT and fetch. Memcache: 3 objects, domains "d" and "de", keys "k" and "ek", two of whose pairs are one name: an object made after a reset, between two others, and with another domain |
| `environment` | one finding | see 5; 1 member, 2 values, 3 blocks: the string of an older assignment, of the new one, and one more |

`CHECK_DEADLOCK FALSE` is in every configuration because every one of these
programs may stop: a script ends, a process exits or crashes, a bound is reached.

Bounds are in the guards of the actions and named in `CONSTANTS`: `PipeCap`,
`MaxSend`, `MaxSignals`, `MaxTada`, `MaxDepth`, `MaxFiles`, `MaxWrites`, `MaxInt`,
`MaxConnects`, `MaxStatements`. In `ThreadPool` the number of jobs bounds
everything else; `ran` counts up to 2, which stands for more.

## 4. Fairness

- `ThreadPool`: weak fairness of the main thread and of each worker. Scripts and
  jobs return (they do not loop for ever by themselves), and the mutex is not held
  for ever by code that can go on, so a thread that waits for it gets it. Nothing
  forces the script to dispatch, a signal to come or a wake-up to be spurious.
  Only properties that need no more are checked: a mutex that is free again and
  again is not promised to one particular worker.
- `SocketSystem`: libevent runs every active event of a round, so an event that
  stays ready is handled. Nobody is forced to type, connect or interrupt.
- `HttpReceive`: the loop goes on; the server is not forced to send or close.
- `FileObject`: both threads go on with a read and return from it, and the
  script's thread with `readFile` and `writeFile` (`OwnStep`).

## 5. What the code does otherwise

Five runs end in a violation, each of a property that a test or a comment of the
repository states.

- `pool_lost_callback`. `ready` stays 1 after a callback (threadPool.cpp:45,
  :109). With two requests, the first to finish may be called back twice; that
  takes `eventCnt` to 0 and the program ends without the other callback.
  `test/http.js:4-17` expects each callback. It is the only way to such an end:
  `LossIsRepetition`, checked in `pool_script` and proved, says that a program that
  ends with a callback missing has called another one twice.
- `pool_lost_startup`. A request that finishes while the script still runs writes
  its byte before `core.cpp:121` has set the pipe. The byte is lost and the loop
  waits for ever.
- `pool_lost_signal`. A worker is shown to `onNotify` by its byte (:115) before it
  waits (:120). A request assigned in between is signalled to nobody (:60).
- `modules_callback`. `module.h:28` announces relative paths as in CommonJS; a
  callback of a module resolves them from the directory the program was started
  in, because line 109 has gone back to it. Callbacks of files of that directory
  are right, as `NamesResolve` shows.
- `environment`. `test/env.js:3-4` assigns `Env.TEST` and prints it. `EnvSetter`
  gives putenv the characters of a local string (env.cpp:69), which putenv keeps:
  after the setter has returned, what the member reads as is what the allocator has
  put there since.

Known of the code and kept in the models without a property: the client's endless
`onData("")` at the end of the stream, the endless receive loop after an early
close of an HTTP connection, a request made in a callback once both threads exist
(it deadlocks), NULL cells that show their neighbour's value, `lastInsertId` that
is 0 for ever after a SELECT, results and connections that are never freed.
Modelled as the code has it, against what it seems to want: `set`, `add` and
`replace` of Memcached refuse the expiry that memcache.cpp:156 offers ("4 max"),
because `ARG_MIN_LENGTH` throws for more arguments than it names, and `writeFile`
refuses the mode of line 92 for the same reason; `readFile` of a file that does not
exist passes NULL to `strlen` (file.cpp:73), where `System.readfile` returns.

## 6. Proofs

`ThreadPoolProofs` (any number of workers, jobs and objects, any `Origin`, `Obj`
and `Env`) assumes only the named `ASSUME`s of `ThreadPool`. The properties are
not inductive; `IInv` adds

- `LockInv`: a worker that registers or runs a job holds the mutex, and so does main
  in a callback. Gives `MutualExclusion`.
- `CountInv`: `onNotify` runs only while its event is registered; then `eventCnt`
  is above the length of the queue by the worker that will notify; the queue is
  used only when all threads were started. It is why a scan, which trusts a stale
  `ready`, never takes the count below the queue. Gives `QueueIsCovered`, and with
  `FinishesAtQuiescence` and `NothingAfterFinished` what the end of the pool means.
- `EndInv`: without sockets, when the event is gone the count is 0, to the end. With
  `LossIsRepetition` and `DeliveryInv` (whose callback was called has run) it gives
  `StraysLoseNothing`: who is left when the pool is deleted holds a job that was run.
- `DeliveryInv`, `HoldInv`, `NoJobOverwritten`: every worker holds a dispatched
  job, `ready` of an object means its job ran, and a job is in the queue, in a
  worker, on its way, or answered. Give `CalledOnlyAfterRun` and `JobsAreKept`.
- `TotalInv`: the requests made and the calls, as a set of pairs, are finite, and
  each step changes both sides of the count by the same. Gives `CountStaysExact`.
- `CalledInv`: only callbacks of dispatched jobs are set and called. With the exact
  count, 0 at the end (`EndInv`), it gives `LostOnlyByRepetition`: as many calls as
  requests that spare one request are two of another (`FS_PigeonHole`).
- `LockIsKeptAfterEndOnly` is inductive on top of `IInv`: a worker leaves with the
  mutex at line 111 only if `finished` is set while it runs a job, and then the count
  is above 0 again (`CountInv`) and is never lowered, the event being gone.
- `PlaceInv`, `OnceInv`: a job is in one place, and what waits there has not run.
  Line 58 gives a job only to a worker past its own byte. Give `JobsRunOnce`.

Each part has a lemma for `Init` and one for a step, with a case per action.
`Refinement` shows, from `IInv`, that a step of `ThreadPool` is a step of
`PoolContract` or a stutter, where each request has an object of its own and no
socket keeps the loop alive. `ObjectsAreServed` shows the same of `JobContract`,
while the pool exists, for every object and without those two conditions: of two workers one at most runs a
job, none beside a callback (`Exclusive`), so `HeldFor` of an object changes only
with its own job or callback (`HeldForJob`, `NobodyRuns`, `SameForJob`); a worker's
job was issued (`HoldInv`), and `ready` of its object is behind every call.

`SocketProofs` (any clients and descriptors): `IInv` is `TypeOK` with `OneFd` (a
connection is open at one descriptor), `WaitingIsNew`, `NewIsUnknown` (one that
waits in the backlog, or was never made, has none) and `SameTables` (a descriptor of
the tables is a client's, and both tables have it). Only together do they survive
`AcceptConn`. They give `TypeCorrect`. `AnswersWereAsked` follows from them and a step
alone: what a `recv` takes begins with the head of the stream and leaves a shorter one
(`LeftIsShorter`). `Refinement` needs `ClientInv` too (a client that has connected is
in the backlog or was accepted; one that has gone says nothing): what is sent on
descriptors is told to their owners (`SendTells`), once and with the sender told apart
because of `OneFd`, and letting one descriptor go lets one member go
(`DisconnectLetsGo`). A close inside a handler is a release in the same step, a
crash is the end of a released server.

`HttpReceiveProofs` (any set of streams, any length and bound): `IInv` adds
`NoNulInside` (while the loop goes on no byte received is NUL, the one in the
buffer included, which an ended connection appends again), `LengthInv` and
`Untouched`. It gives `TypeCorrect` and `NulEndsTheText`. For `CleanIsWhole`,
`TextInv` says that the text is what was received and then its last byte repeated,
and `NotPast` that the loop never goes on with all of a clean response received.

`FileObjectProofs` (any modes and bounds): the types (`PoolType`) say that `lock` is
the worker's from the first to the last stdio call of `readFileCb`;
with `BeginsAlone` this gives `CallbackStaysAlone`: while a callback has the lock
the worker is idle, so only the main thread could disturb the read, and it is
inside it. `NullHasCause` and `ClosedHasCause` name the origin of a pointer that
cannot be used, and give `CrashHasCause`. `Whole` says how far a read that nobody
disturbed has come at each stdio call (`Progress`, and `OwnProgress` of
`readFile`): it gives `LoneReadReturnsAll` and `LoneReadAdvances`, where `Sized` says
what an `int` knows of the length.

`MysqlProofs` (any tables and bounds): `IInv` adds

- `ResultInv`: while the process lives `result` is the last result, or what it was
  before the first: no method clears it, `Disconnect` included. With `CountInv` it
  types the indices, and it gives `SelectedRowsAreThere`: once a SELECT succeeded
  `result` is never NULL or junk, and its rows are there until a fetch takes them.
- `InsertInv`: what the connection answers about a statement without rows is its
  id or 0. With `AnswerInv` it gives `InsertIdsAreNew`.
- `Known`: the rows returned of a result are exactly those before the one it
  stands at. Gives `RowsAreNew`. Where a fetch returns all rows at once, what holds
  of each is shown by a least row for which it does not.

`MemcacheProofs` (any objects, domains and keys): `IInv` joins the properties to
`StoredInPlace`, that a value is under the name which its writer's domain and key spell
together, unless that writer was disturbed. It gives `ClientIsOwn` and
`DomainsAreApart`: what an undisturbed object is shown was stored under the name that
its own domain and key spell.

`ModuleLoaderProofs` (any tree, programs, names and depth): `IInv` is `TypeOK` with
`HomesExist` (a home is a directory until it is lost), `ModulesAbove` (only the
bottom of the stack is no module, and its home is the start) and
`CwdFollowsStack`, whose second part, about the directories to return to, is what
makes `Return` keep the first. Its lemmas are in three groups.

- `Walk`, what realpath makes of a path, is a recursive function. What holds of it
  is shown along the beginnings of the path by a least counterexample
  (`NoneIsFirst`): a directory is walked to (`WalkToDirectory`), a walk ends at a
  directory or at one name in one (`WalkEnds`), and walking what it leaves adds
  nothing (`WalkTwice`), so that normalising twice, as `resolveModule` and
  `FileExtension` do, is harmless.
- `OtherHomes`: a step that keeps the frames, and the working directory where it
  is not lost, keeps the invariant. Every change of the tree is such a step.
- `Renamed`, `MovedInDirectory`: `mv` moves paths one to one, and what it moves is
  in a directory again; so the tree stays one (`TypeCorrect`).

`DirectoryFollows` is then the invariant, and `NamesResolve` follows from it
(`OwnNames`): a script that runs in the directory of its file, be it a module, the
main script or a callback, looks a relative name up from there, and the walk ends
where CommonJS has the file (`Resolved`).

`LoaderContractProofs`, on the same invariant: each action of `ModuleLoader` is one
of `LoaderContract`. The definitions of `FileTree` mean the same in both
(`SameWalk`, `SameNames`, `SameCalls`), and replacing, adding or taking the last
frame does so in what is seen of the stack (`ViewsTodo`, `ViewsAppend`,
`ViewsParent`). What is left are the two places where the code looks at the working
directory: it is where the contract has the script (`ProcessIsInPlace`, from
`CwdFollowsStack` and `HomesExist`), and what `FileExtension` finds there is what the
contract has for the name (`FoundIsPromised`, from `Resolved`; from a removed
directory nothing is found, `WalkFromNowhere`). `Return`, `Chdir` and `originalPath`
do not show. Nothing is assumed but the `ASSUME`s of the two modules.

Only model-checked: liveness (`NotifyReturns`, `SmallProgramsEnd`, `EndIsSeen`,
`SaidIsReceived`, `LoneNoticeEndsClient`, `CleanEnds`, `LoneReadEnds`: fairness and ENABLED are beyond this prover). Every invariant that
a run checks is proved.

## 7. Not modelled

- System's printing, questions (`exists`, `cwd`, ...), `chmod` and shell calls,
  `Directory.list`, `isDirectory`, `isFile`: single calls of the system that change
  nothing another part looks at.
- Two File objects of one path. The methods of a second one are those of
  `writeFile` and `readFile` as far as the first can tell, but for a `FILE` that
  stays open between calls.
- `mkdir`, `rmdir` and `mv` of a name that ends in a slash: the model only has them
  refused.
- What `require` does in a module that `exit`s half-way, symbolic links, and paths
  longer than the buffers of `module.cpp` and `path.cpp`.
- V8's garbage collection: `WrapObject` (`ObjectWrapT.h`) never makes a handle
  weak, so nothing of this code is collected.
- `parse_url`, the text of requests, printing, argument checks of the methods.
- What a platform makes of `SO_NOSIGPIPE` as
  a flag of `send` (Socket.cpp:117); undefined behaviour inside one call
  (Socket.cpp:199); a process with both kinds of sockets, whose template the second
  kind replaces (serverSocket.cpp:154).
- A shared library that `dlopen` cannot open (module.cpp:134: an exception is made
  and the code goes on with NULL).
- `src/main.cpp`, an older main that is commented out, and the embedding example.

## 8. Plan

The order was: the pool and its proofs, sockets, HTTP, modules, files, Mysql; then
Memcache and Env, the files' paths and inodes, a tree that changes under the module
loader, the proofs of every invariant, and the contracts of the pool's objects, of the
loader and of the server. What would come next:

1. Abstract specifications of the other parts as a script sees them: a `File` (a
   read returns a content that the file had), a Mysql result as a cursor; and the
   proofs that the models implement them.
2. Two File objects of one path, with a `FILE` each.
