---------------------------- MODULE PoolContract ----------------------------
(***************************************************************************)
(* What the thread pool promises a program without sockets, seen from the  *)
(* script: requests are asked, run and answered by calls of their          *)
(* callbacks.  A callback is called only for a request that was run, only  *)
(* as many callbacks are called as requests were made, and the program     *)
(* closes exactly when that many were called; what still runs then is not  *)
(* answered.  It does not promise that each request is answered, or        *)
(* answered once: ThreadPool does not.                                     *)
(***************************************************************************)
EXTENDS Integers

CONSTANT Jobs

VARIABLES
  asked,        \* requests made
  runs,         \* how often each was run
  calls,        \* how often each callback was called
  outstanding,  \* calls owed
  closed

vars == <<asked, runs, calls, outstanding, closed>>

Init ==
  /\ asked = {}
  /\ runs = [j \in Jobs |-> 0]
  /\ calls = [j \in Jobs |-> 0]
  /\ outstanding = 0
  /\ closed = FALSE

Ask(j) ==
  /\ ~closed
  /\ j \notin asked
  /\ asked' = asked \cup {j}
  /\ outstanding' = outstanding + 1
  /\ UNCHANGED <<runs, calls, closed>>

Run(j) ==
  /\ ~closed
  /\ j \in asked
  /\ outstanding > 0
  /\ \E n \in 1..2 : runs' = [runs EXCEPT ![j] = n]
  /\ UNCHANGED <<asked, calls, outstanding, closed>>

Call(j) ==
  /\ ~closed
  /\ runs[j] > 0
  /\ outstanding > 0
  /\ calls' = [calls EXCEPT ![j] = @ + 1]
  /\ outstanding' = outstanding - 1
  /\ UNCHANGED <<asked, runs, closed>>

Close ==
  /\ ~closed
  /\ outstanding = 0
  /\ closed' = TRUE
  /\ UNCHANGED <<asked, runs, calls, outstanding>>

Linger(j) ==
  /\ closed
  /\ j \in asked
  /\ \E n \in 1..2 : runs' = [runs EXCEPT ![j] = n]
  /\ UNCHANGED <<asked, calls, outstanding, closed>>

Next == (\E j \in Jobs : Ask(j) \/ Run(j) \/ Call(j) \/ Linger(j)) \/ Close

Spec == Init /\ [][Next]_vars
=============================================================================
