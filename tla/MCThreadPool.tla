---------------------------- MODULE MCThreadPool ----------------------------
(* Instances of ThreadPool for TLC: the configurations give Jobs and Env.  *)
EXTENDS ThreadPool

\* requests made by the script, each with an object of its own
OwnObj == [j \in Jobs |-> j]
FromScript == [j \in Jobs |-> "script"]

CONSTANTS j1, j2, j3, j4

\* j1 and j2 are two File::onReadCb calls on one File; j3 is made by a callback
\* of the pool, j4 by a callback of a socket
LateObj == [j \in Jobs |-> IF j = j2 THEN j1 ELSE j]
LateOrigin ==
  [j \in Jobs |-> CASE j = j3 -> "callback" [] j = j4 -> "loop" [] OTHER -> "script"]
=============================================================================
