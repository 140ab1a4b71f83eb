---------------------------- MODULE JobContract ----------------------------
(***************************************************************************)
(* What the pool does with the requests of one ThreadBase object, seen     *)
(* from that object: its job runs, once it was dispatched, on a worker;    *)
(* its callback is called, once its job ran, on the main thread; and no    *)
(* two of these are under way together.  It promises no more: a job may    *)
(* run again, and a callback be called again or early, when the object is  *)
(* dispatched twice or a wait is woken by chance.                          *)
(*                                                                         *)
(* ThreadPool implements it for each object; FileObject is written over it.*)
(***************************************************************************)
VARIABLES
  lock,   \* threadLock, as far as it is held for this object: "free", "worker"
          \* (its job runs) or "main" (its callback runs)
  asked,  \* it was passed to dispatch
  ready   \* ThreadBase::ready, which nothing takes back

jobVars == <<lock, asked, ready>>

Init == lock = "free" /\ asked = FALSE /\ ready = FALSE

Ask == asked' = TRUE /\ UNCHANGED <<lock, ready>>

Begin ==
  /\ asked
  /\ lock = "free" /\ lock' = "worker"
  /\ UNCHANGED <<asked, ready>>

Finish ==
  /\ lock = "worker" /\ lock' = "free"
  /\ ready' = TRUE
  /\ UNCHANGED asked

Call ==
  /\ ready
  /\ lock = "free" /\ lock' = "main"
  /\ UNCHANGED <<asked, ready>>

Return ==
  /\ lock = "main" /\ lock' = "free"
  /\ UNCHANGED <<asked, ready>>

Next == Ask \/ Begin \/ Finish \/ Call \/ Return

Step == [Next]_jobVars

Spec == Init /\ [][Next]_jobVars
=============================================================================
