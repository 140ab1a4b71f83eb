SPECIFICATION Spec
CONSTANTS
  Workers = {1, 2}
  maxThreads = 2
  j1 = j1
  j2 = j2
  j3 = j3
  j4 = j4
  Jobs = {j1, j2, j3, j4}
  Objects = {j1, j2, j3, j4}
  Obj <- LateObj
  Origin <- LateOrigin
  PipeCap = 2
  Sockets = TRUE
  Env = {"early", "spurious", "create", "pipe", "race"}
  None = None
INVARIANTS
  Exclusive
  CountIsExact
  LockKeptAfterEndOnly
PROPERTIES
  FinishAtQuiescence
  FinishedIsFinal
  ServesEachObject
CHECK_DEADLOCK FALSE
