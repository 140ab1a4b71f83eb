SPECIFICATION FairSpec
CONSTANTS
  Workers = {1, 2}
  maxThreads = 2
  j1 = j1
  j2 = j2
  j3 = j3
  j4 = j4
  Jobs = {j1}
  Objects = {j1}
  Obj <- OwnObj
  Origin <- FromScript
  PipeCap = 2
  Sockets = FALSE
  Env = {"early"}
  None = None
PROPERTY DispatchedIsCalled
CHECK_DEADLOCK FALSE
