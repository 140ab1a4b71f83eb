SPECIFICATION Spec
CONSTANTS
  Workers = {1, 2}
  maxThreads = 2
  j1 = j1
  j2 = j2
  j3 = j3
  j4 = j4
  Jobs = {j1, j2}
  Objects = {j1, j2}
  Obj <- OwnObj
  Origin <- FromScript
  PipeCap = 2
  Sockets = FALSE
  Env = {}
  None = None
INVARIANT AllCallbacksCalled
CHECK_DEADLOCK FALSE
