SPECIFICATION FairSpec
CONSTANTS
  Workers = {1, 2}
  maxThreads = 2
  j1 = j1
  j2 = j2
  j3 = j3
  j4 = j4
  Jobs = {j1, j2, j3, j4}
  Objects = {j1, j2, j3, j4}
  Obj <- OwnObj
  Origin <- FromScript
  PipeCap = 2
  Sockets = FALSE
  Env = {"early", "create", "pipe", "race"}
  None = None
INVARIANTS
  TypeOK
  NoJobOverwritten
  RunOnce
  StraysHaveRun
  LossIsRepetition
PROPERTIES
  ImplementsContract
  NotifyReturns
  SmallProgramsEnd
CHECK_DEADLOCK FALSE
