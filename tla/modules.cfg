SPECIFICATION Spec
CONSTANTS
  Components <- TheComponents
  Dirs <- TheDirs
  Start <- D
  Main <- TheMain
  Programs <- ThePrograms
  Gone <- Deleted
  MaxDepth = 5
INVARIANTS
  TypeOK
  CwdFollowsStack
PROPERTY
  ImplementsLoaderContract
CHECK_DEADLOCK FALSE
