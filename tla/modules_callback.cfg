SPECIFICATION Spec
CONSTANTS
  Components <- TheComponents
  Dirs <- TheDirs
  Start <- D
  Main <- TheMain
  Programs <- ThePrograms
  Gone <- Deleted
  MaxDepth = 5
INVARIANT CallbackNamesResolve
CHECK_DEADLOCK FALSE
