SPECIFICATION FairSpec
CONSTANTS
  Modes = {"r+", "w"}
  MaxFiles = 2
  MaxWrites = 1
  MaxInt = 2
INVARIANTS
  TypeOK
  LoneReadIsWhole
  SpinNeedsAnother
  CrashNeedsCause
  CallbackIsAlone
PROPERTY LoneReadEnds
CHECK_DEADLOCK FALSE
