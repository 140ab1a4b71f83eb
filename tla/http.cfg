SPECIFICATION FairSpec
CONSTANTS
  Streams <- Responses
  Length = 2
  MaxTada = 14
INVARIANTS
  TypeOK
  CleanIsComplete
  EndsAtNul
PROPERTY CleanEnds
CHECK_DEADLOCK FALSE
