SPECIFICATION FairSpec
CONSTANTS
  Clients = {c1, c2}
  Fds = {5, 6}
  MaxSend = 1
  MayClose = TRUE
  MaxSignals = 2
  None = None
INVARIANT TypeOK
PROPERTIES
  ImplementsServerContract
  EndIsSeen
  SaidIsReceived
  LoneNoticeEndsClient
CHECK_DEADLOCK FALSE
