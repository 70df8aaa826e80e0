SPECIFICATION FairSpec
CONSTANTS
  PageSize = 8
  NumPages = 4
  Base = 4
  InitialBrk = 16
  LoadBase = 8
  NumRegs = 18
  Buf = 19
  Counts = {0, 2, 3}
  MaxCount = 2
  None = None
  Requests = {}
  Device <- MCDevice
  Loads <- MCLoads
  Input <- MCInput
  OtherCalls <- MCOtherCalls
  HookAnswers <- MCHookAnswers
INVARIANTS
  TypeOK
  InputReachesOutput
  
  
  NothingLeftOver
  SectionsInPlace
PROPERTIES
  ReadStaysInBounds
  InputIsRead
