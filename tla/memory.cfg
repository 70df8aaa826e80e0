\* Paged memory implements flat memory; nothing backs the device window.
SPECIFICATION Spec
CONSTANTS
  PageSize = 8
  NumPages = 3
  Base = 4
  InitialBrk = 5
  MaxWritten = 4
  None = None
  Device <- SomeDevices
  Requests <- SomeRequests
CONSTRAINT FewWritten
INVARIANTS
  TypeOK
  WindowNeverBacked
PROPERTIES
  FetchReadsNoDevice
  FlatSpec
