CONSTANTS
  c1 = c1
  c2 = c2
  c3 = c3
  NULL = NULL
  Clients <- TwoClients
  NFds = 4
  NSlots = 2
  HeaderLen = 2
  FileLen = 2
  MaxReq = 2
  Kinds = {"file", "head", "missing", "none", "empty", "page"}
  Faults = {}
SPECIFICATION FairSpec
CHECK_DEADLOCK FALSE
INVARIANTS
  OwnOutput
  NoFileLeak
PROPERTIES
  ImplementsExchange
  EventuallyServed
