CONSTANTS
  c1 = c1
  c2 = c2
  c3 = c3
  NULL = NULL
  Clients <- TwoClients
  NFds = 4
  NSlots = 2
  HeaderLen = 1
  FileLen = 1
  MaxReq = 2
  Kinds = {"page"}
  Faults = {}
SPECIFICATION FairSpec
CHECK_DEADLOCK FALSE
PROPERTY
  EventuallyAnswered
