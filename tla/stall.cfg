CONSTANTS
  c1 = c1
  c2 = c2
  c3 = c3
  NULL = NULL
  Clients <- TwoClients
  NFds = 4
  NSlots = 2
  HeaderLen = 1
  FileLen = 1
  MaxReq = 1
  Kinds = {"file"}
  Faults = {"pressure"}
SPECIFICATION Spec
SYMMETRY Symmetric2
CHECK_DEADLOCK FALSE
INVARIANTS
  NoStrandedOutput
