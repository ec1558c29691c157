CONSTANTS
  c1 = c1
  c2 = c2
  c3 = c3
  NULL = NULL
  Clients <- TwoClients
  NFds = 4
  NSlots = 2
  HeaderLen = 1
  FileLen = 2
  MaxReq = 2
  Kinds = {"file"}
  Faults = {"pipeline", "leave"}
SPECIFICATION Spec
SYMMETRY Symmetric2
CHECK_DEADLOCK FALSE
INVARIANTS
  NoStrandedOutput
  FilesOwned
PROPERTY
  NoHangup
