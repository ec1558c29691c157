CONSTANTS
  b1 = b1
  u1 = u1
  u2 = u2
  p1 = p1
  p2 = p2
  NONE = NONE
  Browsers <- OneBrowser
  Users <- TwoUsers
  Passwords <- TwoPasswords
  Kept <- Unquoted
  Pages = {"login.html", "welcome.html", "favicon.ico", "star.png"}
  DbFaults = {"insert", "select"}
  DiskFaults = {"none", "partial"}
SPECIFICATION Spec
CHECK_DEADLOCK FALSE
INVARIANTS
  TypeOK
  MapInTable
  RedirectsEnd
  EncodedAsSaid
  Framed
PROPERTIES
  Guarded
  LoginStored
