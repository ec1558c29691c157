CONSTANTS
  Payload <- ThreeBytes
  Garbage = "garbage"
  NHeaders = 3
  Naming = {"head", "part"}
  MaxRead = 9
  BufLimit = 4
  SizeMod = 256
SPECIFICATION Spec
CHECK_DEADLOCK FALSE
INVARIANTS
  TypeOK
  Conserved
  StoredPart
