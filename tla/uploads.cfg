CONSTANTS
  u1 = u1
  u2 = u2
  NULL = NULL
  Conns <- TwoConns
  Bytes <- SomeBytes
  Names <- SomeNames
  MaxName = 2
  Zero <- NoByte
  Readers = {1}
  MaxRestarts = 1
SPECIFICATION Spec
CHECK_DEADLOCK FALSE
INVARIANTS
  TypeOK
  AckedWhole
  DownloadOf
PROPERTY
  ImplementsFileStore
