CONSTANTS
  Messages <- AllMessages
  Streams <- AllStreams
  Cuts = 1
  Size = 20
SPECIFICATION Spec
CHECK_DEADLOCK FALSE
INVARIANTS
  TypeOK
  Lowered
  UpperEscaped
  ParsedAsSent
  LineOwn
  HeadersOwn
  
