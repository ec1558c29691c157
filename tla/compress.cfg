CONSTANTS
  MaxPage = 3
  Margin = 1
  Extra = 3
  MaxEdits = 2
  MaxCrashes = 2
  Faults = {"open", "init", "disk"}
  NONE = NONE
SPECIFICATION FairSpec
CHECK_DEADLOCK FALSE
INVARIANTS
  TypeOK
  AnswerWhole
  Fits
PROPERTIES
  Settled
  Ends
