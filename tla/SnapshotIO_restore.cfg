SPECIFICATION Spec
CONSTANTS
  MaxVersion = 4
  MaxCrashes = 2
  maxhist = 2
INVARIANTS TypeOK Recoverable CloseKeepsAll
CONSTRAINT Faultless
CHECK_DEADLOCK FALSE
