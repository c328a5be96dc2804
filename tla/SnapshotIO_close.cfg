SPECIFICATION Spec
CONSTANTS
  MaxVersion = 4
  MaxCrashes = 0
  maxhist = 3
INVARIANT ClosedStateSaved
CHECK_DEADLOCK FALSE
