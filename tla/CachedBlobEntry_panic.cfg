SPECIFICATION Spec
CONSTANTS
  MaxVersion = 2
  MaxCrashes = 0
INVARIANT NoPanic
CHECK_DEADLOCK FALSE
