SPECIFICATION Spec
CONSTANTS
  MaxVersion = 2
  MaxCrashes = 1
PROPERTY InterruptedSyncNoticed
CHECK_DEADLOCK FALSE
