SPECIFICATION Spec
CONSTANTS
  MaxVersion = 2
  MaxCrashes = 0
PROPERTY RemovedOnlyIfStored
CHECK_DEADLOCK FALSE
