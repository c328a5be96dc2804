SPECIFICATION Spec
CONSTANTS
  MaxVersion = 4
  MaxCrashes = 0
  maxhist = 3
INVARIANT OlderSnapshotsServe
CHECK_DEADLOCK FALSE
