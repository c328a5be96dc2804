SPECIFICATION FairSpec
CONSTANTS
  MaxVersion = 2
  MaxCrashes = 1
INVARIANTS TypeOK CleanIsStored NothingLost KnownVersionStored NoLostWakeup
PROPERTY EventuallyStored
CONSTRAINT OneFault
CHECK_DEADLOCK FALSE
