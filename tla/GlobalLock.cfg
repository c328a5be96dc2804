SPECIFICATION FairSpec
CONSTANTS
  l1 = l1  l2 = l2  l3 = l3
  h1 = h1  h2 = h2  h3 = h3
  Locker <- DistinctLockers
  Host <- DistinctHosts
  HostName <- DistinctNames
  Operators = {l1}
  numRetries = 2
  NoEntry = NoEntry
INVARIANTS TypeOK HolderOwnsEntry MutualExclusion
PROPERTIES UnlockSparesOthers CallsReturn
