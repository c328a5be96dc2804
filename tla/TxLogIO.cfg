SPECIFICATION FairSpec
CONSTANTS
  MaxTxID = 4
  ringbufLen = 2
  maxWriteEntriesPerTx = 1
PROPERTIES ImplementsTxLog EventuallyStored
INVARIANTS TypeOK NothingLost KeyIsLargest QueryComplete DurablePrefix
CHECK_DEADLOCK FALSE
