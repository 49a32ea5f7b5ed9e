SPECIFICATION Spec
CONSTANTS
  MaxItems = 2
  MaxTransfers = 2
  MaxConnections = 2
  MaxQueue = 2
  MaxHistory = 1
INVARIANT TypeOK OneTransferAtATime NoneWaitsInVain StartsWhereQueued StatusIsTrue
PROPERTY QueueDrains
CHECK_DEADLOCK FALSE
