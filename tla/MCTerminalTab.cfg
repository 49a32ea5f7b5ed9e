SPECIFICATION Spec
CONSTANTS
  MaxConnections = 3
  MaxInput = 2
  Backlog = 2
  MaxRetries = 1
INVARIANT TypeOK InputReachesItsShell NoOrphanSession RetriesAreBounded RetryOnlyAfterAShell
CHECK_DEADLOCK FALSE
