SPECIFICATION Spec
CONSTANTS
  MaxItems = 1
  MaxTransfers = 2
  MaxConnections = 1
  MaxQueue = 1
  MaxHistory = 1
PROPERTY RetriesAreHonoured
CHECK_DEADLOCK FALSE
