SPECIFICATION Spec
CONSTANTS
  MaxConnections = 3
  MaxBeats = 3
  MaxRetries = 1
  CommandCap = 1
INVARIANTS TypeOK HeartbeatsAddUp
PROPERTY SoakEnds
CHECK_DEADLOCK FALSE
