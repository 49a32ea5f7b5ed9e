SPECIFICATION Spec
CONSTANTS
  Writers = {w1, w2}
  Retained = 2
  Limit = 2
  QueueCap = 1
  MaxChunks = 5
  MaxStarts = 2
  MaxFiles = 4
  MaxFaults = 1
  PageSize = 2
  MaxPages = 2
INVARIANT NewestFilesAreKept
CHECK_DEADLOCK FALSE
