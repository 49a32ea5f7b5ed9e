SPECIFICATION Spec
CONSTANTS
  Writers = {w1}
  Retained = 2
  Limit = 2
  QueueCap = 1
  MaxChunks = 7
  MaxStarts = 2
  MaxFiles = 4
  MaxFaults = 1
  PageSize = 2
  MaxPages = 2
INVARIANTS TypeOK NewestFilesAreKept LinesStampedOnce FilesAreBounded SearchReadsEveryLineOnce
CHECK_DEADLOCK FALSE
