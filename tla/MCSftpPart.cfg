SPECIFICATION Spec
CONSTANTS
  Transfers = {t1}
  Sessions = {s1}
  Absent = Absent
  Old = Old
  Other = Other
  MaxFaults = 1
INVARIANT FailureRemovesPart
CHECK_DEADLOCK FALSE
