SPECIFICATION Spec
CONSTANTS
  Transfers = {t1, t2}
  Sessions = {s1, s2}
  Absent = Absent
  Old = Old
  Other = Other
  MaxFaults = 2
INVARIANT TypeOK TargetIsWhole LeavesNothingBehind
PROPERTY OldFileIsKept UnconfirmedReplacesNothing
CHECK_DEADLOCK FALSE
