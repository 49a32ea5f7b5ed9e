SPECIFICATION Spec
CONSTANTS
  t1 = t1
  t2 = t2
  Tabs = {t1, t2}
  MaxConnections = 2
  MaxPrompts = 2
  MaxCalls = 2
INVARIANT AwaitedPromptIsKept
SYMMETRY TabSymmetry
CHECK_DEADLOCK FALSE
