SPECIFICATION Spec
CONSTANTS
  t1 = t1
  t2 = t2
  Tabs = {t1, t2}
  MaxConnections = 2
  MaxPrompts = 3
  MaxCalls = 2
INVARIANT TypeOK OneDialogAndNoneForgotten ActionablePromptsAreCurrent
PROPERTY WarningsAreSeen
CHECK_DEADLOCK FALSE
