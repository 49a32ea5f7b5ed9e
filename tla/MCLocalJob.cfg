SPECIFICATION Spec
CONSTANTS
  Sessions = {s1}
  Natures = {{}, {"badjob"}, {"defiant"}}
  MaxTerminals = 1
  CommandCap = 1
  WriterCap = 1
  MaxRequests = 0
PROPERTY HangupLeavesNoJob
CHECK_DEADLOCK FALSE
