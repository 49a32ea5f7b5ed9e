SPECIFICATION Spec
CONSTANTS
  Sessions = {s1}
  Natures = {{}, {"deaf"}, {"defiant"}, {"badjob"}, {"wedged"}, {"deaf", "defiant"}, {"deaf", "badjob"}}
  MaxTerminals = 1
  CommandCap = 1
  WriterCap = 1
  MaxRequests = 4
INVARIANTS TypeOK NoShellOutlivesItsSession
PROPERTIES CloseIsServed SweepEnds
CHECK_DEADLOCK FALSE
