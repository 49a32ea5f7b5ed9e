SPECIFICATION VerifySpec
CONSTANTS
  s1 = s1
  s2 = s2
  s3 = s3
  bastion = bastion
  target = target
  k1 = k1
  k2 = k2
  NoKey = NoKey
  Sessions = {s1, s2, s3}
  Hosts = {target}
  Keys = {k1, k2}
  Route <- SharedRoutes
  MaxHops = 1
  KnownAtStart <- NothingKnown
  MaxTerminals = 2
  Capacity <- OneSlot
  MaxAuthPrompts = 0
  StorageFaults = FALSE
INVARIANT OneKeyPerHost
SYMMETRY SessionSymmetry
CHECK_DEADLOCK FALSE
