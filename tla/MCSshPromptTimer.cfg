SPECIFICATION Spec
CONSTANTS
  s1 = s1
  s2 = s2
  s3 = s3
  bastion = bastion
  target = target
  k1 = k1
  k2 = k2
  NoKey = NoKey
  Sessions = {s1}
  Hosts = {bastion, target}
  Keys = {k1}
  Route <- BastionRoute
  MaxHops = 2
  KnownAtStart <- NothingKnown
  MaxTerminals = 1
  Capacity <- OneSlot
  MaxAuthPrompts = 1
  StorageFaults = TRUE

PROPERTY HostKeyPromptOutlivesSetup
CHECK_DEADLOCK FALSE
