SPECIFICATION FairSpec
CONSTANTS
  jwt = jwt
  data = data
  p1 = p1
  p2 = p2
  s1 = s1
  s2 = s2
  Names = {jwt, data}
  Procs = {p1, p2}
  Scripts = {s1, s2}
  HandSet = {jwt}
  None = None
  Broken = Broken
  MaxDraws = 6
  MaxKills = 2
  MaxFaults = 1
INVARIANTS
  IInv
  OneKeySet
  StoreIsWhole
PROPERTIES
  StoreIsKept
  EnvFileIsKept
  StartsEnd
CHECK_DEADLOCK FALSE
