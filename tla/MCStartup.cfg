SPECIFICATION FairSpec
CONSTANTS
  None = None
  Service = Service
  Seed = Seed
  Commands = {c1}
  Pairs = {q1}
  Attachments = {a1, a2}
  Lost = {a2}
  MaxShares = 3
  MaxOld = 2
  MaxStarts = 1
  MaxSeeds = 1
  MaxKills = 1
INVARIANTS
  IInv
  ServesOnWholeSchema
  PermissionsAreTheLatest
PROPERTIES
  UndisturbedStartServes
