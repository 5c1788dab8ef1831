SPECIFICATION Spec
CONSTANTS
  alice = alice
  bob = bob
  d1 = d1
  d2 = d2
  Cron = Cron
  None = None
  Names = {n1, n2}
  Docs = {d1, d2}
  Users = {alice, bob}
  Workers = {w1, w2}
  Owner <- MCOwner
  SeedDocs = {}
  Sizes = {1, 2}
  MaxAttachments = 2
  MaxBytes = 3
  MaxStops = 1
  MaxFaults = 1
  MaxSeeds = 1
SYMMETRY Symmetry
INVARIANTS
  IInv
  OrphansAreExplained
  QuotaHolds
PROPERTIES
  UploadsAuthorised
  ImplementsStore
