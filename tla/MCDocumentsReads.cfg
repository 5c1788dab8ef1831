SPECIFICATION Spec
CONSTANTS
  None = None
  Users = {alice, bob}
  Requests = {r1, r2}
  MaxId = 1
  MaxVersions = 1
  MaxDocuments = 1
  MaxComments = 1
  MaxCommented = 1
SYMMETRY Symmetry
INVARIANT
  ServedWhatWasReadable
