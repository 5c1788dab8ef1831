SPECIFICATION Spec
CONSTANTS
  None = None
  Users = {alice, bob}
  Requests = {r1, r2}
  MaxId = 2
  MaxVersions = 1
  MaxDocuments = 1
  MaxComments = 1
  MaxCommented = 2
SYMMETRY Symmetry
CONSTRAINTS RequestsMeetOverOne TextsBeforeComments
INVARIANTS
  IInv
  NoOrphans
  QuotasHold
  ServedOnlyWithAccess
PROPERTIES
  CommentsAuthorised
  OwnersDecide
  ImplementsStore
