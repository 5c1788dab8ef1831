SPECIFICATION Spec
CONSTANTS
  alice = alice
  bob = bob
  c1 = c1
  c2 = c2
  c3 = c3
  None = None
  Users = {alice, bob}
  Admins = {alice}
  Slots = {c1, c2}
  Clicks = {"users", "detail", "comment", "comments"}
  MaxTokens = 2
  MaxTabs = 0
SYMMETRY Symmetry
INVARIANTS
  LateAnswersAreDiscarded
CHECK_DEADLOCK FALSE
