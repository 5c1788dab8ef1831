SPECIFICATION Spec
CONSTANTS
  alice = alice
  bob = bob
  c1 = c1
  c2 = c2
  c3 = c3
  None = None
  Users = {alice, bob}
  Admins = {alice}
  Slots = {c1, c2}
  Clicks = {"users", "detail", "comment", "create"}
  MaxTokens = 2
  MaxTabs = 1
SYMMETRY Symmetry
INVARIANTS
  IInv
  NothingOfEarlierSessions
  PageIsCurrentUsers
  LogoutLeavesNoCookie
CHECK_DEADLOCK FALSE
