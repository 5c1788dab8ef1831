\* Two accounts, registration, and a reseed that gives ids to other accounts.
SPECIFICATION Spec
CONSTANTS
  alice = alice
  bob = bob
  None = None
  Names = {alice, bob}
  Jtis = {j1, j2, j3}
  Rids = {}
  Requests = {r1, r2}
  MaxUsers = 2
  Migrated <- MCNobody
  Seeded <- MCSeeded
  JwtLife = 1
  ResetLife = 1
  MaxClock = 2
  MaxPasswords = 4
  MaxDraws = 3
SYMMETRY Symmetry
PROPERTIES
  DeadTokensStayDead
  ImplementsPolicy
