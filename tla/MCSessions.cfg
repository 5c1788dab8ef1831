SPECIFICATION Spec
CONSTANTS
  alice = alice
  bob = bob
  None = None
  Names = {alice, bob}
  Jtis = {j1, j2, j3}
  Rids = {t1}
  Requests = {r1, r2}
  MaxUsers = 1
  Migrated <- MCMigrated
  Seeded <- MCSeeded
  JwtLife = 1
  ResetLife = 1
  MaxClock = 2
  MaxPasswords = 3
  MaxDraws = 1
SYMMETRY Symmetry
INVARIANTS
  IInv
  SessionRestsOnCurrentPassword
  ResetTokensDieWithPassword
  RefreshOnceWhileUnexpired
PROPERTIES
  PasswordChangeAuthorised
