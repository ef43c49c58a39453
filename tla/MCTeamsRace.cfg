SPECIFICATION Spec
CONSTANTS
  r1 = r1
  r2 = r2
  r3 = r3
  r4 = r4
  A = A
  B = B
  Regs = {r1, r2}
  RoleOf <- MixedRole
  DomainOf <- MixedDomain
  NoDomain = NoDomain
  Handlers = {h1, h2}
  Ops = {"checkin", "register", "move", "swap", "unassign", "rebalance", "lock", "unlock", "config"}
  Configs <- MixedConfigs
  MaxTeams = 2
SYMMETRY Symmetry
INVARIANT TypeOK
PROPERTIES OverfilledByOverlapOnly SealedRosterKept LockedRosterKept CheckInsKeepTheCap
