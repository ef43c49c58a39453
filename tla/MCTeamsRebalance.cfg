SPECIFICATION Spec
CONSTANTS
  r1 = r1
  r2 = r2
  r3 = r3
  r4 = r4
  A = A
  B = B
  Regs = {r1, r2, r3, r4}
  RoleOf <- DevRole
  DomainOf <- DevDomain
  NoDomain = NoDomain
  Handlers = {h1}
  Ops = {"checkin", "move", "rebalance"}
  Configs <- DevConfigs
  MaxTeams = 2
PROPERTY TradesKeepSizes
CHECK_DEADLOCK FALSE
