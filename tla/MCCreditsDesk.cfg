SPECIFICATION Spec
CONSTANTS
  Regs = {r1}
  Senders = {s1}
  Clients = {c1, c2}
  Ops = {"scan", "qr", "confirm", "unconfirm", "redeem", "send", "bulk", "checkin", "uncheck", "restore", "delete", "enabled", "claimUrl"}
  MaxAttempts = 1
  Batch = 1
  SendTimeout = 15
  StaleAfter = 120
  MaxGen = 2
  MaxFaults = 0
  MaxReclaims = 0
SYMMETRY Symmetry
PROPERTY FirstRedemptionKept
