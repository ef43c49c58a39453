SPECIFICATION FairSpec
CONSTANTS
  Regs = {r1}
  Senders = {s1, s2}
  Clients = {c1}
  Ops = {"scan", "send", "claimUrl", "delete"}
  MaxAttempts = 2
  Batch = 1
  SendTimeout = 15
  StaleAfter = 120
  MaxGen = 2
  MaxFaults = 2
  MaxReclaims = 2
INVARIANT ExclusiveClaim
PROPERTY QueuedIsSettled
