SPECIFICATION Spec
CONSTANTS
  Regs = {r1}
  Senders = {s1, s2}
  Clients = {c1}
  Ops = {"scan", "send", "selfResend", "delete"}
  MaxAttempts = 2
  Batch = 2
  SendTimeout = 1
  StaleAfter = 2
  MaxGen = 2
  MaxFaults = 1
  MaxReclaims = 1
SYMMETRY Symmetry
INVARIANTS TypeOK SentWasAccepted QueuedIsFresh OneMailPerGeneration AttemptBudget
PROPERTY KeepsPromise
