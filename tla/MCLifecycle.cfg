SPECIFICATION Spec
CONSTANTS
  Regs = {r1}
  Handlers = {h1, h2}
  Ops = {"status", "ack", "expire", "scan", "toggle", "touch", "delete", "restore", "self", "lock", "unlock", "deadline"}
  Asked = {"shortlisted", "confirmed", "rejected"}
  Born <- BornShortlisted
SYMMETRY Symmetry
INVARIANT TypeOK
PROPERTIES StatusByRules ExpiryIsFinal
