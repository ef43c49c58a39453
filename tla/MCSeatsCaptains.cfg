SPECIFICATION Spec
CONSTANTS
  Regs = {r1, r2, r3, r4}
  Excs = {}
  People = {p1, p2, p3, p4}
  Events = {e1}
  Clients = {c1, c2}
  Ops = {"team", "delete", "status", "ackLock"}
  OnePerType = FALSE
  TeamSizes = {2}
  MaxSeats = 3
SYMMETRY Symmetry
INVARIANTS NeverOversold NobodyTwice
PROPERTY BooksAtomically
