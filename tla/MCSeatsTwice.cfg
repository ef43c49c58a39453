SPECIFICATION Spec
CONSTANTS
  Regs = {r1, r2}
  Excs = {}
  People = {p1}
  Events = {e1}
  Clients = {c1, c2}
  Ops = {"register"}
  OnePerType = FALSE
  TeamSizes = {2}
  MaxSeats = 2
SYMMETRY Symmetry
INVARIANT NobodyTwice
