SPECIFICATION Spec
CONSTANTS
  Regs = {r1, r2, r3}
  Excs = {x1}
  People = {p1, p2}
  Events = {e1}
  Clients = {c1, c2, c3}
  Ops = {"register", "team", "delete", "restore", "submit", "approve"}
  OnePerType = FALSE
  TeamSizes = {2}
  MaxSeats = 2
SYMMETRY Symmetry
INVARIANT OversoldByRaceOnly
PROPERTY TeamSeesEveryInsert
