SPECIFICATION FollowedSpec
CONSTANTS
  Regs = {r1, r2}
  Excs = {x1}
  People = {p1}
  Events = {e1, e2}
  Clients = {c1, c2}
  Ops = {"register", "submit", "approve", "delete", "reject", "restore", "capacity", "ackLock", "team"}
  OnePerType = TRUE
  TeamSizes = {1}
  MaxSeats = 2
SYMMETRY Symmetry
INVARIANT TypeOK
PROPERTIES
  OversoldWhenOvertakenOnly SecondSeatWhenOvertakenOnly GrantedTwiceWhenOvertakenOnly
