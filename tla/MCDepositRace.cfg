SPECIFICATION Spec
CONSTANTS
  Members = {m1}
  Refs = {r1}
  Handlers = {h1, h2}
  Ops = {"request", "submit", "confirm", "reject", "lock", "status"}
  Asked = {"confirmed"}
  Window = 1
  MaxTime = 2
SYMMETRY Symmetry
INVARIANTS TypeOK ClockNeedsMail ReviewedInTime
PROPERTY LostOnlyToStaleSave
