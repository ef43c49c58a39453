SPECIFICATION Spec
CONSTANTS
  a1 = a1
  a2 = a2
  b1 = b1
  b2 = b2
  i1 = i1
  i2 = i2
  s1 = s1
  r1 = r1
  r2 = r2
  g1 = g1
  p1 = p1
  p2 = p2
  Accounts = {a1, a2}
  Browsers = {b1, b2}
  SignedIn <- Tokens
  Servers = {s1}
  Renders = {r1, r2}
  MaxEdits = 2
  Guests = {g1}
  Instances = {i1, i2}
  RemindFrom = 1
  Start = 2
  MaxMails = 2
  MaxReminderCrashes = 1
  MaxSaves = 1
  MaxResent = 1
  Invited = {g1}
  Rows = {1, 2, 3}
  Events = {"e1", "e2"}
  EventOfRow <- EventOf
  TeamOfRow <- TeamOf
  Filters = {"default", "with_deleted"}
  Statuses = {"pending"}
  PageLength = 2
  MaxRequests = 1
  People = {p1, p2}
  Acknowledged = {p1}
  Sealed = {p2}
  MaxOverlap = 2
  MaxCalls = 1
  Outcomes = {"done", "refused", "lost"}
  Offers <- Offered
  Emails = {"m1", "m2", "m3"}
  Skills = {"s1", "s2", "s3"}
  MaxSkills = 2
  MinSize = 2
  UnsetSize = 3
  TypedCards <- Typed
SYMMETRY Symmetry
VIEW Moving
INVARIANT TypeOK
INVARIANT ConfirmedEditsShow
INVARIANT RemindedOnce
INVARIANT FailedMailsCanBeRetried
INVARIANT SelectionWasListed
INVARIANT StepsToNeighbour
INVARIANT LetThroughIsTaken
INVARIANT ErrorsAtTheirMember
INVARIANT UncheckedByMishapOnly
PROPERTY LastSuperAdminLostByOverlapOnly
