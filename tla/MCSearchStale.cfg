SPECIFICATION Spec
CHECK_DEADLOCK FALSE
CONSTANTS
  i1 = i1  i2 = i2
  d1 = d1  d2 = d2
  Docs = {d1}
  Found <- AllPlain
  IndexOrder <- OneIndex
  Writers = {w1}
  Readers = {r1}
  Admin = Admin
  Gone = {}
  None = None
  MaxCommits = 2
  MaxFaults = 1
INVARIANTS
  SearchSeesCompleted
