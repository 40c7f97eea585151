SPECIFICATION FairSpec
CHECK_DEADLOCK FALSE
CONSTANTS
  i1 = i1  i2 = i2
  d1 = d1  d2 = d2
  Docs = {d1, d2}
  Found <- OnePlain
  IndexOrder <- TwoIndexes
  Writers = {w1}
  Readers = {r1}
  Admin = Admin
  Gone = {3}
  None = None
  MaxCommits = 3
  MaxFaults = 1
INVARIANTS
  TypeOK
  SearchSeesStaged
PROPERTIES
  StagedIsPublished
