SPECIFICATION FairSpec
CONSTANTS
  s1 = s1  s2 = s2  s3 = s3
  r1 = r1  r2 = r2  r3 = r3  r4 = r4  r5 = r5
  Slots = {s1, s2}
  Requests = {r1, r2}
  Documents = {1, 2}
  DocumentsOf <- SharedDocuments
  Serials = {c1}
  EffectiveWriters = 2
  QueueLimit = 1
  MaxCloses = 0
  NoRequest = NoRequest
INVARIANTS
  BarrierHolds
  FencedCachesFresh
PROPERTIES
  QueueDrains
  BarrierGranted
CHECK_DEADLOCK FALSE
