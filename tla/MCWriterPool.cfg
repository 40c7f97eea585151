SPECIFICATION Spec
CONSTANTS
  s1 = s1  s2 = s2  s3 = s3
  r1 = r1  r2 = r2  r3 = r3  r4 = r4  r5 = r5
  Slots = {s1, s2, s3}
  Requests = {r1, r2, r3}
  Documents = {1, 2}
  DocumentsOf <- CrossedDocuments
  Serials = {}
  EffectiveWriters = 2
  QueueLimit = 1
  MaxCloses = 1
  NoRequest = NoRequest
INVARIANTS
  DocumentExclusion
  WriteOrder
  AnsweredIsOver
SYMMETRY Interchangeable
CHECK_DEADLOCK FALSE
