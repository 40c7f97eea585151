SPECIFICATION Spec
CONSTANTS
  p = p  q = q  t = t  a = a
  Callers = {p, q}
  Tasks = {t}
  Procs = {p, q, t}
  Digests = {a}
  Nobody = Nobody
  NoBlob = NoBlob
  Limits <- OneOrTwo
  MaxCompactions = 1
  MaxFaults = 0
INVARIANTS
  BlobsPresent
SYMMETRY Interchangeable
CHECK_DEADLOCK FALSE
