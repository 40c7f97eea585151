SPECIFICATION Spec
CONSTANTS
  Writers = {w1, w2}
  Block = 1
  MaxCount = 2
  MaxSeq = 2
  MaxVersion = 4
  MaxRestarts = 0
  Indexed = TRUE
INVARIANTS
  NoSequenceReuse
CHECK_DEADLOCK FALSE
