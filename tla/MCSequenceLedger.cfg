SPECIFICATION FairSpec
CONSTANTS
  Writers = {w1, w2}
  Block = 1
  MaxCount = 2
  MaxSeq = 2
  MaxVersion = 3
  MaxRestarts = 2
  Indexed = TRUE
INVARIANTS
  ReservedThrough
  NumbersApart
  AnsweredIsStored
PROPERTIES
  FeedIsStable
  StoredBecomesVisible
  WaitersReleased
CHECK_DEADLOCK FALSE
