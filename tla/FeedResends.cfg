SPECIFICATION FeedSpec
CONSTANTS
  p1 = p1
  p2 = p2
  Pages = {p1}
  MaxEpoch = 0
  MaxSlot = 1
  MaxBlocks = 2
  MaxRollbacks = 0
  EpochRowLags = FALSE
  WireCap = 2
  InboxCap = 1
  MaxRestarts = 0
INVARIANT SendsOnlyNewer
CHECK_DEADLOCK FALSE
