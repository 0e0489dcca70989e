SPECIFICATION FairFeedSpec
CONSTANTS
  p1 = p1
  p2 = p2
  Pages = {p1, p2}
  MaxEpoch = 2
  MaxSlot = 0
  MaxBlocks = 3
  MaxRollbacks = 1
  EpochRowLags = FALSE
  WireCap = 1
  InboxCap = 2
  MaxRestarts = 1
INVARIANTS FeedTypeOK InboxInOrder FeedInv
PROPERTIES KeepsAnnouncements FeedCatchesUp
CHECK_DEADLOCK FALSE
