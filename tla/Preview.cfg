SPECIFICATION FairSpec
CONSTANTS
  p1 = p1
  p2 = p2
  Pages = {p1}
  MaxEpoch = 1
  MaxSlot = 1
  MaxBlocks = 3
  MaxRollbacks = 0
  EpochRowLags = FALSE
  WireCap = 1
  InboxCap = 2
  MaxRestarts = 0
  MaxFetches = 2
INVARIANTS TypeOK ErrorHidesPreview AnswersItsAnnouncement NeverGoesBack
PROPERTY SlotSelfHeals
CHECK_DEADLOCK FALSE
