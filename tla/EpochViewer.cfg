SPECIFICATION FairSpec
CONSTANTS
  MaxEpoch = 1
  MaxSlot = 1
  MaxBlocks = 2
  MaxRollbacks = 1
  EpochRowLags = TRUE
  HalfHours = 2
  CellTime = 2
  EpochDays = 1
  SlotTime = 2
  ClockChange = 3
INVARIANTS TypeOK MissingStatisticIsDue NotFoundIsFinal DataOfExistingEpoch ViewerInv LinksLead HeatmapCountsBlocks
PROPERTY PartsSettle
CHECK_DEADLOCK FALSE
