SPECIFICATION FairSpec
CONSTANTS
  PerPage = 2
  PoolCounts = {0, 1, 11}
  MaxChanges = 1
  MaxPage = 7
  MaxRequests = 2
INVARIANTS TypeOK NeverBeyondEnd PagerFits ShowsWhatItSays
PROPERTIES KeepsSnapshots PageArrives
CHECK_DEADLOCK FALSE
