SPECIFICATION Spec
CONSTANTS
  PerPage = 1
  PoolCounts = {7}
  MaxChanges = 0
  MaxPage = 9
  MaxRequests = 2
INVARIANTS ShowingIsTrue
CHECK_DEADLOCK FALSE
