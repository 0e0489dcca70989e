SPECIFICATION FairSpec
CONSTANTS
  MaxStarts = 3
INVARIANTS TypeOK OneVersionRow NoUpgradeDeadlock
PROPERTIES KeepsPromise SetupSettles
CHECK_DEADLOCK FALSE
