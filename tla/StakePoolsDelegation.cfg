SPECIFICATION Spec
CONSTANTS
  NumPools = 2
  MaxEpoch = 2
  MaxCerts = 2
  MaxRollbacks = 0
INVARIANT DelegationOfEpoch
CHECK_DEADLOCK FALSE
