SPECIFICATION Spec
CONSTANTS
  NumPools = 2
  MaxEpoch = 2
  MaxCerts = 2
  MaxRollbacks = 1
INVARIANTS TypeOK AnswersAsOfEpoch FoundStaysFound
CHECK_DEADLOCK FALSE
