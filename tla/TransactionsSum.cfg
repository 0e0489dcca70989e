SPECIFICATION Spec
CONSTANTS
  MaxTxs = 2
  MaxOuts = 2
  MaxAmount = 1
  Labels = {0, 1}
  Accounts = {a}
  MaxRollbacks = 1
  a = a
INVARIANT OutputsAddUp
CHECK_DEADLOCK FALSE
