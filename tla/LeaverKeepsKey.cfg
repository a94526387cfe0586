SPECIFICATION Spec
CONSTANTS
  Users = {a, b}
  Admins = {a}
  MaxEpoch = 3
  Keep = 1
  Budgets <- LeaverBudgets
  MaxEnables = 1
  NoKey = NoKey
CHECK_DEADLOCK FALSE
INVARIANT LeaverLosesKey
