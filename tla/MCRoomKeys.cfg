SPECIFICATION Spec
CONSTANTS
  Users = {a, b}
  Admins = {a}
  MaxEpoch = 3
  Keep = 1
  Budgets <- MCBudgets
  MaxEnables = 1
  NoKey = NoKey
CHECK_DEADLOCK FALSE
INVARIANT TypeOK
INVARIANT KeyAgreement
INVARIANT NobodyAhead
INVARIANT SettledClientsHaveKeys
PROPERTY ElectsOnce
