SPECIFICATION ConnectionSpec
CONSTANTS
  Instances = {"i", "j"}
  Browsers = {"a"}
  ConnBudgets <- MCOneCut
CHECK_DEADLOCK FALSE
INVARIANT LiveUsersStay
