SPECIFICATION PaidSpec
CONSTANTS
  MainAccounts <- AwayAndBack
  SpentAccounts = {2}
  PaidRequests = {1, 2}
INVARIANTS
  PaidOnlyWhenMainIsSpent
CHECK_DEADLOCK FALSE
