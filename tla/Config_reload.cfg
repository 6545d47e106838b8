SPECIFICATION Spec
CONSTANTS
  Admins = {a1, a2}
  Requests <- MCRequests
  Environments <- MCEnvironments
  MaxPuts = 3
  MaxRestarts = 2
INVARIANT ReloadReachesSearches
CHECK_DEADLOCK FALSE
