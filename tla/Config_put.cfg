SPECIFICATION Spec
CONSTANTS
  Admins = {a1, a2}
  Requests <- MCRequests
  Environments <- MCEnvironments
  MaxPuts = 3
  MaxRestarts = 2
INVARIANT SavedAndInForce
INVARIANT ParamsUsable
CHECK_DEADLOCK FALSE
