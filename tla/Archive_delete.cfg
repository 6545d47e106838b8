SPECIFICATION ArchiveSpec
CONSTANTS
  d1 = d1  d2 = d2  r1 = r1  base = base  kbA = kbA  kbB = kbB
  Docs = {d1}
  KBs = {base, kbA, kbB}
  Base = base
  Procs = {r1}
  Free = free
  Deployments <- MCVectors
  MaxFaults = 0
  Orders <- MCDeletion
  MaxOrders = 1
INVARIANT DeletedKBIsGone
CHECK_DEADLOCK FALSE
