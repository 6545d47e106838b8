SPECIFICATION ArchiveSpec
CONSTANTS
  d1 = d1  d2 = d2  r1 = r1  base = base  kbA = kbA  kbB = kbB
  Docs = {d1, d2}
  KBs = {base, kbA, kbB}
  Base = base
  Procs = {r1}
  Free = free
  Deployments <- MCDeployments
  MaxFaults = 1
  Orders <- MCOrders
  MaxOrders = 2
SYMMETRY MCSymmetry
INVARIANT RestoredIsWhole
INVARIANT IndexedIsReadable
INVARIANT DeletedRowsAreGone
CHECK_DEADLOCK FALSE
