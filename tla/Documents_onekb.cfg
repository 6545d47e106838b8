SPECIFICATION Spec
CONSTANTS
  d1 = d1  d2 = d2  d3 = d3  d4 = d4  r1 = r1  r2 = r2  base = base  kbA = kbA  kbB = kbB
  Docs = {d1, d2}
  KBs = {base, kbA}
  Base = base
  Procs = {r1, r2}
  Free = free
  Deployments <- MCOneKB
  MaxFaults = 1
INVARIANT ScopedWrites
INVARIANT ListedIsReadable
INVARIANT FoundWhenUploaded
INVARIANT RemovedIsGone
CHECK_DEADLOCK FALSE
