SPECIFICATION Spec
CONSTANTS
  d1 = d1  d2 = d2  d3 = d3  d4 = d4  r1 = r1  r2 = r2  base = base  kbA = kbA  kbB = kbB
  Docs = {d1, d2, d3, d4}
  KBs = {base, kbA, kbB}
  Base = base
  Procs = {r1}
  Free = free
  Deployments <- MCTwoKBs
  MaxFaults = 0
INVARIANT ScopedWrites
CHECK_DEADLOCK FALSE
