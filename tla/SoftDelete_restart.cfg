SPECIFICATION FairSpec
CONSTANTS
  d1 = d1  d2 = d2  c1 = c1  c2 = c2  kbA = kbA  kbB = kbB
  Docs = {d1, d2}
  Clients = {c1}
  Cleaner = cleaner
  Free = free
  KBs = {kbA}
  BaseKB = kbA
  DocKB <- MCOneKB
  Ops = {"softdelete", "clean"}
  Views = {"base"}
  TTLs = {0, 2}
  DefaultTTL = 1
  Second = 1
  DurationLimit = 8
  EngineWired = FALSE
  Warm = FALSE
  Faults = {"openfail", "backendfail", "restart"}
  MaxFaults = 1
  MaxTime = 3
  MaxManagers = 1
INVARIANT NoLostDelete
INVARIANT DiskMatchesMemory
INVARIANT TypeOK
PROPERTY RequestsComplete
PROPERTY ExpiredEventuallyPurged
