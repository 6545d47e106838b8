SPECIFICATION Spec
CONSTANTS
  d1 = d1  d2 = d2  c1 = c1  c2 = c2  kbA = kbA  kbB = kbB
  Docs = {d1}
  Clients = {c1, c2}
  Cleaner = cleaner
  Free = free
  KBs = {kbA}
  BaseKB = kbA
  DocKB <- MCOneKB
  Ops = {"softdelete", "restore", "harddelete", "clean", "search"}
  Views = {"copy"}
  TTLs = {0, 2}
  DefaultTTL = 1
  Second = 2
  DurationLimit = 8
  EngineWired = FALSE
  Warm = TRUE
  Faults = {"openfail", "tear", "backendfail"}
  MaxFaults = 2
  MaxTime = 6
  MaxManagers = 1
SYMMETRY MCSymmetry
INVARIANT NoPhantomDelete
PROPERTY TTLRespected
PROPERTY HiddenFromSearch
