SPECIFICATION Spec
CONSTANTS
  i1 = i1
  i2 = i2
  i3 = i3
  i4 = i4
  d1 = d1
  d2 = d2
  Ids <- MCIds
  None = None
  M = 1
  EfConstruction = 4
  EfSearch = 3
  TopLevel = 1
  Score <- MCScore
  Docs <- MCDocs
  ChunksOf <- MCChunksOf
  Clients = {c1, c2}
  Free = Free
  Models = {2, 3}
  Served = 2
  Configured = 0
  Overlap <- UploadsWithRebuilds
  Gone = Gone
  Missing = Missing
  Torn = Torn
  Faults = {"embed", "save", "restart"}
  MaxFaults = 0
  MaxIndexes = 3
  MaxSwitches = 1
SYMMETRY ClientsAlike
INVARIANT MirrorsChunks
