SPECIFICATION Spec
CONSTANTS
  KBs = {Flat, ship}
  Flat = Flat
  Docs = {d1}
  Filters <- AllOrOther
  Clients = {c1, c2}
  Deployments <- MCDeployments
  DocKinds = {"chunk"}
  Expiring = {"query"}
  MaxRevision = 2
  Faults = {"get", "set", "evict", "restart"}
  MaxFaults = 2
  Nothing = Nothing
  ship = ship
INVARIANT EvictedOrCurrent
PROPERTY StaleSearchesExpire
