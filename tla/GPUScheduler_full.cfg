SPECIFICATION FairSpec
CONSTANTS
  r1 = r1  r2 = r2  r3 = r3
  Procs = {r1, r2}
  Free = free
  Jobs = {"upload", "hybrid", "vector", "route"}
  Services = {"embedding", "reranker", "docparser"}
  SleepURLs = {"embedding", "reranker"}
  SleepMayFail = TRUE
  Reloads = TRUE
INVARIANT LoadedAccountedFor
INVARIANT ServedFromGPU
PROPERTY RequestsComplete
