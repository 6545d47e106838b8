SPECIFICATION Spec
CONSTANTS
  r1 = r1  r2 = r2  r3 = r3
  Procs = {r1, r2}
  Free = free
  Jobs = {"upload", "bm25"}
  Services = {"embedding", "reranker", "docparser"}
  SleepURLs = {"embedding", "reranker", "docparser"}
  SleepMayFail = FALSE
  Reloads = FALSE
SYMMETRY MCSymmetry
INVARIANT OneModelLoaded
