SPECIFICATION FairSpec
CONSTANTS
  r1 = r1
  r2 = r2
  j1 = j1
  j2 = j2
  d1 = d1
  f1 = f1
  Repos = {r1, r2}
  Jobs = {j1, j2}
  Deletes = {d1}
  Files = {f1}
  JobRepo <- SameRepo
  DelRepo <- DeleteOther
  Faults = {}
  BatchSize = 1
  MaxChunks = 1
  MaxRev = 1
  MaxCrashes = 0
INVARIANTS
  VectorsAccounted
  HashesFromClones
PROPERTY
  JobsAndDeletesEnd
CHECK_DEADLOCK FALSE
