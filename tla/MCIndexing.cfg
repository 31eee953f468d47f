SPECIFICATION Spec
CONSTANTS
  r1 = r1
  r2 = r2
  j1 = j1
  j2 = j2
  d1 = d1
  f1 = f1
  Repos = {r1}
  Jobs = {j1, j2}
  Deletes = {d1}
  Files = {f1}
  JobRepo <- SameRepo
  DelRepo <- DeleteFirst
  Faults = {"error", "lost"}
  BatchSize = 2
  MaxChunks = 3
  MaxRev = 0
  MaxCrashes = 1
SYMMETRY Symmetry
INVARIANTS
  VectorsAccounted
  ReadyMeansStored
  StatsOfOneJob
  EventsTruthful
  OutcomeAnnounced
  StuckOnlyByCrash
  ClonesReclaimed
PROPERTIES
  NeverResurrected
  ImplementsContract
CHECK_DEADLOCK FALSE
