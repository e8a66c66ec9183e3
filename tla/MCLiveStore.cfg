SPECIFICATION Spec
CONSTANTS
  r1 = r1
  r2 = r2
  Sources = {"kubernetes", "eks"}
  Mode <- MCMode
  Resources = {r1, r2}
  Inputs <- MCInputs
  MaxEvents = 2
  MaxGraphs = 2
  SeqLimit = 3
  MaxRevision = 3
INVARIANTS TypeOK StatusTellsData GraphHistory EndpointsAgree EventLog
PROPERTIES RevisionCountsUpdates ErrorsPersist RetainedGraphsFixed KeepsPromise
