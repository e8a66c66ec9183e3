SPECIFICATION RemoteSpec
CONSTANTS
  Clusters = {"given", "arn", "server", "unknown"}
  NoId = NoId
  Tags = {1, 2}
  Revisions = {0, 1, 2, 3}
  MaxGraphs = 2
  NoEnvelope = NoEnvelope
  NoGraph = NoGraph
  ExplicitId = TRUE
  MaxRevision = 3
  MaxHooks = 1
  MaxWire = 2
  MaxStarts = 2
  MaxHubStarts = 1
INVARIANTS AcknowledgedIsShown
CHECK_DEADLOCK FALSE
