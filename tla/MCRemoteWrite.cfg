SPECIFICATION FairRemoteSpec
CONSTANTS
  Clusters = {"given", "arn", "server", "unknown"}
  NoId = NoId
  Tags = {1, 2}
  Revisions = {0, 1, 2, 3}
  MaxGraphs = 2
  NoEnvelope = NoEnvelope
  NoGraph = NoGraph
  ExplicitId = FALSE
  MaxRevision = 2
  MaxHooks = 1
  MaxWire = 2
  MaxStarts = 2
  MaxHubStarts = 2
INVARIANTS RemoteTypeOK AcknowledgedIsCovered NewestRetained FallbackIsSuperseded
PROPERTY HubCatchesUp
CHECK_DEADLOCK FALSE
