SPECIFICATION HubSpec
CONSTANTS
  Clusters = {"prod", "dev"}
  NoId = NoId
  Tags = {"t1", "t2"}
  Revisions = {0, 1, 2, 3}
  MaxGraphs = 2
  NoEnvelope = NoEnvelope
  NoGraph = NoGraph
INVARIANTS HubTypeOK HistoryFollowsLatest
PROPERTIES RowsNeverGoBack FleetCountsRows
