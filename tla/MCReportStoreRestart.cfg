SPECIFICATION ReportSpec
CONSTANTS
  GraphClusters = {"c"}
  NodeIds = {"a", "b"}
  EdgeIds = {"e"}
  Attributes = {"x", "y"}
  Contents <- MCContents
  MaxGraphs = 2
  MaxPublications = 3
  MaxStarts = 2
  MaxEvents = 1
  MaxFailures = 1
INVARIANT PageIsOnePublication
