SPECIFICATION FairSpec
CONSTANTS
  r1 = r1
  Sources = {"kubernetes", "eks"}
  Mode <- MCMode
  Resources = {r1}
  Inputs <- MCInputs
  MaxEvents = 1
  MaxGraphs = 1
  SeqLimit = 1
  MaxRevision = 2
  Rebuilders = {"loop"}
  Reflectors = {"reflector"}
INVARIANTS RefreshingIsHonest NewestIsHandedOver
PROPERTIES RunKeepsPromise EveryUpdateReachesTheHook PollingGoesOn ShutdownCompletes
CHECK_DEADLOCK FALSE
