SPECIFICATION FairWatchSpec
CONSTANTS
  Core = {"Pods"}
  Dynamic = {"Gateways"}
  MaxChanges = 2
  MaxFailures = 1
CHECK_DEADLOCK FALSE
INVARIANTS OnlyListedIsShown NothingForgotten
PROPERTIES ReadyIsCurrent
