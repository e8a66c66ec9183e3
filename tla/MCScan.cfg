SPECIFICATION Spec
CONSTANTS
    ContextNamespace = "shop"
    Limits <- MCLimits
    InitialWorld <- MCWorld
    Successors <- MCSuccessors
    MaxChanges = 1
    MaxFailures = 1
CHECK_DEADLOCK FALSE
INVARIANTS GraphTellsAll ConclusionsAreWarranted ComparisonIsWarranted GapsAreRecorded SelectionIsAnswered
