\* One clone, the network failing twice, two syncs killed.
CONSTANTS
    a = a
    Nodes = {a}
    MaxBatches = 4
    MinDays = 1
    MaxNetFailures = 2
    MaxCrashes = 2
SPECIFICATION FairSpec
INVARIANTS
    BatchesKept
    FloorKept
PROPERTIES
    ResetDropsNothing
    EventuallyPushed
