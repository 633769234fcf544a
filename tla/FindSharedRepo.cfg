\* github_sync.py: pull --rebase plays nicely with hundreds of nodes.
CONSTANTS
    a = a
    b = b
    Nodes = {a, b}
    MaxBatches = 1
    MinDays = 1
    MaxNetFailures = 0
    MaxCrashes = 0
SPECIFICATION FairSpec
PROPERTY EveryNodePushes
