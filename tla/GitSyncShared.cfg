\* Two clones of one remote.
CONSTANTS
    a = a
    b = b
    Nodes = {a, b}
    MaxBatches = 2
    MinDays = 1
    MaxNetFailures = 1
    MaxCrashes = 0
SPECIFICATION Spec
INVARIANT
    StoppedRebaseIsFinal
PROPERTY
    RemoteOnlyGrows
