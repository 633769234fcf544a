\* aggregator.py: the verdict comes from a fully merged profile.
CONSTANTS
    Inputs <- MCInputs
    EventTypes <- MCEventTypes
    Categories <- MCCategories
    CommandCap = 2
    MaxEvents = 3
SPECIFICATION Spec
INVARIANT VerdictOfWholeHistory
CHECK_DEADLOCK FALSE
