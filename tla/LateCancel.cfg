SPECIFICATION Spec
CONSTANTS
    Dispatches = {"d1"}
    NoDispatch = "none"
    MaxInflight = 2
    DrainWindow = 2
    MaxSequence = 3
    MaxFaults = 0
INVARIANT LateCancelDropped
CHECK_DEADLOCK FALSE
