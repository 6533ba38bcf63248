SPECIFICATION Spec
CONSTANTS
    MaxActions = 0
    Kinds = {}
    MaxAttempts = 1
    MaxLeases = 1
    Routes = {"local"}
    MaxFaults = 0
INVARIANT LateResultWritable
CHECK_DEADLOCK FALSE
