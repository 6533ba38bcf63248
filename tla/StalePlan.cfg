SPECIFICATION Spec
CONSTANTS
    MaxActions = 2
    Kinds = {"cancel", "retry"}
    MaxAttempts = 2
    MaxLeases = 2
    Routes = {"local"}
    MaxFaults = 1
INVARIANT CancelledOnRequest
CHECK_DEADLOCK FALSE
