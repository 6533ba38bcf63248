SPECIFICATION FairSpec
CONSTANTS
    MaxActions = 1
    Kinds = {"cancel", "fail", "resume"}
    MaxAttempts = 1
    MaxLeases = 2
    Routes = {"local", "host"}
    MaxFaults = 2
INVARIANT OutcomesAgree
PROPERTIES
    AcceptedResultSettled
    ActionsReconciled
    ExpiredRecovered
ACTION_CONSTRAINT SecondFault
CHECK_DEADLOCK FALSE
