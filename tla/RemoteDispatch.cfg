SPECIFICATION Spec
CONSTANTS
    MaxActions = 1
    Kinds = {"block", "fail", "resume", "retry"}
    MaxAttempts = 2
    MaxLeases = 2
    Routes = {"host"}
    MaxFaults = 1
INVARIANTS
    DispatchTypeOK
    LeaseAuthority
    CompletedIsWritten
    WrittenAsRecorded
    OutcomesAgree
    StaleNeverWrites
PROPERTIES
    AcceptedResultKept
    TerminalIsFinal
CHECK_DEADLOCK FALSE
