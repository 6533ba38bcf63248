SPECIFICATION SubmissionSpec
CHECK_DEADLOCK FALSE
CONSTANTS
    Reports <- MCReports
    Torn = torn
    MaxRuns = 3
    MaxIds = 3
INVARIANTS
    SubmissionTypeOK
    OneRunPerAttempt
    CompletedEvidence
    RetryAccepted
    CountsOnce
PROPERTIES
    SubmittedFixed
    SubmittedByItsClaim
