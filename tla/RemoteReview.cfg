SPECIFICATION RemoteSpec
CONSTANTS
    Tasks <- ReviewTasks
    Blocks <- ReviewBlocks
    Reviews <- ReviewReviews
    Required <- ReviewReviews
    TaskOf <- ReviewTaskOf
    BlockDeps <- ReviewBlockDeps
    TaskDeps <- ReviewTaskDeps
    Rank <- ReviewRank
    Target <- ReviewTarget
    SnapshotOps = {"o2"}
    NoBlock = "none"
    NoOp = "none"
    Ops = {"o1", "o2", "o3"}
    ParallelEnabled = TRUE
    MaxConcurrent = 2
    MaxCycles <- ReviewCycles
    MaxFeedback = 2
    MaxRuns = 2
    MaxAttempts = 2
CONSTRAINTS
    TwoOperations
    ThreeRuns
INVARIANTS
    RemoteTypeOK
    StateReadable
    OpenFeedbackLocal
    FeedbackPointers
    Settled
PROPERTY OwnershipHandover
