SPECIFICATION ResetSpec
CONSTANTS
    Tasks <- ReviewTasks
    Blocks <- ReviewBlocks
    Reviews <- ReviewReviews
    Required <- ReviewReviews
    TaskOf <- ReviewTaskOf
    BlockDeps <- ReviewBlockDeps
    TaskDeps <- ReviewTaskDeps
    Rank <- ReviewRank
    Target <- ReviewTarget
    SnapshotOps = {}
    NoBlock = "none"
    NoOp = "none"
    Ops = {"o1", "o2"}
    ParallelEnabled = TRUE
    MaxConcurrent = 2
    MaxCycles <- NoCycles
    MaxFeedback = 1
    MaxRuns = 2
    MaxAttempts = 1
INVARIANT StateReadable
