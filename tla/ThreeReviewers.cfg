SPECIFICATION LoopSpec
CHECK_DEADLOCK FALSE
CONSTANTS
    Tasks <- MCTasks
    Blocks <- MCBlocks
    Reviews <- MCReviews
    Required <- MCReviews
    TaskOf <- MCTaskOf
    BlockDeps <- MCBlockDeps
    TaskDeps <- MCTaskDeps
    Rank <- MCRank
    NoBlock = "none"
    NoOp = "none"
    Ops = {}
    ParallelEnabled = TRUE
    MaxConcurrent = 2
    MaxAttempts = 0
    MaxCycles <- MCCycles
    MaxFeedback = 3
    MaxRuns = 4
INVARIANT FeedbackResolvable
