SPECIFICATION Spec
CHECK_DEADLOCK FALSE
CONSTANTS
    Tasks <- MCTasks
    Blocks <- MCBlocks
    Reviews <- MCReviews
    Required <- MCReviews
    TaskOf <- MCTaskOf
    BlockDeps <- MCBlockDeps
    TaskDeps <- MCTaskDeps
    Rank <- MCRank
    BlockOrder <- MCBlockOrder
    TaskOrder <- MCTaskOrder
    Inputs <- MCInputs
INVARIANTS
    LoopComputesReconciled
