SPECIFICATION FairSpec
CONSTANTS
    Runners = {"r1", "r2"}
    ExecutorIds = {"e"}
    Plan <- SmallPlan
    PoolSize = 1
INVARIANTS
    NoOverlap
    BudgetKept
    NoLeftover
    SuccessIsReal
PROPERTY Ends
CHECK_DEADLOCK FALSE
