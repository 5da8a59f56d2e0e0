SPECIFICATION Spec
CONSTANTS
    Plans <- AllPlans
    ExecutorErrors <- NoErrors
    Cooperative = TRUE
    TicksPerMs = 2
    Overrun = 1
INVARIANT
    CancellationAppliesNoFailureMode
