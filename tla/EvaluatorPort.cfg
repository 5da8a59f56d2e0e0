SPECIFICATION Spec
CONSTANTS
    Plans <- PortPlans
    ExecutorErrors <- PortErrors
    Cooperative = FALSE
    TicksPerMs = 2
    Overrun = 1
INVARIANTS
    TypeOK
    
PROPERTIES
    LateResultsNeverCount
