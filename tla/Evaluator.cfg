SPECIFICATION Spec
CONSTANTS
    Plans <- AllPlans
    ExecutorErrors <- NoErrors
    Cooperative = TRUE
    TicksPerMs = 2
    Overrun = 1
INVARIANTS
    DecisionIsStrongest
    ReasonExplainsDecision
    NoDetectorSilentlySkipped
    PolicyFailureEndsPolicy
    TimeoutsAreReal
    DetectorFailuresAreNotCancellations
    TimeoutEvidenceIsPositive
    RedactionIsComplete
PROPERTIES
    ImplementsContract
    EvaluationTerminates
