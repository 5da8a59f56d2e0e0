SPECIFICATION Spec
CONSTANTS
    Requests <- MCRequests
    Callers <- MCCallers
    Traceparent <- MCTraceparent
    NoContext = NoContext
    NoId = NoId
    MaxDetectors = 2
INVARIANTS
    EverySpanEndsOnce
    ChildrenEndFirst
    
    
