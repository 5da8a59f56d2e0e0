SPECIFICATION Spec
CONSTANTS
    r1 = r1
    r2 = r2
    r3 = r3
    Nobody = Nobody
    Requests <- MCRequests
    ByToken <- MCByToken
    Workloads <- MCWorkloads
INVARIANTS
    ScrapeIsConsistent
    AnswersWereCounted
    AuditedBeforeAnswered
    NothingOutOfScope
PROPERTIES
    RequestsEnd
