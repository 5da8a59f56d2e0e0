--------------------------- MODULE ServiceProofs ----------------------------
(***************************************************************************)
(* Theorems about Service, for any number of requests, any workload and any *)
(* principals.                                                              *)
(***************************************************************************)
EXTENDS Service, FiniteSetTheorems, TLAPS

Recording == {"count", "observe"}
Writing == {"writeRequests", "writeEvaluations", "writeLatency"}

\* Who is in a critical section holds the mutex, and nobody else does.
MutexHeld == \A r \in Requests : pc[r] \in Recording \cup Writing <=> mu = r

\* The two counters of an evaluation differ only while it is being counted.
Total == evaluations.completed + evaluations.rejected
CountersAgree ==
    /\ \A r \in Requests : pc[r] = "observe" => Total = latency + 1
    /\ (\A r \in Requests : pc[r] # "observe") => Total = latency

\* What a scrape has written of the evaluations still holds when it writes the
\* latencies.
SectionsAgree ==
    \A r \in Requests : pc[r] = "writeLatency" => scraped[r].evaluations = evaluations

\* Where a request is says what it asked, and that it was let in.
Routed ==
    \A r \in Requests :
        /\ pc[r] \in {"evaluating", "record"} \cup Recording => call[r].route = "evaluations"
        /\ pc[r] = "audit" =>
              code[r] = "UNAUTHENTICATED" \/ call[r].route = "evaluations"
        /\ pc[r] = "answer" /\ call[r].route = "metrics" => code[r] # ""
        /\ pc[r] = "handle" => call[r].token \in DOMAIN ByToken
        /\ pc[r] \in Writing => /\ call[r].route = "metrics"
                                /\ call[r].token \in DOMAIN ByToken
                                /\ Who(r).metricsReader
        /\ answer[r] # 0 => pc[r] \in {"answered", "done"}

Inv == TypeOK /\ MutexHeld /\ CountersAgree /\ SectionsAgree /\ Routed
       /\ ScrapeIsConsistent /\ NothingOutOfScope

\* Every code has a status; of the error codes none has 200, and 0 is none.
LEMMA StatusType ==
    /\ \A c : Status(c) \in Statuses
    /\ \A c \in {"UNAUTHENTICATED", "FORBIDDEN", "NOT_FOUND", "INVALID_REQUEST",
                 "UNKNOWN_POLICY", "EVALUATION_DEADLINE_EXCEEDED"} : Status(c) # 200
    /\ \A c : Status(c) # 0
BY DEF Status, Statuses

\* The invariant holds before any request is handled.
LEMMA InvInit == Init => Inv
<1> SUFFICES ASSUME Init PROVE Inv
  OBVIOUS
<1>1. TypeOK
  BY WorkloadsAssumption DEF TypeOK, NothingScraped, Init, Point, Code, Outcomes, Picture
<1>2. MutexHeld
  BY NobodyAssumption DEF MutexHeld, Recording, Writing, Init
<1>3. CountersAgree
  <2>1. Total = 0 /\ latency = 0
    <3>1. evaluations.completed = 0 /\ evaluations.rejected = 0 /\ latency = 0
      BY DEF Init
    <3> QED
      BY <3>1 DEF Total
  <2>2. \A r \in Requests : pc[r] = "arrived"
    BY DEF Init
  <2> QED
    BY <2>1, <2>2 DEF CountersAgree
<1>4. SectionsAgree /\ Routed
  BY DEF SectionsAgree, Routed, Recording, Writing, Init
<1>5. ScrapeIsConsistent /\ NothingOutOfScope
  <2>1. \A r \in Requests : answer[r] = 0 /\ scraped[r] = NothingScraped
    BY DEF Init
  <2>2. ScrapeIsConsistent
    BY <2>1 DEF ScrapeIsConsistent, Scrape
  <2>3. NothingOutOfScope
    BY <2>1 DEF NothingOutOfScope, Init
  <2> QED
    BY <2>2, <2>3
<1> QED
  BY <1>1, <1>2, <1>3, <1>4, <1>5 DEF Inv

\* What a move of one request does to where the requests are.
LEMMA Moves ==
    ASSUME TypeOK, NEW r \in Requests, NEW there, GoTo(r, there)
    PROVE  pc'[r] = there /\ \A x \in Requests : x # r => pc'[x] = pc[x]
BY DEF TypeOK, GoTo

\* ... and, when it ends in an error, to their error codes.
LEMMA Sets ==
    ASSUME TypeOK, NEW r \in Requests, NEW there, NEW c, GoWith(r, there, c)
    PROVE  /\ GoTo(r, there)
           /\ code'[r] = c /\ \A x \in Requests : x # r => code'[x] = code[x]
BY DEF TypeOK, GoWith

\* A step outside the critical sections that counts nothing and writes nothing
\* to the client of a scrape.
LEMMA QuietStep ==
    ASSUME Inv, NEW r \in Requests, NEW there, GoTo(r, there),
           pc[r] \notin Recording \cup Writing, there \notin Recording \cup Writing,
           UNCHANGED <<call, mu, evaluations, latency, scraped, answer>>
    PROVE  MutexHeld' /\ CountersAgree' /\ SectionsAgree' /\ ScrapeIsConsistent'
<1>1. pc'[r] = there /\ \A x \in Requests : x # r => pc'[x] = pc[x]
  BY Moves DEF Inv
<1>2. MutexHeld'
  BY <1>1 DEF Inv, MutexHeld
<1>3. CountersAgree'
  BY <1>1 DEF Inv, CountersAgree, Total, Recording
<1>4. SectionsAgree'
  BY <1>1 DEF Inv, SectionsAgree, Writing
<1>5. ScrapeIsConsistent'
  BY DEF Inv, ScrapeIsConsistent, Scrape, Attempts
<1> QED
  BY <1>2, <1>3, <1>4, <1>5

\* A step that changes no finished scrape, and finishes none.
LEMMA ScrapesKept ==
    ASSUME ScrapeIsConsistent,
           \A x \in Requests : Scrape(x)' => Scrape(x) /\ scraped'[x] = scraped[x]
    PROVE  ScrapeIsConsistent'
BY DEF ScrapeIsConsistent, Attempts

\* Incrementing one counter of a family.
LEMMA Increment ==
    ASSUME NEW S, NEW f \in [S -> Nat], NEW k
    PROVE  [f EXCEPT ![k] = @ + 1] \in [S -> Nat]
<1>1. CASE k \in S
  <2>1. f[k] + 1 \in Nat
    BY <1>1
  <2> QED
    BY <1>1, <2>1
<1>2. CASE k \notin S
  BY <1>2
<1> QED
  BY <1>1, <1>2

\* Counting an evaluation, whatever its outcome.
LEMMA Counted ==
    ASSUME TypeOK, NEW r \in Requests,
           evaluations' = [evaluations EXCEPT ![Outcome(r)] = @ + 1]
    PROVE  evaluations' \in Outcomes /\ Total' = Total + 1
<1>1. evaluations.completed \in Nat /\ evaluations.rejected \in Nat
  BY DEF TypeOK, Outcomes
<1>2. CASE Outcome(r) = "completed"
  <2>1. evaluations' = [completed |-> evaluations.completed + 1,
                        rejected |-> evaluations.rejected]
    BY <1>2 DEF TypeOK, Outcomes
  <2> QED
    BY <1>1, <2>1 DEF Outcomes, Total
<1>3. CASE Outcome(r) = "rejected"
  <2>1. evaluations' = [completed |-> evaluations.completed,
                        rejected |-> evaluations.rejected + 1]
    BY <1>3 DEF TypeOK, Outcomes
  <2> QED
    BY <1>1, <2>1 DEF Outcomes, Total
<1> QED
  BY <1>2, <1>3 DEF Outcome

\* The invariant survives every step, action by action.
LEMMA InvStep == Inv /\ [Next]_vars => Inv'
<1> SUFFICES ASSUME Inv, [Next]_vars PROVE Inv'
  OBVIOUS
<1>0. TypeOK
  BY DEF Inv
<1>1. ASSUME NEW r \in Requests, ServeUnprotected(r) PROVE Inv'
  <2>1. /\ GoTo(r, "answer") /\ pc[r] \notin Recording \cup Writing
        /\ UNCHANGED <<call, mu, evaluations, latency, scraped, answer>>
    BY <1>1 DEF ServeUnprotected, Protected, GoWith, Recording, Writing, outputs, counters
  <2>2. pc'[r] = "answer" /\ \A x \in Requests : x # r => pc'[x] = pc[x]
    BY <1>0, <2>1, Moves
  <2>3. \A x \in Requests : x # r => code'[x] = code[x]
    BY <1>0, <1>1, Sets DEF ServeUnprotected, Protected
  <2>4. TypeOK'
    BY <1>0, <1>1 DEF ServeUnprotected, Protected, GoTo, GoWith, TypeOK, Point, Code, outputs, counters
  <2>5. Routed'
    BY <1>0, <1>1, <2>1, <2>2, <2>3, Sets, ZenonT(60) DEF ServeUnprotected, Protected, Inv, Routed, Recording, Writing, Who
  <2>6. NothingOutOfScope'
    BY <1>1, <2>1 DEF ServeUnprotected, Protected, Inv, NothingOutOfScope, Routed, Who, outputs
  <2>7. MutexHeld' /\ CountersAgree' /\ SectionsAgree' /\ ScrapeIsConsistent'
    BY <2>1, QuietStep DEF Recording, Writing
  <2> QED
    BY <2>4, <2>5, <2>6, <2>7 DEF Inv
<1>2. ASSUME NEW r \in Requests, Unauthenticated(r) PROVE Inv'
  <2>1. /\ GoTo(r, "audit") /\ pc[r] \notin Recording \cup Writing
        /\ UNCHANGED <<call, mu, evaluations, latency, scraped, answer>>
    BY <1>2 DEF Unauthenticated, Protected, GoWith, Recording, Writing, outputs, counters
  <2>2. pc'[r] = "audit" /\ \A x \in Requests : x # r => pc'[x] = pc[x]
    BY <1>0, <2>1, Moves
  <2>3. code'[r] = "UNAUTHENTICATED" /\ \A x \in Requests : x # r => code'[x] = code[x]
    BY <1>0, <1>2, Sets DEF Unauthenticated, Protected
  <2>4. TypeOK'
    BY <1>0, <1>2 DEF Unauthenticated, Protected, GoTo, GoWith, TypeOK, Point, Code, outputs, counters
  <2>5. Routed'
    BY <1>0, <1>2, <2>1, <2>2, <2>3, Sets, ZenonT(60) DEF Unauthenticated, Protected, Inv, Routed, Recording, Writing, Who
  <2>6. NothingOutOfScope'
    BY <1>2, <2>1 DEF Unauthenticated, Protected, Inv, NothingOutOfScope, Routed, Who, outputs
  <2>7. MutexHeld' /\ CountersAgree' /\ SectionsAgree' /\ ScrapeIsConsistent'
    BY <2>1, QuietStep DEF Recording, Writing
  <2> QED
    BY <2>4, <2>5, <2>6, <2>7 DEF Inv
<1>3. ASSUME NEW r \in Requests, Authenticated(r) PROVE Inv'
  <2>1. /\ GoTo(r, "handle") /\ pc[r] \notin Recording \cup Writing
        /\ UNCHANGED <<call, mu, evaluations, latency, scraped, answer>>
    BY <1>3 DEF Authenticated, Protected, GoWith, Recording, Writing, outputs, counters
  <2>2. pc'[r] = "handle" /\ \A x \in Requests : x # r => pc'[x] = pc[x]
    BY <1>0, <2>1, Moves
  <2>3. \A x \in Requests : x # r => code'[x] = code[x]
    BY <1>3 DEF Authenticated, Protected, outputs, counters
  <2>4. TypeOK'
    BY <1>0, <1>3 DEF Authenticated, Protected, GoTo, GoWith, TypeOK, Point, Code, outputs, counters
  <2>5. Routed'
    BY <1>0, <1>3, <2>1, <2>2, <2>3, Sets, ZenonT(60) DEF Authenticated, Protected, Inv, Routed, Recording, Writing, Who
  <2>6. NothingOutOfScope'
    BY <1>3, <2>1 DEF Authenticated, Protected, Inv, NothingOutOfScope, Routed, Who, outputs
  <2>7. MutexHeld' /\ CountersAgree' /\ SectionsAgree' /\ ScrapeIsConsistent'
    BY <2>1, QuietStep DEF Recording, Writing
  <2> QED
    BY <2>4, <2>5, <2>6, <2>7 DEF Inv
<1>4. ASSUME NEW r \in Requests, Undecodable(r) PROVE Inv'
  <2>1. /\ GoTo(r, "record") /\ pc[r] \notin Recording \cup Writing
        /\ UNCHANGED <<call, mu, evaluations, latency, scraped, answer>>
    BY <1>4 DEF Undecodable, Evaluating, GoWith, Recording, Writing, outputs, counters
  <2>2. pc'[r] = "record" /\ \A x \in Requests : x # r => pc'[x] = pc[x]
    BY <1>0, <2>1, Moves
  <2>3. \A x \in Requests : x # r => code'[x] = code[x]
    BY <1>0, <1>4, Sets DEF Undecodable, Evaluating
  <2>4. TypeOK'
    BY <1>0, <1>4 DEF Undecodable, Evaluating, GoTo, GoWith, TypeOK, Point, Code, outputs, counters
  <2>5. Routed'
    BY <1>0, <1>4, <2>1, <2>2, <2>3, Sets, ZenonT(60) DEF Undecodable, Evaluating, Inv, Routed, Recording, Writing, Who
  <2>6. NothingOutOfScope'
    BY <1>4, <2>1 DEF Undecodable, Evaluating, Inv, NothingOutOfScope, Routed, Who, outputs
  <2>7. MutexHeld' /\ CountersAgree' /\ SectionsAgree' /\ ScrapeIsConsistent'
    BY <2>1, QuietStep DEF Recording, Writing
  <2> QED
    BY <2>4, <2>5, <2>6, <2>7 DEF Inv
<1>5. ASSUME NEW r \in Requests, Forbidden(r) PROVE Inv'
  <2>1. /\ GoTo(r, "record") /\ pc[r] \notin Recording \cup Writing
        /\ UNCHANGED <<call, mu, evaluations, latency, scraped, answer>>
    BY <1>5 DEF Forbidden, Evaluating, GoWith, Recording, Writing, outputs, counters
  <2>2. pc'[r] = "record" /\ \A x \in Requests : x # r => pc'[x] = pc[x]
    BY <1>0, <2>1, Moves
  <2>3. \A x \in Requests : x # r => code'[x] = code[x]
    BY <1>0, <1>5, Sets DEF Forbidden, Evaluating
  <2>4. TypeOK'
    BY <1>0, <1>5 DEF Forbidden, Evaluating, GoTo, GoWith, TypeOK, Point, Code, outputs, counters
  <2>5. Routed'
    BY <1>0, <1>5, <2>1, <2>2, <2>3, Sets, ZenonT(60) DEF Forbidden, Evaluating, Inv, Routed, Recording, Writing, Who
  <2>6. NothingOutOfScope'
    BY <1>5, <2>1 DEF Forbidden, Evaluating, Inv, NothingOutOfScope, Routed, Who, outputs
  <2>7. MutexHeld' /\ CountersAgree' /\ SectionsAgree' /\ ScrapeIsConsistent'
    BY <2>1, QuietStep DEF Recording, Writing
  <2> QED
    BY <2>4, <2>5, <2>6, <2>7 DEF Inv
<1>6. ASSUME NEW r \in Requests, CallEvaluate(r) PROVE Inv'
  <2>1. /\ GoTo(r, "evaluating") /\ pc[r] \notin Recording \cup Writing
        /\ UNCHANGED <<call, mu, evaluations, latency, scraped, answer>>
    BY <1>6 DEF CallEvaluate, Evaluating, AuthorizeTenant, GoWith, Recording, Writing, outputs, counters
  <2>2. pc'[r] = "evaluating" /\ \A x \in Requests : x # r => pc'[x] = pc[x]
    BY <1>0, <2>1, Moves
  <2>3. \A x \in Requests : x # r => code'[x] = code[x]
    BY <1>6 DEF CallEvaluate, Evaluating, AuthorizeTenant, outputs, counters
  <2>4. TypeOK'
    BY <1>0, <1>6 DEF CallEvaluate, Evaluating, AuthorizeTenant, GoTo, GoWith, TypeOK, Point, Code, outputs, counters
  <2>5. Routed'
    BY <1>0, <1>6, <2>1, <2>2, <2>3, Sets, ZenonT(60) DEF CallEvaluate, Evaluating, AuthorizeTenant, Inv, Routed, Recording, Writing, Who
  <2>6. NothingOutOfScope'
    BY <1>6, <2>1 DEF CallEvaluate, Evaluating, AuthorizeTenant, Inv, NothingOutOfScope, Routed, Who, outputs
  <2>7. MutexHeld' /\ CountersAgree' /\ SectionsAgree' /\ ScrapeIsConsistent'
    BY <2>1, QuietStep DEF Recording, Writing
  <2> QED
    BY <2>4, <2>5, <2>6, <2>7 DEF Inv
<1>7. ASSUME NEW r \in Requests, EvaluateReturns(r) PROVE Inv'
  <2>1. /\ GoTo(r, "record") /\ pc[r] \notin Recording \cup Writing
        /\ UNCHANGED <<call, mu, evaluations, latency, scraped, answer>>
    BY <1>7 DEF EvaluateReturns, GoWith, Recording, Writing, outputs, counters
  <2>2. pc'[r] = "record" /\ \A x \in Requests : x # r => pc'[x] = pc[x]
    BY <1>0, <2>1, Moves
  <2>3. \A x \in Requests : x # r => code'[x] = code[x]
    BY <1>0, <1>7, Sets DEF EvaluateReturns
  <2>4. TypeOK'
    BY <1>0, <1>7 DEF EvaluateReturns, GoTo, GoWith, TypeOK, Point, Code, outputs, counters
  <2>5. Routed'
    BY <1>0, <1>7, <2>1, <2>2, <2>3, Sets, ZenonT(60) DEF EvaluateReturns, Inv, Routed, Recording, Writing, Who
  <2>6. NothingOutOfScope'
    BY <1>7, <2>1 DEF EvaluateReturns, Inv, NothingOutOfScope, Routed, Who, outputs
  <2>7. MutexHeld' /\ CountersAgree' /\ SectionsAgree' /\ ScrapeIsConsistent'
    BY <2>1, QuietStep DEF Recording, Writing
  <2> QED
    BY <2>4, <2>5, <2>6, <2>7 DEF Inv
<1>8. ASSUME NEW r \in Requests, RecordAudit(r) PROVE Inv'
  <2>1. /\ GoTo(r, "answer") /\ pc[r] \notin Recording \cup Writing
        /\ UNCHANGED <<call, mu, evaluations, latency, scraped, answer>>
    BY <1>8 DEF RecordAudit, GoWith, Recording, Writing, outputs, counters
  <2>2. pc'[r] = "answer" /\ \A x \in Requests : x # r => pc'[x] = pc[x]
    BY <1>0, <2>1, Moves
  <2>3. \A x \in Requests : x # r => code'[x] = code[x]
    BY <1>8 DEF RecordAudit, outputs, counters
  <2>4. TypeOK'
    BY <1>0, <1>8 DEF RecordAudit, GoTo, GoWith, TypeOK, Point, Code, outputs, counters
  <2>5. Routed'
    BY <1>0, <1>8, <2>1, <2>2, <2>3, Sets, ZenonT(60) DEF RecordAudit, Inv, Routed, Recording, Writing, Who
  <2>6. NothingOutOfScope'
    BY <1>8, <2>1 DEF RecordAudit, Inv, NothingOutOfScope, Routed, Who, outputs
  <2>7. MutexHeld' /\ CountersAgree' /\ SectionsAgree' /\ ScrapeIsConsistent'
    BY <2>1, QuietStep DEF Recording, Writing
  <2> QED
    BY <2>4, <2>5, <2>6, <2>7 DEF Inv
<1>9. ASSUME NEW r \in Requests, ListPolicies(r) PROVE Inv'
  <2>1. /\ GoTo(r, "answer") /\ pc[r] \notin Recording \cup Writing
        /\ UNCHANGED <<call, mu, evaluations, latency, scraped, answer>>
    BY <1>9 DEF ListPolicies, GoWith, Recording, Writing, outputs, counters
  <2>2. pc'[r] = "answer" /\ \A x \in Requests : x # r => pc'[x] = pc[x]
    BY <1>0, <2>1, Moves
  <2>3. \A x \in Requests : x # r => code'[x] = code[x]
    BY <1>0, <1>9, Sets DEF ListPolicies
  <2>4. TypeOK'
    BY <1>0, <1>9 DEF ListPolicies, GoTo, GoWith, TypeOK, Point, Code, outputs, counters
  <2>5. Routed'
    BY <1>0, <1>9, <2>1, <2>2, <2>3, Sets, ZenonT(60) DEF ListPolicies, Inv, Routed, Recording, Writing, Who
  <2>6. NothingOutOfScope'
    BY <1>9, <2>1 DEF ListPolicies, Inv, NothingOutOfScope, Routed, Who, outputs
  <2>7. MutexHeld' /\ CountersAgree' /\ SectionsAgree' /\ ScrapeIsConsistent'
    BY <2>1, QuietStep DEF Recording, Writing
  <2> QED
    BY <2>4, <2>5, <2>6, <2>7 DEF Inv
<1>10. ASSUME NEW r \in Requests, RefuseScrape(r) PROVE Inv'
  <2>1. /\ GoTo(r, "answer") /\ pc[r] \notin Recording \cup Writing
        /\ UNCHANGED <<call, mu, evaluations, latency, scraped, answer>>
    BY <1>10 DEF RefuseScrape, GoWith, Recording, Writing, outputs, counters
  <2>2. pc'[r] = "answer" /\ \A x \in Requests : x # r => pc'[x] = pc[x]
    BY <1>0, <2>1, Moves
  <2>3. code'[r] = "FORBIDDEN" /\ \A x \in Requests : x # r => code'[x] = code[x]
    BY <1>0, <1>10, Sets DEF RefuseScrape
  <2>4. TypeOK'
    BY <1>0, <1>10 DEF RefuseScrape, GoTo, GoWith, TypeOK, Point, Code, outputs, counters
  <2>5. Routed'
    BY <1>0, <1>10, <2>1, <2>2, <2>3, Sets, ZenonT(60) DEF RefuseScrape, Inv, Routed, Recording, Writing, Who
  <2>6. NothingOutOfScope'
    BY <1>10, <2>1 DEF RefuseScrape, Inv, NothingOutOfScope, Routed, Who, outputs
  <2>7. MutexHeld' /\ CountersAgree' /\ SectionsAgree' /\ ScrapeIsConsistent'
    BY <2>1, QuietStep DEF Recording, Writing
  <2> QED
    BY <2>4, <2>5, <2>6, <2>7 DEF Inv
<1>11. ASSUME NEW r \in Requests, LockToRecord(r) PROVE Inv'
  <2>1. GoTo(r, "count") /\ UNCHANGED <<call, code>>
    BY <1>11 DEF LockToRecord, outputs, counters
  <2>2. pc'[r] = "count" /\ \A x \in Requests : x # r => pc'[x] = pc[x]
    BY <1>0, <2>1, Moves
  <2>3. TypeOK'
    <3>1. pc' \in [Requests -> Point] /\ code' \in [Requests -> Code] /\ mu' \in Requests \cup {Nobody}
      BY <1>0, <1>11, <2>1 DEF LockToRecord, GoTo, TypeOK, Point
    <3>2. scraped' \in [Requests -> Picture]
      BY <1>0, <1>11 DEF LockToRecord, TypeOK, Picture, outputs
    <3>3. answer' \in [Requests -> Statuses \cup {0}]
      BY <1>0, <1>11, StatusType DEF LockToRecord, TypeOK, outputs, Statuses
    <3>4. evaluations' \in Outcomes /\ latency' \in Nat
      BY <1>0, <1>11 DEF LockToRecord, TypeOK, Outcomes, counters
    <3>5. httpRequests' \in [Route \X Statuses -> Nat]
      BY <1>0, <1>11 DEF LockToRecord, TypeOK, counters
    <3>6. call' \in Workloads /\ gone' \subseteq Requests /\ evaluated' \subseteq Requests
      BY <1>0, <1>11 DEF LockToRecord, TypeOK, outputs
    <3> QED
      BY <3>1, <3>2, <3>3, <3>4, <3>5, <3>6 DEF TypeOK
  <2>4. MutexHeld'
    BY <1>11, <2>2, NobodyAssumption DEF LockToRecord, Inv, MutexHeld, Recording, Writing
  <2>5. CountersAgree'
    BY <1>0, <1>11, <2>2, NobodyAssumption DEF LockToRecord, Inv, MutexHeld, CountersAgree, Total, Recording, TypeOK, outputs, counters
  <2>6. SectionsAgree'
    BY <1>0, <1>11, <2>2, NobodyAssumption DEF LockToRecord, Inv, MutexHeld, SectionsAgree, Recording, Writing, TypeOK, outputs, counters
  <2>7. Routed'
    BY <1>0, <1>11, <2>1, <2>2, StatusType, ZenonT(60) DEF LockToRecord, Inv, Routed, Recording, Writing, Who, TypeOK, outputs
  <2>8. ScrapeIsConsistent'
    <3>1. answer' = answer /\ \A x \in Requests : x # r => scraped'[x] = scraped[x]
      BY <1>0, <1>11 DEF LockToRecord, TypeOK, outputs
    <3>2. scraped'[r] = scraped[r] \/ answer[r] = 0
      BY <1>11 DEF LockToRecord, Inv, Routed, outputs
    <3>3. ASSUME NEW x \in Requests, Scrape(x)'
          PROVE  Scrape(x) /\ scraped'[x] = scraped[x]
      <4>1. Scrape(x) /\ answer[x] # 0
        BY <2>1, <3>1, <3>3 DEF Scrape
      <4> QED
        BY <3>1, <3>2, <4>1
    <3> QED
      BY <3>3, ScrapesKept DEF Inv
  <2>9. NothingOutOfScope'
    BY <1>0, <1>11, <2>1 DEF LockToRecord, Inv, NothingOutOfScope, Routed, Writing, Who, TypeOK, outputs
  <2> QED
    BY <2>3, <2>4, <2>5, <2>6, <2>7, <2>8, <2>9 DEF Inv
<1>12. ASSUME NEW r \in Requests, Count(r) PROVE Inv'
  <2>1. GoTo(r, "observe") /\ UNCHANGED <<call, code>>
    BY <1>12 DEF Count, Outcome, outputs, counters
  <2>2. pc'[r] = "observe" /\ \A x \in Requests : x # r => pc'[x] = pc[x]
    BY <1>0, <2>1, Moves
  <2>3. TypeOK'
    <3>1. pc' \in [Requests -> Point] /\ code' \in [Requests -> Code] /\ mu' \in Requests \cup {Nobody}
      BY <1>0, <1>12, <2>1 DEF Count, Outcome, GoTo, TypeOK, Point
    <3>2. scraped' \in [Requests -> Picture]
      BY <1>0, <1>12 DEF Count, Outcome, TypeOK, Picture, outputs
    <3>3. answer' \in [Requests -> Statuses \cup {0}]
      BY <1>0, <1>12, StatusType DEF Count, Outcome, TypeOK, outputs, Statuses
    <3>4. evaluations' \in Outcomes /\ latency' \in Nat
      BY <1>0, <1>12, Counted DEF Count, Outcome, TypeOK, Outcomes, counters
    <3>5. httpRequests' \in [Route \X Statuses -> Nat]
      BY <1>0, <1>12 DEF Count, Outcome, TypeOK, counters
    <3>6. call' \in Workloads /\ gone' \subseteq Requests /\ evaluated' \subseteq Requests
      BY <1>0, <1>12 DEF Count, Outcome, TypeOK, outputs
    <3> QED
      BY <3>1, <3>2, <3>3, <3>4, <3>5, <3>6 DEF TypeOK
  <2>4. MutexHeld'
    BY <1>12, <2>2, NobodyAssumption DEF Count, Outcome, Inv, MutexHeld, Recording, Writing
  <2>5. CountersAgree'
    <3>1. \A x \in Requests : pc[x] # "observe"
      BY <1>12 DEF Count, Inv, MutexHeld, Recording
    <3>2. Total = latency
      BY <3>1 DEF Inv, CountersAgree
    <3>3. Total' = Total + 1 /\ latency' = latency
      BY <1>0, <1>12, Counted DEF Count
    <3> QED
      BY <2>2, <3>2, <3>3 DEF CountersAgree
  <2>6. SectionsAgree'
    BY <1>0, <1>12, <2>2, NobodyAssumption DEF Count, Outcome, Inv, MutexHeld, SectionsAgree, Recording, Writing, TypeOK, outputs, counters
  <2>7. Routed'
    BY <1>0, <1>12, <2>1, <2>2, StatusType, ZenonT(60) DEF Count, Outcome, Inv, Routed, Recording, Writing, Who, TypeOK, outputs
  <2>8. ScrapeIsConsistent'
    <3>1. answer' = answer /\ \A x \in Requests : x # r => scraped'[x] = scraped[x]
      BY <1>0, <1>12 DEF Count, Outcome, TypeOK, outputs
    <3>2. scraped'[r] = scraped[r] \/ answer[r] = 0
      BY <1>12 DEF Count, Outcome, Inv, Routed, outputs
    <3>3. ASSUME NEW x \in Requests, Scrape(x)'
          PROVE  Scrape(x) /\ scraped'[x] = scraped[x]
      <4>1. Scrape(x) /\ answer[x] # 0
        BY <2>1, <3>1, <3>3 DEF Scrape
      <4> QED
        BY <3>1, <3>2, <4>1
    <3> QED
      BY <3>3, ScrapesKept DEF Inv
  <2>9. NothingOutOfScope'
    BY <1>0, <1>12, <2>1 DEF Count, Outcome, Inv, NothingOutOfScope, Routed, Writing, Who, TypeOK, outputs
  <2> QED
    BY <2>3, <2>4, <2>5, <2>6, <2>7, <2>8, <2>9 DEF Inv
<1>13. ASSUME NEW r \in Requests, ObserveLatency(r) PROVE Inv'
  <2>1. GoTo(r, "audit") /\ UNCHANGED <<call, code>>
    BY <1>13 DEF ObserveLatency, outputs, counters
  <2>2. pc'[r] = "audit" /\ \A x \in Requests : x # r => pc'[x] = pc[x]
    BY <1>0, <2>1, Moves
  <2>3. TypeOK'
    <3>1. pc' \in [Requests -> Point] /\ code' \in [Requests -> Code] /\ mu' \in Requests \cup {Nobody}
      BY <1>0, <1>13, <2>1 DEF ObserveLatency, GoTo, TypeOK, Point
    <3>2. scraped' \in [Requests -> Picture]
      BY <1>0, <1>13 DEF ObserveLatency, TypeOK, Picture, outputs
    <3>3. answer' \in [Requests -> Statuses \cup {0}]
      BY <1>0, <1>13, StatusType DEF ObserveLatency, TypeOK, outputs, Statuses
    <3>4. evaluations' \in Outcomes /\ latency' \in Nat
      BY <1>0, <1>13 DEF ObserveLatency, TypeOK, Outcomes, counters
    <3>5. httpRequests' \in [Route \X Statuses -> Nat]
      BY <1>0, <1>13 DEF ObserveLatency, TypeOK, counters
    <3>6. call' \in Workloads /\ gone' \subseteq Requests /\ evaluated' \subseteq Requests
      BY <1>0, <1>13 DEF ObserveLatency, TypeOK, outputs
    <3> QED
      BY <3>1, <3>2, <3>3, <3>4, <3>5, <3>6 DEF TypeOK
  <2>4. MutexHeld'
    BY <1>13, <2>2, NobodyAssumption DEF ObserveLatency, Inv, MutexHeld, Recording, Writing
  <2>5. CountersAgree'
    BY <1>0, <1>13, <2>2, NobodyAssumption DEF ObserveLatency, Inv, MutexHeld, CountersAgree, Total, Recording, TypeOK, outputs, counters
  <2>6. SectionsAgree'
    BY <1>0, <1>13, <2>2, NobodyAssumption DEF ObserveLatency, Inv, MutexHeld, SectionsAgree, Recording, Writing, TypeOK, outputs, counters
  <2>7. Routed'
    BY <1>0, <1>13, <2>1, <2>2, StatusType, ZenonT(60) DEF ObserveLatency, Inv, Routed, Recording, Writing, Who, TypeOK, outputs
  <2>8. ScrapeIsConsistent'
    <3>1. answer' = answer /\ \A x \in Requests : x # r => scraped'[x] = scraped[x]
      BY <1>0, <1>13 DEF ObserveLatency, TypeOK, outputs
    <3>2. scraped'[r] = scraped[r] \/ answer[r] = 0
      BY <1>13 DEF ObserveLatency, Inv, Routed, outputs
    <3>3. ASSUME NEW x \in Requests, Scrape(x)'
          PROVE  Scrape(x) /\ scraped'[x] = scraped[x]
      <4>1. Scrape(x) /\ answer[x] # 0
        BY <2>1, <3>1, <3>3 DEF Scrape
      <4> QED
        BY <3>1, <3>2, <4>1
    <3> QED
      BY <3>3, ScrapesKept DEF Inv
  <2>9. NothingOutOfScope'
    BY <1>0, <1>13, <2>1 DEF ObserveLatency, Inv, NothingOutOfScope, Routed, Writing, Who, TypeOK, outputs
  <2> QED
    BY <2>3, <2>4, <2>5, <2>6, <2>7, <2>8, <2>9 DEF Inv
<1>14. ASSUME NEW r \in Requests, LockToScrape(r) PROVE Inv'
  <2>1. GoTo(r, "writeRequests") /\ UNCHANGED <<call, code>>
    BY <1>14 DEF LockToScrape, outputs, counters
  <2>2. pc'[r] = "writeRequests" /\ \A x \in Requests : x # r => pc'[x] = pc[x]
    BY <1>0, <2>1, Moves
  <2>3. TypeOK'
    <3>1. pc' \in [Requests -> Point] /\ code' \in [Requests -> Code] /\ mu' \in Requests \cup {Nobody}
      BY <1>0, <1>14, <2>1 DEF LockToScrape, GoTo, TypeOK, Point
    <3>2. scraped' \in [Requests -> Picture]
      BY <1>0, <1>14 DEF LockToScrape, TypeOK, Picture, outputs
    <3>3. answer' \in [Requests -> Statuses \cup {0}]
      BY <1>0, <1>14, StatusType DEF LockToScrape, TypeOK, outputs, Statuses
    <3>4. evaluations' \in Outcomes /\ latency' \in Nat
      BY <1>0, <1>14 DEF LockToScrape, TypeOK, Outcomes, counters
    <3>5. httpRequests' \in [Route \X Statuses -> Nat]
      BY <1>0, <1>14 DEF LockToScrape, TypeOK, counters
    <3>6. call' \in Workloads /\ gone' \subseteq Requests /\ evaluated' \subseteq Requests
      BY <1>0, <1>14 DEF LockToScrape, TypeOK, outputs
    <3> QED
      BY <3>1, <3>2, <3>3, <3>4, <3>5, <3>6 DEF TypeOK
  <2>4. MutexHeld'
    BY <1>14, <2>2, NobodyAssumption DEF LockToScrape, Inv, MutexHeld, Recording, Writing
  <2>5. CountersAgree'
    BY <1>0, <1>14, <2>2, NobodyAssumption DEF LockToScrape, Inv, MutexHeld, CountersAgree, Total, Recording, TypeOK, outputs, counters
  <2>6. SectionsAgree'
    BY <1>0, <1>14, <2>2, NobodyAssumption DEF LockToScrape, Inv, MutexHeld, SectionsAgree, Recording, Writing, TypeOK, outputs, counters
  <2>7. Routed'
    BY <1>0, <1>14, <2>1, <2>2, StatusType, ZenonT(60) DEF LockToScrape, Inv, Routed, Recording, Writing, Who, TypeOK, outputs
  <2>8. ScrapeIsConsistent'
    <3>1. answer' = answer /\ \A x \in Requests : x # r => scraped'[x] = scraped[x]
      BY <1>0, <1>14 DEF LockToScrape, TypeOK, outputs
    <3>2. scraped'[r] = scraped[r] \/ answer[r] = 0
      BY <1>14 DEF LockToScrape, Inv, Routed, outputs
    <3>3. ASSUME NEW x \in Requests, Scrape(x)'
          PROVE  Scrape(x) /\ scraped'[x] = scraped[x]
      <4>1. Scrape(x) /\ answer[x] # 0
        BY <2>1, <3>1, <3>3 DEF Scrape
      <4> QED
        BY <3>1, <3>2, <4>1
    <3> QED
      BY <3>3, ScrapesKept DEF Inv
  <2>9. NothingOutOfScope'
    BY <1>0, <1>14, <2>1 DEF LockToScrape, Inv, NothingOutOfScope, Routed, Writing, Who, TypeOK, outputs
  <2> QED
    BY <2>3, <2>4, <2>5, <2>6, <2>7, <2>8, <2>9 DEF Inv
<1>15. ASSUME NEW r \in Requests, WriteRequests(r) PROVE Inv'
  <2>1. GoTo(r, "writeEvaluations") /\ UNCHANGED <<call, code>>
    BY <1>15 DEF WriteRequests, outputs, counters
  <2>2. pc'[r] = "writeEvaluations" /\ \A x \in Requests : x # r => pc'[x] = pc[x]
    BY <1>0, <2>1, Moves
  <2>3. TypeOK'
    <3>1. pc' \in [Requests -> Point] /\ code' \in [Requests -> Code] /\ mu' \in Requests \cup {Nobody}
      BY <1>0, <1>15, <2>1 DEF WriteRequests, GoTo, TypeOK, Point
    <3>2. scraped' \in [Requests -> Picture]
      BY <1>0, <1>15 DEF WriteRequests, TypeOK, Picture, outputs
    <3>3. answer' \in [Requests -> Statuses \cup {0}]
      BY <1>0, <1>15, StatusType DEF WriteRequests, TypeOK, outputs, Statuses
    <3>4. evaluations' \in Outcomes /\ latency' \in Nat
      BY <1>0, <1>15 DEF WriteRequests, TypeOK, Outcomes, counters
    <3>5. httpRequests' \in [Route \X Statuses -> Nat]
      BY <1>0, <1>15 DEF WriteRequests, TypeOK, counters
    <3>6. call' \in Workloads /\ gone' \subseteq Requests /\ evaluated' \subseteq Requests
      BY <1>0, <1>15 DEF WriteRequests, TypeOK, outputs
    <3> QED
      BY <3>1, <3>2, <3>3, <3>4, <3>5, <3>6 DEF TypeOK
  <2>4. MutexHeld'
    BY <1>15, <2>2, NobodyAssumption DEF WriteRequests, Inv, MutexHeld, Recording, Writing
  <2>5. CountersAgree'
    BY <1>0, <1>15, <2>2, NobodyAssumption DEF WriteRequests, Inv, MutexHeld, CountersAgree, Total, Recording, TypeOK, outputs, counters
  <2>6. SectionsAgree'
    BY <1>0, <1>15, <2>2, NobodyAssumption DEF WriteRequests, Inv, MutexHeld, SectionsAgree, Recording, Writing, TypeOK, outputs, counters
  <2>7. Routed'
    BY <1>0, <1>15, <2>1, <2>2, StatusType, ZenonT(60) DEF WriteRequests, Inv, Routed, Recording, Writing, Who, TypeOK, outputs
  <2>8. ScrapeIsConsistent'
    <3>1. answer' = answer /\ \A x \in Requests : x # r => scraped'[x] = scraped[x]
      BY <1>0, <1>15 DEF WriteRequests, TypeOK, outputs
    <3>2. scraped'[r] = scraped[r] \/ answer[r] = 0
      BY <1>15 DEF WriteRequests, Inv, Routed, outputs
    <3>3. ASSUME NEW x \in Requests, Scrape(x)'
          PROVE  Scrape(x) /\ scraped'[x] = scraped[x]
      <4>1. Scrape(x) /\ answer[x] # 0
        BY <2>1, <3>1, <3>3 DEF Scrape
      <4> QED
        BY <3>1, <3>2, <4>1
    <3> QED
      BY <3>3, ScrapesKept DEF Inv
  <2>9. NothingOutOfScope'
    BY <1>0, <1>15, <2>1 DEF WriteRequests, Inv, NothingOutOfScope, Routed, Writing, Who, TypeOK, outputs
  <2> QED
    BY <2>3, <2>4, <2>5, <2>6, <2>7, <2>8, <2>9 DEF Inv
<1>16. ASSUME NEW r \in Requests, WriteEvaluations(r) PROVE Inv'
  <2>1. GoTo(r, "writeLatency") /\ UNCHANGED <<call, code>>
    BY <1>16 DEF WriteEvaluations, outputs, counters
  <2>2. pc'[r] = "writeLatency" /\ \A x \in Requests : x # r => pc'[x] = pc[x]
    BY <1>0, <2>1, Moves
  <2>3. TypeOK'
    <3>1. pc' \in [Requests -> Point] /\ code' \in [Requests -> Code] /\ mu' \in Requests \cup {Nobody}
      BY <1>0, <1>16, <2>1 DEF WriteEvaluations, GoTo, TypeOK, Point
    <3>2. scraped' \in [Requests -> Picture]
      BY <1>0, <1>16 DEF WriteEvaluations, TypeOK, Picture, outputs
    <3>3. answer' \in [Requests -> Statuses \cup {0}]
      BY <1>0, <1>16, StatusType DEF WriteEvaluations, TypeOK, outputs, Statuses
    <3>4. evaluations' \in Outcomes /\ latency' \in Nat
      BY <1>0, <1>16 DEF WriteEvaluations, TypeOK, Outcomes, counters
    <3>5. httpRequests' \in [Route \X Statuses -> Nat]
      BY <1>0, <1>16 DEF WriteEvaluations, TypeOK, counters
    <3>6. call' \in Workloads /\ gone' \subseteq Requests /\ evaluated' \subseteq Requests
      BY <1>0, <1>16 DEF WriteEvaluations, TypeOK, outputs
    <3> QED
      BY <3>1, <3>2, <3>3, <3>4, <3>5, <3>6 DEF TypeOK
  <2>4. MutexHeld'
    BY <1>16, <2>2, NobodyAssumption DEF WriteEvaluations, Inv, MutexHeld, Recording, Writing
  <2>5. CountersAgree'
    BY <1>0, <1>16, <2>2, NobodyAssumption DEF WriteEvaluations, Inv, MutexHeld, CountersAgree, Total, Recording, TypeOK, outputs, counters
  <2>6. SectionsAgree'
    <3>1. scraped'[r].evaluations = evaluations /\ evaluations' = evaluations
      BY <1>0, <1>16 DEF WriteEvaluations, TypeOK, Picture, counters
    <3>2. \A x \in Requests : x # r => scraped'[x] = scraped[x]
      BY <1>0, <1>16 DEF WriteEvaluations, TypeOK
    <3> QED
      BY <2>2, <3>1, <3>2 DEF Inv, SectionsAgree
  <2>7. Routed'
    BY <1>0, <1>16, <2>1, <2>2, StatusType, ZenonT(60) DEF WriteEvaluations, Inv, Routed, Recording, Writing, Who, TypeOK, outputs
  <2>8. ScrapeIsConsistent'
    <3>1. answer' = answer /\ \A x \in Requests : x # r => scraped'[x] = scraped[x]
      BY <1>0, <1>16 DEF WriteEvaluations, TypeOK, outputs
    <3>2. scraped'[r] = scraped[r] \/ answer[r] = 0
      BY <1>16 DEF WriteEvaluations, Inv, Routed, outputs
    <3>3. ASSUME NEW x \in Requests, Scrape(x)'
          PROVE  Scrape(x) /\ scraped'[x] = scraped[x]
      <4>1. Scrape(x) /\ answer[x] # 0
        BY <2>1, <3>1, <3>3 DEF Scrape
      <4> QED
        BY <3>1, <3>2, <4>1
    <3> QED
      BY <3>3, ScrapesKept DEF Inv
  <2>9. NothingOutOfScope'
    BY <1>0, <1>16, <2>1 DEF WriteEvaluations, Inv, NothingOutOfScope, Routed, Writing, Who, TypeOK, outputs
  <2> QED
    BY <2>3, <2>4, <2>5, <2>6, <2>7, <2>8, <2>9 DEF Inv
<1>17. ASSUME NEW r \in Requests, WriteLatency(r) PROVE Inv'
  <2>1. GoTo(r, "answered") /\ UNCHANGED <<call, code>>
    BY <1>17 DEF WriteLatency, outputs, counters
  <2>2. pc'[r] = "answered" /\ \A x \in Requests : x # r => pc'[x] = pc[x]
    BY <1>0, <2>1, Moves
  <2>3. TypeOK'
    <3>1. pc' \in [Requests -> Point] /\ code' \in [Requests -> Code] /\ mu' \in Requests \cup {Nobody}
      BY <1>0, <1>17, <2>1 DEF WriteLatency, GoTo, TypeOK, Point
    <3>2. scraped' \in [Requests -> Picture]
      BY <1>0, <1>17 DEF WriteLatency, TypeOK, Picture, outputs
    <3>3. answer' \in [Requests -> Statuses \cup {0}]
      BY <1>0, <1>17, StatusType DEF WriteLatency, TypeOK, outputs, Statuses
    <3>4. evaluations' \in Outcomes /\ latency' \in Nat
      BY <1>0, <1>17 DEF WriteLatency, TypeOK, Outcomes, counters
    <3>5. httpRequests' \in [Route \X Statuses -> Nat]
      BY <1>0, <1>17 DEF WriteLatency, TypeOK, counters
    <3>6. call' \in Workloads /\ gone' \subseteq Requests /\ evaluated' \subseteq Requests
      BY <1>0, <1>17 DEF WriteLatency, TypeOK, outputs
    <3> QED
      BY <3>1, <3>2, <3>3, <3>4, <3>5, <3>6 DEF TypeOK
  <2>4. MutexHeld'
    BY <1>17, <2>2, NobodyAssumption DEF WriteLatency, Inv, MutexHeld, Recording, Writing
  <2>5. CountersAgree'
    BY <1>0, <1>17, <2>2, NobodyAssumption DEF WriteLatency, Inv, MutexHeld, CountersAgree, Total, Recording, TypeOK, outputs, counters
  <2>6. SectionsAgree'
    BY <1>0, <1>17, <2>2, NobodyAssumption DEF WriteLatency, Inv, MutexHeld, SectionsAgree, Recording, Writing, TypeOK, outputs, counters
  <2>7. Routed'
    BY <1>0, <1>17, <2>1, <2>2, StatusType, ZenonT(60) DEF WriteLatency, Inv, Routed, Recording, Writing, Who, TypeOK, outputs
  <2>8. ScrapeIsConsistent'
    <3>1. \A x \in Requests : x # r => scraped'[x] = scraped[x] /\ answer'[x] = answer[x]
      BY <1>0, <1>17 DEF WriteLatency, TypeOK
    <3>2. scraped'[r].latency = latency /\ scraped'[r].evaluations = evaluations
      <4>1. scraped[r].evaluations = evaluations
        BY <1>17 DEF WriteLatency, Inv, SectionsAgree
      <4>2. scraped'[r].latency = latency /\ scraped'[r].evaluations = scraped[r].evaluations
        BY <1>0, <1>17 DEF WriteLatency, TypeOK, Picture
      <4> QED
        BY <4>1, <4>2
    <3>3. latency = Total
      <4>1. \A x \in Requests : pc[x] # "observe"
        BY <1>17 DEF WriteLatency, Inv, MutexHeld, Recording, Writing
      <4> QED
        BY <4>1 DEF Inv, CountersAgree
    <3> QED
      BY <2>1, <3>1, <3>2, <3>3 DEF Inv, ScrapeIsConsistent, Scrape, Attempts, Total
  <2>9. NothingOutOfScope'
    BY <1>0, <1>17, <2>1 DEF WriteLatency, Inv, NothingOutOfScope, Routed, Writing, Who, TypeOK, outputs
  <2> QED
    BY <2>3, <2>4, <2>5, <2>6, <2>7, <2>8, <2>9 DEF Inv
<1>18. ASSUME NEW r \in Requests, WriteAnswer(r) PROVE Inv'
  <2>1. GoTo(r, "answered") /\ UNCHANGED <<call, code>>
    BY <1>18 DEF WriteAnswer, outputs, counters
  <2>2. pc'[r] = "answered" /\ \A x \in Requests : x # r => pc'[x] = pc[x]
    BY <1>0, <2>1, Moves
  <2>3. TypeOK'
    <3>1. pc' \in [Requests -> Point] /\ code' \in [Requests -> Code] /\ mu' \in Requests \cup {Nobody}
      BY <1>0, <1>18, <2>1 DEF WriteAnswer, GoTo, TypeOK, Point
    <3>2. scraped' \in [Requests -> Picture]
      BY <1>0, <1>18 DEF WriteAnswer, TypeOK, Picture, outputs
    <3>3. answer' \in [Requests -> Statuses \cup {0}]
      BY <1>0, <1>18, StatusType DEF WriteAnswer, TypeOK, outputs, Statuses
    <3>4. evaluations' \in Outcomes /\ latency' \in Nat
      BY <1>0, <1>18 DEF WriteAnswer, TypeOK, Outcomes, counters
    <3>5. httpRequests' \in [Route \X Statuses -> Nat]
      BY <1>0, <1>18 DEF WriteAnswer, TypeOK, counters
    <3>6. call' \in Workloads /\ gone' \subseteq Requests /\ evaluated' \subseteq Requests
      BY <1>0, <1>18 DEF WriteAnswer, TypeOK, outputs
    <3> QED
      BY <3>1, <3>2, <3>3, <3>4, <3>5, <3>6 DEF TypeOK
  <2>4. MutexHeld'
    BY <1>18, <2>2, NobodyAssumption DEF WriteAnswer, Inv, MutexHeld, Recording, Writing
  <2>5. CountersAgree'
    BY <1>0, <1>18, <2>2, NobodyAssumption DEF WriteAnswer, Inv, MutexHeld, CountersAgree, Total, Recording, TypeOK, outputs, counters
  <2>6. SectionsAgree'
    BY <1>0, <1>18, <2>2, NobodyAssumption DEF WriteAnswer, Inv, MutexHeld, SectionsAgree, Recording, Writing, TypeOK, outputs, counters
  <2>7. Routed'
    BY <1>0, <1>18, <2>1, <2>2, StatusType, ZenonT(60) DEF WriteAnswer, Inv, Routed, Recording, Writing, Who, TypeOK, outputs
  <2>8. ScrapeIsConsistent'
    <3>1. scraped' = scraped /\ \A x \in Requests : x # r => answer'[x] = answer[x]
      BY <1>0, <1>18 DEF WriteAnswer, TypeOK
    <3>2. call[r].route = "metrics" => answer'[r] # 200
      <4>1. call[r].route = "metrics" => code[r] # ""
        BY <1>18 DEF WriteAnswer, Inv, Routed
      <4>2. answer'[r] = Status(code[r]) /\ code[r] \in Code
        BY <1>0, <1>18 DEF WriteAnswer, TypeOK
      <4> QED
        BY <4>1, <4>2, StatusType DEF Code
    <3>3. \A x \in Requests : Scrape(x)' => Scrape(x) /\ scraped'[x] = scraped[x]
      BY <2>1, <3>1, <3>2 DEF Scrape
    <3> QED
      BY <3>3, ScrapesKept DEF Inv
  <2>9. NothingOutOfScope'
    BY <1>0, <1>18, <2>1 DEF WriteAnswer, Inv, NothingOutOfScope, Routed, Writing, Who, TypeOK, outputs
  <2> QED
    BY <2>3, <2>4, <2>5, <2>6, <2>7, <2>8, <2>9 DEF Inv
<1>19. ASSUME NEW r \in Requests, RecordHTTP(r) PROVE Inv'
  <2>1. GoTo(r, "done") /\ UNCHANGED <<call, code>>
    BY <1>19 DEF RecordHTTP, outputs, counters
  <2>2. pc'[r] = "done" /\ \A x \in Requests : x # r => pc'[x] = pc[x]
    BY <1>0, <2>1, Moves
  <2>3. TypeOK'
    <3>1. pc' \in [Requests -> Point] /\ code' \in [Requests -> Code] /\ mu' \in Requests \cup {Nobody}
      BY <1>0, <1>19, <2>1 DEF RecordHTTP, GoTo, TypeOK, Point
    <3>2. scraped' \in [Requests -> Picture]
      BY <1>0, <1>19 DEF RecordHTTP, TypeOK, Picture, outputs
    <3>3. answer' \in [Requests -> Statuses \cup {0}]
      BY <1>0, <1>19, StatusType DEF RecordHTTP, TypeOK, outputs, Statuses
    <3>4. evaluations' \in Outcomes /\ latency' \in Nat
      BY <1>0, <1>19 DEF RecordHTTP, TypeOK, Outcomes, counters
    <3>5. httpRequests' \in [Route \X Statuses -> Nat]
      BY <1>0, <1>19, Increment DEF RecordHTTP, TypeOK, counters
    <3>6. call' \in Workloads /\ gone' \subseteq Requests /\ evaluated' \subseteq Requests
      BY <1>0, <1>19 DEF RecordHTTP, TypeOK, outputs
    <3> QED
      BY <3>1, <3>2, <3>3, <3>4, <3>5, <3>6 DEF TypeOK
  <2>4. MutexHeld'
    BY <1>19, <2>2, NobodyAssumption DEF RecordHTTP, Inv, MutexHeld, Recording, Writing
  <2>5. CountersAgree'
    BY <1>0, <1>19, <2>2, NobodyAssumption DEF RecordHTTP, Inv, MutexHeld, CountersAgree, Total, Recording, TypeOK, outputs, counters
  <2>6. SectionsAgree'
    BY <1>0, <1>19, <2>2, NobodyAssumption DEF RecordHTTP, Inv, MutexHeld, SectionsAgree, Recording, Writing, TypeOK, outputs, counters
  <2>7. Routed'
    BY <1>0, <1>19, <2>1, <2>2, StatusType, ZenonT(60) DEF RecordHTTP, Inv, Routed, Recording, Writing, Who, TypeOK, outputs
  <2>8. ScrapeIsConsistent'
    <3>1. answer' = answer /\ \A x \in Requests : x # r => scraped'[x] = scraped[x]
      BY <1>0, <1>19 DEF RecordHTTP, TypeOK, outputs
    <3>2. scraped'[r] = scraped[r] \/ answer[r] = 0
      BY <1>19 DEF RecordHTTP, Inv, Routed, outputs
    <3>3. ASSUME NEW x \in Requests, Scrape(x)'
          PROVE  Scrape(x) /\ scraped'[x] = scraped[x]
      <4>1. Scrape(x) /\ answer[x] # 0
        BY <2>1, <3>1, <3>3 DEF Scrape
      <4> QED
        BY <3>1, <3>2, <4>1
    <3> QED
      BY <3>3, ScrapesKept DEF Inv
  <2>9. NothingOutOfScope'
    BY <1>0, <1>19, <2>1 DEF RecordHTTP, Inv, NothingOutOfScope, Routed, Writing, Who, TypeOK, outputs
  <2> QED
    BY <2>3, <2>4, <2>5, <2>6, <2>7, <2>8, <2>9 DEF Inv
<1>20. ASSUME NEW r \in Requests, ClientLeaves(r) PROVE Inv'
  BY <1>20 DEF ClientLeaves, Inv, TypeOK, MutexHeld, CountersAgree, Total, SectionsAgree, Routed,
    ScrapeIsConsistent, Scrape, Attempts, NothingOutOfScope, Who, outputs, counters
<1>21. CASE UNCHANGED vars
  BY <1>21 DEF vars, Inv, TypeOK, MutexHeld, CountersAgree, Total, SectionsAgree, Routed,
    ScrapeIsConsistent, Scrape, Attempts, NothingOutOfScope, Who, outputs, counters
<1> QED
  BY <1>1, <1>2, <1>3, <1>4, <1>5, <1>6, <1>7, <1>8, <1>9, <1>10, <1>11, <1>12, <1>13, <1>14, <1>15, <1>16, <1>17, <1>18, <1>19, <1>20, <1>21
  DEF Next, Handler, Terminated

\* Hence it always holds.
LEMMA Invariance == Spec => []Inv
<1>1. Init => Inv
  BY InvInit
<1>2. Inv /\ [Next]_vars => Inv'
  BY InvStep
<1> QED
  BY <1>1, <1>2, PTL DEF Spec

\* In every scrape the latencies are as many as the evaluations: the mutex
\* covers both a recorder's two counters and a scrape's sections.
THEOREM ScrapesAreConsistent == Spec => []ScrapeIsConsistent
<1>1. Inv => ScrapeIsConsistent
  BY DEF Inv
<1> QED
  BY <1>1, Invariance, PTL

\* Nothing is evaluated, and no counter shown, out of a principal's scope.
THEOREM ScopesAreRespected == Spec => []NothingOutOfScope
<1>1. Inv => NothingOutOfScope
  BY DEF Inv
<1> QED
  BY <1>1, Invariance, PTL

-----------------------------------------------------------------------------
(* What Service leaves behind of each request: its event in the audit log,  *)
(* and its share of the counters.                                           *)

Late == {"answer", "answered", "done"}
Early == {"arrived", "handle", "evaluating"}

\* No error; no credentials.  (Kept folded: the solvers that know numbers do not
\* know the empty string.)
Blank(c) == c = ""
Denied(c) == c = "UNAUTHENTICATED"

\* What an error code says of where a request has been.
Coded(r) ==
    /\ pc[r] \in Early \cup Writing => Blank(code[r])
    /\ pc[r] \in {"record"} \cup Recording => code[r] # "UNAUTHENTICATED"
    /\ pc[r] \in {"answered", "done"} => answer[r] = Status(code[r])

\* Who leaves an event, and when.
Emits(r) == call[r].route = "evaluations" \/ code[r] = "UNAUTHENTICATED"

Logged(r) ==
    IF pc[r] \in Late /\ Emits(r)
    THEN \E i \in DOMAIN audit : EventsOf(r) = {i} /\ audit[i] = Event(r)
    ELSE EventsOf(r) = {}

AuditEvent == [request : Requests, type : {"api_access", "evaluation"},
               outcome : {"completed", "rejected", "denied"}, code : Code]

AuditInv == audit \in Seq(AuditEvent) /\ \A r \in Requests : Coded(r) /\ Logged(r)

\* A handler changes what is known of its own request only, and the audit log
\* is written at one point.
Private(r) ==
    /\ call' = call
    /\ \A x \in Requests \ {r} : /\ pc'[x] = pc[x] /\ code'[x] = code[x]
                                 /\ answer'[x] = answer[x] /\ scraped'[x] = scraped[x]
    /\ audit' = audit \/ audit' = Append(audit, Event(r))

LEMMA HandlerIsPrivate ==
    ASSUME TypeOK, NEW r \in Requests, Handler(r)
    PROVE  Private(r)
<1> USE DEF Private, TypeOK, GoTo, GoWith, counters, outputs
<1>1. CASE ServeUnprotected(r) \/ Unauthenticated(r) \/ Authenticated(r)
  BY <1>1 DEF ServeUnprotected, Unauthenticated, Authenticated
<1>2. CASE Undecodable(r) \/ Forbidden(r) \/ CallEvaluate(r)
  BY <1>2 DEF Undecodable, Forbidden, CallEvaluate
<1>3. CASE EvaluateReturns(r)
  BY <1>3 DEF EvaluateReturns
<1>4. CASE LockToRecord(r) \/ Count(r) \/ ObserveLatency(r) \/ RecordAudit(r)
  BY <1>4 DEF LockToRecord, Count, ObserveLatency, RecordAudit
<1>5. CASE ListPolicies(r) \/ RefuseScrape(r) \/ LockToScrape(r)
  BY <1>5 DEF ListPolicies, RefuseScrape, LockToScrape
<1>6. CASE WriteRequests(r) \/ WriteEvaluations(r) \/ WriteLatency(r)
  BY <1>6 DEF WriteRequests, WriteEvaluations, WriteLatency
<1>7. CASE WriteAnswer(r) \/ RecordHTTP(r)
  BY <1>7 DEF WriteAnswer, RecordHTTP
<1> QED
  BY <1>1, <1>2, <1>3, <1>4, <1>5, <1>6, <1>7 DEF Handler

LEMMA EventType == ASSUME TypeOK, NEW r \in Requests PROVE Event(r) \in AuditEvent
<1>1. code[r] \in Code /\ Outcome(r) \in {"completed", "rejected"}
  BY DEF TypeOK, Outcome
<1>2. CASE code[r] = "UNAUTHENTICATED"
  <2>1. Event(r) = [request |-> r, type |-> "api_access", outcome |-> "denied", code |-> code[r]]
    BY <1>2 DEF Event
  <2> QED
    BY <1>1, <2>1 DEF AuditEvent
<1>3. CASE code[r] # "UNAUTHENTICATED"
  <2>1. Event(r) = [request |-> r, type |-> "evaluation", outcome |-> Outcome(r), code |-> code[r]]
    BY <1>3 DEF Event
  <2> QED
    BY <1>1, <2>1 DEF AuditEvent
<1> QED
  BY <1>2, <1>3

\* The status tells a completed call and one without credentials from the
\* others.
LEMMA StatusTells ==
    ASSUME NEW c \in Code
    PROVE  (Status(c) = 200 <=> Blank(c)) /\ (Status(c) = 401 <=> Denied(c))
<1>1. /\ Blank(c) => ~Denied(c)
      /\ ~Blank(c) /\ ~Denied(c) =>
            c \in {"FORBIDDEN", "NOT_FOUND", "INVALID_REQUEST", "UNKNOWN_POLICY",
                   "EVALUATION_DEADLINE_EXCEEDED"}
  BY Zenon DEF Blank, Denied, Code
<1>2. Blank(c) => Status(c) = 200
  BY DEF Blank, Status
<1>3. Denied(c) => Status(c) = 401
  BY DEF Denied, Status
<1>4. \A x \in {"FORBIDDEN", "NOT_FOUND", "INVALID_REQUEST", "UNKNOWN_POLICY",
                "EVALUATION_DEADLINE_EXCEEDED"} : Status(x) # 401
  <2>1. \A x : x # "UNAUTHENTICATED" => Status(x) # 401
    BY DEF Status
  <2> QED
    BY <2>1
<1> QED
  BY <1>1, <1>2, <1>3, <1>4, StatusType

\* Another request's event leaves one's own alone.
LEMMA OthersLogged ==
    ASSUME TypeOK, AuditInv, NEW r \in Requests, Private(r), NEW x \in Requests, x # r
    PROVE  Coded(x)' /\ Logged(x)'
<1>1. /\ call'[x] = call[x] /\ pc'[x] = pc[x] /\ code'[x] = code[x] /\ answer'[x] = answer[x]
      /\ Coded(x) /\ Logged(x) /\ audit \in Seq(AuditEvent)
  BY DEF Private, AuditInv
<1>2. Coded(x)'
  BY <1>1 DEF Coded
<1>3. Event(x)' = Event(x) /\ Emits(x)' = Emits(x)
  BY <1>1 DEF Event, Emits, Outcome
<1>4. /\ EventsOf(x)' = EventsOf(x)
      /\ \A i \in DOMAIN audit : i \in DOMAIN audit' /\ audit'[i] = audit[i]
  <2>1. CASE audit' = audit
    BY <2>1 DEF EventsOf
  <2>2. CASE audit' = Append(audit, Event(r))
    <3>1. Event(r).request = r /\ Event(r) \in AuditEvent
      BY EventType DEF Event
    <3>2. /\ DOMAIN audit = 1 .. Len(audit) /\ Len(audit) \in Nat
          /\ DOMAIN audit' = 1 .. (Len(audit) + 1)
          /\ \A i \in 1 .. Len(audit) : audit'[i] = audit[i]
          /\ audit'[Len(audit) + 1] = Event(r)
      BY <1>1, <2>2, <3>1
    <3> QED
      BY <3>1, <3>2 DEF EventsOf
  <2> QED
    BY <2>1, <2>2 DEF Private
<1>5. Logged(x)'
  BY <1>1, <1>3, <1>4 DEF Logged
<1> QED
  BY <1>2, <1>5

\* The one event of a request.
LEMMA OwnLogged ==
    ASSUME TypeOK, Routed, AuditInv, NEW r \in Requests, RecordAudit(r)
    PROVE  Coded(r)' /\ Logged(r)' /\ audit' \in Seq(AuditEvent)
<1>1. /\ pc'[r] = "answer" /\ code'[r] = code[r] /\ call' = call
      /\ audit \in Seq(AuditEvent) /\ audit' = Append(audit, Event(r))
      /\ Emits(r) /\ Emits(r)' /\ EventsOf(r) = {} /\ Event(r)' = Event(r)
  BY DEF RecordAudit, GoTo, TypeOK, Routed, AuditInv, Logged, Emits, Late, Event, Outcome
<1>2. Event(r).request = r /\ Event(r) \in AuditEvent
  BY EventType DEF Event
<1>3. /\ DOMAIN audit = 1 .. Len(audit) /\ Len(audit) \in Nat
      /\ DOMAIN audit' = 1 .. (Len(audit) + 1)
      /\ \A i \in 1 .. Len(audit) : audit'[i] = audit[i]
      /\ audit'[Len(audit) + 1] = Event(r)
      /\ audit' \in Seq(AuditEvent)
  BY <1>1, <1>2
<1>4. EventsOf(r)' = {Len(audit) + 1}
  BY <1>1, <1>2, <1>3 DEF EventsOf
<1>5. Logged(r)'
  <2>1. Len(audit) + 1 \in DOMAIN audit' /\ audit'[Len(audit) + 1] = Event(r)'
    BY <1>1, <1>3
  <2> QED
    BY <1>1, <1>4, <2>1 DEF Logged, Late
<1>6. Coded(r)'
  BY <1>1 DEF Coded, Early, Writing, Recording
<1> QED
  BY <1>3, <1>5, <1>6

\* A step that leaves the log alone, and does not take a request that emits an
\* event to its answer.
LEMMA OwnUnlogged ==
    ASSUME AuditInv, NEW r \in Requests, audit' = audit, call' = call,
           \/ code'[r] = code[r] /\ (pc[r] \in Late <=> pc'[r] \in Late)
           \/ pc[r] \notin Late /\ (pc'[r] \notin Late \/ ~Emits(r)')
    PROVE  Logged(r)' /\ audit' \in Seq(AuditEvent)
<1>1. EventsOf(r)' = EventsOf(r) /\ DOMAIN audit' = DOMAIN audit /\ audit' \in Seq(AuditEvent)
  BY DEF AuditInv, EventsOf
<1>2. Logged(r)
  BY DEF AuditInv
<1>3. CASE code'[r] = code[r] /\ (pc[r] \in Late <=> pc'[r] \in Late)
  <2>1. Event(r)' = Event(r) /\ Emits(r)' = Emits(r)
    BY <1>3 DEF Event, Outcome, Emits
  <2> QED
    BY <1>1, <1>2, <1>3, <2>1 DEF Logged
<1>4. CASE pc[r] \notin Late /\ (pc'[r] \notin Late \/ ~Emits(r)')
  BY <1>1, <1>2, <1>4 DEF Logged
<1> QED
  BY <1>1, <1>3, <1>4

LEMMA OwnStep ==
    ASSUME TypeOK, Routed, AuditInv, NEW r \in Requests, Handler(r)
    PROVE  Coded(r)' /\ Logged(r)' /\ audit' \in Seq(AuditEvent)
<1> USE DEF TypeOK, GoTo, GoWith, Emits, Late, Early, Writing, Recording, counters, outputs
<1>0. Coded(r)
  BY DEF AuditInv
<1>1. CASE ServeUnprotected(r)
  <2>1. /\ audit' = audit /\ call' = call /\ pc[r] = "arrived" /\ pc'[r] = "answer"
        /\ code'[r] \in {"", "NOT_FOUND"} /\ call[r].route # "evaluations"
    BY <1>1 DEF ServeUnprotected, Protected
  <2> QED
    BY <2>1, OwnUnlogged DEF Coded
<1>2. CASE Unauthenticated(r) \/ Authenticated(r)
  <2>1. /\ audit' = audit /\ call' = call /\ pc[r] = "arrived" /\ pc'[r] \in {"audit", "handle"}
        /\ pc'[r] = "handle" => code'[r] = code[r]
    BY <1>2 DEF Unauthenticated, Authenticated
  <2> QED
    BY <1>0, <2>1, OwnUnlogged DEF Coded
<1>3. CASE Undecodable(r) \/ Forbidden(r) \/ CallEvaluate(r)
  <2>1. /\ audit' = audit /\ call' = call /\ pc[r] = "handle" /\ pc'[r] \in {"record", "evaluating"}
        /\ pc'[r] = "evaluating" => code'[r] = code[r]
        /\ pc'[r] = "record" => code'[r] # "UNAUTHENTICATED"
    BY <1>0, <1>3 DEF Undecodable, Forbidden, CallEvaluate, Evaluating, Coded
  <2> QED
    BY <1>0, <2>1, OwnUnlogged DEF Coded
<1>4. CASE EvaluateReturns(r)
  <2>1. /\ audit' = audit /\ call' = call /\ pc[r] = "evaluating" /\ pc'[r] = "record"
        /\ code'[r] # "UNAUTHENTICATED"
    BY <1>4 DEF EvaluateReturns
  <2> QED
    BY <2>1, OwnUnlogged DEF Coded
<1>5. CASE LockToRecord(r) \/ Count(r) \/ ObserveLatency(r)
  <2>1. /\ audit' = audit /\ call' = call /\ pc[r] \in {"record"} \cup Recording
        /\ pc'[r] \in Recording \cup {"audit"} /\ code'[r] = code[r]
    BY <1>5 DEF LockToRecord, Count, ObserveLatency
  <2> QED
    BY <1>0, <2>1, OwnUnlogged DEF Coded
<1>6. CASE RecordAudit(r)
  BY <1>6, OwnLogged
<1>7. CASE ListPolicies(r) \/ RefuseScrape(r)
  <2>1. /\ audit' = audit /\ call' = call /\ pc[r] = "handle" /\ pc'[r] = "answer"
        /\ code'[r] \in {"", "FORBIDDEN"} /\ call[r].route # "evaluations"
    BY <1>7 DEF ListPolicies, RefuseScrape
  <2> QED
    BY <2>1, OwnUnlogged DEF Coded
<1>8. CASE LockToScrape(r) \/ WriteRequests(r) \/ WriteEvaluations(r)
  <2>1. /\ audit' = audit /\ call' = call /\ pc[r] \in {"handle"} \cup Writing
        /\ pc'[r] \in Writing /\ code'[r] = code[r]
    BY <1>8 DEF LockToScrape, WriteRequests, WriteEvaluations
  <2> QED
    BY <1>0, <2>1, OwnUnlogged DEF Coded
<1>9. CASE WriteLatency(r)
  <2>1. /\ audit' = audit /\ call' = call /\ pc[r] = "writeLatency" /\ pc'[r] = "answered"
        /\ code'[r] = code[r] /\ Blank(code[r]) /\ answer'[r] = 200
        /\ code'[r] \in Code /\ call[r].route = "metrics"
    BY <1>0, <1>9 DEF WriteLatency, Coded, Routed
  <2>2. code'[r] # "UNAUTHENTICATED"
    <3>1. Blank(code'[r])
      BY <2>1
    <3> QED
      BY <3>1, Zenon DEF Blank
  <2> QED
    <3>1. Coded(r)'
      <4>1. answer'[r] = Status(code'[r])
        BY <2>1, StatusTells
      <4> QED
        BY <2>1, <4>1 DEF Coded
    <3> QED
      BY <2>1, <2>2, <3>1, OwnUnlogged
<1>10. CASE WriteAnswer(r)
  <2>1. /\ audit' = audit /\ call' = call /\ pc[r] = "answer" /\ pc'[r] = "answered"
        /\ code'[r] = code[r] /\ answer'[r] = Status(code[r])
    BY <1>10 DEF WriteAnswer
  <2> QED
    BY <2>1, OwnUnlogged DEF Coded
<1>11. CASE RecordHTTP(r)
  <2>1. /\ audit' = audit /\ call' = call /\ pc[r] = "answered" /\ pc'[r] = "done"
        /\ code'[r] = code[r] /\ answer'[r] = answer[r]
    BY <1>11 DEF RecordHTTP
  <2> QED
    BY <1>0, <2>1, OwnUnlogged DEF Coded
<1> QED
  BY <1>1, <1>2, <1>3, <1>4, <1>5, <1>6, <1>7, <1>8, <1>9, <1>10, <1>11 DEF Handler

LEMMA AuditInit == Init => AuditInv
<1> SUFFICES ASSUME Init PROVE AuditInv
  OBVIOUS
<1>1. audit = <<>> /\ DOMAIN audit = {} /\ audit \in Seq(AuditEvent)
  <2>1. audit = <<>>
    BY DEF Init
  <2> QED
    BY <2>1
<1>2. \A r \in Requests : pc[r] = "arrived" /\ Blank(code[r]) /\ EventsOf(r) = {}
  BY <1>1 DEF Init, EventsOf, Blank
<1> QED
  BY <1>1, <1>2 DEF AuditInv, Coded, Logged, Late, Recording

LEMMA AuditStep == Inv /\ AuditInv /\ [Next]_vars => AuditInv'
<1> SUFFICES ASSUME Inv, AuditInv, [Next]_vars PROVE AuditInv'
  OBVIOUS
<1>1. ASSUME NEW r \in Requests, Handler(r) PROVE AuditInv'
  <2>1. Coded(r)' /\ Logged(r)' /\ audit' \in Seq(AuditEvent)
    BY <1>1, OwnStep DEF Inv
  <2>2. \A x \in Requests : x # r => Coded(x)' /\ Logged(x)'
    BY <1>1, HandlerIsPrivate, OthersLogged DEF Inv
  <2> QED
    BY <2>1, <2>2 DEF AuditInv
<1>2. ASSUME UNCHANGED <<call, pc, code, answer, audit>> PROVE AuditInv'
  <2>1. \A r \in Requests : Coded(r)' /\ EventsOf(r)' = EventsOf(r)
    BY <1>2 DEF AuditInv, Coded, EventsOf
  <2>2. \A r \in Requests : Event(r)' = Event(r) /\ Emits(r)' = Emits(r)
    BY <1>2 DEF Event, Outcome, Emits
  <2> QED
    BY <1>2, <2>1, <2>2 DEF AuditInv, Logged
<1>3. CASE \E r \in Requests : ClientLeaves(r)
  BY <1>2, <1>3 DEF ClientLeaves, outputs
<1>4. CASE UNCHANGED vars
  BY <1>2, <1>4 DEF vars, outputs
<1> QED
  BY <1>1, <1>3, <1>4 DEF Next, Terminated

\* For any workload, nobody is answered whose evaluation, or whose refused
\* credentials, is not in the audit log, once and with the outcome of the answer.
THEOREM NoAnswerUnaudited == Spec => []AuditedBeforeAnswered
<1>1. Inv /\ AuditInv => AuditedBeforeAnswered
  <2> SUFFICES ASSUME Inv, AuditInv, NEW r \in Requests, answer[r] # 0
               PROVE  IF call[r].route = "evaluations" \/ answer[r] = 401
                      THEN \E i \in EventsOf(r) :
                              /\ EventsOf(r) = {i}
                              /\ Status(audit[i].code) = answer[r]
                              /\ audit[i].outcome = (CASE answer[r] = 200 -> "completed"
                                                       [] answer[r] = 401 -> "denied"
                                                       [] OTHER           -> "rejected")
                      ELSE EventsOf(r) = {}
    BY DEF AuditedBeforeAnswered
  <2>1. /\ pc[r] \in {"answered", "done"} /\ answer[r] = Status(code[r])
        /\ code[r] \in Code /\ Logged(r)
    BY DEF Inv, TypeOK, Routed, AuditInv, Coded
  <2>2. answer[r] = 401 <=> Denied(code[r])
    BY <2>1, StatusTells
  <2>3. answer[r] = 200 <=> Blank(code[r])
    BY <2>1, StatusTells
  <2>4. CASE Emits(r)
    <3>1. PICK i \in DOMAIN audit : EventsOf(r) = {i} /\ audit[i] = Event(r)
      BY <2>1, <2>4 DEF Logged, Late
    <3>2. Event(r).code = code[r]
      BY DEF Event
    <3>3. Event(r).outcome = (CASE answer[r] = 200 -> "completed"
                                [] answer[r] = 401 -> "denied"
                                [] OTHER           -> "rejected")
      <4>1. Event(r).outcome = IF Denied(code[r]) THEN "denied"
                               ELSE IF Blank(code[r]) THEN "completed" ELSE "rejected"
        BY DEF Event, Outcome, Denied, Blank
      <4>2. ~(Blank(code[r]) /\ Denied(code[r]))
        BY Zenon DEF Blank, Denied
      <4> QED
        BY <2>2, <2>3, <4>1, <4>2
    <3> QED
      BY <2>1, <2>2, <2>4, <3>1, <3>2, <3>3 DEF Emits, Denied
  <2>5. CASE ~Emits(r)
    BY <2>1, <2>2, <2>5 DEF Emits, Logged, Denied
  <2> QED
    BY <2>4, <2>5
<1> QED
  BY <1>1, AuditInit, AuditStep, Invariance, PTL DEF Spec

-----------------------------------------------------------------------------
(* The counters count requests. *)

\* The evaluations that have been counted, and the ones whose answer has been.
CountedAt == {"observe", "audit", "answer", "answered", "done"}
Completed == {r \in Requests : /\ call[r].route = "evaluations" /\ pc[r] \in CountedAt
                               /\ Blank(code[r])}
Rejected == {r \in Requests : /\ call[r].route = "evaluations" /\ pc[r] \in CountedAt
                              /\ ~Blank(code[r]) /\ ~Denied(code[r])}
Answered(statuses) == {r \in Requests : /\ call[r].route = "evaluations" /\ pc[r] = "done"
                                        /\ answer[r] \in statuses}

CountIs(S, n) == IsFiniteSet(S) /\ Cardinality(S) = n

Requested(requests, status) == requests[<<"evaluations", status>>]
Refusals(requests) ==
    Requested(requests, 400) + Requested(requests, 403) + Requested(requests, 504)

\* What a picture of the counters must agree on.
Within(requests, counted) ==
    /\ Requested(requests, 200) <= counted.completed
    /\ Refusals(requests) <= counted.rejected

CountInv ==
    /\ CountIs(Completed, evaluations.completed)
    /\ CountIs(Rejected, evaluations.rejected)
    /\ CountIs(Answered({200}), Requested(httpRequests, 200))
    /\ CountIs(Answered({400, 403, 504}), Refusals(httpRequests))

\* A picture that is being written: its evaluations are at least those answered.
PictureInv ==
    \A r \in Requests :
        /\ pc[r] = "writeEvaluations" => Within(scraped[r].requests, evaluations)
        /\ pc[r] = "writeLatency" => Within(scraped[r].requests, scraped[r].evaluations)

LEMMA AddOne ==
    ASSUME NEW S, NEW n \in Nat, CountIs(S, n), NEW x, x \notin S
    PROVE  CountIs(S \cup {x}, n + 1)
BY FS_AddElement DEF CountIs

\* An evaluation that was answered was counted before.
LEMMA AnsweredWereCounted ==
    ASSUME TypeOK, AuditInv, CountInv
    PROVE  Within(httpRequests, evaluations)
<1>1. Answered({200}) \subseteq Completed /\ Answered({400, 403, 504}) \subseteq Rejected
  <2> SUFFICES ASSUME NEW r \in Requests, call[r].route = "evaluations", pc[r] = "done"
               PROVE  /\ answer[r] = 200 => Blank(code[r])
                      /\ answer[r] \in {400, 403, 504} => ~Blank(code[r]) /\ ~Denied(code[r])
    BY DEF Answered, Completed, Rejected, CountedAt
  <2>1. answer[r] = Status(code[r]) /\ code[r] \in Code
    BY DEF TypeOK, AuditInv, Coded
  <2>2. (answer[r] = 200 <=> Blank(code[r])) /\ (answer[r] = 401 <=> Denied(code[r]))
    BY <2>1, StatusTells
  <2> QED
    BY <2>2
<1>2. /\ Cardinality(Answered({200})) <= Cardinality(Completed)
      /\ Cardinality(Answered({400, 403, 504})) <= Cardinality(Rejected)
  BY <1>1, FS_Subset DEF CountInv, CountIs
<1> QED
  BY <1>2 DEF CountInv, CountIs, Within

LEMMA CountInit == Init => CountInv /\ PictureInv
<1> SUFFICES ASSUME Init PROVE CountInv /\ PictureInv
  OBVIOUS
<1>1. \A r \in Requests : pc[r] = "arrived"
  BY DEF Init
<1>2. Completed = {} /\ Rejected = {} /\ Answered({200}) = {} /\ Answered({400, 403, 504}) = {}
  BY <1>1 DEF Completed, Rejected, Answered, CountedAt
<1>3. /\ Requested(httpRequests, 200) = 0 /\ Requested(httpRequests, 400) = 0
      /\ Requested(httpRequests, 403) = 0 /\ Requested(httpRequests, 504) = 0
      /\ evaluations.completed = 0 /\ evaluations.rejected = 0
  <2>1. "evaluations" \in Route /\ {200, 400, 403, 504} \subseteq Statuses
    BY DEF Route, Statuses
  <2>2. \A s \in Statuses : httpRequests[<<"evaluations", s>>] = 0
    <3>1. httpRequests = [k \in Route \X Statuses |-> 0]
      BY DEF Init
    <3> HIDE DEF Init
    <3> QED
      BY <2>1, <3>1
  <2>3. evaluations.completed = 0 /\ evaluations.rejected = 0
    BY DEF Init
  <2> QED
    BY <2>1, <2>2, <2>3 DEF Requested
<1>4. PictureInv
  BY <1>1 DEF PictureInv
<1> QED
  BY <1>2, <1>3, <1>4, FS_EmptySet DEF CountInv, CountIs, Refusals

\* A step that counts nothing: no request passes a counter.
LEMMA NothingCounted ==
    ASSUME CountInv, UNCHANGED <<call, evaluations, httpRequests>>,
           \A x \in Requests :
              \/ pc'[x] = pc[x] /\ code'[x] = code[x] /\ answer'[x] = answer[x]
              \/ call[x].route # "evaluations"
              \/ pc[x] \in CountedAt \ {"done"} /\ pc'[x] \in CountedAt \ {"done"}
                    /\ code'[x] = code[x]
              \/ pc[x] \notin CountedAt /\ pc'[x] \notin CountedAt
              \/ pc[x] \notin CountedAt /\ pc'[x] # "done" /\ Denied(code'[x])
    PROVE  CountInv'
<1>1. /\ Completed' = Completed /\ Rejected' = Rejected
      /\ Answered({200})' = Answered({200})
      /\ Answered({400, 403, 504})' = Answered({400, 403, 504})
  <2>1. \A x \in Requests : ~(Blank(code'[x]) /\ Denied(code'[x]))
    BY Zenon DEF Blank, Denied
  <2> QED
    BY <2>1 DEF Completed, Rejected, Answered, CountedAt
<1> QED
  BY <1>1 DEF CountInv, CountIs, Requested, Refusals

\* The step that counts an evaluation.
LEMMA EvaluationCounted ==
    ASSUME TypeOK, Routed, AuditInv, CountInv, NEW r \in Requests, Count(r)
    PROVE  /\ CountInv'
           /\ \A requests \in [Route \X Statuses -> Nat] :
                 Within(requests, evaluations) => Within(requests, evaluations')
<1>1. /\ pc[r] = "count" /\ pc'[r] = "observe" /\ UNCHANGED <<call, code, answer, httpRequests>>
      /\ \A x \in Requests : x # r => pc'[x] = pc[x]
      /\ call[r].route = "evaluations" /\ ~Denied(code[r])
  BY DEF Count, GoTo, TypeOK, Routed, AuditInv, Coded, Recording, Denied, outputs
<1>2. /\ evaluations.completed \in Nat /\ evaluations.rejected \in Nat
      /\ evaluations'.completed =
            IF Blank(code[r]) THEN evaluations.completed + 1 ELSE evaluations.completed
      /\ evaluations'.rejected =
            IF Blank(code[r]) THEN evaluations.rejected ELSE evaluations.rejected + 1
  <2>1. /\ evaluations \in Outcomes
        /\ evaluations' = [evaluations EXCEPT ![Outcome(r)] = @ + 1]
        /\ Outcome(r) = IF Blank(code[r]) THEN "completed" ELSE "rejected"
    BY DEF TypeOK, Count, Outcome, Blank
  <2> QED
    BY <2>1 DEF Outcomes
<1>3. /\ r \notin Completed /\ r \notin Rejected
      /\ Completed' = IF Blank(code[r]) THEN Completed \cup {r} ELSE Completed
      /\ Rejected' = IF Blank(code[r]) THEN Rejected ELSE Rejected \cup {r}
  BY <1>1 DEF Completed, Rejected, CountedAt
<1>4. Answered({200})' = Answered({200}) /\ Answered({400, 403, 504})' = Answered({400, 403, 504})
  BY <1>1 DEF Answered
<1>5. CountIs(Completed', evaluations'.completed) /\ CountIs(Rejected', evaluations'.rejected)
  <2>1. CASE Blank(code[r])
    BY <1>2, <1>3, <2>1, AddOne DEF CountInv
  <2>2. CASE ~Blank(code[r])
    BY <1>2, <1>3, <2>2, AddOne DEF CountInv
  <2> QED
    BY <2>1, <2>2
<1>6. CountInv'
  BY <1>1, <1>4, <1>5 DEF CountInv, CountIs, Requested, Refusals
<1>7. ASSUME NEW requests \in [Route \X Statuses -> Nat], Within(requests, evaluations)
      PROVE  Within(requests, evaluations')
  <2>1. Requested(requests, 200) \in Nat /\ Refusals(requests) \in Nat
    BY DEF Requested, Refusals, Route, Statuses
  <2> QED
    BY <1>2, <1>7, <2>1 DEF Within
<1> QED
  BY <1>6, <1>7

\* The step that counts an answer.
LEMMA AnswerCounted ==
    ASSUME TypeOK, AuditInv, CountInv, NEW r \in Requests, RecordHTTP(r)
    PROVE  CountInv'
<1> DEFINE status == answer[r]
           key == <<call[r].route, status>>
<1>1. /\ pc[r] = "answered" /\ pc'[r] = "done" /\ UNCHANGED <<call, code, answer, evaluations>>
      /\ \A x \in Requests : x # r => pc'[x] = pc[x]
      /\ httpRequests' = [httpRequests EXCEPT ![key] = @ + 1]
      /\ httpRequests \in [Route \X Statuses -> Nat]
  BY DEF RecordHTTP, GoTo, TypeOK, outputs
<1>2. Completed' = Completed /\ Rejected' = Rejected
  BY <1>1 DEF Completed, Rejected, CountedAt
<1>3. \A s \in Statuses : /\ Requested(httpRequests, s) \in Nat
                          /\ Requested(httpRequests', s) =
                                IF call[r].route = "evaluations" /\ status = s
                                THEN Requested(httpRequests, s) + 1
                                ELSE Requested(httpRequests, s)
  BY <1>1 DEF Requested, Route
<1> HIDE DEF key
<1>4. \A S : /\ r \notin Answered(S)
             /\ Answered(S)' = IF call[r].route = "evaluations" /\ status \in S
                               THEN Answered(S) \cup {r} ELSE Answered(S)
  BY <1>1 DEF Answered
<1>5. CountIs(Answered({200})', Requested(httpRequests', 200))
  <2>1. /\ r \notin Answered({200}) /\ CountIs(Answered({200}), Requested(httpRequests, 200))
        /\ Requested(httpRequests, 200) \in Nat
    BY <1>3, <1>4 DEF CountInv, Statuses
  <2>2. CASE call[r].route = "evaluations" /\ status = 200
    <3>1. /\ Answered({200})' = Answered({200}) \cup {r}
          /\ Requested(httpRequests', 200) = Requested(httpRequests, 200) + 1
      BY <1>3, <1>4, <2>2 DEF Statuses
    <3> QED
      BY <2>1, <3>1, AddOne
  <2>3. CASE ~(call[r].route = "evaluations" /\ status = 200)
    <3>1. /\ Answered({200})' = Answered({200})
          /\ Requested(httpRequests', 200) = Requested(httpRequests, 200)
      BY <1>3, <1>4, <2>3 DEF Statuses
    <3> QED
      BY <2>1, <3>1
  <2> QED
    BY <2>2, <2>3
<1>6. CountIs(Answered({400, 403, 504})', Refusals(httpRequests'))
  <2>1. /\ r \notin Answered({400, 403, 504})
        /\ CountIs(Answered({400, 403, 504}), Refusals(httpRequests))
        /\ Refusals(httpRequests) \in Nat
    BY <1>3, <1>4 DEF CountInv, Statuses, Refusals
  <2>2. CASE call[r].route = "evaluations" /\ status \in {400, 403, 504}
    <3>1. /\ Answered({400, 403, 504})' = Answered({400, 403, 504}) \cup {r}
          /\ Refusals(httpRequests') = Refusals(httpRequests) + 1
      BY <1>3, <1>4, <2>2 DEF Statuses, Refusals
    <3> QED
      BY <2>1, <3>1, AddOne
  <2>3. CASE ~(call[r].route = "evaluations" /\ status \in {400, 403, 504})
    <3>1. /\ Answered({400, 403, 504})' = Answered({400, 403, 504})
          /\ Refusals(httpRequests') = Refusals(httpRequests)
      BY <1>3, <1>4, <2>3 DEF Statuses, Refusals
    <3> QED
      BY <2>1, <3>1
  <2> QED
    BY <2>2, <2>3
<1> QED
  BY <1>1, <1>2, <1>5, <1>6 DEF CountInv

\* The other steps of a handler count nothing.
Counts(r) == Count(r) \/ RecordHTTP(r)

LEMMA OthersCountNothing ==
    ASSUME TypeOK, Routed, AuditInv, CountInv, NEW r \in Requests, Handler(r), ~Counts(r)
    PROVE  CountInv' /\ UNCHANGED <<evaluations, httpRequests>>
<1> USE DEF TypeOK, GoTo, GoWith, counters, outputs
<1>1. /\ call' = call
      /\ \A x \in Requests : x # r => pc'[x] = pc[x] /\ code'[x] = code[x] /\ answer'[x] = answer[x]
  BY HandlerIsPrivate DEF Private
<1>2. UNCHANGED <<evaluations, httpRequests>>
  BY DEF Handler, Counts, ServeUnprotected, Unauthenticated, Authenticated, Undecodable,
         Forbidden, CallEvaluate, EvaluateReturns, LockToRecord, ObserveLatency, RecordAudit,
         ListPolicies, RefuseScrape, LockToScrape, WriteRequests, WriteEvaluations,
         WriteLatency, WriteAnswer
<1>3. CASE ServeUnprotected(r) \/ ListPolicies(r) \/ RefuseScrape(r)
  <2>1. call[r].route # "evaluations"
    BY <1>3 DEF ServeUnprotected, Protected, ListPolicies, RefuseScrape
  <2> QED
    BY <1>1, <1>2, <2>1, NothingCounted
<1>4. CASE Unauthenticated(r)
  <2>1. pc[r] = "arrived" /\ pc'[r] = "audit" /\ Denied(code'[r])
    BY <1>4 DEF Unauthenticated, Denied
  <2> QED
    BY <1>1, <1>2, <2>1, NothingCounted DEF CountedAt
<1>5. CASE Authenticated(r) \/ Undecodable(r) \/ Forbidden(r) \/ CallEvaluate(r)
           \/ EvaluateReturns(r) \/ LockToRecord(r)
  <2>1. pc[r] \notin CountedAt /\ pc'[r] \notin CountedAt
    BY <1>5 DEF Authenticated, Undecodable, Forbidden, CallEvaluate, EvaluateReturns, Evaluating,
                LockToRecord, CountedAt
  <2> QED
    BY <1>1, <1>2, <2>1, NothingCounted
<1>6. CASE ObserveLatency(r) \/ RecordAudit(r) \/ WriteAnswer(r)
  <2>1. /\ pc[r] \in CountedAt \ {"done"} /\ pc'[r] \in CountedAt \ {"done"}
        /\ code'[r] = code[r]
    BY <1>6 DEF ObserveLatency, RecordAudit, WriteAnswer, CountedAt
  <2> QED
    BY <1>1, <1>2, <2>1, NothingCounted
<1>7. CASE LockToScrape(r) \/ WriteRequests(r) \/ WriteEvaluations(r) \/ WriteLatency(r)
  <2>1. call[r].route # "evaluations"
    BY <1>7 DEF LockToScrape, WriteRequests, WriteEvaluations, WriteLatency, Routed, Writing
  <2> QED
    BY <1>1, <1>2, <2>1, NothingCounted
<1> QED
  BY <1>2, <1>3, <1>4, <1>5, <1>6, <1>7 DEF Handler, Counts

LEMMA CountStep ==
    ASSUME TypeOK, Routed, AuditInv, CountInv, NEW r \in Requests, Handler(r)
    PROVE  /\ CountInv'
           /\ \A requests \in [Route \X Statuses -> Nat] :
                 Within(requests, evaluations) => Within(requests, evaluations')
<1>1. CASE Count(r)
  BY <1>1, EvaluationCounted
<1>2. CASE RecordHTTP(r)
  BY <1>2, AnswerCounted DEF RecordHTTP
<1>3. CASE ~Counts(r)
  BY <1>3, OthersCountNothing
<1> QED
  BY <1>1, <1>2, <1>3 DEF Counts

\* A scrape that still writes is not answered.
LEMMA Unanswered ==
    ASSUME Routed, NEW r \in Requests, pc[r] \in Writing, answer'[r] = answer[r]
    PROVE  ~Scrape(r)'
<1>1. answer[r] = 0
  BY DEF Routed, Writing
<1>2. answer'[r] # 200
  BY <1>1
<1> QED
  BY <1>2 DEF Scrape

\* A scrape takes the answers first, and the evaluations no earlier.
LEMMA PictureStep ==
    ASSUME Inv, AuditInv, CountInv, PictureInv, AnswersWereCounted, NEW r \in Requests, Handler(r)
    PROVE  PictureInv' /\ AnswersWereCounted'
<1> DEFINE Pictured(x) == Within(scraped[x].requests, scraped[x].evaluations)
<1>0. /\ TypeOK /\ Routed /\ Private(r) /\ Within(httpRequests, evaluations)
      /\ AnswersWereCounted <=> \A x \in Requests : Scrape(x) => Pictured(x)
      /\ AnswersWereCounted' <=> \A x \in Requests : Scrape(x)' => Pictured(x)'
  BY HandlerIsPrivate, AnsweredWereCounted
  DEF Inv, AnswersWereCounted, Within, Requested, Refusals
<1>1. ASSUME NEW x \in Requests, pc[x] = "writeEvaluations", Within(scraped[x].requests, evaluations)
      PROVE  Within(scraped[x].requests, evaluations')
  <2>1. scraped[x].requests \in [Route \X Statuses -> Nat]
    BY <1>0 DEF TypeOK, Picture
  <2> QED
    BY <1>0, <1>1, <2>1, CountStep
<1>2. ASSUME NEW x \in Requests, x # r
      PROVE  /\ pc'[x] = "writeEvaluations" => Within(scraped'[x].requests, evaluations')
             /\ pc'[x] = "writeLatency" => Pictured(x)'
             /\ Scrape(x)' => Pictured(x)'
  <2>1. /\ pc'[x] = pc[x] /\ scraped'[x] = scraped[x]
        /\ Scrape(x)' <=> Scrape(x)
    BY <1>0, <1>2 DEF Private, Scrape
  <2> QED
    BY <1>0, <1>1, <2>1 DEF PictureInv
<1>3. /\ pc'[r] = "writeEvaluations" => Within(scraped'[r].requests, evaluations')
      /\ pc'[r] = "writeLatency" => Pictured(r)'
      /\ Scrape(r)' => Pictured(r)'
  <2>1. CASE WriteRequests(r)
    <3>1. /\ pc'[r] = "writeEvaluations" /\ scraped'[r].requests = httpRequests
          /\ evaluations' = evaluations
      BY <1>0, <2>1 DEF WriteRequests, TypeOK, Picture, GoTo, counters
    <3>2. answer'[r] = answer[r] /\ pc[r] = "writeRequests"
      BY <2>1 DEF WriteRequests
    <3>3. ~Scrape(r)'
      BY <1>0, <3>2, Unanswered DEF Writing
    <3> QED
      BY <1>0, <3>1, <3>3
  <2>2. CASE WriteEvaluations(r)
    <3>1. /\ pc[r] = "writeEvaluations" /\ pc'[r] = "writeLatency"
          /\ scraped'[r].requests = scraped[r].requests /\ scraped'[r].evaluations = evaluations
          /\ answer'[r] = answer[r]
      BY <1>0, <2>2 DEF WriteEvaluations, TypeOK, Picture, GoTo
    <3>2. ~Scrape(r)'
      BY <1>0, <3>1, Unanswered DEF Writing
    <3> QED
      BY <3>1, <3>2 DEF PictureInv
  <2>3. CASE WriteLatency(r)
    <3>1. /\ pc[r] = "writeLatency" /\ pc'[r] = "answered"
          /\ scraped'[r].requests = scraped[r].requests
          /\ scraped'[r].evaluations = scraped[r].evaluations
      BY <1>0, <2>3 DEF WriteLatency, TypeOK, Picture, GoTo
    <3> QED
      BY <3>1 DEF PictureInv
  <2>4. CASE WriteAnswer(r)
    <3>1. /\ pc'[r] = "answered" /\ call' = call /\ answer'[r] = Status(code[r])
          /\ code[r] \in Code /\ pc[r] = "answer"
      BY <1>0, <2>4 DEF WriteAnswer, GoTo, TypeOK
    <3>2. call[r].route = "metrics" => ~Blank(code[r])
      BY <1>0, <3>1 DEF Routed, Blank
    <3>3. ~Scrape(r)'
      BY <3>1, <3>2, StatusTells DEF Scrape
    <3> QED
      BY <3>1, <3>3
  <2>5. CASE ~(WriteRequests(r) \/ WriteEvaluations(r) \/ WriteLatency(r) \/ WriteAnswer(r))
    <3>1. /\ answer' = answer /\ scraped' = scraped /\ call' = call
          /\ pc'[r] \notin {"writeEvaluations", "writeLatency"}
      BY <1>0, <2>5
      DEF TypeOK, GoTo, GoWith, outputs, Handler, ServeUnprotected, Unauthenticated,
          Authenticated, Undecodable, Forbidden, CallEvaluate, EvaluateReturns, LockToRecord,
          Count, ObserveLatency, RecordAudit, ListPolicies, RefuseScrape, LockToScrape, RecordHTTP
    <3> QED
      BY <1>0, <3>1 DEF Scrape
  <2> QED
    BY <2>1, <2>2, <2>3, <2>4, <2>5
<1> QED
  BY <1>0, <1>2, <1>3 DEF PictureInv

LEMMA CountingStep ==
    Inv /\ AuditInv /\ CountInv /\ PictureInv /\ AnswersWereCounted /\ [Next]_vars
      => CountInv' /\ PictureInv' /\ AnswersWereCounted'
<1> SUFFICES ASSUME Inv, AuditInv, CountInv, PictureInv, AnswersWereCounted, [Next]_vars
             PROVE  CountInv' /\ PictureInv' /\ AnswersWereCounted'
  OBVIOUS
<1>1. ASSUME NEW r \in Requests, Handler(r) PROVE CountInv' /\ PictureInv' /\ AnswersWereCounted'
  BY <1>1, CountStep, PictureStep DEF Inv
<1>2. ASSUME UNCHANGED <<call, pc, code, answer, scraped, evaluations, httpRequests>>
      PROVE  CountInv' /\ PictureInv' /\ AnswersWereCounted'
  <2>1. CountInv'
    BY <1>2, NothingCounted
  <2>2. PictureInv' /\ AnswersWereCounted'
    BY <1>2 DEF PictureInv, Within, Requested, Refusals, AnswersWereCounted, Scrape
  <2> QED
    BY <2>1, <2>2
<1>3. CASE \E r \in Requests : ClientLeaves(r)
  BY <1>2, <1>3 DEF ClientLeaves, outputs, counters
<1>4. CASE UNCHANGED vars
  BY <1>2, <1>4 DEF vars, outputs, counters
<1> QED
  BY <1>1, <1>3, <1>4 DEF Next, Terminated

\* For any number of requests, a scrape never shows an evaluation answered that
\* it does not show evaluated, with the same outcome.
THEOREM AnswersAreCounted == Spec => []AnswersWereCounted
<1>1. Init => CountInv /\ PictureInv /\ AnswersWereCounted
  <2>1. Init => \A r \in Requests : ~Scrape(r)
    <3> SUFFICES ASSUME Init, NEW r \in Requests PROVE ~Scrape(r)
      OBVIOUS
    <3>1. answer[r] = 0
      BY DEF Init
    <3>2. answer[r] # 200
      BY <3>1
    <3> QED
      BY <3>2 DEF Scrape
  <2> QED
    BY <2>1, CountInit DEF AnswersWereCounted
<1> QED
  BY <1>1, AuditInit, AuditStep, CountingStep, Invariance, PTL DEF Spec
=============================================================================
