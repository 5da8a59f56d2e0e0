------------------------------ MODULE Service -------------------------------
(***************************************************************************)
(* The requests the service handles at once (internal/api/http/handler.go), *)
(* and what they share: the counters behind one mutex, and the audit log    *)
(* (internal/observability/observability.go).                               *)
(*                                                                          *)
(* A request is authenticated, authorized, decoded, evaluated, counted,     *)
(* audited, answered and counted again, in this order, by a goroutine of    *)
(* its own.  Evaluate is one step here, with the three ends a call may have *)
(* (EvaluationContract).  A scrape writes the counters to its client while  *)
(* it holds the mutex.                                                      *)
(*                                                                          *)
(* A definition commented "Fault" is a plausible bug in the one after it.   *)
(***************************************************************************)
EXTENDS Integers, Sequences

CONSTANTS
    Requests,    \* the requests in flight
    ByToken,     \* the principals, by token
    Workloads,   \* what the requests may ask
    Nobody       \* who holds a free mutex

Principal == [tenants : SUBSET STRING, allTenants : BOOLEAN,
              allowTenantless : BOOLEAN, policyReader : BOOLEAN,
              metricsReader : BOOLEAN]

Route == {"evaluations", "policies", "metrics", "health", "unmatched"}

\* An empty token stands for any header parseBearer does not accept; "valid"
\* says whether the body is one JSON object with an id and a known stage.
Call == [route : Route, token : STRING, tenant : STRING, valid : BOOLEAN]

ASSUME TokensAssumption == ByToken \in [DOMAIN ByToken -> Principal] /\ "" \notin DOMAIN ByToken
ASSUME WorkloadsAssumption == Workloads \subseteq [Requests -> Call]
ASSUME NobodyAssumption == Nobody \notin Requests

VARIABLES
    call,          \* what each request asks
    gone,          \* requests whose context is done: their client left
    pc,
    code,          \* the error code of each request, or ""
    mu,            \* who holds the mutex
    evaluations,   \* thinkpixelgr_evaluations_total, by outcome
    latency,       \* thinkpixelgr_evaluation_duration_seconds_count
    httpRequests,  \* thinkpixelgr_http_requests_total, by route and status
    scraped,       \* what each scrape has written
    audit,         \* the audit events
    answer,        \* the status each request was answered with, 0 before
    evaluated      \* requests Evaluate was called for (history)

counters == <<evaluations, latency, httpRequests>>
outputs  == <<scraped, audit, answer, evaluated>>
vars == <<call, gone, pc, code, mu, counters, outputs>>

Protected == {"evaluations", "policies", "metrics"}

Status(c) ==
    CASE c = ""                             -> 200
      [] c = "UNAUTHENTICATED"              -> 401
      [] c = "FORBIDDEN"                    -> 403
      [] c = "NOT_FOUND"                    -> 404
      [] c = "EVALUATION_DEADLINE_EXCEEDED" -> 504
      [] OTHER                              -> 400

Statuses == {200, 400, 401, 403, 404, 504}

NothingScraped == [requests |-> [k \in Route \X Statuses |-> 0],
                   evaluations |-> [completed |-> 0, rejected |-> 0], latency |-> 0]

Init ==
    /\ call \in Workloads
    /\ gone = {}
    /\ pc = [r \in Requests |-> "arrived"] /\ code = [r \in Requests |-> ""]
    /\ mu = Nobody
    /\ evaluations = [completed |-> 0, rejected |-> 0] /\ latency = 0
    /\ httpRequests = [k \in Route \X Statuses |-> 0]
    /\ scraped = [r \in Requests |-> NothingScraped] /\ audit = <<>>
    /\ answer = [r \in Requests |-> 0] /\ evaluated = {}

Who(r) == ByToken[call[r].token]

GoTo(r, there) == pc' = [pc EXCEPT ![r] = there]
GoWith(r, there, c) == GoTo(r, there) /\ code' = [code EXCEPT ![r] = c]

-----------------------------------------------------------------------------
(* Routing and authentication. *)

ServeUnprotected(r) ==
    /\ pc[r] = "arrived" /\ call[r].route \notin Protected
    /\ GoWith(r, "answer", IF call[r].route = "health" THEN "" ELSE "NOT_FOUND")
    /\ UNCHANGED <<call, gone, mu, counters, outputs>>

\* Fault: a request without credentials leaves no trace.
RefuseSilently(r) ==
    /\ pc[r] = "arrived" /\ call[r].route \in Protected
    /\ call[r].token \notin DOMAIN ByToken
    /\ GoWith(r, "answer", "UNAUTHENTICATED")
    /\ UNCHANGED <<call, gone, mu, counters, outputs>>

\* Refused, once the denial is in the audit log.
Unauthenticated(r) ==
    /\ pc[r] = "arrived" /\ call[r].route \in Protected
    /\ call[r].token \notin DOMAIN ByToken
    /\ GoWith(r, "audit", "UNAUTHENTICATED")
    /\ UNCHANGED <<call, gone, mu, counters, outputs>>

Authenticated(r) ==
    /\ pc[r] = "arrived" /\ call[r].route \in Protected
    /\ call[r].token \in DOMAIN ByToken
    /\ GoTo(r, "handle")
    /\ UNCHANGED <<call, gone, code, mu, counters, outputs>>

-----------------------------------------------------------------------------
(* POST /v1/evaluations. *)

Evaluating(r) == pc[r] = "handle" /\ call[r].route = "evaluations"

\* The body is not read as one valid request: the evaluation is rejected.
Undecodable(r) ==
    /\ Evaluating(r) /\ ~call[r].valid
    /\ GoWith(r, "record", "INVALID_REQUEST")
    /\ UNCHANGED <<call, gone, mu, counters, outputs>>

\* Fault: who may see every tenant needs no tenant.
AnyTenantIncludesNone(who, tenant) ==
    \/ who.allTenants
    \/ IF tenant = "" THEN who.allowTenantless ELSE tenant \in who.tenants

AuthorizeTenant(who, tenant) ==
    IF tenant = "" THEN who.allowTenantless
    ELSE who.allTenants \/ tenant \in who.tenants

Forbidden(r) ==
    /\ Evaluating(r) /\ call[r].valid /\ ~AuthorizeTenant(Who(r), call[r].tenant)
    /\ GoWith(r, "record", "FORBIDDEN")
    /\ UNCHANGED <<call, gone, mu, counters, outputs>>

CallEvaluate(r) ==
    /\ Evaluating(r) /\ call[r].valid /\ AuthorizeTenant(Who(r), call[r].tenant)
    /\ evaluated' = evaluated \cup {r}
    /\ GoTo(r, "evaluating")
    /\ UNCHANGED <<call, gone, code, mu, counters, scraped, audit, answer>>

\* Fault: an evaluation nobody waits for is not recorded.
AbandonUnrecorded(r) ==
    /\ pc[r] = "evaluating"
    /\ \/ GoWith(r, "record", "")
       \/ GoWith(r, "record", "UNKNOWN_POLICY")
       \/ r \in gone /\ GoWith(r, "answer", "EVALUATION_DEADLINE_EXCEEDED")
    /\ UNCHANGED <<call, gone, mu, counters, outputs>>

\* Evaluate returns a response, or refuses the selection, or gives up because
\* the client left.
EvaluateReturns(r) ==
    /\ pc[r] = "evaluating"
    /\ \/ GoWith(r, "record", "")
       \/ GoWith(r, "record", "UNKNOWN_POLICY")
       \/ r \in gone /\ GoWith(r, "record", "EVALUATION_DEADLINE_EXCEEDED")
    /\ UNCHANGED <<call, gone, mu, counters, outputs>>

Outcome(r) == IF code[r] = "" THEN "completed" ELSE "rejected"

LockToRecord(r) ==
    /\ pc[r] = "record" /\ mu = Nobody
    /\ mu' = r
    /\ GoTo(r, "count")
    /\ UNCHANGED <<call, gone, code, counters, outputs>>

\* Fault: the mutex covers one counter at a time.
CountAndUnlock(r) ==
    /\ pc[r] = "count"
    /\ evaluations' = [evaluations EXCEPT ![Outcome(r)] = @ + 1]
    /\ mu' = Nobody
    /\ GoTo(r, "observe")
    /\ UNCHANGED <<call, gone, code, latency, httpRequests, outputs>>

Count(r) ==
    /\ pc[r] = "count"
    /\ evaluations' = [evaluations EXCEPT ![Outcome(r)] = @ + 1]
    /\ GoTo(r, "observe")
    /\ UNCHANGED <<call, gone, code, mu, latency, httpRequests, outputs>>

ObserveLatency(r) ==
    /\ pc[r] = "observe"
    /\ latency' = latency + 1
    /\ mu' = Nobody
    /\ GoTo(r, "audit")
    /\ UNCHANGED <<call, gone, code, evaluations, httpRequests, outputs>>

Event(r) ==
    IF code[r] = "UNAUTHENTICATED"
    THEN [request |-> r, type |-> "api_access", outcome |-> "denied", code |-> code[r]]
    ELSE [request |-> r, type |-> "evaluation", outcome |-> Outcome(r), code |-> code[r]]

RecordAudit(r) ==
    /\ pc[r] = "audit"
    /\ audit' = Append(audit, Event(r))
    /\ GoTo(r, "answer")
    /\ UNCHANGED <<call, gone, code, mu, counters, scraped, answer, evaluated>>

-----------------------------------------------------------------------------
(* GET /v1/policies and GET /metrics. *)

ListPolicies(r) ==
    /\ pc[r] = "handle" /\ call[r].route = "policies"
    /\ GoWith(r, "answer", IF Who(r).policyReader THEN "" ELSE "FORBIDDEN")
    /\ UNCHANGED <<call, gone, mu, counters, outputs>>

RefuseScrape(r) ==
    /\ pc[r] = "handle" /\ call[r].route = "metrics" /\ ~Who(r).metricsReader
    /\ GoWith(r, "answer", "FORBIDDEN")
    /\ UNCHANGED <<call, gone, mu, counters, outputs>>

LockToScrape(r) ==
    /\ pc[r] = "handle" /\ call[r].route = "metrics" /\ Who(r).metricsReader
    /\ mu = Nobody
    /\ mu' = r
    /\ GoTo(r, "writeRequests")
    /\ UNCHANGED <<call, gone, code, counters, outputs>>

WriteRequests(r) ==
    /\ pc[r] = "writeRequests"
    /\ scraped' = [scraped EXCEPT ![r].requests = httpRequests]
    /\ GoTo(r, "writeEvaluations")
    /\ UNCHANGED <<call, gone, code, mu, counters, audit, answer, evaluated>>

WriteEvaluations(r) ==
    /\ pc[r] = "writeEvaluations"
    /\ scraped' = [scraped EXCEPT ![r].evaluations = evaluations]
    /\ GoTo(r, "writeLatency")
    /\ UNCHANGED <<call, gone, code, mu, counters, audit, answer, evaluated>>

\* Fault: a failed write is tried again, and the mutex is kept meanwhile.
RetryLatency(r) ==
    /\ pc[r] = "writeLatency"
    /\ IF r \in gone
       THEN UNCHANGED vars
       ELSE /\ scraped' = [scraped EXCEPT ![r].latency = latency]
            /\ mu' = Nobody
            /\ answer' = [answer EXCEPT ![r] = 200]
            /\ GoTo(r, "answered")
            /\ UNCHANGED <<call, gone, code, counters, audit, evaluated>>

\* The last section, and the deferred Unlock.  Errors of the writes are
\* ignored, so a scrape ends the same way when its client has left.
WriteLatency(r) ==
    /\ pc[r] = "writeLatency"
    /\ scraped' = [scraped EXCEPT ![r].latency = latency]
    /\ mu' = Nobody
    /\ answer' = [answer EXCEPT ![r] = 200]
    /\ GoTo(r, "answered")
    /\ UNCHANGED <<call, gone, code, counters, audit, evaluated>>

-----------------------------------------------------------------------------
(* The answer, and the counter of HTTP requests. *)

WriteAnswer(r) ==
    /\ pc[r] = "answer"
    /\ answer' = [answer EXCEPT ![r] = Status(code[r])]
    /\ GoTo(r, "answered")
    /\ UNCHANGED <<call, gone, code, mu, counters, scraped, audit, evaluated>>

\* RecordHTTP takes and releases the mutex around a single increment.
RecordHTTP(r) ==
    /\ pc[r] = "answered" /\ mu = Nobody
    /\ httpRequests' = [httpRequests EXCEPT ![<<call[r].route, answer[r]>>] = @ + 1]
    /\ GoTo(r, "done")
    /\ UNCHANGED <<call, gone, code, mu, evaluations, latency, outputs>>

\* net/http: the context of a request is done when its client disconnects.
ClientLeaves(r) ==
    /\ pc[r] # "done" /\ r \notin gone
    /\ gone' = gone \cup {r}
    /\ UNCHANGED <<call, pc, code, mu, counters, outputs>>

Handler(r) ==
    \/ ServeUnprotected(r) \/ Unauthenticated(r) \/ Authenticated(r)
    \/ Undecodable(r) \/ Forbidden(r) \/ CallEvaluate(r) \/ EvaluateReturns(r)
    \/ LockToRecord(r) \/ Count(r) \/ ObserveLatency(r) \/ RecordAudit(r)
    \/ ListPolicies(r) \/ RefuseScrape(r) \/ LockToScrape(r)
    \/ WriteRequests(r) \/ WriteEvaluations(r) \/ WriteLatency(r)
    \/ WriteAnswer(r) \/ RecordHTTP(r)

Terminated == (\A r \in Requests : pc[r] = "done") /\ UNCHANGED vars

Next == (\E r \in Requests : Handler(r) \/ ClientLeaves(r)) \/ Terminated

\* Goroutines run; Evaluate returns (Evaluator!EvaluationTerminates); a write
\* ends, if only because the server's WriteTimeout has passed; a free mutex is
\* given to one of those that wait.  No client has to leave.
Fairness == \A r \in Requests : WF_vars(Handler(r))

Spec == Init /\ [][Next]_vars /\ Fairness
-----------------------------------------------------------------------------
(* Properties. *)

Point == {"arrived", "handle", "evaluating", "record", "count", "observe", "audit",
          "answer", "writeRequests", "writeEvaluations", "writeLatency",
          "answered", "done"}
Code == {"", "UNAUTHENTICATED", "FORBIDDEN", "NOT_FOUND", "INVALID_REQUEST",
         "UNKNOWN_POLICY", "EVALUATION_DEADLINE_EXCEEDED"}
Outcomes == [completed : Nat, rejected : Nat]
Picture == [requests : [Route \X Statuses -> Nat], evaluations : Outcomes,
            latency : Nat]

\* Every variable holds a value of its Go type.
TypeOK ==
    /\ call \in Workloads /\ gone \subseteq Requests /\ evaluated \subseteq Requests
    /\ pc \in [Requests -> Point] /\ code \in [Requests -> Code]
    /\ mu \in Requests \cup {Nobody}
    /\ evaluations \in Outcomes /\ latency \in Nat
    /\ httpRequests \in [Route \X Statuses -> Nat]
    /\ scraped \in [Requests -> Picture]
    /\ answer \in [Requests -> Statuses \cup {0}]

Attempts(s) == s.evaluations.completed + s.evaluations.rejected
Scrape(r) == call[r].route = "metrics" /\ answer[r] = 200

\* A scrape is a picture of one instant: it shows as many latencies as
\* evaluations, though it writes its sections one by one to a slow client, and
\* an evaluation is counted in two steps, while other requests run
\* (observability.go:182-185, 297-298).
ScrapeIsConsistent == \A r \in Requests : Scrape(r) => scraped[r].latency = Attempts(scraped[r])

\* Read from its first section to its last, a scrape never shows an evaluation
\* request answered that it does not also show evaluated, with the outcome the
\* answer had: recording comes before the answer, on every path of the handler
\* (handler.go:71-110, 208).
AnswersWereCounted ==
    \A r \in Requests : Scrape(r) =>
        LET answered(status) == scraped[r].requests[<<"evaluations", status>>]
        IN  /\ answered(200) <= scraped[r].evaluations.completed
            /\ answered(400) + answered(403) + answered(504)
                   <= scraped[r].evaluations.rejected

EventsOf(r) == {i \in DOMAIN audit : audit[i].request = r}

\* Every evaluation attempt, and every request refused for its credentials, is
\* in the audit log exactly once before it is answered, and the event agrees
\* with the status the client gets ("Every authenticated evaluation attempt
\* emits a ... audit event", docs/operations/observability.md:8-10;
\* handler.go:72-110, 117).
AuditedBeforeAnswered ==
    \A r \in {x \in Requests : answer[x] # 0} :
        IF call[r].route = "evaluations" \/ answer[r] = 401
        THEN \E i \in EventsOf(r) :
                /\ EventsOf(r) = {i}
                /\ Status(audit[i].code) = answer[r]
                /\ audit[i].outcome = (CASE answer[r] = 200 -> "completed"
                                         [] answer[r] = 401 -> "denied"
                                         [] OTHER           -> "rejected")
        ELSE EventsOf(r) = {}

\* The capabilities are independent, and they are checked before anything is
\* done with them: a wildcard tenant does not cover requests without a tenant
\* (docs/security/authentication.md:44-49; handler.go:42-96).
NothingOutOfScope ==
    \A r \in Requests :
        /\ r \in evaluated =>
              /\ call[r].token \in DOMAIN ByToken
              /\ \/ call[r].tenant = "" /\ Who(r).allowTenantless
                 \/ call[r].tenant # "" /\ Who(r).allTenants
                 \/ call[r].tenant # "" /\ call[r].tenant \in Who(r).tenants
        /\ call[r].route = "metrics" /\ scraped[r] # NothingScraped =>
              call[r].token \in DOMAIN ByToken /\ Who(r).metricsReader

\* Every request is answered and its handler returns: no order of scrapes,
\* recorders and departing clients keeps the mutex (observability.go:183, 298).
RequestsEnd == \A r \in Requests : <>(pc[r] = "done")
=============================================================================
