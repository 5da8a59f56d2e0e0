------------------------------- MODULE Trace --------------------------------
(***************************************************************************)
(* The trace spans of requests that are served at the same time: the trace  *)
(* a request continues or begins (internal/observability/observability.go), *)
(* the spans of the handler (internal/api/http/handler.go), those of        *)
(* Evaluate on each of its ways out (internal/engine/evaluator.go), and the *)
(* audit event that carries the trace's id.                                 *)
(*                                                                          *)
(* A span is a line of the log, written when it ends.  An id is a name for  *)
(* random bytes: <<r, n>> is the n-th that request r draws, so no two are   *)
(* the same, and none is that of a caller.                                  *)
(*                                                                          *)
(* A definition commented "Fault" is a plausible bug in the one after it.   *)
(***************************************************************************)
EXTENDS Naturals, Sequences

CONSTANTS
    Requests,
    Callers,       \* ids that callers made up
    Traceparent,   \* what each request's header says, if it is a valid one
    NoContext,     \* when it is not, or there is none
    NoId,
    MaxDetectors   \* bound: how many detectors an evaluation runs

Id == Callers \cup (Requests \X Nat)

\* What travels in a context: a trace, and the span that is current in it.
Context == [trace : Id, span : Id]

SpanName == { "http.server", "guardrails.evaluate", "policy.resolve", "detector.evaluate",
              "decision.aggregate", "content.transform", "audit.emit" }

Span == [name : SpanName, trace : Id, span : Id, parent : Id \cup {NoId}]

ASSUME TraceAssumption ==
    /\ Traceparent \in [Requests -> [trace : Callers, span : Callers] \cup {NoContext}]
    /\ NoContext \notin Context
    /\ NoId \notin Id
    /\ Callers \cap (Requests \X Nat) = {}
    /\ MaxDetectors \in Nat

VARIABLES
    pc,
    drawn,       \* how many ids have been drawn
    server,      \* the span of the handler
    evaluation,  \* the one of Evaluate
    current,     \* the one inside it, or of the audit
    detectors,   \* how many detectors have been run
    outcome,     \* of Evaluate, or of the handler without it
    header,      \* the traceparent of the answer
    open,        \* the spans started and not ended
    log,         \* those ended, with their status
    audited      \* the trace ids of the audit events

vars == <<pc, drawn, server, evaluation, current, detectors, outcome, header, open, log, audited>>

NoSpan == [name |-> "", trace |-> NoId, span |-> NoId, parent |-> NoId]

Init ==
    /\ pc = [r \in Requests |-> "new"]
    /\ drawn = [r \in Requests |-> 0]
    /\ server = [r \in Requests |-> NoSpan]
    /\ evaluation = [r \in Requests |-> NoSpan]
    /\ current = [r \in Requests |-> NoSpan]
    /\ detectors = [r \in Requests |-> 0]
    /\ outcome = [r \in Requests |-> "none"]
    /\ header = [r \in Requests |-> NoSpan]
    /\ open = [r \in Requests |-> {}]
    /\ log = [r \in Requests |-> <<>>]
    /\ audited = [r \in Requests |-> <<>>]

Step(r, from, to) == pc[r] = from /\ pc' = [pc EXCEPT ![r] = to]

\* A span in the trace of its parent, with an id of its own.
Child(r, name, parent) ==
    [name |-> name, trace |-> parent.trace, span |-> <<r, drawn[r] + 1>>, parent |-> parent.span]

\* A span that is started while the request's context is that of its parent.
StartSpan(r, name, parent) ==
    /\ current' = [current EXCEPT ![r] = Child(r, name, parent)]
    /\ open' = [open EXCEPT ![r] = @ \cup {Child(r, name, parent)}]
    /\ drawn' = [drawn EXCEPT ![r] = @ + 1]

\* A span ends once: a second End writes nothing.
End(r, span, status) ==
    /\ open' = [open EXCEPT ![r] = @ \ {span}]
    /\ log' = [log EXCEPT ![r] = IF span \in open[r]
                                 THEN Append(@, [span |-> span, status |-> status]) ELSE @]

-----------------------------------------------------------------------------
(* The handler. *)

\* ContinueTrace: a valid header is continued, otherwise a trace begins.
Continued(r) ==
    IF Traceparent[r] # NoContext THEN Traceparent[r]
    ELSE [trace |-> <<r, drawn[r] + 2>>, span |-> NoId]

Arrive(r) ==
    /\ Step(r, "new", "routing")
    /\ LET span == Child(r, "http.server", Continued(r)) IN
       /\ server' = [server EXCEPT ![r] = span]
       /\ open' = [open EXCEPT ![r] = {span}]
       /\ header' = [header EXCEPT ![r] = span]
    /\ drawn' = [drawn EXCEPT ![r] = @ + 2]
    /\ UNCHANGED <<evaluation, current, detectors, outcome, log, audited>>

\* Health, policies and metrics, allowed or not, and routes there are none of.
AnswerPlain(r) ==
    /\ Step(r, "routing", "answered")
    /\ \E o \in {"completed", "refused"} : outcome' = [outcome EXCEPT ![r] = o]
    /\ UNCHANGED <<drawn, server, evaluation, current, detectors, header, open, log, audited>>

\* Without credentials, without a valid body, or for a tenant of others.
RefuseAudited(r) ==
    /\ Step(r, "routing", "audit")
    /\ outcome' = [outcome EXCEPT ![r] = "refused"]
    /\ UNCHANGED <<drawn, server, evaluation, current, detectors, header, open, log, audited>>

-----------------------------------------------------------------------------
(* Evaluate. *)

CallEvaluate(r) ==
    /\ Step(r, "routing", "evaluating")
    /\ LET span == Child(r, "guardrails.evaluate", server[r]) IN
       /\ evaluation' = [evaluation EXCEPT ![r] = span]
       /\ open' = [open EXCEPT ![r] = @ \cup {span}]
    /\ drawn' = [drawn EXCEPT ![r] = @ + 1]
    /\ UNCHANGED <<server, current, detectors, outcome, header, log, audited>>

\* The context is done: at the start, before a policy or before a detector.
Abandon(r) ==
    /\ \E from \in {"evaluating", "policies"} : Step(r, from, "returning")
    /\ outcome' = [outcome EXCEPT ![r] = "deadline"]
    /\ UNCHANGED <<drawn, server, evaluation, current, detectors, header, open, log, audited>>

StartResolution(r) ==
    /\ Step(r, "evaluating", "resolving")
    /\ StartSpan(r, "policy.resolve", evaluation[r])
    /\ UNCHANGED <<server, evaluation, detectors, outcome, header, log, audited>>

\* Fault: the early return forgets the span.
ResolutionFailsOpen(r) ==
    /\ Step(r, "resolving", "returning")
    /\ outcome' = [outcome EXCEPT ![r] = "refused"]
    /\ UNCHANGED <<drawn, server, evaluation, current, detectors, header, open, log, audited>>

ResolutionFails(r) ==
    /\ Step(r, "resolving", "returning")
    /\ End(r, current[r], "error")
    /\ outcome' = [outcome EXCEPT ![r] = "refused"]
    /\ UNCHANGED <<drawn, server, evaluation, current, detectors, header, audited>>

Resolved(r) ==
    /\ Step(r, "resolving", "policies")
    /\ End(r, current[r], "ok")
    /\ UNCHANGED <<drawn, server, evaluation, current, detectors, outcome, header, audited>>

\* Fault: spans are children of the one before.
StartNestedDetector(r) ==
    /\ Step(r, "policies", "detector") /\ detectors[r] < MaxDetectors
    /\ detectors' = [detectors EXCEPT ![r] = @ + 1]
    /\ StartSpan(r, "detector.evaluate", current[r])
    /\ UNCHANGED <<server, evaluation, outcome, header, log, audited>>

StartDetector(r) ==
    /\ Step(r, "policies", "detector") /\ detectors[r] < MaxDetectors
    /\ detectors' = [detectors EXCEPT ![r] = @ + 1]
    /\ StartSpan(r, "detector.evaluate", evaluation[r])
    /\ UNCHANGED <<server, evaluation, outcome, header, log, audited>>

\* A failure or a result; the next detector or policy follows.
DetectorReturns(r) ==
    /\ Step(r, "detector", "policies")
    /\ \E status \in {"ok", "error"} : End(r, current[r], status)
    /\ UNCHANGED <<drawn, server, evaluation, current, detectors, outcome, header, audited>>

\* A failure, and the request's context is done.
DetectorIsCancelled(r) ==
    /\ Step(r, "detector", "returning")
    /\ End(r, current[r], "error")
    /\ outcome' = [outcome EXCEPT ![r] = "deadline"]
    /\ UNCHANGED <<drawn, server, evaluation, current, detectors, header, audited>>

StartAggregation(r) ==
    /\ Step(r, "policies", "aggregating")
    /\ StartSpan(r, "decision.aggregate", evaluation[r])
    /\ UNCHANGED <<server, evaluation, detectors, outcome, header, log, audited>>

\* Only a decision to redact has something to transform.
Aggregated(r) ==
    /\ \E to \in {"redact", "returning"} :
         /\ Step(r, "aggregating", to)
         /\ outcome' = IF to = "returning" THEN [outcome EXCEPT ![r] = "completed"] ELSE outcome
    /\ End(r, current[r], "ok")
    /\ UNCHANGED <<drawn, server, evaluation, current, detectors, header, audited>>

StartTransformation(r) ==
    /\ Step(r, "redact", "transforming")
    /\ StartSpan(r, "content.transform", evaluation[r])
    /\ UNCHANGED <<server, evaluation, detectors, outcome, header, log, audited>>

Transformed(r) ==
    /\ Step(r, "transforming", "returning")
    /\ End(r, current[r], "ok")
    /\ outcome' = [outcome EXCEPT ![r] = "completed"]
    /\ UNCHANGED <<drawn, server, evaluation, current, detectors, header, audited>>

\* Fault: the status is the one that held when the call was deferred.
StatusWhenDeferred(r) == "error"

\* The status is read when the deferred call is made.
EvaluationStatus(r) == IF outcome[r] = "completed" THEN "ok" ELSE "error"

EvaluateReturns(r) ==
    /\ Step(r, "returning", "audit")
    /\ End(r, evaluation[r], EvaluationStatus(r))
    /\ UNCHANGED <<drawn, server, evaluation, current, detectors, outcome, header, audited>>

-----------------------------------------------------------------------------
(* The audit and the answer. *)

\* Fault: the audit is written without the request's context.
StartDetachedAudit(r) ==
    /\ Step(r, "audit", "auditing")
    /\ StartSpan(r, "audit.emit", [trace |-> <<r, drawn[r] + 2>>, span |-> NoId])
    /\ UNCHANGED <<server, evaluation, detectors, outcome, header, log, audited>>

\* The context is the handler's: the audit comes after the evaluation, beside it.
StartAudit(r) ==
    /\ Step(r, "audit", "auditing")
    /\ StartSpan(r, "audit.emit", server[r])
    /\ UNCHANGED <<server, evaluation, detectors, outcome, header, log, audited>>

RecordAudit(r) ==
    /\ Step(r, "auditing", "answered")
    /\ audited' = [audited EXCEPT ![r] = Append(@, current[r].trace)]
    /\ End(r, current[r], "ok")
    /\ UNCHANGED <<drawn, server, evaluation, current, detectors, outcome, header>>

\* Only an abandoned evaluation is answered with a 5xx (504).
HandlerReturns(r) ==
    /\ Step(r, "answered", "done")
    /\ End(r, server[r], IF outcome[r] = "deadline" THEN "error" ELSE "ok")
    /\ UNCHANGED <<drawn, server, evaluation, current, detectors, outcome, header, audited>>

-----------------------------------------------------------------------------

Evaluate(r) ==
    \/ CallEvaluate(r) \/ Abandon(r)
    \/ StartResolution(r) \/ ResolutionFails(r) \/ Resolved(r)
    \/ StartDetector(r) \/ DetectorReturns(r) \/ DetectorIsCancelled(r)
    \/ StartAggregation(r) \/ Aggregated(r)
    \/ StartTransformation(r) \/ Transformed(r)
    \/ EvaluateReturns(r)

Handle(r) ==
    \/ Arrive(r) \/ AnswerPlain(r) \/ RefuseAudited(r)
    \/ StartAudit(r) \/ RecordAudit(r) \/ HandlerReturns(r)

Terminated == (\A r \in Requests : pc[r] = "done") /\ UNCHANGED vars

Next == (\E r \in Requests : Handle(r) \/ Evaluate(r)) \/ Terminated

Spec == Init /\ [][Next]_vars

-----------------------------------------------------------------------------
(* Properties. *)

Logged(r) == {log[r][n].span : n \in DOMAIN log[r]}

\* Whichever way out a request takes, every span that was started has been
\* written to the log when it is answered, and none twice: Evaluate has two
\* early returns with a span of its own to end, and a deferred one besides
\* (evaluator.go:85-99, 128-141; handler.go:198-213).
EverySpanEndsOnce ==
    \A r \in Requests :
        /\ pc[r] = "done" => open[r] = {}
        /\ \A m, n \in DOMAIN log[r] : log[r][m].span.span = log[r][n].span.span => m = n
        /\ Logged(r) \cap open[r] = {}

\* The log can be read as a tree: a span is written after every span started in
\* it, and all but the handler's have their parent in the same request, where
\* the handler's is the caller's (evaluator.go:84-178, handler.go:170-174).
ChildrenEndFirst ==
    \A r \in Requests :
        /\ \A n \in DOMAIN log[r], s \in open[r] : s.parent # log[r][n].span.span
        /\ \A m, n \in DOMAIN log[r] : m < n => log[r][n].span.parent # log[r][m].span.span
        /\ \A s \in open[r] \cup Logged(r) :
              IF s.name = "http.server"
              THEN s.parent = (IF Traceparent[r] = NoContext THEN NoId ELSE Traceparent[r].span)
              ELSE \E p \in open[r] \cup Logged(r) : s.parent = p.span

\* "The HTTP service accepts W3C traceparent, continues valid version 00
\* contexts, and returns the server span context in the response header.
\* Invalid headers are ignored and replaced with a new trace context"
\* (docs/operations/observability.md:51-54): every span and the audit event of
\* a request belong to the trace its answer names, that of the caller if there
\* is one, and else of no other request (observability.go:380-419, 144).
OneTracePerRequest ==
    \A r \in Requests : pc[r] # "new" =>
        /\ \A s \in open[r] \cup Logged(r) :
              /\ s.trace = header[r].trace
              /\ s.name = "http.server" => s.span = header[r].span
        /\ \A n \in DOMAIN audited[r] : audited[r][n] = header[r].trace
        /\ Traceparent[r] # NoContext => header[r].trace = Traceparent[r].trace
        /\ Traceparent[r] = NoContext =>
              \A q \in Requests \ {r} : pc[q] # "new" => header[q].trace # header[r].trace

\* The spans tell how it ended: the handler's is an error for a 504 only, the
\* evaluation's for everything but a response (evaluator.go:85-86, 183;
\* handler.go:208-213).
StatusesTellTheOutcome ==
    \A r \in Requests : \A n \in DOMAIN log[r] :
        LET entry == log[r][n] IN
        /\ entry.span.name = "guardrails.evaluate" =>
              (entry.status = "ok" <=> outcome[r] = "completed")
        /\ entry.span.name = "http.server" =>
              (entry.status = "error" <=> outcome[r] = "deadline")
=============================================================================
