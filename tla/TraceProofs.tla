---------------------------- MODULE TraceProofs -----------------------------
(***************************************************************************)
(* Proofs about Trace: for any number of requests, whatever their headers   *)
(* say, every span is written once and belongs to the trace of its answer,  *)
(* after the spans it started, and with a status that tells the outcome.    *)
(*                                                                          *)
(* The invariant says, for every place a request can be in, exactly which   *)
(* spans are open there, and that ids are drawn from an increasing counter: *)
(* a new span differs from all that were written.                           *)
(***************************************************************************)
EXTENDS Trace, TLAPS

\* Where the span of Evaluate is open, and where the one inside it, or of the
\* audit, is.
InEvaluate == { "evaluating", "resolving", "policies", "detector", "aggregating", "redact",
                "transforming", "returning" }
InChild == { "resolving", "detector", "aggregating", "transforming", "auditing" }

Place == {"new", "routing", "audit", "answered", "done"} \cup InEvaluate \cup InChild

Entry == [span : Span, status : {"ok", "error"}]

Types ==
    /\ pc \in [Requests -> Place]
    /\ drawn \in [Requests -> Nat]
    /\ server \in [Requests -> Span \cup {NoSpan}]
    /\ evaluation \in [Requests -> Span \cup {NoSpan}]
    /\ current \in [Requests -> Span \cup {NoSpan}]
    /\ header \in [Requests -> Span \cup {NoSpan}]
    /\ outcome \in [Requests -> {"none", "completed", "refused", "deadline"}]
    /\ open \in [Requests -> SUBSET Span]
    /\ log \in [Requests -> Seq(Entry)]
    /\ audited \in [Requests -> Seq(Id)]

\* The trace of a request.
TraceOf(r) == IF Traceparent[r] = NoContext THEN <<r, 2>> ELSE Traceparent[r].trace

\* The spans of a request whose id is among the first n it drew.
Issued(r, n) ==
    {s \in Span : s.trace = TraceOf(r) /\ \E k \in 1 .. n : s.span = <<r, k>>}

\* The entries are issued spans, of which none is still open, none is there
\* twice, and none but the root is the handler's.
WellWritten(entries, issued, started, root) ==
    /\ \A n \in DOMAIN entries :
          /\ entries[n].span \in issued
          /\ entries[n].span.name = "http.server" => entries[n].span = root
          /\ \A s \in started : entries[n].span.span # s.span
    /\ \A m, n \in DOMAIN entries :
          entries[m].span.span = entries[n].span.span => m = n

NothingYet(r) ==
    pc[r] = "new" => drawn[r] = 0 /\ log[r] = <<>> /\ audited[r] = <<>>

Server(r) ==
    pc[r] # "new" =>
        /\ server[r] \in Issued(r, drawn[r])
        /\ server[r].name = "http.server" /\ header[r] = server[r]

Evaluation(r) ==
    pc[r] \in InEvaluate =>
        /\ evaluation[r] \in Issued(r, drawn[r])
        /\ evaluation[r].name # "http.server"
        /\ evaluation[r].span # server[r].span

Current(r) ==
    pc[r] \in InChild =>
        /\ current[r] \in Issued(r, drawn[r])
        /\ current[r].name # "http.server"
        /\ current[r].span # server[r].span
        /\ pc[r] \in InEvaluate => current[r].span # evaluation[r].span

OpenHere(r) ==
    open[r] = (IF pc[r] \in {"new", "done"} THEN {} ELSE {server[r]})
              \cup (IF pc[r] \in InEvaluate THEN {evaluation[r]} ELSE {})
              \cup (IF pc[r] \in InChild THEN {current[r]} ELSE {})

Written(r) == WellWritten(log[r], Issued(r, drawn[r]), open[r], server[r])

Audited(r) == \A n \in DOMAIN audited[r] : audited[r][n] = TraceOf(r)

RequestInv(r) ==
    /\ NothingYet(r) /\ Server(r) /\ Evaluation(r) /\ Current(r)
    /\ OpenHere(r) /\ Written(r) /\ Audited(r)

Inv == Types /\ \A r \in Requests : RequestInv(r)

-----------------------------------------------------------------------------

\* A span that is started has an id no other has, and one that was issued stays
\* issued (observability.go:401-409).
LEMMA Started ==
    ASSUME NEW r \in Requests, NEW n \in Nat, NEW name \in SpanName,
           NEW parent \in Span, parent.trace = TraceOf(r),
           NEW s, s = [name |-> name, trace |-> parent.trace, span |-> <<r, n + 1>>,
                       parent |-> parent.span]
    PROVE  /\ s \in Issued(r, n + 1) /\ s.name = name
           /\ \A x \in Issued(r, n) : x \in Issued(r, n + 1) /\ s.span # x.span
           /\ \A entries, started, root :
                 WellWritten(entries, Issued(r, n), started, root) =>
                    WellWritten(entries, Issued(r, n + 1), started \cup {s}, root)
<1>1. /\ s \in Span /\ s.name = name /\ s.trace = TraceOf(r) /\ s.span = <<r, n + 1>>
      BY DEF Span, Id
<1>2. s \in Issued(r, n + 1)
      <2>1. n + 1 \in 1 .. n + 1
            OBVIOUS
      <2> QED  BY <1>1, <2>1 DEF Issued
<1>3. ASSUME NEW x \in Issued(r, n) PROVE x \in Issued(r, n + 1) /\ s.span # x.span
      <2>1. PICK k \in 1 .. n : x.span = <<r, k>>
            BY DEF Issued
      <2>2. k \in 1 .. n + 1 /\ k # n + 1
            OBVIOUS
      <2> QED  BY <1>1, <2>1, <2>2 DEF Issued
<1> QED  BY <1>1, <1>2, <1>3 DEF WellWritten

\* A span that is ended is written, and no other is (observability.go:421-432).
LEMMA Ended ==
    ASSUME NEW entries \in Seq(Entry), NEW issued \in SUBSET Span,
           NEW started \in SUBSET issued, NEW root, WellWritten(entries, issued, started, root),
           NEW entry \in Entry, entry.span \in started,
           entry.span.name = "http.server" => entry.span = root,
           \A s \in started : s # entry.span => s.span # entry.span.span
    PROVE  WellWritten(Append(entries, entry), issued, started \ {entry.span}, root)
<1> DEFINE new == Append(entries, entry)
<1>1. /\ DOMAIN new = 1 .. Len(entries) + 1 /\ DOMAIN entries = 1 .. Len(entries)
      /\ Len(entries) \in Nat /\ new[Len(entries) + 1] = entry
      /\ \A n \in DOMAIN entries : new[n] = entries[n] /\ n # Len(entries) + 1
      OBVIOUS
<1>2. \A n \in DOMAIN new : n = Len(entries) + 1 \/ n \in DOMAIN entries
      BY <1>1
<1> HIDE DEF new
<1>3. ASSUME NEW n \in DOMAIN new
      PROVE  /\ new[n].span \in issued
             /\ new[n].span.name = "http.server" => new[n].span = root
             /\ \A s \in started \ {entry.span} : new[n].span.span # s.span
      BY <1>1, <1>2 DEF WellWritten
<1>4. ASSUME NEW m \in DOMAIN new, NEW n \in DOMAIN new, new[m].span.span = new[n].span.span
      PROVE  m = n
      <2>1. \A k \in DOMAIN entries : entries[k].span.span # entry.span.span
            BY DEF WellWritten
      <2> QED  BY <1>1, <1>2, <1>4, <2>1 DEF WellWritten
<1>5. WellWritten(new, issued, started \ {entry.span}, root)
      BY <1>3, <1>4 DEF WellWritten
<1> QED  BY <1>5 DEF new

-----------------------------------------------------------------------------
(* A step of a request, by what it does to the spans. *)

\* What the steps that start a span have in common: they start "s" in "parent"
\* and keep it where the request goes to.
Starts(r, name, parent, to, s) ==
    /\ name \in SpanName \ {"http.server"}
    /\ parent = (IF pc[r] \in InEvaluate THEN evaluation[r] ELSE server[r])
    /\ to \in Place
    /\ s = Child(r, name, parent)
    /\ drawn' = [drawn EXCEPT ![r] = @ + 1]
    /\ open' = [open EXCEPT ![r] = @ \cup {s}]
    /\ pc' = [pc EXCEPT ![r] = to]
    /\ pc[r] \notin {"new", "done"} \cup InChild
    /\ to \notin {"new", "routing", "done"}
    /\ \/ /\ name = "guardrails.evaluate"
          /\ to \in InEvaluate \ InChild /\ pc[r] \in {"routing"} \ InEvaluate
          /\ evaluation' = [evaluation EXCEPT ![r] = s] /\ UNCHANGED current
       \/ /\ name # "guardrails.evaluate"
          /\ to \in InChild /\ (to \in InEvaluate <=> pc[r] \in InEvaluate)
          /\ current' = [current EXCEPT ![r] = s] /\ UNCHANGED evaluation
    /\ UNCHANGED <<server, outcome, header, log, audited>>

LEMMA StartForm ==
    ASSUME NEW r \in Requests,
           \/ CallEvaluate(r) \/ StartResolution(r) \/ StartDetector(r)
           \/ StartAggregation(r) \/ StartTransformation(r) \/ StartAudit(r)
    PROVE  \E name, parent, to, s : Starts(r, name, parent, to, s)
<1>1. CASE CallEvaluate(r)
      <2>1. Starts(r, "guardrails.evaluate", server[r], "evaluating",
                    Child(r, "guardrails.evaluate", server[r]))
            BY <1>1 DEF CallEvaluate, Step, SpanName, Starts, Place, InEvaluate, InChild
      <2> QED  BY <2>1
<1>2. CASE StartResolution(r)
      <2>1. Starts(r, "policy.resolve", evaluation[r], "resolving",
                    Child(r, "policy.resolve", evaluation[r]))
            BY <1>2 DEF StartResolution, StartSpan, Step, SpanName, Starts, Place, InEvaluate, InChild
      <2> QED  BY <2>1
<1>3. CASE StartDetector(r)
      <2>1. Starts(r, "detector.evaluate", evaluation[r], "detector",
                    Child(r, "detector.evaluate", evaluation[r]))
            BY <1>3 DEF StartDetector, StartSpan, Step, SpanName, Starts, Place, InEvaluate, InChild
      <2> QED  BY <2>1
<1>4. CASE StartAggregation(r)
      <2>1. Starts(r, "decision.aggregate", evaluation[r], "aggregating",
                    Child(r, "decision.aggregate", evaluation[r]))
            BY <1>4 DEF StartAggregation, StartSpan, Step, SpanName, Starts, Place, InEvaluate, InChild
      <2> QED  BY <2>1
<1>5. CASE StartTransformation(r)
      <2>1. Starts(r, "content.transform", evaluation[r], "transforming",
                    Child(r, "content.transform", evaluation[r]))
            BY <1>5 DEF StartTransformation, StartSpan, Step, SpanName, Starts, Place, InEvaluate, InChild
      <2> QED  BY <2>1
<1>6. CASE StartAudit(r)
      <2>1. Starts(r, "audit.emit", server[r], "auditing",
                    Child(r, "audit.emit", server[r]))
            BY <1>6 DEF StartAudit, StartSpan, Step, SpanName, Starts, Place, InEvaluate, InChild
      <2> QED  BY <2>1
<1> QED  BY <1>1, <1>2, <1>3, <1>4, <1>5, <1>6

\* The steps that start a span.
LEMMA StartKeeps ==
    ASSUME Inv, NEW r \in Requests,
           \/ CallEvaluate(r) \/ StartResolution(r) \/ StartDetector(r)
           \/ StartAggregation(r) \/ StartTransformation(r) \/ StartAudit(r)
    PROVE  Types' /\ RequestInv(r)'
<1>1. Types /\ RequestInv(r) /\ drawn[r] \in Nat /\ Issued(r, drawn[r]) \subseteq Span
      BY DEF Inv, Types, Issued
<1>2. PICK name, parent, to, s : Starts(r, name, parent, to, s)
      BY StartForm
<1>3. /\ pc'[r] = to /\ drawn'[r] = drawn[r] + 1 /\ open'[r] = open[r] \cup {s}
      /\ server'[r] = server[r] /\ header'[r] = header[r]
      /\ log'[r] = log[r] /\ audited'[r] = audited[r]
      /\ \/ /\ to \in InEvaluate \ InChild /\ evaluation'[r] = s /\ current'[r] = current[r]
         \/ /\ to \in InChild /\ current'[r] = s /\ evaluation'[r] = evaluation[r]
      BY <1>1, <1>2 DEF Starts, Types
<1>4. /\ server[r] \in Issued(r, drawn[r])
      /\ server[r].name = "http.server" /\ header[r] = server[r]
      /\ pc[r] \in InEvaluate =>
            /\ evaluation[r] \in Issued(r, drawn[r]) /\ evaluation[r].name # "http.server"
            /\ evaluation[r].span # server[r].span
      BY <1>1, <1>2 DEF Starts, RequestInv, Server, Evaluation
<1>5. parent \in Span /\ parent.trace = TraceOf(r)
      BY <1>2, <1>4 DEF Starts, Issued
<1>6. /\ s \in Issued(r, drawn'[r]) /\ s.name = name
      /\ \A x \in Issued(r, drawn[r]) : x \in Issued(r, drawn'[r]) /\ s.span # x.span
      /\ WellWritten(log[r], Issued(r, drawn[r]), open[r], server[r]) =>
            WellWritten(log[r], Issued(r, drawn'[r]), open'[r], server[r])
      BY <1>1, <1>2, <1>3, <1>5, Started DEF Starts, Child
<1>7. Types'
      <2>1. s \in Span
            BY <1>6 DEF Issued
      <2>2. evaluation' \in [Requests -> Span \cup {NoSpan}] /\ current' \in [Requests -> Span \cup {NoSpan}]
            <3>1. CASE evaluation' = [evaluation EXCEPT ![r] = s] /\ current' = current
                  BY <1>1, <2>1, <3>1 DEF Types
            <3>2. CASE current' = [current EXCEPT ![r] = s] /\ evaluation' = evaluation
                  BY <1>1, <2>1, <3>2 DEF Types
            <3> QED  BY <1>2, <3>1, <3>2 DEF Starts
      <2>3. drawn' \in [Requests -> Nat] /\ open' \in [Requests -> SUBSET Span] /\ pc' \in [Requests -> Place]
            BY <1>1, <1>2, <2>1 DEF Starts, Types
      <2> QED  BY <1>1, <1>2, <2>2, <2>3 DEF Starts, Types
<1>8. NothingYet(r)' /\ Server(r)' /\ Written(r)' /\ Audited(r)'
      BY <1>1, <1>2, <1>3, <1>4, <1>6 DEF Starts, RequestInv, NothingYet, Server, Written, Audited
<1>9. Evaluation(r)'
      BY <1>2, <1>3, <1>4, <1>6 DEF Starts, Evaluation
<1>10. Current(r)'
      BY <1>2, <1>3, <1>4, <1>6 DEF Starts, Current
<1>11. OpenHere(r)'
      BY <1>1, <1>2, <1>3 DEF Starts, RequestInv, OpenHere
<1> QED  BY <1>7, <1>8, <1>9, <1>10, <1>11 DEF RequestInv

\* What the steps that end a span have in common: the one that is innermost.
\* The outcome is known when the span of Evaluate ends, and stays.
Ends(r, span, status, to) ==
    /\ status \in {"ok", "error"} /\ to \in Place
    /\ End(r, span, status)
    /\ pc' = [pc EXCEPT ![r] = to] /\ to # "new" /\ to \notin InChild
    /\ pc[r] \notin {"new", "routing", "done"} /\ to # "routing"
    /\ \/ /\ span = current[r] /\ pc[r] \in InChild /\ to # "done"
          /\ pc[r] \in InEvaluate <=> to \in InEvaluate
          /\ pc[r] \in InEvaluate \/ outcome' = outcome
       \/ /\ span = evaluation[r] /\ pc[r] \in InEvaluate \ InChild
          /\ to \notin InEvaluate \cup {"done"}
          /\ status = EvaluationStatus(r) /\ outcome' = outcome
       \/ /\ span = server[r] /\ pc[r] \notin InEvaluate \cup InChild
          /\ to = "done" /\ to \notin InEvaluate
          /\ status = (IF outcome[r] = "deadline" THEN "error" ELSE "ok")
          /\ outcome' = outcome
    /\ \/ outcome' = outcome
       \/ \E o \in {"completed", "refused", "deadline"} : outcome' = [outcome EXCEPT ![r] = o]
    /\ \/ UNCHANGED audited
       \/ audited' = [audited EXCEPT ![r] = Append(@, current[r].trace)] /\ pc[r] \in InChild
    /\ UNCHANGED <<drawn, server, evaluation, current, header>>

LEMMA EndForm ==
    ASSUME Types, NEW r \in Requests,
           \/ ResolutionFails(r) \/ Resolved(r) \/ DetectorReturns(r) \/ DetectorIsCancelled(r)
           \/ Aggregated(r) \/ Transformed(r) \/ EvaluateReturns(r)
           \/ RecordAudit(r) \/ HandlerReturns(r)
    PROVE  \E span, status, to : Ends(r, span, status, to)
<1>1. CASE RecordAudit(r)
      <2>1. Ends(r, current[r], "ok", "answered")
            BY <1>1 DEF Ends, RecordAudit, Step, Place, InEvaluate, InChild
      <2> QED  BY <2>1
<1>2. CASE EvaluateReturns(r)
      <2>1. Ends(r, evaluation[r], EvaluationStatus(r), "audit")
            BY <1>2 DEF Ends, EvaluateReturns, EvaluationStatus, Step, Place, InEvaluate, InChild
      <2> QED  BY <2>1
<1>3. CASE HandlerReturns(r)
      <2>1. Ends(r, server[r], IF outcome[r] = "deadline" THEN "error" ELSE "ok", "done")
            BY <1>3 DEF Ends, HandlerReturns, Step, Place, InEvaluate, InChild
      <2> QED  BY <2>1
<1>4. CASE ResolutionFails(r)
      <2>1. Ends(r, current[r], "error", "returning")
            BY <1>4 DEF Ends, ResolutionFails, Step, Place, InEvaluate, InChild
      <2> QED  BY <2>1
<1>5. CASE Resolved(r)
      <2>1. Ends(r, current[r], "ok", "policies")
            BY <1>5 DEF Ends, Resolved, Step, Place, InEvaluate, InChild
      <2> QED  BY <2>1
<1>6. CASE DetectorReturns(r)
      <2>1. PICK status \in {"ok", "error"} : End(r, current[r], status)
            BY <1>6 DEF DetectorReturns
      <2>2. Ends(r, current[r], status, "policies")
            BY <1>6, <2>1 DEF Ends, DetectorReturns, Step, Place, InEvaluate, InChild
      <2> QED  BY <2>2
<1>7. CASE DetectorIsCancelled(r)
      <2>1. Ends(r, current[r], "error", "returning")
            BY <1>7 DEF Ends, DetectorIsCancelled, Step, Place, InEvaluate, InChild
      <2> QED  BY <2>1
<1>8. CASE Aggregated(r)
      <2>1. PICK to \in {"redact", "returning"} :
              /\ pc[r] = "aggregating" /\ pc' = [pc EXCEPT ![r] = to]
              /\ \/ outcome' = [outcome EXCEPT ![r] = "completed"]
                 \/ outcome' = outcome
            BY <1>8 DEF Aggregated, Step
      <2>2. /\ End(r, current[r], "ok")
            /\ UNCHANGED <<drawn, server, evaluation, current, header, audited>>
            BY <1>8 DEF Aggregated
      <2>3. Ends(r, current[r], "ok", to)
            BY <2>1, <2>2 DEF Ends, Place, InEvaluate, InChild
      <2> QED  BY <2>3
<1>9. CASE Transformed(r)
      <2>1. Ends(r, current[r], "ok", "returning")
            BY <1>9 DEF Ends, Transformed, Step, Place, InEvaluate, InChild
      <2> QED  BY <2>1
<1> QED  BY <1>1, <1>2, <1>3, <1>4, <1>5, <1>6, <1>7, <1>8, <1>9

\* The steps that end a span.
LEMMA EndKeeps ==
    ASSUME Inv, NEW r \in Requests,
           \/ ResolutionFails(r) \/ Resolved(r) \/ DetectorReturns(r) \/ DetectorIsCancelled(r)
           \/ Aggregated(r) \/ Transformed(r) \/ EvaluateReturns(r)
           \/ RecordAudit(r) \/ HandlerReturns(r)
    PROVE  Types' /\ RequestInv(r)'
<1>1. /\ Types /\ RequestInv(r) /\ drawn[r] \in Nat /\ Issued(r, drawn[r]) \subseteq Span
      /\ log[r] \in Seq(Entry) /\ open[r] \subseteq Span
      BY DEF Inv, Types, Issued
<1>2. PICK span, status, to : Ends(r, span, status, to)
      BY <1>1, EndForm
<1>3. /\ OpenHere(r) /\ Server(r) /\ Evaluation(r) /\ Current(r) /\ Written(r) /\ Audited(r)
      BY <1>1 DEF RequestInv
<1>4. /\ span \in open[r] /\ open[r] \subseteq Issued(r, drawn[r])
      /\ span.name = "http.server" => span = server[r]
      /\ \A s \in open[r] : s # span => s.span # span.span
      BY <1>2, <1>3 DEF Ends, OpenHere, Server, Evaluation, Current
<1> DEFINE entry == [span |-> span, status |-> status]
<1>5. /\ entry \in Entry /\ entry.span = span
      /\ open' = [open EXCEPT ![r] = @ \ {span}]
      /\ log' = [log EXCEPT ![r] = Append(@, entry)]
      BY <1>1, <1>2, <1>4 DEF Ends, End, Entry
<1> HIDE DEF entry
<1>6. /\ pc'[r] = to /\ open'[r] = open[r] \ {span} /\ log'[r] = Append(log[r], entry)
      BY <1>1, <1>2, <1>5 DEF Ends, Types
<1>7. Written(r)'
      <2>1. WellWritten(Append(log[r], entry), Issued(r, drawn[r]), open[r] \ {span}, server[r])
            BY <1>1, <1>3, <1>4, <1>5, Ended DEF Written
      <2> QED  BY <1>2, <1>6, <2>1 DEF Ends, Written
<1>8. Audited(r)' /\ audited' \in [Requests -> Seq(Id)]
      <2>1. CASE UNCHANGED audited
            BY <1>1, <1>3, <2>1 DEF Audited, Types
      <2>2. CASE audited' = [audited EXCEPT ![r] = Append(@, current[r].trace)] /\ pc[r] \in InChild
            <3>1. current[r].trace = TraceOf(r) /\ current[r].trace \in Id /\ audited[r] \in Seq(Id)
                  BY <1>1, <1>3, <2>2 DEF Current, Issued, Span, Types
            <3>2. audited'[r] = Append(audited[r], current[r].trace)
                  BY <1>1, <2>2 DEF Types
            <3>3. Audited(r)'
                  BY <1>3, <3>1, <3>2 DEF Audited
            <3> QED  BY <1>1, <2>2, <3>1, <3>3 DEF Types
      <2> QED  BY <1>2, <2>1, <2>2 DEF Ends
<1>9. Types'
      <2>1. open' \in [Requests -> SUBSET Span] /\ log' \in [Requests -> Seq(Entry)]
            BY <1>1, <1>5 DEF Types
      <2> QED  BY <1>1, <1>2, <1>8, <2>1 DEF Ends, Types
<1>10. NothingYet(r)' /\ Server(r)' /\ Evaluation(r)' /\ Current(r)'
      BY <1>2, <1>3, <1>6 DEF Ends, NothingYet, Server, Evaluation, Current
<1>11. OpenHere(r)'
      BY <1>2, <1>3, <1>4, <1>6 DEF Ends, OpenHere, Server, Evaluation, Current
<1> QED  BY <1>7, <1>8, <1>9, <1>10, <1>11 DEF RequestInv

\* The steps that neither start nor end one, and the one that begins a request.
LEMMA OthersKeep ==
    ASSUME Inv, NEW r \in Requests,
           Arrive(r) \/ AnswerPlain(r) \/ RefuseAudited(r) \/ Abandon(r)
    PROVE  Types' /\ RequestInv(r)'
<1>1. Types /\ RequestInv(r)
      BY DEF Inv
<1>2. CASE Arrive(r)
      <2>1. PICK s : s = Child(r, "http.server", Continued(r))
            OBVIOUS
      <2>2. /\ pc[r] = "new" /\ drawn[r] = 0 /\ log[r] = <<>> /\ audited[r] = <<>>
            BY <1>1, <1>2 DEF Arrive, Step, RequestInv, NothingYet
      <2>3. /\ s \in Span /\ s.trace = TraceOf(r) /\ s.span = <<r, 1>> /\ s.name = "http.server"
            <3>1. /\ Continued(r).trace = TraceOf(r)
                  /\ Continued(r).trace \in Id /\ Continued(r).span \in Id \cup {NoId}
                  BY <2>2, TraceAssumption DEF Continued, TraceOf, Id
            <3>2. "http.server" \in SpanName
                  BY DEF SpanName
            <3>3. <<r, 1>> \in Id
                  BY DEF Id
            <3> QED  BY <2>1, <2>2, <3>1, <3>2, <3>3 DEF Child, Span
      <2>4. /\ pc' = [pc EXCEPT ![r] = "routing"]
            /\ drawn' = [drawn EXCEPT ![r] = @ + 2]
            /\ server' = [server EXCEPT ![r] = s]
            /\ header' = [header EXCEPT ![r] = s]
            /\ open' = [open EXCEPT ![r] = {s}]
            /\ UNCHANGED <<evaluation, current, outcome, log, audited>>
            BY <1>2, <2>1 DEF Arrive, Step
      <2>5. Types'
            <3>1. pc' \in [Requests -> Place] /\ drawn' \in [Requests -> Nat]
                  BY <1>1, <2>4 DEF Types, Place
            <3>2. /\ server' \in [Requests -> Span \cup {NoSpan}]
                  /\ header' \in [Requests -> Span \cup {NoSpan}]
                  /\ open' \in [Requests -> SUBSET Span]
                  BY <1>1, <2>3, <2>4 DEF Types
            <3> QED  BY <1>1, <2>4, <3>1, <3>2 DEF Types
      <2>6. /\ pc'[r] = "routing" /\ drawn'[r] = 2 /\ server'[r] = s /\ header'[r] = s
            /\ open'[r] = {s} /\ log'[r] = <<>> /\ audited'[r] = <<>>
            BY <1>1, <2>2, <2>4 DEF Types
      <2>7. s \in Issued(r, 2)
            BY <2>3 DEF Issued
      <2>8. NothingYet(r)' /\ Server(r)' /\ Evaluation(r)' /\ Current(r)' /\ OpenHere(r)'
            BY <2>3, <2>6, <2>7
            DEF NothingYet, Server, Evaluation, Current, OpenHere, InEvaluate, InChild
      <2>9. Written(r)' /\ Audited(r)'
            BY <2>6 DEF Written, WellWritten, Audited
      <2> QED  BY <2>5, <2>8, <2>9 DEF RequestInv
<1>3. CASE AnswerPlain(r) \/ RefuseAudited(r) \/ Abandon(r)
      <2>1. PICK from, to \in Place :
              /\ pc[r] = from /\ pc' = [pc EXCEPT ![r] = to]
              /\ from \notin {"new", "done"} /\ to \notin {"new", "done"}
              /\ from \notin InChild /\ to \notin InChild
              /\ from \in InEvaluate <=> to \in InEvaluate
            BY <1>3 DEF AnswerPlain, RefuseAudited, Abandon, Step, Place, InEvaluate, InChild
      <2>2. \E o \in {"completed", "refused", "deadline"} : outcome' = [outcome EXCEPT ![r] = o]
            BY <1>3 DEF AnswerPlain, RefuseAudited, Abandon
      <2>3. UNCHANGED <<drawn, server, evaluation, current, header, open, log, audited>>
            BY <1>3 DEF AnswerPlain, RefuseAudited, Abandon
      <2>4. Types' /\ pc'[r] = to
            BY <1>1, <2>1, <2>2, <2>3 DEF Types
      <2>5. NothingYet(r)' /\ Server(r)' /\ Evaluation(r)' /\ Current(r)' /\ OpenHere(r)'
            BY <1>1, <2>1, <2>3, <2>4
            DEF RequestInv, NothingYet, Server, Evaluation, Current, OpenHere
      <2>6. Written(r)' /\ Audited(r)'
            BY <1>1, <2>3 DEF RequestInv, Written, Audited
      <2> QED  BY <2>4, <2>5, <2>6 DEF RequestInv
<1> QED  BY <1>2, <1>3

\* A step of one request keeps the invariant of all.
LEMMA InvAlways == Spec => []Inv
<1> DEFINE Undisturbed(q) ==
      /\ pc'[q] = pc[q] /\ drawn'[q] = drawn[q] /\ server'[q] = server[q]
      /\ evaluation'[q] = evaluation[q] /\ current'[q] = current[q] /\ header'[q] = header[q]
      /\ open'[q] = open[q] /\ log'[q] = log[q] /\ audited'[q] = audited[q]
<1>0. ASSUME NEW q \in Requests, RequestInv(q), Undisturbed(q) PROVE RequestInv(q)'
      BY <1>0 DEF RequestInv, NothingYet, Server, Evaluation, Current, OpenHere, Written, Audited
<1>1. Init => Inv
      <2> SUFFICES ASSUME Init PROVE Inv
            OBVIOUS
      <2>1. Types
            BY DEF Init, Types, Place
      <2>2. ASSUME NEW r \in Requests PROVE RequestInv(r)
            <3>1. /\ pc[r] = "new" /\ drawn[r] = 0 /\ open[r] = {}
                  /\ log[r] = <<>> /\ audited[r] = <<>>
                  BY DEF Init
            <3>2. NothingYet(r) /\ Server(r) /\ Evaluation(r) /\ Current(r) /\ OpenHere(r)
                  BY <3>1 DEF NothingYet, Server, Evaluation, Current, OpenHere, InEvaluate, InChild
            <3>3. Written(r) /\ Audited(r)
                  BY <3>1 DEF Written, WellWritten, Audited
            <3> QED  BY <3>2, <3>3 DEF RequestInv
      <2> QED  BY <2>1, <2>2 DEF Inv
<1>2. Inv /\ [Next]_vars => Inv'
      <2> SUFFICES ASSUME Inv, [Next]_vars PROVE Inv'
            OBVIOUS
      <2>1. CASE UNCHANGED vars
            <3>1. Types'
                  BY <2>1 DEF Inv, Types, vars
            <3>2. ASSUME NEW q \in Requests PROVE RequestInv(q)'
                  BY <1>0, <2>1 DEF Inv, vars
            <3> QED  BY <3>1, <3>2 DEF Inv
      <2>2. ASSUME NEW r \in Requests, Handle(r) \/ Evaluate(r) PROVE Inv'
            <3>1. Types' /\ RequestInv(r)'
                  BY <2>2, StartKeeps, EndKeeps, OthersKeep DEF Handle, Evaluate
            <3>2. ASSUME NEW q \in Requests \ {r} PROVE RequestInv(q)'
                  <4>1. Undisturbed(q)
                        <5>1. CASE Handle(r)
                              BY <5>1 DEF Inv, Types, Handle, Arrive, AnswerPlain, RefuseAudited,
                                 StartAudit, RecordAudit, HandlerReturns, Step, StartSpan, End
                        <5>2. CASE \/ CallEvaluate(r) \/ Abandon(r)
                                   \/ StartResolution(r) \/ ResolutionFails(r) \/ Resolved(r)
                                   \/ StartDetector(r) \/ DetectorReturns(r)
                              BY <5>2 DEF Inv, Types, CallEvaluate, Abandon, StartResolution,
                                 ResolutionFails, Resolved, StartDetector, DetectorReturns,
                                 Step, StartSpan, End
                        <5>3. CASE \/ DetectorIsCancelled(r) \/ StartAggregation(r) \/ Aggregated(r)
                                   \/ StartTransformation(r) \/ Transformed(r) \/ EvaluateReturns(r)
                              BY <5>3 DEF Inv, Types, DetectorIsCancelled, StartAggregation,
                                 Aggregated, StartTransformation, Transformed, EvaluateReturns,
                                 Step, StartSpan, End
                        <5> QED  BY <2>2, <5>1, <5>2, <5>3 DEF Evaluate
                  <4> QED  BY <1>0, <4>1 DEF Inv
            <3> QED  BY <3>1, <3>2 DEF Inv
      <2> QED  BY <2>1, <2>2 DEF Next, Terminated
<1> QED  BY <1>1, <1>2, PTL DEF Spec

-----------------------------------------------------------------------------

\* Whichever way a request goes, all its spans are in the log when it is
\* answered, each of them once (observability.go:421-432, evaluator.go:85-98,
\* handler.go:198-213).
THEOREM SpansEndOnce == Spec => []EverySpanEndsOnce
<1>1. Inv => EverySpanEndsOnce
      <2> SUFFICES ASSUME Inv, NEW r \in Requests
                   PROVE  /\ pc[r] = "done" => open[r] = {}
                          /\ \A m, n \in DOMAIN log[r] :
                                log[r][m].span.span = log[r][n].span.span => m = n
                          /\ Logged(r) \cap open[r] = {}
            BY DEF EverySpanEndsOnce
      <2>1. OpenHere(r) /\ Written(r)
            BY DEF Inv, RequestInv
      <2>2. pc[r] = "done" => open[r] = {}
            BY <2>1 DEF OpenHere, InEvaluate, InChild
      <2> QED  BY <2>1, <2>2 DEF Written, WellWritten, Logged
<1> QED  BY <1>1, InvAlways, PTL

\* All the spans and the audit event of a request are in the trace its answer
\* names, and two requests that begin their own have two (observability.go:137-145,
\* 380-409).
THEOREM TracesAreSeparate == Spec => []OneTracePerRequest
<1>1. Inv => OneTracePerRequest
      <2> SUFFICES ASSUME Inv, NEW r \in Requests, pc[r] # "new"
                   PROVE
                     /\ \A s \in open[r] \cup Logged(r) :
                           /\ s.trace = header[r].trace
                           /\ s.name = "http.server" => s.span = header[r].span
                     /\ \A n \in DOMAIN audited[r] : audited[r][n] = header[r].trace
                     /\ Traceparent[r] # NoContext => header[r].trace = Traceparent[r].trace
                     /\ Traceparent[r] = NoContext =>
                           \A q \in Requests \ {r} : pc[q] # "new" =>
                               header[q].trace # header[r].trace
            BY DEF OneTracePerRequest
      <2>1. RequestInv(r)
            BY DEF Inv
      <2>2. \A q \in Requests : pc[q] # "new" => header[q].trace = TraceOf(q)
            BY DEF Inv, RequestInv, Server, Issued
      <2>3. /\ \A s \in open[r] \cup Logged(r) :
                  s \in Issued(r, drawn[r]) /\ (s.name = "http.server" => s = header[r])
            BY <2>1 DEF RequestInv, Server, Evaluation, Current, OpenHere, Written, WellWritten, Logged
      <2>4. \A n \in DOMAIN audited[r] : audited[r][n] = header[r].trace
            BY <2>1, <2>2 DEF RequestInv, Audited
      <2>5. ASSUME NEW q \in Requests \ {r}, Traceparent[r] = NoContext PROVE TraceOf(q) # TraceOf(r)
            <3>1. TraceOf(r) = <<r, 2>>
                  BY <2>5 DEF TraceOf
            <3>2. CASE Traceparent[q] = NoContext
                  BY <3>1, <3>2 DEF TraceOf
            <3>3. CASE Traceparent[q] # NoContext
                  <4>1. TraceOf(q) \in Callers /\ TraceOf(r) \in Requests \X Nat
                        BY <3>1, <3>3, TraceAssumption DEF TraceOf
                  <4> QED  BY <4>1, TraceAssumption
            <3> QED  BY <3>2, <3>3
      <2> QED  BY <2>2, <2>3, <2>4, <2>5 DEF TraceOf, Issued
<1> QED  BY <1>1, InvAlways, PTL

-----------------------------------------------------------------------------
(* The log as a tree, and what it says of the outcome. *)

CallerSpan(r) == IF Traceparent[r] = NoContext THEN NoId ELSE Traceparent[r].span

\* Whose child each open span is.
Shape(r) ==
    /\ pc[r] # "new" => server[r].parent = CallerSpan(r)
    /\ pc[r] \in InEvaluate =>
          evaluation[r].name = "guardrails.evaluate" /\ evaluation[r].parent = server[r].span
    /\ pc[r] \in InChild =>
          /\ current[r].name # "guardrails.evaluate"
          /\ current[r].parent = (IF pc[r] \in InEvaluate THEN evaluation[r] ELSE server[r]).span

\* Nothing that is written has a child that is not.
Childless(r) ==
    /\ \A n \in DOMAIN log[r], s \in open[r] : s.parent # log[r][n].span.span
    /\ \A m, n \in DOMAIN log[r] : m < n => log[r][n].span.parent # log[r][m].span.span

\* Everything that is written, but the handler's span, has its parent somewhere.
Rooted(r) ==
    \A s \in Logged(r) : s = server[r] \/ \E p \in open[r] \cup Logged(r) : s.parent = p.span

\* What is written so far tells an outcome that does not change any more.
Told(r) ==
    \A n \in DOMAIN log[r] :
        /\ log[r][n].span.name = "guardrails.evaluate" =>
              /\ pc[r] \notin {"new", "routing"} \cup InEvaluate
              /\ log[r][n].status = "ok" <=> outcome[r] = "completed"
        /\ log[r][n].span.name = "http.server" =>
              /\ pc[r] = "done"
              /\ log[r][n].status = "error" <=> outcome[r] = "deadline"

Tree(r) == Shape(r) /\ Childless(r) /\ Rooted(r) /\ Told(r)

\* A caller's span has no id that is drawn here.
LEMMA CallersDiffer ==
    ASSUME NEW r \in Requests, NEW n
    PROVE  \A s \in Issued(r, n) : s.span # CallerSpan(r)
<1> SUFFICES ASSUME NEW s \in Issued(r, n) PROVE s.span # CallerSpan(r)
      OBVIOUS
<1>1. s.span \in Requests \X Nat
      BY DEF Issued
<1>2. CallerSpan(r) \in Callers \cup {NoId}
      BY TraceAssumption DEF CallerSpan
<1>3. (Requests \X Nat) \subseteq Id
      BY DEF Id
<1> QED  BY <1>1, <1>2, <1>3, TraceAssumption

\* A span that is started has an open parent.
LEMMA StartGrows ==
    ASSUME Inv, NEW r \in Requests, Tree(r),
           \/ CallEvaluate(r) \/ StartResolution(r) \/ StartDetector(r)
           \/ StartAggregation(r) \/ StartTransformation(r) \/ StartAudit(r)
    PROVE  Tree(r)'
<1>1. Types /\ RequestInv(r)
      BY DEF Inv
<1>2. PICK name, parent, to, s : Starts(r, name, parent, to, s)
      BY StartForm
<1>3. /\ pc'[r] = to /\ open'[r] = open[r] \cup {s} /\ log'[r] = log[r]
      /\ server'[r] = server[r] /\ outcome'[r] = outcome[r]
      /\ \/ /\ to \in InEvaluate \ InChild /\ pc[r] \notin InEvaluate
            /\ name = "guardrails.evaluate" /\ evaluation'[r] = s
         \/ /\ to \in InChild /\ name # "guardrails.evaluate"
            /\ to \in InEvaluate <=> pc[r] \in InEvaluate
            /\ current'[r] = s /\ evaluation'[r] = evaluation[r]
      BY <1>1, <1>2 DEF Starts, Types
<1>4. s.name = name /\ s.parent = parent.span
      BY <1>2 DEF Starts, Child
<1>5. /\ parent = (IF pc[r] \in InEvaluate THEN evaluation[r] ELSE server[r])
      /\ parent \in open[r] /\ pc[r] \notin {"new", "done"} /\ to \notin {"new", "done"}
      BY <1>1, <1>2 DEF Starts, RequestInv, OpenHere
<1>6. Shape(r)'
      BY <1>3, <1>4, <1>5 DEF Tree, Shape, CallerSpan
<1>7. Childless(r)'
      <2>1. \A n \in DOMAIN log[r] : s.parent # log[r][n].span.span
            BY <1>1, <1>4, <1>5 DEF RequestInv, Written, WellWritten
      <2> QED  BY <1>3, <2>1 DEF Tree, Childless
<1>8. Rooted(r)'
      BY <1>3 DEF Tree, Rooted, Logged
<1>9. Told(r)'
      BY <1>2, <1>3 DEF Tree, Told, Starts
<1> QED  BY <1>6, <1>7, <1>8, <1>9 DEF Tree

\* A span that ends is written after its children.
LEMMA EndGrows ==
    ASSUME Inv, NEW r \in Requests, Tree(r),
           \/ ResolutionFails(r) \/ Resolved(r) \/ DetectorReturns(r) \/ DetectorIsCancelled(r)
           \/ Aggregated(r) \/ Transformed(r) \/ EvaluateReturns(r)
           \/ RecordAudit(r) \/ HandlerReturns(r)
    PROVE  Tree(r)'
<1>1. /\ Types /\ RequestInv(r) /\ log[r] \in Seq(Entry)
      /\ OpenHere(r) /\ Server(r) /\ Evaluation(r) /\ Current(r) /\ Written(r)
      /\ Shape(r) /\ Childless(r) /\ Rooted(r) /\ Told(r)
      BY DEF Inv, Types, RequestInv, Tree
<1>2. PICK span, status, to : Ends(r, span, status, to)
      BY <1>1, EndForm
<1> DEFINE entry == [span |-> span, status |-> status]
           new == Append(log[r], entry)
<1>3. /\ span \in open[r] /\ open[r] \subseteq Issued(r, drawn[r])
      /\ \A s \in open[r] : s # span => s.parent # span.span
      <2>1. \A s \in Issued(r, drawn[r]) : s.span # CallerSpan(r)
            BY CallersDiffer
      <2>2. span \in open[r] /\ open[r] \subseteq Issued(r, drawn[r])
            BY <1>1, <1>2 DEF Ends, OpenHere, Server, Evaluation, Current
      <2>3. \A s \in open[r] : s # span => s.parent # span.span
            BY <1>1, <1>2, <2>1, <2>2 DEF Ends, OpenHere, Server, Evaluation, Current, Shape
      <2> QED  BY <2>2, <2>3
<1>4. /\ entry \in Entry /\ entry.span = span /\ entry.status = status
      BY <1>1, <1>2, <1>3 DEF Ends, Entry, Issued
<1>5. /\ pc'[r] = to /\ open'[r] = open[r] \ {span} /\ log'[r] = new
      /\ server'[r] = server[r] /\ evaluation'[r] = evaluation[r] /\ current'[r] = current[r]
      BY <1>1, <1>2, <1>3 DEF Ends, End, Types
<1> HIDE DEF entry
<1>6. /\ DOMAIN new = 1 .. Len(log[r]) + 1 /\ DOMAIN log[r] = 1 .. Len(log[r])
      /\ Len(log[r]) \in Nat /\ new[Len(log[r]) + 1] = entry
      /\ \A n \in DOMAIN log[r] : new[n] = log[r][n] /\ n # Len(log[r]) + 1
      BY <1>1, <1>4
<1>7. \A n \in DOMAIN new : n = Len(log[r]) + 1 \/ n \in DOMAIN log[r]
      BY <1>6
<1> HIDE DEF new
<1>8. Shape(r)'
      BY <1>1, <1>2, <1>5 DEF Ends, Shape, CallerSpan
<1>9. Childless(r)'
      <2>1. \A n \in DOMAIN new, s \in open'[r] : s.parent # new[n].span.span
            BY <1>1, <1>3, <1>4, <1>5, <1>6, <1>7 DEF Childless
      <2>2. \A m, n \in DOMAIN new : m < n => new[n].span.parent # new[m].span.span
            <3>1. \A m, n \in DOMAIN log[r] :
                     m < n => new[n].span.parent # new[m].span.span
                  BY <1>1, <1>6 DEF Childless
            <3>2. \A m \in DOMAIN log[r] : span.parent # new[m].span.span
                  BY <1>1, <1>3, <1>6 DEF Childless
            <3>3. \A m, n \in DOMAIN new : m < n => m \in DOMAIN log[r]
                  BY <1>6
            <3> QED  BY <1>4, <1>6, <1>7, <3>1, <3>2, <3>3
      <2> QED  BY <1>5, <2>1, <2>2 DEF Childless
<1>10. Rooted(r)'
      <2>1. {new[n].span : n \in DOMAIN new} = Logged(r) \cup {span}
            BY <1>4, <1>6, <1>7 DEF Logged
      <2>2. Logged(r)' = Logged(r) \cup {span}
            BY <1>5, <2>1 DEF Logged
      <2>3. open'[r] \cup Logged(r)' = open[r] \cup Logged(r)
            BY <1>3, <1>5, <2>2
      <2>4. span = server[r] \/ \E p \in open[r] : span.parent = p.span
            BY <1>1, <1>2 DEF Ends, OpenHere, Shape
      <2> QED  BY <1>1, <1>5, <2>2, <2>3, <2>4 DEF Rooted
<1>11. Told(r)'
      <2>1. \/ outcome'[r] = outcome[r]
            \/ pc[r] \in InEvaluate /\ to \in InEvaluate
            BY <1>1, <1>2 DEF Ends, Types
      <2>2. ASSUME NEW n \in DOMAIN log[r]
            PROVE  /\ new[n].span.name = "guardrails.evaluate" =>
                         /\ to \notin {"new", "routing"} \cup InEvaluate
                         /\ new[n].status = "ok" <=> outcome'[r] = "completed"
                   /\ new[n].span.name # "http.server"
            BY <1>1, <1>2, <1>6, <2>1 DEF Ends, Told
      <2>3. /\ entry.span.name = "guardrails.evaluate" =>
                  /\ to \notin {"new", "routing"} \cup InEvaluate
                  /\ entry.status = "ok" <=> outcome'[r] = "completed"
            /\ entry.span.name = "http.server" =>
                  /\ to = "done"
                  /\ entry.status = "error" <=> outcome'[r] = "deadline"
            BY <1>1, <1>2, <1>4, <2>1
            DEF Ends, EvaluationStatus, Server, Evaluation, Current, Shape
      <2> QED  BY <1>5, <1>6, <1>7, <2>2, <2>3 DEF Told
<1> QED  BY <1>8, <1>9, <1>10, <1>11 DEF Tree

\* A request begins without anything written, and a refusal comes before the
\* evaluation or ends it.
LEMMA OthersGrow ==
    ASSUME Inv, NEW r \in Requests, Tree(r),
           Arrive(r) \/ AnswerPlain(r) \/ RefuseAudited(r) \/ Abandon(r)
    PROVE  Tree(r)'
<1>1. Types /\ NothingYet(r) /\ OpenHere(r)
      BY DEF Inv, RequestInv
<1>2. CASE Arrive(r)
      <2>1. PICK s : s = Child(r, "http.server", Continued(r))
            OBVIOUS
      <2>2. /\ pc'[r] = "routing" /\ server'[r] = s /\ open'[r] = {s} /\ log'[r] = <<>>
            BY <1>1, <1>2, <2>1 DEF Arrive, Step, Types, NothingYet
      <2>3. s.parent = CallerSpan(r)
            BY <2>1 DEF Child, Continued, CallerSpan
      <2>4. "routing" \notin InEvaluate \cup InChild
            BY DEF InEvaluate, InChild
      <2>5. Shape(r)'
            BY <2>2, <2>3, <2>4 DEF Shape, CallerSpan
      <2>6. DOMAIN log'[r] = {}
            BY <2>2
      <2>7. Childless(r)' /\ Rooted(r)' /\ Told(r)'
            BY <2>6 DEF Childless, Rooted, Told, Logged
      <2> QED  BY <2>5, <2>7 DEF Tree
<1>3. CASE AnswerPlain(r) \/ RefuseAudited(r) \/ Abandon(r)
      <2>1. PICK from, to \in Place :
              /\ pc[r] = from /\ pc' = [pc EXCEPT ![r] = to]
              /\ from \in {"routing"} \cup InEvaluate /\ from \notin {"new", "done"}
              /\ to \notin {"new", "routing", "done"}
              /\ from \notin InChild /\ to \notin InChild
              /\ from \in InEvaluate <=> to \in InEvaluate
            BY <1>3 DEF AnswerPlain, RefuseAudited, Abandon, Step, Place, InEvaluate, InChild
      <2>2. UNCHANGED <<drawn, server, evaluation, current, header, open, log, audited>>
            BY <1>3 DEF AnswerPlain, RefuseAudited, Abandon
      <2>3. pc'[r] = to
            BY <1>1, <2>1 DEF Types
      <2>4. Shape(r)'
            BY <2>1, <2>2, <2>3 DEF Tree, Shape, CallerSpan
      <2>5. Childless(r)' /\ Rooted(r)'
            BY <2>2 DEF Tree, Childless, Rooted, Logged
      <2>6. \A n \in DOMAIN log[r] : /\ log[r][n].span.name # "guardrails.evaluate"
                                     /\ log[r][n].span.name # "http.server"
            BY <2>1 DEF Tree, Told
      <2>7. Told(r)'
            BY <2>2, <2>6 DEF Told
      <2> QED  BY <2>4, <2>5, <2>7 DEF Tree
<1> QED  BY <1>2, <1>3

\* A step of one request keeps the trees of all.
LEMMA TreesAlways == Spec => [](\A r \in Requests : Tree(r))
<1> DEFINE Trees == \A r \in Requests : Tree(r)
           Undisturbed(q) ==
             /\ pc'[q] = pc[q] /\ server'[q] = server[q] /\ evaluation'[q] = evaluation[q]
             /\ current'[q] = current[q] /\ outcome'[q] = outcome[q]
             /\ open'[q] = open[q] /\ log'[q] = log[q]
<1>1. ASSUME NEW q \in Requests, Tree(q), Undisturbed(q) PROVE Tree(q)'
      BY <1>1 DEF Tree, Shape, Childless, Rooted, Told, Logged, CallerSpan
<1>2. Init => Trees
      <2> SUFFICES ASSUME Init, NEW r \in Requests PROVE Tree(r)
            OBVIOUS
      <2>1. pc[r] = "new" /\ DOMAIN log[r] = {} /\ Logged(r) = {}
            BY DEF Init, Logged
      <2>2. Shape(r)
            BY <2>1 DEF Shape, InEvaluate, InChild
      <2> QED  BY <2>1, <2>2 DEF Tree, Childless, Rooted, Told
<1>3. Inv /\ Trees /\ [Next]_vars => Trees'
      <2> SUFFICES ASSUME Inv, Trees, [Next]_vars PROVE Trees'
            OBVIOUS
      <2>1. CASE UNCHANGED vars
            BY <1>1, <2>1 DEF vars
      <2>2. ASSUME NEW r \in Requests, Handle(r) \/ Evaluate(r) PROVE Trees'
            <3>1. Tree(r)'
                  BY <2>2, StartGrows, EndGrows, OthersGrow DEF Handle, Evaluate
            <3>2. ASSUME NEW q \in Requests \ {r} PROVE Tree(q)'
                  <4>1. Undisturbed(q)
                        <5>1. CASE Handle(r)
                              BY <5>1 DEF Inv, Types, Handle, Arrive, AnswerPlain, RefuseAudited,
                                 StartAudit, RecordAudit, HandlerReturns, Step, StartSpan, End
                        <5>2. CASE \/ CallEvaluate(r) \/ Abandon(r)
                                   \/ StartResolution(r) \/ ResolutionFails(r) \/ Resolved(r)
                                   \/ StartDetector(r) \/ DetectorReturns(r)
                              BY <5>2 DEF Inv, Types, CallEvaluate, Abandon, StartResolution,
                                 ResolutionFails, Resolved, StartDetector, DetectorReturns,
                                 Step, StartSpan, End
                        <5>3. CASE \/ DetectorIsCancelled(r) \/ StartAggregation(r) \/ Aggregated(r)
                                   \/ StartTransformation(r) \/ Transformed(r) \/ EvaluateReturns(r)
                              BY <5>3 DEF Inv, Types, DetectorIsCancelled, StartAggregation,
                                 Aggregated, StartTransformation, Transformed, EvaluateReturns,
                                 Step, StartSpan, End
                        <5> QED  BY <2>2, <5>1, <5>2, <5>3 DEF Evaluate
                  <4> QED  BY <1>1, <4>1
            <3> QED  BY <3>1, <3>2
      <2> QED  BY <2>1, <2>2 DEF Next, Terminated
<1> QED  BY <1>2, <1>3, InvAlways, PTL DEF Spec

\* The log of every request is a tree, written from the leaves to the span of
\* the handler (evaluator.go:84-178, handler.go:170-174).
THEOREM LogIsATree == Spec => []ChildrenEndFirst
<1>1. Inv /\ (\A r \in Requests : Tree(r)) => ChildrenEndFirst
      <2> SUFFICES ASSUME Inv, NEW r \in Requests, Tree(r)
                   PROVE
                     /\ Childless(r)
                     /\ \A s \in open[r] \cup Logged(r) :
                           IF s.name = "http.server" THEN s.parent = CallerSpan(r)
                           ELSE \E p \in open[r] \cup Logged(r) : s.parent = p.span
            BY DEF ChildrenEndFirst, Childless, CallerSpan
      <2>1. /\ NothingYet(r) /\ Server(r) /\ Evaluation(r) /\ Current(r) /\ OpenHere(r)
            /\ Written(r) /\ Shape(r) /\ Rooted(r)
            BY DEF Inv, RequestInv, Tree
      <2>2. ASSUME NEW s \in open[r] \cup Logged(r)
            PROVE  IF s.name = "http.server" THEN s.parent = CallerSpan(r)
                   ELSE \E p \in open[r] \cup Logged(r) : s.parent = p.span
            <3>1. CASE s \in open[r]
                  BY <2>1, <3>1 DEF OpenHere, Server, Evaluation, Current, Shape, InEvaluate, InChild
            <3>2. CASE s \in Logged(r)
                  <4>1. pc[r] # "new"
                        BY <2>1, <3>2 DEF NothingYet, Logged
                  <4>2. s.name = "http.server" => s = server[r]
                        BY <2>1, <3>2 DEF Written, WellWritten, Logged
                  <4> QED  BY <2>1, <3>2, <4>1, <4>2 DEF Rooted, Server, Shape
            <3> QED  BY <3>1, <3>2
      <2> QED  BY <2>2 DEF Tree
<1> QED  BY <1>1, InvAlways, TreesAlways, PTL

\* The status of the evaluation's span and of the handler's tell how the request
\* ended, although Evaluate sets its own in a call deferred before it is known
\* (evaluator.go:85-86, 183, handler.go:208-213).
THEOREM StatusesAreTrue == Spec => []StatusesTellTheOutcome
<1>1. (\A r \in Requests : Tree(r)) => StatusesTellTheOutcome
      BY DEF Tree, Told, StatusesTellTheOutcome
<1> QED  BY <1>1, TreesAlways, PTL
=============================================================================
