----------------------------- MODULE Evaluator ------------------------------
(***************************************************************************)
(* One call of Evaluator.Evaluate (internal/engine/evaluator.go): the       *)
(* policy loop, the detector loop inside it, the three nested contexts      *)
(* (caller, policy, detector) with their timers, and the detector executor. *)
(*                                                                          *)
(* The evaluator is sequential; what runs beside it is the caller, who may  *)
(* cancel, the timers of the Go context package, the propagation of a       *)
(* cancellation from a context to its children, and the clock.  Every read  *)
(* of a context's Err() is an action of its own, so a cancellation or a     *)
(* deadline may arrive between any two of them.                             *)
(*                                                                          *)
(* Time is counted from the start of the current policy: the code only ever *)
(* uses differences of instants, and every policy starts a new deadline.    *)
(*                                                                          *)
(* A definition commented "Fault" is no part of the specification: it is a  *)
(* plausible bug in the definition that follows it, kept to show which      *)
(* property notices it.                                                     *)
(***************************************************************************)
EXTENDS Domain

CONSTANTS
    Plans,           \* the sequences of compiled policies Resolve may return
    ExecutorErrors,  \* the DetectorErrors an executor may return
    Cooperative,     \* an executor returns no result once its context is done
    TicksPerMs,      \* clock ticks in a millisecond
    Overrun          \* bound: ticks a policy may run past its deadline

ASSUME PlansAssumption == Plans \subseteq Seq(PolicyConfig)
ASSUME ExecutorAssumption ==
    /\ ExecutorErrors \subseteq [code : STRING, retryable : BOOLEAN]
    /\ Cooperative \in BOOLEAN
ASSUME TimeAssumption == TicksPerMs \in Nat \ {0} /\ Overrun \in Nat

VARIABLES
    pc,            \* the point Evaluate has reached
    plan,          \* policies, the result of Resolve
    p, d,          \* the loop indices: policy and detector
    callerErr,     \* ctx.Err()
    policyErr,     \* policyCtx.Err()
    detectorErr,   \* detectorCtx.Err()
    elapsed,       \* the clock, from policyStart
    timer,         \* when detectorCtx's own timer fires, or NoTimer
    scope, timeout,\* the results of effectiveDetectorTimeout
    begun,         \* detectorStart
    outcome,       \* what the executor returned: detectorErr or its findings
    decision,      \* response.Decision.Action
    reason,        \* winningReason: what decided, and in which policy
    applied,       \* response.AppliedPolicies
    findings,      \* slots that contributed to response.Findings
    clear,         \* slots whose detector ran and found nothing (history)
    failures,      \* response.DetectorFailures, with their cause (history)
    replacements,  \* slots that contributed to replacements
    transformed,   \* response.Decision.TransformedContent is set
    result         \* how Evaluate returned

NoTimer == -1
NoReason == [kind |-> "none", policy |-> 0]
NoOutcome == [kind |-> "none"]

inputs   == <<plan, callerErr>>
contexts == <<policyErr, detectorErr, elapsed, timer>>
locals   == <<scope, timeout, begun, outcome>>
response == <<decision, reason, applied, findings, clear, failures,
              replacements, transformed>>
vars == <<pc, p, d, inputs, contexts, locals, response, result>>

Policy == plan[p]
Detector == plan[p].detectors[d]
Slot == <<p, d>>

Init ==
    /\ pc = "start" /\ plan = <<>> /\ p = 0 /\ d = 0
    /\ callerErr = "nil" /\ policyErr = "nil" /\ detectorErr = "nil"
    /\ elapsed = 0 /\ timer = NoTimer
    /\ scope = "policy" /\ timeout = 0 /\ begun = 0 /\ outcome = NoOutcome
    /\ decision = "allow" /\ reason = NoReason /\ applied = <<>>
    /\ findings = {} /\ clear = {} /\ failures = {} /\ replacements = {}
    /\ transformed = FALSE
    /\ result = "none"

-----------------------------------------------------------------------------
(* The evaluator. *)

Finish(how) == pc' = "done" /\ result' = how

\* A nil response and the caller's error.
Abort ==
    /\ callerErr # "nil"
    /\ Finish("aborted")
    /\ UNCHANGED <<p, d, inputs, contexts, locals, response>>

AbortAtStart == pc = "start" /\ Abort

\* Resolve found an unknown profile or policy.
RejectSelection ==
    /\ pc = "start" /\ callerErr = "nil"
    /\ Finish("rejected")
    /\ UNCHANGED <<p, d, inputs, contexts, locals, response>>

ResolvePolicies ==
    /\ pc = "start" /\ callerErr = "nil"
    /\ plan' \in Plans
    /\ p' = 1
    /\ pc' = "policy"
    /\ UNCHANGED <<d, callerErr, contexts, locals, response, result>>

AbortBeforePolicy == pc = "policy" /\ p <= Len(plan) /\ Abort

\* Head of the policy loop: apply the policy and start its deadline.
BeginPolicy ==
    /\ pc = "policy" /\ p <= Len(plan) /\ callerErr = "nil"
    /\ applied' = Append(applied, Policy.id)
    /\ policyErr' = "nil" /\ elapsed' = 0
    /\ d' = 1
    /\ pc' = "detector"
    /\ UNCHANGED <<p, inputs, detectorErr, timer, locals, decision, reason,
                   findings, clear, failures, replacements, transformed, result>>

AbortBeforeDetector ==
    pc = "detector" /\ d <= Len(Policy.detectors) /\ Abort

\* Head of the detector loop: the caller's context is read first ...
CheckCaller ==
    /\ pc = "detector" /\ d <= Len(Policy.detectors) /\ callerErr = "nil"
    /\ pc' = "deadline"
    /\ UNCHANGED <<p, d, inputs, contexts, locals, response, result>>

\* ... and then the policy's.
PolicyStillRuns ==
    /\ pc = "deadline" /\ policyErr = "nil"
    /\ pc' = "scope"
    /\ UNCHANGED <<p, d, inputs, contexts, locals, response, result>>

\* Fault: a timeout shorter than a millisecond is reported as 0.
TruncatedMilliseconds(ticks) ==
    IF ticks < 0 THEN -((-ticks) \div TicksPerMs) ELSE ticks \div TicksPerMs

DurationMilliseconds(ticks) ==
    IF ticks < 0 THEN -((-ticks) \div TicksPerMs)
    ELSE IF ticks > 0 /\ ticks \div TicksPerMs = 0 THEN 1
    ELSE ticks \div TicksPerMs

\* newFailure.  cause, at and ran are history: the error that was handled,
\* and how long the policy and the detector had been running.
NewFailure(slot, inScope, code, after, retryable, cause) ==
    [slot |-> slot, scope |-> inScope, code |-> code, mode |-> Policy.mode,
     timeoutMs |-> DurationMilliseconds(after), retryable |-> retryable,
     cause |-> cause, at |-> elapsed,
     ran |-> IF slot[2] = 0 THEN 0 ELSE elapsed - begun]

\* Fault: the last failure explains the decision, even a weaker one.
ExplainByLastFailure(failure) ==
    /\ decision' = Stronger(decision, FailureAction(failure.mode))
    /\ reason' = [kind |-> "failed", policy |-> failure.slot[1]]

\* applyFailureDecision.
ApplyFailureDecision(failure) ==
    LET action == FailureAction(failure.mode)
        why == [kind |-> "failed", policy |-> failure.slot[1]]
    IN  /\ decision' = Stronger(decision, action)
        /\ reason' = IF \/ decision' # decision
                        \/ action = "allow" /\ decision = "allow"
                             /\ reason = NoReason
                     THEN why ELSE reason

Record(failure) ==
    /\ failures' = failures \cup {failure}
    /\ ApplyFailureDecision(failure)
    /\ UNCHANGED <<applied, findings, clear, replacements, transformed>>

\* Fault: the loop is left without recording why.
PolicyExpiredSilently ==
    /\ pc = "deadline" /\ policyErr # "nil"
    /\ pc' = "policyEnd"
    /\ UNCHANGED <<p, d, inputs, contexts, locals, response, result>>

\* The policy's context is done before its next detector: the policy fails,
\* and the rest of its detectors are skipped.
PolicyExpired ==
    /\ pc = "deadline" /\ policyErr # "nil"
    /\ Record(NewFailure(<<p, 0>>, "policy", "POLICY_TIMEOUT", Policy.timeout,
                         TRUE, policyErr))
    /\ pc' = "policyEnd"
    /\ UNCHANGED <<p, d, inputs, contexts, locals, result>>

Remaining == Policy.timeout - elapsed

\* Fault: the scope is the policy's whichever deadline comes first.
AlwaysPolicyScope ==
    /\ pc = "scope"
    /\ scope' = "policy"
    /\ timeout' = IF Detector.timeout < Remaining THEN Detector.timeout ELSE Remaining
    /\ pc' = "arm"
    /\ UNCHANGED <<p, d, inputs, contexts, begun, outcome, response, result>>

\* effectiveDetectorTimeout.
EffectiveDetectorTimeout ==
    /\ pc = "scope"
    /\ IF Detector.timeout < Remaining
       THEN scope' = "detector" /\ timeout' = Detector.timeout
       ELSE scope' = "policy" /\ timeout' = Remaining
    /\ pc' = "arm"
    /\ UNCHANGED <<p, d, inputs, contexts, begun, outcome, response, result>>

\* context.WithTimeout(policyCtx, timeout).  A context whose parent is already
\* done is born done; one whose deadline is after its parent's has no timer of
\* its own; one whose deadline is not in the future is born expired.
ArmDetector ==
    LET deadline == elapsed + timeout IN
    /\ pc = "arm"
    /\ timer' = IF Policy.timeout < deadline THEN NoTimer ELSE deadline
    /\ detectorErr' = IF policyErr # "nil" THEN policyErr
                      ELSE IF timer' # NoTimer /\ deadline <= elapsed
                           THEN "deadline" ELSE "nil"
    /\ begun' = elapsed
    /\ pc' = "enter"
    /\ UNCHANGED <<p, d, inputs, policyErr, elapsed, scope, timeout, outcome,
                   response, result>>

\* The executor looks at its context before it starts.
EnterExecutor ==
    /\ pc = "enter"
    /\ IF detectorErr # "nil"
       THEN outcome' = [kind |-> "context", err |-> detectorErr]
            /\ pc' = "returned"
       ELSE outcome' = outcome /\ pc' = "running"
    /\ UNCHANGED <<p, d, inputs, contexts, scope, timeout, begun, response, result>>

Returns(what) ==
    /\ outcome' = what
    /\ pc' = "returned"
    /\ UNCHANGED <<p, d, inputs, contexts, scope, timeout, begun, response, result>>

\* The detector ran to its end; the built-in executor then looks at its context
\* again, one behind the port may not.
ReturnResult ==
    /\ pc = "running" /\ (Cooperative => detectorErr = "nil")
    /\ \E found \in BOOLEAN : Returns([kind |-> "result", found |-> found])

\* The executor notices that its context is done.
ReturnContextError ==
    /\ pc = "running" /\ detectorErr # "nil"
    /\ Returns([kind |-> "context", err |-> detectorErr])

\* An executor behind the port reports a DetectorError.
ReturnDetectorError ==
    /\ pc = "running"
    /\ \E e \in ExecutorErrors : Returns([kind |-> "typed", err |-> e])

\* Fault: the context is not looked at once the executor has returned.
ExecutorsWord == outcome

\* The error Evaluate handles: the executor's, or the one its context holds
\* by the time the executor has returned.
HandledError ==
    IF outcome.kind = "result" /\ detectorErr # "nil"
    THEN [kind |-> "context", err |-> detectorErr] ELSE outcome

\* Fault: only a finding that raises the decision is redacted.
CollectWinningReplacements ==
    replacements' = IF decision' # decision /\ decision' = "redact"
                    THEN replacements \cup {Slot} ELSE replacements

\* Every finding of a redacting policy is to be replaced, whatever decides.
CollectReplacements ==
    replacements' = IF Policy.action = "redact" /\ Detector.replaces
                    THEN replacements \cup {Slot} ELSE replacements

\* The detector's result counts: findings, decision, replacements.
AcceptResult ==
    /\ pc = "returned" /\ HandledError.kind = "result"
    /\ IF outcome.found
       THEN /\ findings' = findings \cup {Slot}
            /\ decision' = Stronger(decision, Policy.action)
            /\ reason' = IF decision' # decision
                         THEN [kind |-> "matched", policy |-> p] ELSE reason
            /\ CollectReplacements
            /\ UNCHANGED clear
       ELSE /\ clear' = clear \cup {Slot}
            /\ UNCHANGED <<findings, decision, reason, replacements>>
    /\ outcome' = NoOutcome /\ timer' = NoTimer /\ detectorErr' = "nil"
    /\ d' = d + 1
    /\ pc' = "detector"
    /\ UNCHANGED <<p, inputs, policyErr, elapsed, scope, timeout, begun, applied,
                   failures, transformed, result>>

\* cancelDetector(), and the error goes to the failure handling.
RejectResult ==
    /\ pc = "returned" /\ HandledError.kind # "result"
    /\ outcome' = HandledError
    /\ timer' = NoTimer /\ detectorErr' = "nil"
    /\ pc' = "failed"
    /\ UNCHANGED <<p, d, inputs, policyErr, elapsed, scope, timeout, begun,
                   response, result>>

AbortAfterDetector == pc = "failed" /\ Abort

\* Fault: the executor's code is reported as it comes.
CodeAsReported(code) == code

\* validExecutorFailureCode: an executor may not report a timeout, nor a code
\* outside the vocabulary.
ReportedCode(code) ==
    IF code \in ExecutorCode THEN code ELSE "DETECTOR_INTERNAL_ERROR"

\* detectorFailure, with the evidence timeout chosen by Evaluate.
DetectorFailure ==
    LET expired == outcome.err = "deadline" IN
    IF outcome.kind = "context"
    THEN IF ~expired
         THEN NewFailure(Slot, "detector", "DETECTOR_INTERNAL_ERROR", timeout,
                         FALSE, outcome.err)
         ELSE IF scope = "policy"
         THEN NewFailure(Slot, "policy", "POLICY_TIMEOUT", Policy.timeout,
                         TRUE, "deadline")
         ELSE NewFailure(Slot, "detector", "DETECTOR_TIMEOUT", timeout,
                         TRUE, "deadline")
    ELSE NewFailure(Slot, "detector",
                    ReportedCode(outcome.err.code),
                    timeout, outcome.err.retryable, "typed")

\* Where the loop goes after a failure, and the rest of HandleFailure.
Leave == pc' = "policyEnd" /\ d' = d
Continue == pc' = "detector" /\ d' = d + 1
Handle ==
    /\ Record(DetectorFailure)
    /\ outcome' = NoOutcome
    /\ UNCHANGED <<p, inputs, contexts, scope, timeout, begun, result>>

\* Fault: every failure ends the policy.
EveryFailureBreaks == pc = "failed" /\ callerErr = "nil" /\ Handle /\ Leave

\* Fault: no failure ends the policy.
EveryFailureContinues == pc = "failed" /\ callerErr = "nil" /\ Handle /\ Continue

\* Fault: the caller's context is not consulted first.
HandleWithoutAsking ==
    /\ pc = "failed" /\ Handle
    /\ IF DetectorFailure.scope = "policy" THEN Leave ELSE Continue

\* A failure of the whole policy ends it; a detector's own failure does not.
HandleFailure ==
    /\ pc = "failed" /\ callerErr = "nil"
    /\ Handle
    /\ IF DetectorFailure.scope = "policy" THEN Leave ELSE Continue

DetectorsDone ==
    /\ pc = "detector" /\ d > Len(Policy.detectors)
    /\ pc' = "policyEnd"
    /\ UNCHANGED <<p, d, inputs, contexts, locals, response, result>>

\* cancelPolicy(), and the next policy.  What the next policy overwrites
\* before reading it is cleared here.
EndPolicy ==
    /\ pc = "policyEnd"
    /\ p' = p + 1 /\ d' = 0
    /\ policyErr' = "nil" /\ elapsed' = 0
    /\ scope' = "policy" /\ timeout' = 0 /\ begun' = 0
    /\ pc' = "policy"
    /\ UNCHANGED <<inputs, detectorErr, timer, outcome, response, result>>

\* Aggregate the decision, transform the content, return the response.
Respond ==
    /\ pc = "policy" /\ p > Len(plan)
    /\ transformed' = (decision = "redact" /\ replacements # {})
    /\ Finish("response")
    /\ UNCHANGED <<p, d, inputs, contexts, locals, decision, reason, applied,
                   findings, clear, failures, replacements>>

-----------------------------------------------------------------------------
(* The environment: the caller, the context package and the clock. *)

InPolicy == pc \in {"detector", "deadline", "scope", "arm", "enter", "running",
                    "returned", "failed"}
InDetector == pc \in {"enter", "running", "returned"}

CancelCaller ==
    /\ pc # "done" /\ callerErr = "nil"
    /\ callerErr' = "canceled"
    /\ UNCHANGED <<pc, plan, p, d, contexts, locals, response, result>>

\* A cancelled context cancels its children after it has set its own error.
PropagateToPolicy ==
    /\ InPolicy /\ callerErr # "nil" /\ policyErr = "nil"
    /\ policyErr' = callerErr
    /\ UNCHANGED <<pc, p, d, inputs, detectorErr, elapsed, timer, locals,
                   response, result>>

\* Fault: the detector's context is not derived from the policy's.
NoPropagation == FALSE

PropagateToDetector ==
    /\ InDetector /\ policyErr # "nil" /\ detectorErr = "nil"
    /\ detectorErr' = policyErr
    /\ UNCHANGED <<pc, p, d, inputs, policyErr, elapsed, timer, locals,
                   response, result>>

\* Timers fire at their deadline or any time later.
PolicyTimer ==
    /\ InPolicy /\ policyErr = "nil" /\ elapsed >= Policy.timeout
    /\ policyErr' = "deadline"
    /\ UNCHANGED <<pc, p, d, inputs, detectorErr, elapsed, timer, locals,
                   response, result>>

DetectorTimer ==
    /\ InDetector /\ detectorErr = "nil" /\ timer # NoTimer /\ elapsed >= timer
    /\ detectorErr' = "deadline"
    /\ UNCHANGED <<pc, p, d, inputs, policyErr, elapsed, timer, locals,
                   response, result>>

Tick ==
    /\ InPolicy /\ elapsed < Policy.timeout + Overrun
    /\ elapsed' = elapsed + 1
    /\ UNCHANGED <<pc, p, d, inputs, policyErr, detectorErr, timer, locals,
                   response, result>>

-----------------------------------------------------------------------------

Start == AbortAtStart \/ RejectSelection \/ ResolvePolicies
PolicyLoop == AbortBeforePolicy \/ BeginPolicy \/ DetectorsDone \/ EndPolicy \/ Respond
DetectorLoop ==
    \/ AbortBeforeDetector \/ CheckCaller \/ PolicyStillRuns \/ PolicyExpired
    \/ EffectiveDetectorTimeout \/ ArmDetector \/ EnterExecutor
    \/ AcceptResult \/ RejectResult \/ AbortAfterDetector \/ HandleFailure

Evaluate == Start \/ PolicyLoop \/ DetectorLoop
Executor == ReturnResult \/ ReturnContextError \/ ReturnDetectorError
Propagate == PropagateToPolicy \/ PropagateToDetector
Timers == PolicyTimer \/ DetectorTimer

Terminated == pc = "done" /\ UNCHANGED vars

Next == Evaluate \/ Executor \/ CancelCaller \/ Propagate \/ Timers \/ Tick
        \/ Terminated

\* The evaluator's goroutine runs; the context package propagates and fires
\* its timers; the clock advances.  Of the executor only this is assumed: it
\* returns once its context is done.  Nobody has to cancel.
Fairness ==
    /\ WF_vars(Evaluate) /\ WF_vars(ReturnContextError)
    /\ WF_vars(PropagateToPolicy) /\ WF_vars(PropagateToDetector)
    /\ WF_vars(PolicyTimer) /\ WF_vars(DetectorTimer) /\ WF_vars(Tick)

Spec == Init /\ [][Next]_vars /\ Fairness
-----------------------------------------------------------------------------
(* Properties. *)

Err == {"nil", "canceled", "deadline"}

Outcome ==
    [kind : {"none"}] \cup [kind : {"result"}, found : BOOLEAN]
    \cup [kind : {"context"}, err : Err \ {"nil"}]
    \cup [kind : {"typed"}, err : ExecutorErrors]

Failure ==
    [slot : Nat \X Nat, scope : FailureScope, code : FailureCode,
     mode : FailureMode, timeoutMs : Int, retryable : BOOLEAN,
     cause : {"canceled", "deadline", "typed"}, at : Nat, ran : Int]

\* Every variable holds a value of its Go type.
TypeOK ==
    /\ pc \in {"start", "policy", "detector", "deadline", "scope", "arm", "enter",
               "running", "returned", "failed", "policyEnd", "done"}
    /\ plan \in Plans \cup {<<>>} /\ p \in Nat /\ d \in Nat
    /\ callerErr \in {"nil", "canceled"} /\ policyErr \in Err
    /\ detectorErr \in Err /\ elapsed \in Nat /\ timer \in Int
    /\ scope \in FailureScope /\ timeout \in Int /\ begun \in Nat
    /\ outcome \in Outcome
    /\ decision \in Action
    /\ reason \in [kind : {"none", "matched", "failed"}, policy : Nat]
    /\ applied \in Seq(STRING)
    /\ findings \subseteq Slots(plan) /\ clear \subseteq Slots(plan)
    /\ replacements \subseteq Slots(plan)
    /\ failures \subseteq Failure
    /\ transformed \in BOOLEAN
    /\ result \in {"none", "response", "aborted", "rejected"}

\* What the findings and failures recorded so far contribute.
Contributions ==
    {"allow"} \cup {plan[s[1]].action : s \in findings}
              \cup {FailureAction(f.mode) : f \in failures}

\* The decision is one of the contributions and no contribution is stronger,
\* in whatever order findings and failures arrive (evaluator.go:160, 246).
\* In particular a closed failure always blocks, and an open one never hides
\* a match.
DecisionIsStrongest ==
    /\ decision \in Contributions
    /\ \A c \in Contributions : ActionPriority(c) <= ActionPriority(decision)

\* The reason reported names a policy that did contribute the decision, and
\* "no policy findings" is only said of an allow without failures
\* (evaluator.go:162, 248, 250, 172).
ReasonExplainsDecision ==
    CASE reason.kind = "matched" ->
            \E s \in findings :
                s[1] = reason.policy /\ plan[s[1]].action = decision
      [] reason.kind = "failed" ->
            \E f \in failures :
                f.slot[1] = reason.policy /\ FailureAction(f.mode) = decision
      [] OTHER -> decision = "allow" /\ failures = {}

Judged == findings \cup clear \cup {f.slot : f \in failures}
FailedAsAWhole(i) == \E f \in failures : f.slot[1] = i /\ f.scope = "policy"

\* A response stands for the whole plan: it lists every resolved policy, and
\* a detector without a result or a failure of its own is one a failure of
\* its policy cut off (the break statements, evaluator.go:123 and 150, against
\* the continue at 152).
NoDetectorSilentlySkipped ==
    result = "response" =>
        /\ applied = [i \in DOMAIN plan |-> plan[i].id]
        /\ \A s \in Slots(plan) : s \in Judged \/ FailedAsAWhole(s[1])

\* After a failure of the policy no other detector of it runs
\* (evaluator.go:123, 149-151).
PolicyFailureEndsPolicy == InPolicy => ~FailedAsAWhole(p)

\* A timeout is only reported after the deadline it names.  The policy's
\* deadline may be reported as the detector's, when time passes between
\* effectiveDetectorTimeout and WithTimeout (evaluator.go:126, 127), but never
\* the other way round, and a typed error never passes for a timeout
\* (validExecutorFailureCode).
TimeoutsAreReal ==
    \A f \in failures :
        LET policy == plan[f.slot[1]] IN
        CASE f.code = "POLICY_TIMEOUT" ->
                /\ f.scope = "policy" /\ f.retryable
                /\ f.cause = "deadline" => f.at >= policy.timeout
          [] f.code = "DETECTOR_TIMEOUT" ->
                /\ f.scope = "detector" /\ f.retryable /\ f.cause = "deadline"
                /\ \/ f.ran >= policy.detectors[f.slot[2]].timeout
                   \/ f.at >= policy.timeout
          [] OTHER -> f.cause = "typed"

\* A detector's failure is never the caller's cancellation in disguise: a
\* context sets its error before its children's, so the check at
\* evaluator.go:138 sees what the detector saw.
DetectorFailuresAreNotCancellations ==
    \A f \in failures : f.slot[2] # 0 => f.cause # "canceled"

\* No response is built on a failure the caller's cancellation caused:
\* cancellation "aborts evaluation instead of applying a policy failure mode"
\* (docs/contracts/evaluation-api-v1.md:107-110).
CancellationAppliesNoFailureMode ==
    result = "response" => \A f \in failures : f.cause # "canceled"

\* The effective timeout reported with a failure is at least a millisecond
\* (openapi.yaml:225, 234): sub-millisecond timeouts are rounded up.
TimeoutEvidenceIsPositive == \A f \in failures : f.timeoutMs >= 1

\* A redact decision comes with transformed content made from every finding
\* of every redacting policy, and no other decision carries content
\* (evaluator.go:164, 176; it rests on NewResolver's check, resolver.go:66).
RedactionIsComplete ==
    result = "response" =>
        /\ transformed <=> decision = "redact"
        /\ replacements = {s \in findings : plan[s[1]].action = "redact"}

\* A result that arrives after its context is done does not count, however
\* the executor came by it (evaluator.go:132).
LateResultsNeverCount ==
    [][findings' \cup clear' # findings \cup clear => detectorErr = "nil"]_vars

\* Every call returns, whatever the detectors do, provided they return once
\* their context is done: the deadlines bound the evaluation.
EvaluationTerminates == <>(result # "none")

\* The promise of EvaluationContract, with verdicts read off the response.
VerdictOf(s) ==
    IF s \in findings THEN "match"
    ELSE IF s \in clear THEN "clear"
    ELSE IF s \in {f.slot : f \in failures} THEN "failed"
    ELSE IF FailedAsAWhole(s[1]) THEN "cut" ELSE "pending"

Contract == INSTANCE EvaluationContract WITH
    verdict <- [s \in Slots(plan) |-> VerdictOf(s)],
    status <- CASE result = "response" -> "delivered"
                [] result = "aborted"  -> "abandoned"
                [] result = "rejected" -> "refused"
                [] pc = "start"        -> "asked"
                [] OTHER               -> "evaluating",
    answer <- IF result = "response" THEN decision ELSE "none"

ImplementsContract == Contract!Spec
=============================================================================
