------------------------------- MODULE Domain -------------------------------
(***************************************************************************)
(* The vocabulary shared by the modules: actions and their priorities,      *)
(* failure modes, failure codes, and the compiled policies the resolver     *)
(* hands to the evaluator (internal/domain/types.go, the constants and      *)
(* helpers of internal/engine/evaluator.go, CompiledPolicy of resolver.go). *)
(***************************************************************************)
EXTENDS Integers, Sequences

Action == {"allow", "monitor", "redact", "block"}

FailureMode == {"open", "closed", "monitor"}

FailureScope == {"policy", "detector"}

\* The codes a detector executor may choose itself (validExecutorFailureCode).
ExecutorCode == {"DETECTOR_UNAVAILABLE", "DETECTOR_INVALID_RESPONSE",
                 "DETECTOR_UNSUPPORTED_INPUT", "DETECTOR_INTERNAL_ERROR"}

TimeoutCode == {"POLICY_TIMEOUT", "DETECTOR_TIMEOUT"}

FailureCode == ExecutorCode \cup TimeoutCode

ActionPriority(action) ==
    CASE action = "block"   -> 4
      [] action = "redact"  -> 3
      [] action = "monitor" -> 2
      [] OTHER              -> 1

\* Fault: the last contribution decides.
LastWins(current, contribution) == contribution

\* The stronger of the decision so far and one more contribution: only a
\* strictly higher priority replaces it.
Stronger(current, contribution) ==
    IF ActionPriority(contribution) > ActionPriority(current)
    THEN contribution ELSE current

\* The action a failure contributes under its policy's failure mode.
FailureAction(mode) ==
    CASE mode = "closed"  -> "block"
      [] mode = "monitor" -> "monitor"
      [] OTHER            -> "allow"

-----------------------------------------------------------------------------
(* Compiled policies, as NewResolver leaves them. *)

\* "replaces" is true of the detector types that return a replacement with
\* every finding (regex, keywords, secrets).
DetectorConfig == [timeout : Nat \ {0}, replaces : BOOLEAN]

PolicyConfig ==
    { p \in [id : STRING, action : Action, mode : FailureMode,
             timeout : Nat \ {0}, detectors : Seq(DetectorConfig)] :
        \A j \in DOMAIN p.detectors :
            /\ p.detectors[j].timeout <= p.timeout
            /\ p.action = "redact" => p.detectors[j].replaces }

\* The place of a detector in a plan (a sequence of compiled policies):
\* <<i, j>> is the j-th detector of the i-th policy.
Slots(plan) == UNION { {i} \X DOMAIN plan[i].detectors : i \in DOMAIN plan }
=============================================================================
