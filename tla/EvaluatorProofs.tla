--------------------------- MODULE EvaluatorProofs ---------------------------
(***************************************************************************)
(* Theorems about Evaluator for every plan, executor and clock.             *)
(***************************************************************************)
EXTENDS Evaluator, TLAPS

-----------------------------------------------------------------------------
(* Lemmas about the operators. *)

\* The stronger of two actions is one of them and at least as strong as both.
LEMMA StrongerIsStronger ==
    ASSUME NEW a \in Action, NEW b \in Action
    PROVE  /\ Stronger(a, b) \in {a, b}
           /\ Stronger(a, b) \in Action
           /\ ActionPriority(a) <= ActionPriority(Stronger(a, b))
           /\ ActionPriority(b) <= ActionPriority(Stronger(a, b))
           /\ \A c : ActionPriority(c) \in Int
  BY DEF Stronger, ActionPriority, Action

\* A failure mode contributes an action.
LEMMA FailureActionType ==
    ASSUME NEW mode
    PROVE  FailureAction(mode) \in Action
  BY DEF FailureAction, Action

\* A duration in milliseconds is an integer.
LEMMA DurationType ==
    ASSUME NEW ticks \in Int
    PROVE  DurationMilliseconds(ticks) \in Int
<1>1. \A n \in Int : n \div TicksPerMs \in Int
  BY TimeAssumption
<1>2. CASE ticks < 0
  BY <1>1, <1>2 DEF DurationMilliseconds
<1>3. CASE ~(ticks < 0)
  BY <1>1, <1>3 DEF DurationMilliseconds
<1> QED
  BY <1>2, <1>3

\* The policies of a plan are compiled policies.
LEMMA PolicyType ==
    ASSUME plan \in Plans \cup {<<>>}, NEW i \in DOMAIN plan
    PROVE  /\ plan \in Seq(PolicyConfig)
           /\ i \in Nat \ {0} /\ i <= Len(plan)
           /\ plan[i].id \in STRING
           /\ plan[i].action \in Action
           /\ plan[i].mode \in FailureMode
           /\ plan[i].timeout \in Nat \ {0}
           /\ plan[i].detectors \in Seq(DetectorConfig)
           /\ \A j \in DOMAIN plan[i].detectors :
                /\ j \in Nat \ {0}
                /\ <<i, j>> \in Slots(plan)
                /\ plan[i].detectors[j].timeout \in Nat \ {0}
                /\ plan[i].detectors[j].timeout <= plan[i].timeout
                /\ plan[i].detectors[j].replaces \in BOOLEAN
                /\ plan[i].action = "redact" => plan[i].detectors[j].replaces
<1>1. plan \in Seq(PolicyConfig)
  BY PlansAssumption
<1>2. plan[i] \in PolicyConfig /\ i \in 1 .. Len(plan)
  BY <1>1
<1>3. /\ plan[i] \in [id : STRING, action : Action, mode : FailureMode,
                     timeout : Nat \ {0}, detectors : Seq(DetectorConfig)]
      /\ \A j \in DOMAIN plan[i].detectors :
            /\ plan[i].detectors[j].timeout <= plan[i].timeout
            /\ plan[i].action = "redact" => plan[i].detectors[j].replaces
  BY <1>2 DEF PolicyConfig
<1>4. plan[i].detectors \in Seq(DetectorConfig)
  BY <1>3
<1>5. ASSUME NEW j \in DOMAIN plan[i].detectors
      PROVE  /\ j \in Nat \ {0}
             /\ <<i, j>> \in Slots(plan)
             /\ plan[i].detectors[j].timeout \in Nat \ {0}
             /\ plan[i].detectors[j].replaces \in BOOLEAN
  <2>1. plan[i].detectors[j] \in DetectorConfig /\ j \in Nat \ {0}
    BY <1>4
  <2>2. <<i, j>> \in {i} \X DOMAIN plan[i].detectors
    OBVIOUS
  <2>3. <<i, j>> \in Slots(plan)
    BY <2>2 DEF Slots
  <2> QED
    BY <2>1, <2>3 DEF DetectorConfig
<1> QED
  BY <1>1, <1>2, <1>3, <1>4, <1>5

-----------------------------------------------------------------------------
(* Type correctness. *)

InBody == pc \in {"deadline", "scope", "arm", "enter", "running", "returned",
                  "failed"}

\* Where the loop indices and the executor's outcome stand at each point: the
\* type of what a step writes depends on it.
Position ==
    /\ pc = "start" => findings = {} /\ clear = {} /\ replacements = {}
                       /\ failures = {} /\ decision = "allow"
    /\ pc \notin {"start", "done"} => p \in Nat \ {0}
    /\ InPolicy \/ pc = "policyEnd" => p \in DOMAIN plan
    /\ pc = "detector" => d \in Nat \ {0}
    /\ InBody => d \in DOMAIN Policy.detectors
    /\ pc = "returned" => outcome.kind \in {"result", "context", "typed"}
    /\ pc = "failed" => outcome.kind \in {"context", "typed"}

TypeInv == TypeOK /\ Position

\* What an outcome carries, by its kind.
LEMMA OutcomeType ==
    ASSUME NEW o \in Outcome
    PROVE  /\ o.kind \in {"none", "result", "context", "typed"}
           /\ o.kind = "result" => o.found \in BOOLEAN
           /\ o.kind = "context" => o.err \in {"canceled", "deadline"}
           /\ o.kind = "typed" => o.err \in ExecutorErrors
  BY DEF Outcome, Err

\* newFailure builds a failure of its type.
LEMMA NewFailureType ==
    ASSUME TypeOK, p \in DOMAIN plan,
           NEW j \in Nat, NEW sc \in FailureScope, NEW code \in FailureCode,
           NEW after \in Int, NEW retryable \in BOOLEAN,
           NEW cause \in {"canceled", "deadline", "typed"}
    PROVE  NewFailure(<<p, j>>, sc, code, after, retryable, cause) \in Failure
<1>1. Policy.mode \in FailureMode /\ p \in Nat
  BY PolicyType DEF TypeOK, Policy
<1>2. DurationMilliseconds(after) \in Int
  BY DurationType
<1>3. (IF <<p, j>>[2] = 0 THEN 0 ELSE elapsed - begun) \in Int
  BY DEF TypeOK
<1>4. <<p, j>> \in Nat \X Nat /\ elapsed \in Nat
  BY <1>1 DEF TypeOK
<1> QED
  BY <1>1, <1>2, <1>3, <1>4 DEF NewFailure, Failure

\* detectorFailure builds a failure of its type, for the slot at hand.
LEMMA DetectorFailureType ==
    ASSUME TypeInv, pc = "failed"
    PROVE  /\ DetectorFailure \in Failure
           /\ DetectorFailure.slot = Slot
           /\ Slot \in Slots(plan)
<1>1. p \in DOMAIN plan /\ d \in DOMAIN Policy.detectors
  BY DEF TypeInv, Position, InPolicy, InBody
<1>2. /\ d \in Nat /\ Slot \in Slots(plan) /\ Policy.timeout \in Int
      /\ timeout \in Int
  BY <1>1, PolicyType DEF TypeInv, TypeOK, Policy, Slot
<1>3. /\ outcome.kind \in {"context", "typed"}
      /\ outcome.kind = "context" => outcome.err \in {"canceled", "deadline"}
      /\ outcome.kind = "typed" => outcome.err.retryable \in BOOLEAN
                                   /\ ReportedCode(outcome.err.code) \in FailureCode
  BY OutcomeType, ExecutorAssumption
  DEF TypeInv, TypeOK, Position, ReportedCode, FailureCode, ExecutorCode
<1>4. \A sc \in FailureScope, code \in FailureCode, after \in Int,
         retryable \in BOOLEAN, cause \in {"canceled", "deadline", "typed"} :
         /\ NewFailure(Slot, sc, code, after, retryable, cause) \in Failure
         /\ NewFailure(Slot, sc, code, after, retryable, cause).slot = Slot
  <2> TAKE sc \in FailureScope, code \in FailureCode, after \in Int,
           retryable \in BOOLEAN, cause \in {"canceled", "deadline", "typed"}
  <2>1. NewFailure(<<p, d>>, sc, code, after, retryable, cause) \in Failure
    BY <1>1, <1>2, NewFailureType DEF TypeInv
  <2> QED
    BY <2>1 DEF Slot, NewFailure
<1>5. CASE outcome.kind = "context"
  <2>1. CASE outcome.err = "canceled"
    <3>1. DetectorFailure = NewFailure(Slot, "detector", "DETECTOR_INTERNAL_ERROR",
                                       timeout, FALSE, "canceled")
      BY <1>5, <2>1 DEF DetectorFailure
    <3> QED
      BY <1>2, <1>4, <3>1 DEF FailureScope, FailureCode, ExecutorCode
  <2>2. CASE outcome.err = "deadline" /\ scope = "policy"
    <3>1. DetectorFailure = NewFailure(Slot, "policy", "POLICY_TIMEOUT",
                                       Policy.timeout, TRUE, "deadline")
      BY <1>5, <2>2 DEF DetectorFailure
    <3> QED
      BY <1>2, <1>4, <3>1 DEF FailureScope, FailureCode, TimeoutCode
  <2>3. CASE outcome.err = "deadline" /\ scope # "policy"
    <3>1. DetectorFailure = NewFailure(Slot, "detector", "DETECTOR_TIMEOUT",
                                       timeout, TRUE, "deadline")
      BY <1>5, <2>3 DEF DetectorFailure
    <3> QED
      BY <1>2, <1>4, <3>1 DEF FailureScope, FailureCode, TimeoutCode
  <2> QED
    BY <1>3, <1>5, <2>1, <2>2, <2>3
<1>6. CASE outcome.kind = "typed"
  BY <1>2, <1>3, <1>4, <1>6 DEF DetectorFailure, FailureScope
<1> QED
  BY <1>2, <1>3, <1>5, <1>6

\* Record writes a failure of the type, and a decision that is an action.
LEMMA RecordType ==
    ASSUME TypeInv, NEW f \in Failure, Record(f)
    PROVE  /\ failures' \subseteq Failure
           /\ decision' \in Action
           /\ reason' \in [kind : {"none", "matched", "failed"}, policy : Nat]
<1>1. decision' \in Action
  BY StrongerIsStronger, FailureActionType
  DEF TypeInv, TypeOK, Record, ApplyFailureDecision
<1>2. f.slot[1] \in Nat
  BY DEF Failure
<1>3. [kind |-> "failed", policy |-> f.slot[1]]
        \in [kind : {"none", "matched", "failed"}, policy : Nat]
  BY <1>2
<1> QED
  BY <1>1, <1>3 DEF TypeInv, TypeOK, Record, ApplyFailureDecision

LEMMA TypeInit == Init => TypeInv
<1> SUFFICES ASSUME Init PROVE TypeInv
  OBVIOUS
<1>1. NoOutcome \in Outcome
  BY DEF NoOutcome, Outcome
<1>2. NoReason \in [kind : {"none", "matched", "failed"}, policy : Nat]
  BY DEF NoReason
<1>3. TypeOK
  <2>1. <<>> \in Seq(STRING)
    OBVIOUS
  <2>2. outcome \in Outcome /\ reason \in [kind : {"none", "matched", "failed"},
                                          policy : Nat]
    BY <1>1, <1>2 DEF Init
  <2>3. transformed \in BOOLEAN
    BY DEF Init
  <2>4. timer \in Int
    BY DEF Init, NoTimer
  <2> QED
    BY <2>1, <2>2, <2>3, <2>4 DEF Init, TypeOK, Err, FailureScope, Action
<1>4. Position
  BY DEF Init, Position, InPolicy, InBody
<1> QED
  BY <1>3, <1>4 DEF TypeInv

LEMMA TypeStep == TypeInv /\ [Next]_vars => TypeInv'
<1> SUFFICES ASSUME TypeInv, [Next]_vars PROVE TypeInv'
  OBVIOUS
<1> USE DEF TypeInv, TypeOK, Position, InPolicy, InBody, inputs, contexts, locals,
            response, vars, Policy, Slot
<1>1. CASE Start
  <2>1. CASE AbortAtStart
    BY <2>1 DEF AbortAtStart, Abort, Finish
  <2>2. CASE RejectSelection
    BY <2>2 DEF RejectSelection, Finish
  <2>3. CASE ResolvePolicies
    BY <2>3 DEF ResolvePolicies
  <2> QED
    BY <1>1, <2>1, <2>2, <2>3 DEF Start
<1>2. CASE PolicyLoop
  <2>1. CASE AbortBeforePolicy
    BY <2>1 DEF AbortBeforePolicy, Abort, Finish
  <2>2. CASE BeginPolicy
    BY <2>2, PolicyType DEF BeginPolicy, Err
  <2>3. CASE DetectorsDone
    BY <2>3 DEF DetectorsDone
  <2>4. CASE EndPolicy
    BY <2>4 DEF EndPolicy, Err, FailureScope
  <2>5. CASE Respond
    BY <2>5 DEF Respond, Finish
  <2> QED
    BY <1>2, <2>1, <2>2, <2>3, <2>4, <2>5 DEF PolicyLoop
<1>3. CASE DetectorLoop
  <2>1. CASE AbortBeforeDetector
    BY <2>1 DEF AbortBeforeDetector, Abort, Finish
  <2>2. CASE CheckCaller
    BY <2>2, PolicyType DEF CheckCaller
  <2>3. CASE PolicyStillRuns
    BY <2>3 DEF PolicyStillRuns
  <2>4. CASE PolicyExpired
    <3>1. NewFailure(<<p, 0>>, "policy", "POLICY_TIMEOUT", Policy.timeout, TRUE,
                     policyErr) \in Failure
      <4>1. Policy.timeout \in Int /\ 0 \in Nat /\ p \in DOMAIN plan
        BY <2>4, PolicyType DEF PolicyExpired
      <4>2. policyErr \in {"canceled", "deadline", "typed"}
        BY <2>4 DEF PolicyExpired, Err
      <4>3. /\ "policy" \in FailureScope /\ "POLICY_TIMEOUT" \in FailureCode
            /\ TRUE \in BOOLEAN
        BY DEF FailureScope, FailureCode, TimeoutCode
      <4> HIDE DEF Policy
      <4> QED
        BY <4>1, <4>2, <4>3, NewFailureType
    <3>2. /\ failures' \subseteq Failure /\ decision' \in Action
          /\ reason' \in [kind : {"none", "matched", "failed"}, policy : Nat]
      BY <2>4, <3>1, RecordType DEF PolicyExpired
    <3> QED
      BY <2>4, <3>2 DEF PolicyExpired, Record
  <2>5. CASE EffectiveDetectorTimeout
    <3>1. Detector.timeout \in Int /\ Remaining \in Int
      <4>1. p \in DOMAIN plan /\ d \in DOMAIN plan[p].detectors
        BY <2>5 DEF EffectiveDetectorTimeout
      <4>2. plan[p].timeout \in Nat /\ plan[p].detectors[d].timeout \in Nat
        BY <4>1, PolicyType
      <4> QED
        BY <4>2 DEF Remaining, Detector
    <3>2. timeout' \in Int /\ scope' \in FailureScope
      BY <2>5, <3>1 DEF EffectiveDetectorTimeout, FailureScope
    <3> QED
      BY <2>5, <3>2 DEF EffectiveDetectorTimeout
  <2>6. CASE ArmDetector
    BY <2>6 DEF ArmDetector, Err, NoTimer
  <2>7. CASE EnterExecutor
    BY <2>7 DEF EnterExecutor, Outcome, Err
  <2>8. CASE AcceptResult
    <3>1. /\ findings' \subseteq Slots(plan) /\ clear' \subseteq Slots(plan)
          /\ replacements' \subseteq Slots(plan)
      BY <2>8, PolicyType DEF AcceptResult, CollectReplacements
    <3>2. decision' \in Action
      BY <2>8, StrongerIsStronger, PolicyType DEF AcceptResult
    <3>3. reason' \in [kind : {"none", "matched", "failed"}, policy : Nat]
      BY <2>8 DEF AcceptResult
    <3>4. NoOutcome \in Outcome /\ NoTimer \in Int /\ "nil" \in Err
      BY DEF NoOutcome, Outcome, NoTimer, Err
    <3>5. d' \in Nat \ {0}
      BY <2>8, PolicyType DEF AcceptResult
    <3> QED
      BY <2>8, <3>1, <3>2, <3>3, <3>4, <3>5 DEF AcceptResult
  <2>9. CASE RejectResult
    <3>1. outcome' \in Outcome /\ outcome'.kind \in {"context", "typed"}
      <4>1. detectorErr # "nil" =>
              [kind |-> "context", err |-> detectorErr] \in Outcome
        BY DEF Outcome
      <4> QED
        BY <2>9, <4>1 DEF RejectResult, HandledError
    <3>2. NoTimer \in Int /\ "nil" \in Err
      BY DEF NoTimer, Err
    <3> QED
      BY <2>9, <3>1, <3>2 DEF RejectResult
  <2>10. CASE AbortAfterDetector
    BY <2>10 DEF AbortAfterDetector, Abort, Finish
  <2>11. CASE HandleFailure
    <3>1. /\ failures' \subseteq Failure /\ decision' \in Action
          /\ reason' \in [kind : {"none", "matched", "failed"}, policy : Nat]
      BY <2>11, DetectorFailureType, RecordType DEF HandleFailure, Handle
    <3>2. NoOutcome \in Outcome
      BY DEF NoOutcome, Outcome
    <3>3. d' \in Nat \ {0}
      BY <2>11, PolicyType DEF HandleFailure, Leave, Continue
    <3> QED
      BY <2>11, <3>1, <3>2, <3>3 DEF HandleFailure, Handle, Record, Leave, Continue
  <2> QED
    BY <1>3, <2>1, <2>2, <2>3, <2>4, <2>5, <2>6, <2>7, <2>8, <2>9, <2>10, <2>11
    DEF DetectorLoop
<1>4. CASE Executor
  <2>1. CASE ReturnResult
    BY <2>1 DEF ReturnResult, Returns, Outcome
  <2>2. CASE ReturnContextError
    BY <2>2 DEF ReturnContextError, Returns, Outcome, Err
  <2>3. CASE ReturnDetectorError
    BY <2>3 DEF ReturnDetectorError, Returns, Outcome
  <2> QED
    BY <1>4, <2>1, <2>2, <2>3 DEF Executor
<1>5. CASE CancelCaller
  BY <1>5 DEF CancelCaller
<1>6. CASE Propagate
  BY <1>6 DEF Propagate, PropagateToPolicy, PropagateToDetector, Err
<1>7. CASE Timers
  BY <1>7 DEF Timers, PolicyTimer, DetectorTimer, Err
<1>8. CASE Tick
  BY <1>8 DEF Tick
<1>9. CASE UNCHANGED vars
  BY <1>9
<1> QED
  BY <1>1, <1>2, <1>3, <1>4, <1>5, <1>6, <1>7, <1>8, <1>9
  DEF Next, Evaluate, Terminated

\* Every variable always has its Go type, and the loop indices always point
\* into the plan where the code uses them.
THEOREM TypeCorrect == Spec => []TypeOK
<1>1. Spec => []TypeInv
  BY TypeInit, TypeStep, PTL DEF Spec
<1> QED
  BY <1>1, PTL DEF TypeInv

-----------------------------------------------------------------------------
(* The decision. *)

DecisionInv == TypeInv /\ DecisionIsStrongest

\* A contribution joins the decision by Stronger: it stays the strongest.
LEMMA ContributionKeepsStrongest ==
    ASSUME NEW C, C \subseteq Action, NEW a \in C, NEW b \in Action,
           \A c \in C : ActionPriority(c) <= ActionPriority(a)
    PROVE  /\ Stronger(a, b) \in C \cup {b}
           /\ \A c \in C \cup {b} :
                 ActionPriority(c) <= ActionPriority(Stronger(a, b))
<1>1. /\ Stronger(a, b) \in {a, b}
      /\ ActionPriority(a) <= ActionPriority(Stronger(a, b))
      /\ ActionPriority(b) <= ActionPriority(Stronger(a, b))
      /\ \A c : ActionPriority(c) \in Int
  BY StrongerIsStronger
<1> QED
  BY <1>1

\* Contributions are actions.
LEMMA ContributionsType ==
    ASSUME TypeInv
    PROVE  Contributions \subseteq Action
<1>1. \A s \in findings : plan[s[1]].action \in Action
  <2> TAKE s \in findings
  <2>1. s \in Slots(plan) /\ plan \in Plans \cup {<<>>}
    BY DEF TypeInv, TypeOK
  <2>2. s[1] \in DOMAIN plan
    BY <2>1 DEF Slots
  <2> QED
    BY <2>1, <2>2, PolicyType
<1>2. \A f \in failures : FailureAction(f.mode) \in Action
  BY FailureActionType
<1> QED
  BY <1>1, <1>2 DEF Contributions, Action

\* Recording a failure adds its contribution and applies it.
LEMMA RecordKeepsStrongest ==
    ASSUME DecisionInv, NEW f, Record(f), UNCHANGED plan
    PROVE  DecisionIsStrongest'
<1>1. Contributions' = Contributions \cup {FailureAction(f.mode)}
  BY DEF Record, Contributions
<1>2. decision' = Stronger(decision, FailureAction(f.mode))
  BY DEF Record, ApplyFailureDecision
<1>3. /\ Contributions \subseteq Action /\ decision \in Contributions
      /\ \A c \in Contributions : ActionPriority(c) <= ActionPriority(decision)
  BY ContributionsType DEF DecisionInv, DecisionIsStrongest
<1> QED
  BY <1>1, <1>2, <1>3, FailureActionType, ContributionKeepsStrongest
  DEF DecisionIsStrongest

\* Only AcceptResult and Record touch what the decision is made of.
LEMMA DecisionStep == DecisionInv /\ [Next]_vars => DecisionIsStrongest'
<1> SUFFICES ASSUME DecisionInv, [Next]_vars PROVE DecisionIsStrongest'
  OBVIOUS
<1>1. CASE AcceptResult
  <2>1. CASE outcome.found
    <3>1. findings' = findings \cup {<<p, d>>} /\ UNCHANGED <<plan, failures>>
      BY <1>1, <2>1 DEF AcceptResult, inputs, Slot
    <3>2. Contributions' = Contributions \cup {plan[p].action}
      <4> DEFINE act(s) == plan[s[1]].action
      <4>1. act(<<p, d>>) = plan[p].action
        OBVIOUS
      <4> HIDE DEF act
      <4>2. {act(s) : s \in findings \cup {<<p, d>>}}
              = {act(s) : s \in findings} \cup {act(<<p, d>>)}
        OBVIOUS
      <4>3. /\ {plan[s[1]].action : s \in findings} = {act(s) : s \in findings}
            /\ {plan'[s[1]].action : s \in findings'} = {act(s) : s \in findings'}
        BY <3>1 DEF act
      <4> QED
        BY <3>1, <4>1, <4>2, <4>3 DEF Contributions
    <3>3. decision' = Stronger(decision, plan[p].action)
      BY <1>1, <2>1 DEF AcceptResult, Policy
    <3>4. p \in DOMAIN plan /\ plan \in Plans \cup {<<>>}
      BY <1>1 DEF AcceptResult, DecisionInv, TypeInv, TypeOK, Position, InPolicy
    <3>5. plan[p].action \in Action
      BY <3>4, PolicyType
    <3>6. /\ Contributions \subseteq Action /\ decision \in Contributions
          /\ \A c \in Contributions : ActionPriority(c) <= ActionPriority(decision)
      BY ContributionsType DEF DecisionInv, DecisionIsStrongest
    <3> QED
      BY <3>2, <3>3, <3>5, <3>6, ContributionKeepsStrongest DEF DecisionIsStrongest
  <2>2. CASE ~outcome.found
    BY <1>1, <2>2
    DEF AcceptResult, DecisionInv, DecisionIsStrongest, Contributions, inputs
  <2> QED
    BY <2>1, <2>2
<1>2. CASE PolicyExpired
  BY <1>2, RecordKeepsStrongest DEF PolicyExpired, inputs
<1>3. CASE HandleFailure
  BY <1>3, RecordKeepsStrongest DEF HandleFailure, Handle, inputs
<1>4. CASE ResolvePolicies
  <2>1. /\ findings = {} /\ failures = {} /\ decision = "allow"
        /\ UNCHANGED <<findings, failures, decision>>
    BY <1>4 DEF ResolvePolicies, response, DecisionInv, TypeInv, Position
  <2>2. Contributions' = {"allow"}
    BY <2>1 DEF Contributions
  <2> QED
    BY <2>1, <2>2 DEF DecisionIsStrongest, ActionPriority
<1>5. ASSUME UNCHANGED <<plan, findings, failures, decision>>
      PROVE  DecisionIsStrongest'
  BY <1>5 DEF DecisionInv, DecisionIsStrongest, Contributions
<1>6. \/ AcceptResult \/ PolicyExpired \/ HandleFailure \/ ResolvePolicies
      \/ UNCHANGED <<plan, findings, failures, decision>>
  <2> USE DEF inputs, response
  <2>1. Start => ResolvePolicies \/ UNCHANGED <<plan, findings, failures, decision>>
    BY DEF Start, AbortAtStart, RejectSelection, Abort
  <2>2. PolicyLoop => UNCHANGED <<plan, findings, failures, decision>>
    BY DEF PolicyLoop, AbortBeforePolicy, BeginPolicy, DetectorsDone, EndPolicy,
           Respond, Abort
  <2>3. DetectorLoop =>
          \/ AcceptResult \/ PolicyExpired \/ HandleFailure
          \/ UNCHANGED <<plan, findings, failures, decision>>
    BY DEF DetectorLoop, AbortBeforeDetector, CheckCaller, PolicyStillRuns,
           EffectiveDetectorTimeout, ArmDetector, EnterExecutor, RejectResult,
           AbortAfterDetector, Abort
  <2>4. Executor => UNCHANGED <<plan, findings, failures, decision>>
    BY DEF Executor, ReturnResult, ReturnContextError, ReturnDetectorError, Returns
  <2>5. CancelCaller \/ Propagate \/ Timers \/ Tick \/ Terminated
          \/ UNCHANGED vars
        => UNCHANGED <<plan, findings, failures, decision>>
    BY DEF CancelCaller, Propagate, PropagateToPolicy, PropagateToDetector, Timers,
           PolicyTimer, DetectorTimer, Tick, Terminated, vars
  <2> QED
    BY <2>1, <2>2, <2>3, <2>4, <2>5 DEF Next, Evaluate
<1> QED
  BY <1>1, <1>2, <1>3, <1>4, <1>5, <1>6

\* For every plan, schedule and timing, the decision is the strongest of what
\* the findings and the failures contribute.
THEOREM DecisionIsAlwaysStrongest == Spec => []DecisionIsStrongest
<1>1. Init => DecisionInv
  <2>1. Init => TypeInv
    BY TypeInit
  <2>2. Init => DecisionIsStrongest
    BY DEF Init, DecisionIsStrongest, Contributions, ActionPriority
  <2> QED
    BY <2>1, <2>2 DEF DecisionInv
<1>2. DecisionInv /\ [Next]_vars => DecisionInv'
  BY TypeStep, DecisionStep DEF DecisionInv
<1>3. DecisionInv => DecisionIsStrongest
  BY DEF DecisionInv
<1> QED
  BY <1>1, <1>2, <1>3, PTL DEF Spec

-----------------------------------------------------------------------------
(* A failure of the policy is its last step. *)

\* Failures belong to policies already begun, and once a policy is left its
\* number is behind p.
Recorded ==
    /\ \A f \in failures : f.slot[1] <= p
    /\ pc = "policy" => \A f \in failures : f.slot[1] < p
    /\ PolicyFailureEndsPolicy

RecordedInv == TypeInv /\ Recorded

LEMMA RecordedStep == RecordedInv /\ [Next]_vars => Recorded'
<1> SUFFICES ASSUME RecordedInv, [Next]_vars PROVE Recorded'
  OBVIOUS
<1> USE DEF RecordedInv, Recorded, PolicyFailureEndsPolicy, FailedAsAWhole, InPolicy
<1>0. /\ \A f \in failures : f.slot[1] \in Nat
      /\ p \in Nat
  BY DEF TypeInv, TypeOK, Failure
<1>1. CASE PolicyExpired
  BY <1>0, <1>1 DEF PolicyExpired, Record, NewFailure
<1>2. CASE HandleFailure
  <2>1. DetectorFailure.slot[1] = p /\ failures' = failures \cup {DetectorFailure}
    BY <1>2, DetectorFailureType
    DEF HandleFailure, Handle, Record, Slot
  <2>2. CASE DetectorFailure.scope = "policy"
    BY <1>0, <1>2, <2>1, <2>2 DEF HandleFailure, Handle, Leave
  <2>3. CASE DetectorFailure.scope # "policy"
    BY <1>0, <1>2, <2>1, <2>3 DEF HandleFailure, Handle, Continue
  <2> QED
    BY <2>2, <2>3
<1>3. CASE Start
  <2>1. ResolvePolicies => failures = {} /\ failures' = {}
    BY DEF ResolvePolicies, response, TypeInv, Position
  <2> QED
    BY <1>3, <2>1
    DEF Start, AbortAtStart, Abort, Finish, RejectSelection, ResolvePolicies,
        response
<1>4. CASE PolicyLoop
  BY <1>0, <1>4
  DEF PolicyLoop, AbortBeforePolicy, Abort, Finish, BeginPolicy, DetectorsDone,
      EndPolicy, Respond, response
<1>5. CASE DetectorLoop /\ ~PolicyExpired /\ ~HandleFailure
  BY <1>5
  DEF DetectorLoop, AbortBeforeDetector, CheckCaller, PolicyStillRuns,
      EffectiveDetectorTimeout, ArmDetector, EnterExecutor, AcceptResult,
      RejectResult, AbortAfterDetector, Abort, Finish, response
<1>6. CASE Executor
  BY <1>6 DEF Executor, ReturnResult, ReturnContextError, ReturnDetectorError,
              Returns, response
<1>7. CASE CancelCaller \/ Propagate \/ Timers \/ Tick \/ Terminated
             \/ UNCHANGED vars
  BY <1>7 DEF CancelCaller, Propagate, PropagateToPolicy, PropagateToDetector,
              Timers, PolicyTimer, DetectorTimer, Tick, Terminated, vars, response
<1> QED
  BY <1>1, <1>2, <1>3, <1>4, <1>5, <1>6, <1>7 DEF Next, Evaluate

\* No detector of a policy is looked at after a failure of the policy, for
\* every plan, schedule and timing.
THEOREM PolicyFailureIsFinal == Spec => []PolicyFailureEndsPolicy
<1>1. Init => RecordedInv
  BY TypeInit DEF RecordedInv, Recorded, PolicyFailureEndsPolicy, FailedAsAWhole, Init
<1>2. RecordedInv /\ [Next]_vars => RecordedInv'
  BY TypeStep, RecordedStep DEF RecordedInv
<1>3. RecordedInv => PolicyFailureEndsPolicy
  BY DEF RecordedInv, Recorded
<1> QED
  BY <1>1, <1>2, <1>3, PTL DEF Spec

-----------------------------------------------------------------------------
(* Cancellation. *)

\* A cancellation seen anywhere below the caller was the caller's: errors
\* only travel downwards, and the parent's is set first.
CancellationIsTheCallers ==
    callerErr = "nil" =>
        /\ policyErr # "canceled" /\ detectorErr # "canceled"
        /\ outcome.kind = "context" => outcome.err # "canceled"

CancelInv == TypeInv /\ CancellationIsTheCallers /\ DetectorFailuresAreNotCancellations

LEMMA CancelStep ==
    CancelInv /\ [Next]_vars =>
        CancellationIsTheCallers' /\ DetectorFailuresAreNotCancellations'
<1> SUFFICES ASSUME CancelInv, [Next]_vars
             PROVE  CancellationIsTheCallers' /\ DetectorFailuresAreNotCancellations'
  OBVIOUS
<1> USE DEF CancelInv, CancellationIsTheCallers, DetectorFailuresAreNotCancellations,
            inputs, contexts, locals, response
<1>1. CASE PolicyExpired
  BY <1>1 DEF PolicyExpired, Record, NewFailure
<1>2. CASE HandleFailure
  <2>1. outcome.kind \in {"context", "typed"} /\ callerErr = "nil" /\ UNCHANGED callerErr
    BY <1>2 DEF HandleFailure, Handle, TypeInv, Position
  <2>2. DetectorFailure.cause # "canceled"
    <3>1. CASE outcome.kind = "context"
      BY <2>1, <3>1 DEF DetectorFailure, NewFailure
    <3>2. CASE outcome.kind = "typed"
      BY <3>2 DEF DetectorFailure, NewFailure
    <3> QED
      BY <2>1, <3>1, <3>2
  <2>3. failures' = failures \cup {DetectorFailure}
    BY <1>2 DEF HandleFailure, Handle, Record
  <2>4. outcome' = NoOutcome /\ UNCHANGED <<policyErr, detectorErr>>
    BY <1>2 DEF HandleFailure, Handle
  <2> QED
    BY <2>1, <2>2, <2>3, <2>4 DEF NoOutcome
<1>3. CASE Start
  BY <1>3 DEF Start, AbortAtStart, Abort, RejectSelection, ResolvePolicies
<1>4. CASE PolicyLoop
  BY <1>4
  DEF PolicyLoop, AbortBeforePolicy, Abort, BeginPolicy, DetectorsDone, EndPolicy,
      Respond
<1>5. CASE DetectorLoop /\ ~PolicyExpired /\ ~HandleFailure
  BY <1>5
  DEF DetectorLoop, AbortBeforeDetector, CheckCaller, PolicyStillRuns,
      EffectiveDetectorTimeout, ArmDetector, EnterExecutor, AcceptResult,
      RejectResult, HandledError, AbortAfterDetector, Abort, NoOutcome
<1>6. CASE Executor
  BY <1>6 DEF Executor, ReturnResult, ReturnContextError, ReturnDetectorError,
              Returns
<1>7. CASE CancelCaller \/ Propagate \/ Timers \/ Tick \/ Terminated
             \/ UNCHANGED vars
  BY <1>7 DEF CancelCaller, Propagate, PropagateToPolicy, PropagateToDetector,
              Timers, PolicyTimer, DetectorTimer, Tick, Terminated, vars
<1> QED
  BY <1>1, <1>2, <1>3, <1>4, <1>5, <1>6, <1>7 DEF Next, Evaluate

\* No failure attributed to a detector was caused by the caller's cancellation,
\* for every plan, schedule and timing.
THEOREM DetectorFailuresAreTheirOwn == Spec => []DetectorFailuresAreNotCancellations
<1>1. Init => CancelInv
  BY TypeInit
  DEF CancelInv, CancellationIsTheCallers, DetectorFailuresAreNotCancellations, Init,
      NoOutcome
<1>2. CancelInv /\ [Next]_vars => CancelInv'
  BY TypeStep, CancelStep DEF CancelInv
<1>3. CancelInv => DetectorFailuresAreNotCancellations
  BY DEF CancelInv
<1> QED
  BY <1>1, <1>2, <1>3, PTL DEF Spec

-----------------------------------------------------------------------------
(* What a call of Evaluate says: its reason, its transformed content, the   *)
(* detectors it accounts for and its timeouts; and that Evaluate keeps      *)
(* EvaluationContract.                                                      *)

\* The three points at which findings and failures are recorded.
Recorders == AcceptResult \/ PolicyExpired \/ HandleFailure

\* What they record, and no other step changes once the plan is there.
record == <<plan, findings, clear, failures, decision, reason, replacements>>

LEMMA OnlyRecordersRecord ==
    ASSUME [Next]_vars, ~Recorders, ~ResolvePolicies
    PROVE  UNCHANGED record
<1> USE DEF record, inputs, response
<1>1. Start => UNCHANGED record
  BY DEF Start, AbortAtStart, RejectSelection, Abort
<1>2. PolicyLoop => UNCHANGED record
  BY DEF PolicyLoop, AbortBeforePolicy, BeginPolicy, DetectorsDone, EndPolicy, Respond, Abort
<1>3. DetectorLoop => UNCHANGED record
  BY DEF Recorders, DetectorLoop, AbortBeforeDetector, CheckCaller, PolicyStillRuns,
         EffectiveDetectorTimeout, ArmDetector, EnterExecutor, RejectResult,
         AbortAfterDetector, Abort
<1>4. Executor => UNCHANGED record
  BY DEF Executor, ReturnResult, ReturnContextError, ReturnDetectorError, Returns
<1>5. CancelCaller \/ Propagate \/ Timers \/ Tick \/ Terminated \/ UNCHANGED vars
        => UNCHANGED record
  BY DEF CancelCaller, Propagate, PropagateToPolicy, PropagateToDetector, Timers,
         PolicyTimer, DetectorTimer, Tick, Terminated, vars
<1> QED
  BY <1>1, <1>2, <1>3, <1>4, <1>5 DEF Next, Evaluate

\* No result is counted once the context of its detector is done, for every
\* executor and every interleaving of the context package.
THEOREM LateResultsAreDropped == Spec => LateResultsNeverCount
<1>1. ASSUME [Next]_vars, findings' \cup clear' # findings \cup clear
      PROVE  detectorErr = "nil"
  <2>1. Recorders \/ ResolvePolicies
    BY <1>1, OnlyRecordersRecord DEF record
  <2>2. ~ResolvePolicies /\ ~PolicyExpired /\ ~HandleFailure
    BY <1>1 DEF ResolvePolicies, PolicyExpired, HandleFailure, Record, Handle, response
  <2>3. AcceptResult
    BY <2>1, <2>2 DEF Recorders
  <2> QED
    BY <2>3 DEF AcceptResult, HandledError
<1> QED
  BY <1>1, PTL DEF Spec, LateResultsNeverCount

-----------------------------------------------------------------------------
(* The reason. *)

\* Nothing has been a reason yet in one way only, and at the start.
Unexplained ==
    /\ reason.kind = "none" => reason = NoReason
    /\ pc = "start" => reason = NoReason

ReasonInv == TypeInv /\ Unexplained /\ ReasonExplainsDecision

\* A contribution that leaves a decision to allow as it is, is to allow.
LEMMA OnlyAllowIsNoStronger ==
    ASSUME NEW a \in Action, Stronger("allow", a) = "allow"
    PROVE  a = "allow"
  BY DEF Stronger, ActionPriority, Action

LEMMA RecordKeepsReason ==
    ASSUME ReasonInv, NEW f, Record(f), UNCHANGED plan, pc' # "start"
    PROVE  Unexplained' /\ ReasonExplainsDecision'
<1> DEFINE action == FailureAction(f.mode)
           why == [kind |-> "failed", policy |-> f.slot[1]]
           wins == \/ decision' # decision
                   \/ action = "allow" /\ decision = "allow" /\ reason = NoReason
<1>1. /\ decision' = Stronger(decision, action) /\ failures' = failures \cup {f}
      /\ reason' = IF wins THEN why ELSE reason
      /\ UNCHANGED <<plan, findings>>
  BY DEF Record, ApplyFailureDecision
<1>2. action \in Action
  BY FailureActionType
<1>3. CASE wins
  <2>1. action = decision' /\ reason' = why
    BY <1>1, <1>3 DEF Stronger
  <2>2. why.kind = "failed" /\ why.policy = f.slot[1]
    OBVIOUS
  <2> QED
    BY <1>1, <2>1, <2>2 DEF ReasonExplainsDecision, Unexplained
<1>4. CASE ~wins
  <2>1. CASE reason.kind = "none"
    <3>1. decision = "allow" /\ reason = NoReason
      BY <2>1 DEF ReasonInv, Unexplained, ReasonExplainsDecision
    <3>2. action = "allow"
      BY <1>1, <1>2, <1>4, <3>1, OnlyAllowIsNoStronger
    <3> QED
      BY <1>4, <3>1, <3>2
  <2>2. CASE reason.kind # "none"
    <3>1. UNCHANGED <<decision, reason, plan, findings>> /\ failures \subseteq failures'
      BY <1>1, <1>4
    <3>2. reason.kind \in {"matched", "failed"}
      BY <2>2 DEF ReasonInv, TypeInv, TypeOK
    <3>3. Unexplained'
      BY <2>2, <3>1 DEF Unexplained
    <3>4. ReasonExplainsDecision'
      BY <3>1, <3>2 DEF ReasonInv, ReasonExplainsDecision
    <3> QED
      BY <3>3, <3>4
  <2> QED
    BY <2>1, <2>2
<1> QED
  BY <1>1, <1>3, <1>4

LEMMA ReasonStep == ReasonInv /\ [Next]_vars => Unexplained' /\ ReasonExplainsDecision'
<1> SUFFICES ASSUME ReasonInv, [Next]_vars PROVE Unexplained' /\ ReasonExplainsDecision'
  OBVIOUS
<1>1. CASE AcceptResult
  <2>1. /\ UNCHANGED <<plan, failures>> /\ pc' = "detector" /\ findings \subseteq findings'
        /\ \/ UNCHANGED <<decision, reason>>
           \/ /\ <<p, d>> \in findings' /\ decision' = Stronger(decision, plan[p].action)
              /\ reason' = IF decision' # decision
                           THEN [kind |-> "matched", policy |-> p] ELSE reason
    BY <1>1 DEF AcceptResult, inputs, Slot, Policy
  <2>2. CASE UNCHANGED <<decision, reason>>
    BY <2>1, <2>2 DEF ReasonInv, TypeInv, TypeOK, Unexplained, ReasonExplainsDecision
  <2>3. CASE decision' # decision
    <3>1. /\ <<p, d>> \in findings' /\ decision' = plan[p].action
          /\ reason' = [kind |-> "matched", policy |-> p]
      BY <2>1, <2>3 DEF Stronger
    <3> QED
      BY <2>1, <3>1 DEF Unexplained, ReasonExplainsDecision
  <2> QED
    BY <2>1, <2>2, <2>3
<1>2. CASE PolicyExpired
  BY <1>2, RecordKeepsReason DEF PolicyExpired, inputs
<1>3. CASE HandleFailure
  BY <1>3, RecordKeepsReason DEF HandleFailure, Handle, Leave, Continue, inputs
<1>4. CASE ResolvePolicies
  <2>1. /\ pc' = "policy" /\ reason = NoReason /\ decision = "allow" /\ failures = {}
        /\ UNCHANGED <<reason, decision, failures>>
    BY <1>4 DEF ResolvePolicies, response, ReasonInv, Unexplained, TypeInv, Position
  <2> QED
    BY <2>1 DEF Unexplained, ReasonExplainsDecision, NoReason
<1>5. CASE ~Recorders /\ ~ResolvePolicies
  <2>1. UNCHANGED record
    BY <1>5, OnlyRecordersRecord
  <2>2. pc' = "start" => pc = "start"
    BY <1>5
    DEF Next, Evaluate, Start, AbortAtStart, RejectSelection, PolicyLoop, AbortBeforePolicy,
        BeginPolicy, DetectorsDone, EndPolicy, Respond, DetectorLoop, AbortBeforeDetector,
        CheckCaller, PolicyStillRuns, EffectiveDetectorTimeout, ArmDetector, EnterExecutor,
        RejectResult, AbortAfterDetector, Abort, Finish, Recorders, Executor, ReturnResult,
        ReturnContextError, ReturnDetectorError, Returns, CancelCaller, Propagate,
        PropagateToPolicy, PropagateToDetector, Timers, PolicyTimer, DetectorTimer, Tick,
        Terminated, vars
  <2> QED
    BY <2>1, <2>2 DEF record, ReasonInv, Unexplained, ReasonExplainsDecision
<1> QED
  BY <1>1, <1>2, <1>3, <1>4, <1>5 DEF Recorders

\* For every plan, schedule and timing, the policy the reason names is one that
\* contributed the decision, by a match or by a failure, as the reason says.
THEOREM ReasonAlwaysExplains == Spec => []ReasonExplainsDecision
<1>1. Init => ReasonInv
  BY TypeInit DEF Init, ReasonInv, Unexplained, ReasonExplainsDecision, NoReason
<1>2. ReasonInv /\ [Next]_vars => ReasonInv'
  BY TypeStep, ReasonStep DEF ReasonInv
<1>3. ReasonInv => ReasonExplainsDecision
  BY DEF ReasonInv
<1> QED
  BY <1>1, <1>2, <1>3, PTL DEF Spec
-----------------------------------------------------------------------------
(* The transformed content. *)

Redactable == {s \in findings : plan[s[1]].action = "redact"}

\* What has been collected, what the response was made of, and that there is
\* none before the end.
Collected ==
    /\ replacements = Redactable
    /\ pc # "done" => result = "none"
    /\ result = "response" => (transformed <=> decision = "redact")

RedactionInv == DecisionInv /\ Collected

\* A returned call does nothing more.
LEMMA DoneIsFinal == ASSUME [Next]_vars, pc = "done" PROVE UNCHANGED vars
  BY DEF Next, Evaluate, Start, AbortAtStart, RejectSelection, ResolvePolicies, PolicyLoop,
         AbortBeforePolicy, BeginPolicy, DetectorsDone, EndPolicy, Respond, DetectorLoop,
         AbortBeforeDetector, CheckCaller, PolicyStillRuns, PolicyExpired,
         EffectiveDetectorTimeout, ArmDetector, EnterExecutor, AcceptResult, RejectResult,
         AbortAfterDetector, HandleFailure, Executor, ReturnResult, ReturnContextError,
         ReturnDetectorError, CancelCaller, Propagate, PropagateToPolicy,
         PropagateToDetector, Timers, PolicyTimer, DetectorTimer, Tick, Terminated,
         InPolicy, InDetector

\* Only Finish returns, and a response comes from Respond.
Returning == pc' = "done" /\ result' # "response"

LEMMA OnlyRespondResponds ==
    ASSUME [Next]_vars, pc # "done", ~Respond
    PROVE  Returning \/ (pc' # "done" /\ result' = result)
<1> USE DEF Returning, Finish
<1>1. Start \/ PolicyLoop => Returning \/ (pc' # "done" /\ result' = result)
  BY DEF Start, AbortAtStart, RejectSelection, ResolvePolicies, Abort, PolicyLoop,
         AbortBeforePolicy, BeginPolicy, DetectorsDone, EndPolicy
<1>2. DetectorLoop => Returning \/ (pc' # "done" /\ result' = result)
  BY DEF DetectorLoop, AbortBeforeDetector, CheckCaller, PolicyStillRuns, PolicyExpired,
         EffectiveDetectorTimeout, ArmDetector, EnterExecutor, AcceptResult, RejectResult,
         AbortAfterDetector, HandleFailure, Handle, Leave, Continue, Abort
<1>3. Executor => pc' # "done" /\ result' = result
  BY DEF Executor, ReturnResult, ReturnContextError, ReturnDetectorError, Returns
<1>4. CancelCaller \/ Propagate \/ Timers \/ Tick \/ Terminated \/ UNCHANGED vars
        => pc' = pc /\ result' = result
  BY DEF CancelCaller, Propagate, PropagateToPolicy, PropagateToDetector, Timers,
         PolicyTimer, DetectorTimer, Tick, Terminated, vars
<1> QED
  BY <1>1, <1>2, <1>3, <1>4 DEF Next, Evaluate

\* A decision to redact comes from a finding: no failure asks for it.
LEMMA RedactComesFromFinding ==
    ASSUME DecisionInv, decision = "redact"
    PROVE  Redactable # {}
<1>1. \A f \in failures : FailureAction(f.mode) # "redact"
  BY DEF FailureAction
<1>2. decision \in Contributions
  BY DEF DecisionInv, DecisionIsStrongest
<1> QED
  BY <1>1, <1>2 DEF Contributions, Redactable

\* Each step keeps the findings to replace and the replacements the same.
LEMMA CollectedStep == RedactionInv /\ [Next]_vars => Collected'
<1> SUFFICES ASSUME RedactionInv, [Next]_vars PROVE Collected'
  OBVIOUS
<1>1. CASE pc = "done"
  BY <1>1, DoneIsFinal
  DEF RedactionInv, Collected, Redactable, vars, inputs, response
<1>2. CASE pc # "done" /\ Respond
  <2>1. /\ transformed' = (decision = "redact" /\ replacements # {}) /\ pc' = "done"
        /\ UNCHANGED <<plan, findings, replacements, decision>>
    BY <1>2 DEF Respond, Finish, inputs
  <2>2. decision = "redact" => replacements # {}
    BY RedactComesFromFinding DEF RedactionInv, Collected
  <2> QED
    BY <2>1, <2>2 DEF RedactionInv, Collected, Redactable
<1>3. CASE pc # "done" /\ ~Respond
  <2>1. /\ pc' # "done" => result' = "none"
        /\ result' # "response"
    BY <1>3, OnlyRespondResponds DEF Returning, RedactionInv, Collected
  <2>2. replacements' = Redactable'
    <3>0. replacements = Redactable
      BY DEF RedactionInv, Collected
    <3>1. CASE AcceptResult
      <4>1. plan[p].action = "redact" => Detector.replaces
        BY <3>1, PolicyType
        DEF AcceptResult, RedactionInv, DecisionInv, TypeInv, TypeOK, Position, InBody,
            InPolicy, Policy, Detector
      <4>2. /\ plan' = plan
            /\ \/ UNCHANGED <<findings, replacements>>
               \/ /\ findings' = findings \cup {<<p, d>>}
                  /\ replacements' = IF plan[p].action = "redact"
                                     THEN replacements \cup {<<p, d>>} ELSE replacements
        BY <3>1, <4>1 DEF AcceptResult, CollectReplacements, inputs, Slot, Policy
      <4> QED
        BY <3>0, <4>2 DEF Redactable
    <3>2. CASE PolicyExpired \/ HandleFailure
      BY <3>0, <3>2 DEF PolicyExpired, HandleFailure, Handle, Record, inputs, Redactable
    <3>3. CASE ResolvePolicies
      BY <3>3 DEF ResolvePolicies, response, RedactionInv, DecisionInv, TypeInv, Position, Redactable
    <3>4. CASE ~Recorders /\ ~ResolvePolicies
      BY <3>0, <3>4, OnlyRecordersRecord DEF record, Redactable
    <3> QED
      BY <3>1, <3>2, <3>3, <3>4 DEF Recorders
  <2> QED
    BY <2>1, <2>2 DEF Collected
<1> QED
  BY <1>1, <1>2, <1>3

\* For every plan, schedule and timing, the response is redacted just when that
\* is the decision, and from every finding of every redacting policy.
THEOREM RedactionIsAlwaysComplete == Spec => []RedactionIsComplete
<1>1. Init => RedactionInv
  <2>1. Init => DecisionIsStrongest
    BY DEF Init, DecisionIsStrongest, Contributions, ActionPriority
  <2>2. Init => Collected
    BY DEF Init, Collected, Redactable
  <2> QED
    BY <2>1, <2>2, TypeInit DEF RedactionInv, DecisionInv
<1>2. RedactionInv /\ [Next]_vars => RedactionInv'
  BY TypeStep, DecisionStep, CollectedStep DEF RedactionInv, DecisionInv
<1>3. RedactionInv => RedactionIsComplete
  BY DEF RedactionInv, Collected, Redactable, RedactionIsComplete
<1> QED
  BY <1>1, <1>2, <1>3, PTL DEF Spec
-----------------------------------------------------------------------------
(* Every detector is accounted for. *)

\* The policies the loop has begun.
begunPolicies == IF pc = "policy" THEN p - 1 ELSE p

\* A slot is accounted for by a result or a failure of its own, or by a failure
\* of its policy.
Accounted(s) == s \in Judged \/ FailedAsAWhole(s[1])

\* The slots of which the call owes an account already.
Due(s) ==
    \/ s[1] < p
    \/ s[1] = p /\ (pc = "policyEnd" \/ (InPolicy /\ s[2] < d))

Progress ==
    /\ pc = "start" => p = 0 /\ applied = <<>>
    /\ pc \notin {"start", "done"} =>
          /\ p <= Len(plan) + 1
          /\ applied = [i \in 1 .. begunPolicies |-> plan[i].id]
          /\ \A s \in Slots(plan) : Due(s) => Accounted(s)
    /\ pc # "done" => result = "none"

ProgressInv == TypeInv /\ Progress /\ NoDetectorSilentlySkipped

\* Nothing that has been accounted for is lost.
LEMMA AccountsStay ==
    ASSUME findings \subseteq findings', clear \subseteq clear', failures \subseteq failures'
    PROVE  \A s : Accounted(s) => Accounted(s)'
  BY DEF Accounted, Judged, FailedAsAWhole

\* The steps that only move the program counter inside a policy, or the world
\* around it.
Inside == pc \in {"detector", "deadline", "scope", "arm", "enter", "running", "returned", "failed"}

LEMMA ProgressInside ==
    ASSUME ProgressInv, UNCHANGED <<plan, p, applied, result>>, Inside, Inside',
           findings \subseteq findings', clear \subseteq clear', failures \subseteq failures',
           d' = d \/ (d' = d + 1 /\ Slot \in Judged')
    PROVE  Progress'
<1>1. \A s : Accounted(s) => Accounted(s)'
  BY AccountsStay
<1>2. p \in Nat /\ d \in Nat
  BY DEF ProgressInv, TypeInv, TypeOK
<1>3. \A s \in Slots(plan) : s = <<s[1], s[2]>> /\ s[1] \in DOMAIN plan /\ s[2] \in DOMAIN plan[s[1]].detectors
  BY DEF Slots
<1>4. \A i \in DOMAIN plan : \A j \in DOMAIN plan[i].detectors : i \in Nat /\ j \in Nat
  BY PolicyType DEF ProgressInv, TypeInv, TypeOK
<1>5. ASSUME NEW s \in Slots(plan), Due(s)' PROVE Accounted(s)'
  <2>1. CASE Due(s)
    BY <1>1, <2>1 DEF ProgressInv, Progress, Inside
  <2>2. CASE ~Due(s)
    <3>1. s[1] = p /\ s[2] < d' /\ ~(s[2] < d)
      BY <1>5, <2>2 DEF Due, Inside, InPolicy
    <3>2. s[2] = d /\ d' = d + 1
      BY <1>2, <1>3, <1>4, <3>1
    <3> QED
      BY <1>3, <3>1, <3>2 DEF Accounted, Slot
  <2> QED
    BY <2>1, <2>2
<1> QED
  BY <1>5 DEF ProgressInv, Progress, Inside, begunPolicies

\* Leaving a policy: by its end, or by a failure of the policy itself.
LEMMA ProgressLeaves ==
    ASSUME ProgressInv, UNCHANGED <<plan, p, applied, result>>, Inside, pc' = "policyEnd",
           findings \subseteq findings', clear \subseteq clear', failures \subseteq failures',
           \/ FailedAsAWhole(p)'
           \/ pc = "detector" /\ d > Len(Policy.detectors)
    PROVE  Progress'
<1>1. \A s : Accounted(s) => Accounted(s)'
  BY AccountsStay
<1>2. ASSUME NEW s \in Slots(plan), Due(s)' PROVE Accounted(s)'
  <2>1. CASE Due(s)
    BY <1>1, <2>1 DEF ProgressInv, Progress, Inside
  <2>2. CASE s[1] = p /\ FailedAsAWhole(p)'
    BY <2>2 DEF Accounted
  <2>3. CASE s[1] = p /\ pc = "detector" /\ d > Len(Policy.detectors)
    <3>1. s[1] \in DOMAIN plan /\ s[2] \in DOMAIN plan[s[1]].detectors
      BY DEF Slots
    <3>2. s[2] \in 1 .. Len(Policy.detectors) /\ Len(Policy.detectors) \in Nat /\ d \in Nat
      BY <2>3, <3>1, PolicyType DEF ProgressInv, TypeInv, TypeOK, Policy
    <3>3. Due(s)
      BY <2>3, <3>2 DEF Due, InPolicy
    <3> QED
      BY <2>1, <3>3
  <2> QED
    BY <1>2, <2>1, <2>2, <2>3 DEF Due
<1> QED
  BY <1>2 DEF ProgressInv, Progress, Inside, begunPolicies

\* Between two policies.
LEMMA ProgressBetween ==
    ASSUME ProgressInv, BeginPolicy \/ EndPolicy
    PROVE  Progress'
<1>1. /\ UNCHANGED <<plan, findings, clear, failures, result>> /\ p \in Nat \ {0}
      /\ \A s : Accounted(s)' <=> Accounted(s)
      /\ plan \in Plans \cup {<<>>}
  BY DEF BeginPolicy, EndPolicy, inputs, response, Accounted, Judged, FailedAsAWhole,
         ProgressInv, TypeInv, TypeOK, Position
<1>2. \A s \in Slots(plan) : /\ s[1] \in Nat
                             /\ s[2] \in Nat \ {0}
  <2> TAKE s \in Slots(plan)
  <2>1. s[1] \in DOMAIN plan /\ s[2] \in DOMAIN plan[s[1]].detectors
    BY DEF Slots
  <2> QED
    BY <1>1, <2>1, PolicyType
<1>3. CASE BeginPolicy
  <2>1. /\ pc = "policy" /\ p <= Len(plan) /\ pc' = "detector" /\ p' = p /\ d' = 1
        /\ applied' = Append(applied, plan[p].id)
        /\ applied = [i \in 1 .. p - 1 |-> plan[i].id]
    BY <1>3 DEF BeginPolicy, ProgressInv, Progress, Policy, begunPolicies
  <2>2. applied' = [i \in 1 .. p |-> plan[i].id]
    <3>1. p - 1 \in Nat /\ Len(applied) = p - 1 /\ applied \in Seq(STRING)
      BY <1>1, <2>1 DEF ProgressInv, TypeInv, TypeOK
    <3> QED
      BY <1>1, <2>1, <3>1
  <2>3. \A s \in Slots(plan) : Due(s)' => Due(s)
    BY <1>2, <2>1 DEF Due, InPolicy
  <2>4. Len(plan) \in Nat
    BY <1>1, PlansAssumption
  <2> QED
    BY <1>1, <2>1, <2>2, <2>3, <2>4 DEF ProgressInv, Progress, begunPolicies
<1>4. CASE EndPolicy
  <2>1. /\ pc = "policyEnd" /\ pc' = "policy" /\ p' = p + 1 /\ applied' = applied
        /\ p \in DOMAIN plan
    BY <1>4 DEF EndPolicy, response, ProgressInv, TypeInv, Position
  <2>2. p <= Len(plan) /\ Len(plan) \in Nat
    BY <1>1, <2>1, PlansAssumption
  <2>3. \A s \in Slots(plan) : Due(s)' => Due(s)
    BY <1>1, <1>2, <2>1 DEF Due, InPolicy
  <2>4. applied = [i \in 1 .. p |-> plan[i].id] /\ p' - 1 = p
    BY <1>1, <2>1 DEF ProgressInv, Progress, begunPolicies
  <2> QED
    BY <1>1, <2>1, <2>2, <2>3, <2>4 DEF ProgressInv, Progress, begunPolicies
<1> QED
  BY <1>3, <1>4

LEMMA ProgressResolved ==
    ASSUME ProgressInv, ResolvePolicies
    PROVE  Progress'
<1>1. /\ p' = 1 /\ pc' = "policy" /\ plan' \in Plans /\ applied' = <<>> /\ result' = "none"
  BY DEF ResolvePolicies, response, ProgressInv, Progress
<1>2. plan' \in Seq(PolicyConfig) /\ Len(plan') \in Nat
  BY <1>1, PlansAssumption
<1>3. ASSUME NEW s \in Slots(plan') PROVE ~Due(s)'
  <2>1. s[1] \in DOMAIN plan'
    BY <1>3 DEF Slots
  <2>2. s[1] \in Nat \ {0}
    BY <1>2, <2>1
  <2> QED
    BY <1>1, <2>2 DEF Due, InPolicy
<1>4. applied' = [i \in 1 .. p' - 1 |-> plan'[i].id]
  <2>1. 1 .. p' - 1 = {}
    BY <1>1
  <2> QED
    BY <1>1, <2>1
<1> QED
  BY <1>1, <1>2, <1>3, <1>4 DEF Progress, begunPolicies

LEMMA ProgressFailed ==
    ASSUME ProgressInv, PolicyExpired \/ HandleFailure
    PROVE  Progress'
<1>1. CASE PolicyExpired
  <2> DEFINE f == NewFailure(<<p, 0>>, "policy", "POLICY_TIMEOUT", Policy.timeout, TRUE, policyErr)
  <2>1. f.slot[1] = p /\ f.scope = "policy"
    BY DEF NewFailure
  <2> HIDE DEF f
  <2>2. /\ failures' = failures \cup {f} /\ pc = "deadline" /\ pc' = "policyEnd"
        /\ UNCHANGED <<plan, p, applied, result, findings, clear>>
    BY <1>1 DEF PolicyExpired, Record, inputs, f
  <2>3. FailedAsAWhole(p)'
    BY <2>1, <2>2 DEF FailedAsAWhole
  <2> QED
    BY <2>2, <2>3, ProgressLeaves DEF Inside
<1>2. CASE HandleFailure
  <2>1. /\ failures' = failures \cup {DetectorFailure} /\ pc = "failed"
        /\ UNCHANGED <<plan, p, applied, result, findings, clear>>
        /\ IF DetectorFailure.scope = "policy" THEN Leave ELSE Continue
    BY <1>2 DEF HandleFailure, Handle, Record, inputs
  <2>2. DetectorFailure.slot = Slot
    BY <2>1, DetectorFailureType DEF ProgressInv
  <2>3. CASE DetectorFailure.scope = "policy"
    <3>1. FailedAsAWhole(p)'
      BY <2>1, <2>2, <2>3 DEF FailedAsAWhole, Slot
    <3> QED
      BY <2>1, <2>3, <3>1, ProgressLeaves DEF Inside, Leave
  <2>4. CASE DetectorFailure.scope # "policy"
    <3>1. Slot \in Judged' /\ pc' = "detector" /\ d' = d + 1
      BY <2>1, <2>2, <2>4 DEF Judged, Continue
    <3> QED
      BY <2>1, <3>1, ProgressInside DEF Inside
  <2> QED
    BY <2>3, <2>4
<1> QED
  BY <1>1, <1>2

LEMMA ProgressStep == ProgressInv /\ [Next]_vars => Progress'
<1> SUFFICES ASSUME ProgressInv, [Next]_vars PROVE Progress'
  OBVIOUS
<1> USE DEF inputs, response
<1>0. ASSUME UNCHANGED <<plan, p, d, pc, applied, findings, clear, failures, result>>
      PROVE  Progress'
  BY <1>0 DEF ProgressInv, Progress, begunPolicies, Due, InPolicy, Accounted, Judged,
              FailedAsAWhole
<1>1. ASSUME pc' = "done" PROVE Progress'
  BY <1>1 DEF Progress
<1>2. CASE Start
  BY <1>1, <1>2, ProgressResolved DEF Start, AbortAtStart, RejectSelection, Abort, Finish
<1>3. CASE PolicyLoop
  <2>1. CASE DetectorsDone
    BY <2>1, ProgressLeaves DEF DetectorsDone, Inside
  <2> QED
    BY <1>1, <1>3, <2>1, ProgressBetween DEF PolicyLoop, AbortBeforePolicy, Abort, Finish, Respond
<1>4. CASE DetectorLoop
  <2>1. CASE AbortBeforeDetector \/ AbortAfterDetector
    BY <1>1, <2>1 DEF AbortBeforeDetector, AbortAfterDetector, Abort, Finish
  <2>2. CASE CheckCaller \/ PolicyStillRuns \/ EffectiveDetectorTimeout \/ ArmDetector
             \/ EnterExecutor \/ RejectResult
    BY <2>2, ProgressInside
    DEF CheckCaller, PolicyStillRuns, EffectiveDetectorTimeout, ArmDetector, EnterExecutor,
        RejectResult, Inside
  <2>3. CASE AcceptResult
    <3>1. /\ Slot \in Judged' /\ d' = d + 1 /\ pc = "returned" /\ pc' = "detector"
          /\ findings \subseteq findings' /\ clear \subseteq clear'
          /\ UNCHANGED <<plan, p, applied, result, failures>>
      BY <2>3 DEF AcceptResult, Judged
    <3> QED
      BY <3>1, ProgressInside DEF Inside
  <2> QED
    BY <1>4, <2>1, <2>2, <2>3, ProgressFailed DEF DetectorLoop
<1>5. CASE Executor
  BY <1>5, ProgressInside
  DEF Executor, ReturnResult, ReturnContextError, ReturnDetectorError, Returns, Inside
<1>6. CASE CancelCaller \/ Propagate \/ Timers \/ Tick \/ Terminated \/ UNCHANGED vars
  BY <1>0, <1>6
  DEF CancelCaller, Propagate, PropagateToPolicy, PropagateToDetector, Timers, PolicyTimer,
      DetectorTimer, Tick, Terminated, vars
<1> QED
  BY <1>2, <1>3, <1>4, <1>5, <1>6 DEF Next, Evaluate

\* A response is given when every policy is behind the loop.
LEMMA AccountStep == ProgressInv /\ [Next]_vars => NoDetectorSilentlySkipped'
<1> SUFFICES ASSUME ProgressInv, [Next]_vars PROVE NoDetectorSilentlySkipped'
  OBVIOUS
<1>1. CASE pc = "done"
  BY <1>1, DoneIsFinal
  DEF ProgressInv, NoDetectorSilentlySkipped, Judged, FailedAsAWhole, vars, inputs, response
<1>2. CASE pc # "done" /\ Respond
  <2>1. /\ pc = "policy" /\ p > Len(plan) /\ p <= Len(plan) + 1
        /\ UNCHANGED <<plan, applied, findings, clear, failures>>
        /\ applied = [i \in 1 .. p - 1 |-> plan[i].id]
        /\ \A s \in Slots(plan) : Due(s) => Accounted(s)
    BY <1>2 DEF Respond, inputs, ProgressInv, Progress, begunPolicies
  <2>2. /\ plan \in Seq(PolicyConfig) /\ p \in Nat /\ Len(plan) \in Nat
        /\ DOMAIN plan = 1 .. Len(plan)
    <3>1. plan \in Plans \cup {<<>>} /\ p \in Nat
      BY DEF ProgressInv, TypeInv, TypeOK
    <3>2. plan \in Seq(PolicyConfig)
      <4>1. <<>> \in Seq(PolicyConfig)
        OBVIOUS
      <4> QED
        BY <3>1, <4>1, PlansAssumption
    <3> QED
      BY <3>1, <3>2
  <2>3. p - 1 = Len(plan)
    BY <2>1, <2>2
  <2>4. \A s \in Slots(plan) : s[1] < p
    <3> TAKE s \in Slots(plan)
    <3>1. s[1] \in DOMAIN plan
      BY DEF Slots
    <3> QED
      BY <2>1, <2>2, <3>1
  <2> QED
    BY <2>1, <2>2, <2>3, <2>4
    DEF NoDetectorSilentlySkipped, Due, Accounted, Judged, FailedAsAWhole
<1>3. CASE pc # "done" /\ ~Respond
  <2>1. result' # "response"
    BY <1>3, OnlyRespondResponds DEF Returning, ProgressInv, Progress
  <2> QED
    BY <2>1 DEF NoDetectorSilentlySkipped
<1> QED
  BY <1>1, <1>2, <1>3

\* For every plan, schedule and timing, a response lists every policy of the
\* plan, and every detector of it has a result, a failure of its own, or a policy
\* that failed.
THEOREM NoDetectorIsSkipped == Spec => []NoDetectorSilentlySkipped
<1>1. Init => ProgressInv
  BY TypeInit DEF Init, ProgressInv, Progress, NoDetectorSilentlySkipped
<1>2. ProgressInv /\ [Next]_vars => ProgressInv'
  BY TypeStep, ProgressStep, AccountStep DEF ProgressInv
<1>3. ProgressInv => NoDetectorSilentlySkipped
  BY DEF ProgressInv
<1> QED
  BY <1>1, <1>2, <1>3, PTL DEF Spec

-----------------------------------------------------------------------------
(* The timeouts. *)

\* The deadline the current scope names has passed, or the policy's.
Expired ==
    \/ elapsed >= Policy.timeout
    \/ scope = "detector" /\ elapsed - begun >= Detector.timeout

\* What effectiveDetectorTimeout and WithTimeout leave, and what a context that
\* is out of time says of the clock.  Only the policy's deadline can be taken for
\* the detector's: begun is read after the time remaining.
Clocks ==
    /\ pc \in {"arm", "enter", "running", "returned", "failed"} /\ scope = "detector"
          => timeout = Detector.timeout
    /\ pc = "arm" /\ scope = "policy" => elapsed + timeout >= Policy.timeout
    /\ InDetector /\ scope = "policy" => begun + timeout >= Policy.timeout
    /\ InDetector /\ timer # NoTimer => timer = begun + timeout
    /\ InPolicy /\ policyErr = "deadline" => elapsed >= Policy.timeout
    /\ InDetector /\ detectorErr = "deadline" => Expired
    /\ pc \in {"returned", "failed"} /\ outcome.kind = "context" /\ outcome.err = "deadline"
          => Expired

ClockInv == CancelInv /\ Clocks

\* The steps in which the clocks are read or set.
LEMMA ClocksSet == ASSUME ClockInv, EffectiveDetectorTimeout \/ ArmDetector PROVE Clocks'
<1> USE DEF ClockInv, CancelInv, TypeInv, TypeOK, Position, Clocks, InPolicy, InDetector, InBody,
            inputs, contexts, locals, response
<1>0. /\ p \in DOMAIN plan /\ d \in DOMAIN Policy.detectors
      /\ Policy' = Policy /\ Detector' = Detector
  BY DEF EffectiveDetectorTimeout, ArmDetector, Policy, Detector
<1>1. Policy.timeout \in Nat /\ Detector.timeout \in Nat
  BY <1>0, PolicyType DEF Policy, Detector
<1>2. CASE EffectiveDetectorTimeout
  BY <1>0, <1>1, <1>2 DEF EffectiveDetectorTimeout, Remaining
<1>3. CASE ArmDetector
  <2>1. /\ pc = "arm" /\ pc' = "enter" /\ begun' = elapsed
        /\ UNCHANGED <<elapsed, timeout, scope, policyErr, outcome>>
        /\ timer' = IF Policy.timeout < elapsed + timeout THEN NoTimer ELSE elapsed + timeout
        /\ detectorErr' = "deadline" =>
              policyErr = "deadline" \/ (timer' # NoTimer /\ elapsed + timeout <= elapsed)
    BY <1>3 DEF ArmDetector
  <2>2. detectorErr' = "deadline" => Expired'
    <3>1. CASE policyErr = "deadline"
      BY <1>0, <2>1, <3>1 DEF Expired
    <3>2. CASE elapsed + timeout <= elapsed
      BY <1>0, <1>1, <2>1, <3>2 DEF Expired, FailureScope
    <3> QED
      BY <2>1, <3>1, <3>2
  <2> QED
    BY <1>0, <1>1, <2>1, <2>2
<1> QED
  BY <1>2, <1>3

\* A deadline that has passed has passed for good.
LEMMA ClocksKept ==
    ASSUME ClockInv, UNCHANGED <<plan, p, d, scope, timeout, begun>>, InPolicy,
           elapsed' \in Nat, elapsed <= elapsed'
    PROVE  /\ Policy' = Policy /\ Detector' = Detector
           /\ Policy.timeout \in Nat
           /\ elapsed >= Policy.timeout => elapsed' >= Policy.timeout
           /\ InBody /\ Expired => Expired'
<1> USE DEF ClockInv, CancelInv, TypeInv, TypeOK, Position
<1>1. Policy' = Policy /\ Detector' = Detector
  BY DEF Policy, Detector
<1>2. Policy.timeout \in Nat
  BY PolicyType DEF Policy
<1>3. elapsed >= Policy.timeout => elapsed' >= Policy.timeout
  BY <1>2
<1>4. ASSUME InBody, Expired PROVE Expired'
  <2>1. Detector.timeout \in Nat
    BY <1>4, PolicyType DEF Policy, Detector
  <2> QED
    BY <1>1, <1>2, <1>4, <2>1 DEF Expired
<1> QED
  BY <1>1, <1>2, <1>3, <1>4

\* The steps that leave the clocks as they are and move on.
LEMMA ClocksCarried ==
    ASSUME ClockInv, UNCHANGED <<plan, p>>, pc' \in {"policy", "policyEnd", "done", "detector", "deadline", "scope"},
           InPolicy' => UNCHANGED <<policyErr, elapsed>> /\ InPolicy
    PROVE  Clocks'
<1>1. Policy' = Policy
  BY DEF Policy
<1> QED
  BY <1>1 DEF ClockInv, Clocks, InPolicy, InDetector

\* The steps of an executor, and those that take its answer.
LEMMA ClocksAnswered ==
    ASSUME ClockInv, InDetector, UNCHANGED <<plan, p, d, scope, timeout, begun, elapsed, policyErr>>,
           \/ UNCHANGED <<timer, detectorErr>> /\ InDetector'
           \/ pc' = "failed",
           \/ pc = "returned" /\ outcome' = outcome
           \/ pc' \notin {"returned", "failed"}
           \/ outcome'.kind # "context"
           \/ outcome'.err = detectorErr
    PROVE  Clocks'
<1>1. Policy' = Policy /\ Detector' = Detector /\ (Expired' <=> Expired)
  BY DEF Policy, Detector, Expired
<1>2. InPolicy /\ pc # "arm" /\ pc # "failed"
  BY DEF InDetector, InPolicy
<1>3. pc' \in {"enter", "running", "returned", "failed"}
  BY DEF InDetector
<1>4. pc' \in {"returned", "failed"} /\ outcome'.kind = "context" /\ outcome'.err = "deadline" => Expired
  BY DEF ClockInv, Clocks
<1>5. /\ scope = "detector" => timeout = Detector.timeout
      /\ scope = "policy" => begun + timeout >= Policy.timeout
      /\ timer # NoTimer => timer = begun + timeout
      /\ policyErr = "deadline" => elapsed >= Policy.timeout
      /\ detectorErr = "deadline" => Expired
  BY <1>2 DEF ClockInv, Clocks, InDetector
<1>6. InDetector' => UNCHANGED <<timer, detectorErr>>
  BY DEF InDetector
<1>7. pc' # "arm"
  BY <1>3
<1> QED
  BY <1>1, <1>4, <1>5, <1>6, <1>7 DEF Clocks

\* The contexts, the timers and the clock.
LEMMA ClocksTick ==
    ASSUME ClockInv, CancelCaller \/ Propagate \/ Timers \/ Tick
    PROVE  Clocks'
<1> USE DEF inputs, locals, response
<1>1. CASE CancelCaller
  BY <1>1 DEF CancelCaller, contexts, ClockInv, Clocks, InPolicy, InDetector, Expired, Policy, Detector
<1>2. CASE ~CancelCaller
  <2>1. /\ UNCHANGED <<pc, plan, p, d, scope, timeout, begun, outcome, timer>> /\ InPolicy
        /\ elapsed' \in Nat /\ elapsed <= elapsed' /\ elapsed \in Nat /\ Policy.timeout \in Nat
        /\ begun \in Nat /\ timeout \in Int /\ timer \in Int /\ scope \in {"policy", "detector"}
    BY <1>2, PolicyType
    DEF Propagate, PropagateToPolicy, PropagateToDetector, Timers, PolicyTimer, DetectorTimer, Tick,
        InPolicy, InDetector, ClockInv, CancelInv, TypeInv, TypeOK, Position, Policy, FailureScope
  <2>2. /\ Policy' = Policy /\ Detector' = Detector
        /\ elapsed >= Policy.timeout => elapsed' >= Policy.timeout
        /\ InBody /\ Expired => Expired'
    BY <2>1, ClocksKept
  <2>3. InPolicy' = InPolicy /\ InDetector' = InDetector /\ (InDetector => InBody)
        /\ (pc = "failed" => InBody)
    BY <2>1 DEF InPolicy, InDetector, InBody
  <2>4. policyErr' = "deadline" => elapsed' >= Policy.timeout
    <3>1. policyErr' = "deadline" => policyErr = "deadline" \/ elapsed >= Policy.timeout
      BY <1>2
      DEF Propagate, PropagateToPolicy, PropagateToDetector, Timers, PolicyTimer, DetectorTimer, Tick,
          ClockInv, CancelInv, TypeInv, TypeOK
    <3> QED
      BY <2>1, <2>2, <3>1 DEF ClockInv, Clocks
  <2>5. InDetector /\ detectorErr' = "deadline" => Expired'
    <3> SUFFICES ASSUME InDetector, detectorErr' = "deadline" PROVE Expired'
      OBVIOUS
    <3>1. \/ detectorErr = "deadline"
          \/ policyErr = "deadline"
          \/ timer # NoTimer /\ elapsed >= timer
      BY <1>2
      DEF Propagate, PropagateToPolicy, PropagateToDetector, Timers, PolicyTimer, DetectorTimer, Tick
    <3>2. Expired
      <4>1. CASE timer # NoTimer /\ elapsed >= timer
        <5>1. timer = begun + timeout
          BY <4>1 DEF ClockInv, Clocks
        <5>2. CASE scope = "policy"
          <6>1. begun + timeout >= Policy.timeout
            BY <5>2 DEF ClockInv, Clocks
          <6> QED
            BY <2>1, <4>1, <5>1, <6>1 DEF Expired
        <5>3. CASE scope = "detector"
          <6>1. timeout = Detector.timeout
            BY <5>3 DEF ClockInv, Clocks, InDetector
          <6> QED
            BY <2>1, <4>1, <5>1, <5>3, <6>1 DEF Expired
        <5> QED
          BY <2>1, <5>2, <5>3
      <4> QED
        BY <2>1, <3>1, <4>1 DEF ClockInv, Clocks, Expired
    <3> QED
      BY <2>2, <2>3, <3>2
  <2>6. pc = "arm" /\ scope = "policy" => elapsed' + timeout >= Policy.timeout
    <3>1. pc = "arm" /\ scope = "policy" => elapsed + timeout >= Policy.timeout
      BY DEF ClockInv, Clocks
    <3> QED
      BY <2>1, <3>1
  <2>7. pc \in {"returned", "failed"} => InBody
    BY DEF InBody
  <2> QED
    BY <2>1, <2>2, <2>3, <2>4, <2>5, <2>6, <2>7 DEF ClockInv, Clocks
<1> QED
  BY <1>1, <1>2

LEMMA ClockStep == ClockInv /\ [Next]_vars => Clocks'
<1> SUFFICES ASSUME ClockInv, [Next]_vars PROVE Clocks'
  OBVIOUS
<1> USE DEF inputs, contexts, locals, response, InPolicy, InDetector
<1>1. CASE Start
  BY <1>1
  DEF Start, AbortAtStart, Abort, Finish, RejectSelection, ResolvePolicies, Clocks
<1>2. CASE PolicyLoop
  <2>1. CASE BeginPolicy
    BY <2>1 DEF BeginPolicy, Clocks
  <2>2. CASE ~BeginPolicy
    BY <1>2, <2>2 DEF PolicyLoop, AbortBeforePolicy, Abort, Finish, DetectorsDone, EndPolicy, Respond, Clocks
  <2> QED
    BY <2>1, <2>2
<1>3. CASE DetectorLoop
  <2>1. CASE AbortBeforeDetector \/ AbortAfterDetector
    BY <2>1 DEF AbortBeforeDetector, AbortAfterDetector, Abort, Finish, Clocks
  <2>2. CASE CheckCaller \/ PolicyStillRuns \/ PolicyExpired \/ HandleFailure
    BY <2>2, ClocksCarried
    DEF CheckCaller, PolicyStillRuns, PolicyExpired, HandleFailure, Handle, Leave, Continue
  <2>3. CASE AcceptResult
    BY <2>3, ClocksCarried DEF AcceptResult
  <2>4. CASE EffectiveDetectorTimeout \/ ArmDetector
    BY <2>4, ClocksSet
  <2>5. CASE EnterExecutor
    BY <2>5, ClocksAnswered DEF EnterExecutor
  <2>6. CASE RejectResult
    <3>1. \/ outcome' = outcome
          \/ outcome'.err = detectorErr
      BY <2>6 DEF RejectResult, HandledError
    <3> QED
      BY <2>6, <3>1, ClocksAnswered DEF RejectResult
  <2> QED
    BY <1>3, <2>1, <2>2, <2>3, <2>4, <2>5, <2>6 DEF DetectorLoop
<1>4. CASE Executor
  <2>1. \/ outcome'.kind # "context"
        \/ outcome'.err = detectorErr
    BY <1>4 DEF Executor, ReturnResult, ReturnContextError, ReturnDetectorError, Returns
  <2>2. /\ pc = "running" /\ pc' = "returned"
        /\ UNCHANGED <<plan, p, d, scope, timeout, begun, contexts>>
    BY <1>4 DEF Executor, ReturnResult, ReturnContextError, ReturnDetectorError, Returns
  <2> QED
    BY <2>1, <2>2, ClocksAnswered
<1>5. CASE CancelCaller \/ Propagate \/ Timers \/ Tick
  BY <1>5, ClocksTick
<1>6. CASE UNCHANGED vars
  BY <1>6 DEF vars, ClockInv, Clocks, Expired, Policy, Detector
<1> QED
  BY <1>1, <1>2, <1>3, <1>4, <1>5, <1>6 DEF Next, Evaluate, Terminated

\* What a failure of a detector says, by what it came from.
LEMMA DetectorFailureIsReal ==
    ASSUME ClockInv, pc = "failed", callerErr = "nil"
    PROVE  /\ d # 0 /\ DetectorFailure.slot = <<p, d>> /\ DetectorFailure.at = elapsed
           /\ DetectorFailure.ran = elapsed - begun
           /\ \/ /\ DetectorFailure.code \in ExecutorCode /\ DetectorFailure.cause = "typed"
                 /\ outcome.kind = "typed"
              \/ /\ Expired /\ DetectorFailure.cause = "deadline" /\ DetectorFailure.retryable
                 /\ \/ /\ DetectorFailure.code = "POLICY_TIMEOUT" /\ DetectorFailure.scope = "policy"
                       /\ scope = "policy"
                       /\ DetectorFailure.timeoutMs = DurationMilliseconds(Policy.timeout)
                    \/ /\ DetectorFailure.code = "DETECTOR_TIMEOUT" /\ DetectorFailure.scope = "detector"
                       /\ DetectorFailure.timeoutMs = DurationMilliseconds(Detector.timeout)
<1>1. /\ DetectorFailure.slot = Slot /\ DetectorFailure.at = elapsed /\ d # 0
      /\ DetectorFailure.ran = elapsed - begun
  <2>1. d # 0
    BY PolicyType DEF ClockInv, CancelInv, TypeInv, TypeOK, Position, InPolicy, InBody, Policy
  <2> QED
    BY <2>1 DEF DetectorFailure, NewFailure, Slot
<1>2. CASE outcome.kind = "context"
  <2>1. outcome.err = "deadline" /\ Expired
    <3>1. outcome.err \in {"canceled", "deadline"} /\ outcome.err # "canceled"
      BY <1>2, OutcomeType DEF ClockInv, CancelInv, TypeInv, TypeOK, CancellationIsTheCallers
    <3> QED
      BY <1>2, <3>1 DEF ClockInv, Clocks
  <2>2. scope = "detector" => timeout = Detector.timeout
    BY DEF ClockInv, Clocks
  <2>3. scope \in {"policy", "detector"}
    BY DEF ClockInv, CancelInv, TypeInv, TypeOK, FailureScope
  <2> QED
    BY <1>1, <1>2, <2>1, <2>2, <2>3 DEF DetectorFailure, NewFailure, Slot
<1>3. CASE outcome.kind # "context"
  <2>1. outcome.kind = "typed" /\ ReportedCode(outcome.err.code) \in ExecutorCode
    BY <1>3 DEF ClockInv, CancelInv, TypeInv, Position, ReportedCode, ExecutorCode
  <2> QED
    BY <1>1, <2>1 DEF DetectorFailure, NewFailure, Slot
<1> QED
  BY <1>2, <1>3

\* A failure that says how long it took, and of whose deadline.
Real(f) ==
    LET policy == plan[f.slot[1]] IN
    CASE f.code = "POLICY_TIMEOUT" ->
            /\ f.scope = "policy" /\ f.retryable
            /\ f.cause = "deadline" => f.at >= policy.timeout
      [] f.code = "DETECTOR_TIMEOUT" ->
            /\ f.scope = "detector" /\ f.retryable /\ f.cause = "deadline"
            /\ \/ f.ran >= policy.detectors[f.slot[2]].timeout
               \/ f.at >= policy.timeout
      [] OTHER -> f.cause = "typed"

\* It names a time, or there are executors that report errors of their own.
Positive(f) == f.timeoutMs >= 1 \/ ExecutorErrors # {}

Truthful == \A f \in failures : Real(f) /\ Positive(f)

\* A time that is not zero is not reported as zero.
LEMMA DurationPositive ==
    ASSUME NEW ticks \in Nat \ {0}
    PROVE  DurationMilliseconds(ticks) >= 1
<1>1. ticks \div TicksPerMs \in Nat
  BY TimeAssumption, SMT
<1>2. ~(ticks < 0) /\ ticks > 0
  OBVIOUS
<1> QED
  BY <1>1, <1>2 DEF DurationMilliseconds

LEMMA NewFailureIsTruthful ==
    ASSUME ClockInv, PolicyExpired \/ HandleFailure
    PROVE  \E f : failures' = failures \cup {f} /\ Real(f) /\ Positive(f)
<1>1. p \in DOMAIN plan /\ plan' = plan /\ Policy.timeout \in Nat \ {0}
  <2>1. p \in DOMAIN plan /\ plan' = plan
    BY DEF PolicyExpired, HandleFailure, Handle, inputs, ClockInv, CancelInv, TypeInv, Position, InPolicy
  <2> QED
    BY <2>1, PolicyType DEF ClockInv, CancelInv, TypeInv, TypeOK, Policy
<1>2. CASE PolicyExpired
  <2> DEFINE f == NewFailure(<<p, 0>>, "policy", "POLICY_TIMEOUT", Policy.timeout, TRUE, policyErr)
  <2>1. /\ f.slot[1] = p /\ f.scope = "policy" /\ f.code = "POLICY_TIMEOUT" /\ f.retryable
        /\ f.cause = policyErr /\ f.at = elapsed
        /\ f.timeoutMs = DurationMilliseconds(Policy.timeout)
    BY DEF NewFailure
  <2>2. failures' = failures \cup {f}
    BY <1>2 DEF PolicyExpired, Record
  <2> HIDE DEF f
  <2>3. policyErr = "deadline" => elapsed >= Policy.timeout
    BY <1>2 DEF PolicyExpired, InPolicy, ClockInv, Clocks
  <2>4. Real(f)
    BY <1>1, <2>1, <2>3 DEF Real, Policy
  <2>5. Positive(f)
    BY <1>1, <2>1, DurationPositive DEF Positive
  <2> QED
    BY <2>2, <2>4, <2>5
<1>3. CASE HandleFailure
  <2> DEFINE f == DetectorFailure
  <2>1. failures' = failures \cup {f} /\ pc = "failed" /\ callerErr = "nil"
    BY <1>3 DEF HandleFailure, Handle, Record
  <2>2. /\ d \in DOMAIN plan[p].detectors /\ Detector.timeout \in Nat \ {0}
        /\ Detector = plan[p].detectors[d] /\ Policy = plan[p]
    <3>1. d \in DOMAIN plan[p].detectors
      BY <2>1 DEF ClockInv, CancelInv, TypeInv, Position, InBody, Policy
    <3> QED
      BY <1>1, <3>1, PolicyType DEF ClockInv, CancelInv, TypeInv, TypeOK, Detector, Policy
  <2>3. /\ f.slot = <<p, d>> /\ f.at = elapsed /\ f.ran = elapsed - begun
        /\ \/ f.code \in ExecutorCode /\ f.cause = "typed" /\ outcome.kind = "typed"
           \/ /\ Expired /\ f.cause = "deadline" /\ f.retryable
              /\ \/ /\ f.code = "POLICY_TIMEOUT" /\ f.scope = "policy" /\ scope = "policy"
                    /\ f.timeoutMs = DurationMilliseconds(Policy.timeout)
                 \/ /\ f.code = "DETECTOR_TIMEOUT" /\ f.scope = "detector"
                    /\ f.timeoutMs = DurationMilliseconds(Detector.timeout)
    BY <2>1, DetectorFailureIsReal
  <2> HIDE DEF f
  <2>4. Real(f)
    <3>1. CASE f.code \in ExecutorCode /\ f.cause = "typed"
      BY <3>1 DEF Real, ExecutorCode
    <3>2. CASE f.code = "POLICY_TIMEOUT" /\ f.cause # "typed"
      BY <2>2, <2>3, <3>2 DEF Real, Expired, ExecutorCode
    <3>3. CASE f.code = "DETECTOR_TIMEOUT" /\ f.cause # "typed"
      <4>1. /\ f.scope = "detector" /\ f.retryable /\ f.cause = "deadline" /\ Expired
            /\ f.slot[1] = p /\ f.slot[2] = d
        BY <2>3, <3>3 DEF ExecutorCode
      <4>2. f.ran >= plan[p].detectors[d].timeout \/ f.at >= plan[p].timeout
        BY <2>2, <2>3, <4>1 DEF Expired
      <4> QED
        BY <3>3, <4>1, <4>2 DEF Real
    <3> QED
      BY <2>3, <3>1, <3>2, <3>3
  <2>5. Positive(f)
    <3>1. outcome.kind = "typed" => outcome.err \in ExecutorErrors
      BY OutcomeType DEF ClockInv, CancelInv, TypeInv, TypeOK
    <3> QED
      BY <1>1, <2>2, <2>3, <3>1, DurationPositive DEF Positive
  <2> QED
    BY <2>1, <2>4, <2>5
<1> QED
  BY <1>2, <1>3

LEMMA TruthStep == ClockInv /\ Truthful /\ [Next]_vars => Truthful'
<1> SUFFICES ASSUME ClockInv, Truthful, [Next]_vars PROVE Truthful'
  OBVIOUS
<1>1. ASSUME UNCHANGED <<plan, failures>> PROVE Truthful'
  BY <1>1 DEF Truthful, Real, Positive
<1>2. CASE PolicyExpired \/ HandleFailure
  <2>1. PICK f : failures' = failures \cup {f} /\ Real(f) /\ Positive(f)
    BY <1>2, NewFailureIsTruthful
  <2>2. plan' = plan
    BY <1>2 DEF PolicyExpired, HandleFailure, Handle, inputs
  <2>3. \A g : (Real(g) => Real(g)') /\ (Positive(g) => Positive(g)')
    BY <2>2 DEF Real, Positive
  <2> QED
    BY <2>1, <2>3 DEF Truthful
<1>3. CASE AcceptResult
  BY <1>1, <1>3 DEF AcceptResult, inputs
<1>4. CASE ResolvePolicies
  <2>1. failures' = {}
    BY <1>4 DEF ResolvePolicies, response, ClockInv, CancelInv, TypeInv, Position
  <2> QED
    BY <2>1 DEF Truthful
<1>5. CASE ~Recorders /\ ~ResolvePolicies
  BY <1>1, <1>5, OnlyRecordersRecord DEF record
<1> QED
  BY <1>2, <1>3, <1>4, <1>5 DEF Recorders

LEMMA TruthIsInvariant == Spec => [](ClockInv /\ Truthful)
<1>1. Init => ClockInv /\ Truthful
  BY TypeInit
  DEF Init, ClockInv, CancelInv, CancellationIsTheCallers, DetectorFailuresAreNotCancellations,
      Clocks, InPolicy, InDetector, NoOutcome, Truthful
<1>2. ClockInv /\ Truthful /\ [Next]_vars => (ClockInv /\ Truthful)'
  BY TypeStep, CancelStep, ClockStep, TruthStep DEF ClockInv, CancelInv
<1> QED
  BY <1>1, <1>2, PTL DEF Spec

\* For every plan, executor and clock, a timeout is only reported after the
\* deadline it names or its policy's, and nothing else is reported as one.
THEOREM TimeoutsAreAlwaysReal == Spec => []TimeoutsAreReal
<1>1. Truthful => TimeoutsAreReal
  BY DEF Truthful, Real, TimeoutsAreReal
<1> QED
  BY <1>1, TruthIsInvariant, PTL

\* With the built-in executor, which reports no errors of its own, the effective
\* timeout reported with a failure is at least a millisecond, for all deadlines.
THEOREM EvidenceIsPositive ==
    ASSUME ExecutorErrors = {}
    PROVE  Spec => []TimeoutEvidenceIsPositive
<1>1. Truthful => TimeoutEvidenceIsPositive
  BY DEF Truthful, Positive, TimeoutEvidenceIsPositive
<1> QED
  BY <1>1, TruthIsInvariant, PTL
-----------------------------------------------------------------------------
(* Evaluate implements its contract. *)

\* The abstract state, as Contract reads it off the response.
verdicts == [s \in Slots(plan) |-> VerdictOf(s)]

progress == CASE result = "response" -> "delivered"
              [] result = "aborted"  -> "abandoned"
              [] result = "rejected" -> "refused"
              [] pc = "start"        -> "asked"
              [] OTHER               -> "evaluating"

delivered == IF result = "response" THEN decision ELSE "none"

\* The operators Contract takes from Domain are those of Evaluator.
LEMMA SameDomain ==
    /\ \A q : Contract!Slots(q) = Slots(q)
    /\ \A mode : Contract!FailureAction(mode) = FailureAction(mode)
    /\ \A action : Contract!ActionPriority(action) = ActionPriority(action)
<1>1. \A q : Contract!Slots(q) = Slots(q)
  BY DEF Contract!Slots, Slots
<1>2. \A mode : Contract!FailureAction(mode) = FailureAction(mode)
  BY DEF Contract!FailureAction, FailureAction
<1>3. \A action : Contract!ActionPriority(action) = ActionPriority(action)
  BY DEF Contract!ActionPriority, ActionPriority
<1> QED
  BY <1>1, <1>2, <1>3

\* The steps of the contract in terms of this state.
LEMMA ContractStutters ==
    ASSUME UNCHANGED <<plan, verdicts, progress, delivered>>
    PROVE  UNCHANGED Contract!vars
  BY DEF Contract!vars, verdicts, progress, delivered

LEMMA ContractAbandons ==
    ASSUME progress \in {"asked", "evaluating"}, progress' = "abandoned",
           UNCHANGED <<plan, verdicts, delivered>>
    PROVE  Contract!Next
  BY DEF Contract!Next, Contract!Abandon, verdicts, progress, delivered

LEMMA ContractRefuses ==
    ASSUME progress = "asked", progress' = "refused", UNCHANGED <<plan, verdicts, delivered>>
    PROVE  Contract!Next
  BY DEF Contract!Next, Contract!Refuse, verdicts, progress, delivered

LEMMA ContractResolves ==
    ASSUME progress = "asked", plan' \in Plans, verdicts' = [s \in Slots(plan') |-> "pending"],
           progress' = "evaluating", delivered' = delivered
    PROVE  Contract!Next
  BY SameDomain DEF Contract!Next, Contract!Resolve, verdicts, progress, delivered

\* Slot s is the first without a verdict.
IsNext(s) ==
    /\ s \in Slots(plan) /\ VerdictOf(s) = "pending"
    /\ \A t \in Slots(plan) : t[1] < s[1] \/ (t[1] = s[1] /\ t[2] < s[2]) => VerdictOf(t) # "pending"

LEMMA ContractJudges ==
    ASSUME NEW s, IsNext(s), progress = "evaluating",
           VerdictOf(s)' \in {"clear", "match", "failed"},
           \A t \in Slots(plan) : t # s => VerdictOf(t)' = VerdictOf(t),
           UNCHANGED <<plan, progress, delivered>>
    PROVE  Contract!Next
<1>1. /\ s \in DOMAIN verdicts /\ verdicts[s] = "pending"
      /\ \A t \in DOMAIN verdicts : Contract!Before(t, s) => verdicts[t] # "pending"
      /\ verdicts' = [verdicts EXCEPT ![s] = VerdictOf(s)']
  BY DEF verdicts, IsNext, Contract!Before
<1> QED
  BY <1>1 DEF Contract!Next, Contract!Judge, Contract!Pending, verdicts, progress, delivered

LEMMA ContractCuts ==
    ASSUME NEW s, IsNext(s), progress = "evaluating",
           VerdictOf(s)' \in {"failed", "cut"},
           \A t \in Slots(plan) : t # s =>
               VerdictOf(t)' = IF t[1] = s[1] /\ s[2] < t[2] THEN "cut" ELSE VerdictOf(t),
           s[1] \in Nat,
           UNCHANGED <<plan, progress, delivered>>
    PROVE  Contract!Next
<1>1. /\ s \in DOMAIN verdicts /\ verdicts[s] = "pending"
      /\ \A t \in DOMAIN verdicts : Contract!Before(t, s) => verdicts[t] # "pending"
  BY DEF verdicts, IsNext, Contract!Before
<1>2. \A t \in Slots(plan) : t[1] = s[1] => (Contract!Before(s, t) <=> s[2] < t[2])
  BY DEF Contract!Before
<1>3. verdicts' = [t \in DOMAIN verdicts |->
                      IF t = s THEN VerdictOf(s)'
                      ELSE IF t[1] = s[1] /\ Contract!Before(s, t) THEN "cut"
                      ELSE verdicts[t]]
  BY <1>2 DEF verdicts, IsNext
<1> QED
  BY <1>1, <1>3 DEF Contract!Next, Contract!CutShort, Contract!Pending, verdicts, progress, delivered

\* The books: results and failures belong to slots that are due, no slot has two,
\* and a policy that failed before a detector left that one without.
Ledger ==
    pc \notin {"start", "done"} =>
        /\ \A s \in findings \cup clear : Due(s)
        /\ findings \cap clear = {}
        /\ \A f \in failures :
              /\ f.slot[1] \in DOMAIN plan /\ f.mode = plan[f.slot[1]].mode
              /\ f.slot \notin findings \cup clear
              /\ IF f.slot[2] = 0
                 THEN /\ f.scope = "policy"
                      /\ \E s \in Slots(plan) : s[1] = f.slot[1] /\ s \notin Judged
                 ELSE f.slot \in Slots(plan) /\ Due(f.slot)

LedgerInv == ProgressInv /\ Recorded /\ DecisionIsStrongest /\ Ledger

LEMMA SlotType ==
    ASSUME TypeInv, NEW s \in Slots(plan)
    PROVE  /\ s[1] \in DOMAIN plan /\ s[1] \in Nat \ {0} /\ s[2] \in Nat \ {0}
           /\ s = <<s[1], s[2]>>
<1>1. s[1] \in DOMAIN plan /\ s[2] \in DOMAIN plan[s[1]].detectors /\ s = <<s[1], s[2]>>
  BY DEF Slots
<1>2. plan \in Plans \cup {<<>>}
  BY DEF TypeInv, TypeOK
<1> QED
  BY <1>1, <1>2, PolicyType

\* The detector at hand is the first without a verdict.
LEMMA SlotIsNext ==
    ASSUME LedgerInv, InBody
    PROVE  /\ Slot \in Slots(plan) /\ p \in DOMAIN plan /\ d \in Nat \ {0} /\ p \in Nat
           /\ ~FailedAsAWhole(p) /\ Slot \notin Judged /\ IsNext(Slot)
           /\ \A t \in Slots(plan) : t[1] = p /\ d < t[2] => t \notin Judged
<1> USE DEF LedgerInv, ProgressInv
<1>1. InPolicy /\ pc \notin {"start", "done", "policyEnd"}
  BY DEF InBody, InPolicy
<1>2. p \in DOMAIN plan /\ d \in DOMAIN Policy.detectors /\ plan \in Plans \cup {<<>>}
  BY <1>1 DEF TypeInv, TypeOK, Position
<1>3. Slot \in Slots(plan) /\ p \in Nat /\ d \in Nat \ {0}
  BY <1>2, PolicyType DEF Slot, Policy
<1>4. ~FailedAsAWhole(p)
  BY <1>1 DEF Recorded, PolicyFailureEndsPolicy
<1>5. ASSUME NEW t \in Slots(plan), t[1] = p, ~(t[2] < d) PROVE t \notin Judged
  <2>1. ~Due(t)
    BY <1>1, <1>3, <1>5 DEF Due
  <2>2. t[2] # 0
    BY <1>5, SlotType
  <2> QED
    BY <1>1, <2>1, <2>2 DEF Ledger, Judged
<1>6. Slot \notin Judged /\ Slot[1] = p /\ Slot[2] = d
  BY <1>3, <1>5 DEF Slot
<1>7. VerdictOf(Slot) = "pending"
  BY <1>4, <1>6 DEF VerdictOf, Judged
<1>8. ASSUME NEW t \in Slots(plan), t[1] < p \/ (t[1] = p /\ t[2] < d) PROVE VerdictOf(t) # "pending"
  <2>1. Due(t)
    BY <1>1, <1>8 DEF Due
  <2>2. Accounted(t)
    BY <1>1, <2>1 DEF Progress
  <2> QED
    BY <2>2 DEF Accounted, Judged, VerdictOf
<1>9. \A t \in Slots(plan) : t[2] \in Nat
  BY SlotType
<1> QED
  BY <1>2, <1>3, <1>4, <1>5, <1>6, <1>7, <1>8, <1>9 DEF IsNext

\* What is due stays due.
Moves ==
    \/ UNCHANGED <<pc, p, d>>
    \/ Inside /\ Inside' /\ p' = p /\ d' \in {d, d + 1}
    \/ pc' = "policyEnd" /\ p' = p
    \/ pc = "policy" /\ p' = p
    \/ pc = "policyEnd" /\ p' = p + 1

LEMMA DueStays ==
    ASSUME TypeInv, Moves, UNCHANGED plan, NEW s \in Slots(plan), Due(s)
    PROVE  Due(s)'
<1>1. s[1] \in Nat /\ s[2] \in Nat /\ p \in Nat /\ d \in Nat
  BY SlotType DEF TypeInv, TypeOK
<1> QED
  BY <1>1 DEF Moves, Due, InPolicy, Inside

LEMMA LedgerKept ==
    ASSUME LedgerInv, pc \notin {"start", "done"}, Moves, UNCHANGED <<plan, findings, clear, failures>>
    PROVE  Ledger'
<1>1. \A s \in Slots(plan) : Due(s) => Due(s)'
  BY DueStays DEF LedgerInv, ProgressInv
<1>2. findings \subseteq Slots(plan) /\ clear \subseteq Slots(plan) /\ Judged' = Judged
  BY DEF LedgerInv, ProgressInv, TypeInv, TypeOK, Judged
<1> QED
  BY <1>1, <1>2 DEF LedgerInv, Ledger

\* A result or a failure is entered for the detector at hand, which had none.
LEMMA EntryKeepsLedger ==
    ASSUME LedgerInv, InBody, NEW s, s = Slot, UNCHANGED <<plan, p>>, Moves,
           pc' \notin {"start", "done"}, Due(s)',
           \/ findings' = findings \cup {s} /\ UNCHANGED <<clear, failures>>
           \/ clear' = clear \cup {s} /\ UNCHANGED <<findings, failures>>
           \/ /\ UNCHANGED <<findings, clear>>
              /\ \E f : failures' = failures \cup {f} /\ f.slot = s /\ f.mode = Policy.mode
    PROVE  Ledger'
<1>1. /\ s \in Slots(plan) /\ s[1] = p /\ s[2] # 0 /\ p \in DOMAIN plan
      /\ ~FailedAsAWhole(p) /\ s \notin Judged
  BY SlotIsNext DEF Slot
<1>2. \A t \in Slots(plan) : Due(t) => Due(t)'
  BY DueStays DEF LedgerInv, ProgressInv
<1>3. findings \subseteq Slots(plan) /\ clear \subseteq Slots(plan) /\ pc \notin {"start", "done"}
  BY DEF LedgerInv, ProgressInv, TypeInv, TypeOK, InBody
<1>4. Judged' = Judged \cup {s}
  BY DEF Judged
<1>5. \A t \in findings' \cup clear' : Due(t)'
  BY <1>2, <1>3 DEF LedgerInv, Ledger
<1>6. findings' \cap clear' = {} /\ s \notin findings /\ s \notin clear
  BY <1>1, <1>3 DEF LedgerInv, Ledger, Judged
<1>7. ASSUME NEW f \in failures
      PROVE  /\ f.slot[1] \in DOMAIN plan /\ f.mode = plan[f.slot[1]].mode
             /\ f.slot \notin findings' \cup clear'
             /\ IF f.slot[2] = 0
                THEN /\ f.scope = "policy"
                     /\ \E t \in Slots(plan) : t[1] = f.slot[1] /\ t \notin Judged'
                ELSE f.slot \in Slots(plan) /\ Due(f.slot)'
  <2>1. /\ f.slot[1] \in DOMAIN plan /\ f.mode = plan[f.slot[1]].mode
        /\ f.slot \notin findings \cup clear /\ f.slot # s
        /\ f.slot[2] = 0 => /\ f.scope = "policy"
                            /\ \E t \in Slots(plan) : t[1] = f.slot[1] /\ t \notin Judged
        /\ f.slot[2] # 0 => f.slot \in Slots(plan) /\ Due(f.slot)
    BY <1>1, <1>3 DEF LedgerInv, Ledger, Judged
  <2>2. f.slot[2] = 0 => f.slot[1] # p
    BY <1>1, <2>1 DEF FailedAsAWhole
  <2> QED
    BY <1>1, <1>2, <1>4, <2>1, <2>2
<1>8. CASE failures' = failures
  BY <1>5, <1>6, <1>7, <1>8 DEF Ledger
<1>9. CASE failures' # failures
  <2>1. PICK f : failures' = failures \cup {f} /\ f.slot = s /\ f.mode = Policy.mode
    BY <1>9
  <2>2. UNCHANGED <<findings, clear>>
    BY <1>9
  <2> QED
    BY <1>1, <1>5, <1>6, <1>7, <2>1, <2>2 DEF Ledger, Policy
<1> QED
  BY <1>8, <1>9

\* A failure of the policy before a detector leaves that one without an entry.
LEMMA ExpiryKeepsLedger == ASSUME LedgerInv, PolicyExpired PROVE Ledger'
<1>1. PICK f : /\ failures' = failures \cup {f} /\ f.slot = <<p, 0>> /\ f.mode = Policy.mode
               /\ f.scope = "policy"
  <2> DEFINE g == NewFailure(<<p, 0>>, "policy", "POLICY_TIMEOUT", Policy.timeout, TRUE, policyErr)
  <2>1. failures' = failures \cup {g}
    BY DEF PolicyExpired, Record
  <2>2. g.slot = <<p, 0>> /\ g.mode = Policy.mode /\ g.scope = "policy"
    BY DEF NewFailure
  <2> QED
    BY <2>1, <2>2
<1>2. /\ InBody /\ pc \notin {"start", "done"} /\ pc' = "policyEnd"
      /\ UNCHANGED <<plan, p, findings, clear>>
  BY DEF PolicyExpired, Record, InBody, inputs
<1>3. /\ Slot \in Slots(plan) /\ Slot[1] = p /\ p \in DOMAIN plan /\ d # 0
      /\ Slot \notin Judged
  BY <1>2, SlotIsNext DEF Slot
<1>4. \A t \in Slots(plan) : (Due(t) => Due(t)') /\ t[2] # 0
  BY <1>2, DueStays, SlotType DEF LedgerInv, ProgressInv, Moves
<1>5. findings \subseteq Slots(plan) /\ clear \subseteq Slots(plan)
  BY DEF LedgerInv, ProgressInv, TypeInv, TypeOK
<1>6. \A t \in Slots(plan) : t \notin Judged => t \notin Judged'
  BY <1>1, <1>2, <1>4 DEF Judged
<1>7. f.slot[1] = p /\ f.slot[2] = 0 /\ f.slot \notin findings \cup clear
  BY <1>1, <1>4, <1>5
<1>8. \E t \in Slots(plan) : t[1] = p /\ t \notin Judged'
  BY <1>3, <1>6
<1>9. /\ \A t \in findings \cup clear : Due(t)'
      /\ findings \cap clear = {}
  BY <1>2, <1>4, <1>5 DEF LedgerInv, Ledger
<1>10. ASSUME NEW g \in failures'
       PROVE  /\ g.slot[1] \in DOMAIN plan /\ g.mode = plan[g.slot[1]].mode
              /\ g.slot \notin findings \cup clear
              /\ IF g.slot[2] = 0
                 THEN /\ g.scope = "policy"
                      /\ \E t \in Slots(plan) : t[1] = g.slot[1] /\ t \notin Judged'
                 ELSE g.slot \in Slots(plan) /\ Due(g.slot)'
  <2>1. CASE g = f
    BY <1>1, <1>3, <1>7, <1>8, <2>1 DEF Policy
  <2>2. CASE g \in failures
    <3>1. /\ g.slot[1] \in DOMAIN plan /\ g.mode = plan[g.slot[1]].mode
          /\ g.slot \notin findings \cup clear
          /\ g.slot[2] = 0 => /\ g.scope = "policy"
                              /\ \E t \in Slots(plan) : t[1] = g.slot[1] /\ t \notin Judged
          /\ g.slot[2] # 0 => g.slot \in Slots(plan) /\ Due(g.slot)
      BY <1>2, <2>2 DEF LedgerInv, Ledger
    <3> QED
      BY <1>4, <1>6, <3>1
  <2> QED
    BY <1>1, <2>1, <2>2
<1> QED
  BY <1>2, <1>9, <1>10 DEF Ledger

\* The steps that leave the books alone inside a call.
Bookless ==
    /\ pc \notin {"start", "done"} /\ pc' \notin {"start", "done"} /\ Moves
    /\ UNCHANGED <<plan, findings, clear, failures, result>>

\* Every step of Evaluate, by what it does to the books.
LEMMA StepsOfTheBooks ==
    ASSUME TypeInv, [Next]_vars, pc # "done"
    PROVE  \/ Recorders \/ ResolvePolicies \/ RejectSelection \/ Respond
           \/ Abort /\ pc' = "done"
           \/ Bookless
           \/ UNCHANGED <<pc, p, d, plan, findings, clear, failures, result>>
<1> USE DEF inputs, contexts, locals, response, Bookless, Moves, Inside, InPolicy, InDetector
<1>1. CASE Start
  BY <1>1 DEF Start, AbortAtStart, Abort, Finish
<1>2. CASE PolicyLoop
  <2>1. CASE AbortBeforePolicy \/ Respond
    BY <2>1 DEF AbortBeforePolicy, Abort, Finish
  <2>2. CASE BeginPolicy \/ EndPolicy \/ DetectorsDone
    BY <2>2 DEF BeginPolicy, EndPolicy, DetectorsDone
  <2> QED
    BY <1>2, <2>1, <2>2 DEF PolicyLoop
<1>3. CASE DetectorLoop
  <2>1. CASE AbortBeforeDetector \/ AbortAfterDetector
    BY <2>1 DEF AbortBeforeDetector, AbortAfterDetector, Abort, Finish
  <2>2. CASE CheckCaller \/ PolicyStillRuns \/ EffectiveDetectorTimeout \/ ArmDetector
             \/ EnterExecutor \/ RejectResult
    BY <2>2 DEF CheckCaller, PolicyStillRuns, EffectiveDetectorTimeout, ArmDetector, EnterExecutor,
                RejectResult
  <2> QED
    BY <1>3, <2>1, <2>2 DEF DetectorLoop, Recorders
<1>4. CASE Executor
  BY <1>4 DEF Executor, ReturnResult, ReturnContextError, ReturnDetectorError, Returns
<1>5. CASE CancelCaller \/ Propagate \/ Timers \/ Tick \/ Terminated \/ UNCHANGED vars
  BY <1>5 DEF CancelCaller, Propagate, PropagateToPolicy, PropagateToDetector, Timers, PolicyTimer,
              DetectorTimer, Tick, Terminated, vars
<1> QED
  BY <1>1, <1>2, <1>3, <1>4, <1>5 DEF Next, Evaluate

LEMMA FailureKeepsLedger == ASSUME LedgerInv, HandleFailure PROVE Ledger'
<1>1. /\ failures' = failures \cup {DetectorFailure} /\ DetectorFailure.slot = Slot
      /\ DetectorFailure.mode = Policy.mode /\ pc = "failed"
      /\ UNCHANGED <<plan, p, findings, clear>>
      /\ \/ pc' = "policyEnd" /\ d' = d
         \/ pc' = "detector" /\ d' = d + 1
  <2>1. DetectorFailure.slot = Slot
    BY DetectorFailureType DEF HandleFailure, LedgerInv, ProgressInv
  <2>2. DetectorFailure.mode = Policy.mode
    BY DEF DetectorFailure, NewFailure
  <2> QED
    BY <2>1, <2>2 DEF HandleFailure, Handle, Record, inputs, Leave, Continue
<1>2. PICK f : f = DetectorFailure
  OBVIOUS
<1>3. PICK s : s = Slot
  OBVIOUS
<1>4. s[1] = p /\ s[2] = d /\ InBody /\ Moves /\ p \in Nat /\ d \in Nat
  BY <1>1, <1>3 DEF Slot, InBody, Moves, Inside, LedgerInv, ProgressInv, TypeInv, TypeOK
<1>5. Due(s)'
  BY <1>1, <1>4 DEF Due, InPolicy
<1> QED
  BY <1>1, <1>2, <1>3, <1>4, <1>5, EntryKeepsLedger

LEMMA ResultKeepsLedger == ASSUME LedgerInv, AcceptResult PROVE Ledger'
<1>1. /\ pc = "returned" /\ pc' = "detector" /\ d' = d + 1 /\ UNCHANGED <<plan, p, failures>>
      /\ \/ findings' = findings \cup {Slot} /\ clear' = clear
         \/ findings' = findings /\ clear' = clear \cup {Slot}
  BY DEF AcceptResult, inputs
<1>2. PICK s : s = Slot
  OBVIOUS
<1>3. s[1] = p /\ s[2] = d /\ InBody /\ Moves /\ p \in Nat /\ d \in Nat
  BY <1>1, <1>2 DEF Slot, InBody, Moves, Inside, LedgerInv, ProgressInv, TypeInv, TypeOK
<1>4. Due(s)'
  BY <1>1, <1>3 DEF Due, InPolicy
<1> QED
  BY <1>1, <1>2, <1>3, <1>4, EntryKeepsLedger

LEMMA LedgerStep == LedgerInv /\ [Next]_vars => Ledger'
<1> SUFFICES ASSUME LedgerInv, [Next]_vars PROVE Ledger'
  OBVIOUS
<1>1. CASE pc' = "done"
  BY <1>1 DEF Ledger
<1>2. CASE pc' # "done" /\ pc = "done"
  BY <1>2, DoneIsFinal DEF vars
<1>3. CASE pc' # "done" /\ pc # "done"
  <2>1. CASE Recorders
    BY <2>1, ResultKeepsLedger, ExpiryKeepsLedger, FailureKeepsLedger DEF Recorders
  <2>2. CASE ResolvePolicies
    <3>1. findings' = {} /\ clear' = {} /\ failures' = {}
      BY <2>2 DEF ResolvePolicies, response, LedgerInv, ProgressInv, TypeInv, Position
    <3> QED
      BY <3>1 DEF Ledger
  <2>3. CASE Bookless
    BY <2>3, LedgerKept DEF Bookless
  <2>4. CASE UNCHANGED <<pc, p, d, plan, findings, clear, failures, result>>
    <3>1. CASE pc = "start"
      BY <2>4, <3>1 DEF Ledger
    <3>2. CASE pc # "start"
      BY <1>3, <2>4, <3>2, LedgerKept DEF Moves
    <3> QED
      BY <3>1, <3>2
  <2>5. TypeInv
    BY DEF LedgerInv, ProgressInv
  <2> QED
    BY <1>3, <2>1, <2>2, <2>3, <2>4, <2>5, StepsOfTheBooks DEF RejectSelection, Respond, Finish
<1> QED
  BY <1>1, <1>2, <1>3

LEMMA SameVerdicts ==
    ASSUME UNCHANGED <<plan, findings, clear, failures>>
    PROVE  UNCHANGED verdicts
  BY DEF verdicts, VerdictOf, FailedAsAWhole

\* A failure of the policy at, or before, the detector at hand cuts the rest.
LEMMA PolicyFailureCuts ==
    ASSUME LedgerInv, InBody, NEW s, s = Slot, NEW f, failures' = failures \cup {f},
           f.scope = "policy", f.slot \in {s, <<p, 0>>},
           UNCHANGED <<plan, findings, clear, progress, delivered>>, progress = "evaluating"
    PROVE  Contract!Next
<1>1. /\ s \in Slots(plan) /\ s[1] = p /\ s[2] = d /\ p \in Nat /\ d \in Nat /\ d # 0
      /\ ~FailedAsAWhole(p) /\ IsNext(s) /\ s \notin Judged
      /\ \A t \in Slots(plan) : t[1] = p /\ d < t[2] => t \notin Judged
  BY SlotIsNext DEF Slot
<1>2. f.slot[1] = p /\ \A t \in Slots(plan) : t # s => t # f.slot
  <2>1. \A t \in Slots(plan) : t[2] # 0
    BY SlotType DEF LedgerInv, ProgressInv
  <2> QED
    BY <1>1, <2>1
<1>3. \A i : FailedAsAWhole(i)' <=> FailedAsAWhole(i) \/ i = p
  BY <1>2 DEF FailedAsAWhole
<1>4. VerdictOf(s)' \in {"failed", "cut"}
  BY <1>1, <1>3 DEF VerdictOf, Judged
<1>5. ASSUME NEW t \in Slots(plan), t # s
      PROVE  VerdictOf(t)' = IF t[1] = s[1] /\ s[2] < t[2] THEN "cut" ELSE VerdictOf(t)
  <2>1. t \in Judged' <=> t \in Judged
    BY <1>2, <1>5 DEF Judged
  <2>2. (t \in {g.slot : g \in failures'}) <=> (t \in {g.slot : g \in failures})
    BY <1>2, <1>5
  <2>3. CASE t[1] # p
    BY <1>1, <1>3, <2>2, <2>3 DEF VerdictOf
  <2>4. CASE t[1] = p /\ d < t[2]
    BY <1>1, <1>3, <2>1, <2>4 DEF VerdictOf, Judged
  <2>5. CASE t[1] = p /\ t[2] < d
    <3>1. VerdictOf(t) # "pending"
      BY <1>1, <2>5 DEF IsNext
    <3>2. t \in Judged
      BY <1>1, <2>5, <3>1 DEF VerdictOf, Judged
    <3>3. ~(s[2] < t[2])
      BY <1>1, <2>5, SlotType DEF LedgerInv, ProgressInv
    <3> QED
      BY <1>1, <1>5, <2>2, <3>2, <3>3 DEF VerdictOf, Judged
  <2>6. t[2] \in Nat /\ (t[1] = p => t[2] # d)
    BY <1>1, <1>5, SlotType DEF LedgerInv, ProgressInv
  <2> QED
    BY <1>1, <2>3, <2>4, <2>5, <2>6
<1> QED
  BY <1>1, <1>4, <1>5, ContractCuts

\* What has been recorded is what the contract's verdicts contribute.
LEMMA ContributionsAgree ==
    ASSUME LedgerInv, pc \notin {"start", "done"}
    PROVE  Contract!Contributions = Contributions
<1> DEFINE gives(s) ==
      CASE VerdictOf(s) = "match" -> plan[s[1]].action
        [] VerdictOf(s) \in {"failed", "cut"} -> FailureAction(plan[s[1]].mode)
        [] OTHER -> "allow"
<1>1. Contract!Contributions = {"allow"} \cup {gives(s) : s \in Slots(plan)}
  <2>1. \A s \in Slots(plan) : Contract!Contribution(s) = gives(s)
    BY SameDomain DEF Contract!Contribution
  <2>2. Contract!Contributions = {"allow"} \cup {Contract!Contribution(s) : s \in Slots(plan)}
    BY DEF Contract!Contributions
  <2> HIDE DEF gives
  <2> QED
    BY <2>1, <2>2
<1>2. /\ findings \subseteq Slots(plan) /\ clear \subseteq Slots(plan)
      /\ \A f \in failures :
            /\ f.slot[1] \in DOMAIN plan /\ f.mode = plan[f.slot[1]].mode
            /\ f.slot \notin findings \cup clear
            /\ IF f.slot[2] = 0
               THEN /\ f.scope = "policy"
                    /\ \E s \in Slots(plan) : s[1] = f.slot[1] /\ s \notin Judged
               ELSE f.slot \in Slots(plan)
  BY DEF LedgerInv, ProgressInv, TypeInv, TypeOK, Ledger
<1>3. ASSUME NEW s \in Slots(plan) PROVE gives(s) \in Contributions
  <2>1. CASE VerdictOf(s) = "match"
    <3>1. s \in findings
      BY <2>1 DEF VerdictOf
    <3> QED
      BY <2>1, <3>1 DEF Contributions
  <2>2. CASE VerdictOf(s) \in {"failed", "cut"}
    <3>1. \E f \in failures : f.slot[1] = s[1]
      BY <2>2 DEF VerdictOf, FailedAsAWhole
    <3>2. PICK f \in failures : f.slot[1] = s[1]
      BY <3>1
    <3>3. gives(s) = FailureAction(f.mode)
      BY <1>2, <2>2, <3>2
    <3> QED
      BY <3>3 DEF Contributions
  <2>3. CASE VerdictOf(s) \notin {"match", "failed", "cut"}
    BY <2>3 DEF Contributions
  <2> QED
    BY <2>1, <2>2, <2>3
<1>4. ASSUME NEW s \in findings PROVE plan[s[1]].action \in {gives(t) : t \in Slots(plan)}
  <2>1. VerdictOf(s) = "match" /\ s \in Slots(plan)
    BY <1>2, <1>4 DEF VerdictOf
  <2>2. gives(s) = plan[s[1]].action
    BY <2>1
  <2> QED
    BY <2>1, <2>2
<1>5. ASSUME NEW f \in failures PROVE FailureAction(f.mode) \in {gives(t) : t \in Slots(plan)}
  <2>1. PICK s \in Slots(plan) : s[1] = f.slot[1] /\ VerdictOf(s) \in {"failed", "cut"}
    <3>1. CASE f.slot[2] = 0
      <4>1. PICK s \in Slots(plan) : s[1] = f.slot[1] /\ s \notin Judged
        BY <1>2, <3>1
      <4>2. FailedAsAWhole(s[1])
        BY <1>2, <3>1, <4>1 DEF FailedAsAWhole
      <4>3. VerdictOf(s) = "cut"
        BY <4>1, <4>2 DEF VerdictOf, Judged
      <4> QED
        BY <4>1, <4>3
    <3>2. CASE f.slot[2] # 0
      <4>1. f.slot \in Slots(plan) /\ f.slot \notin findings \cup clear
        BY <1>2, <3>2
      <4>2. VerdictOf(f.slot) = "failed"
        <5>1. f.slot \in {g.slot : g \in failures}
          OBVIOUS
        <5> QED
          BY <4>1, <5>1 DEF VerdictOf
      <4> QED
        BY <4>1, <4>2
    <3> QED
      BY <3>1, <3>2
  <2>2. gives(s) = FailureAction(f.mode)
    BY <1>2, <2>1
  <2> QED
    BY <2>2
<1> HIDE DEF gives
<1> QED
  BY <1>1, <1>3, <1>4, <1>5 DEF Contributions

\* The decision is the one the contract chooses: priorities tell actions apart.
LEMMA DecisionIsTheContracts ==
    ASSUME LedgerInv, pc \notin {"start", "done"}
    PROVE  decision = Contract!Strongest(Contract!Contributions)
<1>1. /\ decision \in Contributions /\ Contributions \subseteq Action
      /\ \A c \in Contributions : ActionPriority(c) <= ActionPriority(decision)
  BY ContributionsType DEF LedgerInv, ProgressInv, DecisionIsStrongest
<1>2. \A a, b \in Action : ActionPriority(a) <= ActionPriority(b) /\ ActionPriority(b) <= ActionPriority(a)
                            => a = b
  BY DEF Action, ActionPriority
<1>3. Contract!Strongest(Contributions)
        = CHOOSE a \in Contributions : \A b \in Contributions : ActionPriority(b) <= ActionPriority(a)
  BY SameDomain DEF Contract!Strongest
<1>4. \A a \in Contributions :
        (\A b \in Contributions : ActionPriority(b) <= ActionPriority(a)) => a = decision
  BY <1>1, <1>2
<1> QED
  BY <1>1, <1>3, <1>4, ContributionsAgree

\* A step of Evaluate that records something judges a detector or cuts a policy
\* short.
LEMMA RecordersAreContracted == ASSUME LedgerInv, Recorders PROVE Contract!Next
<1>0. pc \in {"returned", "deadline", "failed"} /\ InBody /\ result = "none"
  BY DEF Recorders, AcceptResult, PolicyExpired, HandleFailure, InBody, LedgerInv, ProgressInv, Progress
<1>1. /\ pc' \in {"detector", "policyEnd"} /\ plan' = plan /\ result' = "none"
  BY <1>0
  DEF Recorders, AcceptResult, PolicyExpired, HandleFailure, Handle, Leave, Continue, inputs
<1>2. UNCHANGED <<plan, progress, delivered>> /\ progress = "evaluating"
  BY <1>0, <1>1 DEF progress, delivered
<1>3. PICK s : s = Slot
  OBVIOUS
<1>4. /\ IsNext(s) /\ s[1] = p /\ ~FailedAsAWhole(p) /\ s \notin Judged /\ s \in Slots(plan)
  BY <1>0, <1>3, SlotIsNext DEF Slot
<1>5. CASE AcceptResult
  <2>1. /\ failures' = failures
        /\ \/ findings' = findings \cup {s} /\ clear' = clear
           \/ findings' = findings /\ clear' = clear \cup {s}
    BY <1>3, <1>5 DEF AcceptResult
  <2>2. VerdictOf(s)' \in {"clear", "match", "failed"}
    BY <2>1 DEF VerdictOf
  <2>3. \A t \in Slots(plan) : t # s => VerdictOf(t)' = VerdictOf(t)
    BY <2>1 DEF VerdictOf, FailedAsAWhole
  <2> QED
    BY <1>2, <1>4, <2>2, <2>3, ContractJudges
<1>6. CASE PolicyExpired
  <2> DEFINE g == NewFailure(<<p, 0>>, "policy", "POLICY_TIMEOUT", Policy.timeout, TRUE, policyErr)
  <2>1. failures' = failures \cup {g} /\ UNCHANGED <<findings, clear>>
    BY <1>6 DEF PolicyExpired, Record
  <2>2. g.slot = <<p, 0>> /\ g.scope = "policy"
    BY DEF NewFailure
  <2> HIDE DEF g
  <2> QED
    BY <1>0, <1>2, <1>3, <2>1, <2>2, PolicyFailureCuts
<1>7. CASE HandleFailure
  <2>1. /\ failures' = failures \cup {DetectorFailure} /\ DetectorFailure.slot = s
        /\ UNCHANGED <<findings, clear>>
    BY <1>3, <1>7, DetectorFailureType DEF HandleFailure, Handle, Record, LedgerInv, ProgressInv
  <2>2. CASE DetectorFailure.scope = "policy"
    BY <1>0, <1>2, <1>3, <2>1, <2>2, PolicyFailureCuts
  <2>3. CASE DetectorFailure.scope # "policy"
    <3>1. \A i : FailedAsAWhole(i)' <=> FailedAsAWhole(i)
      BY <2>1, <2>3 DEF FailedAsAWhole
    <3>2. {f.slot : f \in failures'} = {f.slot : f \in failures} \cup {s}
      BY <2>1
    <3>3. VerdictOf(s)' \in {"clear", "match", "failed"}
      BY <3>2 DEF VerdictOf
    <3>4. \A t \in Slots(plan) : t # s => VerdictOf(t)' = VerdictOf(t)
      BY <2>1, <3>1, <3>2 DEF VerdictOf
    <3> QED
      BY <1>2, <1>4, <3>3, <3>4, ContractJudges
  <2> QED
    BY <2>2, <2>3
<1> QED
  BY <1>5, <1>6, <1>7 DEF Recorders

\* A response is delivered when nothing is pending, with the contract's decision.
LEMMA ResponseIsContracted ==
    ASSUME LedgerInv, [Next]_vars, Respond
    PROVE  Contract!Next
<1>1. /\ pc = "policy" /\ pc' = "done" /\ result = "none" /\ result' = "response"
      /\ UNCHANGED <<plan, findings, clear, failures, decision>>
  BY DEF Respond, Finish, inputs, LedgerInv, ProgressInv, Progress
<1>2. verdicts' = verdicts
  BY <1>1, SameVerdicts
<1>3. progress = "evaluating" /\ progress' = "delivered" /\ delivered' = decision
  BY <1>1 DEF progress, delivered
<1>4. \A s \in Slots(plan) : VerdictOf(s) # "pending"
  <2>1. NoDetectorSilentlySkipped'
    BY AccountStep DEF LedgerInv
  <2>2. \A s \in Slots(plan) : s \in Judged \/ FailedAsAWhole(s[1])
    BY <1>1, <2>1 DEF NoDetectorSilentlySkipped, Judged, FailedAsAWhole
  <2> QED
    BY <2>2 DEF VerdictOf, Judged
<1>5. decision = Contract!Strongest(Contract!Contributions)
  BY <1>1, DecisionIsTheContracts
<1>6. Contract!Deliver
  BY <1>1, <1>2, <1>3, <1>4, <1>5
  DEF Contract!Deliver, Contract!Pending, verdicts, progress, delivered
<1> QED
  BY <1>6 DEF Contract!Next

LEMMA ContractStep == LedgerInv /\ [Next]_vars => [Contract!Next]_(Contract!vars)
<1> SUFFICES ASSUME LedgerInv, [Next]_vars PROVE Contract!Next \/ UNCHANGED Contract!vars
  OBVIOUS
<1>1. CASE pc = "done"
  <2>1. UNCHANGED <<pc, plan, findings, clear, failures, result, decision>>
    BY <1>1, DoneIsFinal DEF vars, inputs, response
  <2>2. UNCHANGED <<plan, verdicts, progress, delivered>>
    BY <2>1, SameVerdicts DEF progress, delivered
  <2> QED
    BY <2>2, ContractStutters
<1>2. CASE pc # "done"
  <2>0. result = "none" /\ delivered = "none" /\ progress \in {"asked", "evaluating"}
    BY <1>2 DEF LedgerInv, ProgressInv, Progress, progress, delivered
  <2>1. CASE Recorders
    BY <2>1, RecordersAreContracted
  <2>2. CASE Respond
    BY <2>2, ResponseIsContracted
  <2>3. CASE ResolvePolicies
    <3>1. /\ plan' \in Plans /\ findings' = {} /\ clear' = {} /\ failures' = {}
          /\ pc = "start" /\ pc' = "policy" /\ result' = result
      BY <2>3 DEF ResolvePolicies, response, LedgerInv, ProgressInv, TypeInv, Position
    <3>2. verdicts' = [s \in Slots(plan') |-> "pending"]
      BY <3>1 DEF verdicts, VerdictOf, FailedAsAWhole
    <3>3. progress = "asked" /\ progress' = "evaluating" /\ delivered' = delivered
      BY <2>0, <3>1 DEF progress, delivered
    <3> QED
      BY <3>1, <3>2, <3>3, ContractResolves
  <2>4. CASE RejectSelection
    <3>1. /\ pc = "start" /\ pc' = "done" /\ result' = "rejected"
          /\ UNCHANGED <<plan, findings, clear, failures>>
      BY <2>4 DEF RejectSelection, Finish, inputs, response
    <3>2. progress = "asked" /\ progress' = "refused" /\ delivered' = delivered
      BY <2>0, <3>1 DEF progress, delivered
    <3> QED
      BY <3>1, <3>2, SameVerdicts, ContractRefuses
  <2>5. CASE Abort /\ pc' = "done"
    <3>1. /\ pc' = "done" /\ result' = "aborted" /\ UNCHANGED <<plan, findings, clear, failures>>
      BY <2>5 DEF Abort, Finish, inputs, response
    <3>2. progress' = "abandoned" /\ delivered' = delivered
      BY <2>0, <3>1 DEF progress, delivered
    <3> QED
      BY <2>0, <3>1, <3>2, SameVerdicts, ContractAbandons
  <2>6. CASE Bookless \/ UNCHANGED <<pc, p, d, plan, findings, clear, failures, result>>
    <3>1. UNCHANGED <<plan, findings, clear, failures, result>> /\ (pc' = "start" <=> pc = "start")
      BY <2>6 DEF Bookless
    <3>2. UNCHANGED <<progress, delivered>>
      BY <2>0, <3>1 DEF progress, delivered
    <3> QED
      BY <3>1, <3>2, SameVerdicts, ContractStutters
  <2> QED
    BY <1>2, <2>1, <2>2, <2>3, <2>4, <2>5, <2>6, StepsOfTheBooks DEF LedgerInv, ProgressInv
<1> QED
  BY <1>1, <1>2

LEMMA ContractInit == Init => Contract!Init
<1> SUFFICES ASSUME Init PROVE Contract!Init
  OBVIOUS
<1>1. plan = <<>> /\ result = "none" /\ pc = "start"
  BY DEF Init
<1>2. Slots(plan) = {}
  BY <1>1 DEF Slots
<1>3. verdicts = <<>>
  BY <1>2 DEF verdicts
<1>4. progress = "asked" /\ delivered = "none"
  BY <1>1 DEF progress, delivered
<1> QED
  BY <1>1, <1>3, <1>4 DEF Contract!Init, verdicts, progress, delivered

\* For every plan, executor and clock, a call of Evaluate is a behaviour of its
\* contract: one verdict per detector, in order, and the strongest decision.
THEOREM EvaluateKeepsItsContract == Spec => ImplementsContract
<1>1. Init => LedgerInv
  <2>1. Init => ProgressInv /\ Ledger
    BY TypeInit DEF Init, ProgressInv, Progress, NoDetectorSilentlySkipped, Ledger
  <2>2. Init => Recorded /\ DecisionIsStrongest
    BY DEF Init, Recorded, PolicyFailureEndsPolicy, FailedAsAWhole, DecisionIsStrongest,
           Contributions, ActionPriority
  <2> QED
    BY <2>1, <2>2 DEF LedgerInv
<1>2. LedgerInv /\ [Next]_vars => LedgerInv'
  BY TypeStep, ProgressStep, AccountStep, RecordedStep, DecisionStep, LedgerStep
  DEF LedgerInv, ProgressInv, RecordedInv, DecisionInv
<1>3. Init => Contract!Init
  BY ContractInit
<1>4. LedgerInv /\ [Next]_vars => [Contract!Next]_(Contract!vars)
  BY ContractStep
<1> QED
  BY <1>1, <1>2, <1>3, <1>4, PTL DEF Spec, ImplementsContract, Contract!Spec
=============================================================================
