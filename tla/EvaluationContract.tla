------------------------- MODULE EvaluationContract -------------------------
(***************************************************************************)
(* What Evaluate promises its caller, without contexts, clocks or loops:    *)
(* every detector of the resolved plan gets one verdict, in plan order; a   *)
(* policy may be cut short, and then none of its later detectors is judged; *)
(* a response is delivered only when nothing is pending, and its decision   *)
(* is the strongest of what the verdicts contribute.  A caller may get no   *)
(* response at all (rejected selection, cancellation).                      *)
(***************************************************************************)
EXTENDS Domain

CONSTANT Plans

VARIABLES
    plan,     \* the resolved policies
    verdict,  \* what is known of each slot
    status,   \* of the call
    answer    \* the decision delivered, or "none"

vars == <<plan, verdict, status, answer>>

Verdict == {"pending", "clear", "match", "failed", "cut"}

\* Slot s comes before slot t.
Before(s, t) == s[1] < t[1] \/ (s[1] = t[1] /\ s[2] < t[2])

Pending(s) == verdict[s] = "pending"

Contribution(s) ==
    CASE verdict[s] = "match"            -> plan[s[1]].action
      [] verdict[s] \in {"failed","cut"} -> FailureAction(plan[s[1]].mode)
      [] OTHER                           -> "allow"

Contributions == {"allow"} \cup {Contribution(s) : s \in DOMAIN verdict}

Strongest(actions) ==
    CHOOSE a \in actions : \A b \in actions : ActionPriority(b) <= ActionPriority(a)

Init == plan = <<>> /\ verdict = <<>> /\ status = "asked" /\ answer = "none"

Resolve ==
    /\ status = "asked"
    /\ plan' \in Plans
    /\ verdict' = [s \in Slots(plan') |-> "pending"]
    /\ status' = "evaluating"
    /\ UNCHANGED answer

\* A detector is judged once everything before it has been.
Judge ==
    /\ status = "evaluating"
    /\ \E s \in DOMAIN verdict, v \in {"clear", "match", "failed"} :
        /\ Pending(s) /\ \A t \in DOMAIN verdict : Before(t, s) => ~Pending(t)
        /\ verdict' = [verdict EXCEPT ![s] = v]
    /\ UNCHANGED <<plan, status, answer>>

\* The policy fails as a whole before slot s, or at it: its first pending
\* detector may be the one that failed, the rest are never judged.
CutShort ==
    /\ status = "evaluating"
    /\ \E s \in DOMAIN verdict, v \in {"failed", "cut"} :
        /\ Pending(s) /\ \A t \in DOMAIN verdict : Before(t, s) => ~Pending(t)
        /\ verdict' = [t \in DOMAIN verdict |->
                          IF t = s THEN v
                          ELSE IF t[1] = s[1] /\ Before(s, t) THEN "cut"
                          ELSE verdict[t]]
    /\ UNCHANGED <<plan, status, answer>>

Deliver ==
    /\ status = "evaluating" /\ \A s \in DOMAIN verdict : ~Pending(s)
    /\ status' = "delivered"
    /\ answer' = Strongest(Contributions)
    /\ UNCHANGED <<plan, verdict>>

Abandon ==
    /\ status \in {"asked", "evaluating"}
    /\ status' = "abandoned"
    /\ UNCHANGED <<plan, verdict, answer>>

Refuse ==
    /\ status = "asked"
    /\ status' = "refused"
    /\ UNCHANGED <<plan, verdict, answer>>

Next == Resolve \/ Judge \/ CutShort \/ Deliver \/ Abandon \/ Refuse

Spec == Init /\ [][Next]_vars
=============================================================================
