---------------------------- MODULE MCEvaluator -----------------------------
(***************************************************************************)
(* Instances of Evaluator for TLC.                                          *)
(***************************************************************************)
EXTENDS Evaluator

Det(t, r) == [timeout |-> t, replaces |-> r]
Pol(name, act, fm, t, ds) ==
    [id |-> name, action |-> act, mode |-> fm, timeout |-> t, detectors |-> ds]

\* A redacting policy that fails open, with a detector that may time out on
\* its own and one bound by the policy; then one that monitors its failures.
RedactThenMonitor ==
    << Pol("pii@1", "redact", "open", 2, <<Det(1, TRUE), Det(2, TRUE)>>),
       Pol("topics@1", "monitor", "monitor", 1, <<Det(1, FALSE)>>) >>

\* The default mode: a failure blocks, over and above what a match does.
MonitorThenBlock ==
    << Pol("limits@1", "monitor", "closed", 1, <<Det(1, FALSE), Det(1, FALSE)>>),
       Pol("secrets@1", "block", "open", 1, <<Det(1, TRUE)>>) >>

\* A matching allow policy changes nothing; a policy without detectors.
AllowOnly ==
    << Pol("tags@1", "allow", "open", 2, <<Det(1, TRUE)>>),
       Pol("empty@1", "block", "closed", 1, <<>>) >>

AllPlans == {RedactThenMonitor, MonitorThenBlock, AllowOnly, <<>>}

\* One policy, for the executors behind the port.
PortPlans ==
    { << Pol("remote@1", "monitor", "closed", 2, <<Det(1, FALSE), Det(2, FALSE)>>) >> }

NoErrors == {}
PortErrors == {[code |-> "DETECTOR_UNAVAILABLE", retryable |-> TRUE],
               [code |-> "POLICY_TIMEOUT", retryable |-> FALSE],
               [code |-> "unmapped", retryable |-> TRUE]}
=============================================================================
