# ThinkPixelGR: TLA+ models, checks and proofs

ThinkPixelGR is an HTTP service that evaluates a piece of content against the
guardrail policies of a tenant: it resolves which policies apply, runs their
detectors under deadlines, aggregates findings and failures into one decision
(`allow`, `monitor`, `redact`, `block`), and redacts the content if that is the
decision. This directory holds its TLA+ models, the TLC configurations that
check them on small instances, and the TLAPS proofs of their main properties.

Run a check with `tlc -config Evaluator.cfg MCEvaluator.tla`, a proof with
`tlapm EvaluatorProofs.tla`. `PROJECT.json` lists the runs, the source lines each
definition stands for, the hazards and the properties aimed at them, and for each
property a fault it detects.

## Inventory

| Component (source) | State | Operations | Correct when |
|---|---|---|---|
| Evaluator (`internal/engine/evaluator.go` 79-260) | the response being built, three nested contexts and their timers, the loop indices | `Evaluate`, with `effectiveDetectorTimeout`, `detectorFailure`, `applyFailureDecision`, `durationMilliseconds` | the decision is the strongest contribution; no detector is passed over in silence; timeouts are reported when they happened and blamed on the right deadline; a cancelled caller gets no decision; every call returns |
| Redaction (`evaluator.go` 498-558) | the content's strings, shared in part with the request | `applyReplacements`, `transformJSONStrings` | splices stay in range and hit what the detector meant; nothing else changes; no match survives; the request is left alone |
| Resolution (`internal/policy/resolver.go` 207-254) | compiled policies, profiles, tenants (immutable after start) | `Resolve`, `PolicyIDs` | mandatory policies cannot be dropped, none is applied twice, none ignored |
| Compilation (`resolver.go` 36-205) | the same, while starting | `NewResolver` | what it accepts is what the evaluator relies on: positive timeouts, detector deadline within the policy's, redacting policies only with detectors that replace |
| Built-in detectors (`evaluator.go` 262-496, 560-737) | none | six kinds: regex, keywords, limits, allow/deny, JSON Schema, secrets | spans point at what matched; none is lost, reported twice or under another string's path; limits are exact at their thresholds; deny wins; values that are absent are treated as documented |
| HTTP handlers (`internal/api/http/handler.go`) | per request | `evaluate`, `policies`, `metrics`, `health`, `requireAuthentication`, `observeHTTP` | each outcome is counted, audited once and answered, in that order |
| Observability (`internal/observability/observability.go`) | counters and histograms under one mutex; trace contexts | `RecordEvaluation`, `RecordHTTP`, `RecordAudit`, `writeMetrics`, `ContinueTrace`, `StartSpan`, `End` | a scrape is a consistent snapshot; nobody waits for ever for the mutex; every span ends once, in the trace of its request |
| Authentication (`internal/auth/auth.go`) | token digests (immutable) | `NewStaticBearer`, `Authenticate`, four `Authorize...` | capabilities are independent; nothing is evaluated for a tenant out of scope |
| Configuration, startup (`internal/config/config.go`, `cmd/thinkpixelgr/main.go`) | the loaded configuration | `Load`, `main` | it starts only with what the other components rely on |
| Remote detector protocol (`api/detector/v1`) | - | a schema and an OpenAPI contract, no Go code calls it | - |

**How they interact.** One goroutine per request runs handler, authentication,
`Evaluate` (which calls `Resolve`, the detectors through the `detectorExecutor`
port, and `applyReplacements`), then the recorders and the response. The caller's
context reaches `Evaluate`; every policy derives a context with a deadline from it
and every detector one from the policy's. Goroutines share only the metrics mutex,
the immutable configuration and the process logger.

**What is hard.** Inside `Evaluate`: a cancellation, a deadline or a late result
between any two reads of a context; failures of one detector among several; order
of contributions. In the redaction: overlapping and out-of-range spans, aliasing.
In the resolver: overlapping lists. In the detectors: offsets that
are computed in one string and used in another, and paths that have to tell values apart
whatever their keys contain. Across requests: the mutex is held while a
scrape writes to its client, and counter, audit event and response are separate
steps, and each way out of `Evaluate` has its own spans to end. `PROJECT.json` lists these as hazards, each at its line.

## Modules

| Module | Models |
|---|---|
| `Domain` | vocabulary: actions and priorities, failure modes, scopes and codes, compiled policies |
| `EvaluationContract` | abstract specification: what `Evaluate` promises, without contexts, clocks or loops |
| `Evaluator` | `Evaluate`, one action per step between two reads of shared state |
| `MCEvaluator` | plans and executors for TLC |
| `EvaluatorProofs` | theorems about how `Evaluator` decides and handles failures and what a call says: reason, content, detectors, timeouts; that `Evaluator` implements `EvaluationContract` |
| `PolicyResolver`, `MCPolicyResolver`, `PolicyResolverProofs` | `Resolve`, its instance, its theorems |
| `Redaction`, `MCRedaction`, `RedactionProofs` | `applyReplacements`, its instance, its theorems |
| `Service`, `MCService`, `ServiceProofs` | concurrent requests: routing, authentication, handlers, recorders and scrapes; its instance, its theorems |
| `Content`, `ContentProofs` | JSON documents, the paths that name their values, and JSON Pointers; theorems about both notations |
| `Detectors`, `MCDetectors`, `DetectorsProofs` | `evaluateDetector`: the six kinds of built-in detectors on one request, over `Content`; its instances, its theorems |
| `Trace`, `MCTrace`, `TraceProofs` | the spans of concurrent requests, in the handler and in `Evaluate`; its instance, its theorems |
| `Startup`, `MCStartup`, `StartupProofs` | `Load`, `NewStaticBearer` and `NewResolver` in the order of `main`; its instance, its theorems |

### Evaluator

The code is sequential, so `pc` is the point `Evaluate` has reached, `p` and `d` are
the two loop indices, and the other variables are its locals: `callerErr`,
`policyErr` and `detectorErr` are the `Err()` of the three contexts, `timer` is the
time at which the detector context's own timer fires (`NoTimer` when its deadline is
after the policy's and the context package creates no timer), `scope` and `timeout`
are the results of `effectiveDetectorTimeout`, `outcome` is what the executor
returned, and `decision` to `transformed` are the fields of the response. `clear`,
and the fields `cause`, `at` and `ran` of a failure, are history: they are written
and never read by an action.

Each `if err := ctx.Err()` is a pair of actions of its own (`AbortBeforeDetector` /
`CheckCaller`, `PolicyExpired` / `PolicyStillRuns`), because the environment may act
between any two of them: `CancelCaller`, `PropagateToPolicy`, `PropagateToDetector`
(the context package sets a context's error before its children's),
`PolicyTimer`, `DetectorTimer` and `Tick`. A failure is handled in one action
(`HandleFailure`), which includes the append, the failure decision, and the break or
continue that follows.

The executor is a nondeterministic choice. `Cooperative = TRUE` is the built-in one,
which looks at its context again before it returns a result; `Cooperative = FALSE`
with `ExecutorErrors` is any implementation of the port: results after the deadline,
typed errors, and codes it is not entitled to. A typed error wraps no context error.

`PolicyConfig` is what `NewResolver` lets through. `plan` is chosen from `Plans` when
`Resolve` returns.

Time is in ticks since the start of the current policy (the code only uses
differences); `TicksPerMs = 2` makes a timeout below a millisecond expressible, which
is where `durationMilliseconds` matters.

### PolicyResolver

`ids` grows by one action per list; the loop over it is `SkipSeen`, `LookUp`,
`UnknownPolicy`, `Return`. A policy is its canonical id, and `config.policies` maps it
to its stages. Configurations `NewResolver` refuses (an unknown platform policy) are
filtered in `Init`.

### Redaction

Strings are visited one after the other (`q`); for each: `Sort`, `Select` per item,
`Splice` per selected item from the right, `Store`. A byte stands for its own
position in the original string, so the final string shows which bytes survived and
in which order; replacement values are negative numbers. `Sort` admits any
permutation `sort.Slice` may return. `InPlace` names the strings whose storage is
shared with the request (messages; the text is a field of a copied struct and the
data is rebuilt).

### Service

Every request is a goroutine of its own, so every action takes the request `r` that
runs it, and `pc[r]` is the point its handler has reached:

    arrived -> handle -> evaluating -> record -> count -> observe -> audit -> answer -> answered -> done
                    \-> writeRequests -> writeEvaluations -> writeLatency ---------------/

with the refusals of the code leading to `record`, `audit` or `answer` according to
which of a counter, an audit event and an answer the code gives them. `mu` is the mutex of
`observability.Service`. `RecordEvaluation` is three actions (`LockToRecord`, `Count`,
`ObserveLatency`) and a scrape four, one per section that other goroutines could
disturb without the mutex; `RecordHTTP`, a single increment under the mutex, is one.
`ByToken` is what `NewStaticBearer` built, `Who(r)` the principal in the context.
`gone` holds the requests whose context is done.

`Evaluate` is two actions: `CallEvaluate` and `EvaluateReturns`, whose result is one of
the ends `EvaluationContract` allows: a response, a refused selection, or an abort,
which takes a caller that has left. Counters by finding, failure, detector and label
are left out: they are written inside the same critical section as the latency. The
405 of the router is left out too: such a request is answered at once, like one on an
unknown path. `evaluated` is history.

### Startup

`pc` is `load`, `authenticate` (when enabled), `compile` / `detectors`, `profiles`, and then
`listening` or `exited`; `i` and `j` are the loop indices. `loaded` is the configuration as `Load` leaves
it, `byToken` the map of `NewStaticBearer`, `building` the policy `NewResolver` is compiling,
`policies` and `profiles` the maps it fills. Each iteration of a loop is an action that accepts its item with
all its defaults, or one that refuses the whole configuration; which error is reported is left
out. A timeout is a number, left out, or unreadable. A detector has the set of kinds it
configures, and settings: numbers (limits, entropy bounds), values (lists, types of secrets),
what it selects, and whether the library compiles its pattern or schema; `SettingsPass` is the
switch over the kinds with their four validations. `NewResolver` still
treats a zero timeout as one left out, as the code does, though `Load` leaves no policy with
one.

`ValidSource` says the same rules over the file as a whole, without loops, defaults or maps;
`ExactlyTheValidStart` compares the two.

### Content and Detectors

A JSON value is a function from locations (sequences of keys and indices) to what is there, so
`visitJSONStrings` and `transformJSONStrings` are the set of its string locations, each with
its `Path`; a key is a sequence of words, digits and punctuation, and `KeyPiece` decides
between a dot and a quoted key as the code does. `Escape` is what the schema validator does to
the keys of a pointer, `PointerJSONPath` what the code makes of it.

`detector` and `request` are the input, `n` counts the strings that have been visited and
`findings` grows with each (`VisitText` for regular expressions and keywords, `ScanString` for
secrets); the other kinds look at the request once (`EvaluateRequestLimits`,
`EvaluateAllowDeny`, `EvaluateJSONSchema`). A character has a width in bytes, and a lower case
that may have another one; `MatchKeyword` searches bytes. The regular expressions (`FindAll`),
`EqualFold` by character (`Fold`) and the entropy of a string (`Entropy`) are constants; the
validator's answer, a tree of errors, is part of the request. The order of an object's keys is
any fixed one.

What the evaluator does with a finding is in `Evaluator`; with a span, in `Redaction`: the
code gives every span of a text to both, so `SpansBelongToTheirString` says that the
redaction, which groups spans by path, gets for each string those found in it.

### Trace

`pc[r]` is where the request's goroutine is between two calls of the tracer: `Arrive`
(`ContinueTrace`, `StartSpan`, the answer's header), the spans of `Evaluate` on each way out
(`Abandon`, `ResolutionFails`, `DetectorIsCancelled`, `EvaluateReturns`), the span of the
audit, and `HandlerReturns`. `server`, `evaluation` and `current` are the spans the code holds
in its variables, `open` those started and not ended, `log` the lines written by `End`. An id
is `<<r, n>>`, the n-th that request `r` draws; `rand.Read` does not fail in the Go version the
module requires, so the counter it falls back on is left out. What `Evaluate` decides is left
open, how long anything takes and the flags of a `traceparent` are left out, and the log level
is the one at which spans are written (debug).

## Checks

| Run | Instance | Shows |
|---|---|---|
| `evaluator` | four plans, built-in executor | the eight safety properties of `Evaluator`, that it implements `EvaluationContract`, and that it terminates |
| `evaluator_port` | one policy, two detectors, arbitrary executor | types, `TimeoutsAreReal`, `LateResultsNeverCount` |
| `evaluator_cancel` | as `evaluator` | **violated**: a caller's cancellation can be handled as a policy timeout |
| `resolver` | every combination of 7 platform, 7 tenant, 3 profile and 7 request lists, 3 stages | the four properties of the resolver |
| `redaction` | every list of up to three spans in a text of three bytes, and a message | `SpliceOffsetsHold`, `OnlyMatchesAreTouched`, `NoMatchSurvivesWhole` |
| `redaction_overlap` | the same | **violated**: the tail of an overlapping match survives |
| `redaction_in_place` | the same | **violated**: messages of the request are overwritten |
| `service` | six workloads of three concurrent requests; principals scoped to one tenant, to all tenants, and to requests without tenant | the four safety properties of `Service`, and that every request ends |
| `startup` | 2386 configurations: pairs of detectors (12 of them) under three policy deadlines and two actions; every kind with settings at the edge of its validation; profiles with one id and with two; pairs of policies (9) under three platform lists; up to two principals (8) | the four properties of `Startup` |
| `detectors` | all six kinds, 11681 pairs of a detector and a request | the six properties of `Detectors` against reference definitions |
| `keyword_offsets` | the same | **violated**: offsets in the lower-cased string are not offsets in the content |
| `trace` | two requests, one with a caller's trace, up to two detectors each | the four properties of `Trace` |

### The four violations

* *Cancellation as a timeout.* `evaluator.go:115` reads the caller's context, line 119
  the policy's. If the cancellation arrives between them, line 119 records a
  `POLICY_TIMEOUT`, applies the failure mode and leaves the loop; if this was the last
  policy, a response with that decision is returned, where
  `docs/contracts/evaluation-api-v1.md:107-110` says that cancellation aborts
  evaluation instead. The check after a detector (line 138) has no such gap:
  `DetectorFailuresAreNotCancellations` is checked and proved.
* *Overlapping matches.* `evaluator.go:517` drops a match that starts inside the one
  before it. With matches `[0,2)` and `[1,3)` byte 2 stays.
  `docs/contracts/deterministic-detectors-v1.md:78-80` says matches are replaced.
  What does hold is weaker: `NoMatchSurvivesWhole`.
* *In place.* `evaluator.go:531` writes into the array of messages that the copied
  envelope shares with the request; the same paragraph says the request is not
  mutated. Text and data are copied.

* *Keyword offsets.* `resolver.go:262` searches the lower-cased string when case is ignored,
  and its offsets are reported as they are. In a text with a character whose lower case has
  another length (U+0130: two bytes and one) before the keyword, the span does not begin where
  the keyword does, where `docs/contracts/deterministic-detectors-v1.md:78` promises byte
  offsets; a redaction replaces other bytes. `SpliceOffsetsHold` says it stays in range.

### A document without a run

The code lets an allowlist of MIME types hold the empty type (`resolver.go:153-163` looks only
at its length). An attachment without a type is selected with the empty one
(`evaluator.go:595-597`), so with such a list it is admitted, where
`docs/contracts/deterministic-detectors-v1.md:43-44` says it violates a configured allowlist.
The proof of `LimitsAreExact` stopped at this case; the property says what the code does.

### Bounds

* `Overrun = 1`: the evaluator may run one tick past a policy's deadline. All the code
  asks of the clock is on which side of a deadline it is, so one tick past is enough
  to be late for the policy, for the detector, or for both.
* Policies have at most two detectors and timeouts of one or two ticks: enough for a
  detector deadline before, at, and (through time that passes between lines 126 and
  127) after the policy's. Two policies per plan let either one's contribution come
  first; the plans cover every action and every failure mode, an empty policy and an
  empty plan.
* The redaction has up to three spans because a third is the first that can be
  compared with a selected one after a dropped one.
* The resolver's lists have at most two ids, over three known ids and an unknown one:
  each list can repeat an id, share one with every other list, and name an unknown id
  before or after a known one.
* The service has three requests at a time: a scrape, an evaluation that disturbs it,
  and one more that makes them wait. The six workloads cover each kind of refusal and
  each combination of capabilities that the handlers tell apart; `ClientLeaves` may
  happen to any request at any time.
* The configurations of `startup` have at most two policies, two detectors and two
  principals: two is where duplicates, shared tokens, and a refusal after an accepted
  item appear. Each reason to refuse occurs alone and next to every other.

* Keywords are searched in every text of up to four characters out of two letters, a capital
  and the dotted one: four characters hold a match that overlaps itself and one after it.
  Data has two strings, at every pair of places out of keys with dots, brackets, quotes,
  backslashes and digits, alone and below another key or an index: two is the number that can
  collide. Limits are at, below and above each measure; schema errors lie below every pair of
  keys made of tildes, slashes, digits and signs.
* Two requests are enough for a trace to be mixed up with another's, two detectors for a span
  to be started in that of the one before.

### Fairness

`Spec` of `Evaluator` assumes weak fairness of the evaluator's own steps (a goroutine
that can run does), of the two propagations and the two timers (the context package)
and of the clock. Of an executor it assumes one thing: it returns once its context is
done, which the built-in one does after each detector. Nothing is assumed of the
caller. `EvaluationTerminates` needs all of it: without propagation from the policy's
context to the detector's, a detector without a timer of its own never returns.

`Spec` of `Service` assumes weak fairness of every handler: its goroutine runs,
`Evaluate` returns (which `EvaluationTerminates` shows), a free mutex is granted to one of
those that wait, and a write to a client ends, at the latest with the server's
`WriteTimeout` (`cmd/thinkpixelgr/main.go`). No client has to leave.

## Proofs

Each theorem is `Spec => []P` for the invariant `P`, except the refinement, the action
property `LateResultsNeverCount`, and those of `ContentProofs`, which are about operators.

| Theorem | Property | Rests on |
|---|---|---|
| *EvaluatorProofs* | | |
| `TypeCorrect` | `TypeOK` | the loop indices inside the plan (`d` is a detector of policy `p` wherever the code uses it) and the kind of outcome at each `pc` |
| `DecisionIsAlwaysStrongest` | `DecisionIsStrongest` | a lemma on `Stronger`: it returns one of its arguments and is at least as strong as both |
| `PolicyFailureIsFinal` | `PolicyFailureEndsPolicy` | failures recorded so far belong to policies already begun |
| `DetectorFailuresAreTheirOwn` | `DetectorFailuresAreNotCancellations` | an error travels down: a cancelled detector context, or outcome, implies a cancelled caller |
| `ReasonAlwaysExplains` | `ReasonExplainsDecision` | without a reason the decision is to allow (`ReasonInv`); a contribution that does not beat the decision leaves both |
| `RedactionIsAlwaysComplete` | `RedactionIsComplete` | `replacements` is what the redacting policies found so far (`RedactionInv`) |
| `NoDetectorIsSkipped` | `NoDetectorSilentlySkipped` | every detector before the loop's indices has been accounted for, and accounts are never taken back (`ProgressInv`) |
| `TimeoutsAreAlwaysReal` | `TimeoutsAreReal` | a context's error "deadline" implies that its deadline, or its parent's, has passed (`ClockInv`) |
| `EvidenceIsPositive` | `TimeoutEvidenceIsPositive`, assuming `ExecutorErrors = {}` | the same, and a lemma on `durationMilliseconds`; a typed error of another executor may report nothing |
| `LateResultsAreDropped` | `LateResultsNeverCount` | only `AcceptResult` adds to what was found, whatever the executor does |
| `EvaluateKeepsItsContract` | `Spec => ImplementsContract` | each step of `Evaluator` that records something is one step of `EvaluationContract`, on the next detector (`LedgerInv`); all others stutter |
| *PolicyResolverProofs* | | |
| `PoliciesAreDistinct` | `NoPolicyTwice` | what is resolved has been seen |
| `ResolutionIsComplete` | `NothingIgnored` | of the first `k - 1` ids all are known, and those of the stage are resolved |
| `MandatoryComeFirst` | `MandatoryFirst` | `ids` is the lists so far, the mandatory ones in front, and the loop keeps their order |
| `PlatformIsAlwaysKnown` | `PlatformNeverRejects` | the first id that is unknown is no platform policy |
| *RedactionProofs* | | |
| `SplicesAreSafe` | `SpliceOffsetsHold` | selected spans are disjoint and ordered, and the string is untouched before the end of the next one to splice |
| `NoMatchIsLeftWhole` | `NoMatchSurvivesWhole` | whatever was dropped starts inside a span that is selected (`Choosing`, which needs the sort); of a spliced span no byte is left, because what a splice keeps is before its start or after its end (`Gone`) |
| `OnlyMatchesChange` | `OnlyMatchesAreTouched` | the bytes outside the spliced spans are still there in their order, and what else there is was put there by a splice; a filter is known by the order in which it keeps what passes |
| *ServiceProofs* | | |
| `ScrapesAreConsistent` | `ScrapeIsConsistent` | the mutex is held by exactly the request in a critical section; the two counters of an evaluation differ only between its two increments; the section a scrape has written is still true when it writes the next |
| `ScopesAreRespected` | `NothingOutOfScope` | where a request is says that it was let in |
| `NoAnswerUnaudited` | `AuditedBeforeAnswered` | where a request is, and its error code, say what is in the audit log for it (`AuditInv`) |
| `AnswersAreCounted` | `AnswersWereCounted` | each counter is the cardinality of the requests past it, and the answered are among the evaluated (`CountInv`); a scrape copies the answers before the evaluations, which only grow (`PictureInv`) |
| *ContentProofs* | | |
| `PathsAreUnique` | (lemma of two below) | no piece of a path is the beginning of another, whatever follows it: a dotted key ends before the next mark, an index at its bracket, a quoted key at the first quote that is not escaped, so a path reads back in one way (`SelfDelimiting`) |
| `PointersAreRead` | (lemma of one below) | unescaping looks at a tilde and the digit after it, so it goes through the code of one character at a time, and first undoing `~1` then `~0` gives back the key; of the keys that are empty or begin with a number it says nothing |
| *DetectorsProofs* | | |
| `SpansStayWithTheirString` | `SpansBelongToTheirString` | the findings are marked by path and span as what is found in the first `n` strings (`Scanning`), and by `PathsAreUnique` no two strings share a path |
| `SecretsAreReportedOnce` | `OneFindingPerSecret` | findings are distinct in path and span, and a finding's type is the first that matches it (`Scanning`); the latter because `Add` keeps what came first, whatever the number of patterns |
| `KeywordsAreReported` | `KeywordsAreFoundLeftToRight` | `Scanning`, and what the search for the next occurrence returns: the first after the last one's end (`Chooses`) |
| `LimitsAreReported` | `LimitsAreExact` | the measurements are a list of known members (`MeasurementsAre`), a ceiling exceeds a limit when the whole exceeds four of it, and a finding's path begins with its item's |
| `ListsAreReported` | `ListsAreRespected` | no two selected values share a path (`PathFixesValue`), so one that is denied is never reported by the allowlist |
| `SchemaErrorsAreReported` | `SchemaPathsLocateTheirValue` | `PointersAreRead`, and one finding for each leaf |
| *TraceProofs* | | |
| `SpansEndOnce` | `EverySpanEndsOnce` | for each `pc` exactly which spans are open; a new id is greater than all that were drawn, so nothing that was written can be started again |
| `TracesAreSeparate` | `OneTracePerRequest` | every span issued for a request is in the trace of the handler's |
| `LogIsATree` | `ChildrenEndFirst` | an open span is no child of one that was written, and only the handler's has its parent outside (`Tree`) |
| `StatusesAreTrue` | `StatusesTellTheOutcome` | the outcome is settled before a span that tells it ends (`Told`) |
| *StartupProofs* | | |
| `AcceptedPoliciesAreSound` | `AcceptedIsSound` | the policy being compiled is sound with the detectors it has so far, and what `Load` leaves has numbers for timeouts |
| `CredentialsAreTheirOwn` | `CredentialsAreAsConfigured` | `byToken` is the principals registered so far (`Registration`) |
| `PoliciesAreTheirOwn` | `CompiledAsConfigured` | what `Load` makes of each policy and what the compilation has made of those before `i` (`Compilation`), and the same of profiles (`Profiling`) |
| `OnlyTheValidStart` | `ExactlyTheValidStart` | each phase has looked at its rules for the items before its indices, and what is refused breaks one (`Validity`) |

`AcceptedPoliciesAreSound` discharges, for a configuration file, what the theorems about
`Evaluator` assume of every plan: its policies are in `PolicyConfig`.

Hardly any of these properties is inductive by itself: most speak of a result, and the invariant
says, for every point before it, what makes the result come out so. All of them were checked with TLC
before they were proved.

The theorems hold for every value of the constants that satisfies the named
assumptions of the modules: well-formed plans (`PlansAssumption`), records of the right
type for configurations, requests and replacements, positive `TicksPerMs`, a holder
of the free mutex that is no request, well-typed configuration files, ids of callers that
differ from those drawn here; for the detectors, requests and configurations of the right type
(`InputsAssumption`), words that hold neither digits nor punctuation (`LettersAssumption`),
characters of one byte or more that all have a lower case (`CharactersAssumption`), and matches
with a start and an end (`FindAllAssumption`). None of them bounds the number of policies,
detectors, ids, spans, requests or principals, nor the length of a text, a key or a list or
the depth of a document.

**Recursive functions and lists.** `Decimal`, the search of `MatchKeyword`, and the folds and
concatenations that build findings are defined by recursion, and the provers have no
induction over data. Three ways around it are used. An induction over lengths is a least
counterexample: of a set of naturals that is not empty, one is the smallest (`LeastNumber`). A
recursive function is shown to exist before its equation is used, from the functions that satisfy
it up to a bound (`Recursion`, `SearchExists`, `AddsExists`). Of a list that is put together from lists, members are known (`ListsFlatten`,
`ListsSelect`), and where order matters, which came before (`FlattenOrder`).

Only model-checked: liveness (`EvaluationTerminates`, `RequestsEnd`), which under fairness
is out of the prover's reach. What a run shows violated has no theorem either.

## Not modelled

Severities, categories, attributes, timings and evaluation ids: no property reads them.
Regular expressions, JSON Schema, YAML and JSON encoding are libraries; `shannonEntropy` is a
sum of logarithms, which TLA+ has no numbers for, so `Detectors` takes it as a constant. The
counters by label, their bounded values and the text format of a scrape
(`observability.go:208-375`) are formatting under the mutex `Service` models; signed and empty
keys of schema paths are in the model but not in its property, for want of a document that
says what they should be. The remote detector protocol has no code yet. The server's own
timeouts, and a client that reads slowly, need a clock `Service` does not have.

## Plan

The modules above were written in the order `Evaluator`, `PolicyResolver`, `Redaction`,
`Service`, `Startup`, `Detectors`, `Trace`: the decision first, then what feeds it, what it
causes, what surrounds it, what it all assumes, and what can be seen of it. Every safety
property that a run checks has a theorem. What is left:

1. Refinement of `Service` by what a sequential observer sees: one log of attempts, of which
   the counters, the audit events and the answers are three views.
2. A lemma that composes detectors and redaction: what is spliced out of a string is what the
   detectors found in it.
