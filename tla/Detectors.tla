----------------------------- MODULE Detectors ------------------------------
(***************************************************************************)
(* The built-in detectors: evaluateDetector and what it calls               *)
(* (internal/engine/evaluator.go), and MatchKeyword                         *)
(* (internal/policy/resolver.go).  One detector looks at one request; regex,*)
(* keywords and secrets go through the strings one after the other, the     *)
(* others look at the request once.                                         *)
(*                                                                          *)
(* A string is a sequence of characters, some of them whole pieces of text  *)
(* no detector looks into; each has a width in bytes.  Regular expressions, *)
(* entropy, case folding and the schema validator are the libraries'.       *)
(*                                                                          *)
(* A definition commented "Fault" is a plausible bug in the one after it.   *)
(***************************************************************************)
EXTENDS Content

CONSTANTS
    Inputs,             \* pairs of a detector's configuration and a request
    Width,              \* the UTF-8 width of each character
    Lower, Fold,        \* strings.ToLower and strings.EqualFold, by character
    FindAll(_, _),      \* the matches of a pattern in a string, as byte spans
    Entropy(_)          \* of a sequence of bytes, in tenths of a bit

\* The patterns of the secrets' bundle, in their order; the last one is bounded
\* by length and entropy.
Bundle == << "pem_private_key", "authorization", "connection_string", "known_token",
             "contextual_high_entropy" >>

Limit == { "request_bytes", "messages", "message_bytes", "tools", "attachments",
           "estimated_tokens" }

TargetKey == [s \in {"target.model", "target.provider", "target.data_region"} |->
                CASE s = "target.model" -> "model"
                  [] s = "target.provider" -> "provider"
                  [] s = "target.data_region" -> "data_region"]

Selector == DOMAIN TargetKey \cup
            {"subject.roles", "content.tools", "content.domains", "content.file_types"}

Text == Seq(DOMAIN Width)

\* A document whose strings are texts.
IsTextDocument(doc) ==
    IsDocument(doc) /\ \A l \in DOMAIN doc : doc[l].is = "string" => doc[l].chars \in Text

\* What a regular expression finds.
Spans == Seq([start : Nat, stop : Nat])

\* A request, with its size if it has to be encoded to know it, and the errors
\* the validator finds in the detector's target.  Of a message only the content
\* is looked at.
EvaluationRequest(r) ==
    /\ r.encoded \in Nat /\ r.size \in Nat
    /\ r.type \in Text /\ r.text \in Text /\ r.messages \in Seq(Text)
    /\ IsTextDocument(r.data) /\ IsTextDocument(r.target) /\ IsTextDocument(r.subject)
    /\ IsFiniteSet(DOMAIN r.errors) /\ \A p \in DOMAIN r.errors : r.errors[p] \in Location

\* A detector with the settings of its kind, checked when the service started.
DetectorConfig(d) ==
    CASE d.kind = "regex" -> TRUE
      [] d.kind = "keywords" -> d.values \in Seq(Text) /\ d.caseSensitive \in BOOLEAN
      [] d.kind = "requestLimits" ->
             d.max \in [Limit -> Nat] /\ \A t \in d.allowed : t \in Text
      [] d.kind = "allowDeny" ->
             d.selector \in Selector /\ d.caseSensitive \in BOOLEAN
             /\ \A v \in d.allow \cup d.deny : v \in Text
      [] d.kind = "jsonSchema" -> d.target \in {"content", "content.data", "metadata", "subject", "target"}
      [] d.kind = "secrets" ->
             d.types \subseteq Range(Bundle) /\ d.minLength \in Nat /\ d.minEntropy \in Nat

ASSUME InputsAssumption ==
    \A input \in Inputs : EvaluationRequest(input.request) /\ DetectorConfig(input.detector)
ASSUME CharactersAssumption ==
    Width \in [DOMAIN Width -> Nat \ {0}] /\ Lower \in [DOMAIN Width -> DOMAIN Width]
ASSUME FindAllAssumption ==
    \A input \in Inputs : \A x \in Range(Strings(input.request)) :
        \A pattern \in {"regex"} \cup Range(Bundle) : FindAll(pattern, x.chars) \in Spans

VARIABLES detector, request, n, findings, pc

vars == <<detector, request, n, findings, pc>>

Init ==
    /\ \E input \in Inputs : detector = input.detector /\ request = input.request
    /\ n = 0 /\ findings = <<>> /\ pc = "run"

\* What an if contributes to a list.
When(condition, item) == IF condition THEN <<item>> ELSE <<>>

\* What a detector that looks at the request once reports.
Report(found) ==
    /\ pc = "run"
    /\ findings' = found
    /\ pc' = "done"
    /\ UNCHANGED <<detector, request, n>>

-----------------------------------------------------------------------------
(* Strings and their bytes. *)

Bytes(s) == FlattenSeq([i \in DOMAIN s |-> [b \in 1 .. Width[s[i]] |-> <<s[i], b>>]])
ByteLength(s) == Len(Bytes(s))
ToLower(s) == [i \in DOMAIN s |-> Lower[s[i]]]
EqualFold(s, t) == Len(s) = Len(t) /\ \A i \in DOMAIN s : Fold[s[i]] = Fold[t[i]]

Listed(values, candidate, caseSensitive) ==
    \E v \in values : IF caseSensitive THEN v = candidate ELSE EqualFold(v, candidate)

-----------------------------------------------------------------------------
(* Regular expressions and keywords. *)

\* Fault: the search goes on inside the match.
ResumeInside(start, needle) == start + 1

Resume(start, needle) == start + Len(needle)

Occurrences(haystack, needle, offset) ==
    { i \in offset .. (Len(haystack) - Len(needle)) :
        SubSeq(haystack, i + 1, i + Len(needle)) = needle }

Search(haystack, needle) ==
    LET spans[offset \in 0 .. Len(haystack)] ==
          LET found == Occurrences(haystack, needle, offset) start == Min(found) IN
          IF found = {} THEN <<>>
          ELSE << [start |-> start, stop |-> start + Len(needle)] >>
                  \o spans[Resume(start, needle)]
    IN  spans[0]

\* Offsets are those of the strings compared: lower-cased, when case is ignored.
Folded(s, caseSensitive) == Bytes(IF caseSensitive THEN s ELSE ToLower(s))

MatchKeyword(value, keyword, caseSensitive) ==
    IF keyword = <<>> THEN <<>>
    ELSE Search(Folded(value, caseSensitive), Folded(keyword, caseSensitive))

TextSpans(s) ==
    IF detector.kind = "regex" THEN FindAll("regex", s)
    ELSE FlattenSeq([k \in DOMAIN detector.values |->
            MatchKeyword(s, detector.values[k], detector.caseSensitive)])

\* A finding in a text: its span, by path.  The evaluator gets a replacement for
\* the same span with it.
Located(path, type, spans) ==
    [k \in DOMAIN spans |->
        [path |-> path, type |-> type, start |-> spans[k].start, stop |-> spans[k].stop]]

VisitText ==
    /\ pc = "run" /\ detector.kind \in {"regex", "keywords"}
    /\ n < Len(Texts(request))
    /\ LET string == Texts(request)[n + 1] IN
       findings' = findings \o Located(string.path, detector.kind, TextSpans(string.chars))
    /\ n' = n + 1
    /\ UNCHANGED <<detector, request, pc>>

-----------------------------------------------------------------------------
(* Secrets. *)

Enabled(type) == detector.types = {} \/ type \in detector.types

Default(value, fallback) == IF value = 0 THEN fallback ELSE value

\* A value beside a marker counts when it is long and random enough.
IsSecret(type, s, span) ==
    type = "contextual_high_entropy" =>
        /\ span.stop - span.start >= Default(detector.minLength, 20)
        /\ Entropy(SubSeq(Bytes(s), span.start + 1, span.stop))
              >= Default(detector.minEntropy, 40)

SecretSpans(type, s) ==
    LET spans == FindAll(type, s) IN
    FlattenSeq([k \in DOMAIN spans |->
        When(Enabled(type) /\ IsSecret(type, s, spans[k]), spans[k])])

\* Fault: what is found twice is reported twice.
AddAgain(found, f) == Append(found, f)

\* A span is reported once, as what the first pattern takes it for.
Add(found, f) ==
    IF \E g \in Range(found) :
          <<g.path, g.start, g.stop>> = <<f.path, f.start, f.stop>>
    THEN found
    ELSE Append(found, f)

AddAll(found) ==
    LET added[k \in 0 .. Len(found)] == IF k = 0 THEN findings ELSE Add(added[k - 1], found[k])
    IN  added[Len(found)]

ScanString ==
    /\ pc = "run" /\ detector.kind = "secrets"
    /\ n < Len(Strings(request))
    /\ LET string == Strings(request)[n + 1]
           found == [t \in DOMAIN Bundle |->
                       Located(string.path, Bundle[t], SecretSpans(Bundle[t], string.chars))]
       IN  findings' = AddAll(FlattenSeq(found))
    /\ n' = n + 1
    /\ UNCHANGED <<detector, request, pc>>

Visited ==
    CASE detector.kind \in {"regex", "keywords"} -> Texts(request)
      [] detector.kind = "secrets" -> Strings(request)
      [] OTHER -> <<>>

Return ==
    /\ pc = "run" /\ detector.kind \in {"regex", "keywords", "secrets"}
    /\ n = Len(Visited)
    /\ pc' = "done"
    /\ UNCHANGED <<detector, request, n, findings>>

-----------------------------------------------------------------------------
(* Request limits. *)

\* Fault: the last token is cut off.
WholeTokens(bytes) == bytes \div 4

EstimatedTokens(bytes) == (bytes + 3) \div 4

Tools == <<Key("data"), Key("tools")>>
Attachments == <<Key("data"), Key("attachments")>>

\* The document that lookups below content go through.
ContentDoc ==
    [l \in {<<Key("data")>> \o m : m \in DOMAIN request.data} |->
        request.data[SubSeq(l, 2, Len(l))]]

ContentBytes ==
    Len(FlattenSeq([k \in DOMAIN Strings(request) |-> Bytes(Strings(request)[k].chars)]))

Measured(limit, path, actual) == [limit |-> limit, path |-> path, actual |-> actual]

\* A request that did not come over HTTP is measured by encoding it.
Measurements ==
    << Measured("request_bytes", <<>>,
                IF request.encoded = 0 THEN request.size ELSE request.encoded),
       Measured("messages", Path("content", <<Key("messages")>>), Len(request.messages)) >>
    \o [i \in DOMAIN request.messages |->
          Measured("message_bytes", MessagePath(i), ByteLength(request.messages[i]))]
    \o << Measured("tools", Path("content", Tools), CollectionLength(ContentDoc, Tools)),
          Measured("attachments", Path("content", Attachments),
                   CollectionLength(ContentDoc, Attachments)),
          Measured("estimated_tokens", <<"content">>, EstimatedTokens(ContentBytes)) >>

Exceeds(m) == detector.max[m.limit] > 0 /\ m.actual > detector.max[m.limit]

Selected(location, value) == [path |-> Path("content", location), value |-> value]

\* The first of the fields of an item that holds a string.
FirstText(item, fields) ==
    LET at(k) == Append(item, Key(fields[k]))
        found == {k \in DOMAIN fields : TextAt(ContentDoc, at(k)) # <<>>}
    IN  When(found # {}, Selected(at(Min(found)), TextAt(ContentDoc, at(Min(found)))))

\* An attachment without a type counts as one with an empty type.
ContentMIMETypes ==
    LET typeOf(item) ==
          LET declared == FirstText(item, <<"mime_type", "mimeType">>)
          IN  IF declared = <<>> THEN << Selected(item, <<>>) >> ELSE declared
        items == Items(ContentDoc, Attachments)
    IN  When(request.type # <<>>, Selected(<<Key("type")>>, request.type))
        \o FlattenSeq([i \in DOMAIN items |-> typeOf(items[i])])

MIMETypeFindings ==
    FlattenSeq([k \in DOMAIN ContentMIMETypes |->
        LET item == ContentMIMETypes[k] IN
        When(~Listed(detector.allowed, item.value, FALSE),
             [limit |-> "allowed_mime_types", path |-> item.path])])

Exceeding == FlattenSeq([k \in DOMAIN Measurements |->
                            When(Exceeds(Measurements[k]), Measurements[k])])

EvaluateRequestLimits ==
    /\ detector.kind = "requestLimits"
    /\ Report(Exceeding \o IF detector.allowed = {} THEN <<>> ELSE MIMETypeFindings)

-----------------------------------------------------------------------------
(* Allow and deny lists. *)

\* The strings of an array, those that are not empty.
StringValues(doc, root, location) ==
    LET items == Items(doc, location) IN
    FlattenSeq([i \in DOMAIN items |->
        LET value == TextAt(doc, items[i]) IN
        When(value # <<>>, [path |-> Path(root, items[i]), value |-> value])])

\* A tool is its name, or an object that has one; the name may be empty.
ToolNames ==
    LET items == Items(ContentDoc, Tools)
        named(item) == Append(item, Key("name"))
        name(item) ==
          CASE Is(ContentDoc, item, "string") -> << Selected(item, ContentDoc[item].chars) >>
            [] Is(ContentDoc, named(item), "string") ->
                   << Selected(named(item), ContentDoc[named(item)].chars) >>
            [] OTHER -> <<>>
    IN  FlattenSeq([i \in DOMAIN items |-> name(items[i])])

FileTypes ==
    LET items == Items(ContentDoc, Attachments) IN
    StringValues(ContentDoc, "content", <<Key("data"), Key("file_types")>>)
    \o FlattenSeq([i \in DOMAIN items |->
          FirstText(items[i], <<"file_type", "fileType", "extension">>)])

SelectorValues(selector) ==
    CASE selector \in DOMAIN TargetKey ->
           LET value == TextAt(request.target, <<Key(TargetKey[selector])>>)
           IN  When(value # <<>>, [path |-> <<selector>>, value |-> value])
      [] selector = "subject.roles" ->
           StringValues(request.subject, "subject", <<Key("roles")>>)
      [] selector = "content.tools" -> ToolNames
      [] selector = "content.domains" ->
           StringValues(ContentDoc, "content", <<Key("data"), Key("domains")>>)
      [] selector = "content.file_types" -> FileTypes

Allowed(value) == detector.allow = {} \/ Listed(detector.allow, value, detector.caseSensitive)
Denied(value) == Listed(detector.deny, value, detector.caseSensitive)

\* Fault: a value that is allowed is not looked for among the denied ones.
AllowWins(value) ==
    CASE detector.allow # {} /\ Allowed(value) -> "none"
      [] Denied(value) -> "deny"
      [] ~Allowed(value) -> "allow"
      [] OTHER -> "none"

Rule(value) ==
    CASE Denied(value) -> "deny"
      [] ~Denied(value) /\ ~Allowed(value) -> "allow"
      [] OTHER -> "none"

EvaluateAllowDeny ==
    /\ detector.kind = "allowDeny"
    /\ LET values == SelectorValues(detector.selector)
       IN  Report(FlattenSeq([i \in DOMAIN values |->
                    When(Rule(values[i].value) # "none",
                         [path |-> values[i].path, rule |-> Rule(values[i].value)])]))

-----------------------------------------------------------------------------
(* JSON Schema.  The validator's answer is a tree of errors: a function from  *)
(* positions, the empty one its root, to the locations of what is wrong.      *)

Leaves(errors) == {p \in DOMAIN errors : Append(p, 1) \notin DOMAIN errors}

\* Leaves are sorted by location: here they come in any fixed order.
EvaluateJSONSchema ==
    /\ detector.kind = "jsonSchema"
    /\ LET errors == request.errors
           leaves == SetToSeq(Leaves(errors))
       IN  Report([i \in DOMAIN leaves |->
                     [location |-> errors[leaves[i]],
                      path |-> PointerJSONPath(detector.target, errors[leaves[i]])]])

-----------------------------------------------------------------------------

Terminated == pc = "done" /\ UNCHANGED vars

Next ==
    \/ VisitText \/ ScanString \/ Return
    \/ EvaluateRequestLimits \/ EvaluateAllowDeny \/ EvaluateJSONSchema
    \/ Terminated

Spec == Init /\ [][Next]_vars

-----------------------------------------------------------------------------
(* Properties. *)

Done(kinds) == pc = "done" /\ detector.kind \in kinds

Span(f) == <<f.start, f.stop>>

\* Of the places where a keyword occurs, MatchKeyword reports those that a
\* reader going from left to right meets, none inside another, none left out:
\* every occurrence begins inside one reported at or before it
\* (resolver.go:266-274).
KeywordsAreFoundLeftToRight ==
    Done({"keywords"}) => \A x \in Range(Visited), keyword \in Range(detector.values) :
        LET folded(s) == Folded(s, detector.caseSensitive)
            size == Len(folded(keyword))
            starts == {i \in 0 .. (Len(folded(x.chars)) - size) :
                          SubSeq(folded(x.chars), i + 1, i + size) = folded(keyword)}
            chosen == {s.start : s \in Range(MatchKeyword(x.chars, keyword,
                                                          detector.caseSensitive))}
        IN  keyword # <<>> =>
              /\ chosen \subseteq starts
              /\ \A i \in starts : \E c \in chosen : c <= i /\ i < c + size
              /\ \A c, d \in chosen : c < d => c + size <= d
              /\ \A c \in chosen :
                    \E f \in Range(findings) : f.path = x.path /\ Span(f) = <<c, c + size>>

Found(s) ==
    IF detector.kind = "secrets"
    THEN UNION {Range(SecretSpans(type, s)) : type \in Range(Bundle)}
    ELSE Range(TextSpans(s))

\* The spans reported under a string's path are the ones found in that string:
\* none is lost to another string or found under a name another string has too,
\* so that the redaction, which knows strings by their path, changes the one the
\* match is in (evaluator.go:416-445, 501, 539-570).
SpansBelongToTheirString ==
    Done({"regex", "keywords", "secrets"}) => \A x \in Range(Visited) :
        {Span(f) : f \in {g \in Range(findings) : g.path = x.path}}
            = {Span(s) : s \in Found(x.chars)}

\* A secret is one finding, whatever number of patterns take it for theirs, and
\* the type it is given does not depend on the configuration's order
\* (evaluator.go:416-427).
OneFindingPerSecret ==
    Done({"secrets"}) =>
        /\ \A k, m \in DOMAIN findings :
              <<findings[k].path, Span(findings[k])>> = <<findings[m].path, Span(findings[m])>>
                  => k = m
        /\ \A f \in Range(findings), x \in Range(Visited) :
              x.path = f.path => \E t \in DOMAIN Bundle :
                 /\ Bundle[t] = f.type
                 /\ \A u \in 1 .. (t - 1) :
                      Span(f) \notin {Span(s) : s \in Range(SecretSpans(Bundle[u], x.chars))}

Reported(limit) == {f.path : f \in {g \in Range(findings) : g.limit = limit}}

Over(limit, actual) == detector.max[limit] # 0 /\ actual > detector.max[limit]

\* "Ceiling of all content string bytes divided by four"; "UTF-8 bytes in each
\* individual message content"; "An attachment without either supported MIME
\* type field violates a configured MIME allowlist", unless the list has the
\* empty type; zero disables a limit
\* (docs/contracts/deterministic-detectors-v1.md:27-44; evaluator.go:305-341).
LimitsAreExact ==
    Done({"requestLimits"}) =>
        /\ Reported("estimated_tokens") # {} <=>
              LET max == detector.max["estimated_tokens"] IN max # 0 /\ ContentBytes > 4 * max
        /\ Reported("message_bytes") =
              { MessagePath(i) : i \in {j \in DOMAIN request.messages :
                    Over("message_bytes", ByteLength(request.messages[j]))} }
        /\ Reported("attachments") # {} <=>
              Over("attachments", Len(Items(ContentDoc, Attachments)))
        /\ Reported("request_bytes") # {} <=>
              Over("request_bytes", IF request.encoded > 0 THEN request.encoded ELSE request.size)
        /\ detector.allowed # {} =>
              \A i \in DOMAIN Items(ContentDoc, Attachments) :
                 LET item == Items(ContentDoc, Attachments)[i]
                     types == {TextAt(ContentDoc, Append(item, Key(f))) :
                                  f \in {"mime_type", "mimeType"}} \ {<<>>}
                     counted == IF types = {} THEN {<<>>} ELSE types
                 IN  (\A t \in counted : ~Listed(detector.allowed, t, FALSE)) =>
                        \E p \in Reported("allowed_mime_types") :
                            IsPrefix(Path("content", item), p)

\* "Every observed value must be in a non-empty allowlist, and no observed value
\* may be in the denylist.  Deny wins if a value appears in both.  [...] Missing
\* selector values do not create findings"
\* (docs/contracts/deterministic-detectors-v1.md:57-62; evaluator.go:345-363).
ListsAreRespected ==
    Done({"allowDeny"}) =>
        LET values == Range(SelectorValues(detector.selector))
            reported(rule) == {f.path : f \in {g \in Range(findings) : g.rule = rule}}
        IN  /\ reported("deny") = {v.path : v \in {u \in values :
                   \E d \in detector.deny : Listed({d}, u.value, detector.caseSensitive)}}
            /\ reported("deny") \cap reported("allow") = {}
            /\ (findings = <<>>) <=>
                  \A v \in values :
                     /\ detector.allow # {} =>
                          \E a \in detector.allow : Listed({a}, v.value, detector.caseSensitive)
                     /\ \A d \in detector.deny : ~Listed({d}, v.value, detector.caseSensitive)

\* A key a pointer does not tell from nothing or from an index.
Ambiguous(step) ==
    ~IsIndex(step) /\ (step.key = <<>> \/ StartsWithNumber(step.key))

\* "Each leaf validation error emits a finding"
\* (docs/contracts/deterministic-detectors-v1.md:66-69), and its path, put
\* together from an escaped pointer, is the one under which the other detectors
\* report the same value, unless a key on the way is empty or begins with a
\* number (evaluator.go:374-379, 707-721).
SchemaPathsLocateTheirValue ==
    Done({"jsonSchema"}) =>
        /\ {f.location : f \in Range(findings)} =
              {request.errors[p] : p \in Leaves(request.errors)}
        /\ Len(findings) = Cardinality(Leaves(request.errors))
        /\ \A f \in Range(findings) :
              (\A k \in DOMAIN f.location : ~Ambiguous(f.location[k])) =>
                  f.path = Path(detector.target, f.location)

\* "Text spans use UTF-8 byte offsets"
\* (docs/contracts/deterministic-detectors-v1.md:78): the bytes from a
\* keyword's start to its end are, case aside, the keyword.
KeywordSpansAreOffsets ==
    Done({"keywords"}) => \A f \in Range(findings), x \in Range(Visited) :
        x.path = f.path => \E from, to \in 0 .. Len(x.chars), keyword \in Range(detector.values) :
            /\ f.start = ByteLength(SubSeq(x.chars, 1, from))
            /\ f.stop = ByteLength(SubSeq(x.chars, 1, to))
            /\ ToLower(SubSeq(x.chars, from + 1, to)) = ToLower(keyword)
=============================================================================
