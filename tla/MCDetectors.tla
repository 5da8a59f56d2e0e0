---------------------------- MODULE MCDetectors -----------------------------
(***************************************************************************)
(* An instance of Detectors for TLC.  Every kind of detector gets requests  *)
(* of its own: short texts for keywords, data with colliding keys for       *)
(* secrets, and the collections that limits and lists look at.              *)
(***************************************************************************)
EXTENDS Detectors

MCLetters == Fields \cup {"a", "b", "size"}
MCOthers == {"#"}

\* Two letters with their capitals, a dotted capital I (two bytes, its lower
\* case one), and pieces of text: "k=ghp" is a marker of 6 bytes before a token
\* of 40, "k=low" one before a value without entropy, "k=few" before a short one.
MCWidth == [c \in {"x", "X", "y", "I."} |-> IF c = "I." THEN 2 ELSE 1]
           @@ [c \in {"pem", "bearer", "url", "k=ghp", "k=low", "k=few"} |->
                 CASE c = "k=ghp" -> 46 [] c = "k=few" -> 16 [] OTHER -> 30]
Same == [c \in DOMAIN MCWidth |-> c]
MCLower == [Same EXCEPT !["X"] = "x", !["I."] = "y"]
MCFold == [Same EXCEPT !["X"] = "x"]

\* What each pattern matches in which piece, and where in it.
Matches ==
    { <<"regex", "x", 0, 1>>, <<"pem_private_key", "pem", 0, 30>>,
      <<"authorization", "bearer", 0, 30>>, <<"connection_string", "url", 2, 30>>,
      <<"known_token", "bearer", 7, 30>>, <<"known_token", "k=ghp", 6, 46>>,
      <<"contextual_high_entropy", "k=ghp", 6, 46>>,
      <<"contextual_high_entropy", "k=low", 6, 30>>,
      <<"contextual_high_entropy", "k=few", 6, 16>> }

MCFindAll(pattern, s) ==
    FlattenSeq([i \in DOMAIN s |->
        LET at == ByteLength(SubSeq(s, 1, i - 1))
            here == SetToSeq({m \in Matches : m[1] = pattern /\ m[2] = s[i]})
        IN  [k \in DOMAIN here |-> [start |-> at + here[k][3], stop |-> at + here[k][4]]]])

MCEntropy(bytes) == IF bytes[1][1] = "k=low" THEN 25 ELSE 45

\* The document with these leaves.
Doc(leaves) ==
    LET nodes == UNION {Prefixes(l) : l \in DOMAIN leaves} \cup {<<>>}
        indexed(l) == \E m \in nodes : m # <<>> /\ Front(m) = l /\ IsIndex(Last(m))
    IN  [l \in nodes |->
           IF l \in DOMAIN leaves THEN leaves[l]
           ELSE [is |-> IF indexed(l) THEN "array" ELSE "object"]]

NoDoc == Doc(<<>>)

Plain == [encoded |-> 0, size |-> 9, type |-> <<>>, text |-> <<>>, messages |-> <<>>,
          data |-> NoDoc, target |-> NoDoc, subject |-> NoDoc, errors |-> <<>>]

-----------------------------------------------------------------------------

ShortTexts == UNION {[1 .. k -> {"x", "X", "y", "I."}] : k \in 0 .. 4}

KeywordInputs ==
    { [detector |-> [kind |-> "keywords", values |-> v, caseSensitive |-> c],
       request |-> [Plain EXCEPT !.text = t, !.messages = << <<>>, <<"x">> >>]] :
        v \in {<< <<"x">> >>, << <<"x", "x">> >>, << <<"x", "y", "x">>, <<"X">> >>, << <<>>, <<"y", "y">> >>},
        c \in BOOLEAN, t \in ShortTexts }

RegexInputs ==
    { [detector |-> [kind |-> "regex"],
       request |-> [Plain EXCEPT !.text = t, !.messages = <<t, <<"y", "x">> >>]] :
        t \in {<<>>, <<"x">>, <<"x", "y", "x">>} }

\* Objects, arrays, and keys that hold what paths are made of.
Keys == {<<"a">>, <<"b">>, <<"a", ".", "b">>, <<"a", "[", "0", "]">>, <<>>, <<".">>,
         <<"0">>, <<".", "\"", "]", "[", "\"", ".">>, <<"\\">>, <<"\\", "\"">>}
Places ==
    {<<[key |-> k]>> : k \in Keys}
    \cup { <<[key |-> k], s>> : k \in {<<"a">>, <<".">>},
             s \in {Index(0)} \cup {[key |-> k2] : k2 \in {<<"b">>, <<".">>, <<>>, <<"0">>}} }

\* Two strings have a place each if neither is inside the other, and no value
\* is both an object and an array.
FitTogether(l, m) ==
    /\ ~IsPrefix(l, m) /\ ~IsPrefix(m, l)
    /\ l[1] = m[1] => IsIndex(l[2]) = IsIndex(m[2])

SecretInputs ==
    { [detector |-> [kind |-> "secrets", types |-> t, minLength |-> 0, minEntropy |-> 0],
       request |-> [Plain EXCEPT !.data = Doc(l :> String(<<"k=ghp">>) @@ m :> String(u))]] :
        t \in {{}, {"known_token"}}, u \in {<<"bearer">>, <<"x">>, <<"k=ghp">>},
        <<l, m>> \in {p \in Places \X Places : FitTogether(p[1], p[2])} }
    \cup
    { [detector |-> [kind |-> "secrets", types |-> t, minLength |-> len, minEntropy |-> e],
       request |-> [Plain EXCEPT !.text = <<c, d>>, !.messages = << <<d>>, <<c>> >>]] :
        t \in {{}, {"authorization", "contextual_high_entropy"}, {"pem_private_key"}},
        len \in {0, 10}, e \in {0, 20},
        c \in {"pem", "bearer", "url", "k=ghp", "k=low", "k=few"}, d \in {"k=few", "bearer", "y"} }

-----------------------------------------------------------------------------

Max0 == [l \in Limit |-> 0]

Item(list, i, field, value) == <<Key(list), Index(i), Key(field)>> :> String(value)

\* Two attachments, with one type, another, both, or none; a list of tools.
Collections ==
    LET other == <<Key("attachments"), Index(1), Key("size")>> :> [is |-> "other"]
        tool(i) == <<Key("tools"), Index(i)>> :> String(<<"y">>)
    IN  { Doc(first @@ second @@ tools) :
            first \in { Item("attachments", 0, f, v) :
                          f \in {"mime_type", "mimeType"}, v \in {<<"x">>, <<"X">>, <<"y">>, <<>>} },
            second \in { other, other @@ Item("attachments", 1, "mimeType", <<"y">>),
                         Item("attachments", 1, "mime_type", <<"y">>)
                            @@ Item("attachments", 1, "mimeType", <<"x">>) },
            tools \in {<<>>, tool(0), tool(0) @@ tool(1)} }
        \cup {NoDoc, Doc(<<Key("attachments")>> :> String(<<"x">>))}

\* Only one limit looks at how the request came, and none at the list of types.
LimitInputs ==
    { [detector |-> [kind |-> "requestLimits", max |-> [Max0 EXCEPT ![l] = m], allowed |-> a],
       request |-> [Plain EXCEPT !.data = d, !.encoded = e, !.type = <<"X">>,
                                 !.messages = << <<"x", "y">>, <<"I.", "y">> >>]] :
        d \in Collections,
        <<a, m>> \in ({{}} \X {0, 1, 2, 8, 9}) \cup ({{<<"x">>}, {<<"y">>, <<>>}} \X {0, 1}),
        <<l, e>> \in (Limit \X {0}) \cup {<<"request_bytes", 8>>} }

\* The estimate about its thresholds.
TokenInputs ==
    { [detector |-> [kind |-> "requestLimits", allowed |-> {},
                     max |-> [Max0 EXCEPT !["estimated_tokens"] = m]],
       request |-> [Plain EXCEPT !.text = t, !.data = d]] :
        m \in 0 .. 2, t \in ShortTexts, d \in {NoDoc, Doc(<<Key("a")>> :> String(<<"y", "I.", "y">>))} }

-----------------------------------------------------------------------------

ListDoc(v, w) ==
    Doc(<<Key("domains"), Index(0)>> :> String(v) @@ <<Key("domains"), Index(1)>> :> String(w)
        @@ <<Key("tools"), Index(0)>> :> String(v) @@ Item("tools", 1, "name", w)
        @@ <<Key("file_types"), Index(0)>> :> [is |-> "other"]
        @@ Item("attachments", 0, "fileType", v) @@ Item("attachments", 0, "extension", w))

ListInputs ==
    { [detector |-> [kind |-> "allowDeny", selector |-> s, allow |-> a, deny |-> d,
                     caseSensitive |-> c],
       request |-> [Plain EXCEPT !.data = ListDoc(v, w),
                      !.target = Doc(<<Key("model")>> :> String(v)),
                      !.subject = Doc(<<Key("roles"), Index(0)>> :> String(w))]] :
        s \in {"target.model", "target.provider", "subject.roles", "content.tools",
               "content.domains", "content.file_types"},
        a \in {{}, {<<"x">>}, {<<"x">>, <<"y">>}}, d \in {{<<"y">>}, {<<"X">>}, {}},
        c \in BOOLEAN, v \in {<<>>, <<"x">>, <<"X">>, <<"y">>}, w \in {<<>>, <<"X">>, <<"y">>} }

\* Errors below two keys each: one leaf under the root, or two under a cause.
SchemaKeys == {<<"a">>, <<"~">>, <<"/">>, <<"~", "1">>, <<"a", "~", "0">>, <<"-", "1">>,
               <<"0">>, <<>>, <<"a", ".", "#">>, <<"~", "0", "1">>}
SchemaInputs ==
    { [detector |-> [kind |-> "jsonSchema", target |-> "metadata"],
       request |-> [Plain EXCEPT !.errors = e]] :
        e \in UNION { { <<>> :> <<>> @@ <<1>> :> <<s>>,
                        <<>> :> <<>> @@ <<1>> :> <<s>> @@ <<1, 1>> :> <<s, t>>
                            @@ <<1, 2>> :> <<s, t, Index(0)>> } :
                      s \in {[key |-> k] : k \in SchemaKeys},
                      t \in {[key |-> k] : k \in SchemaKeys} \cup {Index(1)} } }

MCInputs == KeywordInputs \cup RegexInputs \cup SecretInputs \cup LimitInputs
            \cup TokenInputs \cup ListInputs \cup SchemaInputs
=============================================================================
