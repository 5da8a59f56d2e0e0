------------------------------ MODULE Content -------------------------------
(***************************************************************************)
(* The content of a request as detectors and redaction walk through it, and *)
(* the paths that name its strings (internal/engine/evaluator.go).          *)
(*                                                                          *)
(* A JSON document is a function: from the location of every value in it,   *)
(* the sequence of steps that leads there, to the value.  A step is a key   *)
(* of an object or an index of an array.  Keys and paths are sequences of   *)
(* tokens: words made of letters, digits, punctuation.                      *)
(*                                                                          *)
(* A definition commented "Fault" is a plausible bug in the one after it.   *)
(***************************************************************************)
EXTENDS Integers, SequencesExt

CONSTANTS
    Letters,  \* the words that are made of letters and underscores
    Others    \* the other characters of keys that mean nothing in a path or a number

Digit == <<"0", "1", "2", "3", "4", "5", "6", "7", "8", "9">>
Digits == Range(Digit)

\* What means something in a path, a pointer or a number.
Marks == {".", "[", "]", "\"", "\\", "~", "/", "+", "-"}

Token == Letters \cup Others \cup Digits \cup Marks

\* The names the code looks up in a request.
Fields == {"content", "text", "messages", "data", "tools", "attachments", "domains",
           "file_types", "name", "mime_type", "mimeType", "file_type", "fileType",
           "extension", "model", "provider", "data_region", "roles"}

ASSUME LettersAssumption ==
    /\ Fields \subseteq Letters
    /\ (Letters \cup Others) \cap (Digits \cup Marks) = {}

\* The %d of an index.
Decimal[i \in Nat] ==
    IF i < 10 THEN <<Digit[i + 1]>> ELSE Append(Decimal[i \div 10], Digit[(i % 10) + 1])

Step == [key : Seq(Token)] \cup [index : Nat]
Location == Seq(Step)

Key(word) == [key |-> <<word>>]
Index(i) == [index |-> i]
IsIndex(step) == "index" \in DOMAIN step

String(chars) == [is |-> "string", chars |-> chars]

-----------------------------------------------------------------------------
(* Paths. *)

IsIdentifier(key) ==
    /\ key # <<>>
    /\ \A n \in DOMAIN key : key[n] \in Letters \/ (n > 1 /\ key[n] \in Digits)

\* The %q of a key: quotes and backslashes are escaped.
Quoted(key) ==
    LET escaped(c) == IF c \in {"\"", "\\"} THEN <<"\\", c>> ELSE <<c>>
    IN  <<"\"">> \o FlattenSeq([n \in DOMAIN key |-> escaped(key[n])]) \o <<"\"">>

\* Fault: a key is taken for an identifier.
DottedKey(key) == <<".">> \o key

\* What childPath adds to its parent's path.
KeyPiece(key) ==
    IF IsIdentifier(key) THEN <<".">> \o key ELSE <<"[">> \o Quoted(key) \o <<"]">>

Piece(step) ==
    IF IsIndex(step) THEN <<"[">> \o Decimal[step.index] \o <<"]">> ELSE KeyPiece(step.key)

Path(root, location) == <<root>> \o FlattenSeq([n \in DOMAIN location |-> Piece(location[n])])

-----------------------------------------------------------------------------
(* What is asked of a document. *)

\* Every value but the root is in a container of its kind, and no item of an
\* array is missing.
IsDocument(doc) ==
    /\ DOMAIN doc \subseteq Location /\ IsFiniteSet(DOMAIN doc)
    /\ \A l \in DOMAIN doc :
        /\ doc[l].is \in {"string", "object", "array", "other"}
        /\ l # <<>> =>
              LET container == Front(l) step == Last(l) IN
              /\ container \in DOMAIN doc
              /\ doc[container].is = IF IsIndex(step) THEN "array" ELSE "object"
              /\ IsIndex(step) /\ step.index > 0 =>
                    Append(container, Index(step.index - 1)) \in DOMAIN doc

Is(doc, location, kind) == location \in DOMAIN doc /\ doc[location].is = kind

\* The string at a location; the empty one if there is none.
TextAt(doc, location) ==
    IF Is(doc, location, "string") THEN doc[location].chars ELSE <<>>

Children(doc, location) == {l \in DOMAIN doc : l # <<>> /\ Front(l) = location}

CollectionLength(doc, location) ==
    IF Is(doc, location, "array") THEN Cardinality(Children(doc, location)) ELSE 0

Items(doc, location) ==
    [i \in 1 .. CollectionLength(doc, location) |-> Append(location, Index(i - 1))]

-----------------------------------------------------------------------------
(* The strings of a request's content, in the order they are visited. *)

DataPath(location) == Path("content", <<Key("data")>> \o location)

MessagePath(i) == Path("content", <<Key("messages"), Index(i - 1), Key("content")>>)

\* A text that is empty is not visited, a message that is empty is.
Texts(content) ==
    (IF content.text = <<>> THEN <<>>
     ELSE << [path |-> Path("content", <<Key("text")>>), chars |-> content.text] >>)
    \o [i \in DOMAIN content.messages |->
          [path |-> MessagePath(i), chars |-> content.messages[i]]]

\* The keys of an object are sorted, for the findings to come in one order:
\* here it is any fixed one.
DataStrings(data) ==
    LET locations == SetToSeq({l \in DOMAIN data : data[l].is = "string"})
    IN  [n \in DOMAIN locations |->
           [path |-> DataPath(locations[n]), chars |-> data[locations[n]].chars]]

Strings(content) == Texts(content) \o DataStrings(content.data)

-----------------------------------------------------------------------------
(* The JSON Pointers the schema validator locates its errors with. *)

\* A part of a pointer, as the validator writes it (RFC 6901).
Escape(step) ==
    LET escaped(c) == CASE c = "~" -> <<"~", "0">> [] c = "/" -> <<"~", "1">> [] OTHER -> <<c>>
    IN  IF IsIndex(step) THEN Decimal[step.index]
        ELSE FlattenSeq([n \in DOMAIN step.key |-> escaped(step.key[n])])

\* strings.ReplaceAll of a tilde and a digit: no two of them overlap.
Unescaped(digit, by, part) ==
    LET at(i) == i \in 1 .. (Len(part) - 1) /\ part[i] = "~" /\ part[i + 1] = digit
    IN  FlattenSeq([i \in DOMAIN part |->
            CASE at(i) -> <<by>> [] at(i - 1) -> <<>> [] OTHER -> <<part[i]>>])

\* Fault: the two escapes are undone in the order they were made.
UnescapeTildeFirst(part) == Unescaped("1", "/", Unescaped("0", "~", part))

Unescape(part) == Unescaped("0", "~", Unescaped("1", "/", part))

\* What Sscanf reads a number from: the rest is not looked at (keys with leading
\* blanks are left out).
StartsWithNumber(part) ==
    LET unsigned == IF part[1] \in {"+", "-"} THEN Tail(part) ELSE part
    IN  unsigned # <<>> /\ unsigned[1] \in Digits

PartPiece(part) ==
    CASE part = <<>> -> <<>>
      [] part # <<>> /\ StartsWithNumber(Unescape(part)) ->
             <<"[">> \o Unescape(part) \o <<"]">>
      [] OTHER -> KeyPiece(Unescape(part))

\* The pointer of a location, split at its slashes, made a path again.
PointerJSONPath(root, location) ==
    <<root>> \o FlattenSeq([n \in DOMAIN location |-> PartPiece(Escape(location[n]))])
=============================================================================
