---------------------------- MODULE MCRedaction -----------------------------
EXTENDS Redaction, FiniteSets

\* A text, a message and a string of the data.
MCPaths == <<"text", "message", "data">>
MCInPlace == {"message"}

Spans(length) == {s \in (0 .. length) \X (0 .. length + 1) : s[1] <= s[2]}
Items(length, values) ==
    { [start |-> s[1], stop |-> s[2], value |-> v] : s \in Spans(length), v \in values }

\* Up to three replacements in a text of three bytes, empty and out-of-bounds
\* spans and repetitions included; one in the message.
MCInputs ==
    { [length |-> [x \in Range(MCPaths) |-> IF x = "text" THEN 3 ELSE 2],
       found |-> [x \in Range(MCPaths) |->
                    CASE x = "text" -> f [] x = "message" -> g [] OTHER -> <<>>]] :
        f \in UNION {[1 .. m -> Items(3, {-1})] : m \in 0 .. 3},
        g \in {<<>>, << [start |-> 0, stop |-> 1, value |-> -2] >>} }
=============================================================================
