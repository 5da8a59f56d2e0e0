----------------------------- MODULE Redaction ------------------------------
(***************************************************************************)
(* applyReplacements (internal/engine/evaluator.go): the strings of the     *)
(* content are transformed one after the other.  For each, the replacements *)
(* found in it are sorted, those that fit are selected from left to right,  *)
(* and spliced into the string from right to left.                          *)
(*                                                                          *)
(* A string is a sequence of bytes, and a byte stands for its own offset in *)
(* the original, so that one can see which bytes survive and where.  A      *)
(* replacement value is a single negative number.  A span [start, stop) is  *)
(* what a detector reported; a case-insensitive keyword may report one past *)
(* the end of the string (MatchKeyword), and two detectors the same one.    *)
(*                                                                          *)
(* A definition commented "Fault" is a plausible bug in the one after it.   *)
(***************************************************************************)
EXTENDS Integers, Sequences, Functions

CONSTANTS
    Paths,    \* the paths of the content's strings, in the order they are visited
    InPlace,  \* those whose string lives in an array shared with the request
    Inputs    \* the strings' lengths, and the replacements found in them

Replacement == [start : Nat, stop : Nat, value : Int]

\* Every string of the content is visited once.
ASSUME PathsAssumption ==
    Paths \in Seq(STRING) /\ IsInjective(Paths) /\ InPlace \subseteq Range(Paths)
ASSUME InputsAssumption ==
    \A i \in Inputs :
        /\ i.length \in [Range(Paths) -> Nat]
        /\ i.found \in [Range(Paths) -> Seq(Replacement)]
        /\ \A x \in Range(Paths) : \A j \in DOMAIN i.found[x] :
              i.found[x][j].start <= i.found[x][j].stop /\ i.found[x][j].value < 0

VARIABLES
    found,     \* the replacements, by path
    original,  \* the request's strings, as they came (history)
    request,   \* the request's strings, as its owner sees them
    content,   \* the transformed strings
    q,         \* the string being transformed
    pc,
    items,     \* its replacements, sorted
    n,         \* how many of them have been looked at
    lastEnd,   \* the end of the last one selected
    selected,  \* those selected
    value      \* the string so far

vars == <<found, original, request, content, q, pc, items, n, lastEnd, selected, value>>
input == <<found, original>>

Path == Paths[q]

Bytes(length) == [i \in 1 .. length |-> i - 1]

Init ==
    /\ \E i \in Inputs :
         /\ found = i.found
         /\ original = [x \in Range(Paths) |-> Bytes(i.length[x])]
    /\ request = original /\ content = original
    /\ q = 1 /\ pc = "sort"
    /\ items = <<>> /\ n = 0 /\ lastEnd = -1 /\ selected = <<>> /\ value = <<>>

\* The order of the sort: by start, the longer first, then by value.
Precedes(a, b) ==
    \/ a.start < b.start
    \/ a.start = b.start /\ a.stop > b.stop
    \/ a.start = b.start /\ a.stop = b.stop /\ a.value < b.value

\* Fault: the replacements are taken as the detectors found them.
AsFound(s) == {s}

\* The outcomes of sort.Slice: permutations with nothing out of order.
SortsOf(s) ==
    { t \in { [i \in DOMAIN s |-> s[perm[i]]] :
                perm \in {f \in [DOMAIN s -> DOMAIN s] : IsInjective(f)} } :
        \A i, j \in DOMAIN t : i < j => ~Precedes(t[j], t[i]) }

Sort ==
    /\ pc = "sort" /\ q <= Len(Paths)
    /\ items' \in SortsOf(found[Path])
    /\ value' = content[Path]
    /\ n' = 0 /\ lastEnd' = -1 /\ selected' = <<>>
    /\ pc' = "select"
    /\ UNCHANGED <<input, request, content, q>>

Item == items[n + 1]

\* Fault: a span past the end of the string is let through.
FitsUnbounded(item) == item.start >= lastEnd

\* A replacement is dropped when it is out of bounds or starts inside the one
\* selected before it.
Fits(item) == item.stop <= Len(value) /\ item.start >= lastEnd

Select ==
    /\ pc = "select" /\ n < Len(items)
    /\ n' = n + 1
    /\ IF Fits(Item)
       THEN selected' = Append(selected, Item) /\ lastEnd' = Item.stop
       ELSE UNCHANGED <<selected, lastEnd>>
    /\ UNCHANGED <<input, request, content, q, pc, items, value>>

\* From here on n counts the selected replacements not spliced yet.
Selected ==
    /\ pc = "select" /\ n = Len(items)
    /\ n' = Len(selected)
    /\ pc' = "splice"
    /\ UNCHANGED <<input, request, content, q, items, lastEnd, selected, value>>

ToSplice == selected[n]

\* Fault: the end of a span is taken for its last byte.
SpliceInclusive ==
    /\ pc = "splice" /\ n > 0
    /\ value' = SubSeq(value, 1, ToSplice.start) \o <<ToSplice.value>>
                    \o SubSeq(value, ToSplice.stop + 2, Len(value))
    /\ n' = n - 1
    /\ UNCHANGED <<input, request, content, q, pc, items, lastEnd, selected>>

Splice ==
    /\ pc = "splice" /\ n > 0
    /\ value' = SubSeq(value, 1, ToSplice.start) \o <<ToSplice.value>>
                    \o SubSeq(value, ToSplice.stop + 1, Len(value))
    /\ n' = n - 1
    /\ UNCHANGED <<input, request, content, q, pc, items, lastEnd, selected>>

\* The text is a string of the copy, the data are copied as they are
\* transformed, but a message is written where it stands.
Store ==
    /\ pc = "splice" /\ n = 0
    /\ content' = [content EXCEPT ![Path] = value]
    /\ request' = IF Path \in InPlace THEN [request EXCEPT ![Path] = value] ELSE request
    /\ q' = q + 1 /\ pc' = "sort"
    /\ items' = <<>> /\ lastEnd' = -1 /\ selected' = <<>> /\ value' = <<>>
    /\ UNCHANGED <<input, n>>

Terminated == pc = "sort" /\ q > Len(Paths) /\ UNCHANGED vars

Next == Sort \/ Select \/ Selected \/ Splice \/ Store \/ Terminated

Spec == Init /\ [][Next]_vars

-----------------------------------------------------------------------------
(* Properties. *)

TypeOK ==
    /\ q \in Nat \ {0} /\ q <= Len(Paths) + 1
    /\ pc \in {"sort", "select", "splice"}
    /\ items \in Seq(Replacement) /\ selected \in Seq(Replacement)
    /\ n \in Nat /\ lastEnd \in Int
    /\ value \in Seq(Int)
    /\ original \in [Range(Paths) -> Seq(Int)]
    /\ request \in [Range(Paths) -> Seq(Int)] /\ content \in [Range(Paths) -> Seq(Int)]
    /\ found \in [Range(Paths) -> Seq(Replacement)]

\* Every splice is made at offsets that still mean what the detector meant:
\* the span is inside the string, and nothing up to its end has moved, because
\* the spans selected do not overlap and are spliced from the right
\* (evaluator.go:514-526; a slice out of range would panic the request).
SpliceOffsetsHold ==
    pc = "splice" /\ n > 0 =>
        /\ ToSplice.stop <= Len(value)
        /\ \A i \in 1 .. ToSplice.stop : value[i] = original[Path][i]

Done == pc = "sort" /\ q > Len(Paths)

Span(item) == item.start .. (item.stop - 1)
Bound(x, item) == item.stop <= Len(original[x])
Matched(x) ==
    UNION {Span(i) : i \in {j \in Range(found[x]) : Bound(x, j)}}

\* Outside the spans reported the string is as it was, in the same order:
\* redaction never eats, moves or repeats a byte that no detector pointed at.
\* Bytes being their own offsets, the order is that of the numbers.
OnlyMatchesAreTouched ==
    Done => \A x \in Range(Paths) :
        LET kept(s) == {k \in DOMAIN s : s[k] >= 0 /\ s[k] \notin Matched(x)}
            here == kept(content[x])
        IN  /\ {content[x][k] : k \in here} = {original[x][k] : k \in kept(original[x])}
            /\ \A k, l \in here : k < l => content[x][k] < content[x][l]

\* No match survives whole: if a span is dropped, the one that takes its place
\* covers its first byte.  This needs the sort (evaluator.go:505-513).
NoMatchSurvivesWhole ==
    Done => \A x \in Range(Paths), i \in UNION {Range(found[y]) : y \in Range(Paths)} :
        i \in Range(found[x]) /\ Bound(x, i) /\ Span(i) # {} =>
            i.start \notin Range(content[x])

\* "A redacting policy replaces matches with `replacement`"
\* (docs/contracts/deterministic-detectors-v1.md:78-80): no byte of a match is
\* left in the transformed content.
MatchesAreReplaced ==
    Done => \A x \in Range(Paths) : Range(content[x]) \cap Matched(x) = {}

\* "... without mutating the request object"
\* (docs/contracts/deterministic-detectors-v1.md:79-80).
RequestIsNotMutated == request = original
=============================================================================
