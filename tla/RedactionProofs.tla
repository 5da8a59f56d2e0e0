-------------------------- MODULE RedactionProofs ---------------------------
(***************************************************************************)
(* Theorems about Redaction for strings of any length and any replacements. *)
(***************************************************************************)
EXTENDS Redaction, SequenceTheorems, FiniteSetTheorems, TLAPS

\* What a detector reports, and nothing about where it fits.
Proper(item) == item \in Replacement /\ item.start <= item.stop

\* A prefix, a token and a suffix: the prefix stays where it was.
LEMMA SplicePrefix ==
    ASSUME NEW s \in Seq(Int), NEW v \in Int, NEW a \in Nat, NEW b \in Nat,
           a <= b, b <= Len(s)
    PROVE  LET t == SubSeq(s, 1, a) \o <<v>> \o SubSeq(s, b + 1, Len(s))
           IN  /\ t \in Seq(Int)
               /\ a <= Len(t)
               /\ \A i \in 1 .. a : t[i] = s[i]
<1> DEFINE u == SubSeq(s, 1, a)
           w == SubSeq(s, b + 1, Len(s))
           uv == u \o <<v>>
<1>1. u \in Seq(Int) /\ Len(u) = a /\ \A i \in 1 .. a : u[i] = s[i]
  OBVIOUS
<1>2. w \in Seq(Int) /\ Len(w) \in Nat /\ <<v>> \in Seq(Int) /\ Len(<<v>>) = 1
  OBVIOUS
<1> HIDE DEF u, w
<1>3. uv \in Seq(Int) /\ Len(uv) = a + 1 /\ \A i \in 1 .. a : uv[i] = u[i]
  BY <1>1, <1>2, ConcatProperties
<1> HIDE DEF uv
<1>4. uv \o w \in Seq(Int) /\ Len(uv \o w) = a + 1 + Len(w)
      /\ \A i \in 1 .. a : (uv \o w)[i] = uv[i]
  <2>1. /\ uv \o w \in Seq(Int) /\ Len(uv \o w) = Len(uv) + Len(w)
        /\ \A i \in 1 .. Len(uv) + Len(w) :
              (uv \o w)[i] = IF i <= Len(uv) THEN uv[i] ELSE w[i - Len(uv)]
    <3>1. uv \in Seq(Int) /\ w \in Seq(Int)
      BY <1>2, <1>3
    <3> QED
      BY <3>1, ConcatProperties, Zenon
  <2>2. \A i \in 1 .. a : i \in 1 .. Len(uv) + Len(w) /\ i <= Len(uv)
    BY <1>2, <1>3
  <2> QED
    BY <1>3, <2>1, <2>2
<1>5. /\ uv \o w \in Seq(Int) /\ a <= Len(uv \o w)
      /\ \A i \in 1 .. a : (uv \o w)[i] = s[i]
  BY <1>1, <1>2, <1>3, <1>4
<1> QED
  BY <1>5 DEF uv, u, w

\* A sort returns replacements that were there to sort.
LEMMA SortType ==
    ASSUME NEW s \in Seq(Replacement), NEW t \in SortsOf(s)
    PROVE  /\ t \in Seq(Replacement)
           /\ \A i \in DOMAIN t : \E j \in DOMAIN s : t[i] = s[j]
<1>1. PICK perm \in [DOMAIN s -> DOMAIN s] : t = [i \in DOMAIN s |-> s[perm[i]]]
  BY DEF SortsOf
<1>2. DOMAIN s = 1 .. Len(s) /\ Len(s) \in Nat /\ \A j \in DOMAIN s : s[j] \in Replacement
  OBVIOUS
<1>3. t \in [1 .. Len(s) -> Replacement]
  BY <1>1, <1>2
<1> QED
  BY <1>1, <1>2, <1>3

-----------------------------------------------------------------------------

\* The spans selected are proper, and do not overlap.
Disjoint ==
    /\ \A i \in DOMAIN selected : selected[i].start <= selected[i].stop
    /\ \A i, j \in DOMAIN selected : i < j => selected[i].stop <= selected[j].start

\* While selecting, the string is the original, and everything selected lies in
\* it and before lastEnd.
Selecting ==
    pc = "select" =>
        /\ n <= Len(items)
        /\ value = original[Path]
        /\ \A i \in DOMAIN selected :
              selected[i].stop <= Len(value) /\ selected[i].stop <= lastEnd

\* While splicing, the string is the original up to the end of the next span.
Splicing == pc = "splice" => n <= Len(selected) /\ SpliceOffsetsHold

\* The strings not visited yet are the request's.
NotVisited ==
    /\ pc # "sort" => q \in DOMAIN Paths
    /\ \A j \in DOMAIN Paths : j >= q => content[Paths[j]] = original[Paths[j]]

ProperItems ==
    /\ \A x \in Range(Paths) : \A j \in DOMAIN found[x] :
          found[x][j].start <= found[x][j].stop
    /\ \A j \in DOMAIN items : items[j].start <= items[j].stop

Inv == TypeOK /\ ProperItems /\ NotVisited /\ Disjoint /\ Selecting /\ Splicing

LEMMA InvInit == Init => Inv
<1> SUFFICES ASSUME Init PROVE Inv
  OBVIOUS
<1>1. PICK i \in Inputs : /\ found = i.found
                         /\ original = [x \in Range(Paths) |-> Bytes(i.length[x])]
  BY DEF Init
<1>2. /\ found \in [Range(Paths) -> Seq(Replacement)]
      /\ \A x \in Range(Paths) : \A j \in DOMAIN found[x] :
            found[x][j].start <= found[x][j].stop
  BY <1>1, InputsAssumption
<1>3. original \in [Range(Paths) -> Seq(Int)]
  <2>1. \A x \in Range(Paths) : i.length[x] \in Nat
    BY InputsAssumption
  <2>2. ASSUME NEW m \in Nat PROVE Bytes(m) \in Seq(Int)
    BY DEF Bytes
  <2> QED
    BY <1>1, <2>1, <2>2
<1>4. /\ <<>> \in Seq(Replacement) /\ <<>> \in Seq(Int)
      /\ DOMAIN <<>> = {}
  OBVIOUS
<1>5. TypeOK
  <2>1. 1 <= Len(Paths) + 1
    BY PathsAssumption, LenProperties
  <2> QED
    BY <1>2, <1>3, <1>4, <2>1 DEF Init, TypeOK
<1> QED
  BY <1>2, <1>4, <1>5
  DEF Init, Inv, ProperItems, NotVisited, Disjoint, Selecting, Splicing

LEMMA InvStep == Inv /\ [Next]_vars => Inv'
<1> SUFFICES ASSUME Inv, [Next]_vars PROVE Inv'
  OBVIOUS
<1>0. DOMAIN Paths = 1 .. Len(Paths) /\ Len(Paths) \in Nat
  BY PathsAssumption
<1>1. CASE Sort
  <2>1. q \in DOMAIN Paths /\ Path \in Range(Paths)
    BY <1>0, <1>1 DEF Sort, Inv, TypeOK, Range, Path
  <2>2. found[Path] \in Seq(Replacement)
    BY <2>1 DEF Inv, TypeOK
  <2>3. /\ items' \in Seq(Replacement)
        /\ \A j \in DOMAIN items' : items'[j].start <= items'[j].stop
    BY <1>1, <2>1, <2>2, SortType DEF Sort, Inv, ProperItems
  <2>4. /\ value' = content[Path] /\ content[Path] \in Seq(Int)
        /\ content[Path] = original[Path]
    BY <1>1, <2>1 DEF Sort, Inv, TypeOK, NotVisited, Path
  <2>5. /\ selected' = <<>> /\ n' = 0 /\ lastEnd' = -1 /\ pc' = "select"
        /\ UNCHANGED <<found, original, request, content, q>>
    BY <1>1 DEF Sort, input
  <2>6. Len(items') \in Nat
    BY <2>3
  <2>7. TypeOK'
    BY <2>3, <2>4, <2>5 DEF Inv, TypeOK
  <2>8. ProperItems' /\ NotVisited' /\ Disjoint' /\ Selecting' /\ Splicing'
    BY <2>1, <2>3, <2>4, <2>5, <2>6
    DEF Inv, ProperItems, NotVisited, Disjoint, Selecting, Splicing, Path
  <2> QED
    BY <2>7, <2>8 DEF Inv
<1>2. CASE Select
  <2>1. /\ n + 1 \in DOMAIN items /\ Len(items) \in Nat /\ n + 1 <= Len(items)
        /\ Item \in Replacement /\ Item.start <= Item.stop
    BY <1>2 DEF Select, Inv, TypeOK, ProperItems, Item
  <2>2. /\ n' = n + 1 /\ pc = "select" /\ pc' = "select"
        /\ UNCHANGED <<found, original, request, content, q, items, value>>
    BY <1>2 DEF Select, input
  <2>3. selected \in Seq(Replacement) /\ value \in Seq(Int)
    BY DEF Inv, TypeOK
  <2>4. CASE Fits(Item)
    <3>1. selected' = Append(selected, Item) /\ lastEnd' = Item.stop
      BY <1>2, <2>4 DEF Select
    <3>2. /\ selected' \in Seq(Replacement) /\ Len(selected) \in Nat
          /\ DOMAIN selected' = 1 .. (Len(selected) + 1)
          /\ DOMAIN selected = 1 .. Len(selected)
          /\ \A i \in DOMAIN selected : selected'[i] = selected[i]
          /\ selected'[Len(selected) + 1] = Item
      BY <2>1, <2>3, <3>1, AppendProperties, LenProperties
    <3>3. Item.stop <= Len(value) /\ Item.start >= lastEnd
      BY <2>4 DEF Fits
    <3>4. /\ lastEnd \in Int /\ Item.start \in Nat /\ Item.stop \in Nat
          /\ Len(value) \in Nat
          /\ \A i \in DOMAIN selected :
               selected[i].start \in Nat /\ selected[i].stop \in Nat
      <4>1. \A i \in DOMAIN selected : selected[i] \in Replacement
        BY <2>3
      <4>2. lastEnd \in Int /\ Len(value) \in Nat
        BY <2>3 DEF Inv, TypeOK
      <4> QED
        BY <2>1, <4>1, <4>2 DEF Replacement
    <3>5. \A i \in DOMAIN selected : selected[i].stop <= lastEnd
      BY <2>2 DEF Inv, Selecting
    <3>6. TypeOK'
      BY <2>2, <3>1, <3>2, <3>4 DEF Inv, TypeOK
    <3>7. Disjoint'
      <4>1. ASSUME NEW i \in DOMAIN selected'
            PROVE  selected'[i].start <= selected'[i].stop
        <5>1. CASE i = Len(selected) + 1
          BY <2>1, <3>2, <5>1
        <5>2. CASE i # Len(selected) + 1
          BY <3>2, <4>1, <5>2 DEF Inv, Disjoint
        <5> QED
          BY <5>1, <5>2
      <4>2. ASSUME NEW i \in DOMAIN selected', NEW j \in DOMAIN selected', i < j
            PROVE  selected'[i].stop <= selected'[j].start
        <5>1. i \in DOMAIN selected
          BY <3>2, <4>2
        <5>2. CASE j = Len(selected) + 1
          <6>1. selected[i].stop <= lastEnd /\ lastEnd <= Item.start
            BY <3>3, <3>4, <3>5, <5>1
          <6>2. selected'[i] = selected[i] /\ selected'[j] = Item
            BY <3>2, <5>1, <5>2
          <6>3. selected[i].stop <= Item.start
            BY <3>4, <5>1, <6>1
          <6> QED
            BY <6>2, <6>3
        <5>3. CASE j # Len(selected) + 1
          BY <3>2, <4>2, <5>1, <5>3 DEF Inv, Disjoint
        <5> QED
          BY <5>2, <5>3
      <4> QED
        BY <4>1, <4>2 DEF Disjoint
    <3>8. Selecting'
      BY <2>1, <2>2, <3>1, <3>2, <3>3, <3>4, <3>5 DEF Inv, Selecting, Path
    <3> QED
      BY <2>2, <3>6, <3>7, <3>8 DEF Inv, ProperItems, NotVisited, Splicing
  <2>5. CASE ~Fits(Item)
    BY <1>2, <2>1, <2>2, <2>5
    DEF Select, Inv, TypeOK, ProperItems, NotVisited, Disjoint, Selecting,
        Splicing, Path
  <2> QED
    BY <2>4, <2>5
<1>3. CASE Selected
  <2>1. /\ n' = Len(selected) /\ pc = "select" /\ pc' = "splice"
        /\ UNCHANGED <<found, original, request, content, q, items, lastEnd,
                       selected, value>>
    BY <1>3 DEF Selected, input
  <2>2. selected \in Seq(Replacement) /\ Len(selected) \in Nat
    BY DEF Inv, TypeOK
  <2>3. Splicing'
    <3>1. ASSUME n' > 0
          PROVE  /\ selected[n'].stop <= Len(value)
                 /\ value = original[Path]
      BY <2>1, <2>2, <3>1 DEF Inv, Selecting
    <3> QED
      BY <2>1, <2>2, <3>1 DEF Splicing, SpliceOffsetsHold, ToSplice, Path
  <2> QED
    BY <2>1, <2>2, <2>3
    DEF Inv, TypeOK, ProperItems, NotVisited, Disjoint, Selecting
<1>4. CASE Splice
  <2>1. /\ n > 0 /\ n' = n - 1 /\ pc = "splice" /\ pc' = "splice"
        /\ UNCHANGED <<found, original, request, content, q, items, lastEnd, selected>>
    BY <1>4 DEF Splice, input
  <2>2. n \in DOMAIN selected /\ ToSplice \in Replacement
    BY <2>1 DEF Inv, TypeOK, Splicing, ToSplice
  <2>3. /\ ToSplice.start \in Nat /\ ToSplice.stop \in Nat /\ ToSplice.value \in Int
        /\ ToSplice.start <= ToSplice.stop /\ ToSplice.stop <= Len(value)
        /\ value \in Seq(Int)
        /\ \A i \in 1 .. ToSplice.stop : value[i] = original[Path][i]
    BY <2>1, <2>2
    DEF Inv, TypeOK, Splicing, SpliceOffsetsHold, Disjoint, ToSplice, Replacement
  <2>4. /\ value' \in Seq(Int) /\ ToSplice.start <= Len(value')
        /\ \A i \in 1 .. ToSplice.start : value'[i] = value[i]
    BY <1>4, <2>3, SplicePrefix DEF Splice
  <2>5. Splicing'
    <3>1. ASSUME n' > 0
          PROVE  /\ selected[n'].stop <= Len(value')
                 /\ \A i \in 1 .. selected[n'].stop : value'[i] = original[Path][i]
      <4>1. n' \in DOMAIN selected /\ n' < n
        BY <2>1, <2>2, <3>1 DEF Inv, TypeOK
      <4>2. selected[n'].stop \in Nat /\ selected[n'].stop <= ToSplice.start
        <5>1. selected[n'].stop <= selected[n].start
          BY <2>2, <4>1 DEF Inv, Disjoint
        <5>2. selected[n'] \in Replacement
          BY <4>1 DEF Inv, TypeOK
        <5> QED
          BY <5>1, <5>2 DEF ToSplice, Replacement
      <4>3. Len(value') \in Nat
        BY <2>4
      <4>4. selected[n'].stop <= Len(value')
        BY <2>3, <2>4, <4>2, <4>3
      <4>5. \A i \in 1 .. selected[n'].stop :
              i \in 1 .. ToSplice.start /\ i \in 1 .. ToSplice.stop
        BY <2>3, <4>2
      <4> QED
        BY <2>3, <2>4, <4>4, <4>5
    <3>2. n' <= Len(selected)
      BY <2>1 DEF Inv, TypeOK, Splicing
    <3> QED
      BY <2>1, <3>1, <3>2 DEF Splicing, SpliceOffsetsHold, ToSplice, Path
  <2> QED
    BY <2>1, <2>4, <2>5
    DEF Inv, TypeOK, ProperItems, NotVisited, Disjoint, Selecting
<1>5. CASE Store
  <2>1. /\ pc = "splice" /\ pc' = "sort" /\ q' = q + 1 /\ items' = <<>>
        /\ selected' = <<>> /\ value' = <<>> /\ lastEnd' = -1
        /\ UNCHANGED <<found, original, n>>
        /\ content' = [content EXCEPT ![Path] = value]
        /\ request' = request \/ request' = [request EXCEPT ![Path] = value]
    BY <1>5 DEF Store, input
  <2>2. q \in DOMAIN Paths /\ q \in Nat \ {0} /\ q <= Len(Paths)
    BY <1>0, <2>1 DEF Inv, TypeOK, NotVisited
  <2>3. value \in Seq(Int) /\ <<>> \in Seq(Replacement) /\ <<>> \in Seq(Int)
        /\ DOMAIN <<>> = {}
    BY DEF Inv, TypeOK
  <2>4. TypeOK'
    <3>1. /\ content' \in [Range(Paths) -> Seq(Int)]
          /\ request' \in [Range(Paths) -> Seq(Int)]
      BY <2>1, <2>3 DEF Inv, TypeOK
    <3>2. q' \in Nat \ {0} /\ q' <= Len(Paths) + 1
      BY <1>0, <2>1, <2>2
    <3>3. /\ original \in [Range(Paths) -> Seq(Int)] /\ n \in Nat
          /\ found \in [Range(Paths) -> Seq(Replacement)]
      BY DEF Inv, TypeOK
    <3>4. -1 \in Int
      OBVIOUS
    <3> QED
      BY <2>1, <2>3, <3>1, <3>2, <3>3, <3>4 DEF TypeOK
  <2>5. NotVisited'
    <3>1. \A j \in DOMAIN Paths : j >= q + 1 => Paths[j] # Path
      BY <1>0, <2>2, PathsAssumption DEF IsInjective, Path
    <3>2. \A j \in DOMAIN Paths : Paths[j] \in Range(Paths)
      BY DEF Range
    <3>3. \A j \in DOMAIN Paths : j >= q + 1 => content'[Paths[j]] = content[Paths[j]]
      BY <2>1, <3>1, <3>2 DEF Inv, TypeOK
    <3> QED
      BY <1>0, <2>1, <2>2, <3>3 DEF Inv, NotVisited
  <2> QED
    BY <2>1, <2>3, <2>4, <2>5
    DEF Inv, ProperItems, Disjoint, Selecting, Splicing
<1>6. CASE UNCHANGED vars
  BY <1>6 DEF vars, Inv, TypeOK, ProperItems, NotVisited, Disjoint, Selecting,
              Splicing, SpliceOffsetsHold, ToSplice, Path
<1> QED
  BY <1>1, <1>2, <1>3, <1>4, <1>5, <1>6 DEF Next, Terminated

\* No splice is out of range or at an offset that has moved, for strings of any
\* length and any number of replacements.
THEOREM SplicesAreSafe == Spec => []SpliceOffsetsHold
<1>1. Inv => SpliceOffsetsHold
  BY DEF Inv, Splicing, SpliceOffsetsHold
<1> QED
  BY <1>1, InvInit, InvStep, PTL DEF Spec

-----------------------------------------------------------------------------
(* No match survives whole. *)

\* A sort keeps every replacement, and puts them in the order of their starts.
LEMMA SortKeeps ==
    ASSUME NEW s \in Seq(Replacement), NEW t \in SortsOf(s)
    PROVE  /\ \A j \in DOMAIN s : \E i \in DOMAIN t : t[i] = s[j]
           /\ \A i, j \in DOMAIN t : i < j => t[i].start <= t[j].start
<1>1. PICK perm \in {f \in [DOMAIN s -> DOMAIN s] : IsInjective(f)} :
         t = [i \in DOMAIN s |-> s[perm[i]]]
  BY DEF SortsOf
<1>2. DOMAIN s = 1 .. Len(s) /\ Len(s) \in Nat /\ \A j \in DOMAIN s : s[j] \in Replacement
  OBVIOUS
<1>3. perm \in Injection(DOMAIN s, DOMAIN s)
  BY <1>1 DEF Injection, IsInjective
<1>4. IsFiniteSet(DOMAIN s)
  BY <1>2, FS_Interval
<1>5. perm \in Surjection(DOMAIN s, DOMAIN s)
  BY <1>3, <1>4, FS_Injection
<1>6. \A j \in DOMAIN s : \E i \in DOMAIN s : perm[i] = j
  BY <1>5 DEF Surjection
<1>7. \A i, j \in DOMAIN t : i < j => t[i].start <= t[j].start
  <2>1. \A i, j \in DOMAIN t : i < j => ~Precedes(t[j], t[i])
    BY DEF SortsOf
  <2>2. \A i \in DOMAIN t : t[i].start \in Nat
    BY <1>1, <1>2 DEF Replacement
  <2>3. \A i, j \in DOMAIN t : t[j].start < t[i].start => Precedes(t[j], t[i])
    BY DEF Precedes
  <2> QED
    BY <2>1, <2>2, <2>3
<1> QED
  BY <1>1, <1>6, <1>7

Spliced(s, v, a, b) == SubSeq(s, 1, a) \o <<v>> \o SubSeq(s, b + 1, Len(s))

\* Place by place: the bytes before the span, the token, and the bytes after it.
IsSplice(t, s, v, a, b) ==
    /\ t \in Seq(Int) /\ Len(t) = a + 1 + (Len(s) - b)
    /\ \A k \in 1 .. a : t[k] = s[k]
    /\ t[a + 1] = v
    /\ \A k \in 1 .. (Len(s) - b) : t[a + 1 + k] = s[b + k]

LEMMA SpliceAt ==
    ASSUME NEW s \in Seq(Int), NEW v \in Int, NEW a \in Nat, NEW b \in Nat,
           a <= b, b <= Len(s)
    PROVE  IsSplice(Spliced(s, v, a, b), s, v, a, b)
<1> DEFINE u == SubSeq(s, 1, a)
           w == SubSeq(s, b + 1, Len(s))
           uv == u \o <<v>>
           t == uv \o w
<1>1. u \in Seq(Int) /\ Len(u) = a /\ \A i \in 1 .. a : u[i] = s[i]
  OBVIOUS
<1>2. /\ w \in Seq(Int) /\ Len(w) = Len(s) - b
      /\ \A i \in 1 .. (Len(s) - b) : w[i] = s[b + i]
  OBVIOUS
<1>3. <<v>> \in Seq(Int) /\ Len(<<v>>) = 1 /\ <<v>>[1] = v
  OBVIOUS
<1>4. Len(s) \in Nat
  OBVIOUS
<1> HIDE DEF u, w
<1>5. /\ uv \in Seq(Int) /\ Len(uv) = a + 1
      /\ \A i \in 1 .. (a + 1) : uv[i] = (IF i <= a THEN u[i] ELSE v)
  BY <1>1, <1>3, ConcatProperties
<1> HIDE DEF uv
<1>6. /\ t \in Seq(Int) /\ Len(t) = Len(uv) + Len(w)
      /\ \A i \in 1 .. Len(uv) + Len(w) :
            t[i] = (IF i <= Len(uv) THEN uv[i] ELSE w[i - Len(uv)])
  BY <1>2, <1>5, ConcatProperties, Zenon
<1> HIDE DEF t
<1>7. ASSUME NEW k \in 1 .. a PROVE t[k] = s[k]
  <2>1. k \in 1 .. Len(uv) + Len(w) /\ k \in 1 .. (a + 1) /\ k <= Len(uv)
    BY <1>2, <1>4, <1>5
  <2>2. t[k] = uv[k]
    BY <1>6, <2>1, Zenon
  <2>3. uv[k] = u[k]
    BY <1>5, <2>1
  <2> QED
    BY <1>1, <2>2, <2>3
<1>8. t[a + 1] = v
  <2>1. a + 1 \in 1 .. Len(uv) + Len(w) /\ a + 1 \in 1 .. (a + 1) /\ a + 1 <= Len(uv)
        /\ ~(a + 1 <= a)
    BY <1>2, <1>4, <1>5
  <2>2. t[a + 1] = uv[a + 1]
    BY <1>6, <2>1, Zenon
  <2> QED
    BY <1>5, <2>1, <2>2
<1>9. ASSUME NEW k \in 1 .. (Len(s) - b) PROVE t[a + 1 + k] = s[b + k]
  <2> DEFINE j == a + 1 + k
  <2>1. j \in 1 .. Len(uv) + Len(w) /\ ~(j <= Len(uv)) /\ j - Len(uv) = k
    BY <1>2, <1>4, <1>5
  <2> HIDE DEF j
  <2>2. t[j] = w[k]
    BY <1>6, <2>1, Zenon
  <2> QED
    BY <1>2, <2>2 DEF j
<1>10. t \in Seq(Int) /\ Len(t) = a + 1 + (Len(s) - b)
  BY <1>2, <1>5, <1>6
<1> QED
  BY <1>7, <1>8, <1>9, <1>10 DEF Spliced, IsSplice, t, uv, u, w

\* The same, without the places.
LEMMA SpliceElements ==
    ASSUME NEW s \in Seq(Int), NEW v \in Int, NEW a \in Nat, NEW b \in Nat,
           a <= b, b <= Len(s)
    PROVE  LET t == SubSeq(s, 1, a) \o <<v>> \o SubSeq(s, b + 1, Len(s))
           IN  \A k \in DOMAIN t : \/ k \in 1 .. a /\ t[k] = s[k]
                                   \/ t[k] = v
                                   \/ \E l \in DOMAIN s : l > b /\ t[k] = s[l]
<1>1. PICK t : t = Spliced(s, v, a, b)
  OBVIOUS
<1>2. IsSplice(t, s, v, a, b)
  BY <1>1, SpliceAt, Zenon
<1>3. DOMAIN s = 1 .. Len(s) /\ Len(s) \in Nat
  OBVIOUS
<1> SUFFICES ASSUME NEW k \in DOMAIN t
             PROVE  \/ k \in 1 .. a /\ t[k] = s[k]
                    \/ t[k] = v
                    \/ \E l \in DOMAIN s : l > b /\ t[k] = s[l]
  BY <1>1 DEF Spliced
<1>4. k \in Nat /\ 1 <= k /\ k <= a + 1 + (Len(s) - b)
  BY <1>2 DEF IsSplice
<1>5. CASE k > a + 1
  <2> DEFINE m == k - (a + 1)
  <2>1. m \in 1 .. (Len(s) - b) /\ k = a + 1 + m /\ b + m \in DOMAIN s /\ b + m > b
    BY <1>3, <1>4, <1>5
  <2> QED
    BY <1>2, <2>1 DEF IsSplice
<1>6. CASE k = a + 1
  BY <1>2, <1>6 DEF IsSplice
<1>7. CASE k <= a
  <2>1. k \in 1 .. a
    BY <1>4, <1>7
  <2> QED
    BY <1>2, <2>1, Zenon DEF IsSplice
<1> QED
  BY <1>4, <1>5, <1>6, <1>7

\* The item has a byte to lose.
Needs(item, x) == item.stop <= Len(original[x]) /\ item.start < item.stop

\* Its first byte is in a span that is selected.
Covered(item) == \E m \in DOMAIN selected :
    selected[m].start <= item.start /\ item.start < selected[m].stop

\* A byte that is none of the span's.
Outside(byte, item) == byte < 0 \/ byte < item.start \/ byte >= item.stop

\* A byte of a string is its own offset, and what replaces it is not one.
OwnOffsets ==
    /\ \A x \in Range(Paths) : \A k \in DOMAIN original[x] : original[x][k] = k - 1
    /\ \A x \in Range(Paths) : \A j \in DOMAIN found[x] : found[x][j].value < 0
    /\ \A j \in DOMAIN items : items[j].value < 0
    /\ \A j \in DOMAIN selected : selected[j].value < 0

\* The items are those found in the string, in the order of their starts.
AllInOrder ==
    /\ pc # "sort" => \A j \in DOMAIN found[Path] : \E a \in DOMAIN items : items[a] = found[Path][j]
    /\ \A a, b \in DOMAIN items : a < b => items[a].start <= items[b].start

\* What was dropped starts inside a span selected before it, which starts no later.
Choosing ==
    /\ pc = "select" =>
          /\ \A a \in DOMAIN items : a <= n /\ Needs(items[a], Path) => Covered(items[a])
          /\ \A m \in DOMAIN selected, b \in DOMAIN items :
                b > n => selected[m].start <= items[b].start
          /\ lastEnd < 0 \/ \E m \in DOMAIN selected : selected[m].stop = lastEnd
    /\ pc = "splice" => \A a \in DOMAIN items : Needs(items[a], Path) => Covered(items[a])

\* The spans spliced so far are gone, and what stands after the end of the next
\* one comes from there.
Gone ==
    pc = "splice" =>
        /\ \A m \in DOMAIN selected : selected[m].stop <= Len(original[Path])
        /\ \A m \in DOMAIN selected, k \in DOMAIN value : m > n => Outside(value[k], selected[m])
        /\ n > 0 => \A k \in DOMAIN value :
              k > ToSplice.stop => value[k] < 0 \/ value[k] >= ToSplice.stop

\* Of the strings that are done no match is left whole.
Stored ==
    \A x \in DOMAIN Paths : x < q =>
        \A j \in DOMAIN found[Paths[x]], k \in DOMAIN content[Paths[x]] :
            Needs(found[Paths[x]][j], Paths[x]) =>
                content[Paths[x]][k] # found[Paths[x]][j].start

Survival == OwnOffsets /\ AllInOrder /\ Choosing /\ Gone /\ Stored

LEMMA SurvivalInit == Init => Survival
<1> SUFFICES ASSUME Init PROVE Survival
  OBVIOUS
<1>1. PICK i \in Inputs : /\ found = i.found
                         /\ original = [x \in Range(Paths) |-> Bytes(i.length[x])]
  BY DEF Init
<1>2. ASSUME NEW x \in Range(Paths), NEW k \in DOMAIN original[x]
      PROVE  original[x][k] = k - 1
  BY <1>1, <1>2 DEF Bytes
<1>3. \A x \in Range(Paths) : \A j \in DOMAIN found[x] : found[x][j].value < 0
  BY <1>1, InputsAssumption
<1>4. /\ DOMAIN items = {} /\ DOMAIN selected = {} /\ pc = "sort" /\ q = 1
  BY DEF Init
<1>5. \A x \in DOMAIN Paths : ~(x < q)
  BY <1>4, PathsAssumption
<1> QED
  BY <1>2, <1>3, <1>4, <1>5 DEF Survival, OwnOffsets, AllInOrder, Choosing, Gone, Stored

LEMMA SortSurvives == Inv /\ Survival /\ Sort => Survival'
<1> SUFFICES ASSUME Inv, Survival, Sort PROVE Survival'
  OBVIOUS
<1>0. DOMAIN Paths = 1 .. Len(Paths) /\ Len(Paths) \in Nat
  BY PathsAssumption
<1>1. q \in DOMAIN Paths /\ Path \in Range(Paths)
  <2>1. q \in Nat \ {0} /\ q <= Len(Paths)
    BY DEF Sort, Inv, TypeOK
  <2>2. q \in DOMAIN Paths
    BY <1>0, <2>1
  <2> QED
    BY <2>2 DEF Range, Path
<1>2. found[Path] \in Seq(Replacement) /\ items' \in SortsOf(found[Path])
  BY <1>1 DEF Inv, TypeOK, Sort
<1>3. /\ selected' = <<>> /\ n' = 0 /\ lastEnd' = -1 /\ pc' = "select"
      /\ UNCHANGED <<found, original, content, q>> /\ DOMAIN selected' = {}
  BY DEF Sort, input
<1>4. /\ items' \in Seq(Replacement)
      /\ \A i \in DOMAIN items' : \E j \in DOMAIN found[Path] : items'[i] = found[Path][j]
  BY <1>2, SortType
<1>5. /\ \A j \in DOMAIN found[Path] : \E i \in DOMAIN items' : items'[i] = found[Path][j]
      /\ \A i, j \in DOMAIN items' : i < j => items'[i].start <= items'[j].start
  BY <1>2, SortKeeps
<1>6. OwnOffsets'
  BY <1>1, <1>3, <1>4 DEF Survival, OwnOffsets
<1>7. AllInOrder' /\ Gone' /\ Stored'
  BY <1>3, <1>5 DEF Survival, AllInOrder, Gone, Stored, Path, Needs
<1>8. Choosing'
  <2>1. \A a \in DOMAIN items' : ~(a <= 0)
    BY <1>4
  <2> QED
    BY <1>3, <2>1 DEF Choosing
<1> QED
  BY <1>6, <1>7, <1>8 DEF Survival

\* What is selected covers itself, and what is dropped is covered already.
LEMMA SelectSurvives == Inv /\ Survival /\ Select => Survival'
<1> SUFFICES ASSUME Inv, Survival, Select PROVE Survival'
  OBVIOUS
<1>1. /\ n + 1 \in DOMAIN items /\ n \in Nat /\ Item = items[n + 1]
      /\ items \in Seq(Replacement) /\ selected \in Seq(Replacement) /\ lastEnd \in Int
      /\ Len(value) \in Nat /\ value = original[Path]
  <2>1. pc = "select" /\ n < Len(items) /\ n \in Nat /\ items \in Seq(Replacement)
    BY DEF Select, Inv, TypeOK
  <2>2. n + 1 \in DOMAIN items
    BY <2>1
  <2>3. value = original[Path] /\ value \in Seq(Int)
    BY <2>1 DEF Inv, TypeOK, Selecting
  <2> QED
    BY <2>1, <2>2, <2>3 DEF Inv, TypeOK, Item
<1>2. /\ n' = n + 1 /\ pc = "select" /\ pc' = "select"
      /\ UNCHANGED <<found, original, content, q, items, value>>
  BY DEF Select, input
<1>3. \A b \in DOMAIN items : /\ items[b].start \in Nat /\ items[b].stop \in Nat
                              /\ n + 1 < b => items[n + 1].start <= items[b].start
  <2>1. \A b \in DOMAIN items : items[b] \in Replacement
    BY <1>1
  <2>2. \A a, b \in DOMAIN items : a < b => items[a].start <= items[b].start
    BY DEF Survival, AllInOrder
  <2> QED
    BY <1>1, <2>1, <2>2 DEF Replacement
<1>4. \A b \in DOMAIN items : b \in Nat /\ (b <= n + 1 <=> b <= n \/ b = n + 1)
                              /\ (b > n + 1 => b > n)
  BY <1>1
<1>5. /\ \A a \in DOMAIN items : a <= n /\ Needs(items[a], Path) => Covered(items[a])
      /\ \A m \in DOMAIN selected, b \in DOMAIN items :
            b > n => selected[m].start <= items[b].start
      /\ lastEnd < 0 \/ \E m \in DOMAIN selected : selected[m].stop = lastEnd
  BY <1>2 DEF Survival, Choosing
<1>6. Path' = Path /\ \A item, x : Needs(item, x)' = Needs(item, x)
  BY <1>2 DEF Path, Needs
<1>7. CASE Fits(Item)
  <2>1. selected' = Append(selected, Item) /\ lastEnd' = Item.stop
    BY <1>7 DEF Select
  <2> DEFINE last == Len(selected) + 1
  <2>2. /\ DOMAIN selected' = DOMAIN selected \cup {last} /\ selected'[last] = Item
        /\ \A m \in DOMAIN selected : selected'[m] = selected[m]
    BY <1>1, <2>1
  <2> HIDE DEF last
  <2>3. ASSUME NEW a \in DOMAIN items, a <= n + 1, Needs(items[a], Path)
        PROVE  Covered(items[a])'
    <3>1. CASE a <= n
      <4>1. PICK m \in DOMAIN selected :
               selected[m].start <= items[a].start /\ items[a].start < selected[m].stop
        BY <1>5, <2>3, <3>1 DEF Covered
      <4>2. m \in DOMAIN selected' /\ selected'[m] = selected[m]
        BY <2>2
      <4> QED
        BY <1>2, <4>1, <4>2 DEF Covered
    <3>2. CASE a = n + 1
      <4>1. Item.start <= items[a].start /\ items[a].start < Item.stop
        BY <1>1, <1>3, <2>3, <3>2 DEF Needs
      <4> QED
        BY <1>2, <2>2, <4>1 DEF Covered
    <3> QED
      BY <1>4, <2>3, <3>1, <3>2
  <2>4. ASSUME NEW m \in DOMAIN selected', NEW b \in DOMAIN items, b > n + 1
        PROVE  selected'[m].start <= items[b].start
    <3>1. CASE m = last
      BY <1>1, <1>3, <1>4, <2>2, <2>4, <3>1
    <3>2. CASE m \in DOMAIN selected
      BY <1>4, <1>5, <2>2, <2>4, <3>2
    <3> QED
      BY <2>2, <3>1, <3>2
  <2>5. Choosing'
    BY <1>2, <1>6, <2>1, <2>2, <2>3, <2>4 DEF Choosing
  <2>6. \A j \in DOMAIN selected' : selected'[j].value < 0
    BY <1>1, <2>2 DEF Survival, OwnOffsets
  <2>7. OwnOffsets' /\ AllInOrder' /\ Gone' /\ Stored'
    BY <1>2, <2>6 DEF Survival, OwnOffsets, AllInOrder, Gone, Stored, Path, Needs
  <2> QED
    BY <2>5, <2>7 DEF Survival
<1>8. CASE ~Fits(Item)
  <2>1. UNCHANGED <<selected, lastEnd>>
    BY <1>8 DEF Select
  <2>2. ASSUME Needs(Item, Path) PROVE Covered(Item)
    <3>1. Item.stop <= Len(value) /\ Item.start < Item.stop
      BY <1>1, <2>2 DEF Needs
    <3>2. Item.start < lastEnd /\ Item.start \in Nat
      BY <1>1, <1>3, <1>8, <3>1 DEF Fits
    <3>3. PICK m \in DOMAIN selected : selected[m].stop = lastEnd
      BY <1>1, <1>5, <3>2
    <3>4. selected[m].start <= Item.start
      BY <1>1, <1>5
    <3> QED
      BY <3>2, <3>3, <3>4 DEF Covered
  <2>3. ASSUME NEW a \in DOMAIN items, a <= n + 1, Needs(items[a], Path)
        PROVE  Covered(items[a])
    BY <1>1, <1>4, <1>5, <2>2, <2>3
  <2>4. \A item : Covered(item)' = Covered(item)
    BY <2>1 DEF Covered
  <2>5. \A m \in DOMAIN selected, b \in DOMAIN items :
           b > n + 1 => selected[m].start <= items[b].start
    BY <1>4, <1>5
  <2>6. Choosing'
    BY <1>2, <1>5, <1>6, <2>1, <2>3, <2>4, <2>5 DEF Choosing
  <2>7. OwnOffsets' /\ AllInOrder' /\ Gone' /\ Stored'
    BY <1>2, <2>1 DEF Survival, OwnOffsets, AllInOrder, Gone, Stored, Path, Needs
  <2> QED
    BY <2>6, <2>7 DEF Survival
<1> QED
  BY <1>7, <1>8

LEMMA SelectedSurvives == Inv /\ Survival /\ Selected => Survival'
<1> SUFFICES ASSUME Inv, Survival, Selected PROVE Survival'
  OBVIOUS
<1>1. /\ pc = "select" /\ pc' = "splice" /\ n = Len(items) /\ n' = Len(selected)
      /\ UNCHANGED <<found, original, content, q, items, lastEnd, selected, value>>
  BY DEF Selected, input
<1>2. /\ selected \in Seq(Replacement) /\ items \in Seq(Replacement)
      /\ value = original[Path] /\ q \in DOMAIN Paths /\ Path \in Range(Paths)
  BY <1>1 DEF Inv, TypeOK, Selecting, NotVisited, Path, Range
<1>3. /\ \A a \in DOMAIN items : a <= n
      /\ \A m \in DOMAIN selected : ~(m > Len(selected))
  BY <1>1, <1>2
<1>4. \A k \in DOMAIN value : value[k] = k - 1 /\ k \in Nat
  BY <1>2 DEF Survival, OwnOffsets, Inv, TypeOK
<1>5. Gone'
  <2>1. ASSUME n' > 0 PROVE selected[n'].stop \in Nat
    <3>1. n' \in DOMAIN selected
      BY <1>1, <1>2, <2>1
    <3>2. selected[n'] \in Replacement
      BY <1>2, <3>1
    <3> QED
      BY <3>2 DEF Replacement
  <2>2. ASSUME n' > 0, NEW k \in DOMAIN value, k > selected[n'].stop
        PROVE  value[k] >= selected[n'].stop
    BY <1>4, <2>1, <2>2
  <2>3. \A m \in DOMAIN selected : selected[m].stop <= Len(original[Path])
    BY <1>1 DEF Inv, Selecting
  <2> QED
    BY <1>1, <1>3, <2>2, <2>3 DEF Gone, ToSplice, Path
<1>6. Choosing'
  <2>1. \A a \in DOMAIN items : Needs(items[a], Path) => Covered(items[a])
    BY <1>1, <1>3 DEF Survival, Choosing
  <2>2. (\A a \in DOMAIN items : Needs(items[a], Path) => Covered(items[a]))'
    BY <1>1, <2>1 DEF Covered, Needs, Path
  <2> QED
    BY <1>1, <2>2 DEF Choosing
<1>7. OwnOffsets' /\ AllInOrder' /\ Stored'
  BY <1>1 DEF Survival, OwnOffsets, AllInOrder, Stored, Path, Needs
<1> QED
  BY <1>5, <1>6, <1>7 DEF Survival

\* A splice takes all the bytes of its span away, and brings none back.
LEMMA SpliceSurvives == Inv /\ Survival /\ Splice => Survival'
<1> SUFFICES ASSUME Inv, Survival, Splice PROVE Survival'
  OBVIOUS
<1> DEFINE a == ToSplice.start
           b == ToSplice.stop
<1>1. /\ n > 0 /\ n' = n - 1 /\ pc = "splice" /\ pc' = "splice" /\ n \in Nat
      /\ UNCHANGED <<found, original, content, q, items, lastEnd, selected>>
  BY DEF Splice, input, Inv, TypeOK
<1>2. n \in DOMAIN selected /\ ToSplice = selected[n] /\ selected \in Seq(Replacement)
  BY <1>1 DEF Inv, TypeOK, Splicing, ToSplice
<1>3. q \in DOMAIN Paths /\ Path \in Range(Paths)
  BY <1>1 DEF Inv, NotVisited, Path, Range
<1>4. /\ a \in Nat /\ b \in Nat /\ a <= b /\ b <= Len(value) /\ ToSplice.value \in Int
      /\ value \in Seq(Int) /\ ToSplice.value < 0
      /\ \A k \in 1 .. b : value[k] = original[Path][k]
  <2>1. ToSplice \in Replacement
    BY <1>2
  <2>2. value \in Seq(Int)
    BY DEF Inv, TypeOK
  <2>3. ToSplice.start <= ToSplice.stop
    BY <1>2 DEF Inv, Disjoint
  <2>4. /\ ToSplice.stop <= Len(value)
        /\ \A k \in 1 .. ToSplice.stop : value[k] = original[Path][k]
    BY <1>1 DEF Inv, Splicing, SpliceOffsetsHold
  <2>5. ToSplice.value < 0
    BY <1>2 DEF Survival, OwnOffsets
  <2> QED
    BY <2>1, <2>2, <2>3, <2>4, <2>5 DEF Replacement
<1>5. \A k \in 1 .. a : k \in 1 .. b /\ k \in DOMAIN value
  BY <1>4
<1>6. \A k \in 1 .. a : value[k] = k - 1
  <2>1. \A k \in 1 .. b : k \in DOMAIN original[Path]
    <3>1. b <= Len(original[Path])
      BY <1>1, <1>2 DEF Survival, Gone
    <3>2. original[Path] \in Seq(Int)
      BY <1>3 DEF Inv, TypeOK
    <3> QED
      BY <1>4, <3>1, <3>2
  <2> QED
    BY <1>3, <1>4, <1>5, <2>1 DEF Survival, OwnOffsets
<1>7. /\ value' \in Seq(Int)
      /\ \A k \in DOMAIN value' : \/ k \in 1 .. a /\ value'[k] = value[k]
                                  \/ value'[k] = ToSplice.value
                                  \/ \E l \in DOMAIN value : l > b /\ value'[k] = value[l]
  <2> DEFINE v == ToSplice.value
             t == SubSeq(value, 1, a) \o <<v>> \o SubSeq(value, b + 1, Len(value))
  <2>1. value' = t
    BY DEF Splice
  <2> HIDE DEF a, b, v
  <2>2. t \in Seq(Int)
    BY <1>4, SplicePrefix DEF v
  <2>3. v \in Int
    BY <1>4 DEF v
  <2>4. \A k \in DOMAIN t : \/ k \in 1 .. a /\ t[k] = value[k]
                            \/ t[k] = v
                            \/ \E l \in DOMAIN value : l > b /\ t[k] = value[l]
    BY <1>4, <2>3, SpliceElements, Zenon
  <2> HIDE DEF t
  <2> QED
    BY <2>1, <2>2, <2>4 DEF v
<1>8. \A k \in DOMAIN value : k > b => value[k] < 0 \/ value[k] >= b
  BY <1>1 DEF Survival, Gone
<1> HIDE DEF a, b
<1>9. \A k \in DOMAIN value' : \/ k \in 1 .. a /\ value'[k] = k - 1
                               \/ value'[k] < 0
                               \/ value'[k] >= b
  BY <1>4, <1>6, <1>7, <1>8
<1>10. ASSUME NEW m \in DOMAIN selected, NEW k \in DOMAIN value', m > n - 1
       PROVE  Outside(value'[k], selected[m])
  <2>0. selected[m].start \in Nat /\ m \in Nat /\ value'[k] \in Int /\ k \in Nat
    <3>1. selected[m] \in Replacement
      BY <1>2
    <3>2. m \in Nat
      BY <1>2
    <3>3. value'[k] \in Int /\ k \in Nat
      BY <1>7
    <3> QED
      BY <3>1, <3>2, <3>3 DEF Replacement
  <2>1. CASE m = n
    <3>1. selected[m].start = a /\ selected[m].stop = b
      BY <1>2, <2>1 DEF a, b
    <3>2. k \in 1 .. a /\ value'[k] = k - 1 => value'[k] < a
      BY <1>4, <2>0
    <3> QED
      BY <1>9, <3>1, <3>2 DEF Outside
  <2>2. CASE m > n
    <3>1. \A l \in DOMAIN value : Outside(value[l], selected[m])
      BY <1>1, <2>2 DEF Survival, Gone
    <3>2. CASE k \in 1 .. a /\ value'[k] = value[k]
      BY <1>5, <3>1, <3>2
    <3>3. CASE value'[k] = ToSplice.value
      BY <1>4, <3>3 DEF Outside
    <3>4. CASE \E l \in DOMAIN value : value'[k] = value[l]
      BY <3>1, <3>4
    <3> QED
      BY <1>7, <3>2, <3>3, <3>4
  <2> QED
    BY <1>1, <1>10, <2>0, <2>1, <2>2
<1>11. ASSUME n - 1 > 0, NEW k \in DOMAIN value', k > selected[n - 1].stop
       PROVE  value'[k] < 0 \/ value'[k] >= selected[n - 1].stop
  <2>1. n - 1 \in DOMAIN selected /\ n - 1 < n
    BY <1>1, <1>2, <1>11
  <2>2. selected[n - 1].stop <= selected[n].start
    BY <1>2, <2>1 DEF Inv, Disjoint
  <2>3. selected[n - 1].stop \in Nat
    <3>1. selected[n - 1] \in Replacement
      BY <1>2, <2>1
    <3> QED
      BY <3>1 DEF Replacement
  <2>4. value'[k] \in Int /\ k \in Nat
    BY <1>7
  <2>5. selected[n - 1].stop <= a
    BY <1>2, <2>2 DEF a
  <2>6. CASE k \in 1 .. a /\ value'[k] = k - 1
    BY <1>11, <2>3, <2>4, <2>6
  <2>7. CASE value'[k] >= b
    BY <1>4, <2>3, <2>4, <2>5, <2>7
  <2> QED
    BY <1>9, <2>6, <2>7
<1>12. Gone'
  <2>1. ToSplice' = selected[n - 1]
    BY <1>1 DEF ToSplice
  <2> QED
    BY <1>1, <1>10, <1>11, <2>1 DEF Survival, Gone, Path
<1>13. Choosing'
  BY <1>1 DEF Survival, Choosing, Covered, Needs, Path
<1>14. OwnOffsets' /\ AllInOrder' /\ Stored'
  BY <1>1 DEF Survival, OwnOffsets, AllInOrder, Stored, Path, Needs
<1> QED
  BY <1>12, <1>13, <1>14 DEF Survival

LEMMA StoreSurvives == Inv /\ Survival /\ Store => Survival'
<1> SUFFICES ASSUME Inv, Survival, Store PROVE Survival'
  OBVIOUS
<1>1. /\ n = 0 /\ pc = "splice" /\ pc' = "sort" /\ q' = q + 1
      /\ items' = <<>> /\ selected' = <<>>
      /\ DOMAIN items' = {} /\ DOMAIN selected' = {}
      /\ content' = [content EXCEPT ![Path] = value]
      /\ UNCHANGED <<found, original>>
  BY DEF Store, input
<1>2. /\ q \in DOMAIN Paths /\ Path \in Range(Paths) /\ DOMAIN Paths \subseteq Nat
      /\ selected \in Seq(Replacement) /\ items \in Seq(Replacement)
      /\ content \in [Range(Paths) -> Seq(Int)]
  BY <1>1, PathsAssumption DEF Inv, TypeOK, NotVisited, Path, Range
<1>3. ASSUME NEW j \in DOMAIN found[Path], NEW k \in DOMAIN value,
             Needs(found[Path][j], Path)
      PROVE  value[k] # found[Path][j].start
  <2>1. PICK i \in DOMAIN items : items[i] = found[Path][j]
    BY <1>1 DEF Survival, AllInOrder
  <2>2. PICK m \in DOMAIN selected :
           selected[m].start <= items[i].start /\ items[i].start < selected[m].stop
    BY <1>1, <1>3, <2>1 DEF Survival, Choosing, Covered
  <2>3. m > n
    BY <1>1, <1>2
  <2>4. Outside(value[k], selected[m])
    BY <1>1, <2>3 DEF Survival, Gone
  <2>5. items[i].start \in Nat /\ selected[m].start \in Nat /\ selected[m].stop \in Nat
    <3>1. items[i] \in Replacement /\ selected[m] \in Replacement
      BY <1>2
    <3> QED
      BY <3>1 DEF Replacement
  <2> QED
    BY <2>1, <2>2, <2>4, <2>5 DEF Outside
<1>4. Stored'
  <2> SUFFICES ASSUME NEW x \in DOMAIN Paths, x < q + 1,
                      NEW j \in DOMAIN found[Paths[x]],
                      NEW k \in DOMAIN content'[Paths[x]],
                      Needs(found[Paths[x]][j], Paths[x])
               PROVE  content'[Paths[x]][k] # found[Paths[x]][j].start
    BY <1>1 DEF Stored, Needs
  <2>1. CASE x = q
    <3>1. Paths[x] = Path /\ content'[Path] = value
      BY <1>1, <1>2, <2>1 DEF Path
    <3> QED
      BY <1>3, <3>1
  <2>2. CASE x # q
    <3>1. x < q
      BY <1>2, <2>2
    <3>2. Paths[x] # Path /\ Paths[x] \in Range(Paths)
      BY <1>2, <2>2, PathsAssumption DEF IsInjective, Path, Range
    <3>3. content'[Paths[x]] = content[Paths[x]]
      BY <1>1, <1>2, <3>2
    <3> QED
      BY <3>1, <3>3 DEF Survival, Stored
  <2> QED
    BY <2>1, <2>2
<1>5. OwnOffsets' /\ AllInOrder' /\ Choosing' /\ Gone'
  BY <1>1 DEF Survival, OwnOffsets, AllInOrder, Choosing, Gone
<1> QED
  BY <1>4, <1>5 DEF Survival

LEMMA SurvivalStep == Inv /\ Survival /\ [Next]_vars => Survival'
<1>1. Survival /\ UNCHANGED vars => Survival'
  BY DEF vars, Survival, OwnOffsets, AllInOrder, Choosing, Gone, Stored, Covered,
         Needs, ToSplice, Path
<1> QED
  BY <1>1, SortSurvives, SelectSurvives, SelectedSurvives, SpliceSurvives, StoreSurvives
  DEF Next, Terminated

\* The first byte of every match that lies in the string is gone from it, for
\* strings of any length and any number of matches, overlapping or not.
THEOREM NoMatchIsLeftWhole == Spec => []NoMatchSurvivesWhole
<1>1. Inv /\ Survival => NoMatchSurvivesWhole
  <2> SUFFICES ASSUME Inv, Survival, Done,
                      NEW x \in Range(Paths), NEW item \in Range(found[x]),
                      Bound(x, item), Span(item) # {},
                      NEW k \in DOMAIN content[x], content[x][k] = item.start
               PROVE  FALSE
    BY DEF NoMatchSurvivesWhole, Range
  <2>1. PICK y \in DOMAIN Paths : Paths[y] = x
    BY DEF Range
  <2>2. PICK j \in DOMAIN found[x] : found[x][j] = item
    BY DEF Range
  <2>3. item \in Replacement
    BY <2>2 DEF Inv, TypeOK
  <2>4. Needs(item, x)
    BY <2>3 DEF Needs, Bound, Span, Replacement
  <2>5. y < q
    BY PathsAssumption DEF Done, Inv, TypeOK
  <2> QED
    BY <2>1, <2>2, <2>4, <2>5 DEF Survival, Stored
<1> QED
  BY <1>1, InvInit, InvStep, SurvivalInit, SurvivalStep, PTL DEF Spec

-----------------------------------------------------------------------------
(* Only matches are touched. *)

InSpan(byte, item) == item.start <= byte /\ byte < item.stop

\* What is sorted and selected are replacements found in the string.
FromFound ==
    pc # "sort" =>
        /\ \A i \in DOMAIN items : \E j \in DOMAIN found[Path] : items[i] = found[Path][j]
        /\ \A m \in DOMAIN selected : \E j \in DOMAIN found[Path] : selected[m] = found[Path][j]

\* The bytes of s are bytes of a string of that length, in their order.
InTheirOrder(s, length) ==
    /\ \A k \in DOMAIN s : s[k] < length
    /\ \A k, l \in DOMAIN s : k < l /\ s[k] >= 0 /\ s[l] >= 0 => s[k] < s[l]

\* The bytes gone are those of the spans spliced so far.
Remaining ==
    pc = "splice" =>
        /\ InTheirOrder(value, Len(original[Path]))
        /\ \A byte \in 0 .. (Len(original[Path]) - 1) :
              \/ \E m \in DOMAIN selected : m > n /\ InSpan(byte, selected[m])
              \/ \E k \in DOMAIN value : value[k] = byte

\* Of the strings that are done only bytes of matches are gone.
Faithful(s, x) ==
    /\ InTheirOrder(s, Len(original[x]))
    /\ \A byte \in 0 .. (Len(original[x]) - 1) :
          byte \in Matched(x) \/ \E k \in DOMAIN s : s[k] = byte

StoredFaithfully == \A y \in DOMAIN Paths : y < q => Faithful(content[Paths[y]], Paths[y])

Keeping == FromFound /\ Remaining /\ StoredFaithfully

\* The place a byte at k came from, when the span from a to b was spliced.
CameFrom(k, h, a, b) == (k <= a /\ h = k) \/ (k > a + 1 /\ h = b + (k - (a + 1)))

LEMMA SpliceSource ==
    ASSUME NEW s \in Seq(Int), NEW t, NEW v \in Int, NEW a \in Nat, NEW b \in Nat,
           a <= b, b <= Len(s), v < 0, IsSplice(t, s, v, a, b),
           NEW k \in DOMAIN t, t[k] >= 0
    PROVE  \E h \in DOMAIN s : t[k] = s[h] /\ CameFrom(k, h, a, b)
<1>1. DOMAIN s = 1 .. Len(s) /\ Len(s) \in Nat
  OBVIOUS
<1>2. k \in Nat /\ 1 <= k /\ k <= a + 1 + (Len(s) - b)
  BY DEF IsSplice
<1>3. k # a + 1
  BY DEF IsSplice
<1>4. CASE k <= a
  <2>1. k \in 1 .. a /\ k \in DOMAIN s
    BY <1>1, <1>2, <1>4
  <2>2. t[k] = s[k]
    BY <2>1, Zenon DEF IsSplice
  <2> QED
    BY <1>4, <2>1, <2>2 DEF CameFrom
<1>5. CASE k > a + 1
  <2>1. PICK m \in Int : k = a + 1 + m
    <3>1. k = a + 1 + (k - (a + 1)) /\ k - (a + 1) \in Int
      BY <1>2
    <3> QED
      BY <3>1
  <2>2. m \in 1 .. (Len(s) - b)
    BY <1>1, <1>2, <1>5, <2>1
  <2>3. b + m \in DOMAIN s
    BY <1>1, <2>2
  <2>4. t[a + 1 + m] = s[b + m]
    BY <2>2 DEF IsSplice
  <2>5. t[k] = s[b + m]
    BY <2>1, <2>4
  <2>6. CameFrom(k, b + m, a, b)
    BY <1>5, <2>1 DEF CameFrom
  <2> QED
    BY <2>3, <2>5, <2>6
<1> QED
  BY <1>2, <1>3, <1>4, <1>5

LEMMA KeepingInit == Init => Keeping
<1> SUFFICES ASSUME Init PROVE Keeping
  OBVIOUS
<1>1. pc = "sort" /\ q = 1
  BY DEF Init
<1>2. \A y \in DOMAIN Paths : ~(y < q)
  BY <1>1, PathsAssumption
<1> QED
  BY <1>1, <1>2 DEF Keeping, FromFound, Remaining, StoredFaithfully

LEMMA FaithLasts ==
    StoredFaithfully /\ UNCHANGED <<found, original, content, q>> => StoredFaithfully'
BY DEF StoredFaithfully, Faithful, InTheirOrder, Matched, Bound

LEMMA SortKeepsFaith == Inv /\ Keeping /\ Sort => Keeping'
<1> SUFFICES ASSUME Inv, Keeping, Sort PROVE Keeping'
  OBVIOUS
<1>1. q \in DOMAIN Paths /\ Path \in Range(Paths)
  <2>1. q \in Nat \ {0} /\ q <= Len(Paths) /\ DOMAIN Paths = 1 .. Len(Paths)
    BY PathsAssumption DEF Sort, Inv, TypeOK
  <2>2. q \in DOMAIN Paths
    BY <2>1
  <2> QED
    BY <2>2 DEF Range, Path
<1>2. found[Path] \in Seq(Replacement) /\ items' \in SortsOf(found[Path])
  BY <1>1 DEF Inv, TypeOK, Sort
<1>3. \A i \in DOMAIN items' : \E j \in DOMAIN found[Path] : items'[i] = found[Path][j]
  BY <1>2, SortType
<1>4. /\ selected' = <<>> /\ pc' = "select" /\ DOMAIN selected' = {}
      /\ UNCHANGED <<found, original, content, q>>
  BY DEF Sort, input
<1>5. FromFound'
  BY <1>3, <1>4 DEF FromFound, Path
<1> QED
  BY <1>4, <1>5, FaithLasts DEF Keeping, Remaining

LEMMA SelectKeepsFaith == Inv /\ Keeping /\ Select => Keeping'
<1> SUFFICES ASSUME Inv, Keeping, Select PROVE Keeping'
  OBVIOUS
<1>1. /\ pc = "select" /\ pc' = "select"
      /\ UNCHANGED <<found, original, content, q, items>>
  BY DEF Select, input
<1>2. n + 1 \in DOMAIN items /\ Item = items[n + 1] /\ selected \in Seq(Replacement)
      /\ Item \in Replacement
  BY DEF Select, Inv, TypeOK, Item
<1>3. FromFound'
  <2>1. CASE Fits(Item)
    <3>1. selected' = Append(selected, Item)
      BY <2>1 DEF Select
    <3>2. \A m \in DOMAIN selected' :
             \/ selected'[m] = Item
             \/ m \in DOMAIN selected /\ selected'[m] = selected[m]
      BY <1>2, <3>1
    <3> QED
      BY <1>1, <1>2, <3>2 DEF Keeping, FromFound, Path
  <2>2. CASE ~Fits(Item)
    <3>1. selected' = selected
      BY <2>2 DEF Select
    <3> QED
      BY <1>1, <3>1 DEF Keeping, FromFound, Path
  <2> QED
    BY <2>1, <2>2
<1> QED
  BY <1>1, <1>3, FaithLasts DEF Keeping, Remaining

LEMMA SelectedKeepsFaith == Inv /\ Survival /\ Keeping /\ Selected => Keeping'
<1> SUFFICES ASSUME Inv, Survival, Keeping, Selected PROVE Keeping'
  OBVIOUS
<1>1. /\ pc = "select" /\ pc' = "splice"
      /\ UNCHANGED <<found, original, content, q, items, selected, value>>
  BY DEF Selected, input
<1>2. /\ value = original[Path] /\ value \in Seq(Int) /\ Path \in Range(Paths)
  BY <1>1 DEF Inv, TypeOK, Selecting, NotVisited, Path, Range
<1>3. DOMAIN value = 1 .. Len(value) /\ Len(value) \in Nat
  BY <1>2
<1>4. \A k \in DOMAIN value : value[k] = k - 1
  BY <1>2 DEF Survival, OwnOffsets
<1>5. InTheirOrder(value, Len(value))
  BY <1>3, <1>4 DEF InTheirOrder
<1>6. ASSUME NEW byte \in 0 .. (Len(value) - 1) PROVE \E k \in DOMAIN value : value[k] = byte
  <2>1. byte + 1 \in DOMAIN value /\ value[byte + 1] = byte
    BY <1>3, <1>4
  <2> QED
    BY <2>1
<1>7. Remaining'
  BY <1>1, <1>2, <1>5, <1>6 DEF Remaining, InTheirOrder, Path
<1>8. FromFound'
  BY <1>1 DEF Keeping, FromFound, Path
<1> QED
  BY <1>1, <1>7, <1>8, FaithLasts DEF Keeping

\* A splice takes no byte but those of its span, and leaves the others in order.
LEMMA SpliceKeepsFaith == Inv /\ Survival /\ Keeping /\ Splice => Keeping'
<1> SUFFICES ASSUME Inv, Survival, Keeping, Splice PROVE Keeping'
  OBVIOUS
<1>1. /\ n > 0 /\ n' = n - 1 /\ pc = "splice" /\ pc' = "splice" /\ n \in Nat
      /\ UNCHANGED <<found, original, content, q, items, selected>>
  BY DEF Splice, input, Inv, TypeOK
<1>2. n \in DOMAIN selected /\ ToSplice = selected[n] /\ selected \in Seq(Replacement)
  BY <1>1 DEF Inv, TypeOK, Splicing, ToSplice
<1>3. q \in DOMAIN Paths /\ Path \in Range(Paths)
  BY <1>1 DEF Inv, NotVisited, Path, Range
<1>4. PICK a \in Nat, b \in Nat, v \in Int :
        /\ a = ToSplice.start /\ b = ToSplice.stop /\ v = ToSplice.value
  <2>1. ToSplice \in Replacement
    BY <1>2
  <2> QED
    BY <2>1 DEF Replacement
<1>5. /\ a <= b /\ b <= Len(value) /\ value \in Seq(Int) /\ v < 0
      /\ \A k \in 1 .. b : value[k] = original[Path][k]
  <2>1. value \in Seq(Int)
    BY DEF Inv, TypeOK
  <2>2. a <= b
    BY <1>2, <1>4 DEF Inv, Disjoint
  <2>3. b <= Len(value) /\ \A k \in 1 .. b : value[k] = original[Path][k]
    BY <1>1, <1>4 DEF Inv, Splicing, SpliceOffsetsHold
  <2>4. v < 0
    BY <1>2, <1>4 DEF Survival, OwnOffsets
  <2> QED
    BY <2>1, <2>2, <2>3, <2>4
<1>6. PICK t : t = value' /\ IsSplice(t, value, v, a, b)
  <2>1. value' = Spliced(value, v, a, b)
    BY <1>4 DEF Splice, Spliced
  <2>2. IsSplice(Spliced(value, v, a, b), value, v, a, b)
    BY <1>4, <1>5, SpliceAt, Zenon
  <2> QED
    BY <2>1, <2>2, Zenon
<1>7. DOMAIN value = 1 .. Len(value) /\ Len(value) \in Nat /\ DOMAIN t = 1 .. Len(t)
      /\ t \in Seq(Int) /\ Len(t) = a + 1 + (Len(value) - b)
  BY <1>5, <1>6 DEF IsSplice
<1>8. /\ original[Path] \in Seq(Int) /\ b <= Len(original[Path]) /\ Len(original[Path]) \in Nat
      /\ \A k \in 1 .. b : value[k] = k - 1
  <2>1. original[Path] \in Seq(Int)
    BY <1>3 DEF Inv, TypeOK
  <2>2. b <= Len(original[Path])
    BY <1>1, <1>2, <1>4 DEF Survival, Gone
  <2>3. \A k \in 1 .. b : k \in DOMAIN original[Path]
    BY <1>4, <2>1, <2>2
  <2> QED
    BY <1>3, <1>5, <2>1, <2>2, <2>3 DEF Survival, OwnOffsets
<1>9. ASSUME NEW k \in DOMAIN t, t[k] >= 0
      PROVE  \E h \in DOMAIN value : t[k] = value[h] /\ CameFrom(k, h, a, b)
  BY <1>4, <1>5, <1>6, <1>9, SpliceSource, Zenon
<1>10. InTheirOrder(t, Len(original[Path]))
  <2>0. InTheirOrder(value, Len(original[Path]))
    BY <1>1 DEF Keeping, Remaining
  <2>1. ASSUME NEW k \in DOMAIN t PROVE t[k] < Len(original[Path])
    <3>1. CASE t[k] >= 0
      <4>1. PICK h \in DOMAIN value : t[k] = value[h]
        BY <1>9, <3>1
      <4> QED
        BY <2>0, <4>1 DEF InTheirOrder
    <3>2. CASE ~(t[k] >= 0)
      <4>1. t[k] \in Int
        BY <1>7
      <4> QED
        BY <1>8, <3>2, <4>1
    <3> QED
      BY <3>1, <3>2
  <2>2. ASSUME NEW k \in DOMAIN t, NEW l \in DOMAIN t, k < l, t[k] >= 0, t[l] >= 0
        PROVE  t[k] < t[l]
    <3>1. PICK h \in DOMAIN value : t[k] = value[h] /\ CameFrom(k, h, a, b)
      BY <1>9, <2>2
    <3>2. PICK i \in DOMAIN value : t[l] = value[i] /\ CameFrom(l, i, a, b)
      BY <1>9, <2>2
    <3>3. k \in Nat /\ l \in Nat
      BY <1>7
    <3>4. h < i
      <4>1. a <= b
        BY <1>5
      <4> QED
        BY <2>2, <3>1, <3>2, <3>3, <4>1 DEF CameFrom
    <3> QED
      BY <2>0, <2>2, <3>1, <3>2, <3>4 DEF InTheirOrder
  <2> QED
    BY <2>1, <2>2 DEF InTheirOrder
<1>11. ASSUME NEW byte \in 0 .. (Len(original[Path]) - 1)
       PROVE  \/ \E m \in DOMAIN selected : m > n - 1 /\ InSpan(byte, selected[m])
              \/ \E k \in DOMAIN t : t[k] = byte
  <2>1. CASE \E m \in DOMAIN selected : m > n /\ InSpan(byte, selected[m])
    <3>1. \A m \in DOMAIN selected : m > n => m > n - 1
      BY <1>1, <1>2
    <3> QED
      BY <2>1, <3>1
  <2>2. ASSUME NEW k \in DOMAIN value, value[k] = byte
        PROVE  \/ \E m \in DOMAIN selected : m > n - 1 /\ InSpan(byte, selected[m])
               \/ \E l \in DOMAIN t : t[l] = byte
    <3>1. k \in Nat /\ 1 <= k /\ k <= Len(value)
      BY <1>7
    <3>2. CASE k <= a
      <4>1. k \in 1 .. a /\ k \in DOMAIN t
        BY <1>5, <1>7, <3>1, <3>2
      <4>2. t[k] = value[k]
        BY <1>6, <4>1, Zenon DEF IsSplice
      <4> QED
        BY <2>2, <4>1, <4>2
    <3>3. CASE k > a /\ k <= b
      <4>1. byte = k - 1
        BY <1>8, <2>2, <3>1, <3>3
      <4>2. InSpan(byte, selected[n])
        BY <1>2, <1>4, <3>1, <3>3, <4>1 DEF InSpan
      <4>3. n > n - 1
        BY <1>1
      <4> QED
        BY <1>2, <4>2, <4>3
    <3>4. CASE k > b
      <4> DEFINE m == k - b
      <4>1. m \in 1 .. (Len(value) - b) /\ k = b + m
        BY <1>7, <3>1, <3>4
      <4> HIDE DEF m
      <4>2. a + 1 + m \in DOMAIN t
        BY <1>7, <4>1
      <4>3. t[a + 1 + m] = value[b + m]
        BY <1>6, <4>1 DEF IsSplice
      <4> QED
        BY <2>2, <4>1, <4>2, <4>3
    <3> QED
      BY <1>4, <3>1, <3>2, <3>3, <3>4
  <2>3. \/ \E m \in DOMAIN selected : m > n /\ InSpan(byte, selected[m])
        \/ \E k \in DOMAIN value : value[k] = byte
    BY <1>1 DEF Keeping, Remaining
  <2> QED
    BY <2>1, <2>2, <2>3
<1>12. Remaining'
  BY <1>1, <1>6, <1>10, <1>11 DEF Remaining, InTheirOrder, InSpan, Path
<1>13. FromFound'
  BY <1>1 DEF Keeping, FromFound, Path
<1> QED
  BY <1>1, <1>12, <1>13, FaithLasts DEF Keeping

LEMMA StoreKeepsFaith == Inv /\ Survival /\ Keeping /\ Store => Keeping'
<1> SUFFICES ASSUME Inv, Survival, Keeping, Store PROVE Keeping'
  OBVIOUS
<1>1. /\ n = 0 /\ pc = "splice" /\ pc' = "sort" /\ q' = q + 1
      /\ content' = [content EXCEPT ![Path] = value]
      /\ UNCHANGED <<found, original>>
  BY DEF Store, input
<1>2. /\ q \in DOMAIN Paths /\ Path \in Range(Paths) /\ DOMAIN Paths \subseteq Nat
      /\ found[Path] \in Seq(Replacement) /\ original[Path] \in Seq(Int)
      /\ content \in [Range(Paths) -> Seq(Int)]
  BY <1>1, PathsAssumption DEF Inv, TypeOK, NotVisited, Path, Range
<1>3. ASSUME NEW byte \in 0 .. (Len(original[Path]) - 1), NEW m \in DOMAIN selected,
             InSpan(byte, selected[m])
      PROVE  byte \in Matched(Path)
  <2>1. PICK j \in DOMAIN found[Path] : selected[m] = found[Path][j]
    BY <1>1 DEF Keeping, FromFound
  <2>2. selected[m] \in Replacement
    BY <1>2, <2>1
  <2>3. Bound(Path, selected[m])
    BY <1>1 DEF Survival, Gone, Bound
  <2>4. byte \in Span(selected[m])
    BY <1>3, <2>2 DEF InSpan, Span, Replacement
  <2>5. selected[m] \in {i \in Range(found[Path]) : Bound(Path, i)}
    BY <2>1, <2>3 DEF Range
  <2> QED
    BY <2>4, <2>5 DEF Matched
<1>4. Faithful(value, Path)
  <2>1. /\ InTheirOrder(value, Len(original[Path]))
        /\ \A byte \in 0 .. (Len(original[Path]) - 1) :
              \/ \E m \in DOMAIN selected : InSpan(byte, selected[m])
              \/ \E k \in DOMAIN value : value[k] = byte
    BY <1>1 DEF Keeping, Remaining
  <2> QED
    BY <1>3, <2>1 DEF Faithful
<1>5. StoredFaithfully'
  <2> SUFFICES ASSUME NEW y \in DOMAIN Paths, y < q + 1
               PROVE  Faithful(content'[Paths[y]], Paths[y])
    BY <1>1 DEF StoredFaithfully, Faithful, InTheirOrder, Matched, Bound
  <2>1. CASE y = q
    <3>1. Paths[y] = Path /\ content'[Path] = value
      BY <1>1, <1>2, <2>1 DEF Path
    <3> QED
      BY <1>4, <3>1
  <2>2. CASE y # q
    <3>1. y < q
      BY <1>2, <2>2
    <3>2. Paths[y] # Path /\ Paths[y] \in Range(Paths)
      BY <1>2, <2>2, PathsAssumption DEF IsInjective, Path, Range
    <3>3. content'[Paths[y]] = content[Paths[y]]
      BY <1>1, <1>2, <3>2
    <3> QED
      BY <3>1, <3>3 DEF Keeping, StoredFaithfully
  <2> QED
    BY <2>1, <2>2
<1> QED
  BY <1>1, <1>5 DEF Keeping, FromFound, Remaining

LEMMA KeepingStep == Inv /\ Survival /\ Keeping /\ [Next]_vars => Keeping'
<1>1. Keeping /\ UNCHANGED vars => Keeping'
  BY DEF vars, Keeping, FromFound, Remaining, StoredFaithfully, Faithful, InTheirOrder,
         InSpan, Matched, Bound, Path
<1> QED
  BY <1>1, SortKeepsFaith, SelectKeepsFaith, SelectedKeepsFaith, SpliceKeepsFaith,
     StoreKeepsFaith
  DEF Next, Terminated

\* Redaction leaves every byte that is in no reported span, once and in its
\* place among the others, for strings of any length and any replacements.
THEOREM OnlyMatchesChange == Spec => []OnlyMatchesAreTouched
<1>1. Inv /\ Survival /\ Keeping => OnlyMatchesAreTouched
  <2> DEFINE kept(s, x) == {k \in DOMAIN s : s[k] >= 0 /\ s[k] \notin Matched(x)}
  <2> SUFFICES ASSUME Inv, Survival, Keeping, Done, NEW x \in Range(Paths)
               PROVE  /\ {content[x][k] : k \in kept(content[x], x)}
                            = {original[x][k] : k \in kept(original[x], x)}
                      /\ \A k, l \in kept(content[x], x) : k < l => content[x][k] < content[x][l]
    BY DEF OnlyMatchesAreTouched
  <2>1. PICK y \in DOMAIN Paths : Paths[y] = x
    BY DEF Range
  <2>2. y < q
    BY PathsAssumption DEF Done, Inv, TypeOK
  <2>3. Faithful(content[x], x)
    BY <2>1, <2>2 DEF Keeping, StoredFaithfully
  <2>4. /\ content[x] \in Seq(Int) /\ original[x] \in Seq(Int)
        /\ DOMAIN original[x] = 1 .. Len(original[x]) /\ Len(original[x]) \in Nat
        /\ \A k \in DOMAIN original[x] : original[x][k] = k - 1
    BY DEF Inv, TypeOK, Survival, OwnOffsets
  <2>5. ASSUME NEW k \in kept(content[x], x)
        PROVE  content[x][k] \in {original[x][l] : l \in kept(original[x], x)}
    <3>1. PICK byte \in Int : byte = content[x][k]
      BY <2>4
    <3>2. byte >= 0 /\ byte \notin Matched(x) /\ byte < Len(original[x])
      BY <2>3, <3>1 DEF Faithful, InTheirOrder
    <3>3. byte + 1 \in DOMAIN original[x] /\ original[x][byte + 1] = byte
      <4>1. byte + 1 \in 1 .. Len(original[x])
        BY <2>4, <3>2
      <4>2. original[x][byte + 1] = (byte + 1) - 1
        BY <2>4, <4>1, Zenon
      <4> QED
        BY <2>4, <4>1, <4>2
    <3>4. byte + 1 \in kept(original[x], x)
      BY <3>2, <3>3
    <3> QED
      BY <3>1, <3>3, <3>4
  <2>6. ASSUME NEW k \in kept(original[x], x)
        PROVE  original[x][k] \in {content[x][l] : l \in kept(content[x], x)}
    <3>1. original[x][k] \in 0 .. (Len(original[x]) - 1) /\ original[x][k] \notin Matched(x)
      BY <2>4
    <3>2. PICK l \in DOMAIN content[x] : content[x][l] = original[x][k]
      BY <2>3, <3>1 DEF Faithful
    <3>3. l \in kept(content[x], x)
      BY <3>1, <3>2
    <3> QED
      BY <3>2, <3>3
  <2>7. \A k, l \in kept(content[x], x) : k < l => content[x][k] < content[x][l]
    BY <2>3 DEF Faithful, InTheirOrder
  <2> QED
    BY <2>5, <2>6, <2>7
<1> QED
  BY <1>1, InvInit, InvStep, SurvivalInit, SurvivalStep, KeepingInit, KeepingStep, PTL DEF Spec
=============================================================================
