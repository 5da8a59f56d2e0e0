--------------------------- MODULE DetectorsProofs ---------------------------
(***************************************************************************)
(* What the built-in detectors report, for every request, configuration and *)
(* answer of the libraries.  A detector that goes through strings keeps the *)
(* invariant Scanning: its findings are marked as what is found in the      *)
(* strings visited so far.  That no path stands for two strings is           *)
(* ContentProofs.  Lists that are put together from lists are known by their *)
(* members; order matters only where Add keeps the first of two findings.    *)
(***************************************************************************)
EXTENDS Detectors, ContentProofs

-----------------------------------------------------------------------------
(* Lists, whatever they hold. *)

IsList(s) == \E S : s \in Seq(S)

LEMMA ListIs ==
    ASSUME NEW s, IsList(s)
    PROVE  /\ Len(s) \in Nat /\ DOMAIN s = 1 .. Len(s)
           /\ s \in Seq(Range(s))
           /\ Range(s) = {} <=> s = <<>>
<1>1. PICK S : s \in Seq(S)
  BY DEF IsList
<1>2. Len(s) \in Nat /\ DOMAIN s = 1 .. Len(s)
  BY <1>1
<1>3. s \in Seq(Range(s))
  BY <1>1 DEF Range
<1>4. Range(s) = {} => s = <<>>
  <2> SUFFICES ASSUME Range(s) = {}, Len(s) # 0 PROVE FALSE
    BY <1>1
  <2>1. 1 \in DOMAIN s
    BY <1>2
  <2> QED
    BY <2>1 DEF Range
<1>5. Range(<<>>) = {}
  BY DEF Range
<1> QED
  BY <1>2, <1>3, <1>4, <1>5

LEMMA ListsConcat ==
    ASSUME NEW s, IsList(s), NEW t, IsList(t)
    PROVE  IsList(s \o t) /\ Range(s \o t) = Range(s) \cup Range(t)
<1> DEFINE B == Range(s) \cup Range(t)
<1>1. s \in Seq(Range(s)) /\ t \in Seq(Range(t))
  BY ListIs
<1>2. Range(s) \subseteq B /\ Range(t) \subseteq B
  OBVIOUS
<1> HIDE DEF B
<1>3. s \in Seq(B) /\ t \in Seq(B)
  BY <1>1, <1>2, SeqMonotonic
<1>4. s \o t \in Seq(B) /\ Range(s \o t) = Range(s) \cup Range(t)
  BY <1>3, ConcatProperties, RangeConcatenation
<1> QED
  BY <1>4 DEF IsList

LEMMA WhenIs ==
    ASSUME NEW c \in BOOLEAN, NEW item
    PROVE  IsList(When(c, item)) /\ Range(When(c, item)) = IF c THEN {item} ELSE {}
<1>1. <<item>> \in Seq({item}) /\ Range(<<item>>) = {item}
  BY DEF Range
<1>2. <<>> \in Seq({item}) /\ Range(<<>>) = {}
  BY DEF Range
<1> QED
  BY <1>1, <1>2 DEF When, IsList

\* Lists put together from k lists.
LEMMA ListsFlatten ==
    ASSUME NEW k \in Nat, NEW ss, ss = [i \in 1 .. k |-> ss[i]],
           \A i \in 1 .. k : IsList(ss[i])
    PROVE  /\ IsList(FlattenSeq(ss))
           /\ Range(FlattenSeq(ss)) = UNION {Range(ss[i]) : i \in 1 .. k}
<1> DEFINE S == UNION {Range(ss[i]) : i \in 1 .. k}
<1>1. \A i \in 1 .. k : Range(ss[i]) \subseteq S
  OBVIOUS
<1> HIDE DEF S
<1>2. \A i \in 1 .. k : ss[i] \in Seq(S)
  BY <1>1, ListIs, SeqMonotonic
<1>3. DOMAIN ss = 1 .. k
  OBVIOUS
<1>4. ss \in Seq(Seq(S))
  BY <1>2, <1>3, IsASeq
<1>5. FlattenSeq(ss) \in Seq(S) /\ Range(FlattenSeq(ss)) = UNION {Range(ss[i]) : i \in DOMAIN ss}
  BY <1>4, FlattenType, FlattenMembers
<1> QED
  BY <1>3, <1>5 DEF IsList

\* ss takes from a list the members in C, as e makes them.
Takes(ss, list, C, e) ==
    /\ ss = [i \in DOMAIN list |-> ss[i]]
    /\ \A i \in DOMAIN list : ss[i] = When(list[i] \in C, e[list[i]])
Taken(list, C, e) == {e[x] : x \in Range(list) \cap C}

LEMMA ListsSelect ==
    ASSUME NEW list, IsList(list), NEW ss, NEW C, NEW e, Takes(ss, list, C, e)
    PROVE  IsList(FlattenSeq(ss)) /\ Range(FlattenSeq(ss)) = Taken(list, C, e)
<1> USE DEF Takes
<1> DEFINE k == Len(list)
<1>1. k \in Nat /\ DOMAIN list = 1 .. k
  BY ListIs
<1> HIDE DEF k
<1>2. \A i \in 1 .. k : /\ IsList(ss[i])
                       /\ \A x : x \in Range(ss[i]) <=> list[i] \in C /\ x = e[list[i]]
  <2> SUFFICES ASSUME NEW i \in 1 .. k
               PROVE  /\ IsList(ss[i])
                      /\ \A x : x \in Range(ss[i]) <=> list[i] \in C /\ x = e[list[i]]
    OBVIOUS
  <2> DEFINE c == list[i] \in C
  <2>1. c \in BOOLEAN /\ ss[i] = When(c, e[list[i]])
    BY <1>1
  <2>2. IsList(ss[i]) /\ Range(ss[i]) = IF c THEN {e[list[i]]} ELSE {}
    <3> HIDE DEF c
    <3> QED
      BY <2>1, WhenIs
  <2> QED
    BY <2>2
<1>3. /\ IsList(FlattenSeq(ss))
      /\ Range(FlattenSeq(ss)) = UNION {Range(ss[i]) : i \in 1 .. k}
  BY <1>1, <1>2, ListsFlatten
<1>4. \A x : x \in Range(FlattenSeq(ss)) <=> \E i \in 1 .. k : x \in Range(ss[i])
  BY <1>3
<1>5. \A x : x \in Range(FlattenSeq(ss)) <=> \E i \in 1 .. k : list[i] \in C /\ x = e[list[i]]
  <2> SUFFICES ASSUME NEW x
               PROVE  x \in Range(FlattenSeq(ss)) <=> \E i \in 1 .. k : list[i] \in C /\ x = e[list[i]]
    OBVIOUS
  <2> DEFINE R == Range(FlattenSeq(ss))
  <2>1. x \in R <=> \E i \in 1 .. k : x \in Range(ss[i])
    BY <1>4
  <2>2. \A i \in 1 .. k : x \in Range(ss[i]) <=> list[i] \in C /\ x = e[list[i]]
    BY <1>2
  <2>3. x \in R <=> \E i \in 1 .. k : list[i] \in C /\ x = e[list[i]]
    <3> HIDE DEF R
    <3> QED
      BY <2>1, <2>2, Zenon
  <2> QED
    BY <2>3
<1>6. Range(list) = {list[i] : i \in 1 .. k}
  BY <1>1 DEF Range
<1>7. \A x : x \in Range(FlattenSeq(ss)) <=> \E y \in Range(list) : y \in C /\ x = e[y]
  BY <1>5, <1>6
<1> QED
  BY <1>3, <1>7 DEF Taken

\* A set in some order.
LEMMA SetToSeqIs ==
    ASSUME NEW S, IsFiniteSet(S)
    PROVE  /\ SetToSeq(S) \in Seq(S) /\ Len(SetToSeq(S)) = Cardinality(S)
           /\ Range(SetToSeq(S)) = S
           /\ \A i, j \in 1 .. Cardinality(S) : SetToSeq(S)[i] = SetToSeq(S)[j] => i = j
<1> DEFINE k == Cardinality(S)
<1>1. k \in Nat /\ ExistsBijection(1 .. k, S)
  BY FS_CardinalityType
<1>2. PICK f \in Bijection(1 .. k, S) : TRUE
  BY <1>1 DEF ExistsBijection
<1>3. f \in [1 .. k -> S] /\ IsInjective(f)
  BY <1>2 DEF Bijection, Injection, IsInjective
<1>4. SetToSeq(S) = CHOOSE g \in [1 .. k -> S] : IsInjective(g)
  BY DEF SetToSeq
<1> DEFINE g == SetToSeq(S)
<1>5. g \in [1 .. k -> S] /\ IsInjective(g)
  <2> HIDE DEF k
  <2> QED
    BY <1>3, <1>4, Zenon
<1> HIDE DEF g
<1>6. g \in Seq(S) /\ Len(g) = k
  BY <1>1, <1>5
<1>7. \A i, j \in 1 .. k : g[i] = g[j] => i = j
  BY <1>5 DEF IsInjective
<1>8. Range(g) = S
  <2>1. g \in Injection(1 .. k, S)
    BY <1>5, <1>7 DEF Injection, IsInjective
  <2>2. IsFiniteSet(1 .. k) /\ Cardinality(1 .. k) = k
    <3>1. 1 \in Int /\ k \in Int /\ (IF 1 > k THEN 0 ELSE k - 1 + 1) = k
      BY <1>1
    <3> HIDE DEF k
    <3> QED
      BY <3>1, FS_Interval
  <2>3. g \in Surjection(1 .. k, S)
    BY <2>1, <2>2, FS_Injection
  <2> QED
    BY <2>3 DEF Surjection, Range
<1> QED
  BY <1>6, <1>7, <1>8 DEF g

-----------------------------------------------------------------------------
(* Documents. *)

LEMMA FieldsAreSteps ==
    ASSUME NEW f \in Fields
    PROVE  Key(f) \in Step /\ Key(f).key = <<f>> /\ ~IsIndex(Key(f))
<1>1. f \in Token
  BY LettersAssumption DEF Token
<1>2. <<f>> \in Seq(Token)
  BY <1>1
<1> QED
  BY <1>2 DEF Key, Step, IsIndex

LEMMA LocationAppend ==
    ASSUME NEW l \in Location, NEW s \in Step
    PROVE  Append(l, s) \in Location
  BY DEF Location

LEMMA FieldAt ==
    ASSUME NEW l \in Location, NEW f \in Fields
    PROVE  Append(l, Key(f)) \in Location
  BY LocationAppend, FieldsAreSteps

LEMMA ItemsAre ==
    ASSUME NEW doc, IsFiniteSet(DOMAIN doc), NEW l \in Location
    PROVE  /\ CollectionLength(doc, l) \in Nat
           /\ Items(doc, l) = [i \in 1 .. CollectionLength(doc, l) |-> Items(doc, l)[i]]
           /\ \A i \in 1 .. CollectionLength(doc, l) :
                 Items(doc, l)[i] \in Location /\ Items(doc, l)[i] = Append(l, Index(i - 1))
<1>1. IsFiniteSet(Children(doc, l))
  BY FS_Subset DEF Children
<1>2. CollectionLength(doc, l) \in Nat
  BY <1>1, FS_CardinalityType DEF CollectionLength
<1>3. \A i \in 1 .. CollectionLength(doc, l) : Index(i - 1) \in Step
  BY <1>2 DEF Index, Step
<1> QED
  BY <1>2, <1>3, LocationAppend DEF Items

-----------------------------------------------------------------------------
(* The request and what is looked up in it. *)

Given == \E input \in Inputs : detector = input.detector /\ request = input.request

LEMMA GivenIs ==
    ASSUME Given
    PROVE  EvaluationRequest(request) /\ DetectorConfig(detector)
  BY InputsAssumption DEF Given

LEMMA Looked ==
    ASSUME Given
    PROVE  /\ IsFiniteSet(DOMAIN ContentDoc)
           /\ IsFiniteSet(DOMAIN request.subject)
           /\ Tools \in Location /\ Attachments \in Location
           /\ \A f \in Fields : <<Key(f)>> \in Location /\ <<Key("data"), Key(f)>> \in Location
<1>1. IsTextDocument(request.data) /\ IsTextDocument(request.subject)
  BY GivenIs DEF EvaluationRequest
<1>2. IsFiniteSet(DOMAIN request.data) /\ IsFiniteSet(DOMAIN request.subject)
  BY <1>1 DEF IsTextDocument, IsDocument
<1>3. IsFiniteSet({<<Key("data")>> \o m : m \in DOMAIN request.data})
  <2> DEFINE D == DOMAIN request.data
             at == [m \in D |-> <<Key("data")>> \o m]
             T == {<<Key("data")>> \o m : m \in D}
  <2>1. at \in Surjection(D, T)
    BY DEF Surjection
  <2> HIDE DEF at, T
  <2>2. IsFiniteSet(T)
    BY <1>2, <2>1, FS_Surjection
  <2> QED
    BY <2>2 DEF T
<1>4. IsFiniteSet(DOMAIN ContentDoc)
  BY <1>3 DEF ContentDoc
<1>5. \A f \in Fields : <<Key(f)>> \in Location /\ <<Key("data"), Key(f)>> \in Location
  <2>1. \A f \in Fields : Key(f) \in Step
    BY FieldsAreSteps
  <2>2. Key("data") \in Step
    BY <2>1 DEF Fields
  <2> QED
    BY <2>1, <2>2 DEF Location
<1>6. Tools \in Location /\ Attachments \in Location
  BY <1>5 DEF Fields, Tools, Attachments
<1> QED
  BY <1>2, <1>4, <1>5, <1>6

\* The values of a list are what the document has where their paths lead.
ValuesAt(vs, root, doc) ==
    /\ IsList(vs)
    /\ \A v \in Range(vs) : \E l \in Location :
          v = [path |-> Path(root, l), value |-> TextAt(doc, l)]

LEMMA PathFixesValue ==
    ASSUME NEW vs, NEW root, NEW doc, ValuesAt(vs, root, doc),
           NEW v \in Range(vs), NEW w \in Range(vs), v.path = w.path
    PROVE  v = w
<1>1. PICK l \in Location : v = [path |-> Path(root, l), value |-> TextAt(doc, l)]
  BY DEF ValuesAt
<1>2. PICK m \in Location : w = [path |-> Path(root, m), value |-> TextAt(doc, m)]
  BY DEF ValuesAt
<1>3. Path(root, l) = Path(root, m)
  BY <1>1, <1>2
<1>4. l = m
  BY <1>3, PathsAreUnique
<1> QED
  BY <1>1, <1>2, <1>4

LEMMA ValuesConcat ==
    ASSUME NEW vs, NEW ws, NEW root, NEW doc, ValuesAt(vs, root, doc), ValuesAt(ws, root, doc)
    PROVE  ValuesAt(vs \o ws, root, doc)
  BY ListsConcat DEF ValuesAt

LEMMA ValuesFlatten ==
    ASSUME NEW k \in Nat, NEW ss, ss = [i \in 1 .. k |-> ss[i]], NEW root, NEW doc,
           \A i \in 1 .. k : ValuesAt(ss[i], root, doc)
    PROVE  ValuesAt(FlattenSeq(ss), root, doc)
<1>1. \A i \in 1 .. k : IsList(ss[i])
  BY DEF ValuesAt
<1>2. /\ IsList(FlattenSeq(ss))
      /\ Range(FlattenSeq(ss)) = UNION {Range(ss[i]) : i \in 1 .. k}
  BY <1>1, ListsFlatten
<1> QED
  BY <1>2 DEF ValuesAt

LEMMA ValueWhen ==
    ASSUME NEW root, NEW doc, NEW l \in Location, NEW c \in BOOLEAN,
           NEW v, v = [path |-> Path(root, l), value |-> TextAt(doc, l)]
    PROVE  ValuesAt(When(c, v), root, doc)
  BY WhenIs DEF ValuesAt

LEMMA StringValuesAt ==
    ASSUME NEW root, NEW doc, IsFiniteSet(DOMAIN doc), NEW location \in Location
    PROVE  ValuesAt(StringValues(doc, root, location), root, doc)
<1> DEFINE items == Items(doc, location)
           k == CollectionLength(doc, location)
           at(i) == LET value == TextAt(doc, items[i]) IN
                    When(value # <<>>, [path |-> Path(root, items[i]), value |-> value])
           ss == [i \in DOMAIN items |-> at(i)]
<1>1. k \in Nat /\ DOMAIN items = 1 .. k /\ \A i \in 1 .. k : items[i] \in Location
  BY ItemsAre
<1>2. \A i \in 1 .. k : ValuesAt(at(i), root, doc)
  BY <1>1, ValueWhen
<1> HIDE DEF items, k, at
<1>3. ss = [i \in 1 .. k |-> ss[i]] /\ \A i \in 1 .. k : ss[i] = at(i)
  BY <1>1
<1> HIDE DEF ss
<1>4. ValuesAt(FlattenSeq(ss), root, doc)
  BY <1>1, <1>2, <1>3, ValuesFlatten
<1> QED
  BY <1>4 DEF StringValues, ss, at, items

LEMMA SelectedIs ==
    ASSUME NEW l \in Location
    PROVE  /\ Selected(l, TextAt(ContentDoc, l))
                = [path |-> Path("content", l), value |-> TextAt(ContentDoc, l)]
           /\ ValuesAt(<< Selected(l, TextAt(ContentDoc, l)) >>, "content", ContentDoc)
<1> DEFINE v == Selected(l, TextAt(ContentDoc, l))
<1>1. v = [path |-> Path("content", l), value |-> TextAt(ContentDoc, l)]
  BY DEF Selected
<1> HIDE DEF v
<1>2. ValuesAt(When(TRUE, v), "content", ContentDoc)
  BY <1>1, ValueWhen
<1>3. When(TRUE, v) = <<v>>
  BY DEF When
<1> QED
  BY <1>1, <1>2, <1>3 DEF v

\* The first of the fields that holds a string, if one does.
LEMMA FirstTextAt ==
    ASSUME NEW item \in Location, NEW fields \in Seq(Fields)
    PROVE  /\ ValuesAt(FirstText(item, fields), "content", ContentDoc)
           /\ FirstText(item, fields) = <<>> <=>
                 \A k \in DOMAIN fields : TextAt(ContentDoc, Append(item, Key(fields[k]))) = <<>>
           /\ \A v \in Range(FirstText(item, fields)) : \E k \in DOMAIN fields :
                 /\ v = Selected(Append(item, Key(fields[k])),
                                 TextAt(ContentDoc, Append(item, Key(fields[k]))))
                 /\ v.value # <<>>
<1> DEFINE at(k) == Append(item, Key(fields[k]))
           found == {k \in DOMAIN fields : TextAt(ContentDoc, at(k)) # <<>>}
           v == Selected(at(Min(found)), TextAt(ContentDoc, at(Min(found))))
<1>1. FirstText(item, fields) = When(found # {}, v)
  BY DEF FirstText
<1>2. CASE found = {}
  <2>1. FirstText(item, fields) = <<>> /\ Range(<<>>) = {}
    BY <1>1, <1>2 DEF When, Range
  <2>2. IsList(<<>>)
    <3>1. <<>> \in Seq({})
      OBVIOUS
    <3> QED
      BY <3>1 DEF IsList
  <2> QED
    BY <1>2, <2>1, <2>2 DEF ValuesAt
<1>3. CASE found # {}
  <2>1. found \in SUBSET Nat
    OBVIOUS
  <2>2. \E k \in found : \A m \in found : k <= m
    <3> HIDE DEF found
    <3> QED
      BY <1>3, <2>1, LeastNumber
  <2>3. Min(found) \in found
    <3> HIDE DEF found
    <3>1. Min(found) = CHOOSE k \in found : \A m \in found : k <= m
      BY DEF Min
    <3> QED
      BY <2>2, <3>1, Zenon
  <2> DEFINE k == Min(found)
  <2>4. k \in DOMAIN fields /\ TextAt(ContentDoc, at(k)) # <<>> /\ fields[k] \in Fields
    BY <2>3
  <2>5. at(k) \in Location
    BY <2>4, FieldAt
  <2>6. FirstText(item, fields) = <<v>> /\ Range(<<v>>) = {v} /\ <<v>> # <<>>
    <3> HIDE DEF v, found
    <3> QED
      BY <1>1, <1>3 DEF When, Range
  <2>7. ValuesAt(<<v>>, "content", ContentDoc) /\ v.value = TextAt(ContentDoc, at(k))
    BY <2>5, SelectedIs
  <2> QED
    BY <2>4, <2>6, <2>7
<1> QED
  BY <1>2, <1>3

LEMMA ToolNamesAt ==
    ASSUME Given
    PROVE  ValuesAt(ToolNames, "content", ContentDoc)
<1> DEFINE items == Items(ContentDoc, Tools)
           m == CollectionLength(ContentDoc, Tools)
           named(item) == Append(item, Key("name"))
           name(item) ==
             CASE Is(ContentDoc, item, "string") -> << Selected(item, ContentDoc[item].chars) >>
               [] Is(ContentDoc, named(item), "string") ->
                      << Selected(named(item), ContentDoc[named(item)].chars) >>
               [] OTHER -> <<>>
           ss == [i \in DOMAIN items |-> name(items[i])]
<1>1. m \in Nat /\ DOMAIN items = 1 .. m /\ \A i \in 1 .. m : items[i] \in Location
  BY Looked, ItemsAre
<1>2. ASSUME NEW item \in Location
      PROVE  ValuesAt(name(item), "content", ContentDoc)
  <2>1. named(item) \in Location
    BY FieldAt DEF Fields
  <2>2. \A l \in Location : Is(ContentDoc, l, "string") =>
           ValuesAt(<< Selected(l, ContentDoc[l].chars) >>, "content", ContentDoc)
    BY SelectedIs DEF TextAt
  <2>3. ValuesAt(<<>>, "content", ContentDoc)
    <3>1. <<>> \in Seq({}) /\ Range(<<>>) = {}
      BY DEF Range
    <3> QED
      BY <3>1 DEF ValuesAt, IsList
  <2> HIDE DEF named
  <2> QED
    BY <2>1, <2>2, <2>3
<1> HIDE DEF items, m, name
<1>3. ss = [i \in 1 .. m |-> ss[i]] /\ \A i \in 1 .. m : ss[i] = name(items[i])
  BY <1>1
<1> HIDE DEF ss
<1>4. ValuesAt(FlattenSeq(ss), "content", ContentDoc)
  BY <1>1, <1>2, <1>3, ValuesFlatten
<1> QED
  BY <1>4 DEF ToolNames, ss, name, items

LEMMA FileTypesAt ==
    ASSUME Given
    PROVE  ValuesAt(FileTypes, "content", ContentDoc)
<1> DEFINE items == Items(ContentDoc, Attachments)
           m == CollectionLength(ContentDoc, Attachments)
           fields == <<"file_type", "fileType", "extension">>
           ss == [i \in DOMAIN items |-> FirstText(items[i], fields)]
<1>1. m \in Nat /\ DOMAIN items = 1 .. m /\ \A i \in 1 .. m : items[i] \in Location
  BY Looked, ItemsAre
<1>2. fields \in Seq(Fields)
  BY DEF Fields
<1> HIDE DEF items, m, fields
<1>3. ss = [i \in 1 .. m |-> ss[i]] /\ \A i \in 1 .. m : ss[i] = FirstText(items[i], fields)
  BY <1>1
<1> HIDE DEF ss
<1>4. ValuesAt(FlattenSeq(ss), "content", ContentDoc)
  BY <1>1, <1>2, <1>3, FirstTextAt, ValuesFlatten
<1>5. <<Key("data"), Key("file_types")>> \in Location
  BY Looked DEF Fields
<1>6. ValuesAt(StringValues(ContentDoc, "content", <<Key("data"), Key("file_types")>>),
               "content", ContentDoc)
  BY <1>5, Looked, StringValuesAt
<1> QED
  BY <1>4, <1>6, ValuesConcat DEF FileTypes, ss, items, fields

\* A path is reported for one value at most.
LEMMA SelectorValuesDiffer ==
    ASSUME Given, detector.kind = "allowDeny"
    PROVE  LET values == SelectorValues(detector.selector) IN
           IsList(values) /\ \A v, w \in Range(values) : v.path = w.path => v = w
<1> DEFINE values == SelectorValues(detector.selector)
<1>1. detector.selector \in Selector
  BY GivenIs DEF DetectorConfig
<1>2. ASSUME NEW root, NEW doc, ValuesAt(values, root, doc)
      PROVE  IsList(values) /\ \A v, w \in Range(values) : v.path = w.path => v = w
  BY <1>2, PathFixesValue, Zenon DEF ValuesAt
<1>3. CASE detector.selector \in DOMAIN TargetKey
  <2> DEFINE value == TextAt(request.target, <<Key(TargetKey[detector.selector])>>)
             item == [path |-> <<detector.selector>>, value |-> value]
  <2>1. DOMAIN TargetKey = {"target.model", "target.provider", "target.data_region"}
    BY DEF TargetKey
  <2>2. values = When(value # <<>>, item)
    <3> DEFINE key == TargetKey[detector.selector]
    <3> HIDE DEF key
    <3> QED
      BY <1>3, <2>1, Zenon DEF SelectorValues, key
  <2>3. \A c \in BOOLEAN : \A x :
           IsList(When(c, x)) /\ \A v, w \in Range(When(c, x)) : v.path = w.path => v = w
    BY WhenIs
  <2> HIDE DEF value, item
  <2> QED
    BY <2>2, <2>3
<1>4. CASE detector.selector = "subject.roles"
  <2>1. <<Key("roles")>> \in Location /\ IsFiniteSet(DOMAIN request.subject)
    BY Looked DEF Fields
  <2>2. values = StringValues(request.subject, "subject", <<Key("roles")>>)
    BY <1>4 DEF SelectorValues, TargetKey
  <2> QED
    BY <1>2, <2>1, <2>2, StringValuesAt
<1>5. CASE detector.selector = "content.tools"
  <2>1. values = ToolNames
    BY <1>5 DEF SelectorValues, TargetKey
  <2> QED
    BY <1>2, <2>1, ToolNamesAt
<1>6. CASE detector.selector = "content.domains"
  <2>1. <<Key("data"), Key("domains")>> \in Location
    BY Looked DEF Fields
  <2>2. values = StringValues(ContentDoc, "content", <<Key("data"), Key("domains")>>)
    BY <1>6 DEF SelectorValues, TargetKey
  <2> QED
    BY <1>2, <2>1, <2>2, Looked, StringValuesAt
<1>7. CASE detector.selector = "content.file_types"
  <2>1. values = FileTypes
    BY <1>7 DEF SelectorValues, TargetKey
  <2> QED
    BY <1>2, <2>1, FileTypesAt
<1> QED
  BY <1>1, <1>3, <1>4, <1>5, <1>6, <1>7 DEF Selector

-----------------------------------------------------------------------------
(* Allow and deny lists. *)

ListFindings ==
    LET values == SelectorValues(detector.selector)
    IN  FlattenSeq([i \in DOMAIN values |->
            When(Rule(values[i].value) # "none",
                 [path |-> values[i].path, rule |-> Rule(values[i].value)])])

LEMMA ListsHold ==
    ASSUME Given, pc = "done" /\ detector.kind = "allowDeny" => findings = ListFindings
    PROVE  ListsAreRespected
<1> SUFFICES ASSUME detector.kind = "allowDeny", findings = ListFindings
             PROVE  LET values == Range(SelectorValues(detector.selector))
                        reported(rule) == {f.path : f \in {g \in Range(findings) : g.rule = rule}}
                    IN  /\ reported("deny") = {v.path : v \in {u \in values :
                               \E d \in detector.deny : Listed({d}, u.value, detector.caseSensitive)}}
                        /\ reported("deny") \cap reported("allow") = {}
                        /\ (findings = <<>>) <=>
                              \A v \in values :
                                 /\ detector.allow # {} =>
                                      \E a \in detector.allow : Listed({a}, v.value, detector.caseSensitive)
                                 /\ \A d \in detector.deny : ~Listed({d}, v.value, detector.caseSensitive)
  BY DEF ListsAreRespected, Done
<1> DEFINE list == SelectorValues(detector.selector)
           values == Range(list)
           m == Len(list)
           reported(rule) == {f.path : f \in {g \in Range(findings) : g.rule = rule}}
           finding(v) == [path |-> v.path, rule |-> Rule(v.value)]
           ss == [i \in DOMAIN list |-> When(Rule(list[i].value) # "none", finding(list[i]))]
<1>1. /\ IsList(list) /\ m \in Nat /\ DOMAIN list = 1 .. m
      /\ \A v, w \in values : v.path = w.path => v = w
  BY SelectorValuesDiffer, ListIs
<1>2. findings = FlattenSeq(ss)
  BY DEF ListFindings
<1>3. /\ IsList(findings)
      /\ Range(findings) = {finding(v) : v \in {u \in values : Rule(u.value) # "none"}}
  <2>1. \A i \in 1 .. m : ss[i] = When(Rule(list[i].value) # "none", finding(list[i]))
    BY <1>1
  <2>2. ss = [i \in 1 .. m |-> ss[i]]
    BY <1>1
  <2> HIDE DEF ss, finding, list, m
  <2>3. \A i \in 1 .. m : /\ IsList(ss[i])
                         /\ Range(ss[i]) = IF Rule(list[i].value) # "none" THEN {finding(list[i])} ELSE {}
    BY <2>1, WhenIs
  <2>4. /\ IsList(FlattenSeq(ss))
        /\ Range(FlattenSeq(ss)) = UNION {Range(ss[i]) : i \in 1 .. m}
    BY <1>1, <2>2, <2>3, ListsFlatten
  <2>5. values = {list[i] : i \in 1 .. m}
    BY <1>1 DEF Range
  <2>6. \A f : f \in Range(findings) <=> \E i \in 1 .. m : f \in Range(ss[i])
    BY <1>2, <2>4
  <2>7. \A f : f \in Range(findings) <=>
           \E i \in 1 .. m : Rule(list[i].value) # "none" /\ f = finding(list[i])
    BY <2>3, <2>6
  <2>8. \A f : f \in Range(findings) <=>
           \E v \in values : Rule(v.value) # "none" /\ f = finding(v)
    BY <2>5, <2>7
  <2> QED
    BY <1>2, <2>4, <2>8
<1> HIDE DEF list, m, ss
<1>4. \A v \in values :
         /\ Denied(v.value) <=> \E d \in detector.deny : Listed({d}, v.value, detector.caseSensitive)
         /\ Allowed(v.value) <=> (detector.allow # {} =>
               \E a \in detector.allow : Listed({a}, v.value, detector.caseSensitive))
  BY DEF Denied, Allowed, Listed
<1>5. \A v \in values :
         /\ Rule(v.value) = "deny" <=> Denied(v.value)
         /\ Rule(v.value) = "allow" <=> ~Denied(v.value) /\ ~Allowed(v.value)
         /\ Rule(v.value) # "none" <=> Denied(v.value) \/ ~Allowed(v.value)
  BY DEF Rule
<1>6. \A r : reported(r) = {v.path : v \in {u \in values : Rule(u.value) = r /\ r # "none"}}
  <2>1. \A v : finding(v).path = v.path /\ finding(v).rule = Rule(v.value)
    OBVIOUS
  <2>2. \A r : {g \in Range(findings) : g.rule = r}
              = {finding(v) : v \in {u \in values : Rule(u.value) = r /\ r # "none"}}
    <3> HIDE DEF finding, values
    <3> QED
      BY <1>3, <2>1
  <2> HIDE DEF finding, values
  <2> QED
    BY <2>1, <2>2, SMTT(30)
<1>7. reported("deny") = {v.path : v \in {u \in values : Denied(u.value)}}
  BY <1>5, <1>6
<1>8. reported("allow") = {v.path : v \in {u \in values : ~Denied(u.value) /\ ~Allowed(u.value)}}
  BY <1>5, <1>6
<1>9. (findings = <<>>) <=> \A v \in values : Allowed(v.value) /\ ~Denied(v.value)
  <2>1. (findings = <<>>) <=> Range(findings) = {}
    BY <1>3, ListIs
  <2> HIDE DEF values
  <2> QED
    BY <1>3, <1>5, <2>1
<1>10. reported("deny") \cap reported("allow") = {}
  BY <1>1, <1>7, <1>8
<1>11. reported("deny") = {v.path : v \in {u \in values :
          \E d \in detector.deny : Listed({d}, u.value, detector.caseSensitive)}}
  BY <1>4, <1>7
<1>12. (findings = <<>>) <=>
          \A v \in values :
             /\ detector.allow # {} =>
                  \E a \in detector.allow : Listed({a}, v.value, detector.caseSensitive)
             /\ \A d \in detector.deny : ~Listed({d}, v.value, detector.caseSensitive)
  BY <1>4, <1>9
<1> QED
  BY <1>10, <1>11, <1>12 DEF list

-----------------------------------------------------------------------------
(* Request limits. *)

LEMMA StringsAre ==
    ASSUME Given
    PROVE  /\ IsList(Texts(request)) /\ IsList(Strings(request))
           /\ \A x \in Range(Strings(request)) : x.chars \in Text
           /\ Range(Texts(request)) \subseteq Range(Strings(request))
<1> DEFINE m == Len(request.messages)
           one == << [path |-> Path("content", <<Key("text")>>), chars |-> request.text] >>
           first == IF request.text = <<>> THEN <<>> ELSE one
           second == [i \in DOMAIN request.messages |->
                        [path |-> MessagePath(i), chars |-> request.messages[i]]]
           third == DataStrings(request.data)
<1>1. /\ request.text \in Text /\ request.messages \in Seq(Text)
      /\ IsTextDocument(request.data)
  BY GivenIs DEF EvaluationRequest
<1>2. IsList(first) /\ \A x \in Range(first) : x.chars \in Text
  <2>1. one \in Seq(Range(one)) /\ \A x \in Range(one) : x.chars \in Text
    BY <1>1 DEF Range
  <2>2. <<>> \in Seq({}) /\ Range(<<>>) = {}
    BY DEF Range
  <2> HIDE DEF one
  <2> QED
    BY <2>1, <2>2 DEF IsList
<1>3. IsList(second) /\ \A x \in Range(second) : x.chars \in Text
  <2>1. m \in Nat /\ DOMAIN request.messages = 1 .. m /\ \A i \in 1 .. m : request.messages[i] \in Text
    BY <1>1
  <2>2. DOMAIN second = 1 .. m /\ second = [i \in 1 .. m |-> second[i]]
        /\ \A i \in 1 .. m : second[i] \in Range(second) /\ second[i].chars \in Text
    BY <2>1 DEF Range
  <2> HIDE DEF second, m
  <2>3. second \in Seq(Range(second))
    BY <2>1, <2>2, IsASeq
  <2> QED
    BY <2>2, <2>3 DEF IsList, Range
<1>4. IsList(third) /\ \A x \in Range(third) : x.chars \in Text
  <2> DEFINE S == {l \in DOMAIN request.data : request.data[l].is = "string"}
             k == Cardinality(S)
             o == SetToSeq(S)
  <2>1. IsFiniteSet(S)
    BY <1>1, FS_Subset DEF IsTextDocument, IsDocument
  <2>2. k \in Nat /\ o \in Seq(S) /\ Len(o) = k
    BY <2>1, SetToSeqIs, FS_CardinalityType
  <2>3. \A i \in 1 .. k : request.data[o[i]].chars \in Text
    <3>1. \A i \in 1 .. k : o[i] \in S
      <4> HIDE DEF o, S, k
      <4> QED
        BY <2>2
    <3>2. \A l \in S : request.data[l].chars \in Text
      BY <1>1 DEF IsTextDocument
    <3> HIDE DEF o, S, k
    <3> QED
      BY <3>1, <3>2, Zenon
  <2>4. third = [n_ \in DOMAIN o |->
                   [path |-> DataPath(o[n_]), chars |-> request.data[o[n_]].chars]]
    BY DEF DataStrings
  <2> HIDE DEF third, o, k
  <2>5. DOMAIN third = 1 .. k /\ third = [i \in 1 .. k |-> third[i]]
        /\ \A i \in 1 .. k : third[i] \in Range(third) /\ third[i].chars \in Text
    BY <2>2, <2>3, <2>4 DEF Range
  <2>6. third \in Seq(Range(third))
    BY <2>2, <2>5, IsASeq
  <2> QED
    BY <2>5, <2>6 DEF IsList, Range
<1>5. Texts(request) = first \o second
  BY DEF Texts
<1> HIDE DEF first, second, third
<1>6. IsList(Texts(request)) /\ \A x \in Range(Texts(request)) : x.chars \in Text
  BY <1>2, <1>3, <1>5, ListsConcat
<1>7. Strings(request) = Texts(request) \o third
  BY DEF Strings, third
<1> QED
  BY <1>4, <1>6, <1>7, ListsConcat

LEMMA BytesAre ==
    ASSUME NEW s \in Text
    PROVE  IsList(Bytes(s)) /\ ByteLength(s) \in Nat /\ (s # <<>> => Bytes(s) # <<>>)
<1> DEFINE of(i) == [b \in 1 .. Width[s[i]] |-> <<s[i], b>>]
           ss == [i \in DOMAIN s |-> of(i)]
           m == Len(s)
<1>1. m \in Nat /\ DOMAIN s = 1 .. m /\ \A i \in 1 .. m : Width[s[i]] \in Nat
  BY CharactersAssumption DEF Text
<1>2. \A i \in 1 .. m : of(i) \in Seq({<<s[i], b>> : b \in 1 .. Width[s[i]]})
  BY <1>1
<1>3. \A i \in 1 .. m : IsList(of(i))
  BY <1>2 DEF IsList
<1> HIDE DEF of, m
<1>4. ss = [i \in 1 .. m |-> ss[i]] /\ \A i \in 1 .. m : ss[i] = of(i)
  BY <1>1
<1> HIDE DEF ss
<1>5. IsList(FlattenSeq(ss)) /\ Range(FlattenSeq(ss)) = UNION {Range(ss[i]) : i \in 1 .. m}
  BY <1>1, <1>3, <1>4, ListsFlatten
<1>6. Bytes(s) = FlattenSeq(ss)
  BY DEF Bytes, ss, of
<1>7. s # <<>> => Range(Bytes(s)) # {}
  <2> SUFFICES ASSUME s # <<>> PROVE Range(Bytes(s)) # {}
    OBVIOUS
  <2>1. 1 \in 1 .. m
    BY <1>1 DEF m, Text
  <2>2. 1 \in 1 .. Width[s[1]] /\ 1 \in DOMAIN of(1)
    <3>1. Width[s[1]] \in Nat \ {0}
      BY <1>1, <2>1, CharactersAssumption DEF Text
    <3> QED
      BY <3>1 DEF of
  <2>3. of(1)[1] \in Range(ss[1])
    BY <1>4, <2>1, <2>2 DEF Range
  <2> QED
    BY <1>5, <1>6, <2>1, <2>3
<1> QED
  BY <1>5, <1>6, <1>7, ListIs DEF ByteLength

LEMMA ContentBytesAre ==
    ASSUME Given
    PROVE  ContentBytes \in Nat
<1> DEFINE strings == Strings(request)
           m == Len(strings)
           ss == [k \in DOMAIN strings |-> Bytes(strings[k].chars)]
<1>1. m \in Nat /\ DOMAIN strings = 1 .. m /\ \A i \in 1 .. m : strings[i].chars \in Text
  BY StringsAre, ListIs DEF Range
<1> HIDE DEF strings, m
<1>2. ss = [i \in 1 .. m |-> ss[i]] /\ \A i \in 1 .. m : IsList(ss[i])
  BY <1>1, BytesAre
<1> HIDE DEF ss
<1>3. IsList(FlattenSeq(ss))
  BY <1>1, <1>2, ListsFlatten
<1>4. Len(FlattenSeq(ss)) \in Nat
  BY <1>3, ListIs
<1> QED
  BY <1>4 DEF ContentBytes, ss, strings

LEMMA TokensAreRoundedUp ==
    ASSUME NEW bytes \in Nat, NEW max \in Nat
    PROVE  EstimatedTokens(bytes) > max <=> bytes > 4 * max
  BY DEF EstimatedTokens

\* What is measured, as a set.
LEMMA MeasurementsAre ==
    ASSUME Given
    PROVE  /\ IsList(Measurements)
           /\ Range(Measurements) =
                { Measured("request_bytes", <<>>,
                           IF request.encoded = 0 THEN request.size ELSE request.encoded),
                  Measured("messages", Path("content", <<Key("messages")>>), Len(request.messages)),
                  Measured("tools", Path("content", Tools), CollectionLength(ContentDoc, Tools)),
                  Measured("attachments", Path("content", Attachments),
                           CollectionLength(ContentDoc, Attachments)),
                  Measured("estimated_tokens", <<"content">>, EstimatedTokens(ContentBytes)) }
                \cup { Measured("message_bytes", MessagePath(i), ByteLength(request.messages[i])) :
                         i \in DOMAIN request.messages }
<1> DEFINE a == Measured("request_bytes", <<>>,
                         IF request.encoded = 0 THEN request.size ELSE request.encoded)
           b == Measured("messages", Path("content", <<Key("messages")>>), Len(request.messages))
           of(i) == Measured("message_bytes", MessagePath(i), ByteLength(request.messages[i]))
           ms == [i \in DOMAIN request.messages |-> of(i)]
           c == Measured("tools", Path("content", Tools), CollectionLength(ContentDoc, Tools))
           d == Measured("attachments", Path("content", Attachments),
                         CollectionLength(ContentDoc, Attachments))
           e == Measured("estimated_tokens", <<"content">>, EstimatedTokens(ContentBytes))
           m == Len(request.messages)
<1>1. Measurements = <<a, b>> \o ms \o <<c, d, e>>
  BY DEF Measurements
<1>2. m \in Nat /\ DOMAIN request.messages = 1 .. m
  BY GivenIs DEF EvaluationRequest
<1> HIDE DEF a, b, c, d, e, of, m
<1>3. IsList(<<a, b>>) /\ Range(<<a, b>>) = {a, b}
  <2>1. <<a, b>> \in Seq({a, b}) /\ Range(<<a, b>>) = {a, b}
    BY DEF Range
  <2> QED
    BY <2>1 DEF IsList
<1>4. IsList(<<c, d, e>>) /\ Range(<<c, d, e>>) = {c, d, e}
  <2>1. <<c, d, e>> \in Seq({c, d, e}) /\ Range(<<c, d, e>>) = {c, d, e}
    BY DEF Range
  <2> QED
    BY <2>1 DEF IsList
<1>5. IsList(ms) /\ Range(ms) = {of(i) : i \in DOMAIN request.messages}
  <2>1. ms \in Seq({of(i) : i \in 1 .. m}) /\ Range(ms) = {of(i) : i \in 1 .. m}
    BY <1>2 DEF Range
  <2> QED
    BY <1>2, <2>1 DEF IsList
<1> DEFINE two == <<a, b>>  three == <<c, d, e>>
<1> HIDE DEF two, three, ms
<1>6. IsList(two \o ms) /\ Range(two \o ms) = {a, b} \cup {of(i) : i \in DOMAIN request.messages}
  BY <1>3, <1>5, ListsConcat DEF two
<1>7. /\ IsList((two \o ms) \o three)
      /\ Range((two \o ms) \o three) = Range(two \o ms) \cup {c, d, e}
  BY <1>4, <1>6, ListsConcat DEF three
<1>8. /\ IsList(Measurements)
      /\ Range(Measurements) = {a, b, c, d, e} \cup {of(i) : i \in DOMAIN request.messages}
  BY <1>1, <1>6, <1>7 DEF two, three, ms
<1> QED
  BY <1>8 DEF a, b, c, d, e, of

\* The types of the attachments, and of the content.
LEMMA MIMETypesAre ==
    ASSUME Given
    PROVE  /\ IsList(ContentMIMETypes)
           /\ \A i \in DOMAIN Items(ContentDoc, Attachments) :
                 LET item == Items(ContentDoc, Attachments)[i]
                     declared == FirstText(item, <<"mime_type", "mimeType">>)
                 IN  IF declared = <<>> THEN Selected(item, <<>>) \in Range(ContentMIMETypes)
                     ELSE Range(declared) \subseteq Range(ContentMIMETypes)
<1> DEFINE fields == <<"mime_type", "mimeType">>
           items == Items(ContentDoc, Attachments)
           m == CollectionLength(ContentDoc, Attachments)
           typeOf(item) ==
             LET declared == FirstText(item, fields)
             IN  IF declared = <<>> THEN << Selected(item, <<>>) >> ELSE declared
           ss == [i \in DOMAIN items |-> typeOf(items[i])]
           first == When(request.type # <<>>, Selected(<<Key("type")>>, request.type))
<1>1. m \in Nat /\ DOMAIN items = 1 .. m /\ \A i \in 1 .. m : items[i] \in Location
  BY Looked, ItemsAre
<1>2. fields \in Seq(Fields)
  BY DEF Fields
<1>3. IsList(first)
  BY WhenIs
<1>4. ContentMIMETypes = first \o FlattenSeq(ss)
  BY DEF ContentMIMETypes
<1> HIDE DEF fields, items, m, first
<1>5. ASSUME NEW item \in Location
      PROVE  /\ IsList(typeOf(item))
             /\ FirstText(item, fields) = <<>> => Selected(item, <<>>) \in Range(typeOf(item))
             /\ FirstText(item, fields) # <<>> => Range(FirstText(item, fields)) = Range(typeOf(item))
  <2> DEFINE x == Selected(item, <<>>)
  <2> HIDE DEF x
  <2>1. <<x>> \in Seq({x}) /\ x \in Range(<<x>>)
    BY DEF Range
  <2>2. IsList(FirstText(item, fields))
    BY <1>2, FirstTextAt DEF ValuesAt
  <2> QED
    BY <2>1, <2>2 DEF IsList, x
<1> HIDE DEF typeOf
<1>6. ss = [i \in 1 .. m |-> ss[i]] /\ \A i \in 1 .. m : ss[i] = typeOf(items[i])
  BY <1>1
<1> HIDE DEF ss
<1>7. /\ IsList(FlattenSeq(ss))
      /\ Range(FlattenSeq(ss)) = UNION {Range(ss[i]) : i \in 1 .. m}
  BY <1>1, <1>5, <1>6, ListsFlatten
<1>8. /\ IsList(ContentMIMETypes)
      /\ \A i \in 1 .. m : Range(typeOf(items[i])) \subseteq Range(ContentMIMETypes)
  <2>1. /\ IsList(ContentMIMETypes)
        /\ Range(FlattenSeq(ss)) \subseteq Range(ContentMIMETypes)
    BY <1>3, <1>4, <1>7, ListsConcat
  <2>2. \A i \in 1 .. m : Range(ss[i]) \subseteq Range(FlattenSeq(ss))
    BY <1>7
  <2> QED
    BY <1>6, <2>1, <2>2
<1>9. ASSUME NEW i \in DOMAIN items
      PROVE  IF FirstText(items[i], fields) = <<>>
             THEN Selected(items[i], <<>>) \in Range(ContentMIMETypes)
             ELSE Range(FirstText(items[i], fields)) \subseteq Range(ContentMIMETypes)
  <2>1. items[i] \in Location /\ Range(typeOf(items[i])) \subseteq Range(ContentMIMETypes)
    BY <1>1, <1>8
  <2> QED
    BY <1>5, <2>1
<1> QED
  BY <1>8, <1>9 DEF items, fields

LimitFindings == Exceeding \o IF detector.allowed = {} THEN <<>> ELSE MIMETypeFindings

\* What is reported, as a set.
LEMMA LimitFindingsAre ==
    ASSUME Given, findings = LimitFindings
    PROVE  /\ \A limit \in Limit :
                 Reported(limit) = {m.path : m \in {k \in Range(Measurements) : Exceeds(k) /\ k.limit = limit}}
           /\ detector.allowed # {} =>
                 \A c \in Range(ContentMIMETypes) :
                    ~Listed(detector.allowed, c.value, FALSE) => c.path \in Reported("allowed_mime_types")
<1> DEFINE over == [k \in DOMAIN Measurements |-> When(Exceeds(Measurements[k]), Measurements[k])]
           O == {m \in Range(Measurements) : Exceeds(m)}
           same == [m \in Range(Measurements) |-> m]
<1>1. IsList(Measurements) /\ \A k \in DOMAIN Measurements : Measurements[k] \in Range(Measurements)
  BY MeasurementsAre DEF Range
<1>2. IsList(Exceeding) /\ Range(Exceeding) = O
  <2>1. over = [i \in DOMAIN Measurements |-> over[i]]
    OBVIOUS
  <2>2. \A i \in DOMAIN Measurements : over[i] = When(Measurements[i] \in O, same[Measurements[i]])
    BY <1>1 DEF When
  <2>3. Exceeding = FlattenSeq(over)
    BY DEF Exceeding
  <2> HIDE DEF over
  <2>4. Takes(over, Measurements, O, same)
    BY <2>1, <2>2 DEF Takes
  <2>5. IsList(FlattenSeq(over)) /\ Range(FlattenSeq(over)) = Taken(Measurements, O, same)
    <3> HIDE DEF O, same
    <3> QED
      BY <1>1, <2>4, MIMETypesAre, ListsSelect
  <2> QED
    BY <2>3, <2>5 DEF Taken
<1> DEFINE C == {c \in Range(ContentMIMETypes) : ~Listed(detector.allowed, c.value, FALSE)}
           to == [c \in Range(ContentMIMETypes) |-> [limit |-> "allowed_mime_types", path |-> c.path]]
           ms == [k \in DOMAIN ContentMIMETypes |->
                    LET item == ContentMIMETypes[k] IN
                    When(~Listed(detector.allowed, item.value, FALSE),
                         [limit |-> "allowed_mime_types", path |-> item.path])]
<1>3. IsList(MIMETypeFindings) /\ Range(MIMETypeFindings) = {to[c] : c \in C}
  <2>1. ms = [i \in DOMAIN ContentMIMETypes |-> ms[i]]
    OBVIOUS
  <2>2. \A i \in DOMAIN ContentMIMETypes :
           ms[i] = When(ContentMIMETypes[i] \in C, to[ContentMIMETypes[i]])
    BY DEF When, Range
  <2>3. MIMETypeFindings = FlattenSeq(ms)
    BY DEF MIMETypeFindings
  <2> HIDE DEF ms
  <2>4. Takes(ms, ContentMIMETypes, C, to)
    BY <2>1, <2>2 DEF Takes
  <2>5. IsList(FlattenSeq(ms)) /\ Range(FlattenSeq(ms)) = Taken(ContentMIMETypes, C, to)
    <3> HIDE DEF C, to
    <3> QED
      BY <1>1, <2>4, MIMETypesAre, ListsSelect
  <2> QED
    BY <2>3, <2>5 DEF Taken
<1>4. \A x \in Range(MIMETypeFindings) : x.limit = "allowed_mime_types"
  <2>1. \A c \in C : to[c].limit = "allowed_mime_types"
    OBVIOUS
  <2> HIDE DEF C, to
  <2> QED
    BY <1>3, <2>1
<1> DEFINE rest == IF detector.allowed = {} THEN <<>> ELSE MIMETypeFindings
<1>5. IsList(rest) /\ \A x \in Range(rest) : x.limit = "allowed_mime_types"
  <2>1. <<>> \in Seq({}) /\ Range(<<>>) = {}
    BY DEF Range
  <2> QED
    BY <1>3, <1>4, <2>1 DEF IsList
<1>6. Range(findings) = O \cup Range(rest)
  <2>1. findings = Exceeding \o rest
    BY DEF LimitFindings
  <2> HIDE DEF rest, O
  <2> QED
    BY <1>2, <1>5, <2>1, ListsConcat
<1>7. ASSUME NEW limit \in Limit
      PROVE  Reported(limit) = {m.path : m \in {k \in Range(Measurements) : Exceeds(k) /\ k.limit = limit}}
  <2>1. limit # "allowed_mime_types"
    BY DEF Limit
  <2> HIDE DEF rest
  <2>2. {g \in Range(findings) : g.limit = limit}
          = {k \in Range(Measurements) : Exceeds(k) /\ k.limit = limit}
    BY <1>5, <1>6, <2>1
  <2> QED
    BY <2>2 DEF Reported
<1>8. ASSUME detector.allowed # {}, NEW c \in Range(ContentMIMETypes),
             ~Listed(detector.allowed, c.value, FALSE)
      PROVE  c.path \in Reported("allowed_mime_types")
  <2>1. to[c] \in Range(findings)
    <3>1. c \in C /\ rest = MIMETypeFindings
      BY <1>8
    <3> HIDE DEF C, to, rest
    <3> QED
      BY <1>3, <1>6, <3>1
  <2>2. to[c].path = c.path /\ to[c].limit = "allowed_mime_types"
    OBVIOUS
  <2> HIDE DEF to
  <2> QED
    BY <2>1, <2>2 DEF Reported
<1> QED
  BY <1>7, <1>8

\* A path begins with itself.
LEMMA PathBegins ==
    ASSUME NEW root, NEW l \in Location
    PROVE  IsPrefix(Path(root, l), Path(root, l))
<1> DEFINE u == Written(PieceCode, l)  B == Token \cup {root}  p == Path(root, l)
<1>1. u \in Seq(Token) /\ Path(root, l) = Cat(One(root), u)
  BY PathIs
<1>2. p \in Seq(B)
  <2>1. Token \subseteq B /\ root \in B
    OBVIOUS
  <2> HIDE DEF B, u
  <2> QED
    BY <1>1, <2>1, SeqMonotonic, OneType, CatType
<1> HIDE DEF p, B
<1>3. Len(p) <= Len(p)
  BY <1>2
<1> QED
  BY <1>3 DEF IsPrefix, p

LEMMA LimitsHold ==
    ASSUME Given, pc = "done" /\ detector.kind = "requestLimits" => findings = LimitFindings
    PROVE  LimitsAreExact
<1> SUFFICES ASSUME Done({"requestLimits"}) PROVE LimitsAreExact
  BY DEF LimitsAreExact
<1>1. detector.kind = "requestLimits" /\ findings = LimitFindings
  BY DEF Done
<1>2. detector.max \in [Limit -> Nat] /\ request.encoded \in Nat
  BY <1>1, GivenIs DEF DetectorConfig, EvaluationRequest
<1>3. \A limit \in Limit : \A p : p \in Reported(limit) <=>
         \E m \in Range(Measurements) : Exceeds(m) /\ m.limit = limit /\ p = m.path
  BY <1>1, LimitFindingsAre
<1>4. \A m : Exceeds(m) <=> detector.max[m.limit] > 0 /\ m.actual > detector.max[m.limit]
  BY DEF Exceeds
<1> DEFINE over(limit, actual) == detector.max[limit] > 0 /\ actual > detector.max[limit]
<1>5. \A limit \in Limit : \A actual : over(limit, actual) <=> Over(limit, actual)
  BY <1>2 DEF Over
<1>6. /\ Reported("estimated_tokens") # {} <=> over("estimated_tokens", EstimatedTokens(ContentBytes))
      /\ Reported("attachments") # {} <=> over("attachments", CollectionLength(ContentDoc, Attachments))
      /\ Reported("request_bytes") # {} <=>
            over("request_bytes", IF request.encoded = 0 THEN request.size ELSE request.encoded)
      /\ \A p : p \in Reported("message_bytes") <=> \E i \in DOMAIN request.messages :
            over("message_bytes", ByteLength(request.messages[i])) /\ p = MessagePath(i)
  <2>1. \A m : m \in Range(Measurements) <=>
          \/ m = Measured("request_bytes", <<>>,
                     IF request.encoded = 0 THEN request.size ELSE request.encoded)
          \/ m = Measured("messages", Path("content", <<Key("messages")>>), Len(request.messages))
          \/ m = Measured("tools", Path("content", Tools), CollectionLength(ContentDoc, Tools))
          \/ m = Measured("attachments", Path("content", Attachments),
                          CollectionLength(ContentDoc, Attachments))
          \/ m = Measured("estimated_tokens", <<"content">>, EstimatedTokens(ContentBytes))
          \/ \E i \in DOMAIN request.messages :
                m = Measured("message_bytes", MessagePath(i), ByteLength(request.messages[i]))
    BY MeasurementsAre
  <2>2. \A limit, p, x : LET m == Measured(limit, p, x) IN
           m.limit = limit /\ m.path = p /\ m.actual = x
    BY DEF Measured
  <2>3. /\ "estimated_tokens" \in Limit /\ "attachments" \in Limit
        /\ "request_bytes" \in Limit /\ "message_bytes" \in Limit
    BY DEF Limit
  <2>4. ASSUME NEW limit \in Limit, NEW x,
               \A m \in Range(Measurements) : m.limit = limit => m.actual = x,
               \E m \in Range(Measurements) : m.limit = limit /\ m.actual = x
        PROVE  Reported(limit) # {} <=> over(limit, x)
    BY <1>3, <1>4, <2>4
  <2> DEFINE bytes == IF request.encoded = 0 THEN request.size ELSE request.encoded
  <2>5. \A m \in Range(Measurements) :
           /\ m.limit = "estimated_tokens" => m.actual = EstimatedTokens(ContentBytes)
           /\ m.limit = "attachments" => m.actual = CollectionLength(ContentDoc, Attachments)
           /\ m.limit = "request_bytes" => m.actual = bytes
    <3> HIDE DEF bytes
    <3> QED
      BY <2>1, <2>2 DEF bytes
  <2>6. /\ \E m \in Range(Measurements) :
              m.limit = "estimated_tokens" /\ m.actual = EstimatedTokens(ContentBytes)
        /\ \E m \in Range(Measurements) :
              m.limit = "attachments" /\ m.actual = CollectionLength(ContentDoc, Attachments)
        /\ \E m \in Range(Measurements) : m.limit = "request_bytes" /\ m.actual = bytes
    BY <2>1, <2>2
  <2>7. /\ Reported("estimated_tokens") # {} <=> over("estimated_tokens", EstimatedTokens(ContentBytes))
        /\ Reported("attachments") # {} <=> over("attachments", CollectionLength(ContentDoc, Attachments))
        /\ Reported("request_bytes") # {} <=> over("request_bytes", bytes)
    <3> HIDE DEF bytes, over
    <3> QED
      BY <2>3, <2>4, <2>5, <2>6
  <2>8. ASSUME NEW p
        PROVE  p \in Reported("message_bytes") <=> \E i \in DOMAIN request.messages :
                  over("message_bytes", ByteLength(request.messages[i])) /\ p = MessagePath(i)
    <3>1. \A m \in Range(Measurements) : m.limit = "message_bytes" => \E i \in DOMAIN request.messages :
             m = Measured("message_bytes", MessagePath(i), ByteLength(request.messages[i]))
      BY <2>1, <2>2
    <3>2. \A i \in DOMAIN request.messages :
             Measured("message_bytes", MessagePath(i), ByteLength(request.messages[i])) \in Range(Measurements)
      BY <2>1
    <3> QED
      BY <1>3, <1>4, <2>2, <2>3, <3>1, <3>2
  <2> QED
    BY <2>7, <2>8
<1>7. Reported("estimated_tokens") # {} <=>
         LET max == detector.max["estimated_tokens"] IN max # 0 /\ ContentBytes > 4 * max
  <2> DEFINE max == detector.max["estimated_tokens"]
  <2>1. max \in Nat
    BY <1>2 DEF Limit
  <2> HIDE DEF max
  <2>2. EstimatedTokens(ContentBytes) > max <=> ContentBytes > 4 * max
    BY <2>1, ContentBytesAre, TokensAreRoundedUp
  <2>3. Reported("estimated_tokens") # {} <=> max > 0 /\ EstimatedTokens(ContentBytes) > max
    BY <1>6 DEF max
  <2> QED
    BY <2>1, <2>2, <2>3 DEF max
<1>8. Reported("message_bytes") =
         { MessagePath(i) : i \in {j \in DOMAIN request.messages :
               Over("message_bytes", ByteLength(request.messages[j]))} }
  BY <1>5, <1>6 DEF Limit
<1> DEFINE items == Items(ContentDoc, Attachments)
           m == CollectionLength(ContentDoc, Attachments)
<1>9. m \in Nat /\ DOMAIN items = 1 .. m /\ Len(items) = m /\ \A i \in 1 .. m : items[i] \in Location
  BY Looked, ItemsAre
<1>10. Reported("attachments") # {} <=> Over("attachments", Len(items))
  BY <1>5, <1>6, <1>9 DEF Limit
<1>11. Reported("request_bytes") # {} <=>
          Over("request_bytes", IF request.encoded > 0 THEN request.encoded ELSE request.size)
  <2>1. (IF request.encoded = 0 THEN request.size ELSE request.encoded)
           = IF request.encoded > 0 THEN request.encoded ELSE request.size
    BY <1>2
  <2> QED
    BY <1>5, <1>6, <2>1 DEF Limit
<1>12. ASSUME detector.allowed # {}, NEW i \in DOMAIN items
       PROVE  LET item == items[i]
                  types == {TextAt(ContentDoc, Append(item, Key(f))) :
                               f \in {"mime_type", "mimeType"}} \ {<<>>}
                  counted == IF types = {} THEN {<<>>} ELSE types
              IN  (\A t \in counted : ~Listed(detector.allowed, t, FALSE)) =>
                     \E p \in Reported("allowed_mime_types") : IsPrefix(Path("content", item), p)
  <2> DEFINE item == items[i]
             types == {TextAt(ContentDoc, Append(item, Key(f))) :
                          f \in {"mime_type", "mimeType"}} \ {<<>>}
             counted == IF types = {} THEN {<<>>} ELSE types
             fields == <<"mime_type", "mimeType">>
             declared == FirstText(item, fields)
  <2> SUFFICES ASSUME \A t \in counted : ~Listed(detector.allowed, t, FALSE)
               PROVE  \E p \in Reported("allowed_mime_types") : IsPrefix(Path("content", item), p)
    OBVIOUS
  <2>1. item \in Location
    BY <1>9
  <2>2. \A c \in Range(ContentMIMETypes) :
           ~Listed(detector.allowed, c.value, FALSE) => c.path \in Reported("allowed_mime_types")
    BY <1>1, <1>12, LimitFindingsAre
  <2>3. IF declared = <<>> THEN Selected(item, <<>>) \in Range(ContentMIMETypes)
        ELSE Range(declared) \subseteq Range(ContentMIMETypes)
    BY MIMETypesAre
  <2>4. /\ fields \in Seq(Fields) /\ DOMAIN fields = {1, 2}
        /\ fields[1] = "mime_type" /\ fields[2] = "mimeType"
        /\ "mime_type" \in Fields /\ "mimeType" \in Fields
    BY DEF Fields
  <2> HIDE DEF fields, item
  <2>5. types = {TextAt(ContentDoc, Append(item, Key(fields[k]))) : k \in DOMAIN fields} \ {<<>>}
    BY <2>4
  <2>6. CASE declared = <<>>
    <3>1. types = {}
      BY <2>1, <2>4, <2>5, <2>6, FirstTextAt
    <3>2. ~Listed(detector.allowed, <<>>, FALSE)
      BY <3>1
    <3>3. Selected(item, <<>>).value = <<>> /\ Selected(item, <<>>).path = Path("content", item)
      BY DEF Selected
    <3>4. Path("content", item) \in Reported("allowed_mime_types")
      BY <2>2, <2>3, <2>6, <3>2, <3>3
    <3> QED
      BY <2>1, <3>4, PathBegins
  <2>7. CASE declared # <<>>
    <3>1. PICK v \in Range(declared) : TRUE
      BY <2>1, <2>4, <2>7, FirstTextAt, ListIs DEF ValuesAt
    <3>2. PICK k \in DOMAIN fields :
             /\ v = Selected(Append(item, Key(fields[k])),
                             TextAt(ContentDoc, Append(item, Key(fields[k]))))
             /\ v.value # <<>>
      BY <2>1, <2>4, FirstTextAt
    <3>3. /\ v.path = Path("content", Append(item, Key(fields[k])))
          /\ v.value = TextAt(ContentDoc, Append(item, Key(fields[k])))
      BY <3>2 DEF Selected
    <3>4. v.value \in types /\ v.value \in counted
      BY <2>5, <3>2, <3>3
    <3>5. v.path \in Reported("allowed_mime_types")
      <4> HIDE DEF counted
      <4> QED
        BY <2>2, <2>3, <2>7, <3>4
    <3>6. fields[k] \in Fields
      BY <2>4
    <3>7. Key(fields[k]) \in Step
      BY <3>6, FieldsAreSteps
    <3>8. IsPrefix(Path("content", item), Path("content", Append(item, Key(fields[k]))))
      BY <2>1, <3>7, PathAppend
    <3> QED
      BY <3>3, <3>5, <3>8
  <2> QED
    BY <2>6, <2>7
<1> QED
  BY <1>7, <1>8, <1>10, <1>11, <1>12 DEF LimitsAreExact

-----------------------------------------------------------------------------
(* Strings, their paths and what is found in them. *)

\* What the content has at a location.
Holds(l, c) ==
    \/ l = <<Key("text")>> /\ c = request.text
    \/ \E i \in DOMAIN request.messages :
          l = <<Key("messages"), Index(i - 1), Key("content")>> /\ c = request.messages[i]
    \/ \E m \in DOMAIN request.data :
          l = <<Key("data")>> \o m /\ c = request.data[m].chars

LEMMA HoldsOne ==
    ASSUME Given, NEW l, NEW c, NEW d, Holds(l, c), Holds(l, d)
    PROVE  c = d
<1>1. Key("text") # Key("messages") /\ Key("text") # Key("data") /\ Key("messages") # Key("data")
  <2>1. \A v, w : Key(v) = Key(w) => v = w
    <3> SUFFICES ASSUME NEW v, NEW w, Key(v) = Key(w) PROVE v = w
      OBVIOUS
    <3>1. Key(v).key[1] = v /\ Key(w).key[1] = w
      BY DEF Key
    <3> QED
      BY <3>1
  <2> QED
    BY <2>1
<1> DEFINE k == Key("data")  t == Key("text")  o == Key("messages")  e == Key("content")
<1>2. request.messages \in Seq(Text) /\ DOMAIN request.data \subseteq Location
  BY GivenIs DEF EvaluationRequest, IsTextDocument, IsDocument
<1>3. k \in Step
  BY FieldsAreSteps DEF Fields
<1>4. k # t /\ k # o /\ t # o
  BY <1>1
<1> HIDE DEF k, t, o, e
<1>5. \A m \in Location : (<<k>> \o m)[1] = k
  BY <1>3 DEF Location
<1>6. \A m, m2 \in Location : <<k>> \o m = <<k>> \o m2 => m = m2
  <2> SUFFICES ASSUME NEW m \in Location, NEW m2 \in Location, <<k>> \o m = <<k>> \o m2
               PROVE  m = m2
    OBVIOUS
  <2> DEFINE one == <<k>>
  <2>1. one \in Seq(Step) /\ m \in Seq(Step) /\ m2 \in Seq(Step)
    BY <1>3 DEF Location
  <2>2. one \o m = one \o m2
    OBVIOUS
  <2> HIDE DEF one
  <2> QED
    BY <2>1, <2>2, CancelLeft, Zenon
<1>7. <<t>>[1] = t /\ \A i : <<o, Index(i), e>>[1] = o
  OBVIOUS
<1>8. \A i, j \in DOMAIN request.messages :
         <<o, Index(i - 1), e>> = <<o, Index(j - 1), e>> => i = j
  <2> SUFFICES ASSUME NEW i \in DOMAIN request.messages, NEW j \in DOMAIN request.messages,
                      <<o, Index(i - 1), e>> = <<o, Index(j - 1), e>>
               PROVE  i = j
    OBVIOUS
  <2>1. i \in Nat /\ j \in Nat
    BY <1>2
  <2>2. Index(i - 1) = Index(j - 1)
    OBVIOUS
  <2>3. Index(i - 1).index = i - 1 /\ Index(j - 1).index = j - 1
    BY DEF Index
  <2> QED
    BY <2>1, <2>2, <2>3
<1> DEFINE first(x) == l = <<t>> /\ x = request.text
           second(x) == \E i \in DOMAIN request.messages :
                           l = <<o, Index(i - 1), e>> /\ x = request.messages[i]
           third(x) == \E m \in DOMAIN request.data : l = <<k>> \o m /\ x = request.data[m].chars
<1>9. (first(c) \/ second(c) \/ third(c)) /\ (first(d) \/ second(d) \/ third(d))
  BY DEF Holds, k, t, o, e
<1>10. \A x : (first(x) => l[1] = t) /\ (second(x) => l[1] = o) /\ (third(x) => l[1] = k)
  BY <1>2, <1>5, <1>7
<1>11. first(c) /\ first(d) => c = d
  OBVIOUS
<1>12. second(c) /\ second(d) => c = d
  BY <1>8
<1>13. third(c) /\ third(d) => c = d
  BY <1>2, <1>6
<1> HIDE DEF first, second, third
<1> QED
  BY <1>4, <1>9, <1>10, <1>11, <1>12, <1>13

LEMMA StringsHold ==
    ASSUME Given, NEW x \in Range(Strings(request))
    PROVE  \E l \in Location : x.path = Path("content", l) /\ Holds(l, x.chars)
<1> DEFINE one == << [path |-> Path("content", <<Key("text")>>), chars |-> request.text] >>
           first == IF request.text = <<>> THEN <<>> ELSE one
           second == [i \in DOMAIN request.messages |->
                        [path |-> MessagePath(i), chars |-> request.messages[i]]]
           S == {l \in DOMAIN request.data : request.data[l].is = "string"}
           order == SetToSeq(S)
           third == DataStrings(request.data)
<1>1. /\ request.messages \in Seq(Text) /\ DOMAIN request.data \subseteq Location
      /\ IsFiniteSet(DOMAIN request.data)
  BY GivenIs DEF EvaluationRequest, IsTextDocument, IsDocument
<1>2. Key("text") \in Step /\ Key("messages") \in Step /\ Key("content") \in Step /\ Key("data") \in Step
  BY FieldsAreSteps DEF Fields
<1>3. ASSUME NEW y \in Range(first)
      PROVE  \E l \in Location : y.path = Path("content", l) /\ Holds(l, y.chars)
  <2>1. y = [path |-> Path("content", <<Key("text")>>), chars |-> request.text]
    BY DEF Range
  <2>2. <<Key("text")>> \in Location
    BY <1>2 DEF Location
  <2> QED
    BY <2>1, <2>2 DEF Holds
<1>4. ASSUME NEW y \in Range(second)
      PROVE  \E l \in Location : y.path = Path("content", l) /\ Holds(l, y.chars)
  <2>1. PICK i \in DOMAIN request.messages :
           y = [path |-> MessagePath(i), chars |-> request.messages[i]]
    BY DEF Range
  <2> DEFINE l == <<Key("messages"), Index(i - 1), Key("content")>>
  <2>2. Index(i - 1) \in Step
    BY <1>1 DEF Index, Step
  <2>3. l \in Location
    BY <1>2, <2>2 DEF Location
  <2>4. y.path = Path("content", l) /\ y.chars = request.messages[i]
    BY <2>1 DEF MessagePath
  <2>5. Holds(l, y.chars)
    BY <2>4 DEF Holds
  <2> HIDE DEF l
  <2> QED
    BY <2>3, <2>4, <2>5
<1>5. ASSUME NEW y \in Range(third)
      PROVE  \E l \in Location : y.path = Path("content", l) /\ Holds(l, y.chars)
  <2>1. third = [i \in DOMAIN order |->
                   [path |-> DataPath(order[i]), chars |-> request.data[order[i]].chars]]
    BY DEF DataStrings
  <2>2. Range(order) = S
    BY <1>1, FS_Subset, SetToSeqIs
  <2> HIDE DEF order, third
  <2>3. PICK i \in DOMAIN order :
           y = [path |-> DataPath(order[i]), chars |-> request.data[order[i]].chars]
    BY <2>1 DEF Range
  <2> DEFINE m == order[i]  l == <<Key("data")>> \o m
  <2>4. m \in DOMAIN request.data /\ m \in Location
    BY <1>1, <2>2 DEF Range
  <2> HIDE DEF m
  <2>5. l \in Location
    BY <1>2, <2>4 DEF Location
  <2>6. y.path = Path("content", l) /\ y.chars = request.data[m].chars
    BY <2>3 DEF DataPath, m
  <2>7. Holds(l, y.chars)
    BY <2>4, <2>6 DEF Holds
  <2> HIDE DEF l
  <2> QED
    BY <2>5, <2>6, <2>7
<1>6. Texts(request) = first \o second /\ Strings(request) = Texts(request) \o third
  BY DEF Texts, Strings
<1>7. IsList(first) /\ IsList(second) /\ IsList(third)
  <2>1. IsList(first)
    <3>1. one \in Seq(Range(one)) /\ <<>> \in Seq({})
      BY DEF Range
    <3> HIDE DEF one
    <3> QED
      BY <3>1 DEF IsList
  <2>2. IsList(second)
    <3> DEFINE m == Len(request.messages)
    <3>1. m \in Nat /\ DOMAIN second = 1 .. m /\ \A i \in 1 .. m : second[i] \in Range(second)
      BY <1>1 DEF Range
    <3>2. second = [i \in 1 .. m |-> second[i]]
      BY <3>1
    <3> HIDE DEF second, m
    <3>3. second \in Seq(Range(second))
      BY <3>1, <3>2, IsASeq
    <3> QED
      BY <3>3 DEF IsList
  <2>3. IsList(third)
    <3>1. order \in Seq(S)
      BY <1>1, FS_Subset, SetToSeqIs
    <3>2. third = [i \in DOMAIN order |->
                   [path |-> DataPath(order[i]), chars |-> request.data[order[i]].chars]]
      BY DEF DataStrings
    <3> HIDE DEF order, third
    <3>3. third \in Seq(Range(third))
      BY <3>1, <3>2 DEF Range
    <3> QED
      BY <3>3 DEF IsList
  <2> QED
    BY <2>1, <2>2, <2>3
<1> HIDE DEF first, second, third
<1>8. Range(Strings(request)) = (Range(first) \cup Range(second)) \cup Range(third)
  BY <1>6, <1>7, ListsConcat
<1> QED
  BY <1>3, <1>4, <1>5, <1>8

\* Strings under the same path are one string.
LEMMA StringsDiffer ==
    ASSUME Given, NEW x \in Range(Strings(request)), NEW y \in Range(Strings(request)),
           x.path = y.path
    PROVE  x.chars = y.chars
<1>1. PICK l \in Location : x.path = Path("content", l) /\ Holds(l, x.chars)
  BY StringsHold
<1>2. PICK m \in Location : y.path = Path("content", m) /\ Holds(m, y.chars)
  BY StringsHold
<1>3. l = m
  BY <1>1, <1>2, PathsAreUnique
<1> QED
  BY <1>1, <1>2, <1>3, HoldsOne

-----------------------------------------------------------------------------
(* Keywords. *)

LEMMA OccurrencesAre ==
    ASSUME NEW haystack, IsList(haystack), NEW needle, IsList(needle), needle # <<>>,
           NEW offset \in 0 .. Len(haystack)
    PROVE  LET found == Occurrences(haystack, needle, offset) start == Min(found) IN
           found # {} =>
             /\ start \in found /\ start \in Nat /\ offset <= start
             /\ \A i \in found : start <= i
             /\ Resume(start, needle) = start + Len(needle)
             /\ Resume(start, needle) \in (offset + 1) .. Len(haystack)
<1> DEFINE found == Occurrences(haystack, needle, offset)
           start == Min(found)
<1>1. /\ Len(haystack) \in Nat /\ Len(needle) \in Nat /\ offset \in Nat
      /\ Len(needle) # 0
  <2>1. Len(haystack) \in Nat /\ Len(needle) \in Nat /\ needle \in Seq(Range(needle))
    BY ListIs
  <2>2. Len(needle) # 0
    BY <2>1, EmptySeq
  <2> QED
    BY <2>1, <2>2
<1>2. \A i \in found : i \in offset .. (Len(haystack) - Len(needle)) /\ i \in Nat
  BY <1>1 DEF Occurrences
<1> HIDE DEF found
<1> SUFFICES ASSUME found # {}
             PROVE  /\ start \in found /\ start \in Nat /\ offset <= start
                    /\ \A i \in found : start <= i
                    /\ Resume(start, needle) = start + Len(needle)
                    /\ Resume(start, needle) \in (offset + 1) .. Len(haystack)
  BY DEF found
<1>3. found \in SUBSET Nat
  BY <1>2
<1>4. \E i \in found : \A j \in found : i <= j
  BY <1>3, LeastNumber
<1>5. start \in found /\ \A i \in found : start <= i
  <2>1. start = CHOOSE i \in found : \A j \in found : i <= j
    BY DEF Min
  <2> QED
    BY <1>4, <2>1, Zenon
<1> HIDE DEF start
<1>6. start \in offset .. (Len(haystack) - Len(needle)) /\ start \in Nat
  BY <1>2, <1>5
<1> QED
  BY <1>1, <1>5, <1>6 DEF Resume

\* The span of an occurrence.
At(start, needle) == [start |-> start, stop |-> start + Len(needle)]

\* The equation of the function Search chooses.
Searches(haystack, needle, f) ==
    f = [offset \in 0 .. Len(haystack) |->
           LET found == Occurrences(haystack, needle, offset) start == Min(found) IN
           IF found = {} THEN <<>>
           ELSE << [start |-> start, stop |-> start + Len(needle)] >>
                   \o f[Resume(start, needle)]]

LEMMA SearchExists ==
    ASSUME NEW haystack, IsList(haystack), NEW needle, IsList(needle), needle # <<>>
    PROVE  \E f : Searches(haystack, needle, f)
<1> DEFINE L == Len(haystack)
           found(i) == Occurrences(haystack, needle, L - i)
           start(i) == Min(found(i))
           rest(i) == L - Resume(start(i), needle)
           G == [i \in Nat |-> [p \in [0 .. (i - 1) -> Spans] |->
                   IF i \in 0 .. L /\ found(i) # {} THEN <<At(start(i), needle)>> \o p[rest(i)]
                   ELSE <<>>]]
<1>1. L \in Nat /\ Len(needle) \in Nat
  BY ListIs
<1>2. ASSUME NEW i \in 0 .. L, found(i) # {}
      PROVE  rest(i) \in 0 .. (i - 1) /\ At(start(i), needle) \in [start : Nat, stop : Nat]
             /\ L - rest(i) = Resume(start(i), needle) /\ rest(i) \in 0 .. L
  <2>1. L - i \in 0 .. L
    BY <1>1
  <2>2. start(i) \in Nat /\ Resume(start(i), needle) \in ((L - i) + 1) .. L
    BY <1>2, <2>1, OccurrencesAre
  <2> HIDE DEF start
  <2>3. rest(i) \in 0 .. (i - 1) /\ L - rest(i) = Resume(start(i), needle) /\ rest(i) \in 0 .. L
    BY <1>1, <2>2
  <2>4. start(i) + Len(needle) \in Nat
    BY <1>1, <2>2
  <2> QED
    BY <2>2, <2>3, <2>4 DEF At
<1>3. Continues(Spans, G)
  <2> SUFFICES ASSUME NEW i \in Nat, NEW p \in [0 .. (i - 1) -> Spans]
               PROVE  (IF i \in 0 .. L /\ found(i) # {} THEN <<At(start(i), needle)>> \o p[rest(i)]
                       ELSE <<>>) \in Spans
    BY DEF Continues
  <2>1. CASE i \in 0 .. L /\ found(i) # {}
    <3>1. p[rest(i)] \in Spans /\ At(start(i), needle) \in [start : Nat, stop : Nat]
      BY <1>2, <2>1
    <3> DEFINE one == <<At(start(i), needle)>>  q == p[rest(i)]
    <3>2. one \in Spans /\ q \in Spans
      BY <3>1 DEF Spans
    <3> HIDE DEF one, q
    <3>3. one \o q \in Spans
      BY <3>2, ConcatProperties DEF Spans
    <3> QED
      BY <2>1, <3>3 DEF one, q
  <2>2. CASE ~(i \in 0 .. L /\ found(i) # {})
    <3>1. <<>> \in Spans
      BY DEF Spans
    <3> HIDE DEF found
    <3> QED
      BY <2>2, <3>1
  <2> QED
    BY <2>1, <2>2
<1>4. PICK h : FollowsAll(Spans, G, h)
  <2> HIDE DEF G
  <2> QED
    BY <1>3, Recursion
<1> HIDE DEF found, start, rest, L
<1>5. ASSUME NEW i \in 0 .. L
      PROVE  h[i] = IF found(i) # {} THEN <<At(start(i), needle)>> \o h[rest(i)] ELSE <<>>
  <2>0. i \in Nat
    BY <1>1
  <2>1. Before(h, i) \in [0 .. (i - 1) -> Spans] /\ h[i] = G[i][Before(h, i)]
    <3> HIDE DEF G
    <3>1. h \in [Nat -> Spans] /\ h[i] = G[i][Before(h, i)]
      BY <1>4, <2>0 DEF FollowsAll
    <3> QED
      BY <2>0, <3>1 DEF Before
  <2>2. found(i) # {} => Before(h, i)[rest(i)] = h[rest(i)]
    BY <1>2 DEF Before
  <2>3. G[i][Before(h, i)] = IF i \in 0 .. L /\ found(i) # {}
                             THEN <<At(start(i), needle)>> \o Before(h, i)[rest(i)] ELSE <<>>
    BY <2>0, <2>1
  <2> HIDE DEF G
  <2> QED
    BY <2>1, <2>2, <2>3
<1> DEFINE f == [offset \in 0 .. L |-> h[L - offset]]
<1>6. ASSUME NEW offset \in 0 .. L
      PROVE  f[offset] = LET occ == Occurrences(haystack, needle, offset) first == Min(occ) IN
                         IF occ = {} THEN <<>> ELSE <<At(first, needle)>> \o f[Resume(first, needle)]
  <2> DEFINE i == L - offset
  <2>1. i \in 0 .. L /\ L - i = offset
    BY <1>1
  <2> HIDE DEF i
  <2>2. found(i) = Occurrences(haystack, needle, offset)
    BY <2>1 DEF found
  <2>3. start(i) = Min(Occurrences(haystack, needle, offset))
    BY <2>2 DEF start
  <2>4. f[offset] = h[i]
    BY DEF i
  <2>5. found(i) # {} => f[Resume(start(i), needle)] = h[rest(i)]
    <3> SUFFICES ASSUME found(i) # {} PROVE f[Resume(start(i), needle)] = h[rest(i)]
      OBVIOUS
    <3>1. rest(i) \in 0 .. L /\ L - rest(i) = Resume(start(i), needle)
      BY <1>2, <2>1
    <3>2. Resume(start(i), needle) \in 0 .. L /\ L - Resume(start(i), needle) = rest(i)
      BY <1>1, <3>1
    <3> QED
      BY <3>2
  <2> HIDE DEF f
  <2> QED
    BY <1>5, <2>1, <2>2, <2>3, <2>4, <2>5
<1>7. f = [offset \in 0 .. L |-> f[offset]]
  OBVIOUS
<1> HIDE DEF f
<1>8. Searches(haystack, needle, f)
  BY <1>6, <1>7, Zenon DEF Searches, At, L
<1> QED
  BY <1>8

\* Of the occurrences from an offset on, the spans are those a reader going
\* from left to right meets.
Chooses(spans, haystack, needle, offset) ==
    /\ IsList(spans)
    /\ \A s \in Range(spans) : \E i \in Occurrences(haystack, needle, offset) : s = At(i, needle)
    /\ \A i \in Occurrences(haystack, needle, offset) : \E s \in Range(spans) :
          s.start <= i /\ i < s.start + Len(needle)
    /\ \A s, t \in Range(spans) : s.start < t.start => s.start + Len(needle) <= t.start

LEMMA ChoosesFirst ==
    ASSUME NEW haystack, IsList(haystack), NEW needle, IsList(needle), needle # <<>>,
           NEW offset \in 0 .. Len(haystack),
           Occurrences(haystack, needle, offset) # {},
           NEW first, first = Min(Occurrences(haystack, needle, offset)),
           NEW rest, Chooses(rest, haystack, needle, Resume(first, needle))
    PROVE  Chooses(<<At(first, needle)>> \o rest, haystack, needle, offset)
<1> DEFINE found == Occurrences(haystack, needle, offset)
           next == Resume(first, needle)
           later == Occurrences(haystack, needle, next)
           size == Len(needle)
           one == <<At(first, needle)>>
<1>1. /\ first \in found /\ first \in Nat /\ offset <= first /\ \A i \in found : first <= i
      /\ next = first + size /\ next \in (offset + 1) .. Len(haystack)
  BY OccurrencesAre
<1>2. size \in Nat /\ Len(haystack) \in Nat /\ offset \in Nat
  BY ListIs
<1>3. /\ \A i \in found : i \in Nat
      /\ \A i \in later : i \in found /\ next <= i
      /\ \A i \in found : next <= i => i \in later
  <2> DEFINE here(i) == SubSeq(haystack, i + 1, i + Len(needle)) = needle
             last == Len(haystack) - Len(needle)
  <2>1. found = {i \in offset .. last : here(i)} /\ later = {i \in next .. last : here(i)}
    BY DEF Occurrences
  <2> HIDE DEF here, found, later
  <2>2. offset \in Int /\ next \in Int /\ last \in Int /\ offset <= next /\ offset >= 0
    BY <1>1, <1>2
  <2> HIDE DEF last, next
  <2> QED
    BY <2>1, <2>2
<1>4. IsList(one) /\ Range(one) = {At(first, needle)}
  <2> DEFINE e == At(first, needle)
  <2> HIDE DEF e
  <2>1. <<e>> \in Seq({e}) /\ Range(<<e>>) = {e}
    BY DEF Range
  <2> QED
    BY <2>1 DEF IsList, e
<1>5. IsList(rest)
  BY DEF Chooses
<1> HIDE DEF one
<1>6. IsList(one \o rest) /\ \A s : s \in Range(one \o rest) <=> s = At(first, needle) \/ s \in Range(rest)
  BY <1>4, <1>5, ListsConcat
<1> HIDE DEF found, next, later, size
<1>7. \A i : At(i, needle).start = i
  BY DEF At
<1>8. \A s \in Range(rest) : \E i \in later : s = At(i, needle)
  BY DEF Chooses, later, next
<1>9. \A s \in Range(rest) : s.start \in later /\ next <= s.start /\ s.start \in Nat
  BY <1>3, <1>7, <1>8
<1>10. \A s \in Range(one \o rest) : \E i \in found : s = At(i, needle)
  BY <1>1, <1>3, <1>6, <1>8
<1>11. ASSUME NEW i \in found
       PROVE  \E s \in Range(one \o rest) : s.start <= i /\ i < s.start + size
  <2>1. CASE i < next
    <3>1. At(first, needle).start <= i /\ i < At(first, needle).start + size
      BY <1>1, <1>7, <2>1
    <3> QED
      BY <1>6, <3>1
  <2>2. CASE ~(i < next)
    <3>1. i \in later
      BY <1>1, <1>2, <1>3, <2>2
    <3>2. PICK s \in Range(rest) : s.start <= i /\ i < s.start + size
      BY <3>1 DEF Chooses, later, next, size
    <3> QED
      BY <1>6, <3>2
  <2> QED
    BY <2>1, <2>2
<1>12. ASSUME NEW s \in Range(one \o rest), NEW t \in Range(one \o rest), s.start < t.start
       PROVE  s.start + size <= t.start
  <2>1. CASE s \in Range(rest) /\ t \in Range(rest)
    BY <1>12, <2>1 DEF Chooses, size
  <2>2. CASE s = At(first, needle) /\ t \in Range(rest)
    <3>1. s.start = first /\ next <= t.start
      BY <1>7, <1>9, <2>2
    <3> QED
      BY <1>1, <3>1
  <2>3. CASE t = At(first, needle)
    <3>1. t.start = first
      BY <1>7, <2>3
    <3>2. s.start = first \/ (next <= s.start /\ s.start \in Nat)
      BY <1>6, <1>7, <1>9, <1>12
    <3>3. first + size \in Nat /\ first <= first + size
      BY <1>1, <1>2
    <3> QED
      BY <1>1, <1>12, <3>1, <3>2, <3>3
  <2> QED
    BY <1>6, <1>12, <2>1, <2>2, <2>3
<1>13. Chooses(one \o rest, haystack, needle, offset)
  <2> HIDE DEF one
  <2> QED
    BY <1>6, <1>10, <1>11, <1>12 DEF Chooses, found, size
<1> QED
  BY <1>13 DEF one

LEMMA SearchChooses ==
    ASSUME NEW haystack, IsList(haystack), NEW needle, IsList(needle), needle # <<>>
    PROVE  Chooses(Search(haystack, needle), haystack, needle, 0)
<1> DEFINE f == CHOOSE g : Searches(haystack, needle, g)
           L == Len(haystack)
           S == {i \in 0 .. L : Chooses(f[L - i], haystack, needle, L - i)}
           Bad == (0 .. L) \ S
<1>0. L \in Nat
  BY ListIs
<1>1. Search(haystack, needle) = f[0]
  BY Zenon DEF Search, Searches
<1>2. Searches(haystack, needle, f)
  BY SearchExists
<1> HIDE DEF f
<1>3. \A offset \in 0 .. L :
         f[offset] = LET occ == Occurrences(haystack, needle, offset) first == Min(occ) IN
                     IF occ = {} THEN <<>> ELSE <<At(first, needle)>> \o f[Resume(first, needle)]
  BY <1>2, Zenon DEF Searches, At
<1>4. Bad = {}
  <2> SUFFICES ASSUME Bad # {} PROVE FALSE
    OBVIOUS
  <2>1. Bad \in SUBSET Nat
    BY <1>0
  <2>2. PICK i \in Bad : \A j \in Bad : i <= j
    <3> HIDE DEF Bad
    <3> QED
      BY <2>1, LeastNumber
  <2> DEFINE offset == L - i
             occ == Occurrences(haystack, needle, offset)
             first == Min(occ)
             next == Resume(first, needle)
  <2>3. i \in 0 .. L /\ offset \in 0 .. L /\ ~Chooses(f[offset], haystack, needle, offset)
    BY <1>0
  <2>4. CASE occ = {}
    <3>1. f[offset] = <<>>
      BY <1>3, <2>3, <2>4
    <3>2. <<>> \in Seq({}) /\ Range(<<>>) = {}
      BY DEF Range
    <3>3. Chooses(<<>>, haystack, needle, offset)
      BY <2>4, <3>2 DEF Chooses, IsList
    <3> QED
      BY <2>3, <3>1, <3>3
  <2>5. CASE occ # {}
    <3>1. next \in (offset + 1) .. L
      BY <2>3, <2>5, OccurrencesAre
    <3>2. L - next \in 0 .. L /\ ~(i <= L - next) /\ L - (L - next) = next
      BY <1>0, <2>3, <3>1
    <3> HIDE DEF first, next, offset, occ
    <3>3. L - next \notin Bad
      BY <2>2, <3>2
    <3>4. Chooses(f[next], haystack, needle, next)
      BY <3>2, <3>3
    <3>5. f[offset] = <<At(first, needle)>> \o f[next]
      BY <1>3, <2>3, <2>5 DEF first, occ, next
    <3>6. Chooses(<<At(first, needle)>> \o f[next], haystack, needle, offset)
      BY <2>3, <2>5, <3>4, ChoosesFirst DEF first, occ, next
    <3> QED
      BY <2>3, <3>5, <3>6
  <2> QED
    BY <2>4, <2>5
<1>5. L \in S /\ L - L = 0
  BY <1>0, <1>4
<1> QED
  BY <1>1, <1>5

LEMMA FoldedIs ==
    ASSUME NEW s \in Text, NEW cs
    PROVE  IsList(Folded(s, cs)) /\ (s # <<>> => Folded(s, cs) # <<>>)
<1>1. ToLower(s) \in Text /\ (s # <<>> => ToLower(s) # <<>>)
  <2>1. DOMAIN s = 1 .. Len(s) /\ Len(s) \in Nat /\ \A i \in 1 .. Len(s) : Lower[s[i]] \in DOMAIN Width
    BY CharactersAssumption DEF Text
  <2>2. ToLower(s) \in [1 .. Len(s) -> DOMAIN Width]
    BY <2>1 DEF ToLower
  <2> HIDE DEF ToLower
  <2>3. ToLower(s) \in Seq(DOMAIN Width) /\ Len(ToLower(s)) = Len(s)
    BY <2>1, <2>2
  <2> QED
    BY <2>3 DEF Text
<1> QED
  BY <1>1, BytesAre DEF Folded

LEMMA KeywordChosen ==
    ASSUME NEW value \in Text, NEW keyword \in Text, keyword # <<>>, NEW cs
    PROVE  Chooses(MatchKeyword(value, keyword, cs), Folded(value, cs), Folded(keyword, cs), 0)
<1>1. IsList(Folded(value, cs)) /\ IsList(Folded(keyword, cs)) /\ Folded(keyword, cs) # <<>>
  BY FoldedIs
<1> QED
  BY <1>1, SearchChooses DEF MatchKeyword

LEMMA EmptyIs == IsList(<<>>) /\ Range(<<>>) = {}
<1>1. <<>> \in Seq({}) /\ Range(<<>>) = {}
  BY DEF Range
<1> QED
  BY <1>1 DEF IsList

\* The matches in a string.
LEMMA TextSpansAre ==
    ASSUME Given, NEW x \in Range(Strings(request)), detector.kind \in {"regex", "keywords"}
    PROVE  /\ IsList(TextSpans(x.chars))
           /\ detector.kind = "keywords" => \A k \in DOMAIN detector.values :
                 Range(MatchKeyword(x.chars, detector.values[k], detector.caseSensitive))
                    \subseteq Range(TextSpans(x.chars))
<1>1. x.chars \in Text
  BY StringsAre
<1>2. CASE detector.kind = "regex"
  <2>1. FindAll("regex", x.chars) \in Spans
    BY FindAllAssumption DEF Given
  <2> QED
    BY <1>2, <2>1 DEF TextSpans, Spans, IsList
<1>3. CASE detector.kind = "keywords"
  <2> DEFINE match(k) == MatchKeyword(x.chars, detector.values[k], detector.caseSensitive)
             ss == [k \in DOMAIN detector.values |-> match(k)]
             m == Len(detector.values)
  <2>1. detector.values \in Seq(Text)
    BY <1>3, GivenIs DEF DetectorConfig
  <2>2. m \in Nat /\ DOMAIN detector.values = 1 .. m /\ \A k \in 1 .. m : detector.values[k] \in Text
    BY <2>1
  <2>3. \A k \in 1 .. m : IsList(match(k))
    <3> SUFFICES ASSUME NEW k \in 1 .. m PROVE IsList(match(k))
      OBVIOUS
    <3>1. CASE detector.values[k] = <<>>
      <4>1. match(k) = <<>>
        BY <3>1 DEF MatchKeyword
      <4> HIDE DEF match
      <4> QED
        BY <4>1, EmptyIs
    <3>2. CASE detector.values[k] # <<>>
      BY <1>1, <2>2, <3>2, KeywordChosen DEF Chooses
    <3> QED
      BY <3>1, <3>2
  <2>4. TextSpans(x.chars) = FlattenSeq(ss)
    BY <1>3 DEF TextSpans
  <2>5. ss = [k \in 1 .. m |-> ss[k]] /\ \A k \in 1 .. m : ss[k] = match(k)
    BY <2>2
  <2> HIDE DEF m, match, ss
  <2>6. IsList(FlattenSeq(ss)) /\ Range(FlattenSeq(ss)) = UNION {Range(ss[k]) : k \in 1 .. m}
    <3>1. \A k \in 1 .. m : IsList(ss[k])
      BY <2>3, <2>5
    <3> QED
      BY <2>2, <2>5, <3>1, ListsFlatten
  <2>7. \A k \in DOMAIN detector.values : Range(match(k)) \subseteq Range(TextSpans(x.chars))
    BY <2>2, <2>4, <2>5, <2>6
  <2> QED
    BY <2>4, <2>6, <2>7 DEF match
<1> QED
  BY <1>2, <1>3

\* The secrets in a string.
LEMMA SecretSpansAre ==
    ASSUME Given, NEW x \in Range(Strings(request)), NEW type \in Range(Bundle)
    PROVE  IsList(SecretSpans(type, x.chars))
<1> DEFINE spans == FindAll(type, x.chars)
           counts(k) == Enabled(type) /\ IsSecret(type, x.chars, spans[k])
           ss == [k \in DOMAIN spans |-> When(counts(k), spans[k])]
           m == Len(spans)
<1>1. spans \in Spans
  BY FindAllAssumption DEF Given
<1>2. m \in Nat /\ DOMAIN spans = 1 .. m
  BY <1>1 DEF Spans
<1>3. \A k \in 1 .. m : counts(k) \in BOOLEAN
  BY DEF Enabled, IsSecret
<1>4. SecretSpans(type, x.chars) = FlattenSeq(ss)
  BY DEF SecretSpans
<1> HIDE DEF counts, m, spans
<1>5. \A k \in 1 .. m : ss[k] = When(counts(k), spans[k])
  BY <1>2
<1>6. \A k \in 1 .. m : IsList(ss[k])
  BY <1>3, <1>5, WhenIs
<1>7. ss = [k \in 1 .. m |-> ss[k]]
  BY <1>2
<1> HIDE DEF ss
<1> QED
  BY <1>2, <1>4, <1>6, <1>7, ListsFlatten

\* The finding of a span.
LocatedAt(path, type, s) == [path |-> path, type |-> type, start |-> s.start, stop |-> s.stop]

LEMMA LocatedIs ==
    ASSUME NEW path, NEW type, NEW spans, IsList(spans)
    PROVE  /\ IsList(Located(path, type, spans))
           /\ \A f : f \in Range(Located(path, type, spans))
                        <=> \E s \in Range(spans) : f = LocatedAt(path, type, s)
<1> DEFINE list == Located(path, type, spans)
           m == Len(spans)
<1>1. m \in Nat /\ DOMAIN spans = 1 .. m
  BY ListIs
<1>2. list = [k \in 1 .. m |-> LocatedAt(path, type, spans[k])]
  BY <1>1 DEF Located, LocatedAt
<1> HIDE DEF list, m
<1>3. list \in [1 .. m -> Range(list)] /\ DOMAIN list = 1 .. m
  BY <1>2 DEF Range
<1>4. list \in Seq(Range(list))
  BY <1>1, <1>3
<1>5. \A f : f \in Range(list) <=> \E k \in 1 .. m : f = LocatedAt(path, type, spans[k])
  BY <1>2 DEF Range
<1>6. \A s : s \in Range(spans) <=> \E k \in 1 .. m : s = spans[k]
  BY <1>1 DEF Range
<1> QED
  BY <1>4, <1>5, <1>6 DEF IsList, list

-----------------------------------------------------------------------------
(* Findings in texts, added one after the other. *)

\* What a finding and its replacement are told apart by.
MarkOf(f) == <<f.path, Span(f)>>
MarksOf(list) == {MarkOf(f) : f \in Range(list)}

Distinct(list) == \A k, m \in DOMAIN list : MarkOf(list[k]) = MarkOf(list[m]) => k = m

LEMMA AppendIs ==
    ASSUME NEW list, IsList(list), NEW f
    PROVE  /\ IsList(Append(list, f)) /\ Len(Append(list, f)) = Len(list) + 1
           /\ Append(list, f)[Len(list) + 1] = f
           /\ \A i \in 1 .. Len(list) : Append(list, f)[i] = list[i]
           /\ Range(Append(list, f)) = Range(list) \cup {f}
<1> DEFINE S == Range(list) \cup {f}
<1>1. list \in Seq(Range(list))
  BY ListIs
<1>2. Range(list) \subseteq S /\ f \in S
  OBVIOUS
<1> HIDE DEF S
<1>3. list \in Seq(S)
  BY <1>1, <1>2, SeqMonotonic
<1>4. /\ Append(list, f) \in Seq(S) /\ Len(Append(list, f)) = Len(list) + 1 /\ Len(list) \in Nat
      /\ Append(list, f)[Len(list) + 1] = f
      /\ \A i \in 1 .. Len(list) : Append(list, f)[i] = list[i]
      /\ DOMAIN list = 1 .. Len(list) /\ DOMAIN Append(list, f) = 1 .. Len(list) + 1
  BY <1>2, <1>3
<1> DEFINE m == Len(list)  longer == Append(list, f)
<1> HIDE DEF longer
<1>5. Range(longer) = Range(list) \cup {f}
  <2>1. m \in Nat /\ DOMAIN longer = 1 .. (m + 1) /\ DOMAIN list = 1 .. m
        /\ longer[m + 1] = f /\ \A i \in 1 .. m : longer[i] = list[i]
    BY <1>4 DEF longer
  <2> HIDE DEF m
  <2>2. \A i \in 1 .. (m + 1) : i \in 1 .. m \/ i = m + 1
    BY <2>1
  <2>3. m + 1 \in 1 .. (m + 1) /\ 1 .. m \subseteq 1 .. (m + 1)
    BY <2>1
  <2> QED
    BY <2>1, <2>2, <2>3 DEF Range
<1> QED
  BY <1>4, <1>5 DEF IsList, longer

LEMMA AddIs ==
    ASSUME NEW list, IsList(list), NEW f
    PROVE  /\ IsList(Add(list, f))
           /\ MarksOf(Add(list, f)) = MarksOf(list) \cup {MarkOf(f)}
           /\ Distinct(list) => Distinct(Add(list, f))
           /\ \A g \in Range(Add(list, f)) :
                 g \in Range(list) \/ (g = f /\ MarkOf(f) \notin MarksOf(list))
<1> DEFINE there == \E g \in Range(list) : <<g.path, g.start, g.stop>> = <<f.path, f.start, f.stop>>
<1>1. there <=> MarkOf(f) \in MarksOf(list)
  <2>1. \A g : <<g.path, g.start, g.stop>> = <<f.path, f.start, f.stop>> <=> MarkOf(g) = MarkOf(f)
    BY DEF MarkOf, Span
  <2> QED
    BY <2>1 DEF MarksOf
<1>2. CASE there
  <2>1. Add(list, f) = list
    BY <1>2 DEF Add
  <2> QED
    BY <1>1, <1>2, <2>1
<1>3. CASE ~there
  <2> DEFINE longer == Append(list, f)  m == Len(list)
  <2>1. Add(list, f) = longer /\ MarkOf(f) \notin MarksOf(list)
    BY <1>1, <1>3 DEF Add
  <2>2. /\ IsList(longer) /\ Len(longer) = m + 1 /\ longer[m + 1] = f
        /\ \A i \in 1 .. m : longer[i] = list[i]
        /\ Range(longer) = Range(list) \cup {f}
    BY AppendIs
  <2>3. m \in Nat /\ DOMAIN list = 1 .. m /\ DOMAIN longer = 1 .. (m + 1)
    BY <2>2, ListIs
  <2> HIDE DEF longer, m
  <2>4. MarksOf(longer) = MarksOf(list) \cup {MarkOf(f)}
    BY <2>2 DEF MarksOf
  <2>5. ASSUME Distinct(list), NEW i \in 1 .. (m + 1), NEW j \in 1 .. (m + 1),
               MarkOf(longer[i]) = MarkOf(longer[j])
        PROVE  i = j
    <3>1. \A h \in 1 .. m : MarkOf(longer[h]) \in MarksOf(list) /\ longer[h] = list[h]
      BY <2>2, <2>3 DEF MarksOf, Range
    <3>2. i \in 1 .. m \/ i = m + 1
      BY <2>3
    <3>3. j \in 1 .. m \/ j = m + 1
      BY <2>3
    <3>4. i \in 1 .. m /\ j \in 1 .. m => i = j
      BY <2>3, <2>5, <3>1 DEF Distinct
    <3> QED
      BY <2>1, <2>2, <2>5, <3>1, <3>2, <3>3, <3>4
  <2>6. Distinct(list) => Distinct(longer)
    BY <2>3, <2>5 DEF Distinct
  <2> QED
    BY <2>1, <2>2, <2>4, <2>6
<1> QED
  BY <1>2, <1>3

\* The list begun with, and what Add makes of it with each of the findings.
Adds(list, found, g) ==
    g = [k \in 0 .. Len(found) |-> IF k = 0 THEN list ELSE Add(g[k - 1], found[k])]

LEMMA AddsExists ==
    ASSUME NEW list, IsList(list), NEW found, IsList(found)
    PROVE  \E g : Adds(list, found, g)
<1> DEFINE m == Len(found)
           B == Range(list) \cup Range(found)
           A == Seq(B)
           F == [i \in 1 .. m |-> [p \in A |-> Add(p, found[i])]]
<1>1. m \in Nat /\ \A i \in 1 .. m : found[i] \in B
  BY ListIs DEF Range
<1>2. list \in A
  <2>1. list \in Seq(Range(list)) /\ Range(list) \subseteq B
    BY ListIs
  <2> HIDE DEF B
  <2> QED
    BY <2>1, SeqMonotonic
<1> HIDE DEF B, m
<1>3. \A p \in A, f \in B : Add(p, f) \in A
  BY DEF Add
<1>4. F \in [1 .. m -> [A -> A]]
  BY <1>1, <1>3
<1> HIDE DEF A
<1>5. PICK g : Iterates(A, list, F, m, g)
  <2> HIDE DEF F
  <2> QED
    BY <1>1, <1>2, <1>4, Iteration
<1>6. g \in [0 .. m -> A] /\ g[0] = list /\ \A i \in 1 .. m : g[i] = Add(g[i - 1], found[i])
  <2>1. g \in [0 .. m -> A] /\ g[0] = list /\ \A i \in 1 .. m : g[i] = F[i][g[i - 1]]
    <3> HIDE DEF F
    <3> QED
      BY <1>5 DEF Iterates
  <2>2. \A i \in 1 .. m : i - 1 \in 0 .. m
    BY <1>1
  <2> QED
    BY <2>1, <2>2
<1>7. \A k \in 0 .. m : g[k] = IF k = 0 THEN list ELSE Add(g[k - 1], found[k])
  BY <1>1, <1>6
<1>8. Adds(list, found, g)
  BY <1>6, <1>7 DEF Adds, m
<1> QED
  BY <1>8

LEMMA AddAllIs ==
    ASSUME IsList(findings), NEW found, IsList(found)
    PROVE  /\ IsList(AddAll(found))
           /\ MarksOf(AddAll(found)) = MarksOf(findings) \cup MarksOf(found)
           /\ Distinct(findings) => Distinct(AddAll(found))
           /\ \A f \in Range(AddAll(found)) :
                 \/ f \in Range(findings)
                 \/ \E j \in DOMAIN found :
                       f = found[j] /\ \A h \in 1 .. (j - 1) : MarkOf(found[h]) # MarkOf(f)
<1> DEFINE m == Len(found)
           g == CHOOSE h : Adds(findings, found, h)
           New(k, f) == \E j \in 1 .. k :
                           f = found[j] /\ \A h \in 1 .. (j - 1) : MarkOf(found[h]) # MarkOf(f)
           Marked(k) == MarksOf(findings) \cup {MarkOf(found[j]) : j \in 1 .. k}
           Good == {k \in 0 .. m : /\ IsList(g[k]) /\ MarksOf(g[k]) = Marked(k)
                                   /\ Distinct(findings) => Distinct(g[k])
                                   /\ \A f \in Range(g[k]) : f \in Range(findings) \/ New(k, f)}
<1>1. m \in Nat /\ DOMAIN found = 1 .. m
  BY ListIs
<1>2. AddAll(found) = g[m]
  BY Zenon DEF AddAll, Adds
<1>3. Adds(findings, found, g)
  BY AddsExists
<1> HIDE DEF g
<1>4. /\ g[0] = findings
      /\ \A i \in 1 .. m : g[i] = Add(g[i - 1], found[i])
  <2>1. \A k \in 0 .. m : g[k] = IF k = 0 THEN findings ELSE Add(g[k - 1], found[k])
    BY <1>3, Zenon DEF Adds
  <2>2. 0 \in 0 .. m /\ \A i \in 1 .. m : i \in 0 .. m /\ i # 0
    BY <1>1
  <2> QED
    BY <2>1, <2>2
<1> HIDE DEF m
<1>5. 0 \in Good
  BY <1>1, <1>4
<1>6. ASSUME NEW i \in 1 .. m, i - 1 \in Good
      PROVE  i \in Good
  <2>1. /\ IsList(g[i - 1]) /\ MarksOf(g[i - 1]) = Marked(i - 1)
        /\ Distinct(findings) => Distinct(g[i - 1])
        /\ \A f \in Range(g[i - 1]) : f \in Range(findings) \/ New(i - 1, f)
    <3> HIDE DEF New, Marked
    <3> QED
      BY <1>6 DEF Good
  <2>2. g[i] = Add(g[i - 1], found[i]) /\ i \in 0 .. m
    BY <1>1, <1>4
  <2>3. /\ IsList(g[i])
        /\ MarksOf(g[i]) = MarksOf(g[i - 1]) \cup {MarkOf(found[i])}
        /\ Distinct(g[i - 1]) => Distinct(g[i])
        /\ \A f \in Range(g[i]) :
              f \in Range(g[i - 1]) \/ (f = found[i] /\ MarkOf(f) \notin MarksOf(g[i - 1]))
    BY <2>1, <2>2, AddIs
  <2>4. MarksOf(g[i]) = Marked(i)
    <3>1. \A j : j \in 1 .. i <=> j \in 1 .. (i - 1) \/ j = i
      BY <1>1
    <3> QED
      BY <2>1, <2>3, <3>1
  <2>5. ASSUME NEW f \in Range(g[i]) PROVE f \in Range(findings) \/ New(i, f)
    <3>1. CASE f \in Range(g[i - 1])
      <4>1. New(i - 1, f) => New(i, f)
        BY <1>1
      <4> HIDE DEF New
      <4> QED
        BY <2>1, <3>1, <4>1
    <3>2. CASE f = found[i] /\ MarkOf(f) \notin MarksOf(g[i - 1])
      <4>1. \A h \in 1 .. (i - 1) : MarkOf(found[h]) # MarkOf(f)
        BY <2>1, <3>2
      <4>2. i \in 1 .. i
        BY <1>1
      <4> QED
        BY <3>2, <4>1, <4>2
    <3> QED
      BY <2>3, <3>1, <3>2
  <2> HIDE DEF New, Marked
  <2> QED
    BY <2>1, <2>2, <2>3, <2>4, <2>5
<1> HIDE DEF Good
<1>7. m \in Good
  <2>1. \A i \in 0 .. m : i \in Good
    BY <1>1, <1>5, <1>6, UpTo
  <2> QED
    BY <1>1, <2>1
<1>8. Marked(m) = MarksOf(findings) \cup MarksOf(found)
  BY <1>1 DEF MarksOf, Range
<1>9. /\ IsList(g[m]) /\ MarksOf(g[m]) = Marked(m)
      /\ Distinct(findings) => Distinct(g[m])
      /\ \A f \in Range(g[m]) : f \in Range(findings) \/ New(m, f)
  <2> HIDE DEF New, Marked
  <2> QED
    BY <1>7 DEF Good
<1> HIDE DEF Marked
<1> QED
  BY <1>1, <1>2, <1>8, <1>9

\* What comes from a list comes after what comes from those before it.
LEMMA FlattenOrder ==
    ASSUME NEW S, NEW ss \in Seq(Seq(S))
    PROVE  \A k \in DOMAIN FlattenSeq(ss) : \E t \in DOMAIN ss :
              /\ FlattenSeq(ss)[k] \in Range(ss[t])
              /\ \A u \in 1 .. (t - 1) : \A e \in Range(ss[u]) :
                    \E j \in 1 .. (k - 1) : FlattenSeq(ss)[j] = e
<1> DEFINE Ordered(tt, F) ==
             \A k \in DOMAIN F : \E t \in DOMAIN tt :
                /\ F[k] \in Range(tt[t])
                /\ \A u \in 1 .. (t - 1) : \A e \in Range(tt[u]) : \E j \in 1 .. (k - 1) : F[j] = e
           A == Seq(S)
           T == {tt \in Seq(A) : Ordered(tt, FlattenSeq(tt))}
<1>1. <<>> \in T
  BY FlattenEmpty
<1>2. ASSUME NEW tt \in Seq(A), NEW s \in A, tt \in T
      PROVE  Append(tt, s) \in T
  <2> DEFINE F == FlattenSeq(tt)  G == FlattenSeq(Append(tt, s))  uu == Append(tt, s)
             m == Len(F)  q == Len(tt)
  <2>1. F \in Seq(S) /\ G = F \o s
    BY FlattenType, FlattenAppend
  <2>2. Range(F) = UNION {Range(tt[i]) : i \in DOMAIN tt}
    BY FlattenMembers
  <2>3. Ordered(tt, F)
    BY <1>2
  <2>4. /\ uu \in Seq(A) /\ q \in Nat /\ DOMAIN tt = 1 .. q /\ DOMAIN uu = 1 .. (q + 1)
        /\ uu[q + 1] = s /\ \A i \in 1 .. q : uu[i] = tt[i]
    OBVIOUS
  <2> HIDE DEF F, uu
  <2>5. /\ m \in Nat /\ Len(s) \in Nat /\ DOMAIN F = 1 .. m /\ DOMAIN G = 1 .. (m + Len(s))
        /\ \A k \in 1 .. m : G[k] = F[k]
        /\ \A k \in 1 .. (m + Len(s)) : k > m => G[k] = s[k - m] /\ k - m \in DOMAIN s
    <3> HIDE DEF G
    <3> QED
      BY <2>1, ConcatProperties
  <2> HIDE DEF G, m, q
  <2>6. ASSUME NEW k \in DOMAIN G
        PROVE  \E t \in DOMAIN uu :
                /\ G[k] \in Range(uu[t])
                /\ \A u \in 1 .. (t - 1) : \A e \in Range(uu[u]) : \E j \in 1 .. (k - 1) : G[j] = e
    <3>1. CASE k \in 1 .. m
      <4>1. PICK t \in DOMAIN tt :
               /\ F[k] \in Range(tt[t])
               /\ \A u \in 1 .. (t - 1) : \A e \in Range(tt[u]) : \E j \in 1 .. (k - 1) : F[j] = e
        BY <2>3, <2>5, <3>1
      <4>2. t \in DOMAIN uu /\ uu[t] = tt[t] /\ \A u \in 1 .. (t - 1) : uu[u] = tt[u]
        BY <2>4
      <4>3. G[k] = F[k] /\ \A j \in 1 .. (k - 1) : G[j] = F[j]
        BY <2>5, <3>1
      <4> QED
        BY <4>1, <4>2, <4>3, ZenonT(30)
    <3>2. CASE ~(k \in 1 .. m)
      <4>1. k > m /\ k \in 1 .. (m + Len(s)) /\ k \in Nat
        BY <2>5, <3>2
      <4>2. G[k] \in Range(s)
        BY <2>5, <4>1 DEF Range
      <4>3. ASSUME NEW u \in 1 .. ((q + 1) - 1), NEW e \in Range(uu[u])
            PROVE  \E j \in 1 .. (k - 1) : G[j] = e
        <5>1. u \in 1 .. q
          BY <2>4
        <5>2. e \in Range(F)
          BY <2>2, <2>4, <5>1
        <5>3. PICK j \in 1 .. m : F[j] = e
          BY <2>5, <5>2 DEF Range
        <5>4. j \in 1 .. (k - 1) /\ G[j] = F[j]
          BY <2>5, <4>1
        <5> QED
          BY <5>3, <5>4
      <4>4. q + 1 \in DOMAIN uu
        BY <2>4
      <4> QED
        BY <2>4, <4>2, <4>3, <4>4
    <3> QED
      BY <3>1, <3>2
  <2> QED
    BY <2>4, <2>6 DEF G, uu
<1>3. \A tt \in Seq(A) : tt \in T
  <2> HIDE DEF T, A
  <2> QED
    BY <1>1, <1>2, BuiltByAppend
<1> QED
  BY <1>3

InOrder(m, ss) ==
    \A k \in DOMAIN FlattenSeq(ss) : \E t \in 1 .. m :
       /\ FlattenSeq(ss)[k] \in Range(ss[t])
       /\ \A u \in 1 .. (t - 1) : \A e \in Range(ss[u]) :
             \E j \in 1 .. (k - 1) : FlattenSeq(ss)[j] = e

LEMMA ListsOrder ==
    ASSUME NEW m \in Nat, NEW ss, ss = [i \in 1 .. m |-> ss[i]], \A i \in 1 .. m : IsList(ss[i])
    PROVE  InOrder(m, ss)
<1> DEFINE S == UNION {Range(ss[i]) : i \in 1 .. m}
<1>1. \A i \in 1 .. m : Range(ss[i]) \subseteq S
  OBVIOUS
<1> HIDE DEF S
<1>2. \A i \in 1 .. m : ss[i] \in Seq(S)
  BY <1>1, ListIs, SeqMonotonic
<1>3. DOMAIN ss = 1 .. m
  OBVIOUS
<1>4. ss \in Seq(Seq(S))
  BY <1>2, <1>3, IsASeq
<1> QED
  BY <1>3, <1>4, FlattenOrder DEF InOrder

\* What is found in a string, as it is marked.
MarksIn(x) == {<<x.path, Span(s)>> : s \in Found(x.chars)}

LEMMA LocatedMarks ==
    ASSUME NEW path, NEW type, NEW spans, IsList(spans)
    PROVE  MarksOf(Located(path, type, spans)) = {<<path, Span(s)>> : s \in Range(spans)}
<1>1. \A s : MarkOf(LocatedAt(path, type, s)) = <<path, Span(s)>>
  BY DEF MarkOf, LocatedAt, Span
<1>2. \A f : f \in Range(Located(path, type, spans))
                <=> \E s \in Range(spans) : f = LocatedAt(path, type, s)
  BY LocatedIs
<1> QED
  BY <1>1, <1>2 DEF MarksOf

LEMMA VisitedIs ==
    ASSUME Given, n \in Nat, n < Len(Visited), detector.kind \in {"regex", "keywords", "secrets"}
    PROVE  /\ Visited[n + 1] \in Range(Visited)
           /\ Visited[n + 1] \in Range(Strings(request))
<1>1. IsList(Visited) /\ Range(Visited) \subseteq Range(Strings(request))
  BY StringsAre DEF Visited
<1>2. n + 1 \in DOMAIN Visited
  BY <1>1, ListIs
<1> QED
  BY <1>1, <1>2 DEF Range

LEMMA VisitAdds ==
    ASSUME Given, n \in Nat, IsList(findings), VisitText
    PROVE  /\ n < Len(Visited) /\ IsList(findings')
           /\ MarksOf(findings') = MarksOf(findings) \cup MarksIn(Visited[n + 1])
<1> DEFINE x == Visited[n + 1]  new == Located(x.path, detector.kind, TextSpans(x.chars))
<1>1. detector.kind \in {"regex", "keywords"} /\ Visited = Texts(request) /\ n < Len(Visited)
  BY DEF VisitText, Visited
<1>2. findings' = findings \o new
  BY <1>1 DEF VisitText
<1>3. x \in Range(Strings(request))
  BY <1>1, VisitedIs
<1> HIDE DEF x
<1>4. IsList(TextSpans(x.chars))
  BY <1>1, <1>3, TextSpansAre
<1>5. IsList(new) /\ MarksOf(new) = {<<x.path, Span(s)>> : s \in Range(TextSpans(x.chars))}
  BY <1>4, LocatedIs, LocatedMarks
<1>6. MarksOf(new) = MarksIn(x)
  BY <1>1, <1>5 DEF MarksIn, Found
<1> HIDE DEF new
<1>7. IsList(findings') /\ Range(findings') = Range(findings) \cup Range(new)
  BY <1>2, <1>5, ListsConcat
<1> QED
  BY <1>1, <1>6, <1>7 DEF MarksOf, x

\* The type of a finding is the first in the bundle's order whose pattern
\* matches its span.
TypedFirst(f, s) ==
    \E t \in DOMAIN Bundle :
        /\ Bundle[t] = f.type
        /\ \A u \in 1 .. (t - 1) : Span(f) \notin {Span(x) : x \in Range(SecretSpans(Bundle[u], s))}

LEMMA ScanAdds ==
    ASSUME Given, n \in Nat, IsList(findings), Distinct(findings), ScanString
    PROVE  /\ n < Len(Visited) /\ IsList(findings') /\ Distinct(findings')
           /\ MarksOf(findings') = MarksOf(findings) \cup MarksIn(Visited[n + 1])
           /\ \A f \in Range(findings') :
                 \/ f \in Range(findings)
                 \/ f.path = Visited[n + 1].path /\ TypedFirst(f, Visited[n + 1].chars)
<1> DEFINE x == Visited[n + 1]
           spans(t) == SecretSpans(Bundle[t], x.chars)
           ss == [t \in DOMAIN Bundle |-> Located(x.path, Bundle[t], spans(t))]
           list == FlattenSeq(ss)
<1>1. detector.kind = "secrets" /\ Visited = Strings(request) /\ n < Len(Visited)
  BY DEF ScanString, Visited
<1>2. findings' = AddAll(list)
  BY <1>1 DEF ScanString
<1>3. x \in Range(Strings(request))
  BY <1>1, VisitedIs
<1>4. DOMAIN Bundle = 1 .. 5 /\ \A t \in 1 .. 5 : Bundle[t] \in Range(Bundle)
  BY DEF Bundle, Range
<1> HIDE DEF x
<1>5. \A t \in 1 .. 5 : IsList(spans(t))
  BY <1>3, <1>4, SecretSpansAre
<1>6. ss = [t \in 1 .. 5 |-> ss[t]] /\ \A t \in 1 .. 5 : ss[t] = Located(x.path, Bundle[t], spans(t))
  BY <1>4
<1> HIDE DEF spans, ss
<1>7. \A t \in 1 .. 5 :
         /\ IsList(ss[t])
         /\ \A f : f \in Range(ss[t]) <=> \E s \in Range(spans(t)) : f = LocatedAt(x.path, Bundle[t], s)
  BY <1>5, <1>6, LocatedIs
<1>8. IsList(list) /\ Range(list) = UNION {Range(ss[t]) : t \in 1 .. 5}
  BY <1>6, <1>7, ListsFlatten
<1>9. \A k \in DOMAIN list : \E t \in 1 .. 5 :
         /\ list[k] \in Range(ss[t])
         /\ \A u \in 1 .. (t - 1) : \A e \in Range(ss[u]) : \E j \in 1 .. (k - 1) : list[j] = e
  <2>1. /\ 5 \in Nat /\ ss = [t \in 1 .. 5 |-> ss[t]]
        /\ \A t \in 1 .. 5 : IsList(ss[t])
    BY <1>6, <1>7
  <2>2. InOrder(5, ss)
    BY <2>1, ListsOrder
  <2> QED
    BY <2>2 DEF InOrder
<1>10. \A t, s : MarkOf(LocatedAt(x.path, t, s)) = <<x.path, Span(s)>>
                 /\ LocatedAt(x.path, t, s).path = x.path /\ LocatedAt(x.path, t, s).type = t
                 /\ Span(LocatedAt(x.path, t, s)) = Span(s)
  BY DEF MarkOf, LocatedAt, Span
<1> HIDE DEF list
<1>11. /\ IsList(findings') /\ Distinct(findings')
       /\ MarksOf(findings') = MarksOf(findings) \cup MarksOf(list)
       /\ \A f \in Range(findings') :
             \/ f \in Range(findings)
             \/ \E j \in DOMAIN list :
                   f = list[j] /\ \A h \in 1 .. (j - 1) : MarkOf(list[h]) # MarkOf(f)
  BY <1>2, <1>8, AddAllIs
<1>12. MarksOf(list) = MarksIn(x)
  <2>1. \A m : m \in MarksOf(list) <=> \E t \in 1 .. 5 : \E s \in Range(spans(t)) : m = <<x.path, Span(s)>>
    BY <1>7, <1>8, <1>10 DEF MarksOf
  <2>2. Range(Bundle) = {Bundle[t] : t \in 1 .. 5}
    BY <1>4 DEF Range
  <2>3. Found(x.chars) = UNION {Range(spans(t)) : t \in 1 .. 5}
    BY <1>1, <2>2 DEF Found, spans
  <2>4. \A m : m \in MarksIn(x) <=> \E t \in 1 .. 5 : \E s \in Range(spans(t)) : m = <<x.path, Span(s)>>
    BY <2>3 DEF MarksIn
  <2> QED
    BY <2>1, <2>4
<1>13. ASSUME NEW j \in DOMAIN list, \A h \in 1 .. (j - 1) : MarkOf(list[h]) # MarkOf(list[j])
       PROVE  list[j].path = x.path /\ TypedFirst(list[j], x.chars)
  <2> DEFINE f == list[j]
  <2>1. PICK t \in 1 .. 5 :
           /\ f \in Range(ss[t])
           /\ \A u \in 1 .. (t - 1) : \A e \in Range(ss[u]) : \E h \in 1 .. (j - 1) : list[h] = e
    BY <1>9
  <2> HIDE DEF f
  <2>2. f.path = x.path /\ f.type = Bundle[t] /\ MarkOf(f) = <<x.path, Span(f)>>
    BY <1>7, <1>10, <2>1
  <2>3. ASSUME NEW u \in 1 .. (t - 1), NEW s \in Range(spans(u)), Span(f) = Span(s) PROVE FALSE
    <3>1. u \in 1 .. 5
      OBVIOUS
    <3>2. LocatedAt(x.path, Bundle[u], s) \in Range(ss[u])
      BY <1>7, <3>1
    <3>3. MarkOf(LocatedAt(x.path, Bundle[u], s)) = MarkOf(f)
      BY <1>10, <2>2, <2>3
    <3>4. PICK h \in 1 .. (j - 1) : list[h] = LocatedAt(x.path, Bundle[u], s)
      BY <2>1, <3>2
    <3> QED
      BY <1>13, <3>3, <3>4 DEF f
  <2>4. \A u \in 1 .. (t - 1) : Span(f) \notin {Span(s) : s \in Range(spans(u))}
    BY <2>3
  <2>5. t \in DOMAIN Bundle /\ Bundle[t] = f.type
    BY <1>4, <2>2
  <2> HIDE DEF Bundle
  <2>6. TypedFirst(f, x.chars)
    BY <2>4, <2>5 DEF TypedFirst, spans
  <2> QED
    BY <2>2, <2>6 DEF f
<1> QED
  BY <1>1, <1>11, <1>12, <1>13 DEF x

-----------------------------------------------------------------------------
(* The invariant: the findings are those of the strings visited so far, or, of *)
(* a detector that looks at the request once, what it reports.                 *)

SchemaFindings ==
    LET errors == request.errors
        leaves == SetToSeq(Leaves(errors))
    IN  [i \in DOMAIN leaves |->
           [location |-> errors[leaves[i]],
            path |-> PointerJSONPath(detector.target, errors[leaves[i]])]]

Scanning ==
    detector.kind \in {"regex", "keywords", "secrets"} =>
        /\ n \in 0 .. Len(Visited) /\ IsList(findings)
        /\ MarksOf(findings) = UNION {MarksIn(Visited[i]) : i \in 1 .. n}
        /\ detector.kind = "secrets" =>
              /\ Distinct(findings)
              /\ \A f \in Range(findings) : \E i \in 1 .. n :
                    f.path = Visited[i].path /\ TypedFirst(f, Visited[i].chars)
        /\ pc = "done" => n = Len(Visited)

ReportedAtOnce ==
    pc = "done" =>
        /\ detector.kind = "requestLimits" => findings = LimitFindings
        /\ detector.kind = "allowDeny" => findings = ListFindings
        /\ detector.kind = "jsonSchema" => findings = SchemaFindings

IInv == Given /\ Scanning /\ ReportedAtOnce

\* What is computed from the detector and the request alone.
LEMMA Frame ==
    ASSUME UNCHANGED <<detector, request>>
    PROVE  /\ Given' = Given /\ Visited' = Visited
           /\ \A x : MarksIn(x)' = MarksIn(x)
           /\ \A f, s : TypedFirst(f, s)' = TypedFirst(f, s)
           /\ LimitFindings' = LimitFindings
           /\ ListFindings' = ListFindings
           /\ SchemaFindings' = SchemaFindings
<1>1. detector' = detector /\ request' = request
  OBVIOUS
<1>2. ContentDoc' = ContentDoc
  BY <1>1 DEF ContentDoc
<1>3. Measurements' = Measurements
  BY <1>1, <1>2 DEF Measurements, ContentBytes
<1>4. \A f, k : FirstText(f, k)' = FirstText(f, k)
  BY <1>2 DEF FirstText
<1>5. LimitFindings' = LimitFindings
  <2>1. ContentMIMETypes' = ContentMIMETypes
    BY <1>1, <1>2, <1>4 DEF ContentMIMETypes
  <2>2. MIMETypeFindings' = MIMETypeFindings
    BY <1>1, <2>1 DEF MIMETypeFindings
  <2>3. Exceeding' = Exceeding
    BY <1>1, <1>3 DEF Exceeding, Exceeds
  <2> QED
    BY <1>1, <2>2, <2>3 DEF LimitFindings
<1>6. ListFindings' = ListFindings
  <2>1. ToolNames' = ToolNames
    BY <1>2 DEF ToolNames
  <2>2. FileTypes' = FileTypes
    BY <1>2, <1>4 DEF FileTypes
  <2>3. \A s : SelectorValues(s)' = SelectorValues(s)
    BY <1>1, <1>2, <2>1, <2>2 DEF SelectorValues
  <2>4. \A v : Rule(v)' = Rule(v)
    BY <1>1 DEF Rule, Denied, Allowed
  <2> QED
    BY <1>1, <2>3, <2>4 DEF ListFindings
<1>7. \A type, s : SecretSpans(type, s)' = SecretSpans(type, s)
  BY <1>1 DEF SecretSpans, Enabled, IsSecret
<1>8. \A s : TextSpans(s)' = TextSpans(s)
  BY <1>1 DEF TextSpans
<1>9. \A x : MarksIn(x)' = MarksIn(x)
  <2>1. \A s : Found(s)' = Found(s)
    BY <1>1, <1>7, <1>8 DEF Found
  <2> QED
    BY <2>1 DEF MarksIn
<1>10. \A f, s : TypedFirst(f, s)' = TypedFirst(f, s)
  BY <1>7 DEF TypedFirst
<1>11. Given' = Given /\ Visited' = Visited /\ SchemaFindings' = SchemaFindings
  BY <1>1 DEF Given, Visited, SchemaFindings
<1> QED
  BY <1>5, <1>6, <1>9, <1>10, <1>11

LEMMA OneMore ==
    ASSUME NEW m \in Nat, NEW old, NEW new, NEW list,
           old = UNION {MarksIn(list[i]) : i \in 1 .. m},
           new = old \cup MarksIn(list[m + 1])
    PROVE  new = UNION {MarksIn(list[i]) : i \in 1 .. (m + 1)}
<1>1. \A i : i \in 1 .. (m + 1) <=> i \in 1 .. m \/ i = m + 1
  OBVIOUS
<1> QED
  BY <1>1

\* Every step keeps the invariant: a string adds its own findings, and nothing is
\* done between the last one and the return (evaluator.go:274-302, 428-446).
LEMMA InvariantHolds == Spec => []IInv
<1>1. Init => IInv
  <2> SUFFICES ASSUME Init PROVE IInv
    OBVIOUS
  <2>1. Given /\ n = 0 /\ findings = <<>> /\ pc = "run"
    BY DEF Init, Given
  <2>2. IsList(Visited)
    BY <2>1, StringsAre, EmptyIs DEF Visited
  <2>3. n \in 0 .. Len(Visited) /\ 1 .. n = {}
    BY <2>1, <2>2, ListIs
  <2>4. IsList(findings) /\ MarksOf(findings) = {} /\ Range(findings) = {} /\ Distinct(findings)
    BY <2>1, EmptyIs DEF MarksOf, Distinct
  <2>5. Scanning
    BY <2>1, <2>3, <2>4 DEF Scanning
  <2> QED
    BY <2>1, <2>5 DEF IInv, ReportedAtOnce
<1>2. IInv /\ [Next]_vars => IInv'
  <2> SUFFICES ASSUME IInv, [Next]_vars PROVE IInv'
    OBVIOUS
  <2>1. UNCHANGED <<detector, request>>
    BY DEF Next, VisitText, ScanString, Return, EvaluateRequestLimits, EvaluateAllowDeny,
           EvaluateJSONSchema, Report, Terminated, vars
  <2>2. /\ Given' /\ Visited' = Visited /\ \A x : MarksIn(x)' = MarksIn(x)
        /\ \A f, s : TypedFirst(f, s)' = TypedFirst(f, s)
        /\ LimitFindings' = LimitFindings /\ ListFindings' = ListFindings
        /\ SchemaFindings' = SchemaFindings
    BY <2>1, Frame DEF IInv
  <2>3. Given /\ Scanning /\ ReportedAtOnce
    BY DEF IInv
  <2>4. CASE VisitText
    <3>1. /\ detector.kind \in {"regex", "keywords"} /\ n' = n + 1
          /\ pc = "run" /\ pc' = "run" /\ detector' = detector
      BY <2>4 DEF VisitText
    <3>2. /\ n \in 0 .. Len(Visited) /\ IsList(findings)
          /\ MarksOf(findings) = UNION {MarksIn(Visited[i]) : i \in 1 .. n}
      BY <2>3, <3>1 DEF Scanning
    <3>3. /\ n < Len(Visited) /\ IsList(findings')
          /\ MarksOf(findings') = MarksOf(findings) \cup MarksIn(Visited[n + 1])
      BY <2>3, <2>4, <3>2, VisitAdds
    <3>4. MarksOf(findings') = UNION {MarksIn(Visited[i]) : i \in 1 .. n'}
      BY <3>1, <3>2, <3>3, OneMore
    <3>5. n' \in 0 .. Len(Visited)
      BY <3>1, <3>2, <3>3
    <3>6. Scanning'
      BY <2>2, <3>1, <3>3, <3>4, <3>5 DEF Scanning, MarksOf, MarkOf, Span
    <3> QED
      BY <2>2, <3>1, <3>6 DEF IInv, ReportedAtOnce
  <2>5. CASE ScanString
    <3>1. /\ detector.kind = "secrets" /\ n' = n + 1
          /\ pc = "run" /\ pc' = "run" /\ detector' = detector
      BY <2>5 DEF ScanString
    <3>2. /\ n \in 0 .. Len(Visited) /\ IsList(findings) /\ Distinct(findings)
          /\ MarksOf(findings) = UNION {MarksIn(Visited[i]) : i \in 1 .. n}
          /\ \A f \in Range(findings) : \E i \in 1 .. n :
                f.path = Visited[i].path /\ TypedFirst(f, Visited[i].chars)
      BY <2>3, <3>1 DEF Scanning
    <3>3. /\ n < Len(Visited) /\ IsList(findings') /\ Distinct(findings')
          /\ MarksOf(findings') = MarksOf(findings) \cup MarksIn(Visited[n + 1])
          /\ \A f \in Range(findings') :
                \/ f \in Range(findings)
                \/ f.path = Visited[n + 1].path /\ TypedFirst(f, Visited[n + 1].chars)
      BY <2>3, <2>5, <3>2, ScanAdds
    <3>4. MarksOf(findings') = UNION {MarksIn(Visited[i]) : i \in 1 .. n'}
      BY <3>1, <3>2, <3>3, OneMore
    <3>5. n' \in 0 .. Len(Visited) /\ n + 1 \in 1 .. n' /\ \A i \in 1 .. n : i \in 1 .. n'
      BY <3>1, <3>2, <3>3
    <3>6. \A f \in Range(findings') : \E i \in 1 .. n' :
                f.path = Visited[i].path /\ TypedFirst(f, Visited[i].chars)
      BY <3>2, <3>3, <3>5
    <3>7. Scanning'
      BY <2>2, <3>1, <3>3, <3>4, <3>5, <3>6 DEF Scanning, MarksOf, MarkOf, Span, Distinct
    <3> QED
      BY <2>2, <3>1, <3>7 DEF IInv, ReportedAtOnce
  <2>6. CASE Return
    <3>1. /\ detector.kind \in {"regex", "keywords", "secrets"} /\ n = Len(Visited)
          /\ UNCHANGED <<detector, n, findings>>
      BY <2>6 DEF Return
    <3>2. Scanning'
      BY <2>2, <2>3, <3>1 DEF Scanning, MarksOf, MarkOf, Span, Distinct
    <3>3. ReportedAtOnce'
      BY <3>1 DEF ReportedAtOnce
    <3> QED
      BY <2>2, <3>2, <3>3 DEF IInv
  <2>7. CASE EvaluateRequestLimits
    <3>1. detector.kind = "requestLimits" /\ findings' = LimitFindings /\ detector' = detector
      BY <2>7 DEF EvaluateRequestLimits, Report, LimitFindings
    <3> QED
      BY <2>2, <3>1 DEF IInv, Scanning, ReportedAtOnce
  <2>8. CASE EvaluateAllowDeny
    <3>1. detector.kind = "allowDeny" /\ findings' = ListFindings /\ detector' = detector
      BY <2>8 DEF EvaluateAllowDeny, Report, ListFindings
    <3> QED
      BY <2>2, <3>1 DEF IInv, Scanning, ReportedAtOnce
  <2>9. CASE EvaluateJSONSchema
    <3>1. detector.kind = "jsonSchema" /\ findings' = SchemaFindings /\ detector' = detector
      BY <2>9 DEF EvaluateJSONSchema, Report, SchemaFindings
    <3> QED
      BY <2>2, <3>1 DEF IInv, Scanning, ReportedAtOnce
  <2>10. CASE UNCHANGED vars
    <3>1. UNCHANGED <<detector, n, findings, pc>>
      BY <2>10 DEF vars
    <3>2. Scanning'
      BY <2>2, <2>3, <3>1 DEF Scanning, MarksOf, MarkOf, Span, Distinct
    <3>3. ReportedAtOnce'
      BY <2>2, <2>3, <3>1 DEF ReportedAtOnce
    <3> QED
      BY <2>2, <3>2, <3>3 DEF IInv
  <2> QED
    BY <2>4, <2>5, <2>6, <2>7, <2>8, <2>9, <2>10 DEF Next, Terminated
<1> QED
  BY <1>1, <1>2, PTL DEF Spec

-----------------------------------------------------------------------------
(* The theorems. *)

\* When a detector that goes through strings is done, its findings are marked as
\* what is found in the strings it visits.
LEMMA MarkedWhenDone ==
    ASSUME IInv, Done({"regex", "keywords", "secrets"})
    PROVE  \A m : m \in MarksOf(findings) <=> \E x \in Range(Visited) : m \in MarksIn(x)
<1>1. /\ n = Len(Visited) /\ MarksOf(findings) = UNION {MarksIn(Visited[i]) : i \in 1 .. n}
  BY DEF IInv, Scanning, Done
<1>2. IsList(Visited)
  BY StringsAre, EmptyIs DEF Visited, IInv
<1>3. Range(Visited) = {Visited[i] : i \in 1 .. n}
  BY <1>1, <1>2, ListIs DEF Range
<1> QED
  BY <1>1, <1>3

LEMMA VisitedDiffer ==
    ASSUME Given, NEW x \in Range(Visited), NEW y \in Range(Visited), x.path = y.path,
           detector.kind \in {"regex", "keywords", "secrets"}
    PROVE  x.chars = y.chars
<1>1. x \in Range(Strings(request)) /\ y \in Range(Strings(request))
  BY StringsAre DEF Visited
<1> QED
  BY <1>1, StringsDiffer

LEMMA SpansBelong == IInv => SpansBelongToTheirString
<1> SUFFICES ASSUME IInv, Done({"regex", "keywords", "secrets"}), NEW x \in Range(Visited)
             PROVE  {Span(f) : f \in {g \in Range(findings) : g.path = x.path}}
                       = {Span(s) : s \in Found(x.chars)}
  BY DEF SpansBelongToTheirString
<1>1. \A m : m \in MarksOf(findings) <=> \E y \in Range(Visited) : m \in MarksIn(y)
  BY MarkedWhenDone
<1>2. ASSUME NEW f \in Range(findings), f.path = x.path
      PROVE  \E s \in Found(x.chars) : Span(f) = Span(s)
  <2>1. <<f.path, Span(f)>> \in MarksOf(findings)
    BY DEF MarksOf, MarkOf
  <2>2. PICK y \in Range(Visited) : <<f.path, Span(f)>> \in MarksIn(y)
    BY <1>1, <2>1
  <2>3. PICK s \in Found(y.chars) : <<f.path, Span(f)>> = <<y.path, Span(s)>>
    BY <2>2 DEF MarksIn
  <2>4. f.path = y.path /\ Span(f) = Span(s)
    <3> DEFINE p == Span(f)  q == Span(s)
    <3> HIDE DEF p, q
    <3>1. <<f.path, p>> = <<y.path, q>>
      BY <2>3 DEF p, q
    <3>2. f.path = y.path /\ p = q
      BY <3>1
    <3> QED
      BY <3>2 DEF p, q
  <2>5. y.chars = x.chars
    BY <1>2, <2>4, VisitedDiffer DEF IInv, Done
  <2> QED
    BY <2>4, <2>5
<1>3. ASSUME NEW s \in Found(x.chars)
      PROVE  \E f \in Range(findings) : f.path = x.path /\ Span(f) = Span(s)
  <2>1. <<x.path, Span(s)>> \in MarksIn(x)
    BY DEF MarksIn
  <2>2. <<x.path, Span(s)>> \in MarksOf(findings)
    BY <1>1, <2>1
  <2>3. PICK f \in Range(findings) : <<x.path, Span(s)>> = <<f.path, Span(f)>>
    BY <2>2 DEF MarksOf, MarkOf
  <2> DEFINE p == Span(f)  q == Span(s)
  <2> HIDE DEF p, q
  <2>4. <<x.path, q>> = <<f.path, p>>
    BY <2>3 DEF p, q
  <2>5. x.path = f.path /\ p = q
    BY <2>4
  <2> QED
    BY <2>5 DEF p, q
<1> QED
  BY <1>2, <1>3

LEMMA SecretsAreOne == IInv => OneFindingPerSecret
<1> SUFFICES ASSUME IInv, Done({"secrets"}) PROVE OneFindingPerSecret
  BY DEF OneFindingPerSecret
<1>1. /\ detector.kind = "secrets" /\ Distinct(findings) /\ n = Len(Visited)
      /\ \A f \in Range(findings) : \E i \in 1 .. n :
            f.path = Visited[i].path /\ TypedFirst(f, Visited[i].chars)
  BY DEF IInv, Scanning, Done
<1>2. IsList(Visited)
  BY <1>1, StringsAre DEF Visited, IInv
<1>3. ASSUME NEW f \in Range(findings), NEW x \in Range(Visited), x.path = f.path
      PROVE  TypedFirst(f, x.chars)
  <2>1. PICK i \in 1 .. n : f.path = Visited[i].path /\ TypedFirst(f, Visited[i].chars)
    BY <1>1
  <2>2. Visited[i] \in Range(Visited)
    BY <1>1, <1>2, ListIs DEF Range
  <2>3. Visited[i].chars = x.chars
    BY <1>1, <1>3, <2>1, <2>2, VisitedDiffer DEF IInv
  <2> QED
    BY <2>1, <2>3
<1> QED
  BY <1>1, <1>3 DEF OneFindingPerSecret, Distinct, MarkOf, TypedFirst

LEMMA KeywordsHold == IInv => KeywordsAreFoundLeftToRight
<1> SUFFICES ASSUME IInv, Done({"keywords"}), NEW x \in Range(Visited),
                    NEW keyword \in Range(detector.values), keyword # <<>>
             PROVE  LET folded(s) == Folded(s, detector.caseSensitive)
                        size == Len(folded(keyword))
                        starts == {i \in 0 .. (Len(folded(x.chars)) - size) :
                                      SubSeq(folded(x.chars), i + 1, i + size) = folded(keyword)}
                        chosen == {s.start : s \in Range(MatchKeyword(x.chars, keyword,
                                                                      detector.caseSensitive))}
                    IN  /\ chosen \subseteq starts
                        /\ \A i \in starts : \E c \in chosen : c <= i /\ i < c + size
                        /\ \A c, d \in chosen : c < d => c + size <= d
                        /\ \A c \in chosen :
                              \E f \in Range(findings) : f.path = x.path /\ Span(f) = <<c, c + size>>
  BY DEF KeywordsAreFoundLeftToRight
<1> DEFINE cs == detector.caseSensitive
           hay == Folded(x.chars, cs)
           needle == Folded(keyword, cs)
           spans == MatchKeyword(x.chars, keyword, cs)
           starts == Occurrences(hay, needle, 0)
           chosen == {s.start : s \in Range(spans)}
           size == Len(needle)
<1>1. detector.kind = "keywords" /\ pc = "done" /\ Given
  BY DEF Done, IInv
<1>2. detector.values \in Seq(Text) /\ keyword \in Text
  BY <1>1, GivenIs DEF DetectorConfig, Range
<1>3. x \in Range(Strings(request)) /\ x.chars \in Text
  BY <1>1, StringsAre DEF Visited
<1>4. Chooses(spans, hay, needle, 0)
  BY <1>2, <1>3, KeywordChosen
<1> HIDE DEF spans, hay, needle, starts
<1>5. \A i : At(i, needle).start = i /\ Span(At(i, needle)) = <<i, i + size>>
  BY DEF At, Span
<1>6. \A s \in Range(spans) : s.start \in starts /\ s = At(s.start, needle)
  BY <1>4, <1>5 DEF Chooses, starts
<1>7. chosen \subseteq starts
  BY <1>6
<1>8. \A i \in starts : \E c \in chosen : c <= i /\ i < c + size
  BY <1>4 DEF Chooses, starts
<1>9. \A c, d \in chosen : c < d => c + size <= d
  BY <1>4 DEF Chooses
<1>10. ASSUME NEW c \in chosen
       PROVE  \E f \in Range(findings) : f.path = x.path /\ Span(f) = <<c, c + size>>
  <2>1. PICK s \in Range(spans) : s.start = c
    OBVIOUS
  <2>2. Span(s) = <<c, c + size>>
    BY <1>5, <1>6, <2>1
  <2>3. s \in Found(x.chars)
    <3>1. PICK k \in DOMAIN detector.values : detector.values[k] = keyword
      BY DEF Range
    <3>2. Range(MatchKeyword(x.chars, keyword, cs)) \subseteq Range(TextSpans(x.chars))
      BY <1>1, <1>3, <3>1, TextSpansAre
    <3> QED
      BY <1>1, <3>2 DEF Found, spans
  <2>4. <<c, c + size>> \in {Span(f) : f \in {g \in Range(findings) : g.path = x.path}}
    <3>1. {Span(f) : f \in {g \in Range(findings) : g.path = x.path}} = {Span(t) : t \in Found(x.chars)}
      BY <1>1, SpansBelong DEF SpansBelongToTheirString, Done
    <3> QED
      BY <2>2, <2>3, <3>1
  <2> QED
    BY <2>4
<1> QED
  BY <1>7, <1>8, <1>9, <1>10 DEF starts, Occurrences, hay, needle, spans

LEMMA SchemaHolds == IInv => SchemaPathsLocateTheirValue
<1> SUFFICES ASSUME IInv, Done({"jsonSchema"}) PROVE SchemaPathsLocateTheirValue
  BY DEF SchemaPathsLocateTheirValue
<1> DEFINE errors == request.errors
           S == Leaves(errors)
           list == SetToSeq(S)
           m == Cardinality(S)
           at(l) == [location |-> l, path |-> PointerJSONPath(detector.target, l)]
<1>1. findings = [i \in DOMAIN list |-> at(errors[list[i]])]
  BY DEF IInv, Done, ReportedAtOnce, SchemaFindings
<1>2. IsFiniteSet(DOMAIN errors) /\ \A p \in DOMAIN errors : errors[p] \in Location
  BY GivenIs DEF IInv, EvaluationRequest
<1>3. S \subseteq DOMAIN errors /\ IsFiniteSet(S)
  <2>1. S \subseteq DOMAIN errors
    BY DEF Leaves
  <2> QED
    BY <1>2, <2>1, FS_Subset
<1>4. list \in Seq(S) /\ Len(list) = m /\ Range(list) = S /\ m \in Nat
  BY <1>3, SetToSeqIs, FS_CardinalityType
<1>5. DOMAIN list = 1 .. m /\ \A i \in 1 .. m : list[i] \in S
  BY <1>4
<1>6. \A p : p \in S <=> \E i \in 1 .. m : p = list[i]
  BY <1>4, <1>5 DEF Range
<1>7. \A l : at(l).location = l /\ at(l).path = PointerJSONPath(detector.target, l)
  OBVIOUS
<1> HIDE DEF list, S, m, errors, at
<1>8. /\ DOMAIN findings = 1 .. m /\ \A i \in 1 .. m : findings[i] = at(errors[list[i]])
      /\ findings = [i \in 1 .. m |-> findings[i]]
  BY <1>1, <1>5
<1>9. Len(findings) = m
  BY <1>4, <1>8
<1>10. \A f : f \in Range(findings) <=> \E p \in S : f = at(errors[p])
  <2>1. \A f : f \in Range(findings) <=> \E i \in 1 .. m : f = findings[i]
    BY <1>8 DEF Range
  <2> QED
    BY <1>6, <1>8, <2>1
<1>11. {f.location : f \in Range(findings)} = {errors[p] : p \in S}
  BY <1>7, <1>10
<1>12. ASSUME NEW f \in Range(findings), \A k \in DOMAIN f.location : ~Ambiguous(f.location[k])
       PROVE  f.path = Path(detector.target, f.location)
  <2>1. PICK p \in S : f = at(errors[p])
    BY <1>10
  <2> DEFINE l == errors[p]
  <2>2. l \in Location /\ f.location = l /\ f.path = PointerJSONPath(detector.target, l)
    BY <1>2, <1>3, <1>7, <2>1
  <2> HIDE DEF l
  <2>3. \A k \in DOMAIN l : ~IsIndex(l[k]) => l[k].key # <<>> /\ ~StartsWithNumber(l[k].key)
    BY <1>12, <2>2 DEF Ambiguous
  <2> QED
    BY <2>2, <2>3, PointersAreRead
<1> QED
  BY <1>9, <1>11, <1>12 DEF SchemaPathsLocateTheirValue, S, m, errors

\* What a detector that is done has found in a string is reported under the path
\* of that string, and nothing else is, for any request and any configuration
\* (evaluator.go:416-445, 501, 539-570).
THEOREM SpansStayWithTheirString == Spec => []SpansBelongToTheirString
  BY InvariantHolds, SpansBelong, PTL

\* A secret is reported once, with the type of the first pattern of the bundle
\* that matches it, however many match and in whatever order they are
\* configured (evaluator.go:416-427).
THEOREM SecretsAreReportedOnce == Spec => []OneFindingPerSecret
  BY InvariantHolds, SecretsAreOne, PTL

\* MatchKeyword finds what a reader going from left to right meets, and the
\* detector reports each (resolver.go:256-275).
THEOREM KeywordsAreReported == Spec => []KeywordsAreFoundLeftToRight
  BY InvariantHolds, KeywordsHold, PTL

\* Each limit is reported exactly when what it bounds exceeds it, and each
\* attachment whose types are not allowed is (evaluator.go:305-341, 584-604).
THEOREM LimitsAreReported == Spec => []LimitsAreExact
<1>1. IInv => LimitsAreExact
  BY LimitsHold DEF IInv, ReportedAtOnce
<1> QED
  BY <1>1, InvariantHolds, PTL

\* A denied value is reported as denied, a value missing from a list of allowed
\* ones as not allowed, and nothing else is (evaluator.go:345-363, 606-672).
THEOREM ListsAreReported == Spec => []ListsAreRespected
<1>1. IInv => ListsAreRespected
  BY ListsHold DEF IInv, ReportedAtOnce
<1> QED
  BY <1>1, InvariantHolds, PTL

\* Each error of the validator is reported once, under the path the other
\* detectors give the value it is about, unless a key on the way is empty or
\* begins with a number (evaluator.go:374-379, 707-721).
THEOREM SchemaErrorsAreReported == Spec => []SchemaPathsLocateTheirValue
<1>1. IInv => SchemaPathsLocateTheirValue
  BY SchemaHolds
<1> QED
  BY <1>1, InvariantHolds, PTL
=============================================================================
