---------------------------- MODULE ContentProofs ----------------------------
(***************************************************************************)
(* Theorems about Content: that a path names one place, and a pointer leads *)
(* back to it.  What they need of numbers, recursive functions and          *)
(* sequences comes first; induction over data is by the least number for    *)
(* which a statement would fail.                                            *)
(***************************************************************************)
EXTENDS Content, SequenceTheorems, FiniteSetTheorems, WellFoundedInduction, TLAPS

-----------------------------------------------------------------------------
(* Numbers and recursive functions. *)

LEMMA LeastNumber ==
    ASSUME NEW S \in SUBSET Nat, S # {}
    PROVE  \E n \in S : \A m \in S : n <= m
<1> DEFINE R == OpToRel(<, Nat)
<1>1. IsWellFoundedOn(R, Nat)
  BY NatLessThanWellFounded
<1>2. \A x, y \in Nat : x < y => <<x, y>> \in R
  BY DEF OpToRel
<1> HIDE DEF R
<1>3. PICK n \in S : \A m \in S : ~(<<m, n>> \in R)
  BY <1>1, WFMin, Zenon
<1>4. ASSUME NEW m \in S PROVE n <= m
  <2>1. m \in Nat /\ n \in Nat
    OBVIOUS
  <2>2. ~(m < n)
    BY <1>2, <1>3, <2>1
  <2> QED
    BY <2>1, <2>2
<1> QED
  BY <1>4

\* g satisfies the equation up to n: each value comes, by G, from those before it.
Before(g, i) == [j \in 0 .. (i - 1) |-> g[j]]
Follows(A, G, n, g) ==
    g \in [0 .. n -> A] /\ \A i \in 0 .. n : g[i] = G[i][Before(g, i)]

LEMMA FollowsOnce ==
    ASSUME NEW A, NEW G, NEW n \in Nat, NEW m \in Nat, NEW g, NEW h,
           Follows(A, G, n, g), Follows(A, G, m, h)
    PROVE  \A i \in 0 .. n : i <= m => g[i] = h[i]
<1> DEFINE S == {i \in 0 .. n : i <= m /\ g[i] # h[i]}
<1> SUFFICES ASSUME S # {} PROVE FALSE
  OBVIOUS
<1>1. S \in SUBSET Nat
  OBVIOUS
<1>2. PICK i \in S : \A j \in S : i <= j
  BY <1>1, LeastNumber
<1>3. \A j \in 0 .. (i - 1) : g[j] = h[j]
  <2> SUFFICES ASSUME NEW j \in 0 .. (i - 1) PROVE g[j] = h[j]
    OBVIOUS
  <2>1. j \in 0 .. n /\ j <= m /\ ~(i <= j)
    OBVIOUS
  <2> QED
    BY <1>2, <2>1
<1>4. Before(g, i) = Before(h, i)
  BY <1>3 DEF Before
<1>5. g[i] = G[i][Before(g, i)] /\ h[i] = G[i][Before(h, i)]
  BY DEF Follows
<1> QED
  BY <1>4, <1>5

Continues(A, G) == \A i \in Nat : G[i] \in [[0 .. (i - 1) -> A] -> A]
FollowsAll(A, G, f) == f \in [Nat -> A] /\ \A i \in Nat : f[i] = G[i][Before(f, i)]

\* A function on the numbers that is defined by its earlier values exists.
LEMMA Recursion ==
    ASSUME NEW A, NEW G, Continues(A, G)
    PROVE  \E f : FollowsAll(A, G, f)
<1> DEFINE h(n) == CHOOSE g : Follows(A, G, n, g)
           f == [i \in Nat |-> h(i)[i]]
           Bad == {n \in Nat : ~Follows(A, G, n, h(n))}
<1>1. ASSUME NEW n \in Nat, \A j \in 0 .. (n - 1) : Follows(A, G, j, h(j))
      PROVE  \A i \in 0 .. (n - 1) : /\ f[i] \in A
                                     /\ f[i] = G[i][Before(f, i)]
  <2> SUFFICES ASSUME NEW i \in 0 .. (n - 1)
               PROVE  f[i] \in A /\ f[i] = G[i][Before(f, i)]
    OBVIOUS
  <2>1. i \in Nat /\ f[i] = h(i)[i] /\ Follows(A, G, i, h(i))
    BY <1>1
  <2>2. ASSUME NEW j \in 0 .. (i - 1) PROVE h(i)[j] = f[j]
    <3>1. j \in Nat /\ j \in 0 .. (n - 1) /\ f[j] = h(j)[j]
      BY <2>1
    <3>2. Follows(A, G, j, h(j))
      BY <1>1, <3>1
    <3>3. \A k \in 0 .. j : k <= i => h(j)[k] = h(i)[k]
      <4> HIDE DEF h
      <4> QED
        BY <2>1, <3>1, <3>2, FollowsOnce
    <3> QED
      BY <2>1, <3>1, <3>3
  <2>4. i \in 0 .. i
    BY <2>1
  <2> HIDE DEF h, f
  <2>3. Before(h(i), i) = Before(f, i)
    BY <2>2 DEF Before
  <2> QED
    BY <2>1, <2>3, <2>4 DEF Follows
<1>2. Bad = {}
  <2> SUFFICES ASSUME Bad # {} PROVE FALSE
    OBVIOUS
  <2>1. PICK n \in Bad : \A m \in Bad : n <= m
    <3>1. Bad \in SUBSET Nat
      OBVIOUS
    <3> HIDE DEF Bad
    <3> QED
      BY <3>1, LeastNumber
  <2>2. n \in Nat /\ \A j \in 0 .. (n - 1) : Follows(A, G, j, h(j))
    <3>1. n \in Nat
      OBVIOUS
    <3>2. ASSUME NEW j \in 0 .. (n - 1) PROVE Follows(A, G, j, h(j))
      <4>1. j \in Nat /\ ~(n <= j)
        BY <3>1
      <4> QED
        BY <2>1, <4>1
    <3> QED
      BY <3>1, <3>2
  <2> DEFINE p == Before(f, n)
             g == [j \in 0 .. n |-> IF j < n THEN f[j] ELSE G[n][p]]
  <2>3. \A i \in 0 .. (n - 1) : f[i] \in A /\ f[i] = G[i][Before(f, i)]
    BY <1>1, <2>2
  <2>4. p \in [0 .. (n - 1) -> A]
    BY <2>3 DEF Before
  <2>5. G[n][p] \in A
    BY <2>2, <2>4 DEF Continues
  <2> HIDE DEF f
  <2>6. \A i \in 0 .. n : Before(g, i) = Before(f, i)
    <3> SUFFICES ASSUME NEW i \in 0 .. n, NEW j \in 0 .. (i - 1) PROVE g[j] = f[j]
      BY DEF Before
    <3>1. j \in 0 .. n /\ j < n
      BY <2>2
    <3> QED
      BY <3>1
  <2>7. \A i \in 0 .. n : i \in 0 .. (n - 1) \/ (i = n /\ ~(i < n))
    BY <2>2
  <2>8. \A i \in 0 .. (n - 1) : i < n
    BY <2>2
  <2>9. Follows(A, G, n, g)
    <3>1. g \in [0 .. n -> A]
      BY <2>3, <2>5, <2>7, <2>8
    <3>2. ASSUME NEW i \in 0 .. n PROVE g[i] = G[i][Before(g, i)]
      <4>1. CASE i \in 0 .. (n - 1)
        <5>1. g[i] = f[i]
          BY <2>8, <4>1
        <5> QED
          BY <2>3, <2>6, <4>1, <5>1
      <4>2. CASE i = n /\ ~(i < n)
        <5>1. g[i] = G[n][p]
          BY <4>2
        <5> QED
          BY <2>6, <4>2, <5>1
      <4> QED
        BY <2>7, <4>1, <4>2
    <3> HIDE DEF g
    <3> QED
      BY <3>1, <3>2 DEF Follows
  <2>10. Follows(A, G, n, h(n))
    BY <2>9
  <2> QED
    BY <2>10
<1>3. ASSUME NEW i \in Nat PROVE f[i] \in A /\ f[i] = G[i][Before(f, i)]
  <2>1. i + 1 \in Nat /\ i \in 0 .. ((i + 1) - 1)
    OBVIOUS
  <2>2. \A j \in 0 .. ((i + 1) - 1) : Follows(A, G, j, h(j))
    BY <1>2
  <2> HIDE DEF f, h
  <2> QED
    BY <1>1, <2>1, <2>2
<1>4. f \in [Nat -> A]
  BY <1>3
<1> QED
  <2> HIDE DEF f
  <2>1. FollowsAll(A, G, f)
    BY <1>3, <1>4 DEF FollowsAll
  <2> QED
    BY <2>1

Iterates(A, a, F, m, g) ==
    /\ g \in [0 .. m -> A]
    /\ g[0] = a
    /\ \A i \in 1 .. m : g[i] = F[i][g[i - 1]]

\* What m steps make of a value.
LEMMA Iteration ==
    ASSUME NEW A, NEW a \in A, NEW m \in Nat, NEW F \in [1 .. m -> [A -> A]]
    PROVE  \E g : Iterates(A, a, F, m, g)
<1> DEFINE G == [i \in Nat |-> [p \in [0 .. (i - 1) -> A] |->
                   IF i \in 1 .. m THEN F[i][p[i - 1]] ELSE a]]
<1>1. Continues(A, G)
  <2> SUFFICES ASSUME NEW i \in Nat, NEW p \in [0 .. (i - 1) -> A], i \in 1 .. m
               PROVE  F[i][p[i - 1]] \in A
    BY DEF Continues
  <2>1. i - 1 \in 0 .. (i - 1)
    OBVIOUS
  <2> QED
    BY <2>1
<1>2. PICK h : FollowsAll(A, G, h)
  <2> HIDE DEF G
  <2> QED
    BY <1>1, Recursion
<1>3. ASSUME NEW i \in Nat
      PROVE  h[i] = IF i \in 1 .. m THEN F[i][h[i - 1]] ELSE a
  <2>1. Before(h, i) \in [0 .. (i - 1) -> A] /\ h[i] = G[i][Before(h, i)]
    <3> HIDE DEF G
    <3>1. h \in [Nat -> A] /\ h[i] = G[i][Before(h, i)]
      BY <1>2 DEF FollowsAll
    <3> QED
      BY <3>1 DEF Before
  <2>2. i \in 1 .. m => i - 1 \in 0 .. (i - 1)
    OBVIOUS
  <2>3. i \in 1 .. m => Before(h, i)[i - 1] = h[i - 1]
    BY <2>2 DEF Before
  <2>4. G[i][Before(h, i)] = IF i \in 1 .. m THEN F[i][Before(h, i)[i - 1]] ELSE a
    BY <2>1
  <2> HIDE DEF G
  <2> QED
    BY <2>1, <2>3, <2>4
<1> DEFINE g == [i \in 0 .. m |-> h[i]]
<1>4. g \in [0 .. m -> A]
  BY <1>2 DEF FollowsAll
<1>5. g[0] = a
  <2>1. 0 \in 0 .. m /\ ~(0 \in 1 .. m)
    OBVIOUS
  <2> QED
    BY <1>3, <2>1
<1>6. ASSUME NEW i \in 1 .. m PROVE g[i] = F[i][g[i - 1]]
  <2>1. i \in Nat /\ i \in 0 .. m /\ i - 1 \in 0 .. m
    OBVIOUS
  <2> QED
    BY <1>3, <2>1
<1> HIDE DEF g
<1>7. Iterates(A, a, F, m, g)
  BY <1>4, <1>5, <1>6 DEF Iterates
<1> QED
  BY <1>7

LEMMA UpTo ==
    ASSUME NEW n \in Nat, NEW S, 0 \in S, \A i \in 1 .. n : i - 1 \in S => i \in S
    PROVE  \A i \in 0 .. n : i \in S
<1> DEFINE Bad == {i \in 0 .. n : i \notin S}
<1> SUFFICES ASSUME Bad # {} PROVE FALSE
  OBVIOUS
<1>1. Bad \in SUBSET Nat
  OBVIOUS
<1>2. PICK i \in Bad : \A j \in Bad : i <= j
  <2> HIDE DEF Bad
  <2> QED
    BY <1>1, LeastNumber
<1>3. i \in 1 .. n /\ i - 1 \in 0 .. n /\ ~(i <= i - 1)
  OBVIOUS
<1>4. i - 1 \in S
  BY <1>2, <1>3
<1> QED
  BY <1>3, <1>4

-----------------------------------------------------------------------------
(* Lists put together from lists. *)

\* f[i] is what the first i members of ss make.
Unfolds(S, ss, f) ==
    /\ f \in [0 .. Len(ss) -> Seq(S)]
    /\ f[0] = <<>>
    /\ \A i \in 1 .. Len(ss) : f[i] = f[i - 1] \o ss[i]

LEMMA UnfoldingExists ==
    ASSUME NEW S, NEW ss \in Seq(Seq(S))
    PROVE  \E f : Unfolds(S, ss, f)
<1> DEFINE A == Seq(S)
           m == Len(ss)
           F == [i \in 1 .. m |-> [p \in A |-> p \o ss[i]]]
<1>1. m \in Nat /\ <<>> \in A /\ \A i \in 1 .. m : ss[i] \in A
  OBVIOUS
<1>2. \A p, s \in A : p \o s \in A
  BY ConcatProperties
<1>3. F \in [1 .. m -> [A -> A]]
  <2> HIDE DEF A
  <2> QED
    BY <1>1, <1>2
<1>4. PICK f : Iterates(A, <<>>, F, m, f)
  <2> HIDE DEF A, F, m
  <2> QED
    BY <1>1, <1>3, Iteration
<1>5. f \in [0 .. m -> A] /\ f[0] = <<>> /\ \A i \in 1 .. m : f[i] = F[i][f[i - 1]]
  BY <1>4 DEF Iterates
<1>6. \A i \in 1 .. m : i - 1 \in 0 .. m
  OBVIOUS
<1>7. \A i \in 1 .. m : f[i] = f[i - 1] \o ss[i]
  <2> HIDE DEF A, m
  <2> QED
    BY <1>5, <1>6
<1> QED
  BY <1>5, <1>7 DEF Unfolds

\* The equation of the function FlattenSeq chooses.
Flattens(ss, g) ==
    g = [i \in 1 .. Len(ss) |-> IF i = 1 THEN ss[i] ELSE g[i - 1] \o ss[i]]

LEMMA FlattensExists ==
    ASSUME NEW S, NEW ss \in Seq(Seq(S)), NEW f, Unfolds(S, ss, f)
    PROVE  \E g : Flattens(ss, g)
<1> DEFINE g == [i \in 1 .. Len(ss) |-> f[i]]
<1>1. ASSUME NEW i \in 1 .. Len(ss)
      PROVE  g[i] = IF i = 1 THEN ss[i] ELSE g[i - 1] \o ss[i]
  <2>0. ss[i] \in Seq(S)
    OBVIOUS
  <2>1. f[i] = f[i - 1] \o ss[i] /\ f[0] = <<>>
    BY DEF Unfolds
  <2>2. CASE i = 1
    <3>0. i - 1 = 0
      BY <2>2
    <3>1. f[i] = <<>> \o ss[i]
      BY <2>1, <3>0
    <3>2. <<>> \o ss[i] = ss[i]
      BY <2>0, ConcatEmptySeq, Zenon
    <3> QED
      BY <2>2, <3>1, <3>2
  <2>3. CASE i # 1
    <3>1. i - 1 \in 1 .. Len(ss)
      BY <2>3
    <3> QED
      BY <2>1, <2>3, <3>1
  <2> QED
    BY <2>2, <2>3
<1>2. g = [i \in 1 .. Len(ss) |-> g[i]]
  OBVIOUS
<1> HIDE DEF g
<1>3. Flattens(ss, g)
  BY <1>1, <1>2 DEF Flattens
<1> QED
  BY <1>3

LEMMA FlattenUnfolds ==
    ASSUME NEW S, NEW ss \in Seq(Seq(S)), NEW f, Unfolds(S, ss, f)
    PROVE  FlattenSeq(ss) = f[Len(ss)]
<1>1. CASE Len(ss) = 0
  <2>1. ss = <<>> /\ f[0] = <<>>
    BY <1>1 DEF Unfolds
  <2> QED
    BY <1>1, <2>1 DEF FlattenSeq
<1>2. CASE Len(ss) # 0
  <2> DEFINE flat == CHOOSE g : Flattens(ss, g)
             Same == {i \in 0 .. Len(ss) : i > 0 => flat[i] = f[i]}
  <2>1. FlattenSeq(ss) = flat[Len(ss)]
    BY <1>2, Zenon DEF FlattenSeq, Flattens
  <2>2. Flattens(ss, flat)
    BY FlattensExists
  <2> HIDE DEF flat
  <2>3. 0 \in Same
    OBVIOUS
  <2>4. \A i \in 1 .. Len(ss) : i - 1 \in Same => i \in Same
    <3> SUFFICES ASSUME NEW i \in 1 .. Len(ss), i - 1 \in Same PROVE flat[i] = f[i]
      OBVIOUS
    <3>1. flat[i] = IF i = 1 THEN ss[i] ELSE flat[i - 1] \o ss[i]
      BY <2>2 DEF Flattens
    <3>2. f[i] = f[i - 1] \o ss[i] /\ f[0] = <<>>
      BY DEF Unfolds
    <3>3. ss[i] \in Seq(S)
      OBVIOUS
    <3>4. <<>> \o ss[i] = ss[i]
      BY <3>3, ConcatEmptySeq, Zenon
    <3>5. CASE i = 1
      <4>1. i - 1 = 0
        BY <3>5
      <4> QED
        BY <3>1, <3>2, <3>4, <3>5, <4>1
    <3>6. CASE i # 1
      <4>1. i - 1 > 0 /\ flat[i - 1] = f[i - 1]
        BY <3>6
      <4> QED
        BY <3>1, <3>2, <3>6, <4>1
    <3> QED
      BY <3>5, <3>6
  <2>5. \A i \in 0 .. Len(ss) : i \in Same
    <3> HIDE DEF Same
    <3>1. Len(ss) \in Nat
      OBVIOUS
    <3> QED
      BY <2>3, <2>4, <3>1, UpTo, Zenon
  <2>6. Len(ss) \in 0 .. Len(ss) /\ Len(ss) > 0
    BY <1>2
  <2> QED
    BY <2>1, <2>5, <2>6
<1> QED
  BY <1>1, <1>2

BeginAlike(ss, tt, k) ==
    /\ k \in Nat /\ k <= Len(ss) /\ k <= Len(tt)
    /\ \A i \in 1 .. k : ss[i] = tt[i]

LEMMA UnfoldingsAgree ==
    ASSUME NEW S, NEW ss \in Seq(Seq(S)), NEW tt \in Seq(Seq(S)), NEW f, NEW g,
           Unfolds(S, ss, f), Unfolds(S, tt, g),
           NEW k, BeginAlike(ss, tt, k)
    PROVE  f[k] = g[k]
<1> USE DEF BeginAlike
<1> DEFINE Same == {i \in 0 .. k : f[i] = g[i]}
<1>1. 0 \in Same
  BY DEF Unfolds
<1>2. \A i \in 1 .. k : i - 1 \in Same => i \in Same
  <2> SUFFICES ASSUME NEW i \in 1 .. k, i - 1 \in Same PROVE f[i] = g[i]
    OBVIOUS
  <2>1. i \in 1 .. Len(ss) /\ i \in 1 .. Len(tt)
    OBVIOUS
  <2> QED
    BY <2>1 DEF Unfolds
<1>3. \A i \in 0 .. k : i \in Same
  <2> HIDE DEF Same
  <2> QED
    BY <1>1, <1>2, UpTo, Zenon
<1> QED
  BY <1>3

LEMMA FlattenType ==
    ASSUME NEW S, NEW ss \in Seq(Seq(S))
    PROVE  FlattenSeq(ss) \in Seq(S)
<1>1. PICK f : Unfolds(S, ss, f)
  BY UnfoldingExists
<1>2. FlattenSeq(ss) = f[Len(ss)]
  BY <1>1, FlattenUnfolds
<1>3. Len(ss) \in 0 .. Len(ss)
  OBVIOUS
<1> QED
  BY <1>1, <1>2, <1>3 DEF Unfolds

LEMMA FlattenEmpty == FlattenSeq(<<>>) = <<>>
  BY DEF FlattenSeq

LEMMA FlattenAppend ==
    ASSUME NEW S, NEW ss \in Seq(Seq(S)), NEW s \in Seq(S)
    PROVE  FlattenSeq(Append(ss, s)) = FlattenSeq(ss) \o s
<1> DEFINE tt == Append(ss, s)
<1>1. tt \in Seq(Seq(S)) /\ Len(tt) = Len(ss) + 1 /\ tt[Len(tt)] = s
  OBVIOUS
<1>2. \A i \in 1 .. Len(ss) : ss[i] = tt[i]
  OBVIOUS
<1>3. PICK f : Unfolds(S, ss, f)
  BY UnfoldingExists
<1> HIDE DEF tt
<1>4. PICK g : Unfolds(S, tt, g)
  BY <1>1, UnfoldingExists
<1>5. FlattenSeq(ss) = f[Len(ss)]
  BY <1>3, FlattenUnfolds
<1>6. FlattenSeq(tt) = g[Len(tt)]
  BY <1>1, <1>4, FlattenUnfolds
<1>7. f[Len(ss)] = g[Len(ss)]
  <2>1. BeginAlike(ss, tt, Len(ss))
    BY <1>1, <1>2 DEF BeginAlike
  <2> QED
    BY <1>1, <1>3, <1>4, <2>1, UnfoldingsAgree
<1>8. Len(tt) \in 1 .. Len(tt) /\ Len(tt) - 1 = Len(ss)
  BY <1>1
<1>9. g[Len(tt)] = g[Len(ss)] \o s
  BY <1>1, <1>4, <1>8 DEF Unfolds
<1> QED
  BY <1>5, <1>6, <1>7, <1>9 DEF tt

\* Induction over the sequences on a set, by Append.
LEMMA BuiltByAppend ==
    ASSUME NEW A, NEW T, <<>> \in T,
           \A s \in Seq(A), e \in A : s \in T => Append(s, e) \in T
    PROVE  \A s \in Seq(A) : s \in T
<1> SUFFICES ASSUME NEW s \in Seq(A) PROVE s \in T
  OBVIOUS
<1> DEFINE Good == {k \in 0 .. Len(s) : SubSeq(s, 1, k) \in T}
<1>1. 0 \in Good
  <2>1. SubSeq(s, 1, 0) = <<>> /\ 0 \in 0 .. Len(s)
    OBVIOUS
  <2> QED
    BY <2>1, Zenon
<1>2. \A k \in 1 .. Len(s) : k - 1 \in Good => k \in Good
  <2> SUFFICES ASSUME NEW k \in 1 .. Len(s), k - 1 \in Good PROVE SubSeq(s, 1, k) \in T
    OBVIOUS
  <2>1. SubSeq(s, 1, k) = Append(SubSeq(s, 1, k - 1), s[k])
    OBVIOUS
  <2>2. SubSeq(s, 1, k - 1) \in Seq(A) /\ s[k] \in A
    OBVIOUS
  <2> QED
    BY <2>1, <2>2
<1>3. \A k \in 0 .. Len(s) : k \in Good
  <2> HIDE DEF Good
  <2>1. Len(s) \in Nat
    OBVIOUS
  <2> QED
    BY <1>1, <1>2, <2>1, UpTo, Zenon
<1>4. SubSeq(s, 1, Len(s)) = s /\ Len(s) \in 0 .. Len(s)
  BY SubSeqFull
<1> QED
  BY <1>3, <1>4

LEMMA FlattenConcat ==
    ASSUME NEW S, NEW ss \in Seq(Seq(S))
    PROVE  \A tt \in Seq(Seq(S)) : FlattenSeq(ss \o tt) = FlattenSeq(ss) \o FlattenSeq(tt)
<1> DEFINE T == {tt \in Seq(Seq(S)) : FlattenSeq(ss \o tt) = FlattenSeq(ss) \o FlattenSeq(tt)}
<1>1. <<>> \in T
  <2>1. ss \o <<>> = ss /\ <<>> \in Seq(Seq(S))
    OBVIOUS
  <2>2. FlattenSeq(ss) \in Seq(S)
    BY FlattenType
  <2>3. FlattenSeq(ss) \o <<>> = FlattenSeq(ss)
    BY <2>2
  <2> QED
    BY <2>1, <2>3, FlattenEmpty
<1>2. \A tt \in Seq(Seq(S)), s \in Seq(S) : tt \in T => Append(tt, s) \in T
  <2> SUFFICES ASSUME NEW tt \in Seq(Seq(S)), NEW s \in Seq(S), tt \in T
               PROVE  FlattenSeq(ss \o Append(tt, s)) = FlattenSeq(ss) \o FlattenSeq(Append(tt, s))
    BY AppendProperties
  <2>1. ss \o Append(tt, s) = Append(ss \o tt, s) /\ ss \o tt \in Seq(Seq(S))
    OBVIOUS
  <2>2. FlattenSeq(Append(ss \o tt, s)) = FlattenSeq(ss \o tt) \o s
    BY <2>1, FlattenAppend
  <2>3. FlattenSeq(Append(tt, s)) = FlattenSeq(tt) \o s
    BY FlattenAppend
  <2>4. FlattenSeq(ss) \in Seq(S) /\ FlattenSeq(tt) \in Seq(S)
    BY FlattenType
  <2>5. (FlattenSeq(ss) \o FlattenSeq(tt)) \o s = FlattenSeq(ss) \o (FlattenSeq(tt) \o s)
    BY <2>4, ConcatAssociative
  <2> QED
    BY <2>1, <2>2, <2>3, <2>5
<1>3. \A tt \in Seq(Seq(S)) : tt \in T
  <2> HIDE DEF T
  <2> QED
    BY <1>1, <1>2, BuiltByAppend, Zenon
<1> QED
  BY <1>3

LEMMA FlattenOne ==
    ASSUME NEW S, NEW s \in Seq(S)
    PROVE  FlattenSeq(<<s>>) = s
<1>1. <<s>> = Append(<<>>, s) /\ <<>> \in Seq(Seq(S))
  OBVIOUS
<1>2. FlattenSeq(<<s>>) = <<>> \o s
  BY <1>1, FlattenAppend, FlattenEmpty
<1> QED
  BY <1>2

\* The members of the list are those of the lists it is put together from.
LEMMA FlattenMembers ==
    ASSUME NEW S, NEW ss \in Seq(Seq(S))
    PROVE  Range(FlattenSeq(ss)) = UNION {Range(ss[i]) : i \in DOMAIN ss}
<1> DEFINE T == {tt \in Seq(Seq(S)) :
                   Range(FlattenSeq(tt)) = UNION {Range(tt[i]) : i \in DOMAIN tt}}
<1>1. <<>> \in T
  BY FlattenEmpty DEF Range
<1>2. \A tt \in Seq(Seq(S)), s \in Seq(S) : tt \in T => Append(tt, s) \in T
  <2> SUFFICES ASSUME NEW tt \in Seq(Seq(S)), NEW s \in Seq(S), tt \in T
               PROVE  Range(FlattenSeq(Append(tt, s)))
                        = UNION {Range(Append(tt, s)[i]) : i \in DOMAIN Append(tt, s)}
    BY AppendProperties
  <2>1. FlattenSeq(tt) \in Seq(S)
    BY FlattenType
  <2>2. Range(FlattenSeq(tt) \o s) = Range(FlattenSeq(tt)) \cup Range(s)
    BY <2>1, RangeConcatenation
  <2>3. FlattenSeq(Append(tt, s)) = FlattenSeq(tt) \o s
    BY FlattenAppend
  <2>4. DOMAIN Append(tt, s) = DOMAIN tt \cup {Len(tt) + 1}
    OBVIOUS
  <2>5. Append(tt, s)[Len(tt) + 1] = s /\ \A i \in DOMAIN tt : Append(tt, s)[i] = tt[i]
    OBVIOUS
  <2> DEFINE R(i) == Range(Append(tt, s)[i])
  <2>6. R(Len(tt) + 1) = Range(s) /\ \A i \in DOMAIN tt : R(i) = Range(tt[i])
    BY <2>5
  <2>7. UNION {R(i) : i \in DOMAIN Append(tt, s)} = (UNION {Range(tt[i]) : i \in DOMAIN tt}) \cup Range(s)
    <3> HIDE DEF R
    <3> QED
      BY <2>4, <2>6, Zenon
  <2> QED
    BY <2>2, <2>3, <2>7
<1>3. \A tt \in Seq(Seq(S)) : tt \in T
  <2> HIDE DEF T
  <2> QED
    BY <1>1, <1>2, BuiltByAppend, Zenon
<1> QED
  BY <1>3

\* Induction over the sequences on a set, by the first member.
LEMMA BuiltByCons ==
    ASSUME NEW A, NEW T, <<>> \in T,
           \A s \in Seq(A), e \in A : s \in T => <<e>> \o s \in T
    PROVE  \A s \in Seq(A) : s \in T
<1> SUFFICES ASSUME NEW s \in Seq(A) PROVE s \in T
  OBVIOUS
<1> DEFINE n == Len(s)
           Good == {k \in 0 .. n : SubSeq(s, n - k + 1, n) \in T}
<1>1. 0 \in Good
  <2>1. SubSeq(s, n + 1, n) = <<>> /\ 0 \in 0 .. n /\ n - 0 + 1 = n + 1
    OBVIOUS
  <2> QED
    BY <2>1, Zenon
<1>2. \A k \in 1 .. n : k - 1 \in Good => k \in Good
  <2> SUFFICES ASSUME NEW k \in 1 .. n, k - 1 \in Good PROVE SubSeq(s, n - k + 1, n) \in T
    OBVIOUS
  <2> DEFINE m == n - k + 1
  <2>1. m \in 1 .. n /\ n \in m .. n /\ n - (k - 1) + 1 = m + 1
    OBVIOUS
  <2>2. SubSeq(s, m, n) = <<s[m]>> \o SubSeq(s, m + 1, n)
    BY <2>1, SubSeqRecursiveFirst
  <2>3. SubSeq(s, m + 1, n) \in T
    BY <2>1
  <2>4. SubSeq(s, m + 1, n) \in Seq(A) /\ s[m] \in A
    BY <2>1
  <2> HIDE DEF m
  <2> QED
    BY <2>2, <2>3, <2>4 DEF m
<1>3. \A k \in 0 .. n : k \in Good
  <2>1. n \in Nat
    OBVIOUS
  <2> HIDE DEF Good, n
  <2> QED
    BY <1>1, <1>2, <2>1, UpTo, Zenon
<1>4. SubSeq(s, n - n + 1, n) = s /\ n \in 0 .. n
  BY SubSeqFull
<1> QED
  BY <1>3, <1>4

-----------------------------------------------------------------------------
(* Sequences written member by member. *)

IsCode(A, B, code) == code \in [A -> Seq(B)]

Written(code, s) == FlattenSeq([i \in DOMAIN s |-> code[s[i]]])

LEMMA WrittenType ==
    ASSUME NEW A, NEW B, NEW code, IsCode(A, B, code), NEW s \in Seq(A)
    PROVE  /\ [i \in DOMAIN s |-> code[s[i]]] \in Seq(Seq(B))
           /\ Written(code, s) \in Seq(B)
<1>1. DOMAIN s = 1 .. Len(s) /\ Len(s) \in Nat /\ \A i \in 1 .. Len(s) : s[i] \in A
  OBVIOUS
<1>2. \A i \in 1 .. Len(s) : code[s[i]] \in Seq(B)
  BY <1>1 DEF IsCode
<1>3. [i \in DOMAIN s |-> code[s[i]]] \in Seq(Seq(B))
  BY <1>1, <1>2, IsASeq
<1> QED
  BY <1>3, FlattenType DEF Written

LEMMA WrittenEmpty == ASSUME NEW code PROVE Written(code, <<>>) = <<>>
<1>1. [i \in DOMAIN <<>> |-> code[<<>>[i]]] = <<>>
  OBVIOUS
<1> QED
  BY <1>1, FlattenEmpty DEF Written

LEMMA WrittenOne ==
    ASSUME NEW A, NEW B, NEW code, IsCode(A, B, code), NEW e \in A
    PROVE  Written(code, <<e>>) = code[e]
<1>1. [i \in DOMAIN <<e>> |-> code[<<e>>[i]]] = <<code[e]>>
  OBVIOUS
<1>2. code[e] \in Seq(B)
  BY DEF IsCode
<1> QED
  BY <1>1, <1>2, FlattenOne DEF Written

LEMMA WrittenConcat ==
    ASSUME NEW A, NEW B, NEW code, IsCode(A, B, code), NEW s \in Seq(A), NEW t \in Seq(A)
    PROVE  Written(code, s \o t) = Written(code, s) \o Written(code, t)
<1> DEFINE each(u) == [i \in DOMAIN u |-> code[u[i]]]
<1>1. s \o t \in Seq(A)
  OBVIOUS
<1>4. each(s) \in Seq(Seq(B)) /\ each(t) \in Seq(Seq(B)) /\ each(s \o t) \in Seq(Seq(B))
  BY <1>1, WrittenType, Zenon
<1>2. each(s \o t) = each(s) \o each(t)
  <2>1. Len(each(s)) = Len(s) /\ Len(each(t)) = Len(t) /\ Len(each(s \o t)) = Len(s) + Len(t)
    OBVIOUS
  <2>2. \A i \in 1 .. (Len(s) + Len(t)) : each(s \o t)[i] = (each(s) \o each(t))[i]
    <3> SUFFICES ASSUME NEW i \in 1 .. (Len(s) + Len(t))
                 PROVE  each(s \o t)[i] = (each(s) \o each(t))[i]
      OBVIOUS
    <3>1. each(s \o t)[i] = code[(s \o t)[i]]
      OBVIOUS
    <3>2. CASE i <= Len(s)
      <4>1. (s \o t)[i] = s[i] /\ each(s)[i] = code[s[i]]
        BY <3>2
      <4>2. (each(s) \o each(t))[i] = each(s)[i]
        <5> HIDE DEF each
        <5> QED
          BY <1>4, <2>1, <3>2, ConcatProperties
      <4> QED
        BY <3>1, <4>1, <4>2
    <3>3. CASE ~(i <= Len(s))
      <4>1. (s \o t)[i] = t[i - Len(s)] /\ each(t)[i - Len(s)] = code[t[i - Len(s)]]
        BY <3>3
      <4>2. (each(s) \o each(t))[i] = each(t)[i - Len(s)]
        <5> HIDE DEF each
        <5> QED
          BY <1>4, <2>1, <3>3, ConcatProperties, SMTT(30)
      <4> QED
        BY <3>1, <4>1, <4>2
    <3> QED
      BY <3>2, <3>3
  <2> HIDE DEF each
  <2>3. each(s) \o each(t) \in Seq(Seq(B)) /\ Len(each(s) \o each(t)) = Len(s) + Len(t)
    BY <1>4, <2>1, ConcatProperties
  <2> QED
    BY <1>4, <2>1, <2>2, <2>3, SeqEqual
<1> HIDE DEF each
<1>3. FlattenSeq(each(s \o t)) = FlattenSeq(each(s)) \o FlattenSeq(each(t))
  BY <1>2, <1>4, FlattenConcat
<1> QED
  BY <1>3 DEF Written, each

\* No writing is the beginning of another, if what follows it is in X.
SelfDelimiting(A, B, code, X) ==
    /\ X \subseteq Seq(B)
    /\ \A c \in A, x \in X : code[c] \o x \in X
    /\ \A c, d \in A, x, y \in X : code[c] \o x = code[d] \o y => c = d

LEMMA Associative ==
    ASSUME NEW S, NEW s \in Seq(S), NEW t \in Seq(S), NEW u \in Seq(S)
    PROVE  s \o (t \o u) = (s \o t) \o u /\ t \o u \in Seq(S) /\ s \o t \in Seq(S)
  BY ConcatAssociative, ConcatProperties

WrittenFirst(code, e, s, u) ==
    Written(code, Cons(e, s)) \o u = code[e] \o (Written(code, s) \o u)

LEMMA WrittenCons ==
    ASSUME NEW A, NEW B, NEW code, IsCode(A, B, code), NEW s \in Seq(A), NEW e \in A,
           NEW u \in Seq(B)
    PROVE  WrittenFirst(code, e, s, u)
<1> DEFINE one == <<e>>
           first == code[e]
           rest == Written(code, s)
<1>1. one \in Seq(A)
  OBVIOUS
<1>2. first \in Seq(B) /\ rest \in Seq(B)
  BY WrittenType DEF IsCode
<1>3. Written(code, one) = first
  BY WrittenOne
<1> HIDE DEF one, first, rest
<1>4. Written(code, one \o s) = Written(code, one) \o Written(code, s)
  BY <1>1, WrittenConcat
<1>5. first \o (rest \o u) = (first \o rest) \o u /\ rest \o u \in Seq(B)
  BY <1>2, Associative
<1>6. Written(code, one \o s) \o u = first \o (rest \o u)
  BY <1>3, <1>4, <1>5, Zenon DEF rest
<1> QED
  BY <1>6, Zenon DEF one, first, rest, Cons, WrittenFirst

LEMMA CancelLeft ==
    ASSUME NEW S, NEW s \in Seq(S), NEW t \in Seq(S), NEW u \in Seq(S), s \o t = s \o u
    PROVE  t = u
  BY ConcatSimplifications, Zenon

ReadsBack(A, code, E, s) ==
    \A t \in Seq(A), u, v \in E : Written(code, s) \o u = Written(code, t) \o v => s = t /\ u = v

LEMMA UniquelyRead ==
    ASSUME NEW A, NEW B, NEW code, IsCode(A, B, code), NEW X, NEW E \in SUBSET X,
           SelfDelimiting(A, B, code, X),
           \A c \in A, x \in X : code[c] \o x \notin E
    PROVE  \A s \in Seq(A) : ReadsBack(A, code, E, s)
<1> DEFINE F == {s \in Seq(A) : \A u \in E : Written(code, s) \o u \in X}
           D == {s \in Seq(A) : ReadsBack(A, code, E, s)}
<1>0. \A u \in E : u \in X /\ u \in Seq(B)
  BY DEF SelfDelimiting
<1>1. \A s \in Seq(A), e \in A : Cons(e, s) \in Seq(A)
  BY DEF Cons
<1>2. \A u \in E : Written(code, <<>>) \o u = u
  BY <1>0, WrittenEmpty
<1>3. \A s \in Seq(A) : s \in F
  <2>1. <<>> \in F
    <3>1. <<>> \in Seq(A)
      OBVIOUS
    <3> QED
      BY <1>0, <1>2, <3>1
  <2>2. \A s \in Seq(A), e \in A : s \in F => Cons(e, s) \in F
    <3> SUFFICES ASSUME NEW s \in Seq(A), NEW e \in A, s \in F, NEW u \in E
                 PROVE  Written(code, Cons(e, s)) \o u \in X
      BY <1>1
    <3>1. Written(code, Cons(e, s)) \o u = code[e] \o (Written(code, s) \o u)
      <4>1. WrittenFirst(code, e, s, u)
        BY <1>0, WrittenCons, Zenon
      <4> QED
        BY <4>1 DEF WrittenFirst
    <3> QED
      BY <3>1 DEF SelfDelimiting
  <2> HIDE DEF F
  <2> QED
    BY <2>1, <2>2, BuiltByCons, Zenon DEF Cons
<1>4. \A t \in Seq(A) : t # <<>> => \E d \in A, r \in Seq(A) : t = Cons(d, r)
  <2> SUFFICES ASSUME NEW t \in Seq(A), t # <<>>
               PROVE  t[1] \in A /\ Tail(t) \in Seq(A) /\ t = <<t[1]>> \o Tail(t)
    BY DEF Cons
  <2> QED
    OBVIOUS
<1>5. <<>> \in D
  <2> SUFFICES ASSUME NEW t \in Seq(A), NEW u \in E, NEW v \in E,
                      Written(code, <<>>) \o u = Written(code, t) \o v
               PROVE  <<>> = t /\ u = v
    <3>1. <<>> \in Seq(A)
      OBVIOUS
    <3> QED
      BY <3>1 DEF ReadsBack
  <2>1. CASE t = <<>>
    BY <1>2, <2>1
  <2>2. CASE t # <<>>
    <3>1. PICK d \in A, r \in Seq(A) : t = Cons(d, r)
      BY <1>4, <2>2
    <3>2. Written(code, t) \o v = code[d] \o (Written(code, r) \o v)
      <4>1. WrittenFirst(code, d, r, v)
        BY <1>0, WrittenCons, Zenon
      <4> QED
        BY <3>1, <4>1 DEF WrittenFirst
    <3>3. Written(code, r) \o v \in X
      BY <1>3
    <3> QED
      BY <1>2, <3>2, <3>3
  <2> QED
    BY <2>1, <2>2
<1>6. \A s \in Seq(A), e \in A : s \in D => Cons(e, s) \in D
  <2> SUFFICES ASSUME NEW s \in Seq(A), NEW e \in A, ReadsBack(A, code, E, s),
                      NEW t \in Seq(A), NEW u \in E, NEW v \in E,
                      Written(code, Cons(e, s)) \o u = Written(code, t) \o v
               PROVE  Cons(e, s) = t /\ u = v
    <3>1. \A s \in Seq(A) : s \in D <=> ReadsBack(A, code, E, s)
      OBVIOUS
    <3> HIDE DEF D
    <3>2. SUFFICES ASSUME NEW s \in Seq(A), NEW e \in A, ReadsBack(A, code, E, s)
                   PROVE  ReadsBack(A, code, E, Cons(e, s))
      BY <1>1, <3>1
    <3> QED
      BY <3>2, Zenon DEF ReadsBack
  <2>1. Written(code, Cons(e, s)) \o u = code[e] \o (Written(code, s) \o u)
    <3>1. WrittenFirst(code, e, s, u)
      BY <1>0, WrittenCons, Zenon
    <3> QED
      BY <3>1 DEF WrittenFirst
  <2>2. Written(code, s) \o u \in X
    BY <1>3
  <2>3. CASE t = <<>>
    <3>1. v = code[e] \o (Written(code, s) \o u)
      BY <1>2, <2>1, <2>3
    <3> QED
      BY <2>2, <3>1
  <2>4. CASE t # <<>>
    <3>1. PICK d \in A, r \in Seq(A) : t = Cons(d, r)
      BY <1>4, <2>4
    <3>2. Written(code, t) \o v = code[d] \o (Written(code, r) \o v)
      <4>1. WrittenFirst(code, d, r, v)
        BY <1>0, WrittenCons, Zenon
      <4> QED
        BY <3>1, <4>1 DEF WrittenFirst
    <3>3. Written(code, r) \o v \in X
      BY <1>3
    <3>4. code[e] \o (Written(code, s) \o u) = code[d] \o (Written(code, r) \o v)
      BY <2>1, <3>2
    <3>5. e = d
      BY <2>2, <3>3, <3>4, Zenon DEF SelfDelimiting
    <3>6. Written(code, s) \o u = Written(code, r) \o v
      <4>1. code[e] \in Seq(B) /\ Written(code, s) \o u \in Seq(B) /\ Written(code, r) \o v \in Seq(B)
        BY <1>0, <2>2, <3>3 DEF SelfDelimiting, IsCode
      <4>2. code[e] \o (Written(code, s) \o u) = code[e] \o (Written(code, r) \o v)
        BY <3>4, <3>5
      <4> QED
        BY <4>1, <4>2, CancelLeft, Zenon
    <3>7. s = r /\ u = v
      BY <3>6 DEF ReadsBack
    <3> QED
      BY <3>1, <3>5, <3>7
  <2> QED
    BY <2>3, <2>4
<1>7. \A s \in Seq(A) : s \in D
  <2> HIDE DEF D
  <2> QED
    BY <1>5, <1>6, BuiltByCons, Zenon DEF Cons
<1> QED
  BY <1>7

\* What a sequence on W is followed by shows where it ends.
EndsOutside(W, x) == x = <<>> \/ x[1] \notin W

LEMMA DelimitedRead ==
    ASSUME NEW B, NEW W \in SUBSET B, NEW k \in Seq(W), NEW l \in Seq(W),
           NEW x \in Seq(B), NEW y \in Seq(B), EndsOutside(W, x), EndsOutside(W, y),
           k \o x = l \o y
    PROVE  k = l /\ x = y
<1>1. k \in Seq(B) /\ l \in Seq(B)
  OBVIOUS
<1>2. Len(k) + Len(x) = Len(l) + Len(y)
  <2>1. Len(k \o x) = Len(k) + Len(x) /\ Len(l \o y) = Len(l) + Len(y)
    BY <1>1, ConcatProperties
  <2> QED
    BY <2>1
<1>3. \A i \in 1 .. Len(k) + Len(x) : /\ (k \o x)[i] = IF i <= Len(k) THEN k[i] ELSE x[i - Len(k)]
                                      /\ (l \o y)[i] = IF i <= Len(l) THEN l[i] ELSE y[i - Len(l)]
  BY <1>1, <1>2, ConcatProperties
<1>4. \A i \in 1 .. Len(k) + Len(x) :
         (IF i <= Len(k) THEN k[i] ELSE x[i - Len(k)]) = IF i <= Len(l) THEN l[i] ELSE y[i - Len(l)]
  BY <1>3
<1>5. ~(Len(k) < Len(l))
  <2> SUFFICES ASSUME Len(k) < Len(l) PROVE FALSE
    OBVIOUS
  <2> DEFINE i == Len(k) + 1
  <2>1. i \in 1 .. Len(k) + Len(x) /\ ~(i <= Len(k)) /\ i <= Len(l) /\ i - Len(k) = 1
    BY <1>2
  <2>2. x[1] = l[i]
    BY <1>4, <2>1
  <2>3. x # <<>>
    BY <1>2
  <2>4. l[i] \in W
    BY <2>1
  <2> QED
    BY <2>2, <2>3, <2>4 DEF EndsOutside
<1>6. ~(Len(l) < Len(k))
  <2> SUFFICES ASSUME Len(l) < Len(k) PROVE FALSE
    OBVIOUS
  <2> DEFINE i == Len(l) + 1
  <2>1. i \in 1 .. Len(k) + Len(x) /\ ~(i <= Len(l)) /\ i <= Len(k) /\ i - Len(l) = 1
    BY <1>2
  <2>2. y[1] = k[i]
    BY <1>4, <2>1
  <2>3. y # <<>>
    BY <1>2
  <2>4. k[i] \in W
    BY <2>1
  <2> QED
    BY <2>2, <2>3, <2>4 DEF EndsOutside
<1>7. Len(k) = Len(l)
  BY <1>5, <1>6
<1>8. \A i \in 1 .. Len(k) : k[i] = l[i]
  BY <1>4, <1>7
<1>9. k = l
  BY <1>7, <1>8, SMTT(30)
<1> QED
  BY <1>1, <1>9, CancelLeft, Zenon

-----------------------------------------------------------------------------
(* Indices. *)

LEMMA DigitsAre ==
    /\ Digit \in [1 .. 10 -> Digits] /\ Digits \subseteq Token
    /\ \A i, j \in 1 .. 10 : Digit[i] = Digit[j] => i = j
<1>1. Len(Digit) = 10 /\ DOMAIN Digit = 1 .. 10
  BY DEF Digit
<1>2. Digit \in [1 .. 10 -> Digits]
  BY <1>1 DEF Digits, Range, Digit
<1>3. \A i, j \in 1 .. 10 : Digit[i] = Digit[j] => i = j
  BY DEF Digit
<1>4. Digits \subseteq Token
  BY DEF Token
<1> QED
  BY <1>2, <1>3, <1>4

LEMMA DivMod ==
    ASSUME NEW i \in Nat, NEW j \in Nat, i \div 10 = j \div 10, i % 10 = j % 10
    PROVE  i = j
  OBVIOUS

LEMMA Div ==
    ASSUME NEW i \in Nat, ~(i < 10)
    PROVE  /\ i \div 10 \in Nat /\ i \div 10 < i /\ i \div 10 \in 0 .. (i - 1)
           /\ (i % 10) + 1 \in 1 .. 10
  OBVIOUS

\* The equation of Decimal.
IsDecimal(f) ==
    f = [i \in Nat |-> IF i < 10 THEN <<Digit[i + 1]>>
                       ELSE Append(f[i \div 10], Digit[(i % 10) + 1])]

LEMMA DecimalExists == \E f : IsDecimal(f)
<1> DEFINE A == Seq(Digits)
           G == [i \in Nat |-> [p \in [0 .. (i - 1) -> A] |->
                   IF i < 10 THEN <<Digit[i + 1]>>
                   ELSE Append(p[i \div 10], Digit[(i % 10) + 1])]]
<1>1. Continues(A, G)
  <2> SUFFICES ASSUME NEW i \in Nat, NEW p \in [0 .. (i - 1) -> A]
               PROVE  (IF i < 10 THEN <<Digit[i + 1]>>
                       ELSE Append(p[i \div 10], Digit[(i % 10) + 1])) \in A
    BY DEF Continues
  <2>1. CASE i < 10
    <3>1. i + 1 \in 1 .. 10
      BY <2>1
    <3>2. Digit[i + 1] \in Digits
      BY <3>1, DigitsAre
    <3> QED
      BY <2>1, <3>2
  <2>2. CASE ~(i < 10)
    <3>1. p[i \div 10] \in Seq(Digits) /\ Digit[(i % 10) + 1] \in Digits
      BY <2>2, Div, DigitsAre
    <3>2. Append(p[i \div 10], Digit[(i % 10) + 1]) \in Seq(Digits)
      BY <3>1, AppendProperties
    <3> QED
      BY <2>2, <3>2
  <2> QED
    BY <2>1, <2>2
<1>2. PICK h : FollowsAll(A, G, h)
  <2> HIDE DEF A, G
  <2> QED
    BY <1>1, Recursion
<1>3. ASSUME NEW i \in Nat
      PROVE  h[i] = IF i < 10 THEN <<Digit[i + 1]>>
                    ELSE Append(h[i \div 10], Digit[(i % 10) + 1])
  <2>1. Before(h, i) \in [0 .. (i - 1) -> A]
    BY <1>2 DEF Before, FollowsAll
  <2>2. ~(i < 10) => Before(h, i)[i \div 10] = h[i \div 10]
    BY Div DEF Before
  <2>3. h[i] = G[i][Before(h, i)]
    BY <1>2 DEF FollowsAll
  <2> HIDE DEF A
  <2> QED
    BY <2>1, <2>2, <2>3
<1>4. h = [i \in Nat |-> h[i]]
  BY <1>2 DEF FollowsAll
<1>5. IsDecimal(h)
  BY <1>3, <1>4 DEF IsDecimal
<1> QED
  BY <1>5

LEMMA DecimalIs ==
    ASSUME NEW i \in Nat
    PROVE  Decimal[i] = IF i < 10 THEN <<Digit[i + 1]>>
                        ELSE Append(Decimal[i \div 10], Digit[(i % 10) + 1])
<1>1. Decimal = CHOOSE f : IsDecimal(f)
  BY Zenon DEF Decimal, IsDecimal
<1>2. IsDecimal(Decimal)
  BY <1>1, DecimalExists, Zenon
<1> HIDE DEF Decimal
<1> QED
  BY <1>2 DEF IsDecimal

LEMMA DecimalType ==
    ASSUME NEW i \in Nat
    PROVE  Decimal[i] \in Seq(Digits) /\ Decimal[i] # <<>>
<1> DEFINE Bad == {n \in Nat : ~(Decimal[n] \in Seq(Digits) /\ Decimal[n] # <<>>)}
<1> SUFFICES ASSUME Bad # {} PROVE FALSE
  OBVIOUS
<1>1. PICK n \in Bad : \A m \in Bad : n <= m
  <2>1. Bad \in SUBSET Nat
    OBVIOUS
  <2> HIDE DEF Bad
  <2> QED
    BY <2>1, LeastNumber
<1>2. n \in Nat
  OBVIOUS
<1>3. CASE n < 10
  <2>1. Decimal[n] = <<Digit[n + 1]>>
    BY <1>2, <1>3, DecimalIs
  <2>2. n + 1 \in 1 .. 10
    BY <1>2, <1>3
  <2>3. Digit[n + 1] \in Digits
    BY <2>2, DigitsAre
  <2>4. Decimal[n] \in Seq(Digits) /\ Decimal[n] # <<>>
    BY <2>1, <2>3
  <2> QED
    BY <2>4
<1>4. CASE ~(n < 10)
  <2> DEFINE d == n \div 10  x == Digit[(n % 10) + 1]
  <2>1. d \in Nat /\ ~(n <= d) /\ (n % 10) + 1 \in 1 .. 10
    BY <1>2, <1>4, Div
  <2>2. Decimal[d] \in Seq(Digits) /\ Decimal[d] # <<>>
    BY <1>1, <2>1
  <2>3. x \in Digits
    BY <2>1, DigitsAre
  <2>4. Decimal[n] = Append(Decimal[d], x)
    BY <1>2, <1>4, DecimalIs
  <2>5. Decimal[n] \in Seq(Digits) /\ Decimal[n] # <<>>
    <3> HIDE DEF d, x
    <3> QED
      BY <2>2, <2>3, <2>4, AppendProperties
  <2> QED
    BY <2>5
<1> QED
  BY <1>3, <1>4

LEMMA DecimalInjective ==
    ASSUME NEW i \in Nat, NEW j \in Nat, Decimal[i] = Decimal[j]
    PROVE  i = j
<1> DEFINE Bad == {n \in Nat : \E m \in Nat : Decimal[n] = Decimal[m] /\ n # m}
<1> SUFFICES ASSUME Bad # {} PROVE FALSE
  OBVIOUS
<1>1. PICK n \in Bad : \A m \in Bad : n <= m
  <2>1. Bad \in SUBSET Nat
    OBVIOUS
  <2> HIDE DEF Bad
  <2> QED
    BY <2>1, LeastNumber
<1>2. PICK m \in Nat : n \in Nat /\ Decimal[n] = Decimal[m] /\ n # m
  OBVIOUS
<1> HIDE DEF Decimal
<1>3. \A k \in Nat : k < 10 => Len(Decimal[k]) = 1 /\ Decimal[k][1] = Digit[k + 1] /\ k + 1 \in 1 .. 10
  <2> SUFFICES ASSUME NEW k \in Nat, k < 10
               PROVE  Len(Decimal[k]) = 1 /\ Decimal[k][1] = Digit[k + 1] /\ k + 1 \in 1 .. 10
    OBVIOUS
  <2>1. Decimal[k] = <<Digit[k + 1]>>
    BY DecimalIs
  <2> QED
    BY <2>1
<1>4. \A k \in Nat : ~(k < 10) => Len(Decimal[k]) # 1
  <2> SUFFICES ASSUME NEW k \in Nat, ~(k < 10) PROVE Len(Decimal[k]) # 1
    OBVIOUS
  <2> DEFINE d == k \div 10  x == Digit[(k % 10) + 1]
  <2>1. d \in Nat
    BY Div
  <2>2. Decimal[k] = Append(Decimal[d], x)
    BY DecimalIs
  <2>3. Decimal[d] \in Seq(Digits) /\ Decimal[d] # <<>>
    BY <2>1, DecimalType
  <2>4. x \in Digits
    BY Div, DigitsAre
  <2> HIDE DEF d, x
  <2>5. Len(Decimal[k]) = Len(Decimal[d]) + 1 /\ Len(Decimal[d]) \in Nat \ {0}
    BY <2>2, <2>3, <2>4, AppendProperties, EmptySeq
  <2> QED
    BY <2>5
<1>5. CASE n < 10
  <2>1. m < 10
    BY <1>2, <1>3, <1>4, <1>5
  <2>2. Digit[n + 1] = Digit[m + 1] /\ n + 1 \in 1 .. 10 /\ m + 1 \in 1 .. 10
    BY <1>2, <1>3, <1>5, <2>1
  <2>3. n + 1 = m + 1
    BY <2>2, DigitsAre
  <2> QED
    BY <1>2, <2>3
<1>6. CASE ~(n < 10)
  <2>1. ~(m < 10)
    BY <1>2, <1>3, <1>4, <1>6
  <2> DEFINE d == n \div 10  x == Digit[(n % 10) + 1]
             e == m \div 10  y == Digit[(m % 10) + 1]
  <2>2. d \in Nat /\ ~(n <= d) /\ e \in Nat
        /\ (n % 10) + 1 \in 1 .. 10 /\ (m % 10) + 1 \in 1 .. 10
    BY <1>2, <1>6, <2>1, Div
  <2>3. x \in Digits /\ y \in Digits
    BY <2>2, DigitsAre
  <2>4. Decimal[n] = Append(Decimal[d], x) /\ Decimal[m] = Append(Decimal[e], y)
    BY <1>2, <1>6, <2>1, DecimalIs
  <2>5. Decimal[d] \in Seq(Digits) /\ Decimal[e] \in Seq(Digits)
    BY <2>2, DecimalType
  <2>6. Decimal[d] = Decimal[e] /\ x = y
    <3> HIDE DEF d, e, x, y
    <3> DEFINE a == Decimal[d]  b == Decimal[e]
    <3>1. a \in Seq(Digits) /\ b \in Seq(Digits) /\ Append(a, x) = Append(b, y)
      BY <1>2, <2>4, <2>5
    <3> HIDE DEF a, b
    <3>2. a = b /\ x = y
      BY <2>3, <3>1, AppendInjective
    <3> QED
      BY <3>2 DEF a, b
  <2>7. d = e
    BY <1>1, <2>2, <2>6
  <2>8. (n % 10) + 1 = (m % 10) + 1
    BY <2>2, <2>6, DigitsAre
  <2>9. n = m
    BY <1>2, <2>7, <2>8, DivMod
  <2> QED
    BY <1>2, <2>9
<1> QED
  BY <1>5, <1>6

-----------------------------------------------------------------------------
(* Quoted keys. *)

\* Concatenation under a name of its own: what is known of it is what is cited.
Cat(s, t) == s \o t
One(c) == <<c>>
Two(b, c) == <<b, c>>
Begins(x, c) == x # <<>> /\ x[1] = c

LEMMA CatType ==
    ASSUME NEW B, NEW s \in Seq(B), NEW t \in Seq(B)
    PROVE  Cat(s, t) \in Seq(B)
  BY ConcatProperties DEF Cat

LEMMA CatAssociative ==
    ASSUME NEW B, NEW s \in Seq(B), NEW t \in Seq(B), NEW u \in Seq(B)
    PROVE  Cat(s, Cat(t, u)) = Cat(Cat(s, t), u)
  BY ConcatAssociative DEF Cat

LEMMA CatCancel ==
    ASSUME NEW B, NEW s \in Seq(B), NEW t \in Seq(B), NEW u \in Seq(B), Cat(s, t) = Cat(s, u)
    PROVE  t = u
  BY CancelLeft DEF Cat

LEMMA OneType ==
    ASSUME NEW B, NEW c \in B
    PROVE  One(c) \in Seq(B) /\ \A b \in B : Two(b, c) \in Seq(B)
  BY DEF One, Two

LEMMA CatBegins ==
    ASSUME NEW B, NEW s \in Seq(B), NEW t \in Seq(B), NEW c, Begins(s, c)
    PROVE  Begins(Cat(s, t), c)
<1>1. Len(s) > 0
  BY DEF Begins
<1>2. Len(s \o t) = Len(s) + Len(t) /\ s \o t \in Seq(B) /\ 1 \in 1 .. Len(s) + Len(t) /\ 1 <= Len(s)
  BY <1>1, ConcatProperties
<1>3. (s \o t)[1] = s[1]
  BY <1>2, ConcatProperties
<1>4. Len(s \o t) # 0
  BY <1>1, <1>2
<1> QED
  BY <1>2, <1>3, <1>4 DEF Begins, Cat

LEMMA OneBegins ==
    ASSUME NEW B, NEW c \in B, NEW t \in Seq(B)
    PROVE  Begins(Cat(One(c), t), c)
<1>1. Begins(One(c), c)
  BY DEF Begins, One
<1> QED
  BY <1>1, OneType, CatBegins

LEMMA TwoBegins ==
    ASSUME NEW B, NEW b \in B, NEW c \in B, NEW t \in Seq(B)
    PROVE  Begins(Cat(Two(b, c), t), b) /\ Cat(Two(b, c), t)[2] = c
<1>1. Begins(Two(b, c), b)
  BY DEF Begins, Two
<1> DEFINE two == Two(b, c)
<1>2. two \in Seq(B) /\ Len(two) = 2 /\ two[2] = c
  BY DEF Two
<1> HIDE DEF two
<1>3. 2 \in 1 .. Len(two) + Len(t) /\ 2 <= Len(two)
  BY <1>2
<1>4. (two \o t)[2] = c
  BY <1>2, <1>3, ConcatProperties
<1> QED
  BY <1>1, <1>4, OneType, CatBegins DEF two, Cat

LEMMA BeginsOnce ==
    ASSUME NEW x, NEW c, NEW d, Begins(x, c), Begins(x, d)
    PROVE  c = d
  BY DEF Begins

LEMMA MarksAreTokens ==
    /\ "." \in Token /\ "[" \in Token /\ "]" \in Token /\ "\"" \in Token /\ "\\" \in Token
  BY DEF Token, Marks

EscapeCode == [c \in Token |-> IF c \in {"\"", "\\"} THEN Two("\\", c) ELSE One(c)]

LEMMA EscapeCodeIs ==
    /\ IsCode(Token, Token, EscapeCode)
    /\ \A c \in Token : EscapeCode[c] = IF c \in {"\"", "\\"} THEN Two("\\", c) ELSE One(c)
  BY MarksAreTokens, OneType DEF IsCode, EscapeCode

LEMMA QuotedIs ==
    ASSUME NEW key \in Seq(Token)
    PROVE  /\ Quoted(key) = Cat(Cat(One("\""), Written(EscapeCode, key)), One("\""))
           /\ Written(EscapeCode, key) \in Seq(Token)
<1> DEFINE escaped(c) == IF c \in {"\"", "\\"} THEN <<"\\", c>> ELSE <<c>>
<1>1. \A n \in DOMAIN key : key[n] \in Token
  OBVIOUS
<1>2. \A n \in DOMAIN key : escaped(key[n]) = EscapeCode[key[n]]
  BY <1>1, EscapeCodeIs DEF One, Two
<1>3. [n \in DOMAIN key |-> escaped(key[n])] = [i \in DOMAIN key |-> EscapeCode[key[i]]]
  BY <1>2
<1>4. Quoted(key) = Cat(Cat(One("\""), FlattenSeq([n \in DOMAIN key |-> escaped(key[n])])), One("\""))
  BY DEF Quoted, Cat, One
<1> HIDE DEF escaped
<1>5. Written(EscapeCode, key) \in Seq(Token)
  BY EscapeCodeIs, WrittenType
<1> QED
  BY <1>3, <1>4, <1>5, Zenon DEF Written

LEMMA EscapeDelimits ==
    /\ SelfDelimiting(Token, Token, EscapeCode, Seq(Token))
    /\ \A c \in Token, z \in Seq(Token) : ~Begins(Cat(EscapeCode[c], z), "\"")
<1>1. \A c \in Token, z \in Seq(Token) :
         /\ Cat(EscapeCode[c], z) \in Seq(Token)
         /\ c \notin {"\"", "\\"} => Begins(Cat(EscapeCode[c], z), c)
         /\ c \in {"\"", "\\"} => /\ Begins(Cat(EscapeCode[c], z), "\\")
                                  /\ Cat(EscapeCode[c], z)[2] = c
  <2> SUFFICES ASSUME NEW c \in Token, NEW z \in Seq(Token)
               PROVE  /\ Cat(EscapeCode[c], z) \in Seq(Token)
                      /\ c \notin {"\"", "\\"} => Begins(Cat(EscapeCode[c], z), c)
                      /\ c \in {"\"", "\\"} => /\ Begins(Cat(EscapeCode[c], z), "\\")
                                               /\ Cat(EscapeCode[c], z)[2] = c
    OBVIOUS
  <2>1. CASE c \in {"\"", "\\"}
    <3>1. EscapeCode[c] = Two("\\", c)
      BY <2>1, EscapeCodeIs
    <3>2. Two("\\", c) \in Seq(Token)
      BY MarksAreTokens, OneType
    <3>3. Cat(Two("\\", c), z) \in Seq(Token)
      BY <3>2, CatType
    <3>4. Begins(Cat(Two("\\", c), z), "\\") /\ Cat(Two("\\", c), z)[2] = c
      BY MarksAreTokens, TwoBegins
    <3> QED
      BY <2>1, <3>1, <3>3, <3>4
  <2>2. CASE c \notin {"\"", "\\"}
    <3>1. EscapeCode[c] = One(c)
      BY <2>2, EscapeCodeIs
    <3>2. One(c) \in Seq(Token)
      BY OneType
    <3>3. Cat(One(c), z) \in Seq(Token)
      BY <3>2, CatType
    <3>4. Begins(Cat(One(c), z), c)
      BY OneBegins
    <3> QED
      BY <2>2, <3>1, <3>3, <3>4
  <2> QED
    BY <2>1, <2>2
<1>2. ASSUME NEW c \in Token, NEW d \in Token, NEW v \in Seq(Token), NEW w \in Seq(Token),
             Cat(EscapeCode[c], v) = Cat(EscapeCode[d], w)
      PROVE  c = d
  <2>1. c \notin {"\"", "\\"} /\ d \notin {"\"", "\\"} => c = d
    BY <1>1, <1>2, BeginsOnce
  <2>2. c \in {"\"", "\\"} /\ d \in {"\"", "\\"} => c = d
    <3> SUFFICES ASSUME c \in {"\"", "\\"}, d \in {"\"", "\\"} PROVE c = d
      OBVIOUS
    <3>1. Cat(EscapeCode[c], v)[2] = c
      BY <1>1
    <3>2. Cat(EscapeCode[d], w)[2] = d
      BY <1>1
    <3> QED
      BY <1>2, <3>1, <3>2, Zenon
  <2>3. ~(c \in {"\"", "\\"} /\ d \notin {"\"", "\\"})
    BY <1>1, <1>2, BeginsOnce
  <2>4. ~(c \notin {"\"", "\\"} /\ d \in {"\"", "\\"})
    BY <1>1, <1>2, BeginsOnce
  <2> QED
    BY <2>1, <2>2, <2>3, <2>4
<1>3. SelfDelimiting(Token, Token, EscapeCode, Seq(Token))
  <2>1. \A c \in Token, z \in Seq(Token) : EscapeCode[c] \o z \in Seq(Token)
    BY <1>1 DEF Cat
  <2>2. \A c, d \in Token, v, w \in Seq(Token) : EscapeCode[c] \o v = EscapeCode[d] \o w => c = d
    BY <1>2 DEF Cat
  <2> QED
    BY <2>1, <2>2, Zenon DEF SelfDelimiting
<1>4. ASSUME NEW c \in Token, NEW z \in Seq(Token), Begins(Cat(EscapeCode[c], z), "\"")
      PROVE  FALSE
  BY <1>1, <1>4, BeginsOnce
<1> QED
  BY <1>3, <1>4

EscapedBefore(k, x) == Cat(Written(EscapeCode, k), Cat(One("\""), x))

LEMMA EscapeReads ==
    ASSUME NEW k \in Seq(Token), NEW l \in Seq(Token), NEW x \in Seq(Token), NEW y \in Seq(Token),
           EscapedBefore(k, x) = EscapedBefore(l, y)
    PROVE  k = l /\ x = y
<1> DEFINE E == {z \in Seq(Token) : Begins(z, "\"")}
<1>1. \A c \in Token, z \in Seq(Token) : EscapeCode[c] \o z \notin E
  BY EscapeDelimits DEF Cat
<1>2. E \in SUBSET Seq(Token)
  OBVIOUS
<1>3. Cat(One("\""), x) \in E /\ Cat(One("\""), y) \in E
  BY MarksAreTokens, OneType, OneBegins, CatType
<1> HIDE DEF E
<1>4. ReadsBack(Token, EscapeCode, E, k)
  BY <1>1, <1>2, EscapeCodeIs, EscapeDelimits, UniquelyRead
<1> DEFINE u == Cat(One("\""), x)  v == Cat(One("\""), y)
<1>5. Written(EscapeCode, k) \o u = Written(EscapeCode, l) \o v
  BY DEF Cat, EscapedBefore
<1> HIDE DEF u, v
<1>6. k = l /\ u = v
  BY <1>3, <1>4, <1>5 DEF ReadsBack, u, v
<1>7. x = y
  BY <1>6, MarksAreTokens, OneType, CatCancel DEF u, v
<1> QED
  BY <1>6, <1>7

LEMMA QuotedRead ==
    ASSUME NEW k \in Seq(Token), NEW l \in Seq(Token), NEW x \in Seq(Token), NEW y \in Seq(Token),
           Cat(Quoted(k), x) = Cat(Quoted(l), y)
    PROVE  k = l /\ x = y
<1> DEFINE Q == One("\"")
           w(m) == Written(EscapeCode, m)
<1>1. Q \in Seq(Token)
  BY MarksAreTokens, OneType
<1>2. \A m \in Seq(Token) : w(m) \in Seq(Token) /\ Quoted(m) = Cat(Cat(Q, w(m)), Q)
  BY QuotedIs
<1> HIDE DEF Q, w
<1>3. ASSUME NEW m \in Seq(Token), NEW z \in Seq(Token)
      PROVE  Cat(Quoted(m), z) = Cat(Q, Cat(w(m), Cat(Q, z))) /\ Cat(w(m), Cat(Q, z)) \in Seq(Token)
  <2>1. Cat(Q, z) \in Seq(Token) /\ Cat(Q, w(m)) \in Seq(Token) /\ w(m) \in Seq(Token)
    BY <1>1, <1>2, CatType
  <2>2. Cat(Cat(Q, w(m)), Cat(Q, z)) = Cat(Cat(Cat(Q, w(m)), Q), z)
    BY <1>1, <2>1, CatAssociative
  <2>3. Cat(Q, Cat(w(m), Cat(Q, z))) = Cat(Cat(Q, w(m)), Cat(Q, z))
    BY <1>1, <2>1, CatAssociative
  <2> QED
    BY <1>2, <2>1, <2>2, <2>3, CatType
<1>4. Cat(w(k), Cat(Q, x)) = Cat(w(l), Cat(Q, y))
  BY <1>1, <1>3, CatCancel
<1>5. EscapedBefore(k, x) = EscapedBefore(l, y)
  BY <1>4 DEF EscapedBefore, Q, w
<1> QED
  BY <1>5, EscapeReads

-----------------------------------------------------------------------------
(* Paths. *)

LEMMA DigitsAreNotMarks ==
    "." \notin Digits /\ "[" \notin Digits /\ "]" \notin Digits /\ "\"" \notin Digits
<1>1. \A i \in 1 .. 10 : Digit[i] \in {"0", "1", "2", "3", "4", "5", "6", "7", "8", "9"}
  BY DEF Digit
<1>2. \A d \in Digits : \E i \in 1 .. 10 : d = Digit[i]
  BY DEF Digits, Range, Digit
<1>3. \A d \in {"0", "1", "2", "3", "4", "5", "6", "7", "8", "9"} :
         d # "." /\ d # "[" /\ d # "]" /\ d # "\""
  OBVIOUS
<1> QED
  BY <1>1, <1>2, <1>3

LEMMA StepIs ==
    ASSUME NEW s \in Step
    PROVE  /\ IsIndex(s) => s.index \in Nat /\ s = [index |-> s.index]
           /\ ~IsIndex(s) => s.key \in Seq(Token) /\ s = [key |-> s.key]
<1>1. CASE s \in [key : Seq(Token)]
  <2>1. ~("index" \in DOMAIN s) /\ s.key \in Seq(Token) /\ s = [key |-> s.key]
    BY <1>1
  <2> QED
    BY <2>1 DEF IsIndex
<1>2. CASE s \in [index : Nat]
  <2>1. "index" \in DOMAIN s /\ s.index \in Nat /\ s = [index |-> s.index]
    BY <1>2
  <2> QED
    BY <2>1 DEF IsIndex
<1> QED
  BY <1>1, <1>2 DEF Step

Bracketed(w) == Cat(Cat(One("["), w), One("]"))
AfterOpen(w, x) == Cat(w, Cat(One("]"), x))

LEMMA BracketedIs ==
    ASSUME NEW w \in Seq(Token), NEW x \in Seq(Token)
    PROVE  /\ Bracketed(w) \in Seq(Token)
           /\ AfterOpen(w, x) \in Seq(Token)
           /\ Cat(Bracketed(w), x) = Cat(One("["), AfterOpen(w, x))
<1> DEFINE o == One("[")  c == One("]")
<1>1. o \in Seq(Token) /\ c \in Seq(Token)
  BY MarksAreTokens, OneType
<1> HIDE DEF o, c
<1>2. Cat(o, w) \in Seq(Token) /\ Cat(c, x) \in Seq(Token)
  BY <1>1, CatType
<1>3. Cat(Cat(o, w), c) \in Seq(Token) /\ Cat(w, Cat(c, x)) \in Seq(Token)
  BY <1>1, <1>2, CatType
<1>4. Cat(Cat(o, w), Cat(c, x)) = Cat(Cat(Cat(o, w), c), x)
  BY <1>1, <1>2, CatAssociative
<1>5. Cat(o, Cat(w, Cat(c, x))) = Cat(Cat(o, w), Cat(c, x))
  BY <1>1, <1>2, CatAssociative
<1> QED
  BY <1>3, <1>4, <1>5 DEF Bracketed, AfterOpen, o, c

LEMMA QuotedBegins ==
    ASSUME NEW k \in Seq(Token)
    PROVE  Quoted(k) \in Seq(Token) /\ Begins(Quoted(k), "\"")
<1> DEFINE Q == One("\"")  w == Written(EscapeCode, k)
<1>1. Q \in Seq(Token) /\ w \in Seq(Token) /\ Quoted(k) = Cat(Cat(Q, w), Q)
  BY MarksAreTokens, OneType, QuotedIs
<1>2. Begins(Cat(Q, w), "\"")
  BY <1>1, MarksAreTokens, OneBegins
<1> HIDE DEF Q, w
<1>3. Cat(Q, w) \in Seq(Token)
  BY <1>1, CatType
<1> QED
  BY <1>1, <1>2, <1>3, CatType, CatBegins

LEMMA DecimalBegins ==
    ASSUME NEW i \in Nat
    PROVE  Decimal[i] \in Seq(Token) /\ \E d \in Digits : Begins(Decimal[i], d)
<1>1. Decimal[i] \in Seq(Digits) /\ Decimal[i] # <<>>
  BY DecimalType
<1>2. Digits \subseteq Token
  BY DigitsAre
<1> HIDE DEF Decimal
<1>3. Decimal[i] \in Seq(Token)
  BY <1>1, <1>2, SeqMonotonic
<1>4. Decimal[i][1] \in Digits
  BY <1>1
<1> QED
  BY <1>1, <1>3, <1>4 DEF Begins

IsName(s) == ~IsIndex(s) /\ IsIdentifier(s.key)
IsQuoted(s) == ~IsIndex(s) /\ ~IsIdentifier(s.key)

LEMMA PieceIs ==
    ASSUME NEW s \in Step
    PROVE  /\ IsIndex(s) => Piece(s) = Bracketed(Decimal[s.index])
           /\ IsName(s) => /\ Piece(s) = Cat(One("."), s.key)
                           /\ s.key \in Seq(Letters \cup Digits)
           /\ IsQuoted(s) => Piece(s) = Bracketed(Quoted(s.key))
<1>1. IsIndex(s) => Piece(s) = Bracketed(Decimal[s.index])
  BY DEF Piece, Bracketed, Cat, One
<1>2. IsName(s) => Piece(s) = Cat(One("."), s.key)
  BY DEF IsName, Piece, KeyPiece, Cat, One
<1>3. IsQuoted(s) => Piece(s) = Bracketed(Quoted(s.key))
  BY DEF IsQuoted, Piece, KeyPiece, Bracketed, Cat, One
<1>4. IsName(s) => s.key \in Seq(Letters \cup Digits)
  <2> SUFFICES ASSUME IsName(s) PROVE s.key \in Seq(Letters \cup Digits)
    OBVIOUS
  <2> DEFINE k == s.key
  <2>1. k \in Seq(Token) /\ \A n \in DOMAIN k : k[n] \in Letters \cup Digits
    BY StepIs DEF IsName, IsIdentifier
  <2> HIDE DEF k
  <2>2. k \in Seq(Letters \cup Digits)
    BY <2>1
  <2> QED
    BY <2>2 DEF k
<1> QED
  BY <1>1, <1>2, <1>3, <1>4

PathRest == {x \in Seq(Token) : x = <<>> \/ Begins(x, ".") \/ Begins(x, "[")}

LEMMA PieceType ==
    ASSUME NEW s \in Step, NEW x \in Seq(Token)
    PROVE  /\ Piece(s) \in Seq(Token)
           /\ IsName(s) => Begins(Cat(Piece(s), x), ".")
           /\ ~IsName(s) => Begins(Cat(Piece(s), x), "[")
           /\ Cat(Piece(s), x) \in PathRest
<1>1. CASE IsIndex(s)
  <2>1. Decimal[s.index] \in Seq(Token) /\ Piece(s) = Bracketed(Decimal[s.index])
    BY <1>1, StepIs, DecimalBegins, PieceIs
  <2> HIDE DEF Decimal
  <2>2. /\ Piece(s) \in Seq(Token) /\ AfterOpen(Decimal[s.index], x) \in Seq(Token)
        /\ Cat(Piece(s), x) = Cat(One("["), AfterOpen(Decimal[s.index], x))
    BY <2>1, BracketedIs
  <2>3. Begins(Cat(Piece(s), x), "[")
    BY <2>2, MarksAreTokens, OneBegins
  <2> QED
    BY <1>1, <2>2, <2>3, CatType DEF IsName, PathRest
<1>2. CASE IsName(s)
  <2>1. s.key \in Seq(Token) /\ One(".") \in Seq(Token) /\ Piece(s) = Cat(One("."), s.key)
    BY <1>2, StepIs, PieceIs, MarksAreTokens, OneType DEF IsName
  <2>2. Piece(s) \in Seq(Token) /\ Begins(Piece(s), ".")
    BY <2>1, CatType, MarksAreTokens, OneBegins
  <2>3. Begins(Cat(Piece(s), x), ".")
    BY <2>2, CatBegins
  <2> QED
    BY <1>2, <2>2, <2>3, CatType DEF PathRest
<1>3. CASE IsQuoted(s)
  <2>1. Quoted(s.key) \in Seq(Token) /\ Piece(s) = Bracketed(Quoted(s.key))
    BY <1>3, StepIs, QuotedBegins, PieceIs DEF IsQuoted
  <2>2. /\ Piece(s) \in Seq(Token) /\ AfterOpen(Quoted(s.key), x) \in Seq(Token)
        /\ Cat(Piece(s), x) = Cat(One("["), AfterOpen(Quoted(s.key), x))
    BY <2>1, BracketedIs
  <2>3. Begins(Cat(Piece(s), x), "[")
    BY <2>2, MarksAreTokens, OneBegins
  <2> QED
    BY <1>3, <2>2, <2>3, CatType DEF IsName, IsQuoted, PathRest
<1> QED
  BY <1>1, <1>2, <1>3 DEF IsName, IsQuoted

LEMMA NamesEnd ==
    ASSUME NEW x \in PathRest
    PROVE  x \in Seq(Token) /\ EndsOutside(Letters \cup Digits, x)
<1>1. "." \notin Letters \cup Digits /\ "[" \notin Letters \cup Digits
  BY LettersAssumption, DigitsAreNotMarks DEF Marks
<1> QED
  BY <1>1 DEF PathRest, EndsOutside, Begins

\* The pieces of a path tell where they end.
LEMMA PieceRead ==
    ASSUME NEW s \in Step, NEW t \in Step, NEW x \in PathRest, NEW y \in PathRest,
           Cat(Piece(s), x) = Cat(Piece(t), y)
    PROVE  s = t
<1>1. x \in Seq(Token) /\ y \in Seq(Token)
  BY NamesEnd
<1>2. CASE IsName(s) /\ IsName(t)
  <2> DEFINE k == s.key  l == t.key  o == One(".")
  <2>1. /\ k \in Seq(Token) /\ l \in Seq(Token) /\ o \in Seq(Token)
        /\ Piece(s) = Cat(o, k) /\ Piece(t) = Cat(o, l)
        /\ k \in Seq(Letters \cup Digits) /\ l \in Seq(Letters \cup Digits)
    BY <1>2, StepIs, PieceIs, MarksAreTokens, OneType DEF IsName
  <2> HIDE DEF k, l, o
  <2>2. Cat(o, Cat(k, x)) = Cat(Cat(o, k), x) /\ Cat(o, Cat(l, y)) = Cat(Cat(o, l), y)
    BY <1>1, <2>1, CatAssociative
  <2>3. Cat(k, x) \in Seq(Token) /\ Cat(l, y) \in Seq(Token)
    BY <1>1, <2>1, CatType
  <2>4. Cat(k, x) = Cat(l, y)
    BY <2>1, <2>2, <2>3, CatCancel
  <2>5. (Letters \cup Digits) \in SUBSET Token
    BY DEF Token
  <2>6. k \o x = l \o y
    BY <2>4 DEF Cat
  <2>7. EndsOutside(Letters \cup Digits, x) /\ EndsOutside(Letters \cup Digits, y)
    BY NamesEnd
  <2>8. k = l
    <3> DEFINE W == Letters \cup Digits
    <3> HIDE DEF W
    <3>1. W \in SUBSET Token /\ k \in Seq(W) /\ l \in Seq(W) /\ EndsOutside(W, x) /\ EndsOutside(W, y)
      BY <2>1, <2>5, <2>7 DEF W
    <3> QED
      BY <1>1, <2>6, <3>1, DelimitedRead
  <2> QED
    BY <1>2, <2>8, StepIs DEF k, l, IsName
<1>3. ~(IsName(s) /\ ~IsName(t)) /\ ~(~IsName(s) /\ IsName(t))
  BY <1>1, PieceType, BeginsOnce
<1>4. CASE ~IsName(s) /\ ~IsName(t)
  <2> DEFINE inner(r) == IF IsIndex(r) THEN Decimal[r.index] ELSE Quoted(r.key)
             v == inner(s)  w == inner(t)  o == One("[")
  <2>1. v \in Seq(Token) /\ Piece(s) = Bracketed(v)
    <3> HIDE DEF Decimal
    <3> QED
      BY <1>4, StepIs, PieceIs, DecimalBegins, QuotedBegins DEF IsName, IsQuoted
  <2>2. w \in Seq(Token) /\ Piece(t) = Bracketed(w)
    <3> HIDE DEF Decimal
    <3> QED
      BY <1>4, StepIs, PieceIs, DecimalBegins, QuotedBegins DEF IsName, IsQuoted
  <2>3. IsIndex(s) => \E d \in Digits : Begins(v, d)
    BY StepIs, DecimalBegins
  <2>4. IsIndex(t) => \E d \in Digits : Begins(w, d)
    BY StepIs, DecimalBegins
  <2>5. ~IsIndex(s) => Begins(v, "\"")
    BY StepIs, QuotedBegins
  <2>6. ~IsIndex(t) => Begins(w, "\"")
    BY StepIs, QuotedBegins
  <2>7. (IsIndex(s) => v = Decimal[s.index]) /\ (~IsIndex(s) => v = Quoted(s.key))
    OBVIOUS
  <2>8. (IsIndex(t) => w = Decimal[t.index]) /\ (~IsIndex(t) => w = Quoted(t.key))
    OBVIOUS
  <2> HIDE DEF v, w, inner, Decimal
  <2>9. AfterOpen(v, x) = AfterOpen(w, y)
    <3>1. /\ Cat(Piece(s), x) = Cat(o, AfterOpen(v, x)) /\ AfterOpen(v, x) \in Seq(Token)
          /\ Cat(Piece(t), y) = Cat(o, AfterOpen(w, y)) /\ AfterOpen(w, y) \in Seq(Token)
      BY <1>1, <2>1, <2>2, BracketedIs
    <3>2. o \in Seq(Token)
      BY MarksAreTokens, OneType
    <3> HIDE DEF o
    <3> QED
      BY <3>1, <3>2, CatCancel
  <2> DEFINE c == One("]")
  <2>10. c \in Seq(Token) /\ Cat(c, x) \in Seq(Token) /\ Cat(c, y) \in Seq(Token)
         /\ Begins(Cat(c, x), "]") /\ Begins(Cat(c, y), "]")
    BY <1>1, MarksAreTokens, OneType, CatType, OneBegins
  <2> HIDE DEF c
  <2>11. Cat(v, Cat(c, x)) = Cat(w, Cat(c, y))
    BY <2>9 DEF AfterOpen, c
  <2>12. CASE IsIndex(s) /\ IsIndex(t)
    <3>1. s.index \in Nat /\ t.index \in Nat /\ s = [index |-> s.index] /\ t = [index |-> t.index]
      BY <2>12, StepIs
    <3>2. v \in Seq(Digits) /\ w \in Seq(Digits)
      BY <2>7, <2>8, <2>12, <3>1, DecimalType
    <3>3. EndsOutside(Digits, Cat(c, x)) /\ EndsOutside(Digits, Cat(c, y))
      BY <2>10, DigitsAreNotMarks DEF EndsOutside, Begins
    <3>4. Digits \in SUBSET Token
      BY DigitsAre
    <3> DEFINE p == Cat(c, x)  q == Cat(c, y)
    <3> HIDE DEF p, q
    <3>5. v \o p = w \o q
      BY <2>11 DEF Cat, p, q
    <3>6. v = w
      BY <2>10, <3>2, <3>3, <3>4, <3>5, DelimitedRead DEF p, q
    <3>7. s.index = t.index
      BY <2>7, <2>8, <2>12, <3>1, <3>6, DecimalInjective
    <3> QED
      BY <3>1, <3>7
  <2>13. CASE ~IsIndex(s) /\ ~IsIndex(t)
    <3>1. s.key \in Seq(Token) /\ t.key \in Seq(Token) /\ s = [key |-> s.key] /\ t = [key |-> t.key]
      BY <2>13, StepIs
    <3>2. Cat(Quoted(s.key), Cat(c, x)) = Cat(Quoted(t.key), Cat(c, y))
      BY <2>7, <2>8, <2>11, <2>13
    <3> DEFINE k == s.key  l == t.key  p == Cat(c, x)  q == Cat(c, y)
    <3>3. /\ k \in Seq(Token) /\ l \in Seq(Token) /\ p \in Seq(Token) /\ q \in Seq(Token)
          /\ Cat(Quoted(k), p) = Cat(Quoted(l), q)
      BY <2>10, <3>1, <3>2
    <3> HIDE DEF k, l, p, q
    <3>4. k = l
      BY <3>3, QuotedRead
    <3> QED
      BY <3>1, <3>4 DEF k, l
  <2>14. ~(IsIndex(s) /\ ~IsIndex(t)) /\ ~(~IsIndex(s) /\ IsIndex(t))
    <3>1. \A d : /\ Begins(v, d) => Begins(Cat(v, Cat(c, x)), d)
                 /\ Begins(w, d) => Begins(Cat(w, Cat(c, y)), d)
      BY <2>1, <2>2, <2>10, CatBegins
    <3> QED
      BY <2>3, <2>4, <2>5, <2>6, <2>11, <3>1, BeginsOnce, DigitsAreNotMarks
  <2> QED
    BY <2>12, <2>13, <2>14
<1> QED
  BY <1>2, <1>3, <1>4

PieceCode == [s \in Step |-> Piece(s)]

LEMMA PieceCodeIs ==
    /\ IsCode(Step, Token, PieceCode)
    /\ SelfDelimiting(Step, Token, PieceCode, PathRest)
<1>1. \A s \in Step : PieceCode[s] = Piece(s)
  BY DEF PieceCode
<1>2. <<>> \in Seq(Token)
  OBVIOUS
<1>3. IsCode(Step, Token, PieceCode)
  BY <1>2, PieceType DEF IsCode, PieceCode
<1>4. \A s \in Step, x \in PathRest : PieceCode[s] \o x \in PathRest
  BY <1>1, NamesEnd, PieceType DEF Cat
<1>5. ASSUME NEW s \in Step, NEW t \in Step, NEW x \in PathRest, NEW y \in PathRest,
             PieceCode[s] \o x = PieceCode[t] \o y
      PROVE  s = t
  <2>1. Cat(Piece(s), x) = Cat(Piece(t), y)
    BY <1>1, <1>5 DEF Cat
  <2> QED
    BY <2>1, PieceRead
<1>6. PathRest \subseteq Seq(Token)
  BY DEF PathRest
<1> QED
  BY <1>3, <1>4, <1>5, <1>6 DEF SelfDelimiting

LEMMA PathIs ==
    ASSUME NEW root, NEW location \in Location
    PROVE  /\ Path(root, location) = Cat(One(root), Written(PieceCode, location))
           /\ Written(PieceCode, location) \in Seq(Token)
<1>1. \A n \in DOMAIN location : location[n] \in Step
  BY DEF Location
<1>2. [n \in DOMAIN location |-> Piece(location[n])] = [i \in DOMAIN location |-> PieceCode[location[i]]]
  BY <1>1 DEF PieceCode
<1>3. Written(PieceCode, location) \in Seq(Token)
  BY PieceCodeIs, WrittenType DEF Location
<1> QED
  BY <1>2, <1>3, Zenon DEF Path, Written, Cat, One

\* A path names one place: childPath writes names, indices and quoted keys so
\* that no two places of a document get the same path (evaluator.go:479-494,
\* 560-570).
THEOREM PathsAreUnique ==
    ASSUME NEW root, NEW l \in Location, NEW m \in Location, Path(root, l) = Path(root, m)
    PROVE  l = m
<1> DEFINE u == Written(PieceCode, l)  v == Written(PieceCode, m)  B == Token \cup {root}
<1>1. u \in Seq(Token) /\ v \in Seq(Token) /\ Cat(One(root), u) = Cat(One(root), v)
  BY PathIs
<1>2. Token \subseteq B /\ root \in B
  OBVIOUS
<1>3. u = v
  <2> HIDE DEF u, v, B
  <2>1. u \in Seq(B) /\ v \in Seq(B) /\ One(root) \in Seq(B)
    BY <1>1, <1>2, SeqMonotonic, OneType
  <2> QED
    BY <1>1, <2>1, CatCancel
<1> DEFINE E == {<<>>}
<1>4. E \in SUBSET PathRest
  <2>1. <<>> \in Seq(Token)
    OBVIOUS
  <2> QED
    BY <2>1 DEF PathRest
<1>5. \A s \in Step, x \in PathRest : PieceCode[s] \o x \notin E
  <2> SUFFICES ASSUME NEW s \in Step, NEW x \in PathRest PROVE PieceCode[s] \o x # <<>>
    OBVIOUS
  <2>1. Begins(Cat(Piece(s), x), ".") \/ Begins(Cat(Piece(s), x), "[")
    BY NamesEnd, PieceType
  <2> QED
    BY <2>1 DEF Begins, PieceCode, Cat
<1>6. u \o <<>> = v \o <<>>
  BY <1>3
<1>7. ReadsBack(Step, PieceCode, E, l)
  <2> HIDE DEF E
  <2> QED
    BY <1>4, <1>5, PieceCodeIs, UniquelyRead DEF Location
<1> QED
  BY <1>6, <1>7 DEF ReadsBack, Location

LEMMA PathAppend ==
    ASSUME NEW root, NEW l \in Location, NEW s \in Step
    PROVE  Append(l, s) \in Location /\ IsPrefix(Path(root, l), Path(root, Append(l, s)))
<1> DEFINE one == <<s>>  u == Written(PieceCode, l)  v == Piece(s)  B == Token \cup {root}
           r == One(root)
<1>1. one \in Seq(Step) /\ l \in Seq(Step) /\ Append(l, s) = l \o one /\ Append(l, s) \in Location
  BY DEF Location
<1>2. Written(PieceCode, one) = v
  BY PieceCodeIs, WrittenOne DEF PieceCode
<1>3. u \in Seq(Token) /\ v \in Seq(Token) /\ Path(root, l) = Cat(r, u)
      /\ Path(root, Append(l, s)) = Cat(r, Written(PieceCode, Append(l, s)))
  <2>1. <<>> \in Seq(Token)
    OBVIOUS
  <2> QED
    BY <1>1, <2>1, PathIs, PieceType
<1> HIDE DEF one, u, v, r
<1>4. Written(PieceCode, l \o one) = Cat(u, v)
  <2>1. Written(PieceCode, l \o one) = Written(PieceCode, l) \o Written(PieceCode, one)
    BY <1>1, PieceCodeIs, WrittenConcat
  <2> QED
    BY <1>2, <2>1 DEF Cat, u
<1>5. r \in Seq(B) /\ u \in Seq(B) /\ v \in Seq(B)
  <2>1. Token \subseteq B /\ root \in B
    OBVIOUS
  <2> HIDE DEF B
  <2> QED
    BY <1>3, <2>1, SeqMonotonic, OneType DEF r
<1> HIDE DEF B
<1>6. Path(root, Append(l, s)) = Cat(Cat(r, u), v)
  BY <1>1, <1>3, <1>4, <1>5, CatAssociative
<1> DEFINE p == Path(root, l)  q == Path(root, Append(l, s))
<1>7. p \in Seq(B) /\ q = p \o v
  BY <1>3, <1>5, <1>6, CatType DEF Cat
<1> HIDE DEF p, q
<1>8. Len(p) <= Len(q) /\ SubSeq(p, 1, Len(p)) = SubSeq(q, 1, Len(p))
  <2>1. Len(q) = Len(p) + Len(v) /\ \A i \in 1 .. Len(p) : q[i] = p[i]
    BY <1>5, <1>7, ConcatProperties
  <2> QED
    BY <1>5, <1>7, <2>1
<1> QED
  BY <1>1, <1>8 DEF IsPrefix, p, q

-----------------------------------------------------------------------------
(* Pointers. *)

\* What is done with each member of a part, replacing a tilde and a digit.
Here(digit, part, i) == i \in 1 .. (Len(part) - 1) /\ part[i] = "~" /\ part[i + 1] = digit

Replaced(digit, by, part) ==
    [i \in DOMAIN part |->
        CASE Here(digit, part, i) -> <<by>>
          [] Here(digit, part, i - 1) -> <<>>
          [] OTHER -> <<part[i]>>]

LEMMA ReplacedIs ==
    ASSUME NEW digit, digit # "~", NEW by \in Token, NEW part \in Seq(Token)
    PROVE  /\ Unescaped(digit, by, part) = FlattenSeq(Replaced(digit, by, part))
           /\ Replaced(digit, by, part) \in Seq(Seq(Token))
           /\ Len(Replaced(digit, by, part)) = Len(part)
           /\ \A i \in 1 .. Len(part) :
                 Replaced(digit, by, part)[i] =
                    IF Here(digit, part, i) THEN One(by)
                    ELSE IF Here(digit, part, i - 1) THEN <<>> ELSE One(part[i])
<1>1. Unescaped(digit, by, part) = FlattenSeq(Replaced(digit, by, part))
  BY DEF Unescaped, Replaced, Here
<1> DEFINE R == Replaced(digit, by, part)  m == Len(part)
<1>2. m \in Nat /\ DOMAIN part = 1 .. m /\ \A i \in 1 .. m : part[i] \in Token
  OBVIOUS
<1>3. R = [i \in 1 .. m |-> R[i]] /\ DOMAIN R = 1 .. m
  BY <1>2 DEF Replaced
<1>4. ASSUME NEW i \in 1 .. m
      PROVE  /\ R[i] = IF Here(digit, part, i) THEN One(by)
                       ELSE IF Here(digit, part, i - 1) THEN <<>> ELSE One(part[i])
             /\ R[i] \in Seq(Token)
  <2> DEFINE a == Here(digit, part, i)  b == Here(digit, part, i - 1)
  <2>1. ~(a /\ b) /\ a \in BOOLEAN /\ b \in BOOLEAN
    BY DEF Here
  <2>2. R[i] = CASE a -> One(by) [] b -> <<>> [] OTHER -> One(part[i])
    BY <1>2 DEF Replaced, One
  <2>3. One(by) \in Seq(Token) /\ One(part[i]) \in Seq(Token) /\ <<>> \in Seq(Token)
    BY <1>2, OneType
  <2> HIDE DEF a, b, R
  <2>4. R[i] = IF a THEN One(by) ELSE IF b THEN <<>> ELSE One(part[i])
    BY <2>1, <2>2
  <2> QED
    BY <2>3, <2>4 DEF a, b
<1>5. R \in Seq(Seq(Token))
  <2> HIDE DEF R, m
  <2> QED
    BY <1>2, <1>3, <1>4, IsASeq, SMTT(30)
<1> QED
  BY <1>1, <1>2, <1>3, <1>4, <1>5

\* No tilde at the end: what comes after does not matter.
Settled(s) == s = <<>> \/ s[Len(s)] # "~"

LEMMA UnescapedConcat ==
    ASSUME NEW digit, digit # "~", NEW by \in Token,
           NEW s \in Seq(Token), NEW t \in Seq(Token), Settled(s)
    PROVE  Unescaped(digit, by, Cat(s, t)) = Cat(Unescaped(digit, by, s), Unescaped(digit, by, t))
<1> DEFINE u == Cat(s, t)
           R(x) == Replaced(digit, by, x)
           m == Len(s)  k == Len(t)
<1>1. /\ u \in Seq(Token) /\ Len(u) = m + k /\ m \in Nat /\ k \in Nat
      /\ \A i \in 1 .. m : u[i] = s[i]
      /\ \A i \in 1 .. k : u[m + i] = t[i]
  <2>1. \A i \in 1 .. k : m + i \in 1 .. (m + k) /\ ~(m + i <= m) /\ (m + i) - m = i
    OBVIOUS
  <2> QED
    BY <2>1, ConcatProperties DEF Cat
<1>2. m > 0 => s[m] # "~"
  BY DEF Settled
<1> HIDE DEF u, m, k
<1>3. \A i \in 0 .. m : Here(digit, u, i) <=> Here(digit, s, i)
  BY <1>1, <1>2 DEF Here, m
<1>4. \A i \in 0 .. k : Here(digit, u, m + i) <=> Here(digit, t, i)
  <2> SUFFICES ASSUME NEW i \in 0 .. k PROVE Here(digit, u, m + i) <=> Here(digit, t, i)
    OBVIOUS
  <2>1. CASE i = 0
    <3>1. m + i = m /\ m \in 0 .. m
      BY <1>1, <2>1
    <3>2. ~Here(digit, u, m)
      BY <1>1, <1>2, <3>1 DEF Here
    <3> QED
      BY <2>1, <3>1, <3>2 DEF Here
  <2>2. CASE i \in 1 .. k
    <3>1. /\ m + i \in 1 .. (Len(u) - 1) <=> i \in 1 .. (Len(t) - 1)
          /\ u[m + i] = t[i]
      BY <1>1, <2>2 DEF k
    <3>2. i \in 1 .. (Len(t) - 1) => i + 1 \in 1 .. k /\ (m + i) + 1 = m + (i + 1)
      BY <1>1, <2>2 DEF k
    <3>3. i \in 1 .. (Len(t) - 1) => u[(m + i) + 1] = t[i + 1]
      BY <1>1, <3>2
    <3> QED
      BY <3>1, <3>3 DEF Here
  <2> QED
    BY <2>1, <2>2
<1>5. \A x \in Seq(Token) :
         /\ Unescaped(digit, by, x) = FlattenSeq(R(x))
         /\ R(x) \in Seq(Seq(Token)) /\ Len(R(x)) = Len(x)
         /\ \A i \in 1 .. Len(x) :
                 R(x)[i] = IF Here(digit, x, i) THEN One(by)
                           ELSE IF Here(digit, x, i - 1) THEN <<>> ELSE One(x[i])
  BY ReplacedIs
<1> HIDE DEF R
<1>6. \A i \in 1 .. m : R(u)[i] = R(s)[i]
  <2> SUFFICES ASSUME NEW i \in 1 .. m PROVE R(u)[i] = R(s)[i]
    OBVIOUS
  <2>1. i \in 1 .. Len(u) /\ i \in 1 .. Len(s) /\ i \in 0 .. m /\ i - 1 \in 0 .. m /\ u[i] = s[i]
    BY <1>1 DEF m
  <2> QED
    BY <1>1, <1>3, <1>5, <2>1
<1>7. \A i \in 1 .. k : R(u)[m + i] = R(t)[i]
  <2> SUFFICES ASSUME NEW i \in 1 .. k PROVE R(u)[m + i] = R(t)[i]
    OBVIOUS
  <2>1. /\ m + i \in 1 .. Len(u) /\ i \in 1 .. Len(t) /\ i \in 0 .. k /\ i - 1 \in 0 .. k
        /\ u[m + i] = t[i] /\ (m + i) - 1 = m + (i - 1)
    BY <1>1 DEF k
  <2>2. (Here(digit, u, m + i) <=> Here(digit, t, i))
        /\ (Here(digit, u, (m + i) - 1) <=> Here(digit, t, i - 1))
    BY <1>4, <2>1
  <2> QED
    BY <1>1, <1>5, <2>1, <2>2
<1>8. R(u) = R(s) \o R(t)
  <2> DEFINE a == R(s)  b == R(t)  c == R(u)  A == Seq(Token)
  <2>1. a \in Seq(A) /\ b \in Seq(A) /\ c \in Seq(A) /\ Len(a) = m /\ Len(b) = k /\ Len(c) = m + k
    BY <1>1, <1>5 DEF m, k
  <2>2. (\A i \in 1 .. m : c[i] = a[i]) /\ \A i \in 1 .. k : c[m + i] = b[i]
    BY <1>6, <1>7
  <2> HIDE DEF a, b, c, A
  <2>3. /\ a \o b \in Seq(A) /\ Len(a \o b) = m + k
        /\ \A i \in 1 .. (m + k) : (a \o b)[i] = IF i <= m THEN a[i] ELSE b[i - m]
    BY <2>1, ConcatProperties
  <2> DEFINE d == a \o b
  <2> HIDE DEF d
  <2>4. ASSUME NEW i \in 1 .. (m + k) PROVE c[i] = d[i]
    <3>1. CASE i <= m
      BY <1>1, <2>2, <2>3, <3>1 DEF d
    <3>2. CASE ~(i <= m)
      <4>1. i - m \in 1 .. k /\ m + (i - m) = i
        BY <1>1, <3>2
      <4>2. c[m + (i - m)] = b[i - m]
        BY <2>2, <4>1
      <4> QED
        BY <2>3, <3>2, <4>1, <4>2 DEF d
    <3> QED
      BY <3>1, <3>2
  <2>5. d \in Seq(A) /\ Len(d) = m + k
    BY <2>3 DEF d
  <2>6. c = d
    BY <2>1, <2>4, <2>5
  <2> QED
    BY <2>6 DEF a, b, c, d
<1>9. FlattenSeq(R(s) \o R(t)) = FlattenSeq(R(s)) \o FlattenSeq(R(t))
  BY <1>5, FlattenConcat
<1>10. FlattenSeq(R(u)) = Cat(FlattenSeq(R(s)), FlattenSeq(R(t)))
  BY <1>8, <1>9, Zenon DEF Cat
<1> QED
  BY <1>1, <1>5, <1>10 DEF u

LEMMA UnescapedEmpty ==
    ASSUME NEW digit, NEW by
    PROVE  Unescaped(digit, by, <<>>) = <<>>
<1>1. Replaced(digit, by, <<>>) = <<>>
  BY DEF Replaced
<1> QED
  BY <1>1, FlattenEmpty DEF Unescaped, Replaced, Here

LEMMA UnescapedOne ==
    ASSUME NEW digit, digit # "~", NEW by \in Token, NEW c \in Token
    PROVE  Unescaped(digit, by, One(c)) = One(c)
<1> DEFINE x == One(c)
<1>1. x \in Seq(Token) /\ Len(x) = 1 /\ x[1] = c
  BY DEF One
<1> HIDE DEF x
<1>2. ~Here(digit, x, 1) /\ ~Here(digit, x, 1 - 1)
  BY <1>1 DEF Here
<1> DEFINE R == Replaced(digit, by, x)
<1>3. Unescaped(digit, by, x) = FlattenSeq(R) /\ R \in Seq(Seq(Token)) /\ Len(R) = 1 /\ R[1] = One(c)
  BY <1>1, <1>2, ReplacedIs
<1>4. R = <<One(c)>>
  <2> HIDE DEF R
  <2> QED
    BY <1>3
<1>5. FlattenSeq(<<One(c)>>) = One(c)
  BY OneType, FlattenOne
<1> QED
  BY <1>3, <1>4, <1>5 DEF x

LEMMA UnescapedTwo ==
    ASSUME NEW digit, digit # "~", NEW by \in Token, NEW d \in Token, d # "~"
    PROVE  Unescaped(digit, by, Two("~", d)) = IF d = digit THEN One(by) ELSE Two("~", d)
<1> DEFINE x == Two("~", d)
<1>1. "~" \in Token
  BY DEF Token, Marks
<1>2. x \in Seq(Token) /\ Len(x) = 2 /\ x[1] = "~" /\ x[2] = d
  BY <1>1 DEF Two
<1> HIDE DEF x
<1>3. /\ ~Here(digit, x, 1 - 1) /\ (Here(digit, x, 1) <=> d = digit) /\ ~Here(digit, x, 2)
      /\ (Here(digit, x, 2 - 1) <=> d = digit)
  BY <1>2 DEF Here
<1> DEFINE R == Replaced(digit, by, x)
<1>4. /\ Unescaped(digit, by, x) = FlattenSeq(R) /\ R \in Seq(Seq(Token)) /\ Len(R) = 2
      /\ R[1] = IF d = digit THEN One(by) ELSE One("~")
      /\ R[2] = IF d = digit THEN <<>> ELSE One(d)
  <2>1. /\ Unescaped(digit, by, x) = FlattenSeq(R) /\ R \in Seq(Seq(Token)) /\ Len(R) = 2
        /\ \A i \in 1 .. 2 : R[i] = IF Here(digit, x, i) THEN One(by)
                                    ELSE IF Here(digit, x, i - 1) THEN <<>> ELSE One(x[i])
    BY <1>2, ReplacedIs, SMTT(30)
  <2> HIDE DEF R
  <2> QED
    BY <1>2, <1>3, <2>1
<1> DEFINE a == R[1]  b == R[2]  one == <<a>>
<1>5. a \in Seq(Token) /\ b \in Seq(Token) /\ R = Append(one, b) /\ one \in Seq(Seq(Token))
  <2> DEFINE A == Seq(Token)
  <2>1. R \in Seq(A) /\ Len(R) = 2
    BY <1>4
  <2> HIDE DEF R, A
  <2>2. a \in A /\ b \in A /\ one \in Seq(A) /\ R = Append(one, b)
    BY <2>1
  <2> QED
    BY <2>2 DEF A
<1> HIDE DEF R
<1>6. FlattenSeq(R) = a \o b
  <2> HIDE DEF a, b
  <2>1. FlattenSeq(one) = a
    BY <1>5, FlattenOne
  <2> HIDE DEF one
  <2> QED
    BY <1>5, <2>1, FlattenAppend
<1> HIDE DEF a, b
<1>7. a \o b = IF d = digit THEN One(by) ELSE Two("~", d)
  <2>1. CASE d = digit
    <3>1. a = One(by) /\ b = <<>>
      BY <1>4, <2>1 DEF a, b
    <3>2. a \o b = a
      BY <1>5, <3>1
    <3> QED
      BY <2>1, <3>1, <3>2
  <2>2. CASE d # digit
    <3>1. a = <<"~">> /\ b = <<d>>
      BY <1>4, <2>2 DEF a, b, One
    <3>2. Append(a, d) = a \o <<d>>
      BY <1>5
    <3>3. Append(a, d) = <<"~", d>>
      <4> DEFINE p == Append(a, d)  q == <<"~", d>>
      <4>1. Len(a) = 1 /\ a[1] = "~"
        BY <3>1
      <4>2. p \in Seq(Token) /\ Len(p) = 2 /\ p[1] = "~" /\ p[2] = d
        <5>1. /\ p \in Seq(Token) /\ Len(p) = Len(a) + 1 /\ p[Len(a) + 1] = d
              /\ \A i \in 1 .. Len(a) : p[i] = a[i]
          BY <1>5, AppendProperties
        <5> HIDE DEF p
        <5>2. Len(a) + 1 = 2 /\ 1 \in 1 .. Len(a)
          BY <4>1
        <5> QED
          BY <4>1, <5>1, <5>2
      <4>3. q \in Seq(Token) /\ Len(q) = 2 /\ q[1] = "~" /\ q[2] = d
        BY <1>1
      <4> HIDE DEF p, q
      <4>4. p = q
        BY <4>2, <4>3
      <4> QED
        BY <4>4 DEF p, q
    <3>4. a \o b = <<"~", d>>
      BY <3>1, <3>2, <3>3, Zenon
    <3> QED
      BY <2>2, <3>4 DEF Two
  <2> QED
    BY <2>1, <2>2
<1> QED
  BY <1>4, <1>6, <1>7 DEF x

Ends(s) == s # <<>> /\ s[Len(s)] # "~"

\* The replacement, code by code.
LEMMA UnescapedWritten ==
    ASSUME NEW digit, digit # "~", NEW by \in Token, NEW A, NEW code, NEW uncode,
           IsCode(A, Token, code), IsCode(A, Token, uncode),
           \A c \in A : Ends(code[c]) /\ Unescaped(digit, by, code[c]) = uncode[c]
    PROVE  \A s \in Seq(A) : Unescaped(digit, by, Written(code, s)) = Written(uncode, s)
<1> DEFINE T == {s \in Seq(A) : /\ Settled(Written(code, s))
                                /\ Unescaped(digit, by, Written(code, s)) = Written(uncode, s)}
<1>1. <<>> \in T
  BY UnescapedEmpty, WrittenEmpty DEF Settled
<1>2. ASSUME NEW s \in Seq(A), NEW c \in A, s \in T
      PROVE  Append(s, c) \in T
  <2> DEFINE one == <<c>>  w == Written(code, s)  v == Written(uncode, s)
  <2>1. one \in Seq(A) /\ Append(s, c) = s \o one /\ Append(s, c) \in Seq(A)
    OBVIOUS
  <2>2. /\ code[c] \in Seq(Token) /\ w \in Seq(Token) /\ Ends(code[c])
        /\ Unescaped(digit, by, code[c]) = uncode[c]
        /\ Settled(w) /\ Unescaped(digit, by, w) = v
    BY <1>2, WrittenType DEF IsCode
  <2>3. Written(code, one) = code[c] /\ Written(uncode, one) = uncode[c]
    BY WrittenOne
  <2> HIDE DEF one
  <2>4. /\ Written(code, s \o one) = Cat(w, code[c])
        /\ Written(uncode, s \o one) = Cat(v, uncode[c])
    <3>1. Written(code, s \o one) = Written(code, s) \o Written(code, one)
      BY <2>1, WrittenConcat
    <3>2. Written(uncode, s \o one) = Written(uncode, s) \o Written(uncode, one)
      BY <2>1, WrittenConcat
    <3> QED
      BY <2>3, <3>1, <3>2 DEF Cat
  <2> DEFINE x == code[c]
  <2> HIDE DEF w, v, x
  <2>5. Unescaped(digit, by, Cat(w, x)) = Cat(v, uncode[c])
    BY <2>2, UnescapedConcat DEF x
  <2>6. Settled(Cat(w, x))
    <3>1. /\ w \in Seq(Token) /\ x \in Seq(Token) /\ Len(x) > 0 /\ x[Len(x)] # "~"
      BY <2>2 DEF Ends, x
    <3>2. /\ Len(w \o x) = Len(w) + Len(x) /\ Len(w) + Len(x) > Len(w)
          /\ Len(w) + Len(x) \in 1 .. (Len(w) + Len(x))
          /\ (Len(w) + Len(x)) - Len(w) = Len(x)
      BY <3>1, ConcatProperties
    <3>3. (w \o x)[Len(w) + Len(x)] = x[Len(x)]
      BY <3>1, <3>2, ConcatProperties
    <3> QED
      BY <3>1, <3>2, <3>3 DEF Settled, Cat
  <2> QED
    BY <2>1, <2>4, <2>5, <2>6 DEF x
<1> HIDE DEF T
<1>3. \A s \in Seq(A) : s \in T
  BY <1>1, <1>2, BuiltByAppend
<1> QED
  BY <1>3 DEF T

\* What is written with itself stays the same.
LEMMA WrittenSame ==
    ASSUME NEW A, NEW B, NEW code, IsCode(A, B, code), \A c \in A : code[c] = One(c)
    PROVE  \A s \in Seq(A) : Written(code, s) = s
<1> DEFINE T == {s \in Seq(A) : Written(code, s) = s}
<1>1. <<>> \in T
  BY WrittenEmpty
<1>2. ASSUME NEW s \in Seq(A), NEW c \in A, s \in T
      PROVE  Append(s, c) \in T
  <2> DEFINE one == <<c>>
  <2>1. one \in Seq(A) /\ Append(s, c) = s \o one /\ Append(s, c) \in Seq(A) /\ One(c) = one
    BY DEF One
  <2>2. Written(code, one) = code[c]
    BY WrittenOne
  <2> HIDE DEF one
  <2>3. Written(code, s \o one) = Written(code, s) \o one
    BY <2>1, <2>2, WrittenConcat
  <2> QED
    BY <1>2, <2>1, <2>3
<1> HIDE DEF T
<1>3. \A s \in Seq(A) : s \in T
  BY <1>1, <1>2, BuiltByAppend
<1> QED
  BY <1>3 DEF T

TildeCode == [c \in Token |-> CASE c = "~" -> Two("~", "0") [] c = "/" -> Two("~", "1")
                                [] OTHER -> One(c)]
HalfCode == [c \in Token |-> IF c = "~" THEN Two("~", "0") ELSE One(c)]
SameCode == [c \in Token |-> One(c)]
DigitCode == [c \in Digits |-> One(c)]

LEMMA PointerTokens ==
    /\ "~" \in Token /\ "/" \in Token /\ "0" \in Token /\ "1" \in Token
    /\ "~" \notin Digits /\ "+" \notin Digits /\ "-" \notin Digits
<1>1. Digit[1] = "0" /\ Digit[2] = "1"
  BY DEF Digit
<1>2. "0" \in Digits /\ "1" \in Digits
  BY <1>1, DigitsAre
<1>3. \A i \in 1 .. 10 : Digit[i] \in {"0", "1", "2", "3", "4", "5", "6", "7", "8", "9"}
  BY DEF Digit
<1>4. \A d \in Digits : \E i \in 1 .. 10 : d = Digit[i]
  BY DEF Digits, Range, Digit
<1>5. \A d \in {"0", "1", "2", "3", "4", "5", "6", "7", "8", "9"} : d # "~" /\ d # "+" /\ d # "-"
  OBVIOUS
<1> QED
  BY <1>2, <1>3, <1>4, <1>5 DEF Token, Marks

LEMMA PointerCodes ==
    /\ IsCode(Token, Token, TildeCode) /\ IsCode(Token, Token, HalfCode)
    /\ IsCode(Token, Token, SameCode) /\ IsCode(Digits, Token, DigitCode)
<1>1. /\ Two("~", "0") \in Seq(Token) /\ Two("~", "1") \in Seq(Token)
      /\ \A c \in Token : One(c) \in Seq(Token)
  BY PointerTokens, OneType
<1>2. \A c \in Digits : One(c) \in Seq(Token)
  BY <1>1, DigitsAre
<1>3. \A c \in Token : TildeCode[c] \in Seq(Token)
  BY <1>1 DEF TildeCode
<1>4. \A c \in Token : HalfCode[c] \in Seq(Token)
  BY <1>1 DEF HalfCode
<1> QED
  BY <1>1, <1>2, <1>3, <1>4 DEF IsCode, TildeCode, HalfCode, SameCode, DigitCode

LEMMA EndsAre ==
    /\ \A d : d # "~" => Ends(Two("~", d)) /\ Ends(One(d))
  BY DEF Ends, Two, One

\* What is escaped is there again when it is unescaped, the slashes before the
\* tildes (evaluator.go:710-712).
LEMMA EscapedBack ==
    ASSUME NEW key \in Seq(Token)
    PROVE  Unescape(Written(TildeCode, key)) = key
<1>1. ASSUME NEW c \in Token
      PROVE  Ends(TildeCode[c]) /\ Unescaped("1", "/", TildeCode[c]) = HalfCode[c]
  <2>1. CASE c = "~"
    <3>1. TildeCode[c] = Two("~", "0") /\ HalfCode[c] = Two("~", "0")
      BY <2>1, PointerTokens DEF TildeCode, HalfCode
    <3>2. Unescaped("1", "/", Two("~", "0")) = Two("~", "0")
      BY PointerTokens, UnescapedTwo
    <3> QED
      BY <3>1, <3>2, EndsAre
  <2>2. CASE c = "/"
    <3>1. TildeCode[c] = Two("~", "1") /\ HalfCode[c] = One("/")
      BY <2>2, PointerTokens DEF TildeCode, HalfCode
    <3>2. Unescaped("1", "/", Two("~", "1")) = One("/")
      BY PointerTokens, UnescapedTwo
    <3> QED
      BY <3>1, <3>2, EndsAre
  <2>3. CASE c # "~" /\ c # "/"
    <3>1. TildeCode[c] = One(c) /\ HalfCode[c] = One(c)
      BY <2>3 DEF TildeCode, HalfCode
    <3>2. Unescaped("1", "/", One(c)) = One(c)
      BY PointerTokens, UnescapedOne
    <3> QED
      BY <2>3, <3>1, <3>2, EndsAre
  <2> QED
    BY <2>1, <2>2, <2>3
<1>2. Unescaped("1", "/", Written(TildeCode, key)) = Written(HalfCode, key)
  BY <1>1, PointerTokens, PointerCodes, UnescapedWritten
<1>3. ASSUME NEW c \in Token
      PROVE  Ends(HalfCode[c]) /\ Unescaped("0", "~", HalfCode[c]) = SameCode[c]
  <2>1. CASE c = "~"
    <3>1. HalfCode[c] = Two("~", "0") /\ SameCode[c] = One("~")
      BY <2>1 DEF HalfCode, SameCode
    <3>2. Unescaped("0", "~", Two("~", "0")) = One("~")
      BY PointerTokens, UnescapedTwo
    <3> QED
      BY <3>1, <3>2, EndsAre
  <2>2. CASE c # "~"
    <3>1. HalfCode[c] = One(c) /\ SameCode[c] = One(c)
      BY <2>2 DEF HalfCode, SameCode
    <3>2. Unescaped("0", "~", One(c)) = One(c)
      BY PointerTokens, UnescapedOne
    <3> QED
      BY <2>2, <3>1, <3>2, EndsAre
  <2> QED
    BY <2>1, <2>2
<1>4. Unescaped("0", "~", Written(HalfCode, key)) = Written(SameCode, key)
  BY <1>3, PointerTokens, PointerCodes, UnescapedWritten
<1>5. Written(SameCode, key) = key
  BY PointerCodes, WrittenSame DEF SameCode
<1> QED
  BY <1>2, <1>4, <1>5 DEF Unescape

LEMMA DigitsStay ==
    ASSUME NEW part \in Seq(Digits)
    PROVE  Unescape(part) = part
<1>1. Written(DigitCode, part) = part
  BY PointerCodes, WrittenSame DEF DigitCode
<1>2. ASSUME NEW digit, digit # "~", NEW by \in Token
      PROVE  Unescaped(digit, by, part) = part
  <2>1. \A c \in Digits : c \in Token /\ c # "~" /\ DigitCode[c] = One(c)
    BY PointerTokens, DigitsAre DEF DigitCode
  <2>2. \A c \in Digits : Ends(DigitCode[c]) /\ Unescaped(digit, by, DigitCode[c]) = DigitCode[c]
    BY <1>2, <2>1, EndsAre, UnescapedOne
  <2>3. Unescaped(digit, by, Written(DigitCode, part)) = Written(DigitCode, part)
    BY <1>2, <2>2, PointerCodes, UnescapedWritten
  <2> QED
    BY <1>1, <2>3
<1> QED
  BY <1>2, PointerTokens DEF Unescape

LEMMA EscapeIs ==
    ASSUME NEW step \in Step, ~IsIndex(step)
    PROVE  Escape(step) = Written(TildeCode, step.key) /\ step.key \in Seq(Token)
<1> DEFINE key == step.key
           escaped(c) == CASE c = "~" -> <<"~", "0">> [] c = "/" -> <<"~", "1">> [] OTHER -> <<c>>
<1>1. key \in Seq(Token)
  BY StepIs
<1> HIDE DEF key
<1>2. \A n \in DOMAIN key : key[n] \in Token
  BY <1>1
<1>3. \A n \in DOMAIN key : escaped(key[n]) = TildeCode[key[n]]
  BY <1>2 DEF TildeCode, One, Two
<1>4. [n \in DOMAIN key |-> escaped(key[n])] = [i \in DOMAIN key |-> TildeCode[key[i]]]
  BY <1>3
<1>5. Escape(step) = FlattenSeq([n \in DOMAIN key |-> escaped(key[n])])
  BY DEF Escape, key
<1> HIDE DEF escaped
<1>6. Escape(step) = Written(TildeCode, key)
  BY <1>4, <1>5, Zenon DEF Written
<1> QED
  BY <1>1, <1>6 DEF key

\* A step a pointer tells from nothing and from an index is written in a path
\* as childPath writes it (evaluator.go:707-721).
LEMMA PartPieceIs ==
    ASSUME NEW step \in Step,
           ~IsIndex(step) => step.key # <<>> /\ ~StartsWithNumber(step.key)
    PROVE  PartPiece(Escape(step)) = Piece(step)
<1>1. CASE IsIndex(step)
  <2> DEFINE part == Decimal[step.index]
  <2>1. part \in Seq(Digits) /\ part # <<>> /\ Escape(step) = part
    BY <1>1, StepIs, DecimalType DEF Escape
  <2>2. Piece(step) = <<"[">> \o part \o <<"]">>
    BY <1>1 DEF Piece
  <2> HIDE DEF part
  <2>3. Unescape(part) = part
    BY <2>1, DigitsStay
  <2>4. part[1] \in Digits
    BY <2>1
  <2>5. StartsWithNumber(part)
    BY <2>1, <2>4, PointerTokens DEF StartsWithNumber
  <2>6. PartPiece(part) = <<"[">> \o Unescape(part) \o <<"]">>
    BY <2>1, <2>3, <2>5 DEF PartPiece
  <2> QED
    BY <2>1, <2>2, <2>3, <2>6
<1>2. CASE ~IsIndex(step)
  <2> DEFINE part == Escape(step)
  <2>1. step.key \in Seq(Token) /\ Unescape(part) = step.key
    BY <1>2, EscapeIs, EscapedBack
  <2>2. part # <<>>
    <3> SUFFICES ASSUME part = <<>> PROVE FALSE
      OBVIOUS
    <3>1. Unescape(<<>>) = <<>>
      BY UnescapedEmpty DEF Unescape
    <3> QED
      BY <1>2, <2>1, <3>1
  <2> HIDE DEF part
  <2>3. PartPiece(part) = KeyPiece(step.key)
    BY <1>2, <2>1, <2>2 DEF PartPiece
  <2> QED
    BY <1>2, <2>3 DEF Piece, part
<1> QED
  BY <1>1, <1>2

\* The pointer of a location, made a path again, is the location's path.
THEOREM PointersAreRead ==
    ASSUME NEW root, NEW location \in Location,
           \A n \in DOMAIN location : ~IsIndex(location[n]) =>
              location[n].key # <<>> /\ ~StartsWithNumber(location[n].key)
    PROVE  PointerJSONPath(root, location) = Path(root, location)
<1>1. \A n \in DOMAIN location : location[n] \in Step
  BY DEF Location
<1>2. \A n \in DOMAIN location : PartPiece(Escape(location[n])) = Piece(location[n])
  BY <1>1, PartPieceIs
<1>3. [n \in DOMAIN location |-> PartPiece(Escape(location[n]))]
         = [n \in DOMAIN location |-> Piece(location[n])]
  BY <1>2
<1> QED
  BY <1>3, Zenon DEF PointerJSONPath, Path
=============================================================================
