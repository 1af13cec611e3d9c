-------------------------- MODULE ReservoirLemmas --------------------------
(***************************************************************************)
(* What the arithmetic of the reservoir sampler does to a list, for every  *)
(* number of lanes and width of the words: a line of the list is one step  *)
(* of it (AfterExtends), and the word it selects has the label that was    *)
(* asked for (LabelledExtends).                                            *)
(*                                                                         *)
(* The arithmetic is recursive.  What it computes is proved by induction   *)
(* in the form of SetInduction, which speaks of a set and not of a         *)
(* predicate.                                                              *)
(***************************************************************************)
EXTENDS Wrs, StreamLemmas, WellFoundedInduction, TLAPS

-----------------------------------------------------------------------------
(* Induction                                                               *)

\* A set of naturals that is not empty has a smallest element.
LEMMA Smallest ==
  ASSUME NEW T, T \subseteq Nat, T # {}
  PROVE  \E n \in T : \A m \in T : n <= m
<1> DEFINE R == OpToRel(<, Nat)
<1>1. IsWellFoundedOn(R, Nat)
  BY NatLessThanWellFounded, Zenon
<1> HIDE DEF R
<1>2. PICK n \in T : \A y \in T : ~(<<y, n>> \in R)
  BY <1>1, WFMin, Zenon
<1>3. \A y \in T : <<y, n>> \in Nat \X Nat
  OBVIOUS
<1>4. \A y \in T : ~(y < n)
  BY <1>2, <1>3 DEF R, OpToRel
<1> QED
  BY <1>4

\* A set with 0 and the successors of its elements holds every number up to m.
LEMMA SetInduction ==
  ASSUME NEW m \in Nat, NEW S, 0 \in S, \A n \in 0 .. m - 1 : n \in S => n + 1 \in S
  PROVE  \A n \in 0 .. m : n \in S
<1> DEFINE T == {n \in 0 .. m : n \notin S}
<1>1. SUFFICES ASSUME T # {}
               PROVE  FALSE
  OBVIOUS
<1>2. T \subseteq Nat
  OBVIOUS
<1>3. PICK n \in T : \A k \in T : n <= k
  BY <1>1, <1>2, Smallest
<1>4. n # 0 /\ n - 1 \in 0 .. m - 1 /\ n - 1 \notin T
  BY <1>3
<1>5. n - 1 \in S /\ (n - 1) + 1 = n
  BY <1>4
<1>6. n \in S
  BY <1>4, <1>5
<1> QED
  BY <1>6

-----------------------------------------------------------------------------
(* partial_sum                                                             *)

\* the sums of the first words of a line
SumsUpTo(g, w, n) ==
    /\ g \in [1 .. n -> Nat]
    /\ \A i \in 1 .. n : g[i] = IF i = 1 THEN w[1] ELSE (g[i - 1] + w[i]) % SumMod

\* There are sums of a line of weights.
LEMMA SumsExist ==
  ASSUME NEW w \in [Lane -> Nat]
  PROVE  \E g : SumsUpTo(g, w, Lanes)
<1> DEFINE S == {n \in Nat : \E g : SumsUpTo(g, w, n)}
<1>1. 0 \in S
  <2>1. SumsUpTo(<<>>, w, 0)
    BY DEF SumsUpTo
  <2> QED
    BY <2>1
<1>2. ASSUME NEW n \in 0 .. Lanes - 1, n \in S
      PROVE  n + 1 \in S
  <2>1. PICK g : SumsUpTo(g, w, n)
    BY <1>2
  <2> DEFINE x == IF n = 0 THEN w[1] ELSE (g[n] + w[n + 1]) % SumMod
             h == [i \in 1 .. n + 1 |-> IF i = n + 1 THEN x ELSE g[i]]
  <2>2. w[1] \in Nat /\ w[n + 1] \in Nat
    BY ReservoirAssumption DEF Lane
  <2>3. n # 0 => g[n] \in Nat
    BY <2>1 DEF SumsUpTo
  <2>4. x \in Nat
    BY <2>2, <2>3, ReservoirAssumption
  <2> HIDE DEF x
  <2>5. h \in [1 .. n + 1 -> Nat]
    BY <2>1, <2>4 DEF SumsUpTo
  <2>6. ASSUME NEW i \in 1 .. n + 1
        PROVE  h[i] = IF i = 1 THEN w[1] ELSE (h[i - 1] + w[i]) % SumMod
    <3>1. CASE i = n + 1
      BY <3>1, <2>1 DEF SumsUpTo, x
    <3>2. CASE i # n + 1
      <4>1. i \in 1 .. n /\ (i # 1 => i - 1 \in 1 .. n)
        BY <3>2
      <4>2. h[i] = g[i] /\ (i # 1 => h[i - 1] = g[i - 1])
        BY <4>1
      <4> QED
        BY <4>1, <4>2, <2>1 DEF SumsUpTo
    <3> QED
      BY <3>1, <3>2
  <2> HIDE DEF h
  <2>7. SumsUpTo(h, w, n + 1)
    BY <2>5, <2>6 DEF SumsUpTo
  <2> QED
    BY <2>7
<1> HIDE DEF S
<1>3. Lanes \in Nat /\ Lanes \in 0 .. Lanes
  BY ReservoirAssumption
<1>4. Lanes \in S
  BY <1>1, <1>2, <1>3, SetInduction
<1> QED
  BY <1>4 DEF S

\* partial_sum writes the sums of the weights of a line.
LEMMA PartialSumIs ==
  ASSUME NEW w \in [Lane -> Nat]
  PROVE  SumsUpTo(PartialSum(w), w, Lanes)
<1> DEFINE Eq(g) == g = [i \in Lane |-> IF i = 1 THEN w[1] ELSE (g[i - 1] + w[i]) % SumMod]
<1>1. PICK g : SumsUpTo(g, w, Lanes)
  BY SumsExist
<1>2. Eq(g)
  BY <1>1 DEF SumsUpTo, Lane
<1>3. PartialSum(w) = CHOOSE h : Eq(h)
  BY Zenon DEF PartialSum
<1>4. Eq(PartialSum(w))
  BY <1>2, <1>3, Zenon
<1> DEFINE p == PartialSum(w)
<1>5. p = [i \in Lane |-> IF i = 1 THEN w[1] ELSE (p[i - 1] + w[i]) % SumMod]
  BY <1>4
<1> HIDE DEF p
<1>6. DOMAIN p = 1 .. Lanes /\ \A i \in 1 .. Lanes :
          p[i] = IF i = 1 THEN w[1] ELSE (p[i - 1] + w[i]) % SumMod
  BY <1>5 DEF Lane
<1> DEFINE S == {n \in Nat : n \in 1 .. Lanes => p[n] \in Nat}
<1>7. ASSUME NEW n \in 0 .. Lanes - 1, n \in S
      PROVE  n + 1 \in S
  <2>1. w[n + 1] \in Nat /\ n + 1 \in 1 .. Lanes
    BY ReservoirAssumption DEF Lane
  <2>2. CASE n = 0
    BY <2>1, <2>2, <1>6
  <2>3. CASE n # 0
    <3>1. n \in 1 .. Lanes /\ p[n] \in Nat
      BY <1>7, <2>3, ReservoirAssumption
    <3>2. p[n + 1] = (p[n] + w[n + 1]) % SumMod
      BY <1>6, <2>1, <2>3
    <3> QED
      BY <3>1, <3>2, <2>1, ReservoirAssumption
  <2> QED
    BY <2>2, <2>3
<1>8. 0 \in S /\ Lanes \in Nat
  BY ReservoirAssumption
<1> HIDE DEF S
<1>9. \A n \in 0 .. Lanes : n \in S
  BY <1>7, <1>8, SetInduction
<1>10. \A n \in 1 .. Lanes : p[n] \in Nat
  BY <1>9 DEF S
<1>11. p \in [1 .. Lanes -> Nat]
  BY <1>5, <1>6, <1>10 DEF Lane
<1> QED
  BY <1>6, <1>11 DEF SumsUpTo, p

-----------------------------------------------------------------------------
(* A list, line by line                                                    *)

StartState == [base |-> 0, selected |-> Dead]

ScaleOf(base, w, r) == [i \in Lane |-> Scale(r[i], base, PartialSum(w)[i])]

\* what a line does to the sum and to the selection
LineStep(s, k, w, r) ==
    [base |-> NextBase(s.base, PartialSum(w)),
     selected |-> Keep(s.selected, k * Lanes, Mask(w, ScaleOf(s.base, w, r)))]

\* the states after the first lines of a list
IsRun(g, lines, rngs) ==
    g = [k \in 0 .. Len(lines) |->
           IF k = 0 THEN StartState ELSE LineStep(g[k - 1], k - 1, lines[k], rngs[k])]

\* The states after the lines of a list exist.
LEMMA RunExists ==
  ASSUME NEW lines, NEW rngs, Len(lines) \in Nat
  PROVE  \E g : IsRun(g, lines, rngs)
<1> DEFINE D(g, n) == [k \in 0 .. n |-> IF k = 0 THEN StartState
                                        ELSE LineStep(g[k - 1], k - 1, lines[k], rngs[k])]
           S == {n \in Nat : \E g : g = D(g, n)}
<1>1. 0 \in S
  <2> DEFINE g == [k \in 0 .. 0 |-> StartState]
  <2>1. g = D(g, 0)
    OBVIOUS
  <2> QED
    BY <2>1
<1>2. ASSUME NEW n \in Nat, n \in S
      PROVE  n + 1 \in S
  <2>1. PICK g : g = D(g, n)
    BY <1>2
  <2> DEFINE x == LineStep(g[n], n, lines[n + 1], rngs[n + 1])
             h == [k \in 0 .. n + 1 |-> IF k = n + 1 THEN x ELSE g[k]]
  <2>2. ASSUME NEW k \in 0 .. n + 1
        PROVE  h[k] = IF k = 0 THEN StartState
                      ELSE LineStep(h[k - 1], k - 1, lines[k], rngs[k])
    <3>1. CASE k = n + 1
      <4>1. k # 0 /\ k - 1 = n /\ n \in 0 .. n + 1 /\ n # n + 1
        BY <3>1
      <4>2. h[k] = x /\ h[k - 1] = g[n]
        BY <3>1, <4>1
      <4> QED
        BY <3>1, <4>1, <4>2
    <3>2. CASE k # n + 1
      <4>1. k \in 0 .. n /\ (k # 0 => k - 1 \in 0 .. n)
        BY <3>2
      <4>2. h[k] = g[k] /\ (k # 0 => h[k - 1] = g[k - 1])
        BY <4>1
      <4>3. g[k] = IF k = 0 THEN StartState ELSE LineStep(g[k - 1], k - 1, lines[k], rngs[k])
        BY <2>1, <4>1, Zenon
      <4> QED
        BY <4>2, <4>3, Zenon
    <3> QED
      BY <3>1, <3>2
  <2>3. h = D(h, n + 1)
    BY <2>2, Zenon
  <2> HIDE DEF h
  <2> QED
    BY <2>3
<1> HIDE DEF S, D
<1>3. Len(lines) \in 0 .. Len(lines)
  OBVIOUS
<1>4. \A n \in 0 .. Len(lines) - 1 : n \in S => n + 1 \in S
  BY <1>2
<1>5. Len(lines) \in S
  BY <1>1, <1>3, <1>4, SetInduction
<1> QED
  BY <1>5, Zenon DEF S, D, IsRun

\* The arithmetic of a whole list is the last of these states.
LEMMA AfterLinesIs ==
  ASSUME NEW lines, NEW rngs, Len(lines) \in Nat
  PROVE  \E g : IsRun(g, lines, rngs) /\ AfterLines(lines, rngs) = g[Len(lines)]
<1> DEFINE g == CHOOSE g : IsRun(g, lines, rngs)
<1>1. IsRun(g, lines, rngs)
  BY RunExists, Zenon
<1>2. AfterLines(lines, rngs) = g[Len(lines)]
  BY Zenon DEF AfterLines, IsRun, LineStep, ScaleOf, StartState
<1> HIDE DEF g
<1> QED
  BY <1>1, <1>2, Zenon

\* Before its first line a list has no sum and no selection.
LEMMA AfterNone ==
  ASSUME NEW rngs
  PROVE  AfterLines(<<>>, rngs) = StartState
<1>1. Len(<<>>) = 0
  OBVIOUS
<1>2. PICK g : IsRun(g, <<>>, rngs) /\ AfterLines(<<>>, rngs) = g[Len(<<>>)]
  BY <1>1, AfterLinesIs
<1>3. 0 \in 0 .. Len(<<>>)
  BY <1>1
<1>4. g[0] = StartState
  BY <1>2, <1>3, Zenon DEF IsRun
<1> QED
  BY <1>1, <1>2, <1>4, Zenon

\* One more line is one more step.
LEMMA AfterAppend ==
  ASSUME NEW V, NEW R, NEW lines \in Seq(V), NEW rngs \in Seq(R), Len(rngs) = Len(lines),
         NEW w \in V, NEW r \in R
  PROVE  AfterLines(Append(lines, w), Append(rngs, r))
           = LineStep(AfterLines(lines, rngs), Len(lines), w, r)
<1> DEFINE l1 == Append(lines, w)
           r1 == Append(rngs, r)
           m  == Len(lines)
<1>1. /\ m \in Nat /\ Len(l1) = m + 1 /\ l1[m + 1] = w /\ r1[m + 1] = r
      /\ \A k \in 1 .. m : l1[k] = lines[k] /\ r1[k] = rngs[k]
  BY PushElements
<1> HIDE DEF l1, r1
<1>2. PICK g : IsRun(g, lines, rngs) /\ AfterLines(lines, rngs) = g[m]
  BY <1>1, AfterLinesIs
<1>3. Len(l1) \in Nat
  BY <1>1
<1>4. PICK h : IsRun(h, l1, r1) /\ AfterLines(l1, r1) = h[Len(l1)]
  BY <1>3, AfterLinesIs
<1> HIDE DEF m
<1>5. \A k \in 0 .. m : g[k] = IF k = 0 THEN StartState
                               ELSE LineStep(g[k - 1], k - 1, lines[k], rngs[k])
  BY <1>2, Zenon DEF IsRun, m
<1>6. \A k \in 0 .. m + 1 : h[k] = IF k = 0 THEN StartState
                                   ELSE LineStep(h[k - 1], k - 1, l1[k], r1[k])
  BY <1>1, <1>4, Zenon DEF IsRun
<1> DEFINE S == {k \in Nat : k \in 0 .. m => h[k] = g[k]}
<1>7. 0 \in S
  <2>1. 0 \in 0 .. m /\ 0 \in 0 .. m + 1
    BY <1>1
  <2>2. h[0] = g[0]
    BY <2>1, <1>5, <1>6, Zenon
  <2> QED
    BY <2>2
<1>8. ASSUME NEW k \in 0 .. m - 1, k \in S
      PROVE  k + 1 \in S
  <2>1. /\ k + 1 \in 0 .. m /\ k + 1 \in 0 .. m + 1 /\ k + 1 # 0 /\ (k + 1) - 1 = k
        /\ k \in 0 .. m /\ k + 1 \in 1 .. m
    BY <1>1
  <2>2. h[k] = g[k]
    BY <1>8, <2>1
  <2>3. h[k + 1] = LineStep(h[k], k, l1[k + 1], r1[k + 1])
    <3>1. h[k + 1] = LineStep(h[(k + 1) - 1], (k + 1) - 1, l1[k + 1], r1[k + 1])
      BY <2>1, <1>6, Zenon
    <3> QED
      BY <3>1, <2>1
  <2>4. g[k + 1] = LineStep(g[k], k, lines[k + 1], rngs[k + 1])
    <3>1. g[k + 1] = LineStep(g[(k + 1) - 1], (k + 1) - 1, lines[k + 1], rngs[k + 1])
      BY <2>1, <1>5, Zenon
    <3> QED
      BY <3>1, <2>1
  <2>5. h[k + 1] = g[k + 1]
    BY <2>1, <2>2, <2>3, <2>4, <1>1, Zenon
  <2> QED
    BY <2>5
<1> HIDE DEF S
<1>9. m \in S /\ m \in 0 .. m
  <2>1. \A k \in 0 .. m - 1 : k \in S => k + 1 \in S
    BY <1>8
  <2>2. m \in Nat
    BY <1>1
  <2>3. \A k \in 0 .. m : k \in S
    BY <2>1, <2>2, <1>7, SetInduction
  <2> QED
    BY <2>2, <2>3
<1>10. h[m] = g[m]
  BY <1>9 DEF S
<1>11. m + 1 \in 0 .. m + 1 /\ m + 1 # 0 /\ (m + 1) - 1 = m
  BY <1>1
<1>12. h[m + 1] = LineStep(h[(m + 1) - 1], (m + 1) - 1, l1[m + 1], r1[m + 1])
  BY <1>6, <1>11, Zenon
<1>13. h[m + 1] = LineStep(h[m], m, w, r)
  BY <1>1, <1>11, <1>12
<1>14. AfterLines(l1, r1) = h[m + 1]
  BY <1>1, <1>4
<1> QED
  BY <1>2, <1>10, <1>13, <1>14, Zenon DEF l1, r1, m

-----------------------------------------------------------------------------
(* Lists of words                                                          *)

Word  == Labels \union OtherWords
Draws == [Lane -> 0 .. RngMod - 1]

\* a list, or the beginning of one
ListSet == {l \in [words: Seq([Lane -> Word]), rngs: Seq(Draws),
                   label: Labels \union {0}, done: BOOLEAN] : Len(l.rngs) = Len(l.words)}

Weights(l) == [k \in 1 .. Len(l.words) |-> Eligible(l.words[k], l.label)]

\* sum and selection after the lines of a list
After(l) == AfterLines(Weights(l), l.rngs)

\* list l is list p and one more line
Extends(l, p, line, r) ==
    /\ l.words = Append(p.words, line)
    /\ l.rngs = Append(p.rngs, r)
    /\ p.words # <<>> => l.label = p.label

\* Weights are 0 or 1.
LEMMA EligibleType ==
  ASSUME NEW line, NEW label
  PROVE  Eligible(line, label) \in [Lane -> {0, 1}]
BY DEF Eligible

\* A line of a list is one step of the arithmetic.
LEMMA AfterExtends ==
  ASSUME NEW l, NEW p \in ListSet, NEW line \in [Lane -> Word], NEW r \in Draws,
         Extends(l, p, line, r)
  PROVE  After(l) = LineStep(After(p), Len(p.words), Eligible(line, l.label), r)
<1> DEFINE w == Eligible(line, l.label)
           V == [Lane -> {0, 1}]
<1>1. /\ p.words \in Seq([Lane -> Word]) /\ p.rngs \in Seq(Draws)
      /\ Len(p.rngs) = Len(p.words)
  BY DEF ListSet
<1>2. Len(p.words) \in Nat
  BY <1>1, LenProperties
<1>3. Weights(p) \in Seq(V) /\ Len(Weights(p)) = Len(p.words)
  <2>1. \A k \in 1 .. Len(p.words) : Eligible(p.words[k], p.label) \in V
    BY EligibleType
  <2> QED
    BY <1>2, <2>1 DEF Weights
<1>4. w \in V
  BY EligibleType
<1>5. Weights(l) = Append(Weights(p), w)
  <2> DEFINE n == Len(p.words)
             a == Append(Weights(p), w)
  <2>1. /\ Len(l.words) = n + 1 /\ l.words[n + 1] = line
        /\ \A k \in 1 .. n : l.words[k] = p.words[k]
    BY <1>1, PushElements DEF Extends
  <2>2. /\ a \in Seq(V) /\ Len(a) = n + 1 /\ a[n + 1] = w
        /\ \A k \in 1 .. n : a[k] = Weights(p)[k]
    BY <1>3, <1>4, PushElements
  <2>3. \A k \in 1 .. n : Weights(p)[k] = Eligible(p.words[k], p.label)
    BY DEF Weights
  <2>4. 1 .. n # {} => l.label = p.label
    <3>1. p.words # <<>> => l.label = p.label
      BY DEF Extends
    <3>2. p.words = <<>> => n = 0
      BY <1>1
    <3> QED
      BY <3>1, <3>2
  <2>5. Weights(l) = [k \in 1 .. n + 1 |-> Eligible(l.words[k], l.label)]
    BY <2>1 DEF Weights
  <2> HIDE DEF n, a
  <2>6. \A k \in 1 .. n + 1 : Eligible(l.words[k], l.label) = a[k]
    <3>1. SUFFICES ASSUME NEW k \in 1 .. n + 1
                   PROVE  Eligible(l.words[k], l.label) = a[k]
      OBVIOUS
    <3>2. CASE k = n + 1
      BY <3>2, <2>1, <2>2
    <3>3. CASE k # n + 1
      <4>1. k \in 1 .. n
        BY <1>2, <3>3 DEF n
      <4> QED
        BY <4>1, <2>1, <2>2, <2>3, <2>4, Zenon
    <3> QED
      BY <3>2, <3>3
  <2>7. a = [k \in 1 .. n + 1 |-> a[k]]
    BY <2>2
  <2> QED
    BY <2>5, <2>6, <2>7, Zenon DEF a
<1>6. Len(Weights(p)) = Len(p.rngs)
  BY <1>1, <1>3
<1> HIDE DEF w, V
<1>7. AfterLines(Append(Weights(p), w), Append(p.rngs, r))
        = LineStep(AfterLines(Weights(p), p.rngs), Len(Weights(p)), w, r)
  BY <1>1, <1>3, <1>4, <1>6, AfterAppend
<1> QED
  BY <1>3, <1>5, <1>7, Zenon DEF After, Extends, w

\* Nothing is known of an empty list.
LEMMA AfterEmpty ==
  ASSUME NEW l, l.words = <<>>
  PROVE  After(l) = StartState
<1>1. Weights(l) = <<>>
  BY DEF Weights
<1> QED
  BY <1>1, AfterNone DEF After

-----------------------------------------------------------------------------
(* The arithmetic of a line                                                *)

\* Division with remainder.
LEMMA Division ==
  ASSUME NEW y \in Nat, NEW d \in Nat, d > 0
  PROVE  /\ y \div d \in Nat /\ y % d \in 0 .. d - 1
         /\ y = d * (y \div d) + (y % d)
<1>1. y = d * (y \div d) + (y % d)
  OBVIOUS
<1>2. y \div d \in Int /\ y \div d >= 0
  OBVIOUS
<1>3. y % d \in 0 .. d - 1
  OBVIOUS
<1> QED
  BY <1>1, <1>2, <1>3

\* A scaled number fits its word.
LEMMA ScaleType ==
  ASSUME NEW r \in Nat, NEW base \in Nat, NEW part \in Nat
  PROVE  Scale(r, base, part) \in 0 .. SumMod - 1
<1> DEFINE y == (r * (base + part)) % (RngMod * SumMod)
           q == y \div RngMod
<1>1. RngMod \in Nat /\ RngMod > 0 /\ SumMod \in Nat /\ SumMod > 0
  BY ReservoirAssumption
<1>2. RngMod * SumMod \in Nat /\ RngMod * SumMod > 0
  BY <1>1
<1>3. r * (base + part) \in Nat
  OBVIOUS
<1>4. y \in 0 .. (RngMod * SumMod) - 1
  BY <1>2, <1>3
<1> HIDE DEF y
<1>5. q \in Nat /\ RngMod * q <= y
  <2>1. y \in Nat
    BY <1>4
  <2>2. q \in Nat /\ y % RngMod \in 0 .. RngMod - 1 /\ y = RngMod * q + (y % RngMod)
    BY <2>1, <1>1, Division
  <2> HIDE DEF q
  <2>3. RngMod * q \in Nat
    BY <1>1, <2>2
  <2> QED
    BY <2>1, <2>2, <2>3
<1> HIDE DEF q
<1>6. RngMod * q < RngMod * SumMod
  <2> DEFINE a == RngMod * q
             b == RngMod * SumMod
  <2>1. a \in Nat /\ b \in Nat
    BY <1>1, <1>2, <1>5
  <2> HIDE DEF a, b
  <2>2. y \in 0 .. b - 1 /\ a <= y
    BY <1>4, <1>5 DEF a, b
  <2>3. a < b
    BY <2>1, <2>2
  <2> QED
    BY <2>3 DEF a, b
<1>7. q < SumMod
  <2>1. SUFFICES ASSUME q >= SumMod
                 PROVE  FALSE
    BY <1>1, <1>5
  <2>2. RngMod * q >= RngMod * SumMod
    BY <1>1, <1>5, <2>1
  <2> QED
    BY <1>1, <1>5, <1>6, <2>2
<1> QED
  BY <1>1, <1>5, <1>7 DEF Scale, y, q

\* The first word that weighs anything is always selected: whatever its random
\* number, it scales to 0.
LEMMA ScaleFirst ==
  ASSUME NEW r \in 0 .. RngMod - 1, NEW part \in {0, 1}
  PROVE  Scale(r, 0, part) = 0
<1>1. RngMod \in Nat /\ RngMod > 0 /\ SumMod \in Nat /\ SumMod > 0
  BY ReservoirAssumption
<1> DEFINE M == RngMod * SumMod
<1>2. M \in Nat /\ M >= RngMod
  BY <1>1
<1>3. r * (0 + part) \in 0 .. RngMod - 1
  <2>1. r * 0 = 0 /\ r * 1 = r /\ 0 + 0 = 0 /\ 0 + 1 = 1 /\ 0 \in 0 .. RngMod - 1
    BY <1>1
  <2>2. CASE part = 0
    BY <2>1, <2>2
  <2>3. CASE part = 1
    BY <2>1, <2>3
  <2> QED
    BY <2>2, <2>3
<1> DEFINE x == r * (0 + part)
<1> HIDE DEF M, x
<1>4. x \in 0 .. RngMod - 1
  BY <1>3 DEF x
<1>5. x % M = x
  BY <1>1, <1>2, <1>4
<1>6. x \div RngMod = 0
  BY <1>1, <1>4
<1> QED
  BY <1>5, <1>6 DEF Scale, M, x

\* The sums of a line fit their words.
LEMMA PartialSumType ==
  ASSUME NEW w \in [Lane -> {0, 1}]
  PROVE  PartialSum(w) \in [Lane -> 0 .. SumMod - 1]
<1>1. SumsUpTo(PartialSum(w), w, Lanes)
  <2>1. w \in [Lane -> Nat]
    OBVIOUS
  <2> QED
    BY <2>1, PartialSumIs
<1> DEFINE p == PartialSum(w)
<1>2. /\ p \in [1 .. Lanes -> Nat]
      /\ \A i \in 1 .. Lanes : p[i] = IF i = 1 THEN w[1] ELSE (p[i - 1] + w[i]) % SumMod
  BY <1>1 DEF SumsUpTo
<1> HIDE DEF p
<1>3. ASSUME NEW i \in 1 .. Lanes
      PROVE  p[i] \in 0 .. SumMod - 1
  <2>1. Lanes \in Nat /\ w[i] \in {0, 1}
    BY ReservoirAssumption DEF Lane
  <2>2. CASE i = 1
    BY <2>1, <2>2, <1>2, ReservoirAssumption
  <2>3. CASE i # 1
    <3>1. i - 1 \in 1 .. Lanes
      BY <2>1, <2>3
    <3>2. p[i - 1] \in Nat /\ p[i] = (p[i - 1] + w[i]) % SumMod
      BY <1>2, <2>3, <3>1
    <3>3. p[i - 1] + w[i] \in Nat
      BY <2>1, <3>2
    <3> QED
      BY <3>2, <3>3, ReservoirAssumption
  <2> QED
    BY <2>2, <2>3
<1> QED
  BY <1>2, <1>3 DEF Lane, p

\* As long as nothing has weighed anything the sums are 0, and then at most 1.
LEMMA PartialSumFirst ==
  ASSUME NEW w \in [Lane -> {0, 1}], NEW i \in Lane, \A k \in 1 .. i - 1 : w[k] = 0
  PROVE  /\ PartialSum(w)[i] \in {0, 1}
         /\ w[i] = 0 => PartialSum(w)[i] = 0
<1>1. SumsUpTo(PartialSum(w), w, Lanes)
  <2>1. w \in [Lane -> Nat]
    OBVIOUS
  <2> QED
    BY <2>1, PartialSumIs
<1> DEFINE p == PartialSum(w)
<1>2. \A k \in 1 .. Lanes : p[k] = IF k = 1 THEN w[1] ELSE (p[k - 1] + w[k]) % SumMod
  BY <1>1 DEF SumsUpTo
<1> HIDE DEF p
<1> DEFINE S == {n \in Nat : n \in 1 .. i - 1 => p[n] = 0}
<1>3. Lanes \in Nat /\ i \in 1 .. Lanes /\ i \in Nat /\ i - 1 \in Nat
  BY ReservoirAssumption DEF Lane
<1>4. 0 \in S
  OBVIOUS
<1>5. ASSUME NEW n \in 0 .. (i - 1) - 1, n \in S
      PROVE  n + 1 \in S
  <2>1. n + 1 \in 1 .. Lanes /\ n + 1 \in 1 .. i - 1 /\ w[n + 1] = 0 /\ n \in Nat
    BY <1>3
  <2>2. CASE n = 0
    BY <2>1, <2>2, <1>2
  <2>3. CASE n # 0
    <3>1. p[n] = 0
      BY <1>3, <1>5, <2>3
    <3>2. p[n + 1] = (p[n] + w[n + 1]) % SumMod
      BY <1>2, <2>1, <2>3
    <3>3. 0 % SumMod = 0
      BY ReservoirAssumption
    <3> QED
      BY <2>1, <3>1, <3>2, <3>3
  <2> QED
    BY <2>2, <2>3
<1> HIDE DEF S
<1>6. \A n \in 0 .. (i - 1) - 1 : n \in S => n + 1 \in S
  BY <1>5
<1>7. \A n \in 0 .. i - 1 : n \in S
  BY <1>3, <1>4, <1>6, SetInduction
<1>8. i # 1 => p[i - 1] = 0
  <2>1. i # 1 => i - 1 \in 0 .. i - 1 /\ i - 1 \in 1 .. i - 1
    BY <1>3
  <2> QED
    BY <1>7, <2>1 DEF S
<1>9. w[i] \in {0, 1}
  OBVIOUS
<1>10. p[i] = IF i = 1 THEN w[i] ELSE (0 + w[i]) % SumMod
  BY <1>2, <1>3, <1>8
<1>11. 0 % SumMod = 0 /\ 1 % SumMod = 1
  BY ReservoirAssumption
<1>12. p[i] = w[i]
  BY <1>9, <1>10, <1>11
<1> QED
  BY <1>9, <1>12 DEF p

\* sample takes a lane whose bit is set, if there is one.
LEMMA TopLaneIs ==
  ASSUME NEW m \in [Lane -> BOOLEAN]
  PROVE  \/ TopLane(m) \in Lane /\ m[TopLane(m)]
         \/ TopLane(m) = 0 /\ \A i \in Lane : ~m[i]
<1>1. CASE \A i \in Lane : ~m[i]
  BY <1>1, Zenon DEF TopLane
<1>2. CASE \E i \in Lane : m[i]
  <2> DEFINE T == {n \in Nat : n <= Lanes /\ Lanes - n \in Lane /\ m[Lanes - n]}
  <2>1. Lanes \in Nat
    BY ReservoirAssumption
  <2>2. PICK i \in Lane : m[i]
    BY <1>2
  <2>3. i \in Nat /\ i <= Lanes /\ Lanes - i \in Nat /\ Lanes - (Lanes - i) = i
    BY <2>1 DEF Lane
  <2>4. Lanes - i \in T
    BY <2>1, <2>2, <2>3
  <2>5. T \subseteq Nat /\ T # {}
    BY <2>4
  <2>6. PICK n \in T : \A k \in T : n <= k
    BY <2>5, Smallest
  <2>7. Lanes - n \in Lane /\ m[Lanes - n]
    BY <2>6
  <2>8. ASSUME NEW k \in Lane, m[k]
        PROVE  k <= Lanes - n
    <3>1. k \in Nat /\ k <= Lanes /\ Lanes - k \in Nat /\ Lanes - (Lanes - k) = k
      BY <2>1 DEF Lane
    <3>2. Lanes - k \in T
      BY <2>1, <2>8, <3>1
    <3>3. n <= Lanes - k
      BY <2>6, <3>2
    <3> QED
      BY <2>1, <2>6, <3>1, <3>3
  <2> DEFINE Top(x) == m[x] /\ \A k \in Lane : m[k] => k <= x
  <2>9. \E x \in Lane : Top(x)
    BY <2>7, <2>8
  <2> HIDE DEF Top
  <2>10. (CHOOSE x \in Lane : Top(x)) \in Lane /\ Top(CHOOSE x \in Lane : Top(x))
    BY <2>9, Zenon
  <2>11. TopLane(m) = CHOOSE x \in Lane : Top(x)
    BY <1>2, Zenon DEF TopLane, Top
  <2>12. TopLane(m) \in Lane /\ Top(TopLane(m))
    BY <2>10, <2>11, Zenon
  <2> QED
    BY <2>12, Zenon DEF Top
<1> QED
  BY <1>1, <1>2

-----------------------------------------------------------------------------
(* The label of the sample                                                 *)

\* The place of a word in the list is the number of its line and its lane.
LEMMA PlaceOf ==
  ASSUME NEW n \in Nat, NEW i \in Lane
  PROVE  /\ n * Lanes + i \in Nat
         /\ ((n * Lanes + i) - 1) \div Lanes = n
         /\ ((n * Lanes + i) - 1) % Lanes = i - 1
<1>1. Lanes \in Nat /\ Lanes > 0 /\ i \in Nat /\ i >= 1 /\ i <= Lanes
  BY ReservoirAssumption DEF Lane
<1> DEFINE y == (n * Lanes + i) - 1
           q == y \div Lanes
           r == y % Lanes
<1>2. n * Lanes \in Nat /\ y \in Nat
  BY <1>1
<1>3. q \in Nat /\ r \in 0 .. Lanes - 1 /\ y = Lanes * q + r
  BY <1>1, <1>2, Division
<1>4. y = n * Lanes + (i - 1)
  BY <1>1, <1>2
<1> HIDE DEF y, q, r
<1>5. Lanes * q + r = n * Lanes + (i - 1)
  BY <1>3, <1>4
<1>6. q = n
  <2>1. CASE q < n
    <3>1. q + 1 <= n
      BY <1>3, <2>1
    <3>2. Lanes * (q + 1) <= n * Lanes
      BY <1>1, <1>3, <3>1
    <3>3. Lanes * (q + 1) = Lanes * q + Lanes
      BY <1>1, <1>3
    <3>4. Lanes * q \in Nat /\ n * Lanes \in Nat
      BY <1>1, <1>3
    <3> DEFINE a == Lanes * q
               b == n * Lanes
    <3>5. a \in Nat /\ b \in Nat /\ a + Lanes <= b /\ a + r = b + (i - 1)
      BY <1>5, <3>2, <3>3, <3>4
    <3> HIDE DEF a, b
    <3> QED
      BY <1>1, <1>3, <3>5
  <2>2. CASE q > n
    <3>1. n + 1 <= q
      BY <1>3, <2>2
    <3>2. Lanes * (n + 1) <= Lanes * q
      BY <1>1, <1>3, <3>1
    <3>3. Lanes * (n + 1) = n * Lanes + Lanes
      BY <1>1, <1>3
    <3>4. Lanes * q \in Nat /\ n * Lanes \in Nat
      BY <1>1, <1>3
    <3> DEFINE a == Lanes * q
               b == n * Lanes
    <3>5. a \in Nat /\ b \in Nat /\ b + Lanes <= a /\ a + r = b + (i - 1)
      BY <1>5, <3>2, <3>3, <3>4
    <3> HIDE DEF a, b
    <3> QED
      BY <1>1, <1>3, <3>5
  <2> QED
    BY <1>3, <2>1, <2>2
<1>7. r = i - 1
  <2>1. Lanes * q = n * Lanes
    BY <1>1, <1>6
  <2> DEFINE b == n * Lanes
  <2>2. b \in Nat /\ b + r = b + (i - 1)
    BY <1>2, <1>5, <2>1
  <2> HIDE DEF b
  <2> QED
    BY <1>1, <1>3, <2>2
<1> QED
  BY <1>1, <1>2, <1>6, <1>7 DEF y, q, r

\* A place of a list is in the lines before its last one or in that line.
LEMMA PlaceSplit ==
  ASSUME NEW n \in Nat, NEW q \in 1 .. (n + 1) * Lanes
  PROVE  q \in 1 .. n * Lanes \/ \E i \in Lane : q = n * Lanes + i
<1>1. Lanes \in Nat
  BY ReservoirAssumption
<1> DEFINE b == n * Lanes
<1>2. b \in Nat /\ (n + 1) * Lanes = b + Lanes
  BY <1>1
<1> HIDE DEF b
<1>3. q \in 1 .. b + Lanes
  BY <1>2
<1>4. CASE q <= b
  BY <1>2, <1>3, <1>4 DEF b
<1>5. CASE q > b
  <2>1. q - b \in Lane /\ q = b + (q - b)
    BY <1>1, <1>2, <1>3, <1>5 DEF Lane
  <2> QED
    BY <2>1 DEF b
<1> QED
  BY <1>2, <1>3, <1>4, <1>5

\* A place of a list is in one of its lines.
LEMMA PlaceIn ==
  ASSUME NEW n \in Nat, NEW q \in 1 .. n * Lanes
  PROVE  ((q - 1) \div Lanes) + 1 \in 1 .. n
<1>1. Lanes \in Nat /\ Lanes > 0 /\ n * Lanes \in Nat
  BY ReservoirAssumption
<1>2. q - 1 \in Nat /\ q - 1 < n * Lanes
  BY <1>1
<1> DEFINE d == (q - 1) \div Lanes
           r == (q - 1) % Lanes
<1>3. d \in Nat /\ r \in 0 .. Lanes - 1 /\ q - 1 = Lanes * d + r
  BY <1>1, <1>2, Division
<1> HIDE DEF d, r
<1>4. d < n
  <2>1. SUFFICES ASSUME d >= n
                 PROVE  FALSE
    BY <1>3
  <2>2. Lanes * d >= n * Lanes
    BY <1>1, <1>3, <2>1
  <2>3. Lanes * d \in Nat
    BY <1>1, <1>3
  <2> DEFINE a == Lanes * d
             b == n * Lanes
  <2>4. a \in Nat /\ b \in Nat /\ a >= b /\ q - 1 = a + r /\ q - 1 < b
    BY <1>1, <1>2, <1>3, <2>2, <2>3
  <2> HIDE DEF a, b
  <2> QED
    BY <1>3, <2>4
<1> QED
  BY <1>3, <1>4 DEF d

\* What the arithmetic guarantees of a list: a selected word has the label,
\* and none is selected only if there is none.  The sum is 0 until then.
Labelled(l) ==
    LET s == After(l)
    IN  /\ s.base \in 0 .. SumMod - 1
        /\ s.selected = Dead =>
             /\ s.base = 0
             /\ \A q \in 1 .. Len(l.words) * Lanes : WordAt(l, q) # l.label
        /\ s.selected # Dead =>
             /\ s.selected \in 1 .. Len(l.words) * Lanes
             /\ WordAt(l, s.selected) = l.label

\* An empty list has no word to select.
LEMMA LabelledEmpty ==
  ASSUME NEW l, l.words = <<>>
  PROVE  Labelled(l)
<1>1. After(l) = StartState
  BY AfterEmpty
<1>2. StartState.base = 0 /\ StartState.selected = Dead
  BY DEF StartState
<1>3. Len(<<>>) = 0 /\ 0 \in 0 .. SumMod - 1
  BY ReservoirAssumption
<1>4. 1 .. 0 * Lanes = {}
  BY ReservoirAssumption
<1> QED
  BY <1>1, <1>2, <1>3, <1>4, Zenon DEF Labelled

\* The bits of a line: a lane is selected only if it weighs something, and
\* the first one that does is, if nothing weighed anything before the line.
LEMMA MaskIs ==
  ASSUME NEW base \in 0 .. SumMod - 1, NEW w \in [Lane -> {0, 1}], NEW r \in Draws
  PROVE  LET s == ScaleOf(base, w, r)
             m == Mask(w, s)
         IN  /\ s \in [Lane -> 0 .. SumMod - 1]
             /\ m \in [Lane -> BOOLEAN]
             /\ \A i \in Lane : m[i] => w[i] = 1
             /\ base = 0 /\ (\A i \in Lane : ~m[i]) =>
                  /\ \A i \in Lane : w[i] = 0
                  /\ NextBase(base, PartialSum(w)) = 0
<1> DEFINE p == PartialSum(w)
           s == ScaleOf(base, w, r)
           m == Mask(w, s)
<1>1. p \in [Lane -> 0 .. SumMod - 1]
  BY PartialSumType
<1> HIDE DEF p
<1>2. ASSUME NEW i \in Lane
      PROVE  Scale(r[i], base, p[i]) \in 0 .. SumMod - 1
  <2>1. p[i] \in 0 .. SumMod - 1 /\ r[i] \in 0 .. RngMod - 1
    BY <1>1 DEF Draws
  <2>2. p[i] \in Nat /\ r[i] \in Nat /\ base \in Nat
    BY <2>1, ReservoirAssumption
  <2> QED
    BY <2>2, ScaleType
<1>3. s = [i \in Lane |-> Scale(r[i], base, p[i])]
  BY DEF ScaleOf, p
<1> HIDE DEF s
<1>4. s \in [Lane -> 0 .. SumMod - 1]
  BY <1>2, <1>3
<1>5. m = [i \in Lane |-> s[i] < w[i]]
  BY DEF Mask, Selects
<1> HIDE DEF m
<1>6. m \in [Lane -> BOOLEAN]
  BY <1>5
<1>7. ASSUME NEW i \in Lane, m[i]
      PROVE  w[i] = 1
  <2>1. s[i] \in 0 .. SumMod - 1 /\ w[i] \in {0, 1} /\ s[i] < w[i]
    BY <1>4, <1>5, <1>7
  <2> QED
    BY <2>1, ReservoirAssumption
<1>8. ASSUME base = 0, \A i \in Lane : ~m[i]
      PROVE  /\ \A i \in Lane : w[i] = 0
             /\ NextBase(base, p) = 0
  <2> DEFINE T == {i \in Lane : w[i] = 1}
  <2>1. T = {}
    <3>1. SUFFICES ASSUME T # {}
                   PROVE  FALSE
      OBVIOUS
    <3>2. T \subseteq Nat
      BY DEF Lane
    <3>3. PICK i \in T : \A k \in T : i <= k
      BY <3>1, <3>2, Smallest
    <3>4. \A k \in 1 .. i - 1 : k \in Lane /\ ~(i <= k)
      BY <3>3, ReservoirAssumption DEF Lane
    <3>5. \A k \in 1 .. i - 1 : w[k] = 0
      BY <3>3, <3>4
    <3>6. i \in Lane /\ w[i] = 1
      BY <3>3
    <3>7. p[i] \in {0, 1}
      BY <3>5, <3>6, PartialSumFirst DEF p
    <3>8. r[i] \in 0 .. RngMod - 1
      BY <3>6 DEF Draws
    <3>9. s[i] = 0
      BY <1>3, <1>8, <3>6, <3>7, <3>8, ScaleFirst
    <3>10. m[i]
      <4>1. s[i] < w[i]
        BY <3>6, <3>9
      <4>2. m[i] = (s[i] < w[i])
        BY <1>5, <3>6, Zenon
      <4> QED
        BY <4>1, <4>2, Zenon
    <3> QED
      BY <1>8, <3>6, <3>10
  <2>2. \A i \in Lane : w[i] = 0
    BY <2>1
  <2>3. Lanes \in Lane /\ \A k \in 1 .. Lanes - 1 : w[k] = 0
    BY <2>2, ReservoirAssumption DEF Lane
  <2>4. p[Lanes] = 0
    BY <2>2, <2>3, PartialSumFirst DEF p
  <2>5. (0 + 0) % SumMod = 0
    BY ReservoirAssumption
  <2> QED
    BY <1>8, <2>2, <2>4, <2>5 DEF NextBase
<1> QED
  BY <1>4, <1>6, <1>7, <1>8, Zenon DEF s, m, p

\* A line of words and its numbers keep what the arithmetic guarantees.
LEMMA LabelledExtends ==
  ASSUME NEW l, NEW p \in ListSet, NEW line \in [Lane -> Word], NEW r \in Draws,
         Extends(l, p, line, r), Labelled(p)
  PROVE  Labelled(l)
<1> DEFINE n  == Len(p.words)
           w  == Eligible(line, l.label)
           s0 == After(p)
           m  == Mask(w, ScaleOf(s0.base, w, r))
           t  == TopLane(m)
           b  == NextBase(s0.base, PartialSum(w))
<1>1. p.words \in Seq([Lane -> Word]) /\ n \in Nat
  BY DEF ListSet
<1>2. l.words = Append(p.words, line) /\ Len(l.words) = n + 1
  BY <1>1 DEF Extends
<1>3. \A k \in 1 .. n : l.words[k] = p.words[k]
  BY <1>1, <1>2
<1>4. l.words[n + 1] = line
  BY <1>1, <1>2
<1>5. \A q \in 1 .. n * Lanes : WordAt(l, q) = WordAt(p, q)
  <2>1. \A q \in 1 .. n * Lanes : ((q - 1) \div Lanes) + 1 \in 1 .. n
    BY <1>1, PlaceIn
  <2> QED
    BY <1>3, <2>1, Zenon DEF WordAt
<1>6. \A i \in Lane : WordAt(l, n * Lanes + i) = line[i]
  <2> TAKE i \in Lane
  <2>1. /\ ((n * Lanes + i) - 1) \div Lanes = n
        /\ ((n * Lanes + i) - 1) % Lanes = i - 1
    BY <1>1, PlaceOf
  <2>2. (i - 1) + 1 = i
    BY ReservoirAssumption DEF Lane
  <2> QED
    BY <1>4, <2>1, <2>2, Zenon DEF WordAt
<1>7. n # 0 => l.label = p.label
  BY <1>1 DEF Extends
<1>8. ASSUME NEW q \in 1 .. n * Lanes
      PROVE  n # 0
  BY <1>1, <1>8, ReservoirAssumption
<1>9. /\ w \in [Lane -> {0, 1}]
      /\ \A i \in Lane : w[i] = 1 => line[i] = l.label
      /\ \A i \in Lane : w[i] = 0 => line[i] # l.label
  BY EligibleType DEF Eligible
<1>10. /\ After(l).base = b
       /\ After(l).selected = IF t = 0 THEN s0.selected ELSE n * Lanes + t
  <2>1. After(l) = LineStep(s0, n, w, r)
    BY AfterExtends, Zenon
  <2>2. After(l).base = b /\ After(l).selected = Keep(s0.selected, n * Lanes, m)
    BY <2>1 DEF LineStep
  <2> QED
    BY <2>2, Zenon DEF Keep
<1>11. s0.base \in 0 .. SumMod - 1
  BY DEF Labelled
<1> HIDE DEF w
<1>12. /\ m \in [Lane -> BOOLEAN]
       /\ \A i \in Lane : m[i] => w[i] = 1
       /\ s0.base = 0 /\ (\A i \in Lane : ~m[i]) => (\A i \in Lane : w[i] = 0) /\ b = 0
  <2> DEFINE x == s0.base
  <2>1. x \in 0 .. SumMod - 1 /\ w \in [Lane -> {0, 1}] /\ r \in Draws
    BY <1>9, <1>11
  <2> HIDE DEF x
  <2>2. LET s == ScaleOf(x, w, r)
            a == Mask(w, s)
        IN  /\ a \in [Lane -> BOOLEAN]
            /\ \A i \in Lane : a[i] => w[i] = 1
            /\ x = 0 /\ (\A i \in Lane : ~a[i]) =>
                 (\A i \in Lane : w[i] = 0) /\ NextBase(x, PartialSum(w)) = 0
    BY <2>1, MaskIs
  <2> QED
    BY <2>2, Zenon DEF x
<1>13. b \in 0 .. SumMod - 1
  <2> DEFINE x == PartialSum(w)[Lanes]
  <2>1. Lanes \in Lane
    BY ReservoirAssumption DEF Lane
  <2>2. x \in 0 .. SumMod - 1
    BY <1>9, <2>1, PartialSumType
  <2> HIDE DEF x
  <2>3. (s0.base + x) % SumMod \in 0 .. SumMod - 1
    BY <1>11, <2>2, ReservoirAssumption
  <2> QED
    BY <2>3 DEF NextBase, x
<1>14. \/ t \in Lane /\ m[t]
       \/ t = 0 /\ \A i \in Lane : ~m[i]
  BY <1>12, TopLaneIs
<1> HIDE DEF b, t, m
<1> DEFINE N == n * Lanes
<1>15. N \in Nat /\ (n + 1) * Lanes = N + Lanes /\ Lanes \in Nat
  BY <1>1, ReservoirAssumption
<1>16. CASE t \in Lane /\ m[t]
  <2>1. t # 0 /\ N + t \in 1 .. N + Lanes /\ N + t # Dead
    BY <1>15, <1>16 DEF Lane, Dead
  <2>2. After(l).selected = N + t
    BY <1>10, <2>1
  <2>3. WordAt(l, N + t) = l.label
    BY <1>6, <1>9, <1>12, <1>16, Zenon
  <2> HIDE DEF N
  <2>4. N + t \in 1 .. Len(l.words) * Lanes
    BY <1>2, <1>15, <2>1
  <2> QED
    BY <1>10, <1>13, <2>1, <2>2, <2>3, <2>4, Zenon DEF Labelled
<1>17. CASE t = 0 /\ (\A i \in Lane : ~m[i]) /\ s0.selected = Dead
  <2>1. s0.base = 0 /\ \A q \in 1 .. N : WordAt(p, q) # p.label
    BY <1>17, Zenon DEF Labelled
  <2>2. b = 0 /\ \A i \in Lane : w[i] = 0
    BY <1>12, <1>17, <2>1, Zenon
  <2>3. \A q \in 1 .. N : WordAt(l, q) # l.label
    BY <1>5, <1>7, <1>8, <2>1, Zenon
  <2>4. \A i \in Lane : WordAt(l, N + i) # l.label
    BY <1>6, <1>9, <2>2, Zenon
  <2>5. \A q \in 1 .. (n + 1) * Lanes : q \in 1 .. N \/ \E i \in Lane : q = N + i
    BY <1>1, PlaceSplit
  <2>6. \A q \in 1 .. Len(l.words) * Lanes : WordAt(l, q) # l.label
    BY <1>2, <2>3, <2>4, <2>5, Zenon
  <2> QED
    BY <1>10, <1>13, <1>17, <2>2, <2>6, Zenon DEF Labelled
<1>18. CASE t = 0 /\ s0.selected # Dead
  <2>1. s0.selected \in 1 .. N /\ WordAt(p, s0.selected) = p.label
    BY <1>18, Zenon DEF Labelled
  <2>2. WordAt(l, s0.selected) = l.label
    BY <1>5, <1>7, <1>8, <2>1, Zenon
  <2> DEFINE x == s0.selected
  <2> HIDE DEF x, N
  <2>3. x \in 1 .. (n + 1) * Lanes
    BY <1>15, <2>1 DEF x
  <2> QED
    BY <1>2, <1>10, <1>13, <1>18, <2>2, <2>3, Zenon DEF Labelled, x
<1> QED
  BY <1>14, <1>16, <1>17, <1>18, Zenon
=============================================================================
