----------------------------- MODULE WrsProofs -----------------------------
(***************************************************************************)
(* Proofs about the sampling kernels, for every number of lanes, width of  *)
(* the words, depth of the streams and sequence of lists: the sample is    *)
(* the one the arithmetic of Reservoir gives for its list, and it has the  *)
(* label that was asked for.                                               *)
(*                                                                         *)
(* No packet says which line it belongs to, so the invariant speaks of the *)
(* lines in flight: there is a sequence F of them, oldest first, such that *)
(* each stream is the image of a part of F.  C is what sample has seen of  *)
(* the list it works on and b the number of the lists before.              *)
(***************************************************************************)
EXTENDS ReservoirLemmas

-----------------------------------------------------------------------------
(* The lines in flight                                                     *)

SyncSet == [addr: Nat, end_of_burst: BOOLEAN]

\* what the next line is added to when the last one ended list l
Rest(l) == IF l.done THEN NewList ELSE l

\* a line that came in: its words and random numbers, the list before and
\* after it, and the number of the list
GoodItem(x) ==
    /\ Extends(x.list, x.prev, x.line, x.r)
    /\ Labelled(x.prev) /\ Labelled(x.list)

Items == {x \in [list: ListSet, prev: ListSet, line: [Lane -> Word], r: Draws, nr: Nat] :
            GoodItem(x)}

\* what the kernels make of a line
SyncOf(x)  == [addr |-> Len(x.prev.words) * Lanes, end_of_burst |-> x.list.done]
LineOf(x)  == Eligible(x.line, x.list.label)
SumOf(x)   == [base |-> After(x.prev).base, partial |-> PartialSum(LineOf(x))]
ScaledOf(x) == ScaleOf(After(x.prev).base, LineOf(x), x.r)
MaskOf(x)  == Mask(LineOf(x), ScaledOf(x))

Syncs(F)    == [k \in 1 .. Len(F) |-> SyncOf(F[k])]
LinesOf(F)  == [k \in 1 .. Len(F) |-> LineOf(F[k])]
Partials(F) == [k \in 1 .. Len(F) |-> PartialSum(LineOf(F[k]))]
SumsOf(F)   == [k \in 1 .. Len(F) |-> SumOf(F[k])]
RngsOf(F)   == [k \in 1 .. Len(F) |-> F[k].r]
Scaleds(F)  == [k \in 1 .. Len(F) |-> ScaledOf(F[k])]
Masks(F)    == [k \in 1 .. Len(F) |-> MaskOf(F[k])]

\* the list the k-th line left open
Cur(F, C, k) == IF k = 0 THEN C ELSE Rest(F[k].list)

-----------------------------------------------------------------------------
(* The inductive invariant                                                 *)

\* each line continues the list of the line before it
Linked(F, C) == \A k \in 1 .. Len(F) : F[k].prev = Cur(F, C, k - 1)

\* the lines of a list have one number, and the lists are numbered in order
Numbered(F, b) ==
    /\ F # <<>> => F[1].nr = b + 1
    /\ \A k \in 2 .. Len(F) :
         F[k].nr = IF F[k - 1].list.done THEN F[k - 1].nr + 1 ELSE F[k - 1].nr
    /\ \A i, k \in 1 .. Len(F) : i <= k => F[i].nr <= F[k].nr
    /\ \A i, k \in 1 .. Len(F) : i < k /\ F[i].list.done => F[i].nr < F[k].nr

\* ls are the lists not sampled: ended ones and the one of the last line
Listed(F, C, b, ls) ==
    /\ ls \in Seq(ListSet)
    /\ F = <<>> => ls = IF C.words = <<>> THEN <<>> ELSE <<C>>
    /\ F # <<>> => F[Len(F)].nr = b + Len(ls) /\ ls[Len(ls)] = F[Len(F)].list
    /\ \A k \in 1 .. Len(F) : F[k].list.done => ls[F[k].nr - b] = F[k].list

\* stream s is what g has behind its first a elements
Part(s, g, a) == a + Len(s) <= Len(g) /\ \A j \in 1 .. Len(s) : s[j] = g[a + j]

\* the streams hold the lines in flight
Streams(F) ==
    /\ Part(mask, Masks(F), 0)
    /\ Part(scale, Scaleds(F), Len(mask))
    /\ Part(sums, SumsOf(F), Len(mask) + Len(scale))
    /\ Part(partial, Partials(F), Len(mask) + Len(scale) + Len(sums))
    /\ Part(weight_in, LinesOf(F), Len(mask) + Len(scale) + Len(sums) + Len(partial))
    /\ Part(weight, LinesOf(F), Len(mask))
    /\ Part(rng, RngsOf(F), Len(mask) + Len(scale))
    /\ Part(bs_sample, Syncs(F), 0)
    /\ Part(bs_perfix, Syncs(F), Len(mask) + Len(scale) + Len(sums))
    /\ Part(bs, Syncs(F), Len(bs_sample))
    /\ Len(mask) + Len(scale) + Len(sums) + Len(partial) + Len(weight_in) = Len(F)
    /\ Len(mask) + Len(weight) + Len(weight_in) = Len(F)
    /\ Len(mask) + Len(scale) + Len(rng) = Len(F)
    /\ Len(bs_sample) + Len(bs) = Len(F)
    /\ Len(mask) + Len(scale) + Len(sums) + Len(bs_perfix) = Len(bs_sample)

\* perfix_sum and sample have what they carry from line to line
Carried(F, C) ==
    /\ base_sum = After(Cur(F, C, Len(mask) + Len(scale) + Len(sums))).base
    /\ selected = After(C).selected

\* no list has more lines than were fed
Fits(F, C) ==
    /\ Len(C.words) <= fed
    /\ \A k \in 1 .. Len(F) : Len(F[k].list.words) <= fed

Current(C) ==
    /\ C \in ListSet /\ ~C.done /\ Labelled(C)
    /\ C.words = <<>> => C = NewList

InFlight(F, C, b) ==
    /\ F \in Seq(Items) /\ Current(C) /\ b \in Nat
    /\ Linked(F, C) /\ Numbered(F, b) /\ Listed(F, C, b, lists)
    /\ Streams(F) /\ Carried(F, C) /\ Fits(F, C)

\* the last sample is the one of its list
Sampled ==
    /\ result.list \in ListSet
    /\ Labelled(result.list)
    /\ result.to = After(result.list).selected

SyncType ==
    /\ bs \in Seq(SyncSet) /\ bs_perfix \in Seq(SyncSet) /\ bs_sample \in Seq(SyncSet)

WrsInv ==
    /\ TypeOK /\ SyncType
    /\ Sampled
    /\ \E F, C, b : InFlight(F, C, b)

-----------------------------------------------------------------------------
(* Parts of a sequence                                                     *)

\* A kernel hands the next element on.
LEMMA PartPush ==
  ASSUME NEW S, NEW s \in Seq(S), NEW g \in Seq(S), NEW a \in Nat, NEW x \in S,
         Part(s, g, a), a + Len(s) < Len(g), x = g[a + Len(s) + 1]
  PROVE  Part(Append(s, x), g, a)
<1> DEFINE t == Append(s, x)
<1>1. /\ t \in Seq(S) /\ Len(t) = Len(s) + 1 /\ Len(s) \in Nat
      /\ \A i \in 1 .. Len(s) : t[i] = s[i]
      /\ t[Len(s) + 1] = x
  BY PushElements
<1> HIDE DEF t
<1>2. ASSUME NEW j \in 1 .. Len(t)
      PROVE  t[j] = g[a + j]
  <2>1. CASE j = Len(s) + 1
    BY <1>1, <2>1
  <2>2. CASE j # Len(s) + 1
    <3>1. j \in 1 .. Len(s)
      BY <1>1, <2>2
    <3> QED
      BY <1>1, <3>1 DEF Part
  <2> QED
    BY <2>1, <2>2
<1>3. a + Len(t) <= Len(g)
  BY <1>1
<1> QED
  BY <1>2, <1>3 DEF Part, t

\* A kernel takes an element.
LEMMA PartPop ==
  ASSUME NEW S, NEW s \in Seq(S), NEW g \in Seq(S), NEW a \in Nat,
         Part(s, g, a), s # <<>>
  PROVE  /\ a + 1 \in 1 .. Len(g) /\ Head(s) = g[a + 1]
         /\ Part(Tail(s), g, a + 1)
<1> DEFINE t == Tail(s)
<1>1. /\ Head(s) = s[1] /\ t \in Seq(S)
      /\ Len(s) >= 1 /\ Len(t) = Len(s) - 1 /\ Len(s) \in Nat /\ Len(g) \in Nat
      /\ \A i \in 1 .. Len(s) - 1 : t[i] = s[i + 1]
  BY PopElements
<1> HIDE DEF t
<1>2. a + Len(s) <= Len(g) /\ \A j \in 1 .. Len(s) : s[j] = g[a + j]
  BY DEF Part
<1>3. ASSUME NEW j \in 1 .. Len(t)
      PROVE  t[j] = g[(a + 1) + j]
  <2>1. j \in 1 .. Len(s) - 1 /\ j + 1 \in 1 .. Len(s) /\ a + (j + 1) = (a + 1) + j
    BY <1>1
  <2> QED
    BY <1>1, <1>2, <2>1
<1>4. (a + 1) + Len(t) <= Len(g) /\ a + 1 \in 1 .. Len(g) /\ 1 \in 1 .. Len(s)
  BY <1>1, <1>2
<1> QED
  BY <1>1, <1>2, <1>3, <1>4 DEF Part, t

\* A line that comes in changes nothing for the streams it is not in.
LEMMA PartGrow ==
  ASSUME NEW S, NEW s \in Seq(S), NEW g \in Seq(S), NEW a \in Nat, NEW x \in S,
         Part(s, g, a)
  PROVE  Part(s, Append(g, x), a)
<1> DEFINE h == Append(g, x)
<1>1. /\ Len(h) = Len(g) + 1 /\ Len(g) \in Nat /\ Len(s) \in Nat
      /\ \A i \in 1 .. Len(g) : h[i] = g[i]
  BY PushElements
<1> HIDE DEF h
<1>2. a + Len(s) <= Len(g) /\ \A j \in 1 .. Len(s) : s[j] = g[a + j]
  BY DEF Part
<1>3. \A j \in 1 .. Len(s) : a + j \in 1 .. Len(g)
  BY <1>1, <1>2
<1>4. a + Len(s) <= Len(h)
  BY <1>1, <1>2
<1> QED
  BY <1>1, <1>2, <1>3, <1>4 DEF Part, h

\* A line that comes in is the last one of the streams it is in.
LEMMA PartPushNew ==
  ASSUME NEW S, NEW s \in Seq(S), NEW g \in Seq(S), NEW a \in Nat, NEW x \in S,
         Part(s, g, a), a + Len(s) = Len(g)
  PROVE  Part(Append(s, x), Append(g, x), a)
<1>1. Part(s, Append(g, x), a)
  BY PartGrow
<1>2. /\ Append(g, x) \in Seq(S) /\ Len(Append(g, x)) = Len(g) + 1
      /\ Append(g, x)[Len(g) + 1] = x
      /\ Len(s) \in Nat /\ Len(g) \in Nat
  BY PushElements
<1>3. a + Len(s) < Len(Append(g, x)) /\ x = Append(g, x)[a + Len(s) + 1]
  BY <1>2
<1> QED
  BY <1>1, <1>2, <1>3, PartPush

\* The oldest line is done with.
LEMMA PartShift ==
  ASSUME NEW S, NEW s \in Seq(S), NEW g \in Seq(S), NEW a \in Nat \ {0},
         Part(s, g, a), g # <<>>
  PROVE  Part(s, Tail(g), a - 1)
<1> DEFINE h == Tail(g)
<1>1. /\ Len(h) = Len(g) - 1 /\ Len(g) \in Nat /\ Len(s) \in Nat
      /\ \A i \in 1 .. Len(g) - 1 : h[i] = g[i + 1]
  BY PopElements
<1> HIDE DEF h
<1>2. a + Len(s) <= Len(g) /\ \A j \in 1 .. Len(s) : s[j] = g[a + j]
  BY DEF Part
<1>3. \A j \in 1 .. Len(s) : (a - 1) + j \in 1 .. Len(g) - 1 /\ a + j = ((a - 1) + j) + 1
  BY <1>1, <1>2
<1>4. (a - 1) + Len(s) <= Len(h)
  BY <1>1, <1>2
<1> QED
  BY <1>1, <1>2, <1>3, <1>4 DEF Part, h

-----------------------------------------------------------------------------
(* What the kernels make of a line                                         *)

WeightSet  == [Lane -> {0, 1}]
PartialSet == [Lane -> 0 .. SumMod - 1]
SumSet     == [base: 0 .. SumMod - 1, partial: PartialSet]
MaskSet    == [Lane -> BOOLEAN]

\* The packets of a line have their types, and together they are the step of
\* the arithmetic from the list before the line to the list after it.
LEMMA ItemFacts ==
  ASSUME NEW x \in Items
  PROVE  /\ SyncOf(x) \in SyncSet
         /\ LineOf(x) \in WeightSet
         /\ PartialSum(LineOf(x)) \in PartialSet
         /\ SumOf(x) \in SumSet
         /\ x.r \in Draws
         /\ ScaledOf(x) \in PartialSet
         /\ MaskOf(x) \in MaskSet
         /\ After(x.list).base = NextBase(After(x.prev).base, PartialSum(LineOf(x)))
         /\ After(x.list).selected
              = Keep(After(x.prev).selected, Len(x.prev.words) * Lanes, MaskOf(x))
<1> DEFINE w == LineOf(x)
           base == After(x.prev).base
<1>1. /\ x.list \in ListSet /\ x.prev \in ListSet /\ x.line \in [Lane -> Word] /\ x.r \in Draws
      /\ Extends(x.list, x.prev, x.line, x.r) /\ Labelled(x.prev)
  BY DEF Items, GoodItem
<1>2. w \in [Lane -> {0, 1}]
  BY EligibleType DEF LineOf
<1>3. base \in 0 .. SumMod - 1
  BY <1>1 DEF Labelled
<1>4. PartialSum(w) \in PartialSet
  BY <1>2, PartialSumType DEF PartialSet
<1>5. SyncOf(x) \in SyncSet
  <2>1. Len(x.prev.words) \in Nat /\ x.list.done \in BOOLEAN
    BY <1>1 DEF ListSet
  <2>2. Len(x.prev.words) * Lanes \in Nat
    BY <2>1, ReservoirAssumption
  <2> QED
    BY <2>1, <2>2, Zenon DEF SyncOf, SyncSet
<1> HIDE DEF base, w
<1>6. /\ ScaleOf(base, w, x.r) \in PartialSet
      /\ Mask(w, ScaleOf(base, w, x.r)) \in MaskSet
  BY <1>1, <1>2, <1>3, MaskIs DEF PartialSet, MaskSet
<1>7. SumOf(x) \in SumSet
  BY <1>3, <1>4 DEF SumOf, SumSet, base, w
<1>8. After(x.list) = LineStep(After(x.prev), Len(x.prev.words), w, x.r)
  BY <1>1, AfterExtends, Zenon DEF w, LineOf
<1>9. /\ After(x.list).base = NextBase(After(x.prev).base, PartialSum(w))
      /\ After(x.list).selected
           = Keep(After(x.prev).selected, Len(x.prev.words) * Lanes,
                  Mask(w, ScaleOf(After(x.prev).base, w, x.r)))
  BY <1>8 DEF LineStep
<1> QED
  BY <1>1, <1>2, <1>4, <1>5, <1>6, <1>7, <1>9, Zenon
     DEF w, base, WeightSet, ScaledOf, MaskOf

\* A sequence with one more element.
LEMMA PushMap ==
  ASSUME NEW T, NEW g \in Seq(T), NEW h \in Seq(T), NEW y, Len(h) = Len(g) + 1,
         \A i \in 1 .. Len(g) : h[i] = g[i], y = h[Len(g) + 1]
  PROVE  h = Append(g, y)
<1>0. Len(g) \in Nat /\ y \in T
  OBVIOUS
<1> DEFINE a == Append(g, y)
<1>1. /\ a \in Seq(T) /\ Len(a) = Len(g) + 1
      /\ \A i \in 1 .. Len(g) : a[i] = g[i]
      /\ a[Len(g) + 1] = y
  BY <1>0, PushElements
<1> HIDE DEF a
<1>2. \A i \in 1 .. Len(h) : h[i] = a[i]
  BY <1>0, <1>1
<1>3. h = a
  BY <1>1, <1>2, SeqEqual
<1> QED
  BY <1>3 DEF a

\* A sequence without its first element.
LEMMA PopMap ==
  ASSUME NEW T, NEW g \in Seq(T), NEW h \in Seq(T), g # <<>>, Len(h) = Len(g) - 1,
         \A i \in 1 .. Len(h) : h[i] = g[i + 1]
  PROVE  h = Tail(g)
<1> DEFINE a == Tail(g)
<1>1. /\ a \in Seq(T) /\ Len(a) = Len(g) - 1
      /\ \A i \in 1 .. Len(g) - 1 : a[i] = g[i + 1]
  BY PopElements
<1> HIDE DEF a
<1>2. \A i \in 1 .. Len(h) : h[i] = a[i]
  BY <1>1
<1>3. h = a
  BY <1>1, <1>2, SeqEqual
<1> QED
  BY <1>3 DEF a

\* The images of the lines in flight have their types.
LEMMA MapTypes ==
  ASSUME NEW F \in Seq(Items)
  PROVE  /\ Syncs(F) \in Seq(SyncSet) /\ Len(Syncs(F)) = Len(F)
         /\ LinesOf(F) \in Seq(WeightSet) /\ Len(LinesOf(F)) = Len(F)
         /\ Partials(F) \in Seq(PartialSet) /\ Len(Partials(F)) = Len(F)
         /\ SumsOf(F) \in Seq(SumSet) /\ Len(SumsOf(F)) = Len(F)
         /\ RngsOf(F) \in Seq(Draws) /\ Len(RngsOf(F)) = Len(F)
         /\ Scaleds(F) \in Seq(PartialSet) /\ Len(Scaleds(F)) = Len(F)
         /\ Masks(F) \in Seq(MaskSet) /\ Len(Masks(F)) = Len(F)
<1>0. Len(F) \in Nat /\ \A k \in 1 .. Len(F) : F[k] \in Items
  OBVIOUS
<1>1. Syncs(F) \in Seq(SyncSet) /\ Len(Syncs(F)) = Len(F)
  <2>1. \A k \in 1 .. Len(F) : SyncOf(F[k]) \in SyncSet
    BY <1>0, ItemFacts
  <2> QED
    BY <1>0, <2>1 DEF Syncs
<1>2. LinesOf(F) \in Seq(WeightSet) /\ Len(LinesOf(F)) = Len(F)
  <2>1. \A k \in 1 .. Len(F) : LineOf(F[k]) \in WeightSet
    BY <1>0, ItemFacts
  <2> QED
    BY <1>0, <2>1 DEF LinesOf
<1>3. Partials(F) \in Seq(PartialSet) /\ Len(Partials(F)) = Len(F)
  <2>1. \A k \in 1 .. Len(F) : PartialSum(LineOf(F[k])) \in PartialSet
    BY <1>0, ItemFacts
  <2> QED
    BY <1>0, <2>1 DEF Partials
<1>4. SumsOf(F) \in Seq(SumSet) /\ Len(SumsOf(F)) = Len(F)
  <2>1. \A k \in 1 .. Len(F) : SumOf(F[k]) \in SumSet
    BY <1>0, ItemFacts
  <2> QED
    BY <1>0, <2>1 DEF SumsOf
<1>5. RngsOf(F) \in Seq(Draws) /\ Len(RngsOf(F)) = Len(F)
  <2>1. \A k \in 1 .. Len(F) : F[k].r \in Draws
    BY <1>0, ItemFacts
  <2> QED
    BY <1>0, <2>1 DEF RngsOf
<1>6. Scaleds(F) \in Seq(PartialSet) /\ Len(Scaleds(F)) = Len(F)
  <2>1. \A k \in 1 .. Len(F) : ScaledOf(F[k]) \in PartialSet
    BY <1>0, ItemFacts
  <2> QED
    BY <1>0, <2>1 DEF Scaleds
<1>7. Masks(F) \in Seq(MaskSet) /\ Len(Masks(F)) = Len(F)
  <2>1. \A k \in 1 .. Len(F) : MaskOf(F[k]) \in MaskSet
    BY <1>0, ItemFacts
  <2> QED
    BY <1>0, <2>1 DEF Masks
<1> QED
  BY <1>1, <1>2, <1>3, <1>4, <1>5, <1>6, <1>7

\* A line comes in.
LEMMA MapPush ==
  ASSUME NEW F \in Seq(Items), NEW x \in Items
  PROVE  /\ Syncs(Append(F, x)) = Append(Syncs(F), SyncOf(x))
         /\ LinesOf(Append(F, x)) = Append(LinesOf(F), LineOf(x))
         /\ Partials(Append(F, x)) = Append(Partials(F), PartialSum(LineOf(x)))
         /\ SumsOf(Append(F, x)) = Append(SumsOf(F), SumOf(x))
         /\ RngsOf(Append(F, x)) = Append(RngsOf(F), x.r)
         /\ Scaleds(Append(F, x)) = Append(Scaleds(F), ScaledOf(x))
         /\ Masks(Append(F, x)) = Append(Masks(F), MaskOf(x))
<1> DEFINE G == Append(F, x)
<1>0. /\ G \in Seq(Items) /\ Len(G) = Len(F) + 1 /\ Len(F) \in Nat
      /\ \A i \in 1 .. Len(F) : G[i] = F[i]
      /\ G[Len(F) + 1] = x
  BY PushElements
<1> HIDE DEF G
<1>1. Syncs(G) = Append(Syncs(F), SyncOf(x))
  <2> DEFINE g == Syncs(F)
             h == Syncs(G)
  <2>1. g \in Seq(SyncSet) /\ h \in Seq(SyncSet) /\ Len(g) = Len(F) /\ Len(h) = Len(G)
    BY <1>0, MapTypes
  <2>2. \A i \in 1 .. Len(F) : h[i] = g[i]
    BY <1>0 DEF Syncs
  <2>3. h[Len(F) + 1] = SyncOf(x)
    BY <1>0 DEF Syncs
  <2> HIDE DEF g, h
  <2>4. h = Append(g, SyncOf(x))
    BY <1>0, <2>1, <2>2, <2>3, PushMap
  <2> QED
    BY <2>4 DEF g, h
<1>2. LinesOf(G) = Append(LinesOf(F), LineOf(x))
  <2> DEFINE g == LinesOf(F)
             h == LinesOf(G)
  <2>1. g \in Seq(WeightSet) /\ h \in Seq(WeightSet) /\ Len(g) = Len(F) /\ Len(h) = Len(G)
    BY <1>0, MapTypes
  <2>2. \A i \in 1 .. Len(F) : h[i] = g[i]
    BY <1>0 DEF LinesOf
  <2>3. h[Len(F) + 1] = LineOf(x)
    BY <1>0 DEF LinesOf
  <2> HIDE DEF g, h
  <2>4. h = Append(g, LineOf(x))
    BY <1>0, <2>1, <2>2, <2>3, PushMap
  <2> QED
    BY <2>4 DEF g, h
<1>3. Partials(G) = Append(Partials(F), PartialSum(LineOf(x)))
  <2> DEFINE g == Partials(F)
             h == Partials(G)
  <2>1. g \in Seq(PartialSet) /\ h \in Seq(PartialSet) /\ Len(g) = Len(F) /\ Len(h) = Len(G)
    BY <1>0, MapTypes
  <2>2. \A i \in 1 .. Len(F) : h[i] = g[i]
    BY <1>0 DEF Partials
  <2>3. h[Len(F) + 1] = PartialSum(LineOf(x))
    BY <1>0 DEF Partials
  <2> HIDE DEF g, h
  <2>4. h = Append(g, PartialSum(LineOf(x)))
    BY <1>0, <2>1, <2>2, <2>3, PushMap
  <2> QED
    BY <2>4 DEF g, h
<1>4. SumsOf(G) = Append(SumsOf(F), SumOf(x))
  <2> DEFINE g == SumsOf(F)
             h == SumsOf(G)
  <2>1. g \in Seq(SumSet) /\ h \in Seq(SumSet) /\ Len(g) = Len(F) /\ Len(h) = Len(G)
    BY <1>0, MapTypes
  <2>2. \A i \in 1 .. Len(F) : h[i] = g[i]
    BY <1>0 DEF SumsOf
  <2>3. h[Len(F) + 1] = SumOf(x)
    BY <1>0 DEF SumsOf
  <2> HIDE DEF g, h
  <2>4. h = Append(g, SumOf(x))
    BY <1>0, <2>1, <2>2, <2>3, PushMap
  <2> QED
    BY <2>4 DEF g, h
<1>5. RngsOf(G) = Append(RngsOf(F), x.r)
  <2> DEFINE g == RngsOf(F)
             h == RngsOf(G)
  <2>1. g \in Seq(Draws) /\ h \in Seq(Draws) /\ Len(g) = Len(F) /\ Len(h) = Len(G)
    BY <1>0, MapTypes
  <2>2. \A i \in 1 .. Len(F) : h[i] = g[i]
    BY <1>0 DEF RngsOf
  <2>3. h[Len(F) + 1] = x.r
    BY <1>0 DEF RngsOf
  <2> HIDE DEF g, h
  <2>4. h = Append(g, x.r)
    BY <1>0, <2>1, <2>2, <2>3, PushMap
  <2> QED
    BY <2>4 DEF g, h
<1>6. Scaleds(G) = Append(Scaleds(F), ScaledOf(x))
  <2> DEFINE g == Scaleds(F)
             h == Scaleds(G)
  <2>1. g \in Seq(PartialSet) /\ h \in Seq(PartialSet) /\ Len(g) = Len(F) /\ Len(h) = Len(G)
    BY <1>0, MapTypes
  <2>2. \A i \in 1 .. Len(F) : h[i] = g[i]
    BY <1>0 DEF Scaleds
  <2>3. h[Len(F) + 1] = ScaledOf(x)
    BY <1>0 DEF Scaleds
  <2> HIDE DEF g, h
  <2>4. h = Append(g, ScaledOf(x))
    BY <1>0, <2>1, <2>2, <2>3, PushMap
  <2> QED
    BY <2>4 DEF g, h
<1>7. Masks(G) = Append(Masks(F), MaskOf(x))
  <2> DEFINE g == Masks(F)
             h == Masks(G)
  <2>1. g \in Seq(MaskSet) /\ h \in Seq(MaskSet) /\ Len(g) = Len(F) /\ Len(h) = Len(G)
    BY <1>0, MapTypes
  <2>2. \A i \in 1 .. Len(F) : h[i] = g[i]
    BY <1>0 DEF Masks
  <2>3. h[Len(F) + 1] = MaskOf(x)
    BY <1>0 DEF Masks
  <2> HIDE DEF g, h
  <2>4. h = Append(g, MaskOf(x))
    BY <1>0, <2>1, <2>2, <2>3, PushMap
  <2> QED
    BY <2>4 DEF g, h
<1> QED
  BY <1>1, <1>2, <1>3, <1>4, <1>5, <1>6, <1>7 DEF G

\* The oldest line is done with.
LEMMA MapPop ==
  ASSUME NEW F \in Seq(Items), F # <<>>
  PROVE  /\ Syncs(Tail(F)) = Tail(Syncs(F))
         /\ LinesOf(Tail(F)) = Tail(LinesOf(F))
         /\ Partials(Tail(F)) = Tail(Partials(F))
         /\ SumsOf(Tail(F)) = Tail(SumsOf(F))
         /\ RngsOf(Tail(F)) = Tail(RngsOf(F))
         /\ Scaleds(Tail(F)) = Tail(Scaleds(F))
         /\ Masks(Tail(F)) = Tail(Masks(F))
<1> DEFINE G == Tail(F)
<1>0. /\ G \in Seq(Items) /\ Len(G) = Len(F) - 1 /\ Len(F) \in Nat /\ Len(F) >= 1
      /\ \A i \in 1 .. Len(G) : i + 1 \in 1 .. Len(F) /\ G[i] = F[i + 1]
  BY PopElements
<1> HIDE DEF G
<1>1. Syncs(G) = Tail(Syncs(F))
  <2> DEFINE g == Syncs(F)
             h == Syncs(G)
  <2>1. g \in Seq(SyncSet) /\ h \in Seq(SyncSet) /\ Len(g) = Len(F) /\ Len(h) = Len(G)
    BY <1>0, MapTypes
  <2>2. \A i \in 1 .. Len(G) : h[i] = g[i + 1]
    BY <1>0 DEF Syncs
  <2> HIDE DEF g, h
  <2>3. g # <<>>
    BY <1>0, <2>1
  <2>4. h = Tail(g)
    BY <1>0, <2>1, <2>2, <2>3, PopMap
  <2> QED
    BY <2>4 DEF g, h
<1>2. LinesOf(G) = Tail(LinesOf(F))
  <2> DEFINE g == LinesOf(F)
             h == LinesOf(G)
  <2>1. g \in Seq(WeightSet) /\ h \in Seq(WeightSet) /\ Len(g) = Len(F) /\ Len(h) = Len(G)
    BY <1>0, MapTypes
  <2>2. \A i \in 1 .. Len(G) : h[i] = g[i + 1]
    BY <1>0 DEF LinesOf
  <2> HIDE DEF g, h
  <2>3. g # <<>>
    BY <1>0, <2>1
  <2>4. h = Tail(g)
    BY <1>0, <2>1, <2>2, <2>3, PopMap
  <2> QED
    BY <2>4 DEF g, h
<1>3. Partials(G) = Tail(Partials(F))
  <2> DEFINE g == Partials(F)
             h == Partials(G)
  <2>1. g \in Seq(PartialSet) /\ h \in Seq(PartialSet) /\ Len(g) = Len(F) /\ Len(h) = Len(G)
    BY <1>0, MapTypes
  <2>2. \A i \in 1 .. Len(G) : h[i] = g[i + 1]
    BY <1>0 DEF Partials
  <2> HIDE DEF g, h
  <2>3. g # <<>>
    BY <1>0, <2>1
  <2>4. h = Tail(g)
    BY <1>0, <2>1, <2>2, <2>3, PopMap
  <2> QED
    BY <2>4 DEF g, h
<1>4. SumsOf(G) = Tail(SumsOf(F))
  <2> DEFINE g == SumsOf(F)
             h == SumsOf(G)
  <2>1. g \in Seq(SumSet) /\ h \in Seq(SumSet) /\ Len(g) = Len(F) /\ Len(h) = Len(G)
    BY <1>0, MapTypes
  <2>2. \A i \in 1 .. Len(G) : h[i] = g[i + 1]
    BY <1>0 DEF SumsOf
  <2> HIDE DEF g, h
  <2>3. g # <<>>
    BY <1>0, <2>1
  <2>4. h = Tail(g)
    BY <1>0, <2>1, <2>2, <2>3, PopMap
  <2> QED
    BY <2>4 DEF g, h
<1>5. RngsOf(G) = Tail(RngsOf(F))
  <2> DEFINE g == RngsOf(F)
             h == RngsOf(G)
  <2>1. g \in Seq(Draws) /\ h \in Seq(Draws) /\ Len(g) = Len(F) /\ Len(h) = Len(G)
    BY <1>0, MapTypes
  <2>2. \A i \in 1 .. Len(G) : h[i] = g[i + 1]
    BY <1>0 DEF RngsOf
  <2> HIDE DEF g, h
  <2>3. g # <<>>
    BY <1>0, <2>1
  <2>4. h = Tail(g)
    BY <1>0, <2>1, <2>2, <2>3, PopMap
  <2> QED
    BY <2>4 DEF g, h
<1>6. Scaleds(G) = Tail(Scaleds(F))
  <2> DEFINE g == Scaleds(F)
             h == Scaleds(G)
  <2>1. g \in Seq(PartialSet) /\ h \in Seq(PartialSet) /\ Len(g) = Len(F) /\ Len(h) = Len(G)
    BY <1>0, MapTypes
  <2>2. \A i \in 1 .. Len(G) : h[i] = g[i + 1]
    BY <1>0 DEF Scaleds
  <2> HIDE DEF g, h
  <2>3. g # <<>>
    BY <1>0, <2>1
  <2>4. h = Tail(g)
    BY <1>0, <2>1, <2>2, <2>3, PopMap
  <2> QED
    BY <2>4 DEF g, h
<1>7. Masks(G) = Tail(Masks(F))
  <2> DEFINE g == Masks(F)
             h == Masks(G)
  <2>1. g \in Seq(MaskSet) /\ h \in Seq(MaskSet) /\ Len(g) = Len(F) /\ Len(h) = Len(G)
    BY <1>0, MapTypes
  <2>2. \A i \in 1 .. Len(G) : h[i] = g[i + 1]
    BY <1>0 DEF Masks
  <2> HIDE DEF g, h
  <2>3. g # <<>>
    BY <1>0, <2>1
  <2>4. h = Tail(g)
    BY <1>0, <2>1, <2>2, <2>3, PopMap
  <2> QED
    BY <2>4 DEF g, h
<1> QED
  BY <1>1, <1>2, <1>3, <1>4, <1>5, <1>6, <1>7 DEF G

-----------------------------------------------------------------------------
(* The kernels between label_filter and sample                             *)

\* The lengths of the streams.
LEMMA Lengths ==
  ASSUME TypeOK, SyncType
  PROVE  /\ Len(mask) \in Nat /\ Len(scale) \in Nat /\ Len(sums) \in Nat
         /\ Len(partial) \in Nat /\ Len(weight_in) \in Nat /\ Len(weight) \in Nat
         /\ Len(rng) \in Nat /\ Len(bs) \in Nat /\ Len(bs_perfix) \in Nat
         /\ Len(bs_sample) \in Nat
BY DEF TypeOK, SyncType

\* bs_duplicator hands a sync packet on to perfix_sum and to sample.
LEMMA BsDuplicatorStep ==
  ASSUME TypeOK, SyncType, NEW F \in Seq(Items), NEW C, Streams(F), Carried(F, C),
         BsDuplicator
  PROVE  TypeOK' /\ SyncType' /\ Streams(F)' /\ Carried(F, C)'
<1> DEFINE g == Syncs(F)
           a == Len(mask) + Len(scale) + Len(sums)
           x == Head(bs)
<1>1. g \in Seq(SyncSet) /\ Len(g) = Len(F) /\ Len(F) \in Nat
  BY MapTypes
<1>2. /\ Len(bs) \in Nat /\ Len(bs_perfix) \in Nat /\ Len(bs_sample) \in Nat /\ a \in Nat
      /\ bs \in Seq(SyncSet) /\ bs_perfix \in Seq(SyncSet) /\ bs_sample \in Seq(SyncSet)
  BY Lengths DEF SyncType
<1>3. /\ bs # <<>>
      /\ bs_perfix' = Append(bs_perfix, x)
      /\ bs_sample' = Append(bs_sample, x)
      /\ bs' = Tail(bs)
      /\ mask' = mask /\ scale' = scale /\ sums' = sums /\ partial' = partial
      /\ weight_in' = weight_in /\ weight' = weight /\ rng' = rng
      /\ base_sum' = base_sum /\ selected' = selected /\ fed' = fed
  BY DEF BsDuplicator
<1>4. /\ Part(bs_sample, g, 0) /\ Part(bs_perfix, g, a) /\ Part(bs, g, Len(bs_sample))
      /\ Len(bs_sample) + Len(bs) = Len(F)
      /\ a + Len(bs_perfix) = Len(bs_sample)
  BY DEF Streams
<1> HIDE DEF g, a, x
<1>5. /\ x \in SyncSet /\ Tail(bs) \in Seq(SyncSet) /\ Len(bs) >= 1
      /\ Len(Tail(bs)) = Len(bs) - 1
  BY <1>2, <1>3, PopElements DEF x
<1>6. x = g[Len(bs_sample) + 1] /\ Part(Tail(bs), g, Len(bs_sample) + 1)
  BY <1>1, <1>2, <1>3, <1>4, PartPop DEF x
<1>7. Part(Append(bs_sample, x), g, 0)
  <2>1. 0 + Len(bs_sample) < Len(g) /\ x = g[0 + Len(bs_sample) + 1]
    BY <1>1, <1>2, <1>4, <1>5, <1>6
  <2> QED
    BY <1>1, <1>2, <1>4, <1>5, <2>1, PartPush
<1>8. Part(Append(bs_perfix, x), g, a)
  <2>1. a + Len(bs_perfix) < Len(g) /\ x = g[a + Len(bs_perfix) + 1]
    BY <1>1, <1>2, <1>4, <1>5, <1>6
  <2> QED
    BY <1>1, <1>2, <1>4, <1>5, <2>1, PartPush
<1>9. /\ bs_sample' \in Seq(SyncSet) /\ bs_perfix' \in Seq(SyncSet) /\ bs' \in Seq(SyncSet)
      /\ Len(bs_sample') = Len(bs_sample) + 1 /\ Len(bs_perfix') = Len(bs_perfix) + 1
      /\ Len(bs') = Len(bs) - 1
  BY <1>2, <1>3, <1>5, PushElements
<1>10. TypeOK' /\ SyncType'
  BY <1>3, <1>9 DEF TypeOK, SyncType
<1>11. /\ Len(bs_sample') + Len(bs') = Len(F)
       /\ a + Len(bs_perfix') = Len(bs_sample')
  <2>1. /\ Len(bs_sample') = Len(bs_sample) + 1 /\ Len(bs_perfix') = Len(bs_perfix) + 1
        /\ Len(bs') = Len(bs) - 1
    BY <1>9
  <2>2. /\ Len(bs_sample) + Len(bs) = Len(F) /\ a + Len(bs_perfix) = Len(bs_sample)
    BY <1>4
  <2>3. /\ Len(bs) \in Nat /\ Len(bs_perfix) \in Nat /\ Len(bs_sample) \in Nat /\ a \in Nat
    BY <1>2
  <2>4. Len(bs_sample') + Len(bs') = Len(F)
    BY <2>1, <2>2, <2>3
  <2>5. a + Len(bs_perfix') = Len(bs_sample')
    BY <2>1, <2>2, <2>3, SMTT(30)
  <2> QED
    BY <2>4, <2>5
<1>12. Streams(F)'
  <2>1. /\ Part(bs_sample', g, 0) /\ Part(bs_perfix', g, a) /\ Part(bs', g, Len(bs_sample'))
    BY <1>3, <1>6, <1>7, <1>8, <1>9
  <2> QED
    BY <1>3, <1>11, <2>1 DEF Streams, a, g
<1>13. Carried(F, C)'
  BY <1>3 DEF Carried
<1> QED
  BY <1>10, <1>12, <1>13

\* partial_sum keeps the weights for reservoir_mask and sends on their sums.
LEMMA DoPartialSumStep ==
  ASSUME TypeOK, SyncType, NEW F \in Seq(Items), NEW C, Streams(F), Carried(F, C),
         DoPartialSum
  PROVE  TypeOK' /\ SyncType' /\ Streams(F)' /\ Carried(F, C)'
<1> DEFINE g == LinesOf(F)
           h == Partials(F)
           a == Len(mask) + Len(scale) + Len(sums)
           n == a + Len(partial)
           x == Head(weight_in)
           y == PartialSum(x)
<1>1. /\ g \in Seq(WeightSet) /\ Len(g) = Len(F) /\ Len(F) \in Nat
      /\ h \in Seq(PartialSet) /\ Len(h) = Len(F)
  BY MapTypes
<1>2. /\ Len(weight_in) \in Nat /\ Len(weight) \in Nat /\ Len(partial) \in Nat /\ a \in Nat
      /\ n \in Nat /\ Len(mask) \in Nat
      /\ weight_in \in Seq(WeightSet) /\ weight \in Seq(WeightSet)
      /\ partial \in Seq(PartialSet)
  BY Lengths DEF TypeOK, WeightSet, PartialSet
<1>3. /\ weight_in # <<>>
      /\ weight' = Append(weight, x)
      /\ partial' = Append(partial, y)
      /\ weight_in' = Tail(weight_in)
      /\ mask' = mask /\ scale' = scale /\ sums' = sums /\ rng' = rng
      /\ bs' = bs /\ bs_perfix' = bs_perfix /\ bs_sample' = bs_sample
      /\ base_sum' = base_sum /\ selected' = selected /\ fed' = fed
  BY DEF DoPartialSum, sampleVars
<1>4. /\ Part(weight_in, g, n) /\ Part(weight, g, Len(mask)) /\ Part(partial, h, a)
      /\ n + Len(weight_in) = Len(F)
      /\ Len(mask) + Len(weight) + Len(weight_in) = Len(F)
  BY DEF Streams
<1>h. \A k \in 1 .. Len(F) : h[k] = PartialSum(g[k])
  BY DEF Partials, LinesOf
<1> HIDE DEF g, h, a, x, y
<1>5. /\ x \in WeightSet /\ Tail(weight_in) \in Seq(WeightSet) /\ Len(weight_in) >= 1
      /\ Len(Tail(weight_in)) = Len(weight_in) - 1
  BY <1>2, <1>3, PopElements DEF x
<1>6. /\ n + 1 \in 1 .. Len(g) /\ x = g[n + 1] /\ Part(Tail(weight_in), g, n + 1)
  BY <1>1, <1>2, <1>3, <1>4, PartPop DEF x
<1>7. y = h[n + 1] /\ y \in PartialSet
  <2>1. y = h[n + 1]
    BY <1>1, <1>6, <1>h DEF y
  <2> QED
    BY <1>1, <1>6, <2>1
<1>8. Part(Append(weight, x), g, Len(mask))
  <2>1. Len(mask) + Len(weight) < Len(g) /\ x = g[Len(mask) + Len(weight) + 1]
    BY <1>1, <1>2, <1>4, <1>5, <1>6, SMTT(30)
  <2> QED
    BY <1>1, <1>2, <1>4, <1>5, <2>1, PartPush
<1>9. Part(Append(partial, y), h, a)
  <2>1. a + Len(partial) < Len(h) /\ y = h[a + Len(partial) + 1]
    BY <1>1, <1>2, <1>4, <1>5, <1>7
  <2> QED
    BY <1>1, <1>2, <1>4, <1>7, <2>1, PartPush
<1>10. /\ weight' \in Seq(WeightSet) /\ partial' \in Seq(PartialSet)
       /\ weight_in' \in Seq(WeightSet)
       /\ Len(weight') = Len(weight) + 1 /\ Len(partial') = Len(partial) + 1
       /\ Len(weight_in') = Len(weight_in) - 1
  BY <1>2, <1>3, <1>5, <1>7, PushElements
<1>11. TypeOK' /\ SyncType'
  BY <1>3, <1>10 DEF TypeOK, SyncType, WeightSet, PartialSet
<1>12. /\ a + Len(partial') + Len(weight_in') = Len(F)
       /\ Len(mask) + Len(weight') + Len(weight_in') = Len(F)
  <2>1. /\ Len(weight') = Len(weight) + 1 /\ Len(partial') = Len(partial) + 1
        /\ Len(weight_in') = Len(weight_in) - 1
    BY <1>10
  <2>2. /\ a + Len(partial) + Len(weight_in) = Len(F)
        /\ Len(mask) + Len(weight) + Len(weight_in) = Len(F)
    BY <1>4
  <2>3. /\ Len(weight_in) \in Nat /\ Len(weight) \in Nat /\ Len(partial) \in Nat
        /\ a \in Nat /\ Len(mask) \in Nat
    BY <1>2
  <2>4. a + Len(partial') + Len(weight_in') = Len(F)
    BY <2>1, <2>2, <2>3, SMTT(30)
  <2>5. Len(mask) + Len(weight') + Len(weight_in') = Len(F)
    BY <2>1, <2>2, <2>3, SMTT(30)
  <2> QED
    BY <2>4, <2>5
<1>13. Streams(F)'
  <2>1. /\ Part(weight', g, Len(mask)) /\ Part(partial', h, a)
        /\ Part(weight_in', g, a + Len(partial'))
    <3>1. a + Len(partial') = n + 1
      BY <1>2, <1>10
    <3> QED
      BY <1>3, <1>6, <1>8, <1>9, <3>1
  <2> QED
    BY <1>3, <1>12, <2>1 DEF Streams, a, g, h
<1>14. Carried(F, C)'
  BY <1>3 DEF Carried
<1> QED
  BY <1>11, <1>13, <1>14

\* The sum after a line is the one of the list the line leaves open.
LEMMA BaseAfter ==
  ASSUME NEW x \in Items
  PROVE  /\ After(Rest(x.list)).base
              = IF x.list.done THEN 0
                ELSE NextBase(After(x.prev).base, PartialSum(LineOf(x)))
         /\ After(Rest(x.list)).base \in 0 .. SumMod - 1
<1>1. CASE x.list.done
  <2>1. NewList.words = <<>>
    BY DEF NewList
  <2>2. After(NewList) = StartState
    BY <2>1, AfterEmpty
  <2>3. StartState.base = 0 /\ 0 \in 0 .. SumMod - 1
    BY ReservoirAssumption DEF StartState
  <2> QED
    BY <1>1, <2>2, <2>3, Zenon DEF Rest
<1>2. CASE ~x.list.done
  <2>1. After(x.list).base \in 0 .. SumMod - 1
    BY DEF Items, GoodItem, Labelled
  <2> QED
    BY <1>2, <2>1, ItemFacts, Zenon DEF Rest
<1> QED
  BY <1>1, <1>2

\* perfix_sum adds what came before in the list and carries the sum on.
LEMMA PerfixSumStep ==
  ASSUME TypeOK, SyncType, NEW F \in Seq(Items), NEW C, Linked(F, C),
         Streams(F), Carried(F, C), PerfixSum
  PROVE  TypeOK' /\ SyncType' /\ Streams(F)' /\ Carried(F, C)'
<1> DEFINE g == Syncs(F)
           h == Partials(F)
           f == SumsOf(F)
           c == Len(mask) + Len(scale)
           a == c + Len(sums)
           x == Head(bs_perfix)
           y == Head(partial)
           z == [base |-> base_sum, partial |-> y]
<1>1. /\ g \in Seq(SyncSet) /\ Len(g) = Len(F) /\ Len(F) \in Nat
      /\ h \in Seq(PartialSet) /\ Len(h) = Len(F)
      /\ f \in Seq(SumSet) /\ Len(f) = Len(F)
  BY MapTypes
<1>2. /\ Len(bs_perfix) \in Nat /\ Len(partial) \in Nat /\ Len(sums) \in Nat /\ c \in Nat
      /\ Len(weight_in) \in Nat /\ Len(bs_sample) \in Nat /\ a \in Nat
  BY Lengths
<1>3. /\ bs_perfix \in Seq(SyncSet) /\ partial \in Seq(PartialSet) /\ sums \in Seq(SumSet)
  BY DEF TypeOK, SyncType, PartialSet, SumSet
<1>4. /\ bs_perfix # <<>> /\ partial # <<>>
      /\ sums' = Append(sums, z)
      /\ base_sum' = IF x.end_of_burst THEN 0 ELSE NextBase(base_sum, y)
      /\ bs_perfix' = Tail(bs_perfix) /\ partial' = Tail(partial)
      /\ mask' = mask /\ scale' = scale /\ rng' = rng /\ weight' = weight
      /\ weight_in' = weight_in /\ bs' = bs /\ bs_sample' = bs_sample
      /\ selected' = selected /\ fed' = fed
  BY DEF PerfixSum, feedVars, sampleVars
<1>5. /\ Part(bs_perfix, g, a) /\ Part(partial, h, a) /\ Part(sums, f, c)
      /\ a + Len(partial) + Len(weight_in) = Len(F)
      /\ a + Len(bs_perfix) = Len(bs_sample)
  BY DEF Streams
<1>6. base_sum = After(Cur(F, C, a)).base /\ selected = After(C).selected
  BY DEF Carried
<1>m. \A k \in 1 .. Len(F) : /\ g[k] = SyncOf(F[k]) /\ h[k] = PartialSum(LineOf(F[k]))
                             /\ f[k] = SumOf(F[k])
  BY DEF Syncs, Partials, SumsOf
<1> HIDE DEF g, h, f, c, a, x, y, z
<1>7. /\ Tail(bs_perfix) \in Seq(SyncSet) /\ Len(bs_perfix) >= 1
      /\ Len(Tail(bs_perfix)) = Len(bs_perfix) - 1
  BY <1>3, <1>4, PopElements
<1>8. /\ Tail(partial) \in Seq(PartialSet) /\ Len(partial) >= 1
      /\ Len(Tail(partial)) = Len(partial) - 1
  BY <1>3, <1>4, PopElements
<1>9. a + 1 \in 1 .. Len(g) /\ x = g[a + 1] /\ Part(Tail(bs_perfix), g, a + 1)
  BY <1>1, <1>2, <1>3, <1>4, <1>5, PartPop DEF x
<1>10. y = h[a + 1] /\ Part(Tail(partial), h, a + 1)
  BY <1>1, <1>2, <1>3, <1>4, <1>5, PartPop, SMTT(30) DEF y
<1> DEFINE it == F[a + 1]
<1>11. a + 1 \in 1 .. Len(F) /\ it \in Items /\ a + 1 # 0 /\ (a + 1) - 1 = a
  BY <1>1, <1>2, <1>9
<1>12. x = SyncOf(it) /\ y = PartialSum(LineOf(it)) /\ f[a + 1] = SumOf(it)
  BY <1>9, <1>10, <1>11, <1>m
<1>13. it.prev = Cur(F, C, a) /\ Cur(F, C, a + 1) = Rest(it.list)
  BY <1>11, Zenon DEF Linked, Cur
<1>14. z = f[a + 1]
  BY <1>6, <1>12, <1>13, Zenon DEF z, SumOf
<1>15. z \in SumSet
  BY <1>1, <1>11, <1>14
<1>16. base_sum' = After(Cur(F, C, a + 1)).base /\ base_sum' \in 0 .. SumMod - 1
  <2>1. x.end_of_burst = it.list.done
    BY <1>12 DEF SyncOf
  <2>2. base_sum' = IF it.list.done THEN 0
                    ELSE NextBase(After(it.prev).base, PartialSum(LineOf(it)))
    BY <1>4, <1>6, <1>12, <1>13, <2>1
  <2> HIDE DEF it
  <2> QED
    BY <1>11, <1>13, <2>2, BaseAfter
<1> HIDE DEF it
<1>17. Part(Append(sums, z), f, c)
  <2>1. c + Len(sums) < Len(f) /\ z = f[c + Len(sums) + 1]
    BY <1>1, <1>2, <1>11, <1>14 DEF a
  <2> QED
    BY <1>1, <1>2, <1>3, <1>5, <1>15, <2>1, PartPush
<1>18. sums' \in Seq(SumSet) /\ Len(sums') = Len(sums) + 1
  BY <1>3, <1>4, <1>15, PushElements
<1>19. /\ bs_perfix' \in Seq(SyncSet) /\ partial' \in Seq(PartialSet)
       /\ Len(bs_perfix') = Len(bs_perfix) - 1 /\ Len(partial') = Len(partial) - 1
  BY <1>4, <1>7, <1>8
<1>20. TypeOK' /\ SyncType'
  BY <1>4, <1>16, <1>18, <1>19 DEF TypeOK, SyncType, SumSet, PartialSet
<1>21. c + Len(sums') = a + 1
  <2>1. a = c + Len(sums)
    BY DEF a
  <2>2. Len(sums') = Len(sums) + 1
    BY <1>18
  <2> QED
    BY <1>2, <2>1, <2>2
<1>22. /\ (a + 1) + Len(partial') + Len(weight_in) = Len(F)
       /\ (a + 1) + Len(bs_perfix') = Len(bs_sample)
  <2>1. /\ a + Len(partial) + Len(weight_in) = Len(F)
        /\ a + Len(bs_perfix) = Len(bs_sample)
    BY <1>5
  <2>2. Len(bs_perfix') = Len(bs_perfix) - 1 /\ Len(partial') = Len(partial) - 1
    BY <1>19
  <2>3. (a + 1) + Len(partial') + Len(weight_in) = Len(F)
    BY <1>2, <2>1, <2>2, SMTT(30)
  <2>4. (a + 1) + Len(bs_perfix') = Len(bs_sample)
    BY <1>2, <2>1, <2>2, SMTT(30)
  <2> QED
    BY <2>3, <2>4
<1>23. /\ (Len(mask) + Len(scale) + Len(sums))' = a + 1
       /\ (Len(mask) + Len(scale) + Len(sums) + Len(partial))' = (a + 1) + Len(partial')
       /\ (Len(mask) + Len(scale) + Len(sums) + Len(partial))
            = (a + 1) + Len(partial')
  <2>1. Len(partial') = Len(partial) - 1
    BY <1>19
  <2>2. a + Len(partial) = (a + 1) + Len(partial')
    BY <1>2, <2>1
  <2> QED
    BY <1>4, <1>21, <2>2 DEF c, a
<1>24. Streams(F)'
  <2>1. /\ Part(sums', f, c) /\ Part(partial', h, a + 1) /\ Part(bs_perfix', g, a + 1)
    BY <1>4, <1>9, <1>10, <1>17
  <2> QED
    BY <1>4, <1>22, <1>23, <2>1 DEF Streams, c, g, h, f
<1>25. Carried(F, C)'
  BY <1>4, <1>6, <1>16, <1>23 DEF Carried
<1> QED
  BY <1>20, <1>24, <1>25

\* scale_weight scales the random numbers of a line with its sums.
LEMMA ScaleWeightStep ==
  ASSUME TypeOK, SyncType, NEW F \in Seq(Items), NEW C, Streams(F), Carried(F, C),
         ScaleWeight
  PROVE  TypeOK' /\ SyncType' /\ Streams(F)' /\ Carried(F, C)'
<1> DEFINE g == SumsOf(F)
           h == RngsOf(F)
           f == Scaleds(F)
           a == Len(mask) + Len(scale)
           x == Head(sums)
           y == Head(rng)
           z == [i \in Lane |-> Scale(y[i], x.base, x.partial[i])]
<1>1. /\ g \in Seq(SumSet) /\ Len(g) = Len(F) /\ Len(F) \in Nat
      /\ h \in Seq(Draws) /\ Len(h) = Len(F)
      /\ f \in Seq(PartialSet) /\ Len(f) = Len(F)
  BY MapTypes
<1>2. /\ Len(mask) \in Nat /\ Len(scale) \in Nat /\ Len(sums) \in Nat /\ Len(rng) \in Nat
      /\ a \in Nat
  BY Lengths
<1>3. sums \in Seq(SumSet) /\ rng \in Seq(Draws) /\ scale \in Seq(PartialSet)
  BY DEF TypeOK, SumSet, PartialSet, Draws
<1>4. /\ sums # <<>> /\ rng # <<>>
      /\ scale' = Append(scale, z)
      /\ sums' = Tail(sums) /\ rng' = Tail(rng)
      /\ mask' = mask /\ weight' = weight /\ weight_in' = weight_in /\ partial' = partial
      /\ bs' = bs /\ bs_perfix' = bs_perfix /\ bs_sample' = bs_sample
      /\ base_sum' = base_sum /\ selected' = selected /\ fed' = fed
  BY DEF ScaleWeight, perfixVars, sampleVars
<1>5. /\ Part(sums, g, a) /\ Part(rng, h, a) /\ Part(scale, f, Len(mask))
      /\ a + Len(rng) = Len(F)
  BY DEF Streams
<1>m. \A k \in 1 .. Len(F) : /\ g[k] = SumOf(F[k]) /\ h[k] = F[k].r
                             /\ f[k] = ScaledOf(F[k])
  BY DEF SumsOf, RngsOf, Scaleds
<1> HIDE DEF g, h, f, a, x, y, z
<1>6. /\ Tail(sums) \in Seq(SumSet) /\ Len(sums) >= 1 /\ Len(Tail(sums)) = Len(sums) - 1
  BY <1>3, <1>4, PopElements
<1>7. /\ Tail(rng) \in Seq(Draws) /\ Len(rng) >= 1 /\ Len(Tail(rng)) = Len(rng) - 1
  BY <1>3, <1>4, PopElements
<1>8. a + 1 \in 1 .. Len(g) /\ x = g[a + 1] /\ Part(Tail(sums), g, a + 1)
  BY <1>1, <1>2, <1>3, <1>4, <1>5, PartPop DEF x
<1>9. y = h[a + 1] /\ Part(Tail(rng), h, a + 1)
  BY <1>1, <1>2, <1>3, <1>4, <1>5, PartPop DEF y
<1>10. a + 1 \in 1 .. Len(F)
  BY <1>1, <1>8
<1>11. z = f[a + 1]
  <2> DEFINE it == F[a + 1]
  <2>1. x = SumOf(it) /\ y = it.r /\ f[a + 1] = ScaledOf(it)
    BY <1>8, <1>9, <1>10, <1>m
  <2> HIDE DEF it
  <2>2. x.base = After(it.prev).base /\ x.partial = PartialSum(LineOf(it))
    BY <2>1 DEF SumOf
  <2> QED
    BY <2>1, <2>2, Zenon DEF z, ScaledOf, ScaleOf
<1>12. z \in PartialSet
  BY <1>1, <1>10, <1>11
<1>13. Part(Append(scale, z), f, Len(mask))
  <2>1. Len(mask) + Len(scale) < Len(f) /\ z = f[Len(mask) + Len(scale) + 1]
    BY <1>1, <1>2, <1>10, <1>11 DEF a
  <2> QED
    BY <1>1, <1>2, <1>3, <1>5, <1>12, <2>1, PartPush
<1>14. scale' \in Seq(PartialSet) /\ Len(scale') = Len(scale) + 1
  BY <1>3, <1>4, <1>12, PushElements
<1>15. /\ sums' \in Seq(SumSet) /\ rng' \in Seq(Draws)
       /\ Len(sums') = Len(sums) - 1 /\ Len(rng') = Len(rng) - 1
  BY <1>4, <1>6, <1>7
<1>16. TypeOK' /\ SyncType'
  BY <1>4, <1>14, <1>15 DEF TypeOK, SyncType, SumSet, PartialSet, Draws
<1>17. Len(mask) + Len(scale') = a + 1
  <2>1. a = Len(mask) + Len(scale) /\ Len(scale') = Len(scale) + 1
    BY <1>14 DEF a
  <2> QED
    BY <1>2, <2>1
<1>18. (a + 1) + Len(sums') = a + Len(sums)
  <2>1. Len(sums') = Len(sums) - 1
    BY <1>15
  <2> QED
    BY <1>2, <2>1
<1>19. (a + 1) + Len(rng') = Len(F)
  <2>1. a + Len(rng) = Len(F) /\ Len(rng') = Len(rng) - 1
    BY <1>5, <1>15
  <2> QED
    BY <1>2, <2>1
<1>20. /\ (Len(mask) + Len(scale))' = a + 1
       /\ (Len(mask) + Len(scale) + Len(sums))' = Len(mask) + Len(scale) + Len(sums)
  BY <1>4, <1>17, <1>18 DEF a
<1>21. Streams(F)'
  <2>1. /\ Part(scale', f, Len(mask)) /\ Part(sums', g, a + 1) /\ Part(rng', h, a + 1)
    BY <1>4, <1>8, <1>9, <1>13
  <2> QED
    BY <1>4, <1>19, <1>20, <2>1 DEF Streams, g, h, f
<1>22. Carried(F, C)'
  BY <1>4, <1>20 DEF Carried
<1> QED
  BY <1>16, <1>21, <1>22

\* reservoir_mask compares the scaled numbers of a line with its weights.
LEMMA ReservoirMaskStep ==
  ASSUME TypeOK, SyncType, NEW F \in Seq(Items), NEW C, Streams(F), Carried(F, C),
         ReservoirMask
  PROVE  TypeOK' /\ SyncType' /\ Streams(F)' /\ Carried(F, C)'
<1> DEFINE g == LinesOf(F)
           h == Scaleds(F)
           f == Masks(F)
           a == Len(mask)
           x == Head(weight)
           y == Head(scale)
           z == Mask(x, y)
<1>1. /\ g \in Seq(WeightSet) /\ Len(g) = Len(F) /\ Len(F) \in Nat
      /\ h \in Seq(PartialSet) /\ Len(h) = Len(F)
      /\ f \in Seq(MaskSet) /\ Len(f) = Len(F)
  BY MapTypes
<1>2. /\ Len(weight_in) \in Nat /\ Len(weight) \in Nat /\ Len(scale) \in Nat /\ a \in Nat
  BY Lengths
<1>3. weight \in Seq(WeightSet) /\ scale \in Seq(PartialSet) /\ mask \in Seq(MaskSet)
  BY DEF TypeOK, WeightSet, PartialSet, MaskSet
<1>4. /\ weight # <<>> /\ scale # <<>>
      /\ mask' = Append(mask, z)
      /\ weight' = Tail(weight) /\ scale' = Tail(scale)
      /\ sums' = sums /\ rng' = rng /\ weight_in' = weight_in /\ partial' = partial
      /\ bs' = bs /\ bs_perfix' = bs_perfix /\ bs_sample' = bs_sample
      /\ base_sum' = base_sum /\ selected' = selected /\ fed' = fed
  BY DEF ReservoirMask, perfixVars, feedVars
<1>5. /\ Part(weight, g, a) /\ Part(scale, h, a) /\ Part(mask, f, 0)
      /\ a + Len(weight) + Len(weight_in) = Len(F)
  BY DEF Streams
<1>m. \A k \in 1 .. Len(F) : /\ g[k] = LineOf(F[k]) /\ h[k] = ScaledOf(F[k])
                             /\ f[k] = MaskOf(F[k])
  BY DEF LinesOf, Scaleds, Masks
<1> HIDE DEF g, h, f, a, x, y, z
<1>6. /\ Tail(weight) \in Seq(WeightSet) /\ Len(weight) >= 1
      /\ Len(Tail(weight)) = Len(weight) - 1
  BY <1>3, <1>4, PopElements
<1>7. /\ Tail(scale) \in Seq(PartialSet) /\ Len(scale) >= 1
      /\ Len(Tail(scale)) = Len(scale) - 1
  BY <1>3, <1>4, PopElements
<1>8. a + 1 \in 1 .. Len(g) /\ x = g[a + 1] /\ Part(Tail(weight), g, a + 1)
  BY <1>1, <1>2, <1>3, <1>4, <1>5, PartPop DEF x
<1>9. y = h[a + 1] /\ Part(Tail(scale), h, a + 1)
  BY <1>1, <1>2, <1>3, <1>4, <1>5, PartPop DEF y
<1>10. a + 1 \in 1 .. Len(F)
  BY <1>1, <1>8
<1>11. z = f[a + 1]
  <2> DEFINE it == F[a + 1]
  <2>1. x = LineOf(it) /\ y = ScaledOf(it) /\ f[a + 1] = MaskOf(it)
    BY <1>8, <1>9, <1>10, <1>m
  <2> HIDE DEF it
  <2> QED
    BY <2>1, Zenon DEF z, MaskOf
<1>12. z \in MaskSet
  BY <1>1, <1>10, <1>11
<1>13. Part(Append(mask, z), f, 0)
  <2>1. 0 + Len(mask) < Len(f) /\ z = f[0 + Len(mask) + 1]
    BY <1>1, <1>2, <1>10, <1>11 DEF a
  <2> QED
    BY <1>1, <1>3, <1>5, <1>12, <2>1, PartPush
<1>14. mask' \in Seq(MaskSet) /\ Len(mask') = a + 1
  BY <1>3, <1>4, <1>12, PushElements DEF a
<1>15. /\ weight' \in Seq(WeightSet) /\ scale' \in Seq(PartialSet)
       /\ Len(weight') = Len(weight) - 1 /\ Len(scale') = Len(scale) - 1
  BY <1>4, <1>6, <1>7
<1>16. TypeOK' /\ SyncType'
  BY <1>4, <1>14, <1>15 DEF TypeOK, SyncType, WeightSet, PartialSet, MaskSet
<1>17. (a + 1) + Len(scale') = a + Len(scale)
  <2>1. Len(scale') = Len(scale) - 1
    BY <1>15
  <2> QED
    BY <1>2, <2>1
<1>18. (a + 1) + Len(weight') + Len(weight_in) = Len(F)
  <2>1. a + Len(weight) + Len(weight_in) = Len(F) /\ Len(weight') = Len(weight) - 1
    BY <1>5, <1>15
  <2> QED
    BY <1>2, <2>1
<1>19. Len(mask)' = a + 1 /\ (Len(mask) + Len(scale))' = Len(mask) + Len(scale)
  BY <1>14, <1>17 DEF a
<1>20. Streams(F)'
  <2>1. /\ Part(mask', f, 0) /\ Part(weight', g, a + 1) /\ Part(scale', h, a + 1)
    BY <1>4, <1>8, <1>9, <1>13
  <2> QED
    BY <1>4, <1>18, <1>19, <2>1 DEF Streams, g, h, f
<1>21. Carried(F, C)'
  BY <1>4, <1>19 DEF Carried
<1> QED
  BY <1>16, <1>20, <1>21

-----------------------------------------------------------------------------
(* label_filter                                                            *)

\* A new list is a list.
LEMMA NewListFacts ==
  /\ NewList \in ListSet /\ ~NewList.done /\ NewList.words = <<>>
  /\ Len(NewList.words) = 0 /\ Labelled(NewList)
<1>1. NewList.words = <<>> /\ NewList.rngs = <<>> /\ NewList.label = 0 /\ ~NewList.done
  BY DEF NewList
<1>2. <<>> \in Seq([Lane -> Word]) /\ <<>> \in Seq(Draws)
  OBVIOUS
<1>3. NewList \in [words: Seq([Lane -> Word]), rngs: Seq(Draws),
                   label: Labels \union {0}, done: BOOLEAN]
  BY <1>2 DEF NewList
<1>4. NewList \in ListSet
  BY <1>1, <1>3, Zenon DEF ListSet
<1>5. Labelled(NewList)
  BY <1>1, LabelledEmpty
<1>6. Len(<<>>) = 0
  OBVIOUS
<1> QED
  BY <1>1, <1>4, <1>5, <1>6, Zenon

\* What a line leaves open is a list that is not ended.
LEMMA RestFacts ==
  ASSUME NEW x \in Items
  PROVE  Current(Rest(x.list))
<1>1. x.list \in ListSet /\ Labelled(x.list) /\ x.prev \in ListSet
      /\ x.line \in [Lane -> Word] /\ x.list.words = Append(x.prev.words, x.line)
  BY DEF Items, GoodItem, Extends
<1>2. x.prev.words \in Seq([Lane -> Word])
  BY <1>1 DEF ListSet
<1>3. x.list.words # <<>>
  BY <1>1, <1>2, AppendProperties, SMTT(30)
<1> QED
  BY <1>1, <1>3, NewListFacts, Zenon DEF Rest, Current

\* Every line is numbered from its list.
LEMMA Numbers ==
  ASSUME NEW F \in Seq(Items), NEW b \in Nat, Numbered(F, b), NEW k \in 1 .. Len(F)
  PROVE  F[k].nr \in Nat /\ F[k].nr >= b + 1
<1>1. F # <<>> /\ 1 \in 1 .. Len(F) /\ 1 <= k
  OBVIOUS
<1>2. F[1].nr = b + 1 /\ F[1].nr <= F[k].nr
  BY <1>1 DEF Numbered
<1>3. F[k] \in Items
  OBVIOUS
<1>4. F[k].nr \in Nat
  BY <1>3 DEF Items
<1> QED
  BY <1>2, <1>4

\* label_filter adds to the list the last line left open.
LEMMA OpenFacts ==
  ASSUME TypeOK, NEW F, NEW C, NEW b, InFlight(F, C, b)
  PROVE  /\ OpenList = Cur(F, C, Len(F))
         /\ Current(OpenList)
         /\ Len(OpenList.words) \in Nat /\ Len(OpenList.words) <= fed
         /\ ~Open => OpenList = NewList
         /\ F = <<>> => (IF Open THEN Len(lists) = 1 ELSE Len(lists) = 0)
         /\ F # <<>> => /\ Len(lists) \in Nat \ {0} /\ F[Len(F)].nr = b + Len(lists)
                        /\ Open <=> ~F[Len(F)].list.done
<1>1. /\ F \in Seq(Items) /\ Current(C) /\ b \in Nat /\ Numbered(F, b)
      /\ Listed(F, C, b, lists) /\ Fits(F, C)
  BY DEF InFlight
<1>2. lists \in Seq(ListSet) /\ Len(lists) \in Nat /\ fed \in Nat
  BY <1>1, LabelAssumption DEF Listed, TypeOK
<1>3. CASE F = <<>>
  <2>1. Len(F) = 0 /\ Cur(F, C, Len(F)) = C
    BY <1>3 DEF Cur
  <2>2. CASE C.words = <<>>
    <3>1. lists = <<>> /\ C = NewList
      BY <1>1, <1>3, <2>2 DEF Listed, Current
    <3>2. ~Open /\ OpenList = C /\ Len(lists) = 0
      BY <3>1 DEF Open, OpenList
    <3> QED
      BY <1>1, <1>3, <2>1, <3>1, <3>2 DEF Fits, Current, ListSet
  <2>3. CASE C.words # <<>>
    <3>1. lists = <<C>> /\ ~C.done
      BY <1>1, <1>3, <2>3 DEF Listed, Current
    <3>2. Len(lists) = 1 /\ lists[1] = C /\ lists # <<>>
      BY <3>1
    <3>3. Open /\ OpenList = C
      BY <3>1, <3>2, Zenon DEF Open, OpenList
    <3> QED
      BY <1>1, <1>3, <2>1, <3>2, <3>3 DEF Fits, Current, ListSet
  <2> QED
    BY <2>2, <2>3
<1>4. CASE F # <<>>
  <2> DEFINE x == F[Len(F)]
             n == Len(F)
  <2>1. n \in Nat /\ n # 0 /\ n \in 1 .. n /\ x \in Items
    BY <1>1, <1>4
  <2>2. x.nr = b + Len(lists) /\ lists[Len(lists)] = x.list
    BY <1>1, <1>4 DEF Listed
  <2>3. Len(lists) >= 1
    <3>1. x.nr >= b + 1
      BY <1>1, <2>1, Numbers
    <3> QED
      BY <1>1, <1>2, <2>2, <3>1
  <2>4. lists # <<>>
    BY <1>2, <2>3
  <2>5. Cur(F, C, n) = Rest(x.list)
    BY <2>1, Zenon DEF Cur
  <2>6. Len(x.list.words) <= fed
    BY <1>1, <2>1 DEF Fits
  <2>7. Open <=> ~x.list.done
    BY <2>2, <2>4, Zenon DEF Open
  <2>8. OpenList = Rest(x.list)
    BY <2>2, <2>7, Zenon DEF OpenList, Rest
  <2>9. Current(Rest(x.list))
    BY <2>1, RestFacts
  <2>10. Len(OpenList.words) \in Nat
    BY <2>8, <2>9 DEF Current, ListSet
  <2>11. Len(OpenList.words) <= fed
    <3>1. CASE x.list.done
      <4>1. Len(OpenList.words) = 0
        BY <2>8, <3>1, NewListFacts, Zenon DEF Rest
      <4> QED
        BY <1>2, <4>1
    <3>2. CASE ~x.list.done
      BY <2>6, <2>8, <3>2 DEF Rest
    <3> QED
      BY <3>1, <3>2
  <2>12. ~Open => OpenList = NewList
    BY DEF OpenList
  <2> QED
    BY <1>2, <1>4, <2>2, <2>3, <2>5, <2>7, <2>8, <2>9, <2>10, <2>11, <2>12
<1> QED
  BY <1>3, <1>4

\* The lists after a line: the open one is replaced, or one is added.
LEMMA ListsAfter ==
  ASSUME lists \in Seq(ListSet), NEW nl \in ListSet, NEW ls, ls = Append(Closed, nl)
  PROVE  /\ ls \in Seq(ListSet)
         /\ Len(ls) = IF Open THEN Len(lists) ELSE Len(lists) + 1
         /\ Len(ls) \in Nat \ {0} /\ ls[Len(ls)] = nl
         /\ \A i \in 1 .. Len(ls) - 1 : i \in 1 .. Len(lists) /\ ls[i] = lists[i]
<1>1. Len(lists) \in Nat
  OBVIOUS
<1>2. /\ Closed \in Seq(ListSet)
      /\ Len(Closed) = IF Open THEN Len(lists) - 1 ELSE Len(lists)
      /\ Len(Closed) \in Nat
      /\ \A i \in 1 .. Len(Closed) : i \in 1 .. Len(lists) /\ Closed[i] = lists[i]
  <2>1. CASE Open
    <3>1. Len(lists) >= 1
      BY <2>1 DEF Open
    <3>2. Closed = SubSeq(lists, 1, Len(lists) - 1)
      BY <2>1 DEF Closed
    <3> DEFINE m == Len(lists) - 1
    <3>3. m \in Nat /\ 1 \in Int /\ m \in Int /\ \A i \in 1 .. m : i \in 1 .. Len(lists)
      BY <1>1, <3>1
    <3>4. \A i \in 1 .. m : lists[i] \in ListSet
      BY <3>3
    <3> HIDE DEF m
    <3>5. /\ Closed \in Seq(ListSet)
          /\ Len(Closed) = IF 1 <= m THEN m - 1 + 1 ELSE 0
          /\ \A i \in 1 .. m - 1 + 1 : Closed[i] = lists[1 + i - 1]
      BY <3>2, <3>3, <3>4, SubSeqProperties DEF m
    <3>6. Len(Closed) = m
      BY <3>3, <3>5
    <3>7. \A i \in 1 .. m : i \in 1 .. m - 1 + 1 /\ 1 + i - 1 = i
      BY <3>3
    <3>8. \A i \in 1 .. m : Closed[i] = lists[i]
      BY <3>5, <3>7
    <3> QED
      BY <2>1, <3>3, <3>5, <3>6, <3>8 DEF m
  <2>2. CASE ~Open
    BY <1>1, <2>2 DEF Closed
  <2> QED
    BY <2>1, <2>2
<1>3. /\ ls \in Seq(ListSet) /\ Len(ls) = Len(Closed) + 1
      /\ \A i \in 1 .. Len(Closed) : ls[i] = Closed[i]
      /\ ls[Len(Closed) + 1] = nl
  BY <1>2, PushElements
<1>4. Len(ls) - 1 = Len(Closed) /\ Len(ls) \in Nat \ {0}
  BY <1>2, <1>3
<1>5. Len(ls) = IF Open THEN Len(lists) ELSE Len(lists) + 1
  BY <1>1, <1>2, <1>3
<1> QED
  BY <1>2, <1>3, <1>4, <1>5

\* The numbers and the lists after a line.
LEMMA NumberedAfter ==
  ASSUME TypeOK, NEW F, NEW C, NEW b, InFlight(F, C, b), NEW x \in Items, NEW ls,
         ls = Append(Closed, x.list), x.nr = b + Len(ls)
  PROVE  /\ Numbered(Append(F, x), b)
         /\ Listed(Append(F, x), C, b, ls)
<1> DEFINE G == Append(F, x)
           n == Len(F)
<1>1. /\ F \in Seq(Items) /\ b \in Nat /\ Numbered(F, b) /\ Listed(F, C, b, lists)
      /\ lists \in Seq(ListSet) /\ Len(lists) \in Nat
  BY DEF InFlight, Listed
<1>2. x.list \in ListSet
  BY DEF Items
<1>3. /\ ls \in Seq(ListSet) /\ Len(ls) = IF Open THEN Len(lists) ELSE Len(lists) + 1
      /\ Len(ls) \in Nat \ {0} /\ ls[Len(ls)] = x.list
      /\ \A i \in 1 .. Len(ls) - 1 : i \in 1 .. Len(lists) /\ ls[i] = lists[i]
  <2> DEFINE nl == x.list
  <2>1. nl \in ListSet /\ ls = Append(Closed, nl) /\ lists \in Seq(ListSet)
    BY <1>1, <1>2
  <2> HIDE DEF nl
  <2>2. /\ ls \in Seq(ListSet) /\ Len(ls) = IF Open THEN Len(lists) ELSE Len(lists) + 1
        /\ Len(ls) \in Nat \ {0} /\ ls[Len(ls)] = nl
        /\ \A i \in 1 .. Len(ls) - 1 : i \in 1 .. Len(lists) /\ ls[i] = lists[i]
    BY <2>1, ListsAfter
  <2> QED
    BY <2>2, Zenon DEF nl
<1>4. /\ G \in Seq(Items) /\ Len(G) = n + 1 /\ n \in Nat /\ G # <<>>
      /\ \A k \in 1 .. n : G[k] = F[k]
      /\ G[n + 1] = x
  BY <1>1, PushElements, SMTT(30)
<1>5. /\ F = <<>> => (IF Open THEN Len(lists) = 1 ELSE Len(lists) = 0)
      /\ F # <<>> => /\ F[n].nr = b + Len(lists)
                     /\ Open <=> ~F[n].list.done
  BY OpenFacts
<1> HIDE DEF G
<1>6. n # 0 => /\ F # <<>> /\ n \in 1 .. n
               /\ x.nr = IF F[n].list.done THEN F[n].nr + 1 ELSE F[n].nr
               /\ F[n].nr <= x.nr
  <2>1. SUFFICES ASSUME n # 0
                 PROVE  /\ F # <<>> /\ n \in 1 .. n
                        /\ x.nr = IF F[n].list.done THEN F[n].nr + 1 ELSE F[n].nr
                        /\ F[n].nr <= x.nr
    OBVIOUS
  <2>2. F # <<>> /\ n \in 1 .. n
    BY <1>4, <2>1
  <2>3. F[n].nr = b + Len(lists) /\ (Open <=> ~F[n].list.done)
    BY <1>5, <2>2
  <2>4. CASE Open
    BY <1>1, <1>3, <2>2, <2>3, <2>4
  <2>5. CASE ~Open
    BY <1>1, <1>3, <2>2, <2>3, <2>5
  <2> QED
    BY <2>4, <2>5
<1>7. \A k \in 1 .. n : F[k].nr \in Nat /\ F[k].nr >= b + 1
  BY <1>1, Numbers
<1>8. \A k \in 1 .. n : F[k].nr <= x.nr
  <2> TAKE k \in 1 .. n
  <2>1. n # 0 /\ n \in 1 .. n /\ k <= n
    BY <1>4
  <2>2. F[k].nr <= F[n].nr
    BY <1>1, <2>1 DEF Numbered
  <2>3. F[n].nr <= x.nr
    BY <1>6, <2>1
  <2>4. F[k].nr \in Nat /\ F[n].nr \in Nat /\ x.nr \in Nat
    BY <1>1, <1>3, <1>7, <2>1
  <2> QED
    BY <2>2, <2>3, <2>4
<1>9. \A k \in 1 .. n : F[k].list.done => F[k].nr < x.nr
  <2> TAKE k \in 1 .. n
  <2>1. SUFFICES ASSUME F[k].list.done
                 PROVE  F[k].nr < x.nr
    OBVIOUS
  <2>2. n # 0 /\ n \in 1 .. n /\ (k = n \/ k < n)
    BY <1>4
  <2>3. F[k].nr \in Nat /\ F[n].nr \in Nat /\ x.nr \in Nat
    BY <1>1, <1>3, <1>7, <2>2
  <2>4. CASE k = n
    BY <1>6, <2>1, <2>2, <2>3, <2>4
  <2>5. CASE k < n
    <3>1. F[k].nr < F[n].nr
      BY <1>1, <2>1, <2>2, <2>5 DEF Numbered
    <3> QED
      BY <1>6, <2>2, <2>3, <3>1
  <2> QED
    BY <2>2, <2>4, <2>5
<1>10. G[1].nr = b + 1
  <2>1. CASE n = 0
    <3>1. F = <<>>
      BY <1>1, <2>1
    <3>2. Len(ls) = 1
      BY <1>3, <1>5, <3>1
    <3> QED
      BY <1>4, <2>1, <3>2
  <2>2. CASE n # 0
    <3>1. F # <<>> /\ 1 \in 1 .. n
      BY <1>4, <2>2
    <3> QED
      BY <1>1, <1>4, <3>1 DEF Numbered
  <2> QED
    BY <2>1, <2>2
<1>11. ASSUME NEW k \in 2 .. Len(G)
       PROVE  G[k].nr = IF G[k - 1].list.done THEN G[k - 1].nr + 1 ELSE G[k - 1].nr
  <2>1. k - 1 \in 1 .. n /\ G[k - 1] = F[k - 1] /\ (k = n + 1 \/ k \in 2 .. n)
    BY <1>4
  <2>2. CASE k = n + 1
    <3>1. n # 0 /\ k - 1 = n
      BY <1>4, <2>1, <2>2
    <3> QED
      BY <1>4, <1>6, <2>1, <2>2, <3>1
  <2>3. CASE k \in 2 .. n
    <3>1. G[k] = F[k]
      BY <1>4, <2>3
    <3> QED
      BY <1>1, <2>1, <2>3, <3>1 DEF Numbered
  <2> QED
    BY <2>1, <2>2, <2>3
<1>12. \A k \in 1 .. Len(G) : k = n + 1 \/ k \in 1 .. n
  BY <1>4
<1>13. x.nr \in Nat
  BY <1>1, <1>3
<1>14. ASSUME NEW i \in 1 .. Len(G), NEW k \in 1 .. Len(G)
       PROVE  /\ i <= k => G[i].nr <= G[k].nr
              /\ i < k /\ G[i].list.done => G[i].nr < G[k].nr
  <2>1. CASE k = n + 1
    <3>1. CASE i = n + 1
      BY <1>4, <1>13, <2>1, <3>1
    <3>2. CASE i \in 1 .. n
      BY <1>4, <1>8, <1>9, <2>1, <3>2
    <3> QED
      BY <1>12, <3>1, <3>2
  <2>2. CASE k \in 1 .. n
    <3>1. CASE i = n + 1
      BY <1>4, <2>2, <3>1
    <3>2. CASE i \in 1 .. n
      <4>1. G[i] = F[i] /\ G[k] = F[k]
        BY <1>4, <2>2, <3>2
      <4> QED
        BY <1>1, <2>2, <3>2, <4>1 DEF Numbered
    <3> QED
      BY <1>12, <3>1, <3>2
  <2> QED
    BY <1>12, <2>1, <2>2
<1>15. Numbered(G, b)
  BY <1>10, <1>11, <1>14 DEF Numbered
<1>16. ASSUME NEW k \in 1 .. Len(G), G[k].list.done
       PROVE  ls[G[k].nr - b] = G[k].list
  <2>1. CASE k = n + 1
    <3>1. G[k] = x /\ x.nr - b = Len(ls)
      BY <1>1, <1>3, <1>4, <2>1
    <3> QED
      BY <1>3, <3>1
  <2>2. CASE k \in 1 .. n
    <3>1. G[k] = F[k]
      BY <1>4, <2>2
    <3>2. F[k].nr \in Nat /\ F[k].nr >= b + 1 /\ F[k].nr < b + Len(ls)
      BY <1>7, <1>9, <1>16, <2>2, <3>1
    <3>3. F[k].nr - b \in 1 .. Len(ls) - 1
      BY <1>1, <1>3, <3>2, SMTT(30)
    <3>4. lists[F[k].nr - b] = F[k].list
      BY <1>1, <1>16, <2>2, <3>1 DEF Listed
    <3> QED
      BY <1>3, <3>1, <3>3, <3>4
  <2> QED
    BY <1>12, <2>1, <2>2
<1>17. Listed(G, C, b, ls)
  BY <1>3, <1>4, <1>16 DEF Listed
<1> QED
  BY <1>15, <1>17 DEF G

\* line x comes in
Fed(x) ==
    /\ bs' = Append(bs, SyncOf(x))
    /\ weight_in' = Append(weight_in, LineOf(x))
    /\ rng' = Append(rng, x.r)
    /\ UNCHANGED <<mask, scale, sums, partial, weight, bs_perfix, bs_sample>>

\* The streams when a line comes in.
LEMMA StreamsPush ==
  ASSUME TypeOK, SyncType, NEW F \in Seq(Items), Streams(F), NEW x \in Items, Fed(x)
  PROVE  /\ Streams(Append(F, x))'
         /\ bs' \in Seq(SyncSet) /\ weight_in' \in Seq(WeightSet) /\ rng' \in Seq(Draws)
<1> DEFINE G == Append(F, x)
<1>1. /\ G \in Seq(Items) /\ Len(G) = Len(F) + 1 /\ Len(F) \in Nat
  BY PushElements
<1>2. /\ Len(mask) \in Nat /\ Len(scale) \in Nat /\ Len(sums) \in Nat
      /\ Len(partial) \in Nat /\ Len(weight_in) \in Nat /\ Len(weight) \in Nat
      /\ Len(rng) \in Nat /\ Len(bs) \in Nat /\ Len(bs_perfix) \in Nat
      /\ Len(bs_sample) \in Nat
  BY Lengths
<1>3. /\ bs \in Seq(SyncSet) /\ bs_perfix \in Seq(SyncSet) /\ bs_sample \in Seq(SyncSet)
      /\ weight_in \in Seq(WeightSet) /\ weight \in Seq(WeightSet)
      /\ partial \in Seq(PartialSet) /\ scale \in Seq(PartialSet)
      /\ sums \in Seq(SumSet) /\ rng \in Seq(Draws) /\ mask \in Seq(MaskSet)
  BY DEF TypeOK, SyncType, SumSet, PartialSet, Draws, WeightSet, MaskSet
<1>4. /\ SyncOf(x) \in SyncSet /\ LineOf(x) \in WeightSet /\ x.r \in Draws
      /\ PartialSum(LineOf(x)) \in PartialSet /\ ScaledOf(x) \in PartialSet
      /\ SumOf(x) \in SumSet /\ MaskOf(x) \in MaskSet
  BY ItemFacts
<1>5. /\ Syncs(F) \in Seq(SyncSet) /\ Len(Syncs(F)) = Len(F)
      /\ LinesOf(F) \in Seq(WeightSet) /\ Len(LinesOf(F)) = Len(F)
      /\ Partials(F) \in Seq(PartialSet) /\ SumsOf(F) \in Seq(SumSet)
      /\ RngsOf(F) \in Seq(Draws) /\ Len(RngsOf(F)) = Len(F)
      /\ Scaleds(F) \in Seq(PartialSet) /\ Masks(F) \in Seq(MaskSet)
  BY MapTypes
<1>6. /\ Syncs(G) = Append(Syncs(F), SyncOf(x)) /\ LinesOf(G) = Append(LinesOf(F), LineOf(x))
      /\ Partials(G) = Append(Partials(F), PartialSum(LineOf(x)))
      /\ SumsOf(G) = Append(SumsOf(F), SumOf(x)) /\ RngsOf(G) = Append(RngsOf(F), x.r)
      /\ Scaleds(G) = Append(Scaleds(F), ScaledOf(x))
      /\ Masks(G) = Append(Masks(F), MaskOf(x))
  BY MapPush
<1> HIDE DEF G
<1> DEFINE m == Len(mask)
           c == m + Len(scale)
           a == c + Len(sums)
           n == a + Len(partial)
<1>7. m \in Nat /\ c \in Nat /\ a \in Nat /\ n \in Nat /\ 0 \in Nat
  BY <1>2
<1>8. /\ Part(mask, Masks(F), 0) /\ Part(scale, Scaleds(F), m) /\ Part(sums, SumsOf(F), c)
      /\ Part(partial, Partials(F), a) /\ Part(weight_in, LinesOf(F), n)
      /\ Part(weight, LinesOf(F), m) /\ Part(rng, RngsOf(F), c)
      /\ Part(bs_sample, Syncs(F), 0) /\ Part(bs_perfix, Syncs(F), a)
      /\ Part(bs, Syncs(F), Len(bs_sample))
      /\ n + Len(weight_in) = Len(F) /\ m + Len(weight) + Len(weight_in) = Len(F)
      /\ c + Len(rng) = Len(F) /\ Len(bs_sample) + Len(bs) = Len(F)
      /\ a + Len(bs_perfix) = Len(bs_sample)
  BY DEF Streams
<1> HIDE DEF m, c, a, n
<1>9. Part(mask, Masks(G), 0)
  BY <1>3, <1>4, <1>5, <1>6, <1>7, <1>8, PartGrow
<1>10. Part(scale, Scaleds(G), m)
  BY <1>3, <1>4, <1>5, <1>6, <1>7, <1>8, PartGrow
<1>11. Part(sums, SumsOf(G), c)
  BY <1>3, <1>4, <1>5, <1>6, <1>7, <1>8, PartGrow
<1>12. Part(partial, Partials(G), a)
  BY <1>3, <1>4, <1>5, <1>6, <1>7, <1>8, PartGrow
<1>13. Part(weight, LinesOf(G), m)
  BY <1>3, <1>4, <1>5, <1>6, <1>7, <1>8, PartGrow
<1>14. Part(bs_sample, Syncs(G), 0)
  BY <1>3, <1>4, <1>5, <1>6, <1>7, <1>8, PartGrow
<1>15. Part(bs_perfix, Syncs(G), a)
  BY <1>3, <1>4, <1>5, <1>6, <1>7, <1>8, PartGrow
<1>16. Part(weight_in', LinesOf(G), n)
  <2>1. n + Len(weight_in) = Len(LinesOf(F))
    BY <1>5, <1>8
  <2>2. Part(Append(weight_in, LineOf(x)), Append(LinesOf(F), LineOf(x)), n)
    BY <1>3, <1>4, <1>5, <1>7, <1>8, <2>1, PartPushNew
  <2> QED
    BY <1>6, <2>2 DEF Fed
<1>17. Part(rng', RngsOf(G), c)
  <2>1. c + Len(rng) = Len(RngsOf(F))
    BY <1>5, <1>8
  <2>2. Part(Append(rng, x.r), Append(RngsOf(F), x.r), c)
    BY <1>3, <1>4, <1>5, <1>7, <1>8, <2>1, PartPushNew
  <2> QED
    BY <1>6, <2>2 DEF Fed
<1>18. Part(bs', Syncs(G), Len(bs_sample))
  <2>1. Len(bs_sample) + Len(bs) = Len(Syncs(F))
    BY <1>5, <1>8
  <2>2. Part(Append(bs, SyncOf(x)), Append(Syncs(F), SyncOf(x)), Len(bs_sample))
    BY <1>2, <1>3, <1>4, <1>5, <1>8, <2>1, PartPushNew
  <2> QED
    BY <1>6, <2>2 DEF Fed
<1>19. bs' \in Seq(SyncSet) /\ Len(bs') = Len(bs) + 1
  BY <1>3, <1>4, PushElements DEF Fed
<1>20. weight_in' \in Seq(WeightSet) /\ Len(weight_in') = Len(weight_in) + 1
  BY <1>3, <1>4, PushElements DEF Fed
<1>21. rng' \in Seq(Draws) /\ Len(rng') = Len(rng) + 1
  BY <1>3, <1>4, PushElements DEF Fed
<1>22. n + Len(weight_in') = Len(G)
  <2>1. n \in Nat /\ Len(weight_in) \in Nat
    BY <1>2, <1>7
  <2>2. n + Len(weight_in) = Len(F) /\ Len(weight_in') = Len(weight_in) + 1
    BY <1>8, <1>20
  <2>3. n + (Len(weight_in) + 1) = (n + Len(weight_in)) + 1
    BY <2>1
  <2>4. n + Len(weight_in') = Len(F) + 1
    BY <2>2, <2>3
  <2> QED
    BY <1>1, <2>4
<1>23. m + Len(weight) + Len(weight_in') = Len(G)
  <2>1. m + Len(weight) \in Nat /\ Len(weight_in) \in Nat
    BY <1>2, <1>7
  <2>2. m + Len(weight) + Len(weight_in) = Len(F) /\ Len(weight_in') = Len(weight_in) + 1
    BY <1>8, <1>20
  <2>3. (m + Len(weight)) + (Len(weight_in) + 1) = (m + Len(weight) + Len(weight_in)) + 1
    BY <2>1
  <2>4. m + Len(weight) + Len(weight_in') = Len(F) + 1
    BY <2>2, <2>3
  <2> QED
    BY <1>1, <2>4
<1>24. c + Len(rng') = Len(G)
  <2>1. c \in Nat /\ Len(rng) \in Nat
    BY <1>2, <1>7
  <2>2. c + Len(rng) = Len(F) /\ Len(rng') = Len(rng) + 1
    BY <1>8, <1>21
  <2>3. c + (Len(rng) + 1) = (c + Len(rng)) + 1
    BY <2>1
  <2>4. c + Len(rng') = Len(F) + 1
    BY <2>2, <2>3
  <2> QED
    BY <1>1, <2>4
<1>25. Len(bs_sample) + Len(bs') = Len(G)
  <2>1. Len(bs_sample) \in Nat /\ Len(bs) \in Nat
    BY <1>2, <1>7
  <2>2. Len(bs_sample) + Len(bs) = Len(F) /\ Len(bs') = Len(bs) + 1
    BY <1>8, <1>19
  <2>3. Len(bs_sample) + (Len(bs) + 1) = (Len(bs_sample) + Len(bs)) + 1
    BY <2>1
  <2>4. Len(bs_sample) + Len(bs') = Len(F) + 1
    BY <2>2, <2>3
  <2> QED
    BY <1>1, <2>4
<1>26. Streams(G)'
  BY <1>8, <1>9, <1>10, <1>11, <1>12, <1>13, <1>14, <1>15, <1>16, <1>17, <1>18,
     <1>22, <1>23, <1>24, <1>25 DEF Fed, Streams, m, c, a, n
<1> QED
  BY <1>19, <1>20, <1>21, <1>26 DEF G

\* What the lines before left open does not change.
LEMMA CurPush ==
  ASSUME NEW F \in Seq(Items), NEW x \in Items, NEW C, NEW k \in 0 .. Len(F)
  PROVE  Cur(Append(F, x), C, k) = Cur(F, C, k)
<1>1. CASE k = 0
  BY <1>1 DEF Cur
<1>2. CASE k # 0
  <2>1. k \in 1 .. Len(F)
    BY <1>2
  <2>2. Append(F, x)[k] = F[k]
    BY <2>1
  <2> QED
    BY <1>2, <2>2, Zenon DEF Cur
<1> QED
  BY <1>1, <1>2

\* The invariant when a line comes in.
LEMMA LineAdded ==
  ASSUME TypeOK, SyncType, NEW F, NEW C, NEW b, InFlight(F, C, b),
         NEW x \in Items, Fed(x), lists' = Append(Closed, x.list), x.nr = b + Len(lists'),
         x.prev = OpenList, Len(x.list.words) = Len(OpenList.words) + 1,
         fed' = fed + 1, fed < MaxLines, base_sum' = base_sum, selected' = selected
  PROVE  TypeOK' /\ SyncType' /\ InFlight(Append(F, x), C, b)'
<1> DEFINE G == Append(F, x)
<1>1. /\ F \in Seq(Items) /\ Current(C) /\ b \in Nat /\ Linked(F, C) /\ Streams(F)
      /\ Carried(F, C) /\ Fits(F, C) /\ lists \in Seq(ListSet)
  BY DEF InFlight, Listed
<1>3. /\ bs_perfix' = bs_perfix /\ partial' = partial /\ weight' = weight /\ sums' = sums
      /\ scale' = scale /\ bs_sample' = bs_sample /\ mask' = mask
  BY DEF Fed
<1>4. /\ OpenList = Cur(F, C, Len(F))
      /\ Len(OpenList.words) \in Nat /\ Len(OpenList.words) <= fed
  BY OpenFacts
<1>5. fed \in Nat /\ fed' \in 0 .. MaxLines
  BY LabelAssumption DEF TypeOK
<1>12. /\ Streams(G)' /\ bs' \in Seq(SyncSet) /\ weight_in' \in Seq(WeightSet)
       /\ rng' \in Seq(Draws)
  BY <1>1, StreamsPush, Zenon
<1>13. Numbered(G, b) /\ Listed(G, C, b, lists')
  BY NumberedAfter, Zenon
<1>14. TypeOK' /\ SyncType'
  BY <1>3, <1>5, <1>12 DEF TypeOK, SyncType, WeightSet, Draws
<1>15. /\ G \in Seq(Items) /\ Len(G) = Len(F) + 1 /\ Len(F) \in Nat
       /\ \A k \in 1 .. Len(F) : G[k] = F[k]
       /\ G[Len(F) + 1] = x
  BY <1>1, PushElements
<1>16. \A k \in 0 .. Len(F) : Cur(G, C, k) = Cur(F, C, k)
  BY <1>1, CurPush
<1> HIDE DEF G
<1>17. Linked(G, C)
  <2>1. SUFFICES ASSUME NEW k \in 1 .. Len(G)
                 PROVE  G[k].prev = Cur(G, C, k - 1)
    BY DEF Linked
  <2>2. k - 1 \in 0 .. Len(F) /\ (k = Len(F) + 1 \/ k \in 1 .. Len(F))
    BY <1>15
  <2>3. CASE k = Len(F) + 1
    <3>1. k - 1 = Len(F)
      BY <1>15, <2>3
    <3> QED
      BY <1>4, <1>15, <1>16, <2>2, <2>3, <3>1
  <2>4. CASE k \in 1 .. Len(F)
    BY <1>1, <1>15, <1>16, <2>2, <2>4 DEF Linked
  <2> QED
    BY <2>2, <2>3, <2>4
<1>18. Carried(G, C)'
  <2> DEFINE a == Len(mask) + Len(scale) + Len(sums)
  <2>1. a \in 0 .. Len(F)
    <3>1. a \in Nat /\ Len(bs_perfix) \in Nat /\ Len(bs_sample) \in Nat /\ Len(bs) \in Nat
      BY Lengths
    <3>2. a + Len(bs_perfix) = Len(bs_sample) /\ Len(bs_sample) + Len(bs) = Len(F)
      BY <1>1 DEF Streams
    <3> HIDE DEF a
    <3> QED
      BY <3>1, <3>2
  <2>2. base_sum = After(Cur(F, C, a)).base /\ selected = After(C).selected
    BY <1>1 DEF Carried
  <2>3. Cur(G, C, a) = Cur(F, C, a)
    BY <1>16, <2>1
  <2> QED
    BY <1>3, <2>2, <2>3 DEF Carried
<1>19. Fits(G, C)'
  <2>1. Len(C.words) \in Nat /\ Len(C.words) <= fed
    BY <1>1 DEF Current, ListSet, Fits
  <2>2. Len(C.words) <= fed'
    BY <1>5, <2>1
  <2>3. ASSUME NEW k \in 1 .. Len(G)
        PROVE  Len(G[k].list.words) <= fed'
    <3>1. CASE k = Len(F) + 1
      <4>1. Len(G[k].list.words) = Len(OpenList.words) + 1
        BY <1>15, <3>1
      <4> QED
        BY <1>4, <1>5, <4>1
    <3>2. CASE k \in 1 .. Len(F)
      <4>1. G[k] = F[k] /\ F[k] \in Items /\ Len(F[k].list.words) <= fed
        BY <1>1, <1>15, <3>2 DEF Fits
      <4>2. Len(F[k].list.words) \in Nat
        BY <4>1 DEF Items, ListSet
      <4> QED
        BY <1>5, <4>1, <4>2
    <3> QED
      BY <1>15, <3>1, <3>2
  <2> QED
    BY <2>2, <2>3 DEF Fits
<1>20. InFlight(G, C, b)'
  BY <1>1, <1>12, <1>13, <1>15, <1>17, <1>18, <1>19 DEF InFlight
<1> QED
  BY <1>14, <1>20 DEF G

\* label_filter reads a line of the open list or the first one of a list.
LEMMA LabelFilterStep ==
  ASSUME TypeOK, SyncType, NEW F, NEW C, NEW b, InFlight(F, C, b), LabelFilter
  PROVE  TypeOK' /\ SyncType' /\ \E G : InFlight(G, C, b)'
<1>0. Current(OpenList) /\ (~Open => OpenList = NewList)
  BY OpenFacts
<1>1. b \in Nat /\ lists \in Seq(ListSet)
  BY DEF InFlight, Listed
<1>2. PICK label \in IF Open THEN {OpenList.label} ELSE Labels,
           words \in [Lane -> Labels \union OtherWords],
           r \in [Lane -> 0..RngMod - 1],
           end \in BOOLEAN :
         /\ bs' = Append(bs, [addr |-> Len(OpenList.words) * Lanes, end_of_burst |-> end])
         /\ weight_in' = Append(weight_in, Eligible(words, label))
         /\ rng' = Append(rng, r)
         /\ lists' = Append(Closed, [words |-> Append(OpenList.words, words),
                                     rngs |-> Append(OpenList.rngs, r),
                                     label |-> label, done |-> end])
  BY Zenon DEF LabelFilter
<1>3. /\ fed' = fed + 1 /\ fed < MaxLines
      /\ bs_perfix' = bs_perfix /\ partial' = partial /\ base_sum' = base_sum
      /\ weight' = weight /\ sums' = sums /\ scale' = scale
      /\ bs_sample' = bs_sample /\ mask' = mask /\ selected' = selected
  BY DEF LabelFilter, perfixVars, sampleVars
<1>4. label \in Labels \union {0} /\ (Open => label = OpenList.label)
  <2>1. OpenList.label \in Labels \union {0}
    BY OpenFacts DEF Current, ListSet
  <2> QED
    BY <2>1
<1>5. words \in [Lane -> Word] /\ r \in Draws
  BY DEF Word, Draws
<1>6. PICK p : p = OpenList
  OBVIOUS
<1>7. PICK nl : nl = [words |-> Append(p.words, words), rngs |-> Append(p.rngs, r),
                      label |-> label, done |-> end]
  OBVIOUS
<1>8. lists' = Append(Closed, nl)
  BY <1>2, <1>6, <1>7, Zenon
<1>9. p \in ListSet /\ Labelled(p) /\ (~Open => p = NewList)
  BY <1>0, <1>6 DEF Current
<1>10. /\ p.words \in Seq([Lane -> Word]) /\ p.rngs \in Seq(Draws)
       /\ Len(p.rngs) = Len(p.words) /\ Len(p.words) \in Nat
  BY <1>9 DEF ListSet
<1>11. /\ nl.words = Append(p.words, words) /\ nl.rngs = Append(p.rngs, r)
       /\ nl.label = label /\ nl.done = end
  BY <1>7
<1>12. /\ Append(p.words, words) \in Seq([Lane -> Word])
       /\ Len(Append(p.words, words)) = Len(p.words) + 1
  BY <1>5, <1>10
<1>13. /\ Append(p.rngs, r) \in Seq(Draws)
       /\ Len(Append(p.rngs, r)) = Len(p.rngs) + 1
  BY <1>5, <1>10
<1>14. nl \in ListSet
  <2>1. nl \in [words: Seq([Lane -> Word]), rngs: Seq(Draws),
                label: Labels \union {0}, done: BOOLEAN]
    BY <1>4, <1>7, <1>12, <1>13
  <2>2. Len(nl.rngs) = Len(nl.words)
    BY <1>10, <1>11, <1>12, <1>13, Zenon
  <2> QED
    BY <2>1, <2>2, Zenon DEF ListSet
<1>15. Extends(nl, p, words, r)
  <2>1. p.words # <<>> => label = p.label
    BY <1>4, <1>6, <1>9, NewListFacts, Zenon
  <2> QED
    BY <1>11, <2>1, Zenon DEF Extends
<1>16. Labelled(nl)
  BY <1>5, <1>9, <1>15, LabelledExtends, Zenon
<1>17. Len(lists') \in Nat
  <2> DEFINE ls == lists'
  <2>1. ls = Append(Closed, nl)
    BY <1>8
  <2> HIDE DEF ls
  <2>2. Len(ls) \in Nat
    BY <1>1, <1>14, <2>1, ListsAfter
  <2> QED
    BY <2>2 DEF ls
<1>18. PICK nr \in Nat : nr = b + Len(lists')
  BY <1>1, <1>17
<1>19. PICK x : x = [list |-> nl, prev |-> p, line |-> words, r |-> r, nr |-> nr]
  OBVIOUS
<1>20. x.list = nl /\ x.prev = p /\ x.line = words /\ x.r = r /\ x.nr = nr
  BY <1>19
<1>21. x \in Items
  <2>1. x \in [list: ListSet, prev: ListSet, line: [Lane -> Word], r: Draws, nr: Nat]
    BY <1>5, <1>9, <1>14, <1>19
  <2> QED
    BY <1>9, <1>15, <1>16, <1>20, <2>1, Zenon DEF Items, GoodItem
<1>22. Fed(x)
  <2>1. SyncOf(x) = [addr |-> Len(OpenList.words) * Lanes, end_of_burst |-> end]
    BY <1>6, <1>11, <1>20, Zenon DEF SyncOf
  <2>2. LineOf(x) = Eligible(words, label)
    BY <1>11, <1>20, Zenon DEF LineOf
  <2> QED
    BY <1>2, <1>3, <1>20, <2>1, <2>2, Zenon DEF Fed
<1>23. TypeOK' /\ SyncType' /\ InFlight(Append(F, x), C, b)'
  <2>1. /\ lists' = Append(Closed, x.list) /\ x.nr = b + Len(lists') /\ x.prev = OpenList
        /\ Len(x.list.words) = Len(OpenList.words) + 1
    BY <1>6, <1>8, <1>11, <1>12, <1>18, <1>20, Zenon
  <2> QED
    BY <1>3, <1>21, <1>22, <2>1, LineAdded, Zenon
<1> QED
  BY <1>23, Zenon

-----------------------------------------------------------------------------
(* sample                                                                  *)

\* sample takes the sync packet and the bits of a line
Taken ==
    /\ bs_sample # <<>> /\ mask # <<>>
    /\ bs_sample' = Tail(bs_sample)
    /\ mask' = Tail(mask)
    /\ UNCHANGED <<bs, bs_perfix, weight_in, rng, partial, weight, sums, scale>>

\* The streams when sample has taken a line.
LEMMA StreamsPop ==
  ASSUME TypeOK, SyncType, NEW F \in Seq(Items), Streams(F), Taken
  PROVE  /\ F # <<>> /\ Head(bs_sample) = SyncOf(F[1]) /\ Head(mask) = MaskOf(F[1])
         /\ Streams(Tail(F))'
         /\ bs_sample' \in Seq(SyncSet) /\ mask' \in Seq(MaskSet)
         /\ Len(mask') = Len(mask) - 1
         /\ Len(mask) + Len(scale) + Len(sums) \in 1 .. Len(F)
<1> DEFINE G == Tail(F)
<1>2. /\ Len(mask) \in Nat /\ Len(scale) \in Nat /\ Len(sums) \in Nat
      /\ Len(partial) \in Nat /\ Len(weight_in) \in Nat /\ Len(weight) \in Nat
      /\ Len(rng) \in Nat /\ Len(bs) \in Nat /\ Len(bs_perfix) \in Nat
      /\ Len(bs_sample) \in Nat
  BY Lengths
<1>3. /\ bs \in Seq(SyncSet) /\ bs_perfix \in Seq(SyncSet) /\ bs_sample \in Seq(SyncSet)
      /\ weight_in \in Seq(WeightSet) /\ weight \in Seq(WeightSet)
      /\ partial \in Seq(PartialSet) /\ scale \in Seq(PartialSet)
      /\ sums \in Seq(SumSet) /\ rng \in Seq(Draws) /\ mask \in Seq(MaskSet)
  BY DEF TypeOK, SyncType, SumSet, PartialSet, Draws, WeightSet, MaskSet
<1>4. /\ Tail(mask) \in Seq(MaskSet) /\ Len(mask) >= 1 /\ Len(Tail(mask)) = Len(mask) - 1
  BY <1>3, PopElements DEF Taken
<1>5. /\ Tail(bs_sample) \in Seq(SyncSet) /\ Len(bs_sample) >= 1
      /\ Len(Tail(bs_sample)) = Len(bs_sample) - 1
  BY <1>3, PopElements DEF Taken
<1>6. /\ Syncs(F) \in Seq(SyncSet) /\ Len(Syncs(F)) = Len(F)
      /\ LinesOf(F) \in Seq(WeightSet) /\ Len(LinesOf(F)) = Len(F)
      /\ Partials(F) \in Seq(PartialSet) /\ Len(Partials(F)) = Len(F)
      /\ SumsOf(F) \in Seq(SumSet) /\ Len(SumsOf(F)) = Len(F)
      /\ RngsOf(F) \in Seq(Draws) /\ Len(RngsOf(F)) = Len(F)
      /\ Scaleds(F) \in Seq(PartialSet) /\ Len(Scaleds(F)) = Len(F)
      /\ Masks(F) \in Seq(MaskSet) /\ Len(Masks(F)) = Len(F)
  BY MapTypes
<1> DEFINE m == Len(mask)
           c == m + Len(scale)
           a == c + Len(sums)
           n == a + Len(partial)
           e == Len(bs_sample)
<1>7. /\ m \in Nat \ {0} /\ c \in Nat \ {0} /\ a \in Nat \ {0} /\ n \in Nat \ {0}
      /\ e \in Nat \ {0} /\ 1 \in Nat \ {0} /\ 0 \in Nat
  BY <1>2, <1>4, <1>5, SMTT(30)
<1>8. /\ Part(mask, Masks(F), 0) /\ Part(scale, Scaleds(F), m) /\ Part(sums, SumsOf(F), c)
      /\ Part(partial, Partials(F), a) /\ Part(weight_in, LinesOf(F), n)
      /\ Part(weight, LinesOf(F), m) /\ Part(rng, RngsOf(F), c)
      /\ Part(bs_sample, Syncs(F), 0) /\ Part(bs_perfix, Syncs(F), a)
      /\ Part(bs, Syncs(F), e)
      /\ n + Len(weight_in) = Len(F) /\ m + Len(weight) + Len(weight_in) = Len(F)
      /\ c + Len(rng) = Len(F) /\ e + Len(bs) = Len(F)
      /\ a + Len(bs_perfix) = e
  BY DEF Streams
<1> HIDE DEF m, c, a, n, e
<1>9. F # <<>> /\ Len(F) \in Nat \ {0}
  <2>1. e + Len(bs) = Len(F)
    BY <1>8
  <2>2. Len(F) \in Nat
    OBVIOUS
  <2>3. Len(F) # 0
    BY <1>2, <1>7, <2>1
  <2> QED
    BY <2>2, <2>3
<1>10. /\ Len(G) = Len(F) - 1 /\ G \in Seq(Items)
  BY <1>9, PopElements
<1>11. /\ Syncs(G) = Tail(Syncs(F)) /\ LinesOf(G) = Tail(LinesOf(F))
       /\ Partials(G) = Tail(Partials(F)) /\ SumsOf(G) = Tail(SumsOf(F))
       /\ RngsOf(G) = Tail(RngsOf(F)) /\ Scaleds(G) = Tail(Scaleds(F))
       /\ Masks(G) = Tail(Masks(F))
  BY <1>9, MapPop
<1>12. /\ Syncs(F) # <<>> /\ LinesOf(F) # <<>> /\ Partials(F) # <<>> /\ SumsOf(F) # <<>>
       /\ RngsOf(F) # <<>> /\ Scaleds(F) # <<>> /\ Masks(F) # <<>>
  <2>1. Len(<<>>) = 0
    OBVIOUS
  <2>2. Len(F) # 0
    BY <1>9
  <2> QED
    BY <1>6, <2>1, <2>2, Zenon
<1>13. Syncs(F)[1] = SyncOf(F[1]) /\ Masks(F)[1] = MaskOf(F[1])
  BY <1>9 DEF Syncs, Masks
<1>14. Head(mask) = Masks(F)[1] /\ Part(Tail(mask), Masks(F), 1)
  <2> DEFINE z == 0
  <2>1. mask # <<>> /\ z \in Nat /\ Part(mask, Masks(F), z)
    BY <1>8 DEF Taken
  <2> HIDE DEF z
  <2>2. Head(mask) = Masks(F)[z + 1] /\ Part(Tail(mask), Masks(F), z + 1)
    BY <1>3, <1>6, <2>1, PartPop
  <2>3. z + 1 = 1
    BY DEF z
  <2> QED
    BY <2>2, <2>3
<1>15. Head(bs_sample) = Syncs(F)[1] /\ Part(Tail(bs_sample), Syncs(F), 1)
  <2> DEFINE z == 0
  <2>1. bs_sample # <<>> /\ z \in Nat /\ Part(bs_sample, Syncs(F), z)
    BY <1>8 DEF Taken
  <2> HIDE DEF z
  <2>2. Head(bs_sample) = Syncs(F)[z + 1] /\ Part(Tail(bs_sample), Syncs(F), z + 1)
    BY <1>3, <1>6, <2>1, PartPop
  <2>3. z + 1 = 1
    BY DEF z
  <2> QED
    BY <2>2, <2>3
<1>16. 1 - 1 = 0
  OBVIOUS
<1> HIDE DEF G
<1>17. Part(Tail(mask), Masks(G), 0)
  <2>1. Part(Tail(mask), Tail(Masks(F)), 1 - 1)
    BY <1>4, <1>6, <1>7, <1>12, <1>14, PartShift
  <2> QED
    BY <1>11, <1>16, <2>1
<1>18. Part(Tail(bs_sample), Syncs(G), 0)
  <2>1. Part(Tail(bs_sample), Tail(Syncs(F)), 1 - 1)
    BY <1>5, <1>6, <1>7, <1>12, <1>15, PartShift
  <2> QED
    BY <1>11, <1>16, <2>1
<1>19. Part(scale, Scaleds(G), m - 1)
  BY <1>3, <1>6, <1>7, <1>8, <1>11, <1>12, PartShift
<1>20. Part(sums, SumsOf(G), c - 1)
  BY <1>3, <1>6, <1>7, <1>8, <1>11, <1>12, PartShift
<1>21. Part(partial, Partials(G), a - 1)
  BY <1>3, <1>6, <1>7, <1>8, <1>11, <1>12, PartShift
<1>22. Part(weight_in, LinesOf(G), n - 1)
  BY <1>3, <1>6, <1>7, <1>8, <1>11, <1>12, PartShift
<1>23. Part(weight, LinesOf(G), m - 1)
  BY <1>3, <1>6, <1>7, <1>8, <1>11, <1>12, PartShift
<1>24. Part(rng, RngsOf(G), c - 1)
  BY <1>3, <1>6, <1>7, <1>8, <1>11, <1>12, PartShift
<1>25. Part(bs_perfix, Syncs(G), a - 1)
  BY <1>3, <1>6, <1>7, <1>8, <1>11, <1>12, PartShift
<1>26. Part(bs, Syncs(G), e - 1)
  BY <1>3, <1>6, <1>7, <1>8, <1>11, <1>12, PartShift
<1>27. /\ mask' = Tail(mask) /\ bs_sample' = Tail(bs_sample)
       /\ bs' = bs /\ bs_perfix' = bs_perfix /\ weight_in' = weight_in /\ rng' = rng
       /\ partial' = partial /\ weight' = weight /\ sums' = sums /\ scale' = scale
  BY DEF Taken
<1>28. Len(mask') = m - 1 /\ Len(bs_sample') = e - 1
  BY <1>4, <1>5, <1>27 DEF m, e
<1>29. /\ (m - 1) + Len(scale) = c - 1
       /\ (c - 1) + Len(sums) = a - 1
       /\ (a - 1) + Len(partial) = n - 1
  <2>1. c = m + Len(scale) /\ a = c + Len(sums) /\ n = a + Len(partial)
    BY DEF c, a, n
  <2> QED
    BY <1>2, <1>7, <2>1
<1>30. /\ (n - 1) + Len(weight_in) = Len(G)
       /\ (c - 1) + Len(rng) = Len(G)
       /\ (e - 1) + Len(bs) = Len(G)
  <2>1. n + Len(weight_in) = Len(F) /\ c + Len(rng) = Len(F) /\ e + Len(bs) = Len(F)
    BY <1>8
  <2> QED
    BY <1>2, <1>7, <1>9, <1>10, <2>1, SMTT(30)
<1>31. /\ (m - 1) + Len(weight) + Len(weight_in) = Len(G)
       /\ (a - 1) + Len(bs_perfix) = e - 1
  <2>1. m + Len(weight) + Len(weight_in) = Len(F) /\ a + Len(bs_perfix) = e
    BY <1>8
  <2> QED
    BY <1>2, <1>7, <1>9, <1>10, <2>1, SMTT(30)
<1>32. /\ Len(mask)' = m - 1 /\ Len(bs_sample)' = e - 1
       /\ (Len(mask) + Len(scale))' = c - 1
       /\ (Len(mask) + Len(scale) + Len(sums))' = a - 1
       /\ (Len(mask) + Len(scale) + Len(sums) + Len(partial))' = n - 1
  BY <1>27, <1>28, <1>29
<1>33. Streams(G)'
  BY <1>17, <1>18, <1>19, <1>20, <1>21, <1>22, <1>23, <1>24, <1>25, <1>26, <1>27,
     <1>30, <1>31, <1>32 DEF Streams
<1>34. a \in 1 .. Len(F)
  <2>1. e + Len(bs) = Len(F) /\ a + Len(bs_perfix) = e
    BY <1>8
  <2> QED
    BY <1>2, <1>7, <2>1
<1>35. a = Len(mask) + Len(scale) + Len(sums)
  BY DEF m, c, a
<1> QED
  BY <1>4, <1>5, <1>9, <1>13, <1>14, <1>15, <1>27, <1>33, <1>34, <1>35 DEF G

\* What the lines left open, without the oldest one.
LEMMA CurPop ==
  ASSUME NEW F \in Seq(Items), F # <<>>, NEW C, NEW k \in 1 .. Len(F)
  PROVE  Cur(Tail(F), Rest(F[1].list), k - 1) = Cur(F, C, k)
<1>1. /\ \A i \in 1 .. Len(F) - 1 : Tail(F)[i] = F[i + 1]
      /\ Len(F) \in Nat /\ k # 0
  BY PopElements
<1>2. CASE k = 1
  BY <1>2 DEF Cur
<1>3. CASE k # 1
  <2>1. k - 1 \in 1 .. Len(F) - 1 /\ (k - 1) + 1 = k /\ k - 1 # 0
    BY <1>1, <1>3
  <2>2. Tail(F)[k - 1] = F[k]
    BY <1>1, <2>1
  <2> QED
    BY <1>1, <2>1, <2>2, Zenon DEF Cur
<1> QED
  BY <1>2, <1>3

\* what is left when the oldest line is done with
NumberAfter(F, b) == IF F[1].list.done THEN b + 1 ELSE b
ListsLeft(F, ls)  == IF F[1].list.done THEN Tail(ls) ELSE ls

\* The numbers of the lines, without the oldest one.
LEMMA NumberedPop ==
  ASSUME NEW F \in Seq(Items), F # <<>>, NEW b \in Nat, Numbered(F, b), NEW b1,
         b1 = NumberAfter(F, b)
  PROVE  Numbered(Tail(F), b1)
<1> DEFINE G == Tail(F)
<1>1. /\ G \in Seq(Items) /\ Len(G) = Len(F) - 1 /\ Len(F) \in Nat /\ Len(F) >= 1
      /\ \A i \in 1 .. Len(F) - 1 : G[i] = F[i + 1]
  BY PopElements
<1> HIDE DEF G
<1>2. \A i \in 1 .. Len(G) : i + 1 \in 1 .. Len(F) /\ G[i] = F[i + 1]
  BY <1>1
<1>3. F[1].nr = b + 1
  BY DEF Numbered
<1>4. G # <<>> => G[1].nr = b1 + 1
  <2>1. SUFFICES ASSUME G # <<>>
                 PROVE  G[1].nr = b1 + 1
    OBVIOUS
  <2>2. Len(G) # 0
    BY <1>1, <2>1
  <2>3. 1 \in 1 .. Len(G) /\ 2 \in 2 .. Len(F) /\ 1 + 1 = 2 /\ 2 - 1 = 1
    BY <1>1, <2>2
  <2>4. G[1] = F[2]
    BY <1>2, <2>3
  <2>5. F[2].nr = IF F[1].list.done THEN F[1].nr + 1 ELSE F[1].nr
    BY <2>3 DEF Numbered
  <2> QED
    BY <1>3, <2>4, <2>5 DEF NumberAfter
<1>5. ASSUME NEW k \in 2 .. Len(G)
      PROVE  G[k].nr = IF G[k - 1].list.done THEN G[k - 1].nr + 1 ELSE G[k - 1].nr
  <2>1. k \in 1 .. Len(G) /\ k - 1 \in 1 .. Len(G) /\ (k - 1) + 1 = (k + 1) - 1
        /\ k + 1 \in 2 .. Len(F)
    BY <1>1
  <2>2. G[k] = F[k + 1] /\ G[k - 1] = F[(k + 1) - 1]
    BY <1>2, <2>1
  <2> QED
    BY <2>1, <2>2 DEF Numbered
<1>6. ASSUME NEW i \in 1 .. Len(G), NEW k \in 1 .. Len(G)
      PROVE  /\ i <= k => G[i].nr <= G[k].nr
             /\ i < k /\ G[i].list.done => G[i].nr < G[k].nr
  <2>1. /\ i + 1 \in 1 .. Len(F) /\ k + 1 \in 1 .. Len(F)
        /\ G[i] = F[i + 1] /\ G[k] = F[k + 1]
    BY <1>2
  <2>2. (i <= k => i + 1 <= k + 1) /\ (i < k => i + 1 < k + 1)
    OBVIOUS
  <2> QED
    BY <2>1, <2>2 DEF Numbered
<1> QED
  BY <1>4, <1>5, <1>6 DEF Numbered, G

\* Only one list is left if the last one has the next number.
LEMMA OneLeft ==
  ASSUME NEW p \in Nat, NEW q \in Nat
  PROVE  /\ p + 1 = p + q => q = 1
         /\ q = p - 1 /\ q = 0 => p = 1
OBVIOUS

\* The lists, without the one of the oldest line if that was its last.
LEMMA ListedPop ==
  ASSUME NEW F \in Seq(Items), F # <<>>, NEW C, NEW b \in Nat, Numbered(F, b),
         NEW ls, Listed(F, C, b, ls), NEW b1, NEW ls1,
         b1 = NumberAfter(F, b), ls1 = ListsLeft(F, ls)
  PROVE  /\ Listed(Tail(F), Rest(F[1].list), b1, ls1)
         /\ F[1].list.done => Head(ls) = F[1].list
<1> DEFINE G == Tail(F)
           C1 == Rest(F[1].list)
           n == Len(F)
<1>1. /\ G \in Seq(Items) /\ Len(G) = n - 1 /\ n \in Nat /\ n >= 1
      /\ \A i \in 1 .. n - 1 : G[i] = F[i + 1]
  BY PopElements
<1>2. 1 \in 1 .. n /\ n \in 1 .. n
  BY <1>1
<1>3. /\ ls \in Seq(ListSet) /\ Len(ls) \in Nat
      /\ F[n].nr = b + Len(ls) /\ ls[Len(ls)] = F[n].list
      /\ \A k \in 1 .. n : F[k].list.done => ls[F[k].nr - b] = F[k].list
  BY DEF Listed
<1>4. \A k \in 1 .. n : F[k].nr \in Nat /\ F[k].nr >= b + 1
  BY Numbers
<1>5. F[1].nr = b + 1
  BY DEF Numbered
<1>6. \A k \in 1 .. n : F[k].nr <= b + Len(ls)
  BY <1>1, <1>2, <1>3 DEF Numbered
<1>7. Len(ls) >= 1
  BY <1>2, <1>3, <1>5, <1>6
<1>8. ls # <<>>
  BY <1>3, <1>7
<1>9. C1 = IF F[1].list.done THEN NewList ELSE F[1].list
  BY DEF Rest
<1>10. \A k \in 1 .. Len(G) : k + 1 \in 1 .. n /\ G[k] = F[k + 1]
  BY <1>1
<1>11. G # <<>> => Len(G) \in 1 .. Len(G) /\ Len(G) + 1 = n /\ 1 < n /\ G[Len(G)] = F[n]
  <2>1. SUFFICES ASSUME G # <<>>
                 PROVE  Len(G) \in 1 .. Len(G) /\ Len(G) + 1 = n /\ 1 < n /\ G[Len(G)] = F[n]
    OBVIOUS
  <2>2. Len(G) # 0
    BY <1>1, <2>1
  <2>3. Len(G) \in 1 .. Len(G) /\ Len(G) + 1 = n /\ 1 < n
    BY <1>1, <2>2
  <2> QED
    BY <1>10, <2>3
<1>12. G = <<>> => n = 1
  <2>1. Len(<<>>) = 0
    OBVIOUS
  <2>2. Len(G) \in Nat /\ Len(G) = n - 1 /\ n \in Nat
    BY <1>1
  <2>3. Len(G) = 0 => n = 1
    BY <2>2, OneLeft, Zenon
  <2> QED
    BY <2>1, <2>3, Zenon
<1>l. Len(ls) \in Nat
  BY <1>3
<1> HIDE DEF G, C1
<1>13. CASE F[1].list.done
  <2>1. ls1 = Tail(ls) /\ b1 = b + 1 /\ C1 = NewList
    BY <1>9, <1>13 DEF NumberAfter, ListsLeft
  <2>2. /\ Head(ls) = ls[1] /\ ls1 \in Seq(ListSet) /\ Len(ls1) = Len(ls) - 1
        /\ \A i \in 1 .. Len(ls) - 1 : ls1[i] = ls[i + 1]
    BY <1>3, <1>8, <2>1, PopElements
  <2>3. Head(ls) = F[1].list
    <3>1. (b + 1) - b = 1
      OBVIOUS
    <3>2. ls[F[1].nr - b] = F[1].list
      BY <1>2, <1>3, <1>13
    <3> QED
      BY <1>5, <2>2, <3>1, <3>2
  <2>4. \A k \in 1 .. Len(G) : F[k + 1].nr > b + 1
    <3> TAKE k \in 1 .. Len(G)
    <3>1. k + 1 \in 1 .. n /\ 1 < k + 1
      BY <1>1, <1>10
    <3>2. F[1].nr < F[k + 1].nr
      BY <1>2, <1>13, <3>1 DEF Numbered
    <3> QED
      BY <1>5, <3>2
  <2>5. G = <<>> => ls1 = IF C1.words = <<>> THEN <<>> ELSE <<C1>>
    <3>1. SUFFICES ASSUME G = <<>>
                   PROVE  ls1 = <<>>
      BY <2>1, NewListFacts
    <3>2. n = 1
      BY <1>12, <3>1
    <3>3. b + 1 = b + Len(ls)
      BY <1>3, <1>5, <3>2
    <3>4. Len(ls) = 1
      BY <1>l, <3>3, OneLeft, Zenon
    <3>5. Len(ls1) = 0 /\ ls1 \in Seq(ListSet)
      BY <2>2, <3>4
    <3> QED
      BY <3>5, EmptySeq
  <2>6. G # <<>> => G[Len(G)].nr = b1 + Len(ls1) /\ ls1[Len(ls1)] = G[Len(G)].list
    <3>1. SUFFICES ASSUME G # <<>>
                   PROVE  G[Len(G)].nr = b1 + Len(ls1) /\ ls1[Len(ls1)] = G[Len(G)].list
      OBVIOUS
    <3>2. G[Len(G)] = F[n] /\ F[n].nr > b + 1
      BY <1>11, <2>4, <3>1
    <3>3. Len(ls1) \in 1 .. Len(ls) - 1 /\ Len(ls1) + 1 = Len(ls) /\ F[n].nr = b1 + Len(ls1)
      <4>1. Len(ls1) = Len(ls) - 1 /\ b1 = b + 1 /\ F[n].nr = b + Len(ls)
        BY <1>3, <2>1, <2>2
      <4> QED
        BY <1>l, <3>2, <4>1
    <3>4. ls1[Len(ls1)] = ls[Len(ls)]
      BY <2>2, <3>3
    <3> QED
      BY <1>3, <3>2, <3>3, <3>4
  <2>7. ASSUME NEW k \in 1 .. Len(G), G[k].list.done
        PROVE  ls1[G[k].nr - b1] = G[k].list
    <3>1. k + 1 \in 1 .. n /\ G[k] = F[k + 1] /\ F[k + 1].nr > b + 1
      BY <1>10, <2>4
    <3>2. F[k + 1].nr \in Nat /\ F[k + 1].nr <= b + Len(ls)
      BY <1>4, <1>6, <3>1
    <3> DEFINE d == F[k + 1].nr
    <3>3. d - b1 \in 1 .. Len(ls) - 1 /\ (d - b1) + 1 = d - b
      <4>1. d \in Nat /\ d > b + 1 /\ d <= b + Len(ls) /\ b1 = b + 1
        BY <2>1, <3>1, <3>2
      <4> HIDE DEF d
      <4> QED
        BY <1>l, <4>1
    <3>4. ls[d - b] = F[k + 1].list
      BY <1>3, <2>7, <3>1
    <3>5. ls1[d - b1] = ls[(d - b1) + 1]
      BY <2>2, <3>3
    <3> QED
      BY <3>1, <3>3, <3>4, <3>5
  <2> QED
    BY <2>2, <2>3, <2>5, <2>6, <2>7, Zenon DEF Listed, G, C1
<1>14. CASE ~F[1].list.done
  <2>1. ls1 = ls /\ b1 = b /\ C1 = F[1].list
    BY <1>9, <1>14 DEF NumberAfter, ListsLeft
  <2>2. C1.words # <<>>
    <3> DEFINE x == F[1]
    <3>1. x \in Items /\ ~x.list.done
      BY <1>2, <1>14
    <3> HIDE DEF x
    <3>2. /\ x.prev.words \in Seq([Lane -> Word]) /\ x.line \in [Lane -> Word]
          /\ x.list.words = Append(x.prev.words, x.line)
      BY <3>1 DEF Items, GoodItem, Extends, ListSet
    <3>3. Append(x.prev.words, x.line) # <<>>
      BY <3>2, AppendProperties, SMTT(30)
    <3> QED
      BY <2>1, <3>2, <3>3 DEF x
  <2>3. G = <<>> => ls1 = IF C1.words = <<>> THEN <<>> ELSE <<C1>>
    <3>1. SUFFICES ASSUME G = <<>>
                   PROVE  ls1 = <<C1>>
      BY <2>2
    <3>2. n = 1
      BY <1>12, <3>1
    <3>3. b + 1 = b + Len(ls)
      BY <1>3, <1>5, <3>2
    <3>4. Len(ls) = 1
      BY <1>l, <3>3, OneLeft, Zenon
    <3>5. ls[1] = C1
      BY <1>3, <2>1, <3>2, <3>4
    <3> QED
      BY <1>3, <2>1, <3>4, <3>5
  <2>4. G # <<>> => G[Len(G)].nr = b1 + Len(ls1) /\ ls1[Len(ls1)] = G[Len(G)].list
    BY <1>3, <1>11, <2>1
  <2>5. ASSUME NEW k \in 1 .. Len(G), G[k].list.done
        PROVE  ls1[G[k].nr - b1] = G[k].list
    BY <1>3, <1>10, <2>1, <2>5
  <2>6. ls1 \in Seq(ListSet)
    BY <1>3, <2>1
  <2> QED
    BY <1>14, <2>3, <2>4, <2>5, <2>6, Zenon DEF Listed, G, C1
<1> QED
  BY <1>13, <1>14

\* what sample selects with a line
Choice == Keep(selected, Head(bs_sample).addr, Head(mask))

\* sample takes a line, the last one of a list or not
Sampling ==
    /\ Taken
    /\ UNCHANGED <<fed, base_sum>>
    /\ selected' = IF Head(bs_sample).end_of_burst THEN Dead ELSE Choice
    /\ lists' = IF Head(bs_sample).end_of_burst THEN Tail(lists) ELSE lists

\* A word of a list is a word of the lines that were fed.
LEMMA SelectedFits ==
  ASSUME TypeOK, NEW l \in ListSet, Labelled(l), Len(l.words) <= fed
  PROVE  After(l).selected \in {Dead} \union 1 .. MaxLines * Lanes
<1>1. Len(l.words) \in Nat /\ fed \in Nat /\ fed <= MaxLines /\ MaxLines \in Nat
      /\ Lanes \in Nat
  BY LabelAssumption, ReservoirAssumption DEF TypeOK, ListSet
<1>2. Len(l.words) <= MaxLines
  BY <1>1
<1>3. Len(l.words) * Lanes <= MaxLines * Lanes
  BY <1>1, <1>2
<1>4. Len(l.words) * Lanes \in Nat /\ MaxLines * Lanes \in Nat
  BY <1>1
<1> DEFINE a == Len(l.words) * Lanes
           c == MaxLines * Lanes
<1>5. a \in Nat /\ c \in Nat /\ a <= c
  BY <1>3, <1>4
<1>6. After(l).selected = Dead \/ After(l).selected \in 1 .. a
  BY DEF Labelled
<1> HIDE DEF a, c
<1>7. After(l).selected = Dead \/ After(l).selected \in 1 .. c
  BY <1>5, <1>6
<1> QED
  BY <1>7 DEF c

\* sample goes on to the next line of the list or starts afresh.
LEMMA SampleStep ==
  ASSUME TypeOK, SyncType, NEW F, NEW C, NEW b, InFlight(F, C, b), Sampling
  PROVE  /\ TypeOK' /\ SyncType'
         /\ \E G, D, c : InFlight(G, D, c)'
         /\ Head(bs_sample).end_of_burst =>
              /\ Head(lists) \in ListSet /\ Labelled(Head(lists))
              /\ Choice = After(Head(lists)).selected
<1>1. /\ F \in Seq(Items) /\ Current(C) /\ b \in Nat /\ Linked(F, C) /\ Numbered(F, b)
      /\ Listed(F, C, b, lists) /\ Streams(F) /\ Carried(F, C) /\ Fits(F, C)
  BY DEF InFlight
<1>2. /\ Taken /\ fed' = fed /\ base_sum' = base_sum
      /\ selected' = IF Head(bs_sample).end_of_burst THEN Dead ELSE Choice
      /\ lists' = IF Head(bs_sample).end_of_burst THEN Tail(lists) ELSE lists
  BY DEF Sampling
<1>3. /\ F # <<>> /\ Head(bs_sample) = SyncOf(F[1]) /\ Head(mask) = MaskOf(F[1])
      /\ Streams(Tail(F))'
      /\ bs_sample' \in Seq(SyncSet) /\ mask' \in Seq(MaskSet)
      /\ Len(mask') = Len(mask) - 1
      /\ Len(mask) + Len(scale) + Len(sums) \in 1 .. Len(F)
  BY <1>1, <1>2, StreamsPop, Zenon
<1> DEFINE x == F[1]
           G == Tail(F)
           D == Rest(F[1].list)
           c == NumberAfter(F, b)
           a == Len(mask) + Len(scale) + Len(sums)
<1>4. 1 \in 1 .. Len(F) /\ x \in Items /\ 1 - 1 = 0
  BY <1>1, <1>3
<1>5. x.prev = C
  BY <1>1, <1>4 DEF Linked, Cur
<1>6. Head(bs_sample).end_of_burst = x.list.done
      /\ Head(bs_sample).addr = Len(C.words) * Lanes
  BY <1>3, <1>5 DEF SyncOf
<1>7. Choice = After(x.list).selected
  <2>1. selected = After(C).selected
    BY <1>1 DEF Carried
  <2>2. After(x.list).selected
          = Keep(After(x.prev).selected, Len(x.prev.words) * Lanes, MaskOf(x))
    BY <1>4, ItemFacts, Zenon
  <2> QED
    BY <1>3, <1>5, <1>6, <2>1, <2>2, Zenon DEF Choice
<1>8. x.list \in ListSet /\ Labelled(x.list)
  BY <1>4 DEF Items, GoodItem
<1>9. Listed(G, D, c, lists') /\ (x.list.done => Head(lists) = x.list)
  <2> DEFINE ls == lists
             ls1 == lists'
  <2>1. ls1 = ListsLeft(F, ls) /\ Listed(F, C, b, ls)
    BY <1>1, <1>2, <1>6, Zenon DEF ListsLeft
  <2> HIDE DEF ls, ls1
  <2>2. Listed(G, D, c, ls1) /\ (F[1].list.done => Head(ls) = F[1].list)
    BY <1>1, <1>3, <2>1, ListedPop, Zenon
  <2> QED
    BY <2>2 DEF ls, ls1
<1>10. Numbered(G, c) /\ c \in Nat
  <2>1. Numbered(G, c)
    BY <1>1, <1>3, NumberedPop, Zenon
  <2> QED
    BY <1>1, <2>1 DEF NumberAfter
<1>11. Current(D)
  BY <1>4, RestFacts
<1>12. selected' = After(D).selected
  <2>1. CASE x.list.done
    <3>1. D = NewList
      BY <2>1 DEF Rest
    <3>2. After(NewList) = StartState
      BY NewListFacts, AfterEmpty, Zenon
    <3>3. StartState.selected = Dead
      BY DEF StartState
    <3> QED
      BY <1>2, <1>6, <2>1, <3>1, <3>2, <3>3, Zenon
  <2>2. CASE ~x.list.done
    <3>1. D = x.list
      BY <2>2 DEF Rest
    <3> QED
      BY <1>2, <1>6, <1>7, <2>2, <3>1, Zenon
  <2> QED
    BY <2>1, <2>2
<1>13. /\ G \in Seq(Items) /\ Len(G) = Len(F) - 1 /\ Len(F) \in Nat
       /\ \A i \in 1 .. Len(F) - 1 : G[i] = F[i + 1]
  BY <1>1, <1>3, PopElements
<1>14. \A k \in 1 .. Len(F) : Cur(G, D, k - 1) = Cur(F, C, k)
  BY <1>1, <1>3, CurPop
<1>15. fed \in Nat
  BY LabelAssumption DEF TypeOK
<1>16. Len(D.words) <= fed
  <2>1. CASE x.list.done
    <3>1. D = NewList
      BY <2>1 DEF Rest
    <3>2. Len(D.words) = 0
      BY <3>1, NewListFacts, Zenon
    <3> QED
      BY <1>15, <3>2
  <2>2. CASE ~x.list.done
    <3>1. D = x.list
      BY <2>2 DEF Rest
    <3> QED
      BY <1>1, <1>4, <3>1 DEF Fits
  <2> QED
    BY <2>1, <2>2
<1>17. selected' \in {Dead} \union 1 .. MaxLines * Lanes
  <2>1. D \in ListSet /\ Labelled(D)
    BY <1>11 DEF Current
  <2> HIDE DEF D
  <2>2. After(D).selected \in {Dead} \union 1 .. MaxLines * Lanes
    BY <1>16, <2>1, SelectedFits, Zenon
  <2> QED
    BY <1>12, <2>2
<1>18. /\ bs' = bs /\ bs_perfix' = bs_perfix /\ weight_in' = weight_in /\ rng' = rng
       /\ partial' = partial /\ weight' = weight /\ sums' = sums /\ scale' = scale
  BY <1>2 DEF Taken
<1>19. TypeOK' /\ SyncType'
  BY <1>2, <1>3, <1>17, <1>18 DEF TypeOK, SyncType, MaskSet
<1> HIDE DEF G, D, c, x
<1>20. Linked(G, D)
  <2>1. SUFFICES ASSUME NEW k \in 1 .. Len(G)
                 PROVE  G[k].prev = Cur(G, D, k - 1)
    BY DEF Linked
  <2>2. k \in 1 .. Len(F) - 1 /\ k \in 1 .. Len(F) /\ k + 1 \in 1 .. Len(F) /\ (k + 1) - 1 = k
    BY <1>13
  <2>3. G[k] = F[k + 1] /\ F[k + 1].prev = Cur(F, C, k)
    BY <1>1, <1>13, <2>2 DEF Linked
  <2> QED
    BY <1>14, <2>2, <2>3
<1>21. Carried(G, D)'
  <2>1. base_sum = After(Cur(F, C, a)).base
    BY <1>1 DEF Carried
  <2>2. (Len(mask) + Len(scale) + Len(sums))' = a - 1
    <3>1. Len(mask) \in Nat /\ Len(scale) \in Nat /\ Len(sums) \in Nat
      BY Lengths
    <3>2. Len(mask') = Len(mask) - 1
      BY <1>3
    <3>3. (Len(mask) - 1) + Len(scale) + Len(sums) = a - 1
      BY <3>1
    <3> QED
      BY <1>18, <3>2, <3>3
  <2>3. Cur(G, D, a - 1) = Cur(F, C, a)
    BY <1>3, <1>14
  <2> HIDE DEF a
  <2> QED
    BY <1>2, <1>12, <2>1, <2>2, <2>3 DEF Carried
<1>22. Fits(G, D)'
  <2>1. ASSUME NEW k \in 1 .. Len(G)
        PROVE  Len(G[k].list.words) <= fed
    <3>1. k \in 1 .. Len(F) - 1 /\ k + 1 \in 1 .. Len(F)
      BY <1>13
    <3> QED
      BY <1>1, <1>13, <3>1 DEF Fits
  <2> QED
    BY <1>2, <1>16, <2>1 DEF Fits
<1>23. Streams(G)'
  BY <1>3 DEF G
<1>24. InFlight(G, D, c)'
  BY <1>9, <1>10, <1>11, <1>13, <1>20, <1>21, <1>22, <1>23 DEF InFlight
<1>25. Head(bs_sample).end_of_burst =>
         /\ Head(lists) \in ListSet /\ Labelled(Head(lists))
         /\ Choice = After(Head(lists)).selected
  BY <1>6, <1>7, <1>8, <1>9, Zenon
<1> QED
  BY <1>19, <1>24, <1>25, Zenon

-----------------------------------------------------------------------------
(* The theorems                                                            *)

\* Nothing is in flight at first.
LEMMA InitInv ==
  ASSUME Init
  PROVE  WrsInv
<1>1. /\ fed = 0 /\ bs = <<>> /\ weight_in = <<>> /\ rng = <<>> /\ bs_perfix = <<>>
      /\ bs_sample = <<>> /\ weight = <<>> /\ partial = <<>> /\ base_sum = 0 /\ sums = <<>>
      /\ scale = <<>> /\ mask = <<>> /\ selected = Dead
      /\ result = [to |-> Dead, list |-> NewList] /\ lists = <<>>
  BY DEF Init
<1>2. 0 \in 0 .. MaxLines /\ 0 \in 0 .. SumMod - 1
  BY LabelAssumption, ReservoirAssumption
<1>3. TypeOK
  BY <1>1, <1>2 DEF TypeOK
<1>4. SyncType
  BY <1>1 DEF SyncType
<1>5. After(NewList) = StartState /\ StartState.base = 0 /\ StartState.selected = Dead
  <2>1. After(NewList) = StartState
    BY NewListFacts, AfterEmpty, Zenon
  <2> QED
    BY <2>1 DEF StartState
<1>6. Sampled
  <2>1. result.list = NewList /\ result.to = Dead
    BY <1>1
  <2> QED
    BY <1>5, <2>1, NewListFacts, Zenon DEF Sampled
<1> DEFINE F == <<>>
<1>7. F \in Seq(Items) /\ Len(F) = 0 /\ 1 .. 0 = {} /\ 2 .. 0 = {} /\ 0 \in Nat
  OBVIOUS
<1>8. Syncs(F) = <<>> /\ LinesOf(F) = <<>> /\ Partials(F) = <<>> /\ SumsOf(F) = <<>>
      /\ RngsOf(F) = <<>> /\ Scaleds(F) = <<>> /\ Masks(F) = <<>>
  BY <1>7 DEF Syncs, LinesOf, Partials, SumsOf, RngsOf, Scaleds, Masks
<1>9. Part(<<>>, <<>>, 0)
  BY DEF Part
<1>10. Streams(F)
  <2>1. Len(<<>>) = 0 /\ 0 + 0 = 0
    OBVIOUS
  <2>2. /\ mask = <<>> /\ Len(mask) = 0 /\ Len(mask) + Len(scale) = 0
        /\ Len(mask) + Len(scale) + Len(sums) = 0
        /\ Len(mask) + Len(scale) + Len(sums) + Len(partial) = 0
        /\ Len(mask) + Len(weight) = 0 /\ Len(bs_sample) = 0
    BY <1>1, <2>1, Zenon
  <2> HIDE DEF F
  <2> QED
    BY <1>1, <1>7, <1>8, <1>9, <2>1, <2>2, Zenon DEF Streams
<1>11. Current(NewList)
  BY NewListFacts DEF Current
<1>12. Linked(F, NewList) /\ Numbered(F, 0)
  BY <1>7 DEF Linked, Numbered
<1>13. Listed(F, NewList, 0, lists)
  BY <1>1, <1>7, NewListFacts DEF Listed
<1>14. Carried(F, NewList)
  <2>1. Len(mask) + Len(scale) + Len(sums) = 0
    BY <1>1
  <2> QED
    BY <1>1, <1>5, <2>1, Zenon DEF Carried, Cur
<1>15. Fits(F, NewList)
  BY <1>1, <1>7, NewListFacts DEF Fits
<1>16. InFlight(F, NewList, 0)
  BY <1>7, <1>10, <1>11, <1>12, <1>13, <1>14, <1>15, Zenon DEF InFlight
<1> QED
  BY <1>3, <1>4, <1>6, <1>16, Zenon DEF WrsInv

\* A kernel between label_filter and sample leaves the lines in flight alone.
LEMMA KernelStep ==
  ASSUME TypeOK, SyncType, NEW F, NEW C, NEW b, InFlight(F, C, b),
         \/ BsDuplicator \/ DoPartialSum \/ PerfixSum \/ ScaleWeight \/ ReservoirMask
  PROVE  TypeOK' /\ SyncType' /\ InFlight(F, C, b)' /\ result' = result
<1>1. /\ F \in Seq(Items) /\ Current(C) /\ b \in Nat /\ Linked(F, C) /\ Numbered(F, b)
      /\ Listed(F, C, b, lists) /\ Streams(F) /\ Carried(F, C) /\ Fits(F, C)
  BY DEF InFlight
<1>2. TypeOK' /\ SyncType' /\ Streams(F)' /\ Carried(F, C)'
  BY <1>1, BsDuplicatorStep, DoPartialSumStep, PerfixSumStep, ScaleWeightStep,
     ReservoirMaskStep, Zenon
<1>3. fed' = fed /\ lists' = lists /\ result' = result
  BY DEF BsDuplicator, DoPartialSum, PerfixSum, ScaleWeight, ReservoirMask,
         feedVars, perfixVars, sampleVars
<1>4. Fits(F, C)' /\ Listed(F, C, b, lists)'
  BY <1>1, <1>3 DEF Fits
<1> QED
  BY <1>1, <1>2, <1>3, <1>4 DEF InFlight

\* Every step keeps the invariant.
LEMMA NextInv ==
  ASSUME WrsInv, [Next]_vars
  PROVE  WrsInv'
<1>1. TypeOK /\ SyncType /\ Sampled
  BY DEF WrsInv
<1>2. PICK F, C, b : InFlight(F, C, b)
  BY DEF WrsInv
<1>3. CASE LabelFilter
  <2>1. TypeOK' /\ SyncType' /\ \E G : InFlight(G, C, b)'
    BY <1>1, <1>2, <1>3, LabelFilterStep, Zenon
  <2>2. result' = result
    BY <1>3 DEF LabelFilter, sampleVars
  <2>3. Sampled'
    BY <1>1, <2>2 DEF Sampled
  <2> QED
    BY <2>1, <2>3, Zenon DEF WrsInv
<1>4. CASE BsDuplicator \/ DoPartialSum \/ PerfixSum \/ ScaleWeight \/ ReservoirMask
  <2>1. TypeOK' /\ SyncType' /\ InFlight(F, C, b)' /\ result' = result
    BY <1>1, <1>2, <1>4, KernelStep, Zenon
  <2>2. Sampled'
    BY <1>1, <2>1 DEF Sampled
  <2> QED
    BY <2>1, <2>2, Zenon DEF WrsInv
<1>5. CASE SampleEnd
  <2>1. Sampling /\ Head(bs_sample).end_of_burst
    BY <1>5 DEF SampleEnd, Sampling, Taken, Choice, perfixVars
  <2>2. /\ TypeOK' /\ SyncType'
        /\ \E G, D, c : InFlight(G, D, c)'
        /\ Head(lists) \in ListSet /\ Labelled(Head(lists))
        /\ Choice = After(Head(lists)).selected
    BY <1>1, <1>2, <2>1, SampleStep, Zenon
  <2>3. result'.to = Choice /\ result'.list = Head(lists)
    BY <1>5 DEF SampleEnd, Choice
  <2>4. Sampled'
    BY <2>2, <2>3 DEF Sampled
  <2> QED
    BY <2>2, <2>4, Zenon DEF WrsInv
<1>6. CASE SampleLine
  <2>1. Sampling /\ result' = result
    BY <1>6 DEF SampleLine, Sampling, Taken, Choice, perfixVars, feedVars
  <2>2. TypeOK' /\ SyncType' /\ \E G, D, c : InFlight(G, D, c)'
    BY <1>1, <1>2, <2>1, SampleStep, Zenon
  <2>3. Sampled'
    BY <1>1, <2>1 DEF Sampled
  <2> QED
    BY <2>2, <2>3, Zenon DEF WrsInv
<1>7. CASE UNCHANGED vars
  <2>1. /\ fed' = fed /\ bs' = bs /\ weight_in' = weight_in /\ bs_perfix' = bs_perfix
        /\ bs_sample' = bs_sample /\ weight' = weight /\ partial' = partial
        /\ base_sum' = base_sum /\ sums' = sums /\ rng' = rng /\ scale' = scale
        /\ mask' = mask /\ selected' = selected /\ result' = result /\ lists' = lists
    BY <1>7 DEF vars
  <2>2. TypeOK' /\ SyncType' /\ Sampled'
    BY <1>1, <2>1 DEF TypeOK, SyncType, Sampled
  <2>3. InFlight(F, C, b)'
    BY <1>2, <2>1 DEF InFlight, Streams, Carried, Fits
  <2> QED
    BY <2>2, <2>3, Zenon DEF WrsInv
<1>8. Idle => UNCHANGED vars
  BY DEF Idle
<1> QED
  BY <1>3, <1>4, <1>5, <1>6, <1>7, <1>8, Zenon DEF Next, Sample

\* The streams of the sampling kernels always hold the packets of the same
\* lines, in the order the lines came in, although no packet names its line
\* and the branches of the pipeline run at their own pace.
THEOREM LinesStayTogether == Spec => []WrsInv
<1>1. Init => WrsInv
  BY InitInv
<1>2. WrsInv /\ [Next]_vars => WrsInv'
  BY NextInv
<1> QED
  BY <1>1, <1>2, PTL DEF Spec

\* The sample that sample writes is the one the arithmetic of the reservoir
\* gives for the whole list and the random numbers drawn for it, and all sums
\* stay in the width of their words.
THEOREM SampleOfTheList == Spec => []SampleIsOfItsList
<1>1. WrsInv => SampleIsOfItsList
  BY Zenon DEF WrsInv, Sampled, SampleIsOfItsList, SampleOf, After, Weights
<1> QED
  BY <1>1, LinesStayTogether, PTL

\* The sampled word has the label that the metapath asks for, and a walk ends
\* only at a vertex without such a neighbour, for every width of the sums:
\* wrapping around never loses the first word with the label.
THEOREM SampleWithLabel == Spec => []SampleHasLabel
<1>1. WrsInv => SampleHasLabel
  <2>1. SUFFICES ASSUME WrsInv
                 PROVE  SampleHasLabel
    OBVIOUS
  <2>2. Labelled(result.list) /\ result.to = After(result.list).selected
    BY <2>1 DEF WrsInv, Sampled
  <2> QED
    BY <2>2, Zenon DEF Labelled, SampleHasLabel
<1> QED
  BY <1>1, LinesStayTogether, PTL
=============================================================================
